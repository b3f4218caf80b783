------------------------- MODULE NotificationEvent -------------------------
(***************************************************************************)
(* The event of DldSupportingCode: a word changed by compare-and-swap and  *)
(* the kernel's wait queue keyed by the word's address.                    *)
(*                                                                         *)
(*   0  initialized        1  the waiter prepares to enter the wait queue  *)
(*   3  signal state       2  the waiter is in the wait queue              *)
(*                                                                         *)
(* One thread may wait (the comment at the state table forbids more), any  *)
(* thread may set.  Every compare-and-swap and every call that touches the *)
(* wait queue is a step.  The code uses the event in three ways, and `use' *)
(* is the way of this event:                                               *)
(*   "completion"  a notification event on the waiter's stack, waited for  *)
(*                 once, without a timeout (the shadow requests, the SCSI  *)
(*                 commands, the media requests);                          *)
(*   "terminated"  a synchronization event, waited for once, without a     *)
(*                 timeout (sCachedNodeReaperTerminatedEvent);             *)
(*   "reaper"      a synchronization event, waited for with a timeout      *)
(*                 until a flag is seen that the setter raised before it   *)
(*                 set the event (sCachedNodeReaperEvent).                 *)
(* The stack of the waiter is used again: its next completion event lies   *)
(* at the same address and is another setter's to set.                     *)
(*                                                                         *)
(* An operator that stands before a definition and has its name, or one    *)
(* like it, varied is that definition with a plausible mistake; the        *)
(* properties are tried on them.                                           *)
(***************************************************************************)
EXTENDS Naturals

CONSTANTS
  SettersOfEvent, (* who calls DldSetNotificationEvent, once per event     *)
  Uses,           (* the uses to explore                                   *)
  MaxRounds       (* bound: how many events lie at the address in turn     *)

AllUses == {"completion", "terminated", "reaper"}

ASSUME EventAssumption == Uses \subseteq AllUses /\ MaxRounds \in Nat \ {0}

Setters == (1 .. MaxRounds) \X SettersOfEvent

VARIABLES
  use,      (* rigid: the way this event is used                           *)
  round,    (* how many events have lain at the address so far             *)
  event,    (* the word                                                    *)
  inQueue,  (* the waiter is in the wait queue of the word's address       *)
  wresult,  (* what thread_block returns: why the waiter left the queue    *)
  pcW,      (* where the waiter is                                         *)
  pcS,      (* where each setter is                                        *)
  flag      (* what a setter wrote before it set the event: the result of  *)
            (* the operation, or sTerminateCachedNodeReaper                *)

waiterVars == << inQueue, wresult, pcW >>
vars == << use, round, event, waiterVars, pcS, flag >>

Timed  == use = "reaper"
Resets == use \in {"terminated", "reaper"}

(* The word after OSCompareAndSwap(old, new, event), and its result.       *)
Swaps(old) == event = old
Added(old, new) == event + new - old
Swapped(old, new) == IF event = old THEN new ELSE event

----------------------------------------------------------------------------
(* DldWaitForNotificationEventWithTimeout and the two synchronization      *)
(* waits around it                                                         *)

TestSignal ==
  /\ pcW = "call"
  /\ pcW' = IF Swaps(3) THEN "awakened" ELSE "enter"
  /\ UNCHANGED << use, round, event, inQueue, wresult, pcS, flag >>

(* When the swap fails the code takes the event for signalled and does not *)
(* look at it again.                                                       *)
EnterAtOnce ==
  /\ pcW = "enter"
  /\ event' = Swapped(0, 2)
  /\ pcW' = IF Swaps(0) THEN "entering" ELSE "awakened"
  /\ UNCHANGED << use, round, inQueue, wresult, pcS, flag >>
Enter ==
  /\ pcW = "enter"
  /\ event' = Swapped(0, 1)
  /\ pcW' = IF Swaps(0) THEN "entering" ELSE "awakened"
  /\ UNCHANGED << use, round, inQueue, wresult, pcS, flag >>

AssertWait ==
  /\ pcW = "entering"
  /\ inQueue' = TRUE
  /\ pcW' = "queued"
  /\ UNCHANGED << use, round, event, wresult, pcS, flag >>

(* Only the waiter leaves state 1, so that this swap always succeeds.      *)
BlockUnannounced ==
  /\ pcW = "queued"
  /\ pcW' = "blocked"
  /\ UNCHANGED << use, round, event, inQueue, wresult, pcS, flag >>
AnnounceWait ==
  /\ pcW = "queued"
  /\ event' = Swapped(1, 2)
  /\ pcW' = "blocked"
  /\ UNCHANGED << use, round, inQueue, wresult, pcS, flag >>

Expire ==
  /\ Timed /\ inQueue
  /\ inQueue' = FALSE
  /\ wresult' = "timedOut"
  /\ UNCHANGED << use, round, event, pcW, pcS, flag >>

DoNotBlock ==
  /\ pcW = "blocked"
  /\ pcW' = wresult
  /\ UNCHANGED << use, round, event, inQueue, wresult, pcS, flag >>
Unblock ==
  /\ pcW = "blocked" /\ ~inQueue
  /\ pcW' = wresult
  /\ UNCHANGED << use, round, event, inQueue, wresult, pcS, flag >>

AfterTimeout ==
  /\ pcW = "timedOut"
  /\ event' = Swapped(2, 0)
  /\ pcW' = "back"
  /\ UNCHANGED << use, round, inQueue, wresult, pcS, flag >>

NeverReset ==
  /\ pcW = "awakened"
  /\ pcW' = "back"
  /\ UNCHANGED << use, round, event, inQueue, wresult, pcS, flag >>
AlwaysReset ==
  /\ pcW = "awakened"
  /\ event' = Swapped(3, 0)
  /\ pcW' = "back"
  /\ UNCHANGED << use, round, inQueue, wresult, pcS, flag >>
AfterWakeup ==
  /\ pcW = "awakened"
  /\ event' = IF Resets THEN Swapped(3, 0) ELSE event
  /\ pcW' = "back"
  /\ UNCHANGED << use, round, inQueue, wresult, pcS, flag >>

(* The caller: sCachedNodesSetTrimmer goes round until it sees the flag,   *)
(* the others go on.                                                       *)
Return ==
  /\ pcW = "back"
  /\ pcW' = IF use = "reaper" /\ ~flag THEN "call" ELSE "gone"
  /\ UNCHANGED << use, round, event, inQueue, wresult, pcS, flag >>

(* The waiter's next request: DldInitNotificationEvent at the old address. *)
Reuse ==
  /\ use = "completion" /\ pcW = "gone" /\ round < MaxRounds
  /\ round' = round + 1
  /\ event' = 0 /\ flag' = FALSE
  /\ pcW' = "call"
  /\ UNCHANGED << use, inQueue, wresult, pcS >>

----------------------------------------------------------------------------
(* DldSetNotificationEvent *)

(* A request is completed once: its completion event has one setter.       *)
Prepare(s) ==
  /\ pcS[s] = "idle" /\ s[1] = round
  /\ use = "completion" => \A t \in Setters \ {s} : t[1] = round => pcS[t] = "idle"
  /\ flag' = TRUE
  /\ pcS' = [pcS EXCEPT ![s] = "set"]
  /\ UNCHANGED << use, round, event, waiterVars >>

SetWithoutReturn(s) ==
  /\ pcS[s] = "set"
  /\ event' = Swapped(0, 3)
  /\ pcS' = [pcS EXCEPT ![s] = "spin"]
  /\ UNCHANGED << use, round, waiterVars, flag >>
SetFree(s) ==
  /\ pcS[s] = "set"
  /\ event' = Swapped(0, 3)
  /\ pcS' = [pcS EXCEPT ![s] = IF Swaps(0) THEN "done" ELSE "spin"]
  /\ UNCHANGED << use, round, waiterVars, flag >>

(* A collision with a waiter: spin until it is in the wait queue.          *)
SetWithoutWakeup(s) ==
  /\ pcS[s] = "spin" /\ Swaps(2)
  /\ event' = 3
  /\ pcS' = [pcS EXCEPT ![s] = "done"]
  /\ UNCHANGED << use, round, waiterVars, flag >>
SetWaiting(s) ==
  /\ pcS[s] = "spin" /\ Swaps(2)
  /\ event' = 3
  /\ pcS' = [pcS EXCEPT ![s] = "wakeup"]
  /\ UNCHANGED << use, round, waiterVars, flag >>

Wakeup(s) ==
  /\ pcS[s] = "wakeup"
  /\ inQueue' = FALSE
  /\ wresult' = IF inQueue THEN "awakened" ELSE wresult
  /\ pcS' = [pcS EXCEPT ![s] = "done"]
  /\ UNCHANGED << use, round, event, pcW, flag >>

----------------------------------------------------------------------------
(* DldInitNotificationEvent, before anybody else knows the event.          *)
Init ==
  /\ use \in Uses /\ round = 1
  /\ event = 0
  /\ inQueue = FALSE /\ wresult = "awakened" /\ pcW = "call"
  /\ pcS = [s \in Setters |-> "idle"]
  /\ flag = FALSE

WaiterStep ==
  \/ TestSignal \/ Enter \/ AssertWait \/ AnnounceWait \/ Unblock
  \/ AfterTimeout \/ AfterWakeup \/ Return

SetterStep(s) == Prepare(s) \/ SetFree(s) \/ SetWaiting(s) \/ Wakeup(s)

Next == WaiterStep \/ Expire \/ Reuse \/ \E s \in Setters : SetterStep(s)

Spec == Init /\ [][Next]_vars

(* The waiter and the setters run; a setter that spins retries for ever,   *)
(* so that it does not miss a state that returns again and again.  Nothing *)
(* is assumed of the timeouts.                                             *)
Fairness ==
  /\ WF_vars(WaiterStep)
  /\ \A s \in Setters : SF_vars(SetterStep(s))

FairSpec == Spec /\ Fairness

----------------------------------------------------------------------------
(* Properties *)

WaiterStates == {"call", "enter", "entering", "queued", "blocked",
                 "awakened", "timedOut", "back", "gone"}
SetterStates == {"idle", "set", "spin", "wakeup", "done"}

(* Every variable has its type; the word has one of the four states.       *)
TypeOK ==
  /\ round \in 1 .. MaxRounds
  /\ use \in AllUses
  /\ event \in {0, 1, 2, 3}
  /\ inQueue \in BOOLEAN /\ wresult \in {"awakened", "timedOut"}
  /\ pcW \in WaiterStates
  /\ pcS \in [Setters -> SetterStates]
  /\ flag \in BOOLEAN

(* State 1 is the waiter's between its two swaps, when preemption is off   *)
(* and the setter that meets it may spin.                                  *)
PreparingIsShort == event = 1 <=> pcW \in {"entering", "queued"}

(* The wakeup cannot come too early: a setter that found state 2 finds the *)
(* waiter in the wait queue, or out of it because its time is over.        *)
WakeupFindsWaiter ==
  event = 2 => /\ pcW \in {"blocked", "timedOut"}
               /\ inQueue \/ wresult = "timedOut"

(* No wakeup is lost: a waiter that sleeps although the event is set is    *)
(* about to be woken.                                                      *)
NoLostWakeup ==
  pcW = "blocked" /\ inQueue /\ event = 3 => \E s \in Setters : pcS[s] = "wakeup"

(* Both: the waker and the waiter do not miss each other.                  *)
NoMissedWakeup == WakeupFindsWaiter /\ NoLostWakeup

(* A wait without a timeout ends only after a setter has written what the  *)
(* waiter is going to read.                                                *)
NoEarlyReturn ==
  ~Timed /\ pcW \in {"awakened", "back", "gone"} => flag

(* The event lies on the waiter's stack: when the waiter has gone on, no   *)
(* setter is left that would still read or write the word.                 *)
NoTouchAfterReturn ==
  use = "completion" /\ pcW \in {"back", "gone"} =>
    \A s \in Setters : pcS[s] \notin {"set", "spin"}

(* A synchronization event is reset when a wait ends because it was set.   *)
ResetAfterWait ==
  [][Resets /\ pcW = "awakened" /\ pcW' = "back" => event' = 0]_vars

(* Whoever completes a request returns from setting its event: the loop    *)
(* ends (the comment in DldSetNotificationEvent).                          *)
SetReturns ==
  \A s \in Setters : use = "completion" /\ pcS[s] = "set" ~> pcS[s] = "done"

(* Once its completion event was set the waiter goes on.                   *)
WaiterReleased ==
  \A s \in Setters :
    use = "completion" /\ pcS[s] = "set" ~> pcW = "gone" \/ round > s[1]

(* Both: a completed request lets everybody go on.                         *)
EverybodyGoesOn == SetReturns /\ WaiterReleased

Event == INSTANCE Latch WITH
  raised <- use = "completion" /\ event = 3,
  passed <- use = "completion" /\ pcW \in {"awakened", "back", "gone"}

(* The word, the wait queue and the swaps make a latch of a completion     *)
(* event, for the events that lie at one address in turn.                  *)
IsLatch == Event!Spec
=============================================================================
