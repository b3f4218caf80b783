---------------------- MODULE NotificationEventProofs ----------------------
(***************************************************************************)
(* The event of DldSupportingCode, for any number of events in turn at one *)
(* address, any number of setters of each and every use the code makes of  *)
(* it; and the completion event with the one setter the code gives it.     *)
(***************************************************************************)
EXTENDS NotificationEvent, TLAPS

(***************************************************************************)
(* The inductive invariant.  A setter past its swap of state 2 has not yet *)
(* woken the waiter: the waiter is still in the queue, or its time is over *)
(* and it leaves for good because it sees the flag.                        *)
(***************************************************************************)
WaiterMatchesWord ==
  /\ PreparingIsShort
  /\ WakeupFindsWaiter
  /\ inQueue => pcW \in {"queued", "blocked"}
  /\ pcW = "blocked" => event \in {2, 3}
  /\ ~Timed => /\ wresult = "awakened" /\ pcW # "timedOut"
               /\ pcW = "queued" => inQueue
               /\ pcW = "blocked" /\ ~inQueue => event = 3
  /\ pcW = "queued" /\ ~inQueue => wresult = "timedOut"
  /\ pcW = "blocked" /\ ~inQueue /\ wresult = "awakened" => event = 3

WakerIsAwaited ==
  \A s \in Setters : pcS[s] = "wakeup" =>
    /\ ~Timed => pcW = "blocked" /\ inQueue /\ event = 3
    /\ Timed => flag
    /\ pcW \in {"blocked", "timedOut", "back", "gone"}
    /\ pcW \in {"blocked", "timedOut"} => event = 3
    /\ pcW = "blocked" => inQueue \/ wresult = "timedOut"
    /\ \A t \in Setters : pcS[t] = "wakeup" => t = s

FlagBeforeSet ==
  use = "reaper" => \A s \in Setters : pcS[s] # "idle" => flag

IInv == WaiterMatchesWord /\ WakerIsAwaited /\ FlagBeforeSet /\ NoLostWakeup

(* The state without the number of events: no arithmetic in it.            *)
StateTypes ==
  /\ use \in AllUses
  /\ event \in {0, 1, 2, 3}
  /\ inQueue \in BOOLEAN /\ wresult \in {"awakened", "timedOut"}
  /\ pcW \in WaiterStates
  /\ pcS \in [Setters -> SetterStates]
  /\ flag \in BOOLEAN

LEMMA RoundInRange == Spec => [](round \in 1 .. MaxRounds)
<1>1. Init => round \in 1 .. MaxRounds
  BY EventAssumption DEF Init, EventAssumption
<1>2. round \in 1 .. MaxRounds /\ [Next]_vars => (round \in 1 .. MaxRounds)'
  <2> SUFFICES ASSUME round \in 1 .. MaxRounds, [Next]_vars
               PROVE  round' \in 1 .. MaxRounds
    OBVIOUS
  <2>1. round' = round \/ (round < MaxRounds /\ round' = round + 1)
    BY DEF Next, vars, WaiterStep, TestSignal, Enter, AssertWait, AnnounceWait,
           Unblock, AfterTimeout, AfterWakeup, Return, Expire, Reuse, SetterStep,
           Prepare, SetFree, SetWaiting, Wakeup
  <2> QED
    BY <2>1, EventAssumption DEF EventAssumption
<1> QED
  BY <1>1, <1>2, PTL DEF Spec

(* Every variable keeps its type, in every use of the event.               *)
THEOREM TypeCorrect == Spec => []TypeOK
<1> USE DEF StateTypes, WaiterStates, SetterStates, AllUses
<1>1. Init => StateTypes
  BY EventAssumption DEF Init, EventAssumption
<1>2. StateTypes /\ [Next]_vars => StateTypes'
  <2> SUFFICES ASSUME StateTypes, [Next]_vars PROVE StateTypes'
    OBVIOUS
  <2> USE DEF Swapped, Swaps, waiterVars
  <2>1. CASE TestSignal
    BY <2>1 DEF TestSignal
  <2>2. CASE Enter
    BY <2>2 DEF Enter
  <2>3. CASE AssertWait
    BY <2>3 DEF AssertWait
  <2>4. CASE AnnounceWait
    BY <2>4 DEF AnnounceWait
  <2>5. CASE Unblock
    BY <2>5 DEF Unblock
  <2>6. CASE AfterTimeout
    BY <2>6 DEF AfterTimeout
  <2>7. CASE AfterWakeup
    BY <2>7 DEF AfterWakeup
  <2>8. CASE Return
    BY <2>8 DEF Return
  <2>9. CASE Expire
    BY <2>9 DEF Expire
  <2>10. CASE Reuse
    BY <2>10 DEF Reuse
  <2>11. ASSUME NEW s \in Setters, SetterStep(s) PROVE StateTypes'
    <3>1. CASE Prepare(s)
      BY <3>1 DEF Prepare
    <3>2. CASE SetFree(s)
      BY <3>2 DEF SetFree
    <3>3. CASE SetWaiting(s)
      BY <3>3 DEF SetWaiting
    <3>4. CASE Wakeup(s)
      BY <3>4 DEF Wakeup
    <3> QED
      BY <2>11, <3>1, <3>2, <3>3, <3>4 DEF SetterStep
  <2>12. CASE UNCHANGED vars
    BY <2>12 DEF vars, waiterVars
  <2> QED
    BY <2>1, <2>2, <2>3, <2>4, <2>5, <2>6, <2>7, <2>8, <2>9, <2>10, <2>11, <2>12
       DEF Next, WaiterStep
<1>3. StateTypes /\ round \in 1 .. MaxRounds => TypeOK
  BY DEF TypeOK
<1> QED
  BY <1>1, <1>2, <1>3, RoundInRange, PTL DEF Spec

(* The word and the wait queue agree after every step.                     *)
LEMMA WaiterMatchesWordKept ==
  ASSUME StateTypes, WaiterMatchesWord, WakerIsAwaited, FlagBeforeSet, [Next]_vars
  PROVE  WaiterMatchesWord'
<1> USE DEF StateTypes, WaiterStates, SetterStates, AllUses, Swapped, Swaps, waiterVars, Timed, Resets,
           WaiterMatchesWord, WakerIsAwaited, FlagBeforeSet, PreparingIsShort, WakeupFindsWaiter
<1>1. CASE TestSignal
  BY <1>1 DEF TestSignal
<1>2. CASE Enter
  BY <1>2 DEF Enter
<1>3. CASE AssertWait
  BY <1>3 DEF AssertWait
<1>4. CASE AnnounceWait
  BY <1>4 DEF AnnounceWait
<1>5. CASE Unblock
  BY <1>5 DEF Unblock
<1>6. CASE AfterTimeout
  BY <1>6 DEF AfterTimeout
<1>7. CASE AfterWakeup
  BY <1>7 DEF AfterWakeup
<1>8. CASE Return
  BY <1>8 DEF Return
<1>9. CASE Expire
  BY <1>9 DEF Expire
<1>10. CASE Reuse
  BY <1>10 DEF Reuse
<1>11. ASSUME NEW t \in Setters, SetterStep(t) PROVE WaiterMatchesWord'
  <2>1. CASE Prepare(t)
    BY <2>1 DEF Prepare
  <2>2. CASE SetFree(t)
    BY <2>2 DEF SetFree
  <2>3. CASE SetWaiting(t)
    BY <2>3 DEF SetWaiting
  <2>4. CASE Wakeup(t)
    BY <2>4 DEF Wakeup
  <2> QED
    BY <1>11, <2>1, <2>2, <2>3, <2>4 DEF SetterStep
<1>12. CASE UNCHANGED vars
  BY <1>12 DEF vars
<1> QED
  BY <1>1, <1>2, <1>3, <1>4, <1>5, <1>6, <1>7, <1>8,
     <1>9, <1>10, <1>11, <1>12 DEF Next, WaiterStep

(* A setter that is about to wake the waiter is not overtaken.             *)
LEMMA WakerIsAwaitedKept ==
  ASSUME StateTypes, WaiterMatchesWord, WakerIsAwaited, FlagBeforeSet, [Next]_vars
  PROVE  WakerIsAwaited'
<1> USE DEF StateTypes, WaiterStates, SetterStates, AllUses, Swapped, Swaps, waiterVars, Timed, Resets,
           WaiterMatchesWord, WakerIsAwaited, FlagBeforeSet, PreparingIsShort, WakeupFindsWaiter
<1>1. CASE TestSignal
  BY <1>1 DEF TestSignal
<1>2. CASE Enter
  BY <1>2 DEF Enter
<1>3. CASE AssertWait
  BY <1>3 DEF AssertWait
<1>4. CASE AnnounceWait
  BY <1>4 DEF AnnounceWait
<1>5. CASE Unblock
  BY <1>5 DEF Unblock
<1>6. CASE AfterTimeout
  BY <1>6 DEF AfterTimeout
<1>7. CASE AfterWakeup
  BY <1>7 DEF AfterWakeup
<1>8. CASE Return
  BY <1>8 DEF Return
<1>9. CASE Expire
  BY <1>9 DEF Expire
<1>10. CASE Reuse
  BY <1>10 DEF Reuse
<1>11. ASSUME NEW t \in Setters, SetterStep(t) PROVE WakerIsAwaited'
  <2>1. CASE Prepare(t)
    BY <2>1 DEF Prepare
  <2>2. CASE SetFree(t)
    BY <2>2 DEF SetFree
  <2>3. CASE SetWaiting(t)
    BY <2>3 DEF SetWaiting
  <2>4. CASE Wakeup(t)
    BY <2>4 DEF Wakeup
  <2> QED
    BY <1>11, <2>1, <2>2, <2>3, <2>4 DEF SetterStep
<1>12. CASE UNCHANGED vars
  BY <1>12 DEF vars
<1> QED
  BY <1>1, <1>2, <1>3, <1>4, <1>5, <1>6, <1>7, <1>8,
     <1>9, <1>10, <1>11, <1>12 DEF Next, WaiterStep

(* The flag of the reaper is raised before the event is touched.           *)
LEMMA FlagBeforeSetKept ==
  ASSUME StateTypes, FlagBeforeSet, [Next]_vars
  PROVE  FlagBeforeSet'
<1> USE DEF StateTypes, WaiterStates, SetterStates, AllUses, Swapped, Swaps, waiterVars, Timed, Resets, FlagBeforeSet
<1>1. CASE TestSignal
  BY <1>1 DEF TestSignal
<1>2. CASE Enter
  BY <1>2 DEF Enter
<1>3. CASE AssertWait
  BY <1>3 DEF AssertWait
<1>4. CASE AnnounceWait
  BY <1>4 DEF AnnounceWait
<1>5. CASE Unblock
  BY <1>5 DEF Unblock
<1>6. CASE AfterTimeout
  BY <1>6 DEF AfterTimeout
<1>7. CASE AfterWakeup
  BY <1>7 DEF AfterWakeup
<1>8. CASE Return
  BY <1>8 DEF Return
<1>9. CASE Expire
  BY <1>9 DEF Expire
<1>10. CASE Reuse
  BY <1>10 DEF Reuse
<1>11. ASSUME NEW t \in Setters, SetterStep(t) PROVE FlagBeforeSet'
  <2>1. CASE Prepare(t)
    BY <2>1 DEF Prepare
  <2>2. CASE SetFree(t)
    BY <2>2 DEF SetFree
  <2>3. CASE SetWaiting(t)
    BY <2>3 DEF SetWaiting
  <2>4. CASE Wakeup(t)
    BY <2>4 DEF Wakeup
  <2> QED
    BY <1>11, <2>1, <2>2, <2>3, <2>4 DEF SetterStep
<1>12. CASE UNCHANGED vars
  BY <1>12 DEF vars
<1> QED
  BY <1>1, <1>2, <1>3, <1>4, <1>5, <1>6, <1>7, <1>8,
     <1>9, <1>10, <1>11, <1>12 DEF Next, WaiterStep

(* Who made the word 3 while the waiter sleeps is about to wake it.        *)
LEMMA NoLostWakeupKept ==
  ASSUME StateTypes, WaiterMatchesWord, WakerIsAwaited, NoLostWakeup, [Next]_vars
  PROVE  NoLostWakeup'
<1> USE DEF StateTypes, WaiterStates, SetterStates, AllUses, Swapped, Swaps, waiterVars, Timed, Resets,
           WaiterMatchesWord, WakerIsAwaited, NoLostWakeup, PreparingIsShort, WakeupFindsWaiter
<1>1. CASE TestSignal
  BY <1>1 DEF TestSignal
<1>2. CASE Enter
  BY <1>2 DEF Enter
<1>3. CASE AssertWait
  BY <1>3 DEF AssertWait
<1>4. CASE AnnounceWait
  BY <1>4 DEF AnnounceWait
<1>5. CASE Unblock
  BY <1>5 DEF Unblock
<1>6. CASE AfterTimeout
  BY <1>6 DEF AfterTimeout
<1>7. CASE AfterWakeup
  BY <1>7 DEF AfterWakeup
<1>8. CASE Return
  BY <1>8 DEF Return
<1>9. CASE Expire
  BY <1>9 DEF Expire
<1>10. CASE Reuse
  BY <1>10 DEF Reuse
<1>11. ASSUME NEW t \in Setters, SetterStep(t) PROVE NoLostWakeup'
  <2>1. CASE Prepare(t)
    BY <2>1 DEF Prepare
  <2>2. CASE SetFree(t)
    BY <2>2 DEF SetFree
  <2>3. CASE SetWaiting(t)
    BY <2>3 DEF SetWaiting
  <2>4. CASE Wakeup(t)
    BY <2>4 DEF Wakeup
  <2> QED
    BY <1>11, <2>1, <2>2, <2>3, <2>4 DEF SetterStep
<1>12. CASE UNCHANGED vars
  BY <1>12 DEF vars
<1> QED
  BY <1>1, <1>2, <1>3, <1>4, <1>5, <1>6, <1>7, <1>8,
     <1>9, <1>10, <1>11, <1>12 DEF Next, WaiterStep

LEMMA Invariance == Spec => []IInv
<1>1. Init => IInv
  <2>1. Init => WaiterMatchesWord
    BY DEF Init, WaiterMatchesWord, PreparingIsShort, WakeupFindsWaiter
  <2>2. Init => WakerIsAwaited /\ FlagBeforeSet /\ NoLostWakeup
    BY DEF Init, WakerIsAwaited, FlagBeforeSet, NoLostWakeup
  <2> QED
    BY <2>1, <2>2 DEF IInv
<1>2. TypeOK /\ IInv /\ [Next]_vars => IInv'
  BY WaiterMatchesWordKept, WakerIsAwaitedKept, FlagBeforeSetKept,
     NoLostWakeupKept DEF IInv, TypeOK, StateTypes
<1> QED
  BY <1>1, <1>2, TypeCorrect, PTL DEF Spec

(* State 1 is only ever seen between the two swaps of the waiter.          *)
THEOREM PreparingShort == Spec => []PreparingIsShort
BY Invariance, PTL DEF IInv, WaiterMatchesWord

(* A setter that finds state 2 finds the waiter in the wait queue.         *)
THEOREM WakeupEffective == Spec => []WakeupFindsWaiter
BY Invariance, PTL DEF IInv, WaiterMatchesWord

(* No waiter sleeps on a set event without a setter about to wake it.      *)
THEOREM NoWakeupLost == Spec => []NoLostWakeup
BY Invariance, PTL DEF IInv

(* The two together: the setter and the waiter do not miss each other,     *)
(* whatever the event is used for.                                         *)
THEOREM NoWakeupMissed == Spec => []NoMissedWakeup
BY WakeupEffective, NoWakeupLost, PTL DEF NoMissedWakeup

(* A synchronization event is reset by the wait that its setting ended.    *)
THEOREM ResetByWait == Spec => ResetAfterWait
<1>1. TypeOK /\ IInv /\ [Next]_vars => [Resets /\ pcW = "awakened" /\ pcW' = "back" => event' = 0]_vars
  <2> SUFFICES ASSUME TypeOK, IInv, [Next]_vars, Resets, pcW = "awakened", pcW' = "back"
               PROVE  event' = 0
    OBVIOUS
  <2>1. event \in {0, 3}
    BY DEF IInv, TypeOK, WaiterMatchesWord, PreparingIsShort, WakeupFindsWaiter
  <2>2. AfterWakeup
    BY DEF Next, WaiterStep, TestSignal, Enter, AssertWait, AnnounceWait, Unblock,
           AfterTimeout, Return, Expire, Reuse, SetterStep, Prepare, SetFree,
           SetWaiting, Wakeup, vars, waiterVars
  <2> QED
    BY <2>1, <2>2 DEF AfterWakeup, Swapped
<1> QED
  BY <1>1, TypeCorrect, Invariance, PTL DEF Spec, ResetAfterWait

----------------------------------------------------------------------------
(***************************************************************************)
(* Completion events with one setter each.                                 *)
(***************************************************************************)
OneSetter == use = "completion" /\ \E x : SettersOfEvent = {x}

CompletionInv ==
  /\ \A s \in Setters :
       /\ s[1] < round => pcS[s] = "done"
       /\ round < s[1] => pcS[s] = "idle"
       /\ s[1] = round =>
            /\ pcS[s] \in {"wakeup", "done"} <=> event = 3
            /\ pcS[s] # "idle" => flag
            /\ pcW \in {"awakened", "back", "gone"} => pcS[s] = "done"
  /\ pcW \in {"awakened", "back", "gone"} => event = 3

LEMMA OneSetterOfRound ==
  ASSUME OneSetter, NEW s \in Setters, NEW t \in Setters, s[1] = t[1]
  PROVE  s = t
BY DEF OneSetter, Setters

(* While the event stays at its address only its own setter moves.         *)
LEMMA CompletionInvKept ==
  ASSUME OneSetter, StateTypes, round \in 1 .. MaxRounds, IInv, CompletionInv, [Next]_vars
  PROVE  CompletionInv'
<1> USE DEF OneSetter, StateTypes, WaiterStates, SetterStates, AllUses, Swapped,
            Swaps, waiterVars, Timed, Resets, IInv, CompletionInv, WaiterMatchesWord,
            WakerIsAwaited, PreparingIsShort, WakeupFindsWaiter
<1>1. CASE TestSignal
  BY <1>1 DEF TestSignal
<1>2. CASE Enter
  BY <1>2 DEF Enter
<1>3. CASE AssertWait
  BY <1>3 DEF AssertWait
<1>4. CASE AnnounceWait
  BY <1>4 DEF AnnounceWait
<1>5. CASE Unblock
  BY <1>5 DEF Unblock
<1>6. CASE AfterTimeout
  BY <1>6 DEF AfterTimeout
<1>7. CASE AfterWakeup
  BY <1>7 DEF AfterWakeup
<1>8. CASE Return
  BY <1>8 DEF Return
<1>9. CASE Expire
  BY <1>9 DEF Expire
<1>10. CASE Reuse
  <2>1. \A s \in Setters : s[1] \in 1 .. MaxRounds
    BY DEF Setters
  <2>2. \A s \in Setters : /\ s[1] < round + 1 => s[1] < round \/ s[1] = round
                           /\ round + 1 < s[1] => round < s[1]
                           /\ s[1] = round + 1 => round < s[1]
    BY <2>1, EventAssumption DEF EventAssumption
  <2>3. \A s \in Setters : s[1] = round => pcS[s] = "done"
    BY <1>10 DEF Reuse
  <2> QED
    BY <1>10, <2>2, <2>3 DEF Reuse
<1>11. ASSUME NEW t \in Setters, SetterStep(t) PROVE CompletionInv'
  <2>0. /\ pcS[t] # "idle" => t[1] = round \/ pcS[t] = "done"
        /\ \A s \in Setters : s[1] = t[1] => s = t
    <3>1. \A s \in Setters : s[1] \in 1 .. MaxRounds
      BY DEF Setters
    <3>2. t[1] < round \/ t[1] = round \/ round < t[1]
      BY <3>1, EventAssumption DEF EventAssumption
    <3> QED
      BY <3>2, OneSetterOfRound
  <2>1. CASE Prepare(t)
    BY <2>0, <2>1 DEF Prepare
  <2>2. CASE SetFree(t)
    BY <2>0, <2>2 DEF SetFree
  <2>3. CASE SetWaiting(t)
    BY <2>0, <2>3 DEF SetWaiting
  <2>4. CASE Wakeup(t)
    BY <2>0, <2>4 DEF Wakeup
  <2> QED
    BY <1>11, <2>1, <2>2, <2>3, <2>4 DEF SetterStep
<1>12. CASE UNCHANGED vars
  BY <1>12 DEF vars
<1> QED
  BY <1>1, <1>2, <1>3, <1>4, <1>5, <1>6, <1>7, <1>8,
     <1>9, <1>10, <1>11, <1>12 DEF Next, WaiterStep

(* Everything known of a completion event in any state.                    *)
CompletionIInv ==
  OneSetter /\ StateTypes /\ round \in 1 .. MaxRounds /\ IInv /\ CompletionInv

LEMMA CompletionInvariance == Spec /\ OneSetter => []CompletionIInv
<1>1. Init /\ OneSetter => OneSetter /\ CompletionInv
  <2> SUFFICES ASSUME Init, OneSetter PROVE CompletionInv
    OBVIOUS
  <2>1. \A s \in Setters : pcS[s] = "idle" /\ ~(s[1] < 1)
    BY EventAssumption DEF Init, Setters, EventAssumption
  <2> QED
    BY <2>1 DEF Init, CompletionInv
<1>2. /\ OneSetter /\ CompletionInv /\ [Next]_vars
      /\ StateTypes /\ round \in 1 .. MaxRounds /\ IInv
      => OneSetter' /\ CompletionInv'
  <2>1. [Next]_vars => use' = use
    BY DEF Next, WaiterStep, TestSignal, Enter, AssertWait, AnnounceWait, Unblock,
           AfterTimeout, AfterWakeup, Return, Expire, Reuse, SetterStep, Prepare,
           SetFree, SetWaiting, Wakeup, vars
  <2> QED
    BY <2>1, CompletionInvKept DEF OneSetter
<1>3. TypeOK => StateTypes /\ round \in 1 .. MaxRounds
  BY DEF TypeOK, StateTypes
<1> QED
  BY <1>1, <1>2, <1>3, TypeCorrect, Invariance, PTL DEF Spec, CompletionIInv

(* The wait for a completion event ends only after its setter has written  *)
(* what the waiter is going to read.                                       *)
THEOREM WaitsForCompletion == Spec /\ OneSetter => []NoEarlyReturn
<1>1. CompletionIInv => NoEarlyReturn
  <2> SUFFICES ASSUME CompletionIInv, pcW \in {"awakened", "back", "gone"} PROVE flag
    BY DEF NoEarlyReturn
  <2>1. PICK x : SettersOfEvent = {x}
    BY DEF CompletionIInv, OneSetter
  <2>2. << round, x >> \in Setters /\ << round, x >>[1] = round
    BY <2>1 DEF Setters, CompletionIInv
  <2> QED
    BY <2>2 DEF CompletionIInv, CompletionInv
<1> QED
  BY <1>1, CompletionInvariance, PTL

(* When the waiter has gone on and its stack may be reused, no setter is   *)
(* left that would still read or write the word.                           *)
THEOREM NoLateTouch == Spec /\ OneSetter => []NoTouchAfterReturn
<1>1. CompletionIInv => NoTouchAfterReturn
  <2> SUFFICES ASSUME CompletionIInv, pcW \in {"back", "gone"}, NEW s \in Setters
               PROVE  pcS[s] \notin {"set", "spin"}
    BY DEF NoTouchAfterReturn
  <2>1. s[1] < round \/ s[1] = round \/ round < s[1]
    BY EventAssumption DEF CompletionIInv, Setters, EventAssumption
  <2> QED
    BY <2>1 DEF CompletionIInv, CompletionInv
<1> QED
  BY <1>1, CompletionInvariance, PTL

(* The swaps and the wait queue implement a latch.                         *)
THEOREM CompletionIsLatch == Spec /\ OneSetter => IsLatch
<1>1. Init => Event!Init
  BY DEF Init, Event!Init
<1>2. CompletionIInv /\ CompletionIInv' /\ [Next]_vars => [Event!Next]_(Event!vars)
  <2> SUFFICES ASSUME CompletionIInv, CompletionIInv', [Next]_vars
               PROVE  Event!Raise \/ Event!Pass \/ Event!Renew \/ UNCHANGED Event!vars
    BY DEF Event!Next
  <2> USE DEF Event!Raise, Event!Pass, Event!Renew, Event!vars, CompletionIInv,
              CompletionInv, Swapped, Swaps, waiterVars, Resets, Timed, OneSetter
  <2>1. CASE TestSignal \/ Enter \/ AssertWait \/ AnnounceWait \/ Unblock
    BY <2>1 DEF TestSignal, Enter, AssertWait, AnnounceWait, Unblock
  <2>2. CASE AfterTimeout \/ AfterWakeup \/ Return \/ Expire \/ Reuse
    BY <2>2 DEF AfterTimeout, AfterWakeup, Return, Expire, Reuse, IInv, WaiterMatchesWord
  <2>3. ASSUME NEW s \in Setters, SetterStep(s)
        PROVE  Event!Raise \/ Event!Pass \/ Event!Renew \/ UNCHANGED Event!vars
    BY <2>3 DEF SetterStep, Prepare, SetFree, SetWaiting, Wakeup
  <2>4. CASE UNCHANGED vars
    BY <2>4 DEF vars
  <2> QED
    BY <2>1, <2>2, <2>3, <2>4 DEF Next, WaiterStep
<1> QED
  BY <1>1, <1>2, CompletionInvariance, PTL DEF Spec, IsLatch, Event!Spec
=============================================================================
