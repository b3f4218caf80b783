------------------------------- MODULE Latch -------------------------------
(***************************************************************************)
(* What the users of a completion event count on: the waiter passes only   *)
(* when the event was raised, an event once raised stays so until the      *)
(* waiter has passed, and the same memory may then serve as a new event.   *)
(***************************************************************************)
VARIABLES
  raised,   (* the event is in the signal state                            *)
  passed    (* the wait is over                                            *)

vars == << raised, passed >>

Init == raised = FALSE /\ passed = FALSE

Raise == ~raised /\ ~passed /\ raised' = TRUE /\ UNCHANGED passed

Pass == raised /\ ~passed /\ passed' = TRUE /\ UNCHANGED raised

Renew == passed /\ raised' = FALSE /\ passed' = FALSE

Next == Raise \/ Pass \/ Renew

Spec == Init /\ [][Next]_vars
=============================================================================
