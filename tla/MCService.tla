----------------------------- MODULE MCService -----------------------------
(***************************************************************************)
(* The registries of the service's client, and the ring through which the  *)
(* requests reach the shadow thread, on small instances.  Of the four      *)
(* registries, which are alike, there are the first and the last of        *)
(* startLogging.  The driver's ring has one consumer.  A second one, for   *)
(* which removeEntry has code, takes part on a ring that does not wrap     *)
(* (two entries): with a ring that wraps several consumers are not safe.   *)
(* The parts share no variable, or run apart; part says which one runs.    *)
(***************************************************************************)
EXTENDS UserClients, DataQueue, TLC

CONSTANTS service, log, second

InRegisterOrder == << service, log >>
InLeaveOrder    == << log, service >>

VARIABLE part

ServiceInit == part \in {"queue", "consumers", "clients"} /\ RingInit /\ Init

ServiceNext ==
  \/ part = "queue" /\ RingNext /\ pcQ'[second] = "idle" /\ UNCHANGED << part, vars >>
  \/ part = "consumers" /\ RingNext /\ n' <= 2 /\ UNCHANGED << part, vars >>
  \/ part = "clients" /\ Next /\ UNCHANGED << part, ringVars >>

ServiceSpec == ServiceInit /\ [][ServiceNext]_<< part, ringVars, vars >>

ThreadSymmetry == Permutations(Producers) \cup Permutations(Users)
=============================================================================
