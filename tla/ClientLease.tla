---------------------------- MODULE ClientLease ----------------------------
(***************************************************************************)
(* What the registries of the user client (DldIOUserClientRef, DldIOShadow *)
(* and DldIOLog) promise to the threads that send notifications: a client  *)
(* once granted may be borrowed by any number of threads and is revoked    *)
(* only when none of them still uses it.                                   *)
(***************************************************************************)
CONSTANTS Clients, Users, Nobody

VARIABLES
  granted,  (* the clients that may be in use                              *)
  using     (* which client each thread is using                           *)

vars == << granted, using >>

Init == granted = {} /\ using = [u \in Users |-> Nobody]

Grant(c) ==
  /\ c \notin granted
  /\ granted' = granted \cup {c}
  /\ UNCHANGED using

Borrow(u, c) ==
  /\ using[u] = Nobody /\ c \in granted
  /\ using' = [using EXCEPT ![u] = c]
  /\ UNCHANGED granted

GiveBack(u) ==
  /\ using[u] # Nobody
  /\ using' = [using EXCEPT ![u] = Nobody]
  /\ UNCHANGED granted

Revoke(c) ==
  /\ c \in granted /\ \A u \in Users : using[u] # c
  /\ granted' = granted \ {c}
  /\ UNCHANGED using

Next ==
  \/ \E c \in Clients : Grant(c) \/ Revoke(c)
  \/ \E u \in Users : GiveBack(u) \/ \E c \in Clients : Borrow(u, c)

Spec == Init /\ [][Next]_vars
=============================================================================
