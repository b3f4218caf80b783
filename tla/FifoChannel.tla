---------------------------- MODULE FifoChannel ----------------------------
(***************************************************************************)
(* What DldIODataQueue promises to its users: entries are published in the *)
(* order in which their space was reserved, are handed out in that order,  *)
(* each exactly once, and belong to one consumer until it removes them.    *)
(*                                                                         *)
(* An entry is a number: its position in the order of the reservations.    *)
(***************************************************************************)
EXTENDS Naturals, FiniteSets

VARIABLES
  reserved,   (* how many entries were ever given space                    *)
  published,  (* how many of them, from the first on, may be handed out    *)
  handedOut,  (* how many of them, from the first on, were handed out      *)
  held        (* the entries now in the hands of consumers                 *)

vars == << reserved, published, handedOut, held >>

Init ==
  /\ reserved = 0 /\ published = 0 /\ handedOut = 0
  /\ held = {}

Reserve ==
  /\ reserved' = reserved + 1
  /\ UNCHANGED << published, handedOut, held >>

Publish ==
  /\ published < reserved
  /\ published' = published + 1
  /\ UNCHANGED << reserved, handedOut, held >>

HandOut ==
  /\ handedOut < published
  /\ handedOut' = handedOut + 1
  /\ held' = held \cup {handedOut + 1}
  /\ UNCHANGED << reserved, published >>

Release ==
  /\ \E e \in held : held' = held \ {e}
  /\ UNCHANGED << reserved, published, handedOut >>

Next == Reserve \/ Publish \/ HandOut \/ Release

Spec == Init /\ [][Next]_vars
=============================================================================
