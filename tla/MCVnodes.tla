------------------------------ MODULE MCVnodes ------------------------------
(* Small instances of Vnodes for TLC.                                      *)
EXTENDS Vnodes, TLC

Symmetry ==
  Permutations(VnodeIds) \cup Permutations(Threads) \cup
  Permutations(Objects) \cup Permutations(Entries)
=============================================================================
