------------------------- MODULE MCShadowRequests -------------------------
(* Small instances of ShadowRequests for TLC.                              *)
EXTENDS ShadowRequests, TLC

OpSymmetry == Permutations(Ops)
=============================================================================
