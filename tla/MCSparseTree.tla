----------------------------- MODULE MCSparseTree -----------------------------
(* The tree of six blocks, written in one call. *)
EXTENDS SparseTree
SixAtOnce == {<< 0, 5 >>}
=============================================================================
