----------------------------- MODULE MCSockets -----------------------------
EXTENDS Sockets, TLC
Symmetry == Permutations(Callers) \cup Permutations(Buffers)
=============================================================================
