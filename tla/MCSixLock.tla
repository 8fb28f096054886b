------------------------------ MODULE MCSixLock ------------------------------
EXTENDS SixLock, TLC

Symmetry == Permutations(Threads)
=============================================================================
