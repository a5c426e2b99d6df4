----------------------------- MODULE MCSpinLock -----------------------------
EXTENDS SpinLock, TLC

Symmetry == Permutations(Threads)
=============================================================================
