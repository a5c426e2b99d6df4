---------------------------- MODULE MCQueueLock ----------------------------
EXTENDS QueueLock, TLC

Symmetry == Permutations(Threads)
=============================================================================
