-------------------------- MODULE MCTaskLifecycle --------------------------
EXTENDS TaskLifecycle, TLC

CONSTANTS t1, t2, t3

\* threads are interchangeable: the first unborn one could be any
Symmetry == Permutations(Threads)
=============================================================================
