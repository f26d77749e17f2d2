----------------------------- MODULE MCExecutor -----------------------------
EXTENDS Executor, TLC

CONSTANTS w1, w2, s1, s2, s3

\* workers and subtasks are interchangeable: no definition orders them
Symmetry == Permutations(Workers) \cup Permutations(Subtasks)
=============================================================================
