-------------------------- MODULE MCExecutionStore --------------------------
EXTENDS ExecutionStore, TLC
Symmetry == Permutations(Workflows) \cup Permutations(Callers)
=============================================================================
