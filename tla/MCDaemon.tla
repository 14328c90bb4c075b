------------------------------ MODULE MCDaemon ------------------------------
EXTENDS Daemon, TLC
CallersOfAll == Operators \cup Users \cup Firers \cup {Main}
Symmetry == Permutations(Workflows) \cup Permutations(Firers)
=============================================================================
