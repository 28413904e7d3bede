--------------------------- MODULE MCDefenseAttempt ---------------------------
EXTENDS DefenseAttempt, TLC

Symmetry == Permutations(Panelist)
==============================================================================
