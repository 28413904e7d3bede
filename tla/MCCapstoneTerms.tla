--------------------------- MODULE MCCapstoneTerms ---------------------------
EXTENDS CapstoneTerms, TLC

\* Students and teams are interchangeable.
Symmetry == Permutations(Student) \cup Permutations(Team)
==============================================================================
