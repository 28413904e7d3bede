--------------------------- MODULE MCSectionConcepts ---------------------------
EXTENDS SectionConcepts, TLC

\* Teams, keys and titles are interchangeable, and no property is temporal.
Symmetry == Permutations(Team) \cup Permutations(Key) \cup Permutations(Title)
=============================================================================
