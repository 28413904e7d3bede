----------------------- MODULE MCInstructorAssignments -----------------------
EXTENDS InstructorAssignments, TLC

\* Workers differ by role and are left out.
Symmetry == Permutations(Faculty) \cup Permutations(Section)
==============================================================================
