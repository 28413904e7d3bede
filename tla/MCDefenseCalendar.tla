-------------------------- MODULE MCDefenseCalendar --------------------------
EXTENDS DefenseCalendar, TLC

Symmetry == Permutations(Team) \cup Permutations(Person) \cup Permutations(Room)

\* A screen with an old revision can only be closed, which leads to a state that
\* is reached without it: such states are checked and not followed.
ScreenMaySave == screen # None => RevisionsMatch(screen.seen)
=============================================================================
