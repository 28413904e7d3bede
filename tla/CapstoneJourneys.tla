--------------------------- MODULE CapstoneJourneys ---------------------------
(***************************************************************************)
(* What the Capstone participations promise each student: intakes numbered  *)
(* from one, a new one only after a finalized failure and only in a later   *)
(* term, and an outcome that is never taken back.                           *)
(***************************************************************************)
EXTENDS Naturals

CONSTANTS Student

VARIABLE journey  \* per student: number of intakes, term of the last one, state

\* A student without any intake.
Newcomer == [number |-> 0, intake |-> 0, state |-> "none"]

Init == journey = [s \in Student |-> Newcomer]

\* A confirmed roster starts the next intake.
Joins(old, new) == /\ old.state \in {"none", "failed"}
                   /\ new.number = old.number + 1
                   /\ new.intake > old.intake
                   /\ new.state = "active"

\* The outcome of the intake is recorded.
Concludes(old, new) == /\ old.state = "active"
                       /\ new.state \in {"failed", "completed"}
                       /\ new.number = old.number /\ new.intake = old.intake

\* A team without any evidence is deleted: the intake it began is forgotten.
Withdraws(old, new) == /\ old.state = "active"
                       /\ new.number = old.number - 1
                       /\ new.intake < old.intake
                       /\ new.state \in {"none", "failed"}

\* The members of one team step together; the others stay.
Next == \A s \in Student : LET old == journey[s]
                               new == journey'[s]
                           IN \/ new = old
                              \/ Joins(old, new)
                              \/ Concludes(old, new)
                              \/ Withdraws(old, new)

Spec == Init /\ [][Next]_journey
==============================================================================
