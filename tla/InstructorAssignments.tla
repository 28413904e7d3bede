------------------------ MODULE InstructorAssignments ------------------------
(***************************************************************************)
(* Section instructors of the PIT cohort (user_management/                  *)
(* instructor_assignments.py).  A row of SectionInstructorAssignment says   *)
(* that a faculty member teaches a section during a term.  Every writer     *)
(* first waits for the row lock of the term, so what follows the lock is    *)
(* one atomic step; what is read BEFORE the lock (the active term) is a     *)
(* step of its own and may be out of date when the lock is granted.         *)
(*                                                                          *)
(* The uniqueness constraints of the table are NOT modelled: the properties *)
(* below say that the code never needs them.                                *)
(***************************************************************************)
EXTENDS Naturals, Sequences, FiniteSets

CONSTANTS Term,      \* semesters
          Faculty,   \* users with role faculty or admin
          Section,   \* sections of one PIT year level
          Worker,    \* concurrent HTTP requests of PIT leads and admins
          Admin,     \* the workers whose actor is an administrator
          NoTerm,    \* a worker that has not passed _current_period
          MaxRows    \* bound: rows ever created

ASSUME TermAssumption == NoTerm \notin Term
ASSUME AdminAssumption == Admin \subseteq Worker
ASSUME RowsAssumption == MaxRows \in Nat

VARIABLES rows,      \* the table: a sequence, the index is the primary key
          activeTerm,\* Semester.is_active, unique
          enabledFaculty, \* users with is_active
          seen,      \* what _current_period of a worker read before its lock
          audited    \* action of the last audit entry and its row ids

vars == <<rows, activeTerm, enabledFaculty, seen, audited>>

Row == [faculty : Faculty, term : Term, section : Section, active : BOOLEAN]
Audit == [action : {"none", "assign", "restore", "replace", "remove", "change"},
          row : Nat, replaced : Nat]

NoAudit == [action |-> "none", row |-> 0, replaced |-> 0]

\* Active owners of a section, other than row x and faculty f.
Conflict(t, s, f, x) ==
  \E r \in DOMAIN rows : /\ r # x
                         /\ rows[r].term = t
                         /\ rows[r].section = s
                         /\ rows[r].active
                         /\ rows[r].faculty # f

\* Mutant: the duplicate check forgets the other instructors.
SlotAlwaysFree(t, s, f, x) == TRUE

SlotFree(t, s, f, x) == ~Conflict(t, s, f, x)

\* Mutant: a retired assignment is never found again.
RowsOfIgnoresRetired(f, t, s) ==
  {r \in DOMAIN rows : /\ rows[r].faculty = f
                       /\ rows[r].term = t
                       /\ rows[r].section = s
                       /\ rows[r].active}

RowsOf(f, t, s) ==
  {r \in DOMAIN rows : /\ rows[r].faculty = f
                       /\ rows[r].term = t
                       /\ rows[r].section = s}

NewRow(f, t, s) == [faculty |-> f, term |-> t, section |-> s, active |-> TRUE]

Init == /\ rows = <<>>
        /\ activeTerm \in Term
        /\ enabledFaculty = Faculty
        /\ seen = [w \in Worker |-> NoTerm]
        /\ audited = NoAudit

------------------------------------------------------------------------------
\* _current_period: the active term is read, then the worker queues for its lock.
CurrentPeriod(w) ==
  /\ seen[w] = NoTerm
  /\ seen' = [seen EXCEPT ![w] = activeTerm]
  /\ UNCHANGED <<rows, activeTerm, enabledFaculty, audited>>

\* assign_section_instructor, once the lock of the term is held.
AssignSectionInstructor(w, f, s) ==
  LET t == seen[w]
      mine == RowsOf(f, t, s)
  IN /\ t # NoTerm
     /\ f \in enabledFaculty
     /\ SlotFree(t, s, f, 0)
     /\ seen' = [seen EXCEPT ![w] = NoTerm]
     /\ \/ /\ mine = {}
           /\ Len(rows) < MaxRows
           /\ rows' = Append(rows, NewRow(f, t, s))
           /\ audited' = [action |-> "assign", row |-> Len(rows) + 1, replaced |-> 0]
        \/ \E r \in mine :
             /\ rows' = [rows EXCEPT ![r].active = TRUE]
             /\ audited' = IF rows[r].active THEN audited
                           ELSE [action |-> "restore", row |-> r, replaced |-> 0]
     /\ UNCHANGED <<activeTerm, enabledFaculty>>

\* update_instructor_assignment with faculty_id: the owner is replaced.
ReplaceInstructor(w, r, f) ==
  LET t == rows[r].term
      s == rows[r].section
      theirs == RowsOf(f, t, s)
      retired == [rows EXCEPT ![r].active = FALSE]
  IN /\ seen[w] = t
     /\ rows[r].active
     /\ f \in enabledFaculty
     /\ f # rows[r].faculty
     /\ SlotFree(t, s, f, r)
     /\ seen' = [seen EXCEPT ![w] = NoTerm]
     /\ \/ /\ theirs = {}
           /\ Len(rows) < MaxRows
           /\ rows' = Append(retired, NewRow(f, t, s))
           /\ audited' = [action |-> "replace", row |-> Len(rows) + 1, replaced |-> r]
        \/ \E q \in theirs :
             /\ rows' = [retired EXCEPT ![q].active = TRUE]
             /\ audited' = [action |-> "replace", row |-> q, replaced |-> r]
     /\ UNCHANGED <<activeTerm, enabledFaculty>>

\* update_instructor_assignment with is_active and / or section.
ChangeAssignment(w, r, active, s) ==
  LET old == rows[r]
      new == [old EXCEPT !.active = active, !.section = s]
  IN /\ seen[w] = old.term
     /\ active /\ ~old.active => old.faculty \in enabledFaculty
     /\ s # old.section => w \in Admin
     /\ s # old.section => RowsOf(old.faculty, old.term, s) = {}
     /\ new # old
     /\ active => SlotFree(old.term, s, old.faculty, r)
     /\ rows' = [rows EXCEPT ![r] = new]
     /\ seen' = [seen EXCEPT ![w] = NoTerm]
     /\ audited' = [action |-> IF ~active THEN "remove"
                               ELSE IF ~old.active THEN "restore" ELSE "change",
                    row |-> r, replaced |-> 0]
     /\ UNCHANGED <<activeTerm, enabledFaculty>>

\* Any refusal: a guard above failed, or nothing changed.
Refuse(w) ==
  /\ seen[w] # NoTerm
  /\ seen' = [seen EXCEPT ![w] = NoTerm]
  /\ UNCHANGED <<rows, activeTerm, enabledFaculty, audited>>

\* Mutant: the old term is closed and the new one is never opened.
SwitchTermHalfway(t) ==
  /\ t # activeTerm
  /\ activeTerm' = NoTerm
  /\ UNCHANGED <<rows, enabledFaculty, seen, audited>>

\* switch_active_semester and the account switch of user management.
SwitchTerm(t) ==
  /\ t # activeTerm
  /\ activeTerm' = t
  /\ UNCHANGED <<rows, enabledFaculty, seen, audited>>

ToggleAccount(f) ==
  /\ enabledFaculty' = IF f \in enabledFaculty THEN enabledFaculty \ {f}
                       ELSE enabledFaculty \cup {f}
  /\ UNCHANGED <<rows, activeTerm, seen, audited>>

Next ==
  \/ \E w \in Worker :
       \/ CurrentPeriod(w)
       \/ Refuse(w)
       \/ \E f \in Faculty, s \in Section : AssignSectionInstructor(w, f, s)
       \/ \E r \in DOMAIN rows, f \in Faculty : ReplaceInstructor(w, r, f)
       \/ \E r \in DOMAIN rows, a \in BOOLEAN, s \in Section : ChangeAssignment(w, r, a, s)
  \/ \E t \in Term : SwitchTerm(t)
  \/ \E f \in Faculty : ToggleAccount(f)

Spec == Init /\ [][Next]_vars

------------------------------------------------------------------------------
\* Every value has its type: among others, some term is always active, and the
\* table never outgrows its bound.
TypeOK == /\ rows \in Seq(Row)
          /\ Len(rows) \in 0..MaxRows
          /\ activeTerm \in Term
          /\ enabledFaculty \subseteq Faculty
          /\ seen \in [Worker -> Term \cup {NoTerm}]
          /\ audited \in Audit

\* A section has at most one active instructor in a term, whatever requests
\* raced: the constraint unique_active_section_instructor never has to fire.
SingleOwner ==
  \A r, q \in DOMAIN rows :
    /\ rows[r].active /\ rows[q].active
    /\ rows[r].term = rows[q].term
    /\ rows[r].section = rows[q].section
    => r = q

\* A faculty member has at most one row per term and section, so "restore"
\* always finds the row to restore: unique_section_instructor_assignment
\* never has to fire, not even when rows are moved between sections.
UniqueAssignment ==
  \A r, q \in DOMAIN rows :
    /\ rows[r].faculty = rows[q].faculty
    /\ rows[r].term = rows[q].term
    /\ rows[r].section = rows[q].section
    => r = q

\* "Historical instructor assignments are read-only" (line 31): only rows of
\* the active term are written.
HistoricalReadOnly ==
  [][\A r \in DOMAIN rows : rows'[r] # rows[r] => rows[r].term = activeTerm]_vars
==============================================================================
