--------------------- MODULE InstructorAssignmentsProofs ---------------------
(***************************************************************************)
(* Proofs about InstructorAssignments for every set of terms, faculty,      *)
(* sections and workers, and every bound on the rows.                       *)
(***************************************************************************)
EXTENDS InstructorAssignments, TLAPS

\* The two uniqueness rules strengthen each other: a restored row can clash
\* with nobody only because it is the one row of its instructor.
IInv == TypeOK /\ SingleOwner /\ UniqueAssignment

LEMMA AppendRow ==
  ASSUME NEW q \in Seq(Row), NEW e \in Row
  PROVE  /\ Append(q, e) \in Seq(Row)
         /\ DOMAIN Append(q, e) = DOMAIN q \cup {Len(q) + 1}
         /\ Len(q) + 1 \notin DOMAIN q
         /\ \A i \in DOMAIN q : Append(q, e)[i] = q[i]
         /\ Append(q, e)[Len(q) + 1] = e
         /\ Len(Append(q, e)) = Len(q) + 1
  OBVIOUS

LEMMA RowIsTyped ==
  ASSUME TypeOK, NEW r \in DOMAIN rows
  PROVE  rows[r] \in Row /\ r \in Nat \ {0}
  BY DEF TypeOK

LEMMA ExceptRow ==
  ASSUME NEW q \in Seq(Row), NEW r \in DOMAIN q, NEW e \in Row
  PROVE  /\ [q EXCEPT ![r] = e] \in Seq(Row)
         /\ Len([q EXCEPT ![r] = e]) = Len(q)
         /\ DOMAIN [q EXCEPT ![r] = e] = DOMAIN q
  OBVIOUS

\* Init establishes the invariant: the table is empty.
LEMMA InitIInv == Init => IInv
  <1> SUFFICES ASSUME Init PROVE IInv
    OBVIOUS
  <1>1. rows = <<>> /\ rows \in Seq(Row) /\ Len(rows) = 0 /\ DOMAIN rows = {}
    BY DEF Init
  <1>2. TypeOK
    BY <1>1, RowsAssumption DEF Init, TypeOK, NoAudit, Audit
  <1> QED BY <1>1, <1>2 DEF IInv, SingleOwner, UniqueAssignment

LEMMA AssignIInv ==
  ASSUME IInv, NEW w \in Worker, NEW f \in Faculty, NEW s \in Section,
         AssignSectionInstructor(w, f, s)
  PROVE  IInv'
  <1> DEFINE t == seen[w]
  <1>1. t \in Term /\ rows \in Seq(Row)
    BY DEF IInv, TypeOK, AssignSectionInstructor
  <1>2. \A q \in DOMAIN rows : rows[q].active /\ rows[q].term = t
                               /\ rows[q].section = s => rows[q].faculty = f
    <2>1. \A q \in DOMAIN rows : q # 0
      BY <1>1
    <2> QED BY <2>1 DEF AssignSectionInstructor, SlotFree, Conflict
  <1>3. CASE RowsOf(f, t, s) = {} /\ Len(rows) < MaxRows
             /\ rows' = Append(rows, NewRow(f, t, s))
             /\ audited' = [action |-> "assign", row |-> Len(rows) + 1, replaced |-> 0]
    <2>1. NewRow(f, t, s) \in Row
      BY <1>1 DEF NewRow, Row
    <2>2. TypeOK'
      BY <1>1, <1>3, <2>1, AppendRow, RowsAssumption
         DEF IInv, TypeOK, AssignSectionInstructor, Audit
    <2>3. \A q \in DOMAIN rows : ~(/\ rows[q].faculty = f
                                   /\ rows[q].term = t
                                   /\ rows[q].section = s)
      BY <1>3 DEF RowsOf
    <2>4. /\ DOMAIN rows' = DOMAIN rows \cup {Len(rows) + 1}
          /\ \A i \in DOMAIN rows : rows'[i] = rows[i]
          /\ rows'[Len(rows) + 1] = NewRow(f, t, s)
      BY <1>1, <1>3, <2>1, AppendRow
    <2>5. SingleOwner' /\ UniqueAssignment'
      BY <1>2, <2>3, <2>4 DEF IInv, SingleOwner, UniqueAssignment, NewRow
    <2> QED BY <2>2, <2>5 DEF IInv
  <1>4. ASSUME NEW r \in RowsOf(f, t, s),
               rows' = [rows EXCEPT ![r].active = TRUE],
               audited' = IF rows[r].active THEN audited
                          ELSE [action |-> "restore", row |-> r, replaced |-> 0]
        PROVE  IInv'
    <2>1. /\ r \in DOMAIN rows
          /\ rows[r].faculty = f /\ rows[r].term = t /\ rows[r].section = s
      BY <1>4 DEF RowsOf
    <2>2. TypeOK'
      <3>1. rows[r] \in Row /\ r \in Nat
        BY <2>1, RowIsTyped DEF IInv
      <3>2. [rows[r] EXCEPT !.active = TRUE] \in Row
        BY <3>1 DEF Row
      <3>3. rows' = [rows EXCEPT ![r] = [rows[r] EXCEPT !.active = TRUE]]
        BY <1>4
      <3>4. rows' \in Seq(Row) /\ Len(rows') = Len(rows)
        BY <1>1, <2>1, <3>2, <3>3, ExceptRow
      <3>5. audited' \in Audit
        BY <1>4, <3>1 DEF IInv, TypeOK, Audit
      <3> QED BY <3>4, <3>5 DEF IInv, TypeOK, AssignSectionInstructor
    <2>3. /\ DOMAIN rows' = DOMAIN rows
          /\ \A i \in DOMAIN rows : /\ rows'[i].faculty = rows[i].faculty
                                    /\ rows'[i].term = rows[i].term
                                    /\ rows'[i].section = rows[i].section
                                    /\ i # r => rows'[i].active = rows[i].active
      BY <1>1, <1>4, <2>1, RowIsTyped DEF IInv, Row
    <2>4. UniqueAssignment'
      BY <2>3 DEF IInv, UniqueAssignment
    <2>5. SingleOwner'
      BY <1>2, <2>1, <2>3 DEF IInv, UniqueAssignment, SingleOwner
    <2> QED BY <2>2, <2>4, <2>5 DEF IInv
  <1> QED BY <1>3, <1>4 DEF AssignSectionInstructor

LEMMA ReplaceIInv ==
  ASSUME IInv, NEW w \in Worker, NEW r \in DOMAIN rows, NEW f \in Faculty,
         ReplaceInstructor(w, r, f)
  PROVE  IInv'
  <1> DEFINE t == rows[r].term
             s == rows[r].section
             retired == [rows EXCEPT ![r].active = FALSE]
  <1>1. rows[r] \in Row /\ rows \in Seq(Row) /\ r \in Nat
    BY RowIsTyped DEF IInv, TypeOK
  <1>2. \A q \in DOMAIN rows : q # r => ~(/\ rows[q].active
                                          /\ rows[q].term = t
                                          /\ rows[q].section = s)
    BY DEF ReplaceInstructor, IInv, SingleOwner
  <1>3. /\ retired \in Seq(Row) /\ Len(retired) = Len(rows)
        /\ DOMAIN retired = DOMAIN rows
        /\ \A i \in DOMAIN rows : /\ retired[i].faculty = rows[i].faculty
                                  /\ retired[i].term = rows[i].term
                                  /\ retired[i].section = rows[i].section
                                  /\ retired[i].active => rows[i].active /\ i # r
    <2>1. [rows[r] EXCEPT !.active = FALSE] \in Row
      BY <1>1 DEF Row
    <2>2. retired = [rows EXCEPT ![r] = [rows[r] EXCEPT !.active = FALSE]]
      OBVIOUS
    <2>3. \A i \in DOMAIN rows : rows[i] \in Row
      BY <1>1
    <2> QED BY <1>1, <2>1, <2>2, <2>3, ExceptRow DEF Row
  <1> HIDE DEF retired
  <1>4. CASE RowsOf(f, t, s) = {} /\ Len(rows) < MaxRows
             /\ rows' = Append(retired, NewRow(f, t, s))
             /\ audited' = [action |-> "replace", row |-> Len(rows) + 1, replaced |-> r]
    <2>1. NewRow(f, t, s) \in Row
      BY <1>1 DEF NewRow, Row
    <2>2. TypeOK'
      BY <1>1, <1>3, <1>4, <2>1, AppendRow, RowsAssumption
         DEF IInv, TypeOK, ReplaceInstructor, Audit
    <2>3. /\ DOMAIN rows' = DOMAIN rows \cup {Len(rows) + 1}
          /\ \A i \in DOMAIN rows : rows'[i] = retired[i]
          /\ rows'[Len(rows) + 1] = NewRow(f, t, s)
      BY <1>3, <1>4, <2>1, AppendRow
    <2>4. \A q \in DOMAIN rows : ~(/\ rows[q].faculty = f
                                   /\ rows[q].term = t
                                   /\ rows[q].section = s)
      BY <1>4 DEF RowsOf
    <2>5. \A i \in DOMAIN rows : /\ rows'[i].faculty = rows[i].faculty
                                 /\ rows'[i].term = rows[i].term
                                 /\ rows'[i].section = rows[i].section
                                 /\ rows'[i].active => rows[i].active /\ i # r
      BY <1>3, <2>3
    <2> DEFINE n == Len(rows) + 1
    <2>8. /\ rows'[n].faculty = f /\ rows'[n].term = t /\ rows'[n].section = s
          /\ DOMAIN rows' = DOMAIN rows \cup {n}
      BY <2>3 DEF NewRow
    <2> HIDE DEF n, t, s
    <2>6. SingleOwner'
      <3>1. SUFFICES ASSUME NEW a \in DOMAIN rows', NEW b \in DOMAIN rows',
                            rows'[a].active, rows'[b].active,
                            rows'[a].term = rows'[b].term,
                            rows'[a].section = rows'[b].section
                     PROVE  a = b
        BY DEF SingleOwner
      <3>2. CASE a \in DOMAIN rows /\ b \in DOMAIN rows
        BY <2>5, <3>1, <3>2 DEF IInv, SingleOwner
      <3>3. CASE a = n \/ b = n
        BY <1>2, <2>8, <2>5, <3>1, <3>3
      <3> QED BY <2>8, <3>2, <3>3
    <2>7. UniqueAssignment'
      <3>1. SUFFICES ASSUME NEW a \in DOMAIN rows', NEW b \in DOMAIN rows',
                            rows'[a].faculty = rows'[b].faculty,
                            rows'[a].term = rows'[b].term,
                            rows'[a].section = rows'[b].section
                     PROVE  a = b
        BY DEF UniqueAssignment
      <3>2. CASE a \in DOMAIN rows /\ b \in DOMAIN rows
        BY <2>5, <3>1, <3>2 DEF IInv, UniqueAssignment
      <3>3. CASE a = n \/ b = n
        BY <2>8, <2>4, <2>5, <3>1, <3>3
      <3> QED BY <2>8, <3>2, <3>3
    <2> QED BY <2>2, <2>6, <2>7 DEF IInv
  <1>5. ASSUME NEW q \in RowsOf(f, t, s),
               rows' = [retired EXCEPT ![q].active = TRUE],
               audited' = [action |-> "replace", row |-> q, replaced |-> r]
        PROVE  IInv'
    <2>1. q \in DOMAIN rows /\ rows[q].term = t /\ rows[q].section = s
      BY <1>5 DEF RowsOf
    <2>2. retired[q] \in Row /\ q \in Nat
      BY <1>3, <2>1, RowIsTyped DEF IInv
    <2>3. TypeOK'
      <3>1. [retired[q] EXCEPT !.active = TRUE] \in Row
        BY <2>2 DEF Row
      <3>2. rows' = [retired EXCEPT ![q] = [retired[q] EXCEPT !.active = TRUE]]
        BY <1>5
      <3>3. rows' \in Seq(Row) /\ Len(rows') = Len(rows)
        BY <1>3, <2>1, <3>1, <3>2, ExceptRow
      <3>4. audited' \in Audit
        BY <1>1, <1>5, <2>2 DEF Audit
      <3> QED BY <3>3, <3>4 DEF IInv, TypeOK, ReplaceInstructor
    <2>4. /\ DOMAIN rows' = DOMAIN rows
          /\ \A i \in DOMAIN rows : /\ rows'[i].faculty = rows[i].faculty
                                    /\ rows'[i].term = rows[i].term
                                    /\ rows'[i].section = rows[i].section
                                    /\ rows'[i].active /\ i # q
                                         => rows[i].active /\ i # r
      <3>1. \A i \in DOMAIN rows : retired[i] \in Row
        BY <1>3
      <3> QED BY <1>3, <1>5, <2>1, <3>1 DEF Row
    <2>5. UniqueAssignment'
      BY <2>4 DEF IInv, UniqueAssignment
    <2>6. SingleOwner'
      BY <1>2, <2>1, <2>4 DEF IInv, SingleOwner
    <2> QED BY <2>3, <2>5, <2>6 DEF IInv
  <1> QED BY <1>4, <1>5 DEF ReplaceInstructor, retired

LEMMA ChangeIInv ==
  ASSUME IInv, NEW w \in Worker, NEW r \in DOMAIN rows, NEW a \in BOOLEAN,
         NEW s \in Section, ChangeAssignment(w, r, a, s)
  PROVE  IInv'
  <1> DEFINE old == rows[r]
             new == [old EXCEPT !.active = a, !.section = s]
  <1>1. old \in Row /\ rows \in Seq(Row) /\ r \in Nat
    BY RowIsTyped DEF IInv, TypeOK
  <1>2. new \in Row /\ new.faculty = old.faculty /\ new.term = old.term
        /\ new.section = s /\ new.active = a
    BY <1>1 DEF Row
  <1>3. rows' = [rows EXCEPT ![r] = new]
    BY DEF ChangeAssignment
  <1> HIDE DEF new
  <1>4. /\ DOMAIN rows' = DOMAIN rows
        /\ rows'[r] = new
        /\ \A i \in DOMAIN rows : i # r => rows'[i] = rows[i]
        /\ rows' \in Seq(Row) /\ Len(rows') = Len(rows)
    BY <1>1, <1>2, <1>3, ExceptRow
  <1>5. TypeOK'
    BY <1>1, <1>4 DEF IInv, TypeOK, ChangeAssignment, Audit
  <1>6. UniqueAssignment'
    <2>1. s # old.section => RowsOf(old.faculty, old.term, s) = {}
      BY DEF ChangeAssignment
    <2>2. \A q \in DOMAIN rows : q # r => ~(/\ rows[q].faculty = old.faculty
                                            /\ rows[q].term = old.term
                                            /\ rows[q].section = s)
      BY <2>1 DEF IInv, UniqueAssignment, RowsOf
    <2> QED BY <1>2, <1>4, <2>2 DEF IInv, UniqueAssignment
  <1>7. SingleOwner'
    <2>1. a => \A q \in DOMAIN rows : q # r => ~(/\ rows[q].active
                                                 /\ rows[q].term = old.term
                                                 /\ rows[q].section = s)
      <3>1. ASSUME a, NEW q \in DOMAIN rows, q # r, rows[q].active,
                   rows[q].term = old.term, rows[q].section = s
            PROVE  FALSE
        <4>1. rows[q].faculty = old.faculty
          BY <3>1 DEF ChangeAssignment, SlotFree, Conflict
        <4>2. rows'[q] = rows[q] /\ rows'[r] = new /\ q \in DOMAIN rows' /\ r \in DOMAIN rows'
          BY <1>4, <3>1
        <4> QED BY <1>2, <1>6, <3>1, <4>1, <4>2 DEF UniqueAssignment
      <3> QED BY <3>1
    <2> QED BY <1>2, <1>4, <2>1 DEF IInv, SingleOwner
  <1> QED BY <1>5, <1>6, <1>7 DEF IInv

\* Every step preserves the invariant.
LEMMA NextIInv == IInv /\ [Next]_vars => IInv'
  <1> SUFFICES ASSUME IInv, [Next]_vars PROVE IInv'
    OBVIOUS
  <1>1. ASSUME UNCHANGED rows, seen' \in [Worker -> Term \cup {NoTerm}],
               activeTerm' \in Term, enabledFaculty' \subseteq Faculty,
               audited' = audited
        PROVE  IInv'
    BY <1>1 DEF IInv, TypeOK, SingleOwner, UniqueAssignment
  <1>2. ASSUME NEW w \in Worker, CurrentPeriod(w) PROVE IInv'
    BY <1>1, <1>2 DEF CurrentPeriod, IInv, TypeOK
  <1>3. ASSUME NEW w \in Worker, Refuse(w) PROVE IInv'
    BY <1>1, <1>3 DEF Refuse, IInv, TypeOK
  <1>4. ASSUME NEW t \in Term, SwitchTerm(t) PROVE IInv'
    BY <1>1, <1>4 DEF SwitchTerm, IInv, TypeOK
  <1>5. ASSUME NEW f \in Faculty, ToggleAccount(f) PROVE IInv'
    BY <1>1, <1>5 DEF ToggleAccount, IInv, TypeOK
  <1>6. CASE UNCHANGED vars
    BY <1>1, <1>6 DEF vars, IInv, TypeOK
  <1> QED BY <1>2, <1>3, <1>4, <1>5, <1>6, AssignIInv, ReplaceIInv, ChangeIInv
          DEF Next

\* The table is well formed and both uniqueness rules of the table hold in
\* every reachable state (instructor_assignments.py): the guards of the three
\* writers imply the constraints the database would otherwise enforce.
THEOREM AssignmentsInvariant == Spec => []IInv
  <1>1. Init => IInv
    BY InitIInv
  <1>2. IInv /\ [Next]_vars => IInv'
    BY NextIInv
  <1> QED BY <1>1, <1>2, PTL DEF Spec

\* The rows, what each request has read, and the audit entry stay well formed
\* whatever the writers and the term switch do (instructor_assignments.py).
THEOREM TypeOKAlways == Spec => []TypeOK
  <1>1. IInv => TypeOK
    BY DEF IInv
  <1> QED BY <1>1, AssignmentsInvariant, PTL

\* At most one active instructor per section and term (require_instructor_slot).
THEOREM SingleOwnerAlways == Spec => []SingleOwner
  <1>1. IInv => SingleOwner
    BY DEF IInv
  <1> QED BY <1>1, AssignmentsInvariant, PTL

\* At most one row per instructor, section and term, so a restore is unambiguous.
THEOREM UniqueAssignmentAlways == Spec => []UniqueAssignment
  <1>1. IInv => UniqueAssignment
    BY DEF IInv
  <1> QED BY <1>1, AssignmentsInvariant, PTL
==============================================================================
