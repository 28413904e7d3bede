------------------------- MODULE DefenseAttemptProofs -------------------------
(***************************************************************************)
(* Proofs about DefenseAttempt for every panel, score range, qualifying     *)
(* score, assessment policy and bound.                                      *)
(***************************************************************************)
EXTENDS DefenseAttempt, TLAPS

\* A hearing that was never created has no panel: nobody can have evaluated it.
FreshHearings == \A h \in Hearing : status[h] = "none" => panelists[h] = {}

\* Only a published grade closes the participation.
ClosedPublished == ~participationOpen => grade.published

\* Types of everything but the pending correction, which ages with every step.
Typed ==
  /\ status \in [Hearing -> Status]
  /\ panelists \in [Hearing -> SUBSET Panelist]
  /\ submission \in [Hearing -> [Panelist -> Evaluation]]
  /\ grade \in Grade
  /\ attempts \in Seq(Attempt)
  /\ progress \in Progress
  /\ reendorsed \in BOOLEAN /\ participationOpen \in BOOLEAN
  /\ officiallyComplete \in BOOLEAN
  /\ planned \subseteq Panelist
  /\ requests \subseteq Request

\* The inductive invariant but for the pending correction: the history and the
\* panel score strengthen each other, because a grade that was never scored may
\* move to another hearing without a snapshot.
Core == /\ Typed
        /\ AttemptNumbering /\ SettledHearingNeverReused
        /\ PanelScoreCurrent
        /\ FreshHearings /\ LiveEvaluatorsAssigned
        /\ ClosedPublished

IInv == Core /\ amendment \subseteq Amendment

\* What FailureIsFinal demands of a step.
FailureStep ==
  ~participationOpen =>
    /\ ~participationOpen'
    /\ attempts' = attempts
    /\ \A field \in {"schedule", "attempt", "verdict", "published", "closed"} :
         grade'[field] = grade[field]

---------------------------------------------------------------------------
(* Operators                                                                *)

LEMMA LiveType ==
  ASSUME NEW sub \in [Hearing -> [Panelist -> Evaluation]], NEW h \in Hearing \cup {0}
  PROVE  Live(h, sub) \in PanelScores
  BY DEF Live, PanelScores, NoPanel

LEMMA HearingIsPositive ==
  Hearing \subseteq Nat \ {0}
  BY HearingAssumption DEF Hearing

LEMMA AppendAttempt ==
  ASSUME NEW q \in Seq(Attempt), NEW e \in Attempt
  PROVE  /\ Append(q, e) \in Seq(Attempt)
         /\ Len(Append(q, e)) = Len(q) + 1
         /\ DOMAIN Append(q, e) = DOMAIN q \cup {Len(q) + 1}
         /\ Len(q) + 1 \notin DOMAIN q
         /\ \A i \in DOMAIN q : Append(q, e)[i] = q[i]
         /\ Append(q, e)[Len(q) + 1] = e
  OBVIOUS

LEMMA NextAttemptType ==
  ASSUME NEW g \in Grade, NEW h \in Hearing
  PROVE  /\ NextAttempt(g, h) \in Grade
         /\ NextAttempt(g, h).schedule = h
         /\ NextAttempt(g, h).attempt = g.attempt + 1
         /\ NextAttempt(g, h).panel = NoPanel
         /\ NextAttempt(g, h).verdict = ""
  <1> DEFINE a == g.adviser /\ ~Reassess
             b == g.peer /\ ~Reassess
             n == [g EXCEPT !.schedule = h, !.attempt = g.attempt + 1, !.panel = NoPanel,
                            !.adviser = a, !.peer = b, !.verdict = "",
                            !.cleared = FALSE, !.published = FALSE, !.closed = FALSE]
  <1>1. a \in BOOLEAN /\ b \in BOOLEAN
    OBVIOUS
  <1>2. NextAttempt(g, h) = n
    BY DEF NextAttempt
  <1>3. NoPanel \in PanelScores
    BY DEF NoPanel, PanelScores
  <1> HIDE DEF a, b
  <1>4. g.attempt + 1 \in Nat \ {0}
    BY DEF Grade
  <1>5. "" \in Verdict
    BY DEF Verdict
  <1>6. n \in Grade
    BY <1>1, <1>3, <1>4, <1>5 DEF Grade
  <1>7. /\ n.schedule = h /\ n.attempt = g.attempt + 1
        /\ n.panel = NoPanel /\ n.verdict = ""
    BY DEF Grade
  <1> QED BY <1>2, <1>6, <1>7

\* Both ways an attempt can be taken up keep the invariants of the history, and
\* only an open participation lets the grade move.
LEMMA OpenGradeKeeps ==
  ASSUME Core, NEW h \in Hearing, OpenGrade(h)
  PROVE  /\ grade' \in Grade /\ attempts' \in Seq(Attempt) /\ reendorsed' \in BOOLEAN
         /\ AttemptNumbering' /\ SettledHearingNeverReused'
         /\ grade'.panel \in {NoPanel, Live(grade'.schedule, submission)}
         /\ ~participationOpen => UNCHANGED <<grade, attempts>>
  <1>1. /\ grade \in Grade /\ attempts \in Seq(Attempt) /\ reendorsed \in BOOLEAN
        /\ AttemptNumbering /\ SettledHearingNeverReused /\ PanelScoreCurrent
    BY DEF Core, Typed
  <1>2. h # 0
    BY HearingIsPositive
  <1>3. NoPanel \in PanelScores
    BY DEF NoPanel, PanelScores
  <1>4. CASE StartsAttempt(h) /\ grade' = NextAttempt(grade, h)
             /\ attempts' = WithSnapshot /\ reendorsed' = FALSE
    <2> DEFINE e == [schedule |-> grade.schedule, attempt |-> grade.attempt,
                     panel |-> grade.panel, verdict |-> grade.verdict]
    <2>1. /\ grade.schedule \in Hearing /\ participationOpen
          /\ grade.schedule # h
          /\ \A i \in DOMAIN attempts : attempts[i].schedule # h
      BY <1>1, <1>4 DEF StartsAttempt, MovesGrade, Grade
    <2>2. e \in Attempt
      BY <1>1, <2>1 DEF Grade, Attempt
    <2>3. \A i \in DOMAIN attempts : attempts[i].attempt # grade.attempt
      BY <1>1 DEF AttemptNumbering
    <2>4. attempts' = Append(attempts, e)
      BY <1>4, <2>3 DEF WithSnapshot
    <2>5. /\ grade' \in Grade /\ grade'.schedule = h /\ grade'.panel = NoPanel
          /\ grade'.attempt = grade.attempt + 1
      BY <1>1, <1>4, NextAttemptType
    <2> HIDE DEF e
    <2>6. /\ attempts' \in Seq(Attempt) /\ Len(attempts') = Len(attempts) + 1
          /\ DOMAIN attempts' = DOMAIN attempts \cup {Len(attempts) + 1}
          /\ Len(attempts) + 1 \notin DOMAIN attempts
          /\ \A i \in DOMAIN attempts : attempts'[i] = attempts[i]
          /\ attempts'[Len(attempts) + 1] = e
      BY <1>1, <2>2, <2>4, AppendAttempt
    <2>7. e.schedule = grade.schedule /\ e.attempt = grade.attempt
      BY DEF e
    <2>8. AttemptNumbering'
      BY <1>1, <2>5, <2>6, <2>7 DEF AttemptNumbering, Grade
    <2>9. SettledHearingNeverReused'
      <3>1. ASSUME NEW i \in DOMAIN attempts'
            PROVE  attempts'[i].schedule # grade'.schedule
        BY <2>1, <2>5, <2>6, <2>7
      <3>2. \A i \in DOMAIN attempts : attempts[i].schedule # e.schedule
        BY <1>1, <2>7 DEF SettledHearingNeverReused
      <3>3. ASSUME NEW i \in DOMAIN attempts', NEW j \in DOMAIN attempts',
                   attempts'[i].schedule = attempts'[j].schedule
            PROVE  i = j
        <4>1. CASE i \in DOMAIN attempts /\ j \in DOMAIN attempts
          BY <1>1, <2>6, <3>3, <4>1 DEF SettledHearingNeverReused
        <4>2. CASE i \notin DOMAIN attempts \/ j \notin DOMAIN attempts
          BY <2>6, <3>2, <3>3, <4>2
        <4> QED BY <4>1, <4>2
      <3> QED BY <3>1, <3>3 DEF SettledHearingNeverReused
    <2> QED BY <1>4, <2>1, <2>5, <2>6, <2>8, <2>9
  <1>5. CASE MovesGrade(h) /\ ~StartsAttempt(h)
             /\ grade' = [grade EXCEPT !.schedule = h]
             /\ UNCHANGED <<attempts, reendorsed>>
    <2>1. /\ grade' \in Grade /\ grade'.schedule = h /\ grade'.panel = grade.panel
          /\ grade'.attempt = grade.attempt
      BY <1>1, <1>5 DEF Grade
    <2>2. grade.panel = NoPanel
      BY <1>1, <1>5 DEF StartsAttempt, PanelScoreCurrent, Live
    <2>3. AttemptNumbering'
      BY <1>1, <1>5, <2>1 DEF AttemptNumbering
    <2>4. /\ attempts' = attempts
          /\ \A i \in DOMAIN attempts : attempts[i].schedule # h
      BY <1>5 DEF MovesGrade
    <2>5. SettledHearingNeverReused'
      BY <1>1, <2>1, <2>4 DEF SettledHearingNeverReused
    <2> QED BY <1>1, <1>5, <2>1, <2>2, <2>3, <2>5 DEF MovesGrade
  <1>6. CASE ~MovesGrade(h) /\ UNCHANGED <<grade, attempts, reendorsed>>
    BY <1>1, <1>6 DEF AttemptNumbering, SettledHearingNeverReused, PanelScoreCurrent
  <1> QED BY <1>4, <1>5, <1>6 DEF OpenGrade

\* Recording an outcome or finalising the grade: the attempt stays the same, a
\* published grade stays published.
LEMMA AutoFinalizedType ==
  ASSUME NEW g \in Grade, NEW sub
  PROVE  /\ AutoFinalized(g, sub) \in Grade
         /\ AutoFinalized(g, sub).schedule = g.schedule
         /\ AutoFinalized(g, sub).attempt = g.attempt
         /\ AutoFinalized(g, sub).panel = g.panel
         /\ AutoFinalized(g, sub).closed = g.closed
         /\ AutoFinalized(g, sub).verdict = g.verdict
         /\ g.published => AutoFinalized(g, sub).published
  BY DEF AutoFinalized, Grade

LEMMA ApplyResultType ==
  ASSUME NEW g, ApplyResult(g), participationOpen \in BOOLEAN
  PROVE  /\ progress' \in Progress /\ participationOpen' \in BOOLEAN
         /\ ~participationOpen => ~participationOpen'
         /\ participationOpen /\ ~participationOpen' => g.published
  <1>1. progress' \in Progress
    BY DEF ApplyResult, ProgressAfter, Progress
  <1> QED BY <1>1 DEF ApplyResult

\* The history is kept whenever the grade stays with its attempt.
LEMMA SameAttemptKeeps ==
  ASSUME Core, attempts' = attempts,
         grade'.schedule = grade.schedule, grade'.attempt = grade.attempt
  PROVE  AttemptNumbering' /\ SettledHearingNeverReused'
  BY DEF Core, AttemptNumbering, SettledHearingNeverReused

---------------------------------------------------------------------------
(* Steps that leave the grade and the evaluations alone                     *)

LEMMA QuietKeeps ==
  ASSUME Core, UNCHANGED <<submission, grade, attempts, participationOpen>>,
         \/ panelists' = panelists
         \/ \E h \in Hearing, panel \in Panels : ChangePanel(h, panel),
         \A h \in Hearing : status'[h] = "none" => status[h] = "none",
         Typed'
  PROVE  Core' /\ FailureStep
  <1>1. AttemptNumbering' /\ SettledHearingNeverReused'
    BY SameAttemptKeeps
  <1>2. PanelScoreCurrent' /\ ClosedPublished' /\ FailureStep
    BY DEF Core, PanelScoreCurrent, Live, ClosedPublished, FailureStep
  <1>3. FreshHearings' /\ LiveEvaluatorsAssigned'
    <2>1. CASE panelists' = panelists
      BY <2>1 DEF Core, FreshHearings, LiveEvaluatorsAssigned
    <2>2. CASE \E h \in Hearing, panel \in Panels : ChangePanel(h, panel)
      <3>1. PICK h \in Hearing, panel \in Panels : ChangePanel(h, panel)
        BY <2>2
      <3>2. /\ status' = status /\ status[h] # "none"
            /\ panelists' = [panelists EXCEPT ![h] = panel]
            /\ panelists \in [Hearing -> SUBSET Panelist]
            /\ \A p \in panelists[h] \ panel : submission[h][p] \notin Score
        BY <3>1 DEF ChangePanel, Core, Typed
      <3>3. FreshHearings'
        BY <3>2 DEF Core, FreshHearings
      <3>4. LiveEvaluatorsAssigned'
        BY <3>2 DEF Core, LiveEvaluatorsAssigned
      <3> QED BY <3>3, <3>4
    <2> QED BY <2>1, <2>2
  <1> QED BY <1>1, <1>2, <1>3 DEF Core

LEMMA MarkReadyType ==
  ASSUME Typed, MarkReady
  PROVE  /\ progress' \in Progress /\ reendorsed' \in BOOLEAN
         /\ participationOpen' = participationOpen
  BY DEF Typed, MarkReady, Progress

LEMMA EndorsementStep ==
  ASSUME Core, Endorse \/ Unendorse
  PROVE  Core' /\ FailureStep
  <1>1. Typed
    BY DEF Core
  <1>2. Typed'
    <2>1. CASE Endorse
      BY <1>1, <2>1, MarkReadyType DEF Endorse, Typed
    <2>2. CASE Unendorse
      BY <1>1, <2>2 DEF Unendorse, Typed, Progress
    <2> QED BY <2>1, <2>2
  <1>3. UNCHANGED <<submission, grade, attempts, participationOpen, panelists, status>>
    BY <1>1, MarkReadyType DEF Endorse, Unendorse
  <1> QED BY <1>2, <1>3, QuietKeeps

LEMMA LeaveScheduledType ==
  ASSUME Typed, NEW h \in Hearing, LeaveScheduled(h)
  PROVE  /\ progress' \in Progress /\ reendorsed' \in BOOLEAN
         /\ participationOpen' = participationOpen
  <1>1. CASE MarkReady
    BY <1>1, MarkReadyType
  <1>2. CASE UNCHANGED teamVars
    BY <1>2 DEF teamVars, Typed
  <1> QED BY <1>1, <1>2 DEF LeaveScheduled

LEMMA ValidationStep ==
  ASSUME Core, RefuseHearing \/ \E panel \in Panels : ValidateHearing(panel)
  PROVE  Core' /\ FailureStep
  <1>1. Typed
    BY DEF Core
  <1>2. Typed'
    BY <1>1 DEF Typed, RefuseHearing, ValidateHearing, Panels, teamVars
  <1>3. UNCHANGED <<submission, grade, attempts, participationOpen, panelists, status>>
    BY DEF RefuseHearing, ValidateHearing, teamVars
  <1> QED BY <1>2, <1>3, QuietKeeps

LEMMA HearingStatusStep ==
  ASSUME Core, NEW h \in Hearing, Cancel(h) \/ Restore(h) \/ Archive(h)
  PROVE  Core' /\ FailureStep
  <1>1. Typed
    BY DEF Core
  <1>2. PICK s \in Status \ {"none"} : status' = [status EXCEPT ![h] = s]
    BY DEF Cancel, Restore, Archive, Status
  <1>3. UNCHANGED <<submission, grade, attempts, participationOpen, panelists>>
    BY <1>1, LeaveScheduledType DEF Cancel, Restore, Archive, teamVars
  <1>4. /\ progress' \in Progress /\ reendorsed' \in BOOLEAN
        /\ UNCHANGED <<officiallyComplete, planned, requests>>
    BY <1>1, LeaveScheduledType DEF Cancel, Restore, Archive, teamVars, Typed, Progress
  <1>5. status' \in [Hearing -> Status]
        /\ \A k \in Hearing : status'[k] = "none" => status[k] = "none"
    BY <1>1, <1>2 DEF Typed
  <1>6. Typed'
    BY <1>1, <1>3, <1>4, <1>5 DEF Typed
  <1> QED BY <1>3, <1>5, <1>6, QuietKeeps

LEMMA ChangePanelStep ==
  ASSUME Core, NEW h \in Hearing, NEW panel \in Panels, ChangePanel(h, panel)
  PROVE  Core' /\ FailureStep
  <1>1. Typed
    BY DEF Core
  <1>2. Typed'
    BY <1>1 DEF Typed, ChangePanel, Panels, Progress
  <1>3. UNCHANGED <<submission, grade, attempts, participationOpen, status>>
    BY DEF ChangePanel
  <1> QED BY <1>2, <1>3, QuietKeeps

---------------------------------------------------------------------------
(* Steps that move the grade                                                *)

LEMMA OpenStep ==
  ASSUME Core, NEW h \in Hearing, OpenGrade(h),
         UNCHANGED <<submission, participationOpen>>,
         status' \in [Hearing -> Status], panelists' \in [Hearing -> SUBSET Panelist],
         progress' \in Progress, UNCHANGED officiallyComplete,
         planned' \subseteq Panelist, requests' \subseteq Request,
         FreshHearings', LiveEvaluatorsAssigned'
  PROVE  Core' /\ FailureStep
  <1>1. /\ grade' \in Grade /\ attempts' \in Seq(Attempt) /\ reendorsed' \in BOOLEAN
        /\ AttemptNumbering' /\ SettledHearingNeverReused'
        /\ grade'.panel \in {NoPanel, Live(grade'.schedule, submission)}
        /\ ~participationOpen => UNCHANGED <<grade, attempts>>
    BY OpenGradeKeeps
  <1>2. Typed'
    BY <1>1 DEF Core, Typed
  <1>3. PanelScoreCurrent'
    BY <1>1 DEF PanelScoreCurrent, Live
  <1>4. ClosedPublished' /\ FailureStep
    BY <1>1 DEF Core, ClosedPublished, FailureStep
  <1> QED BY <1>1, <1>2, <1>3, <1>4 DEF Core

LEMMA ScheduleStep ==
  ASSUME Core, NEW panel \in SUBSET Panelist, Schedule(panel), planned' \subseteq Panelist
  PROVE  Core' /\ FailureStep
  <1>1. PICK h \in Hearing :
          /\ status[h] = "none"
          /\ status' = [status EXCEPT ![h] = "scheduled"]
          /\ panelists' = [panelists EXCEPT ![h] = panel]
          /\ progress' = "scheduled"
          /\ OpenGrade(h)
          /\ UNCHANGED <<submission, participationOpen, officiallyComplete, requests>>
    BY DEF Schedule
  <1>2. Typed
    BY DEF Core
  <1>3. /\ status' \in [Hearing -> Status] /\ progress' \in Progress
        /\ panelists' \in [Hearing -> SUBSET Panelist] /\ requests' \subseteq Request
    BY <1>1, <1>2 DEF Typed, Status, Progress
  <1>4. FreshHearings'
    BY <1>1, <1>2 DEF Core, Typed, FreshHearings
  <1>5. panelists[h] = {}
    BY <1>1 DEF Core, FreshHearings
  <1>6. LiveEvaluatorsAssigned'
    BY <1>1, <1>2, <1>5 DEF Core, Typed, LiveEvaluatorsAssigned
  <1> QED BY <1>1, <1>3, <1>4, <1>6, OpenStep

LEMMA RequestOpenStep ==
  ASSUME Core, NEW r \in requests, Open(r)
  PROVE  Core' /\ FailureStep
  <1>1. Typed
    BY DEF Core
  <1>2. r \in Request
    BY <1>1 DEF Typed
  <1>3. r.hearing \in Hearing /\ [r EXCEPT !.opened = TRUE] \in Request
    BY <1>2 DEF Request
  <1>4. requests' \subseteq Request
    BY <1>1, <1>3 DEF Typed, Open
  <1>5. FreshHearings' /\ LiveEvaluatorsAssigned'
    BY DEF Core, FreshHearings, LiveEvaluatorsAssigned, Open
  <1>6. /\ OpenGrade(r.hearing) /\ UNCHANGED <<submission, participationOpen>>
        /\ status' \in [Hearing -> Status] /\ panelists' \in [Hearing -> SUBSET Panelist]
        /\ progress' \in Progress /\ UNCHANGED officiallyComplete
        /\ planned' \subseteq Panelist
    BY <1>1 DEF Open, Typed
  <1> QED BY <1>3, <1>4, <1>5, <1>6, OpenStep

LEMMA OpenByVerdictStep ==
  ASSUME Core, NEW h \in Hearing, OpenByVerdict(h)
  PROVE  Core' /\ FailureStep
  <1>1. Typed
    BY DEF Core
  <1>2. FreshHearings' /\ LiveEvaluatorsAssigned'
    BY DEF Core, FreshHearings, LiveEvaluatorsAssigned, OpenByVerdict
  <1>3. /\ OpenGrade(h) /\ UNCHANGED <<submission, participationOpen>>
        /\ status' \in [Hearing -> Status] /\ panelists' \in [Hearing -> SUBSET Panelist]
        /\ progress' \in Progress /\ UNCHANGED officiallyComplete
        /\ planned' \subseteq Panelist /\ requests' \subseteq Request
    BY <1>1 DEF OpenByVerdict, Typed
  <1> QED BY <1>2, <1>3, OpenStep

LEMMA DeleteHearingStep ==
  ASSUME Core, NEW h \in Hearing, DeleteHearing(h)
  PROVE  Core' /\ FailureStep
  <1>1. Typed
    BY DEF Core
  <1>2. /\ progress' \in Progress /\ reendorsed' \in BOOLEAN
        /\ participationOpen' = participationOpen
    BY <1>1, LeaveScheduledType DEF DeleteHearing
  <1>3. /\ grade' \in Grade /\ grade'.attempt = grade.attempt /\ grade'.panel = grade.panel
        /\ grade'.schedule \in {grade.schedule, 0}
        /\ grade'.published = grade.published
    BY <1>1 DEF DeleteHearing, Typed, Grade
  <1>4. Typed'
    BY <1>1, <1>2, <1>3 DEF DeleteHearing, Typed, Status
  <1>5. attempts = <<>> /\ attempts' = attempts
    BY DEF DeleteHearing
  <1>6. AttemptNumbering' /\ SettledHearingNeverReused'
    BY <1>3, <1>5 DEF Core, AttemptNumbering, SettledHearingNeverReused
  <1>7. \A k \in Hearing : submission'[k] = NoPanel
    BY DEF DeleteHearing
  <1>8. NoPanel = [p \in Panelist |-> IF NoPanel[p] \in Score THEN NoPanel[p] ELSE NoScore]
    BY EvaluationAssumption DEF NoPanel
  <1>9. \A k \in Hearing \cup {0} : Live(k, submission) = NoPanel /\ Live(k, submission') = NoPanel
    BY <1>7, <1>8 DEF DeleteHearing, Live
  <1>10. PanelScoreCurrent'
    BY <1>1, <1>3, <1>9 DEF Core, Typed, Grade, PanelScoreCurrent
  <1>11. FreshHearings'
    BY <1>1 DEF DeleteHearing, Core, Typed, FreshHearings
  <1>12. LiveEvaluatorsAssigned'
    BY <1>7, EvaluationAssumption DEF LiveEvaluatorsAssigned, NoPanel
  <1>13. participationOpen /\ participationOpen'
    BY <1>1, <1>2 DEF DeleteHearing, Core, ClosedPublished
  <1> QED BY <1>4, <1>6, <1>10, <1>11, <1>12, <1>13
          DEF Core, ClosedPublished, FailureStep

---------------------------------------------------------------------------
(* Steps that change the grade of the current attempt                       *)

LEMMA GradeStep ==
  ASSUME Core,
         grade' \in Grade, attempts' = attempts, panelists' = panelists,
         grade'.schedule = grade.schedule, grade'.attempt = grade.attempt,
         grade.published => grade'.published,
         status' \in [Hearing -> Status],
         \A h \in Hearing : status'[h] = "none" => status[h] = "none",
         submission' \in [Hearing -> [Panelist -> Evaluation]], LiveEvaluatorsAssigned',
         grade'.panel \in {NoPanel, Live(grade.schedule, submission')},
         progress' \in Progress, participationOpen' \in BOOLEAN,
         reendorsed' \in BOOLEAN, officiallyComplete' \in BOOLEAN,
         planned' = planned, requests' \subseteq requests,
         participationOpen /\ ~participationOpen' => grade'.published,
         ~participationOpen => /\ ~participationOpen'
                               /\ grade'.verdict = grade.verdict
                               /\ grade'.published = grade.published
                               /\ grade'.closed = grade.closed
  PROVE  Core' /\ FailureStep
  <1>1. Typed'
    BY DEF Core, Typed
  <1>2. AttemptNumbering' /\ SettledHearingNeverReused'
    BY SameAttemptKeeps
  <1>3. PanelScoreCurrent'
    BY DEF PanelScoreCurrent, Live
  <1>4. FreshHearings'
    BY DEF Core, FreshHearings
  <1>5. ClosedPublished'
    BY DEF Core, Typed, ClosedPublished
  <1>6. FailureStep
    BY DEF FailureStep
  <1> QED BY <1>1, <1>2, <1>3, <1>4, <1>5, <1>6 DEF Core

\* The same when no evaluation is touched.
LEMMA ScoreStep ==
  ASSUME Core,
         UNCHANGED <<attempts, panelists, submission, planned, requests>>,
         grade' \in Grade, grade'.schedule = grade.schedule,
         grade'.attempt = grade.attempt, grade'.panel = grade.panel,
         grade.published => grade'.published,
         status' \in [Hearing -> Status],
         \A h \in Hearing : status'[h] = "none" => status[h] = "none",
         progress' \in Progress, participationOpen' \in BOOLEAN,
         reendorsed' \in BOOLEAN, officiallyComplete' \in BOOLEAN,
         participationOpen /\ ~participationOpen' => grade'.published,
         ~participationOpen => /\ ~participationOpen'
                               /\ grade'.verdict = grade.verdict
                               /\ grade'.published = grade.published
                               /\ grade'.closed = grade.closed
  PROVE  Core' /\ FailureStep
  <1>1. /\ submission' \in [Hearing -> [Panelist -> Evaluation]]
        /\ requests' \subseteq requests
    BY DEF Core, Typed
  <1>2. LiveEvaluatorsAssigned'
    BY DEF Core, LiveEvaluatorsAssigned
  <1>3. grade'.panel \in {NoPanel, Live(grade.schedule, submission')}
    BY DEF Core, PanelScoreCurrent, Live
  <1> QED BY <1>1, <1>2, <1>3, GradeStep

LEMMA FinishHearingType ==
  ASSUME status \in [Hearing -> Status], NEW h, FinishHearing(h)
  PROVE  /\ status' \in [Hearing -> Status]
         /\ \A k \in Hearing : status'[k] = "none" => status[k] = "none"
  BY DEF FinishHearing, Status

LEMMA FinalizeType ==
  ASSUME status \in [Hearing -> Status], NEW g \in Grade, Finalize(g)
  PROVE  /\ status' \in [Hearing -> Status]
         /\ \A k \in Hearing : status'[k] = "none" => status[k] = "none"
         /\ grade' = AutoFinalized(g, submission)
  BY FinishHearingType DEF Finalize

LEMMA RecordOutcomeType ==
  ASSUME Typed, NEW g \in Grade, NEW v \in Verdict, NEW sub, RecordOutcome(g, v, sub)
  PROVE  /\ grade' \in Grade
         /\ grade'.schedule = g.schedule /\ grade'.attempt = g.attempt
         /\ grade'.panel = g.panel
         /\ g.published => grade'.published
         /\ progress' \in Progress /\ participationOpen' \in BOOLEAN
         /\ reendorsed' \in BOOLEAN
         /\ status' \in [Hearing -> Status]
         /\ \A k \in Hearing : status'[k] = "none" => status[k] = "none"
         /\ participationOpen /\ ~participationOpen' => grade'.published
  <1> DEFINE n == [g EXCEPT !.verdict = v, !.cleared = FALSE]
  <1>1. /\ n \in Grade /\ n.schedule = g.schedule /\ n.attempt = g.attempt
        /\ n.panel = g.panel /\ n.published = g.published
    BY DEF Grade
  <1>2. /\ grade' = AutoFinalized(n, sub) /\ reendorsed' = FALSE
        /\ FinishHearing(g.schedule) /\ ApplyResult(grade')
    BY DEF RecordOutcome
  <1> HIDE DEF n
  <1>3. /\ grade' \in Grade /\ grade'.schedule = n.schedule /\ grade'.panel = n.panel
        /\ grade'.attempt = n.attempt /\ (n.published => grade'.published)
    BY <1>1, <1>2, AutoFinalizedType
  <1>4. /\ progress' \in Progress /\ participationOpen' \in BOOLEAN
        /\ participationOpen /\ ~participationOpen' => grade'.published
    BY <1>2, ApplyResultType DEF Typed
  <1>5. /\ status' \in [Hearing -> Status]
        /\ \A k \in Hearing : status'[k] = "none" => status[k] = "none"
    BY <1>2, FinishHearingType DEF Typed
  <1> QED BY <1>1, <1>2, <1>3, <1>4, <1>5

LEMMA RecordVerdictStep ==
  ASSUME Core, NEW v \in Verdict, RecordVerdict(v)
  PROVE  Core' /\ FailureStep
  <1>1. Typed /\ grade \in Grade
    BY DEF Core, Typed
  <1>2. /\ RecordOutcome(grade, v, submission) /\ participationOpen
        /\ UNCHANGED <<panelists, submission, attempts, officiallyComplete,
                       planned, requests>>
    BY DEF RecordVerdict
  <1>3. officiallyComplete' \in BOOLEAN
    BY <1>1, <1>2 DEF Typed
  <1> QED BY <1>1, <1>2, <1>3, RecordOutcomeType, ScoreStep

LEMMA ClearRevisionsStep ==
  ASSUME Core, ClearRevisions
  PROVE  Core' /\ FailureStep
  <1> DEFINE n == [grade EXCEPT !.cleared = TRUE]
  <1>1. Typed
    BY DEF Core
  <1>2. /\ n \in Grade /\ n.schedule = grade.schedule /\ n.attempt = grade.attempt
        /\ n.panel = grade.panel /\ n.published = grade.published
    BY <1>1 DEF Typed, Grade
  <1>3. /\ Finalize(n) /\ ApplyResult(grade') /\ participationOpen
        /\ UNCHANGED <<panelists, submission, attempts, reendorsed,
                       officiallyComplete, planned, requests>>
    BY DEF ClearRevisions
  <1> HIDE DEF n
  <1>4. /\ status' \in [Hearing -> Status] /\ grade' = AutoFinalized(n, submission)
        /\ \A k \in Hearing : status'[k] = "none" => status[k] = "none"
    BY <1>1, <1>2, <1>3, FinalizeType DEF Typed
  <1>5. /\ grade' \in Grade /\ grade'.schedule = grade.schedule
        /\ grade'.attempt = grade.attempt /\ grade'.panel = grade.panel
        /\ grade.published => grade'.published
    BY <1>2, <1>4, AutoFinalizedType
  <1>6. /\ progress' \in Progress /\ participationOpen' \in BOOLEAN
        /\ participationOpen /\ ~participationOpen' => grade'.published
    BY <1>1, <1>3, ApplyResultType DEF Typed
  <1>7. reendorsed' \in BOOLEAN /\ officiallyComplete' \in BOOLEAN
    BY <1>1, <1>3 DEF Typed
  <1> QED BY <1>3, <1>4, <1>5, <1>6, <1>7, ScoreStep

LEMMA PeerScoresStep ==
  ASSUME Core, PeerScores
  PROVE  Core' /\ FailureStep
  <1> DEFINE n == [grade EXCEPT !.peer = TRUE]
  <1>1. Typed
    BY DEF Core
  <1>2. /\ n \in Grade /\ n.schedule = grade.schedule /\ n.attempt = grade.attempt
        /\ n.panel = grade.panel /\ n.published = grade.published
    BY <1>1 DEF Typed, Grade
  <1>3. /\ Finalize(n) /\ participationOpen
        /\ \/ ApplyResult(grade')
           \/ UNCHANGED <<progress, participationOpen>>
        /\ UNCHANGED <<panelists, submission, attempts, reendorsed,
                       officiallyComplete, planned, requests>>
    BY DEF PeerScores, GradingAvailable, Editable
  <1> HIDE DEF n
  <1>4. /\ status' \in [Hearing -> Status] /\ grade' = AutoFinalized(n, submission)
        /\ \A k \in Hearing : status'[k] = "none" => status[k] = "none"
    BY <1>1, <1>2, <1>3, FinalizeType DEF Typed
  <1>5. /\ grade' \in Grade /\ grade'.schedule = grade.schedule
        /\ grade'.attempt = grade.attempt /\ grade'.panel = grade.panel
        /\ grade.published => grade'.published
    BY <1>2, <1>4, AutoFinalizedType
  <1>6. /\ progress' \in Progress /\ participationOpen' \in BOOLEAN
        /\ participationOpen /\ ~participationOpen' => grade'.published
    BY <1>1, <1>3, ApplyResultType DEF Typed
  <1>7. reendorsed' \in BOOLEAN /\ officiallyComplete' \in BOOLEAN
    BY <1>1, <1>3 DEF Typed
  <1> QED BY <1>3, <1>4, <1>5, <1>6, <1>7, ScoreStep

LEMMA AdviserScoreStep ==
  ASSUME Core, AdviserScore
  PROVE  Core' /\ FailureStep
  <1>1. Typed
    BY DEF Core
  <1>2. /\ grade' \in Grade /\ grade'.schedule = grade.schedule
        /\ grade'.attempt = grade.attempt /\ grade'.panel = grade.panel
        /\ grade'.published = grade.published
    BY <1>1 DEF AdviserScore, Typed, Grade
  <1>3. participationOpen
    BY DEF AdviserScore, GradingAvailable, Editable
  <1>4. UNCHANGED <<status, panelists, submission, attempts, teamVars,
                    officiallyComplete, planned, requests>>
    BY DEF AdviserScore
  <1>5. /\ status' \in [Hearing -> Status] /\ progress' \in Progress
        /\ participationOpen' = participationOpen /\ participationOpen' \in BOOLEAN
        /\ reendorsed' \in BOOLEAN /\ officiallyComplete' \in BOOLEAN
    BY <1>1, <1>4 DEF Typed, teamVars
  <1> QED BY <1>2, <1>3, <1>4, <1>5, ScoreStep

LEMMA PublishGradeType ==
  ASSUME Typed, PublishGrade
  PROVE  /\ grade' \in Grade /\ grade'.schedule = grade.schedule
         /\ grade'.attempt = grade.attempt /\ grade'.panel = grade.panel
         /\ grade'.published
         /\ progress' \in Progress /\ participationOpen' \in BOOLEAN
         /\ status' \in [Hearing -> Status]
         /\ \A k \in Hearing : status'[k] = "none" => status[k] = "none"
  <1>1. FinishHearing(grade.schedule) /\ ApplyResult(grade')
        /\ grade' = [grade EXCEPT !.published = TRUE]
    BY DEF PublishGrade
  <1>2. /\ grade' \in Grade /\ grade'.schedule = grade.schedule
        /\ grade'.attempt = grade.attempt /\ grade'.panel = grade.panel
        /\ grade'.published
    BY <1>1 DEF Typed, Grade
  <1> QED BY <1>1, <1>2, FinishHearingType, ApplyResultType DEF Typed

LEMMA PublishStep ==
  ASSUME Core, Publish
  PROVE  Core' /\ FailureStep
  <1>1. Typed
    BY DEF Core
  <1>2. /\ participationOpen /\ PublishGrade
        /\ UNCHANGED <<panelists, submission, attempts, reendorsed,
                       officiallyComplete, planned, requests>>
    BY DEF Publish, MayPublish
  <1>3. reendorsed' \in BOOLEAN /\ officiallyComplete' \in BOOLEAN
    BY <1>1, <1>2 DEF Typed
  <1> QED BY <1>1, <1>2, <1>3, PublishGradeType, ScoreStep

LEMMA CompletionStep ==
  ASSUME Core, CompleteStage \/ ReopenStage
  PROVE  Core' /\ FailureStep
  <1>1. Typed
    BY DEF Core
  <1>2. /\ UNCHANGED <<panelists, submission, attempts, reendorsed, planned, requests>>
        /\ officiallyComplete' \in BOOLEAN /\ reendorsed' \in BOOLEAN
    BY <1>1 DEF CompleteStage, ReopenStage, Typed, teamVars
  <1>3. CASE EligibleFailure /\ participationOpen /\ UNCHANGED status /\ ApplyResult(grade')
             /\ grade' = [grade EXCEPT !.closed = TRUE, !.published = TRUE]
    <2>1. /\ grade' \in Grade /\ grade'.schedule = grade.schedule
          /\ grade'.attempt = grade.attempt /\ grade'.panel = grade.panel
          /\ grade'.published
      BY <1>1, <1>3 DEF Typed, Grade
    <2>2. /\ status' \in [Hearing -> Status] /\ progress' \in Progress
          /\ participationOpen' \in BOOLEAN
      BY <1>1, <1>3, ApplyResultType DEF Typed
    <2> QED BY <1>2, <1>3, <2>1, <2>2, ScoreStep
  <1>4. CASE participationOpen /\ PublishGrade
    BY <1>1, <1>2, <1>4, PublishGradeType, ScoreStep
  <1>5. CASE ApplyResult(grade) /\ UNCHANGED <<grade, status>>
    <2>1. /\ progress' \in Progress /\ participationOpen' \in BOOLEAN
          /\ ~participationOpen => ~participationOpen'
          /\ participationOpen /\ ~participationOpen' => grade'.published
      BY <1>1, <1>5, ApplyResultType DEF Typed
    <2>2. grade' \in Grade /\ status' \in [Hearing -> Status]
      BY <1>1, <1>5 DEF Typed
    <2> QED BY <1>2, <1>5, <2>1, <2>2, ScoreStep
  <1>6. CASE UNCHANGED <<grade, status, progress, participationOpen>>
    <2>1. /\ grade' \in Grade /\ status' \in [Hearing -> Status]
          /\ progress' \in Progress /\ participationOpen' \in BOOLEAN
      BY <1>1, <1>6 DEF Typed
    <2> QED BY <1>2, <1>6, <2>1, ScoreStep
  <1> QED BY <1>3, <1>4, <1>5, <1>6 DEF CompleteStage, ReopenStage, teamVars

---------------------------------------------------------------------------
(* Steps that change an evaluation                                          *)

LEMMA SubmitStep ==
  ASSUME Core, NEW r \in requests, NEW s \in Score, Submit(r, s)
  PROVE  Core' /\ FailureStep
  <1> DEFINE sub == [submission EXCEPT ![r.hearing][r.panelist] = s]
             scored == [grade EXCEPT !.panel = Live(grade.schedule, sub)]
  <1>1. Typed /\ grade \in Grade
    BY DEF Core, Typed
  <1>2. r.hearing \in Hearing /\ r.panelist \in Panelist
    BY <1>1 DEF Typed, Request
  <1>3. sub \in [Hearing -> [Panelist -> Evaluation]]
    BY <1>1, <1>2 DEF Typed, Evaluation
  <1>4. grade.schedule \in Hearing \cup {0}
    BY <1>1 DEF Grade
  <1>5. Live(grade.schedule, sub) \in PanelScores
    BY <1>3, <1>4, LiveType
  <1>6. /\ \A h \in Hearing, p \in Panelist :
             sub[h][p] # submission[h][p] => h = r.hearing /\ p = r.panelist
        /\ r.panelist \in panelists[r.hearing]
    BY <1>1, <1>2 DEF Typed, Submit, MaySubmit
  <1>7. participationOpen
    BY DEF Submit, MaySubmit, Editable
  <1>8. /\ submission' = sub /\ requests' = requests \ {r}
        /\ UNCHANGED <<panelists, attempts, officiallyComplete, planned>>
        /\ \/ \E v \in Verdict : RecordOutcome(scored, v, sub)
           \/ grade' = scored /\ UNCHANGED <<status, teamVars>>
    BY DEF Submit, Verdict
  <1> HIDE DEF sub
  <1>9. /\ scored \in Grade /\ scored.panel = Live(grade.schedule, sub)
        /\ scored.schedule = grade.schedule /\ scored.attempt = grade.attempt
        /\ scored.published = grade.published
    BY <1>1, <1>5 DEF Grade
  <1> HIDE DEF scored
  <1>10. LiveEvaluatorsAssigned'
    BY <1>1, <1>6, <1>8 DEF Core, LiveEvaluatorsAssigned
  <1>11. /\ officiallyComplete' \in BOOLEAN /\ requests' \subseteq requests
         /\ submission' \in [Hearing -> [Panelist -> Evaluation]]
    BY <1>1, <1>3, <1>8 DEF Typed
  <1>12. CASE \E v \in Verdict : RecordOutcome(scored, v, sub)
    <2>1. PICK v \in Verdict : RecordOutcome(scored, v, sub)
      BY <1>12
    <2>2. /\ grade' \in Grade
          /\ grade'.schedule = scored.schedule /\ grade'.attempt = scored.attempt
          /\ grade'.panel = scored.panel
          /\ scored.published => grade'.published
          /\ progress' \in Progress /\ participationOpen' \in BOOLEAN
          /\ reendorsed' \in BOOLEAN
          /\ status' \in [Hearing -> Status]
          /\ \A k \in Hearing : status'[k] = "none" => status[k] = "none"
          /\ participationOpen /\ ~participationOpen' => grade'.published
      BY <1>1, <1>9, <2>1, RecordOutcomeType
    <2> QED BY <1>7, <1>8, <1>9, <1>10, <1>11, <2>2, GradeStep
  <1>13. CASE grade' = scored /\ UNCHANGED <<status, teamVars>>
    <2>1. /\ status' \in [Hearing -> Status] /\ progress' \in Progress
          /\ participationOpen' = participationOpen /\ participationOpen' \in BOOLEAN
          /\ reendorsed' \in BOOLEAN
      BY <1>1, <1>13 DEF Typed, teamVars
    <2> QED BY <1>7, <1>8, <1>9, <1>10, <1>11, <1>13, <2>1, GradeStep
  <1> QED BY <1>8, <1>12, <1>13

LEMMA CorrectStep ==
  ASSUME Core, NEW c, c.panelist \in Panelist, c.score \in Score \cup {VoidScore},
         NEW protected, Correctable(c, protected), Correct(c),
         UNCHANGED <<status, panelists, attempts, teamVars, officiallyComplete,
                     planned, requests>>
  PROVE  Core' /\ FailureStep
  <1> DEFINE sub == Corrected(c)
             p == c.panelist
  <1>1. Typed /\ grade \in Grade
    BY DEF Core, Typed
  <1>2. grade.schedule \in Hearing /\ submission[grade.schedule][p] \in Score
    BY <1>1 DEF Correctable, Grade
  <1>3. sub \in [Hearing -> [Panelist -> Evaluation]]
    BY <1>1, <1>2 DEF Typed, Evaluation, Corrected
  <1>4. Live(grade.schedule, sub) \in PanelScores
    BY <1>2, <1>3, LiveType
  <1>5. \A h \in Hearing, q \in Panelist :
          sub[h][q] # submission[h][q] => h = grade.schedule /\ q = p
    BY <1>1, <1>2 DEF Typed, Corrected
  <1>6. submission' = sub /\ grade' = [grade EXCEPT !.panel = Live(grade.schedule, sub)]
    BY DEF Correct
  <1> HIDE DEF sub
  <1>7. /\ grade' \in Grade /\ grade'.panel = Live(grade.schedule, sub)
        /\ grade'.schedule = grade.schedule /\ grade'.attempt = grade.attempt
        /\ grade'.published = grade.published /\ grade'.verdict = grade.verdict
        /\ grade'.closed = grade.closed
    BY <1>1, <1>4, <1>6 DEF Grade
  <1>8. LiveEvaluatorsAssigned'
    BY <1>2, <1>5, <1>6 DEF Core, LiveEvaluatorsAssigned
  <1>9. /\ submission' \in [Hearing -> [Panelist -> Evaluation]]
        /\ status' \in [Hearing -> Status] /\ progress' \in Progress
        /\ participationOpen' = participationOpen /\ participationOpen' \in BOOLEAN
        /\ reendorsed' \in BOOLEAN /\ officiallyComplete' \in BOOLEAN
        /\ requests' \subseteq requests
    BY <1>1, <1>3, <1>6 DEF Typed, teamVars
  <1> QED BY <1>6, <1>7, <1>8, <1>9, GradeStep

\* A step that changes nothing but a pending correction.
LEMMA CoreUnchanged ==
  ASSUME Core,
         UNCHANGED <<status, panelists, submission, grade, attempts, teamVars,
                     officiallyComplete, planned, requests>>
  PROVE  Core' /\ FailureStep
  <1>1. Typed'
    BY DEF Core, Typed, teamVars
  <1>2. \A h \in Hearing : status'[h] = "none" => status[h] = "none"
    OBVIOUS
  <1> QED BY <1>1, <1>2, QuietKeeps DEF teamVars

LEMMA CorrectionStep ==
  ASSUME Core, amendment \subseteq Amendment, CorrectionOperation
  PROVE  Core' /\ FailureStep
  <1>1. CASE \E p \in Panelist, s \in Score \cup {VoidScore} : RequestCorrection(p, s)
    <2>1. PICK p \in Panelist, s \in Score \cup {VoidScore} : RequestCorrection(p, s)
      BY <1>1
    <2> DEFINE c == [panelist |-> p, score |-> s, stale |-> FALSE]
    <2>2. /\ Correctable(c, Protected)
          /\ UNCHANGED <<status, panelists, attempts, teamVars, officiallyComplete,
                         planned, requests>>
          /\ Correct(c) \/ UNCHANGED <<submission, grade>>
      BY <2>1 DEF RequestCorrection
    <2>3. c.panelist \in Panelist /\ c.score \in Score \cup {VoidScore}
      OBVIOUS
    <2> HIDE DEF c
    <2> QED BY <2>2, <2>3, CorrectStep, CoreUnchanged
  <1>2. CASE \E c \in amendment : ReviewCorrection(c)
    <2>1. PICK c \in amendment : ReviewCorrection(c)
      BY <1>2
    <2>2. c.panelist \in Panelist /\ c.score \in Score \cup {VoidScore}
      BY DEF Amendment
    <2>3. /\ UNCHANGED <<status, panelists, attempts, teamVars, officiallyComplete,
                         planned, requests>>
          /\ \/ Correctable(c, TRUE) /\ Correct(c)
             \/ UNCHANGED <<submission, grade>>
      BY <2>1 DEF ReviewCorrection
    <2> QED BY <2>2, <2>3, CorrectStep, CoreUnchanged
  <1> QED BY <1>1, <1>2 DEF CorrectionOperation

---------------------------------------------------------------------------
(* All steps                                                                *)

LEMMA RequestStep ==
  ASSUME Core, (\E p \in Panelist, h \in Hearing : Read(p, h)) \/ \E r \in requests : Abandon(r)
  PROVE  Core' /\ FailureStep
  <1>1. Typed
    BY DEF Core
  <1>2. UNCHANGED <<status, panelists, submission, grade, attempts, teamVars,
                    officiallyComplete, planned>>
    BY DEF Read, Abandon
  <1>3. requests' \subseteq Request
    <2>1. CASE \E p \in Panelist, h \in Hearing : Read(p, h)
      <3>1. PICK p \in Panelist, h \in Hearing : Read(p, h)
        BY <2>1
      <3>2. [panelist |-> p, hearing |-> h, opened |-> FALSE] \in Request
        BY DEF Request
      <3> QED BY <1>1, <3>1, <3>2 DEF Typed, Read
    <2>2. CASE \E r \in requests : Abandon(r)
      BY <1>1, <2>2 DEF Typed, Abandon
    <2> QED BY <2>1, <2>2
  <1>4. Typed'
    BY <1>1, <1>2, <1>3 DEF Typed, teamVars
  <1>5. \A h \in Hearing : status'[h] = "none" => status[h] = "none"
    BY <1>2
  <1> QED BY <1>2, <1>4, <1>5, QuietKeeps DEF teamVars

LEMMA HearingOperationStep ==
  ASSUME Core, HearingOperation
  PROVE  Core' /\ FailureStep
  <1>1. planned \subseteq Panelist
    BY DEF Core, Typed
  <1>2. CASE \E panel \in Panels : PlanHearing(panel)
    BY <1>1, <1>2, ScheduleStep DEF PlanHearing, Panels
  <1>3. CASE CreateHearing
    BY <1>1, <1>3, ScheduleStep DEF CreateHearing
  <1>4. CASE RefuseHearing \/ \E panel \in Panels : ValidateHearing(panel)
    BY <1>4, ValidationStep
  <1>5. CASE \E h \in Hearing : Cancel(h) \/ Restore(h) \/ Archive(h)
    BY <1>5, HearingStatusStep
  <1>6. CASE \E h \in Hearing : DeleteHearing(h)
    BY <1>6, DeleteHearingStep
  <1>7. CASE \E h \in Hearing, panel \in Panels : ChangePanel(h, panel)
    BY <1>7, ChangePanelStep
  <1> QED BY <1>2, <1>3, <1>4, <1>5, <1>6, <1>7 DEF HearingOperation

LEMMA PanelOperationStep ==
  ASSUME Core, PanelOperation
  PROVE  Core' /\ FailureStep
  BY RequestStep, RequestOpenStep, SubmitStep DEF PanelOperation

LEMMA GradeOperationStep ==
  ASSUME Core, GradeOperation
  PROVE  Core' /\ FailureStep
  BY OpenByVerdictStep, RecordVerdictStep, ClearRevisionsStep, AdviserScoreStep,
     PeerScoresStep, PublishStep, CompletionStep DEF GradeOperation

LEMMA NextKeeps ==
  ASSUME Core, amendment \subseteq Amendment, [Next]_vars
  PROVE  Core' /\ FailureStep
  <1>1. CASE Endorse \/ Unendorse
    BY <1>1, EndorsementStep
  <1>2. CASE HearingOperation
    BY <1>2, HearingOperationStep
  <1>3. CASE PanelOperation
    BY <1>3, PanelOperationStep
  <1>4. CASE GradeOperation
    BY <1>4, GradeOperationStep
  <1>5. CASE CorrectionOperation
    BY <1>5, CorrectionStep
  <1>6. CASE UNCHANGED vars
    BY <1>6, CoreUnchanged DEF vars
  <1> QED BY <1>1, <1>2, <1>3, <1>4, <1>5, <1>6 DEF Next, Operation

\* A pending correction ages, is replaced by a new one or is dropped.
LEMMA AmendmentType ==
  ASSUME amendment \subseteq Amendment, [Next]_vars
  PROVE  amendment' \subseteq Amendment
  <1>1. CASE AmendmentAges
    <2> SUFFICES ASSUME NEW c \in amendment
                 PROVE  [c EXCEPT !.stale = @ \/ Snapshot' # Snapshot] \in Amendment
      BY <1>1 DEF AmendmentAges
    <2> DEFINE aged == c.stale \/ Snapshot' # Snapshot
    <2>1. aged \in BOOLEAN
      OBVIOUS
    <2> HIDE DEF aged
    <2>2. [c EXCEPT !.stale = aged] \in Amendment
      BY <2>1 DEF Amendment
    <2> QED BY <2>2 DEF aged
  <1>2. CASE CorrectionOperation /\ ~AmendmentAges
    <2>1. CASE \E p \in Panelist, s \in Score \cup {VoidScore} : RequestCorrection(p, s)
      <3>1. PICK p \in Panelist, s \in Score \cup {VoidScore} : RequestCorrection(p, s)
        BY <2>1
      <3>2. [panelist |-> p, score |-> s, stale |-> FALSE] \in Amendment
        BY DEF Amendment
      <3>3. amendment' = {[panelist |-> p, score |-> s, stale |-> FALSE]}
        BY <1>2, <3>1 DEF RequestCorrection
      <3> QED BY <3>2, <3>3
    <2>2. CASE \E c \in amendment : ReviewCorrection(c)
      BY <2>2 DEF ReviewCorrection
    <2> QED BY <1>2, <2>1, <2>2 DEF CorrectionOperation
  <1>3. CASE UNCHANGED vars
    BY <1>3 DEF vars
  <1> QED BY <1>1, <1>2, <1>3 DEF Next

LEMMA InitIInv == Init => IInv
  <1> SUFFICES ASSUME Init PROVE IInv
    OBVIOUS
  <1>1. NoPanel \in PanelScores /\ NoPanel \in [Panelist -> Evaluation]
    BY DEF NoPanel, PanelScores, Evaluation
  <1>2. grade \in Grade /\ attempts \in Seq(Attempt)
    <2>1. "" \in Verdict /\ 0 \in Hearing \cup {0} /\ 1 \in Nat \ {0}
      BY DEF Verdict
    <2>2. grade \in Grade
      BY <1>1, <2>1 DEF Init, Grade
    <2>3. attempts = <<>>
      BY DEF Init
    <2> QED BY <2>2, <2>3
  <1>3. Typed
    BY <1>1, <1>2 DEF Init, Typed, Status, Progress
  <1>4. attempts = <<>> /\ grade.schedule = 0 /\ grade.attempt = 1 /\ grade.panel = NoPanel
    BY DEF Init
  <1>5. AttemptNumbering /\ SettledHearingNeverReused /\ PanelScoreCurrent
    BY <1>4 DEF AttemptNumbering, SettledHearingNeverReused, PanelScoreCurrent
  <1>6. FreshHearings /\ LiveEvaluatorsAssigned /\ ClosedPublished
    BY EvaluationAssumption
       DEF Init, FreshHearings, LiveEvaluatorsAssigned, ClosedPublished, NoPanel
  <1> QED BY <1>3, <1>5, <1>6 DEF IInv, Core, Init

\* The inductive invariant of the defense of a team.
THEOREM DefenseInvariant == Spec => []IInv
  <1>1. IInv /\ [Next]_vars => IInv'
    BY NextKeeps, AmendmentType DEF IInv
  <1> QED BY <1>1, InitIInv, PTL DEF Spec

\* Every reachable state of a defense, however many hearings, panelists and
\* requests there are, is of its type.
THEOREM TypeOKAlways == Spec => []TypeOK
  <1>1. IInv => TypeOK
    BY DEF IInv, Core, Typed, TypeOK
  <1> QED BY <1>1, DefenseInvariant, PTL

\* Attempts are numbered without a gap: every superseded attempt is snapshotted
\* exactly once (get_or_create_for_schedule).
THEOREM AttemptNumberingAlways == Spec => []AttemptNumbering
  <1>1. IInv => AttemptNumbering
    BY DEF IInv, Core
  <1> QED BY <1>1, DefenseInvariant, PTL

\* A hearing stands for one attempt at most, whatever late requests name it.
THEOREM SettledHearingNeverReusedAlways == Spec => []SettledHearingNeverReused
  <1>1. IInv => SettledHearingNeverReused
    BY DEF IInv, Core
  <1> QED BY <1>1, DefenseInvariant, PTL

\* Evaluations of one hearing never count for another one.
THEOREM PanelScoreCurrentAlways == Spec => []PanelScoreCurrent
  <1>1. IInv => PanelScoreCurrent
    BY DEF IInv, Core
  <1> QED BY <1>1, DefenseInvariant, PTL

\* A panelist whose evaluation counts stays on the panel of that hearing.
THEOREM LiveEvaluatorsAssignedAlways == Spec => []LiveEvaluatorsAssigned
  <1>1. IInv => LiveEvaluatorsAssigned
    BY DEF IInv, Core
  <1> QED BY <1>1, DefenseInvariant, PTL

\* No operation moves, reassesses, unpublishes or reopens a finalized failure.
THEOREM FailureIsFinalAlways == Spec => FailureIsFinal
  <1>1. IInv /\ [Next]_vars
          => [~participationOpen =>
                /\ ~participationOpen'
                /\ attempts' = attempts
                /\ \A field \in {"schedule", "attempt", "verdict", "published", "closed"} :
                     grade'[field] = grade[field]]_vars
    BY NextKeeps DEF IInv, FailureStep
  <1> QED BY <1>1, DefenseInvariant, PTL DEF Spec, FailureIsFinal

---------------------------------------------------------------------------
(* An evaluation is recorded once                                           *)

LEMMA RequestsOnlyRead ==
  ASSUME Typed, [Next]_vars, requests' # requests
  PROVE  \/ submission' = submission
         \/ \E r \in requests, s \in Score : Submit(r, s)
  <1>1. \/ \E p \in Panelist, h \in Hearing : Read(p, h)
        \/ \E r \in requests : Open(r) \/ Abandon(r) \/ \E s \in Score : Submit(r, s)
    BY DEF Next, Operation, Endorse, Unendorse, HearingOperation, ValidateHearing,
           PlanHearing, Schedule, CreateHearing, RefuseHearing, Cancel, Restore,
           Archive, DeleteHearing, ChangePanel, GradeOperation, OpenByVerdict,
           RecordVerdict, ClearRevisions, AdviserScore, PeerScores, Publish,
           CompleteStage, ReopenStage, CorrectionOperation, RequestCorrection,
           ReviewCorrection, PanelOperation, vars
  <1> QED BY <1>1 DEF Read, Open, Abandon

\* Answering or retrying a submission never alters an evaluation on record.
THEOREM EvaluationRecordedOnceAlways == Spec => EvaluationRecordedOnce
  <1> DEFINE Recorded ==
        requests' # requests =>
          \A h \in Hearing, p \in Panelist :
            submission[h][p] # NoScore => submission'[h][p] = submission[h][p]
  <1>1. ASSUME Typed, [Next]_vars, requests' # requests,
               NEW h \in Hearing, NEW p \in Panelist, submission[h][p] # NoScore
        PROVE  submission'[h][p] = submission[h][p]
    <2>1. CASE \E r \in requests, s \in Score : Submit(r, s)
      BY <1>1, <2>1 DEF Submit, MaySubmit, Typed, Request
    <2> QED BY <1>1, <2>1, RequestsOnlyRead
  <1>2. IInv /\ [Next]_vars => [Recorded]_vars
    BY <1>1 DEF IInv, Core
  <1> QED BY <1>2, DefenseInvariant, PTL DEF Spec, EvaluationRecordedOnce
==============================================================================
