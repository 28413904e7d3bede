------------------------- MODULE DefenseVerdictProofs -------------------------
(***************************************************************************)
(* What a recorded verdict and a published grade are worth, for every       *)
(* panel, score range and qualifying score: the hearing of a verdict is     *)
(* settled, an automatic verdict is what the complete panel gives, and a    *)
(* published grade is whole and final.  Built on the invariant of           *)
(* DefenseAttemptProofs.                                                    *)
(***************************************************************************)
EXTENDS DefenseAttemptProofs

Outcome(panel) == IF Qualifies(panel) THEN "approved" ELSE "for_redefense"

\* The panel score an automatic verdict was taken from is still the current one:
\* this is what goes into the history with the verdict.
VerdictPanelCurrent ==
  Automatic /\ grade.verdict # "" => grade.panel = Live(grade.schedule, submission)

VInv == VerdictHearingSettled /\ VerdictMatchesPanel /\ VerdictPanelCurrent

\* No step takes a hearing out of the two final states.
StaysSettled ==
  \A h \in Hearing : status[h] \in {"done", "archived"} => status'[h] \in {"done", "archived"}

---------------------------------------------------------------------------
(* Steps that keep the verdict                                              *)

LEMMA AttemptType ==
  ASSUME attempts \in Seq(Attempt), NEW i \in DOMAIN attempts
  PROVE  attempts[i].schedule \in Hearing
  <1>1. attempts[i] \in Attempt
    OBVIOUS
  <1> QED BY <1>1 DEF Attempt

LEMMA VerdictHasHearing ==
  ASSUME Core, VInv, grade.verdict # ""
  PROVE  grade.schedule \in Hearing /\ status[grade.schedule] \in {"done", "archived"}
  BY DEF Core, Typed, Grade, VInv, VerdictHearingSettled

LEMMA VerdictKept ==
  ASSUME Core, VInv, StaysSettled, attempts' = attempts,
         grade'.schedule = grade.schedule, grade'.verdict = grade.verdict,
         grade'.panel = grade.panel \/ grade'.panel = Live(grade.schedule, submission'),
         Automatic /\ grade.verdict # "" =>
           /\ submission'[grade.schedule] = submission[grade.schedule]
           /\ panelists'[grade.schedule] = panelists[grade.schedule]
  PROVE  VInv'
  <1>1. /\ grade \in Grade /\ attempts \in Seq(Attempt)
        /\ VerdictHearingSettled /\ VerdictMatchesPanel /\ VerdictPanelCurrent
    BY DEF Core, Typed, VInv
  <1>2. \A i \in DOMAIN attempts : attempts[i].schedule \in Hearing
    BY <1>1, AttemptType
  <1>3. VerdictHearingSettled'
    BY <1>1, <1>2 DEF VerdictHearingSettled, StaysSettled, Grade
  <1>4. ASSUME Automatic, grade.verdict # ""
        PROVE  /\ Live(grade'.schedule, submission') = Live(grade.schedule, submission)
               /\ grade'.panel = Live(grade.schedule, submission)
               /\ EvaluatorsComplete(grade.schedule, submission)
                    => EvaluatorsComplete(grade.schedule, submission)'
    <2>1. Live(grade'.schedule, submission') = Live(grade.schedule, submission)
      BY <1>4 DEF Live
    <2>2. grade'.panel = Live(grade.schedule, submission)
      BY <1>1, <1>4, <2>1 DEF VerdictPanelCurrent
    <2>3. EvaluatorsComplete(grade.schedule, submission)
            => EvaluatorsComplete(grade.schedule, submission)'
      BY <1>4 DEF EvaluatorsComplete
    <2> QED BY <2>1, <2>2, <2>3
  <1>5. VerdictPanelCurrent'
    BY <1>4 DEF VerdictPanelCurrent
  <1>6. VerdictMatchesPanel'
    <2>1. ASSUME Automatic, grade'.verdict # ""
          PROVE  /\ EvaluatorsComplete(grade.schedule, submission)'
                 /\ grade'.verdict = IF Qualifies(Live(grade'.schedule, submission'))
                                     THEN "approved" ELSE "for_redefense"
      BY <1>1, <1>4, <2>1 DEF VerdictMatchesPanel
    <2>2. ASSUME Automatic
          PROVE  \A i \in DOMAIN attempts' : attempts'[i].verdict # "" =>
                   attempts'[i].verdict = IF Qualifies(attempts'[i].panel)
                                          THEN "approved" ELSE "for_redefense"
      BY <1>1, <2>2 DEF VerdictMatchesPanel
    <2> QED BY <2>1, <2>2 DEF VerdictMatchesPanel
  <1> QED BY <1>3, <1>5, <1>6 DEF VInv

\* The steps that leave all of a defense but its statuses and its team alone.
LEMMA QuietVerdict ==
  ASSUME Core, VInv, StaysSettled, UNCHANGED <<panelists, submission, grade, attempts>>
  PROVE  VInv'
  BY VerdictKept

LEMMA QuietStepVerdict ==
  ASSUME Core, VInv,
         \/ Endorse \/ Unendorse \/ RefuseHearing \/ ReopenStage
         \/ \E panel \in Panels : ValidateHearing(panel)
         \/ \E h \in Hearing : Cancel(h) \/ Restore(h) \/ Archive(h)
         \/ \E p \in Panelist, h \in Hearing : Read(p, h)
         \/ \E r \in requests : Abandon(r)
  PROVE  VInv'
  <1>1. UNCHANGED <<panelists, submission, grade, attempts>>
    BY DEF Endorse, Unendorse, RefuseHearing, ReopenStage, ValidateHearing,
           Cancel, Restore, Archive, Read, Abandon
  <1>2. CASE \E h \in Hearing : Cancel(h) \/ Restore(h) \/ Archive(h)
    <2>1. PICK h \in Hearing : Cancel(h) \/ Restore(h) \/ Archive(h)
      BY <1>2
    <2>2. StaysSettled
      BY <2>1 DEF StaysSettled, Core, Typed, Cancel, Restore, Archive
    <2> QED BY <1>1, <2>2, QuietVerdict
  <1>3. CASE UNCHANGED status
    BY <1>1, <1>3, QuietVerdict DEF StaysSettled
  <1> QED BY <1>2, <1>3 DEF Endorse, Unendorse, RefuseHearing, ReopenStage,
                            ValidateHearing, Read, Abandon

\* The panel of a hearing with a verdict cannot change any more.
LEMMA ChangePanelVerdict ==
  ASSUME Core, VInv, NEW h \in Hearing, NEW panel \in Panels, ChangePanel(h, panel)
  PROVE  VInv'
  <1>1. /\ status' = status /\ submission' = submission
        /\ grade' = grade /\ attempts' = attempts
        /\ status[h] \in {"scheduled", "cancelled"}
        /\ panelists' = [panelists EXCEPT ![h] = panel]
        /\ panelists \in [Hearing -> SUBSET Panelist]
    BY DEF ChangePanel, Core, Typed
  <1>2. grade.verdict # "" => panelists'[grade.schedule] = panelists[grade.schedule]
    <2>1. grade.verdict # "" => grade.schedule \in Hearing \ {h}
      BY <1>1, VerdictHasHearing
    <2> QED BY <1>1, <2>1
  <1> QED BY <1>1, <1>2, VerdictKept DEF StaysSettled

---------------------------------------------------------------------------
(* Steps that move the grade                                                *)

LEMMA OpenGradeVerdict ==
  ASSUME Core, VInv, NEW h \in Hearing, OpenGrade(h), StaysSettled,
         submission' = submission,
         grade.verdict # "" => panelists'[grade.schedule] = panelists[grade.schedule]
  PROVE  VInv'
  <1>1. /\ grade \in Grade /\ attempts \in Seq(Attempt)
        /\ VerdictHearingSettled /\ VerdictMatchesPanel /\ VerdictPanelCurrent
    BY DEF Core, Typed, VInv
  <1>2. CASE grade'.verdict = "" /\ attempts' = attempts
    <2>1. VerdictHearingSettled'
      BY <1>1, <1>2, AttemptType DEF VerdictHearingSettled, StaysSettled
    <2>2. VerdictMatchesPanel' /\ VerdictPanelCurrent'
      BY <1>1, <1>2 DEF VerdictMatchesPanel, VerdictPanelCurrent
    <2> QED BY <2>1, <2>2 DEF VInv
  <1>3. CASE StartsAttempt(h) /\ grade' = NextAttempt(grade, h) /\ attempts' = WithSnapshot
    <2> DEFINE e == [schedule |-> grade.schedule, attempt |-> grade.attempt,
                     panel |-> grade.panel, verdict |-> grade.verdict]
    <2>1. grade'.verdict = ""
      BY <1>1, <1>3, NextAttemptType
    <2>2. CASE attempts' = attempts
      BY <1>2, <2>1, <2>2
    <2>3. CASE attempts' = Append(attempts, e)
      <3>1. e \in Attempt
        BY <1>1, <1>3 DEF StartsAttempt, Grade, Attempt
      <3>2. /\ e.schedule = grade.schedule /\ e.panel = grade.panel
            /\ e.verdict = grade.verdict
        OBVIOUS
      <3> HIDE DEF e
      <3>3. /\ DOMAIN attempts' = DOMAIN attempts \cup {Len(attempts) + 1}
            /\ \A i \in DOMAIN attempts : attempts'[i] = attempts[i]
            /\ attempts'[Len(attempts) + 1] = e
        <4>1. attempts \in Seq(Attempt)
          BY <1>1
        <4>2. /\ DOMAIN Append(attempts, e) = DOMAIN attempts \cup {Len(attempts) + 1}
              /\ \A i \in DOMAIN attempts : Append(attempts, e)[i] = attempts[i]
              /\ Append(attempts, e)[Len(attempts) + 1] = e
          BY <3>1, <4>1, AppendAttempt
        <4> QED BY <2>3, <4>2
      <3>4. e.verdict # "" => status'[e.schedule] \in {"done", "archived"}
        BY <1>1, <3>2 DEF VerdictHearingSettled, StaysSettled, Grade
      <3>5. VerdictHearingSettled'
        <4>1. \A i \in DOMAIN attempts : attempts[i].verdict # "" =>
                status'[attempts[i].schedule] \in {"done", "archived"}
          BY <1>1, AttemptType DEF VerdictHearingSettled, StaysSettled
        <4> QED BY <2>1, <3>3, <3>4, <4>1 DEF VerdictHearingSettled
      <3>6. Automatic /\ e.verdict # "" => e.verdict = Outcome(e.panel)
        BY <1>1, <3>2 DEF VerdictMatchesPanel, VerdictPanelCurrent, Outcome
      <3>7. VerdictMatchesPanel'
        <4>1. Automatic => \A i \in DOMAIN attempts : attempts[i].verdict # "" =>
                attempts[i].verdict = Outcome(attempts[i].panel)
          BY <1>1 DEF VerdictMatchesPanel, Outcome
        <4>2. Automatic => \A i \in DOMAIN attempts' : attempts'[i].verdict # "" =>
                attempts'[i].verdict = Outcome(attempts'[i].panel)
          BY <3>3, <3>6, <4>1
        <4> QED BY <2>1, <4>2 DEF VerdictMatchesPanel, Outcome
      <3> QED BY <2>1, <3>5, <3>7 DEF VInv, VerdictPanelCurrent
    <2> QED BY <1>3, <2>2, <2>3 DEF WithSnapshot
  <1>4. CASE MovesGrade(h) /\ ~StartsAttempt(h)
             /\ grade' = [grade EXCEPT !.schedule = h] /\ attempts' = attempts
    <2>1. grade.verdict = ""
      BY <1>1, <1>4 DEF StartsAttempt, VerdictHearingSettled
    <2>2. grade'.verdict = ""
      BY <1>1, <1>4, <2>1 DEF Grade
    <2> QED BY <1>2, <1>4, <2>2
  <1>5. CASE grade' = grade /\ attempts' = attempts
    BY <1>5, VerdictKept
  <1> QED BY <1>3, <1>4, <1>5 DEF OpenGrade

LEMMA MovingStepVerdict ==
  ASSUME Core, VInv,
         \/ CreateHearing
         \/ \E panel \in Panels : PlanHearing(panel)
         \/ \E r \in requests : Open(r)
         \/ \E h \in Hearing : OpenByVerdict(h)
  PROVE  VInv'
  <1>1. CASE \E panel \in SUBSET Panelist : Schedule(panel)
    <2> PICK panel \in SUBSET Panelist : Schedule(panel)
      BY <1>1
    <2>1. PICK h \in Hearing :
            /\ status[h] = "none"
            /\ status' = [status EXCEPT ![h] = "scheduled"]
            /\ panelists' = [panelists EXCEPT ![h] = panel]
            /\ OpenGrade(h) /\ submission' = submission
      BY DEF Schedule
    <2>2. StaysSettled
      BY <2>1 DEF StaysSettled, Core, Typed
    <2>3. grade.verdict # "" => panelists'[grade.schedule] = panelists[grade.schedule]
      <3>1. grade.verdict # "" => grade.schedule \in Hearing \ {h}
        BY <2>1, VerdictHasHearing
      <3> QED BY <2>1, <3>1 DEF Core, Typed
    <2> QED BY <2>1, <2>2, <2>3, OpenGradeVerdict
  <1>2. CASE \E h \in Hearing : OpenGrade(h) /\ UNCHANGED <<status, panelists, submission>>
    BY <1>2, OpenGradeVerdict DEF StaysSettled
  <1>3. planned \subseteq Panelist /\ \A r \in requests : r.hearing \in Hearing
    BY DEF Core, Typed, Request
  <1> QED BY <1>1, <1>2, <1>3 DEF CreateHearing, PlanHearing, Panels, Open, OpenByVerdict

LEMMA DeleteHearingVerdict ==
  ASSUME Core, VInv, NEW h \in Hearing, DeleteHearing(h)
  PROVE  VInv'
  <1>1. attempts' = <<>>
    BY DEF DeleteHearing
  <1>2. DOMAIN attempts' = {}
    BY <1>1
  <1>3. grade'.verdict = ""
    BY DEF DeleteHearing, Core, Typed, Grade
  <1> QED BY <1>2, <1>3 DEF VInv, VerdictHearingSettled, VerdictMatchesPanel, VerdictPanelCurrent

---------------------------------------------------------------------------
(* Steps that record a verdict or finish the hearing                        *)

LEMMA FinishHearingSettles ==
  ASSUME Core, NEW h, FinishHearing(h)
  PROVE  StaysSettled /\ (h \in Hearing => status'[h] = "done")
  BY DEF Core, Typed, FinishHearing, StaysSettled

LEMMA RecordOutcomeVerdict ==
  ASSUME Core, VInv, NEW g \in Grade, NEW v \in Verdict, NEW sub,
         RecordOutcome(g, v, sub), g.schedule = grade.schedule, g.schedule # 0,
         submission' = sub, UNCHANGED <<panelists, attempts>>,
         Automatic => /\ v = Outcome(g.panel)
                      /\ g.panel = Live(g.schedule, sub)
                      /\ EvaluatorsComplete(g.schedule, sub)
  PROVE  VInv'
  <1> DEFINE n == [g EXCEPT !.verdict = v, !.cleared = FALSE]
  <1>1. /\ n \in Grade /\ n.verdict = v
        /\ n.schedule = g.schedule /\ n.panel = g.panel
    BY DEF Grade
  <1>2. grade' = AutoFinalized(n, sub) /\ FinishHearing(g.schedule)
    BY DEF RecordOutcome
  <1> HIDE DEF n
  <1>3. grade'.verdict = v /\ grade'.schedule = g.schedule /\ grade'.panel = g.panel
    BY <1>1, <1>2, AutoFinalizedType
  <1>4. g.schedule \in Hearing
    BY DEF Grade
  <1>5. StaysSettled /\ status'[g.schedule] = "done"
    BY <1>2, <1>4, FinishHearingSettles
  <1>6. VerdictHearingSettled'
    <2>1. \A i \in DOMAIN attempts : attempts[i].schedule \in Hearing
      BY AttemptType DEF Core, Typed
    <2> QED BY <1>3, <1>5, <2>1 DEF VInv, VerdictHearingSettled, StaysSettled
  <1>7. VerdictPanelCurrent'
    BY <1>3 DEF VerdictPanelCurrent
  <1>8. VerdictMatchesPanel'
    <2>1. Automatic => /\ EvaluatorsComplete(grade.schedule, submission)'
                       /\ grade'.verdict = Outcome(Live(grade'.schedule, submission'))
      BY <1>3 DEF EvaluatorsComplete
    <2> QED BY <2>1 DEF VInv, VerdictMatchesPanel, Outcome
  <1> QED BY <1>6, <1>7, <1>8 DEF VInv

\* A manual verdict says nothing of the panel but finishes the hearing.
LEMMA RecordVerdictVerdict ==
  ASSUME Core, VInv, NEW v \in Verdict, RecordVerdict(v)
  PROVE  VInv'
  <1>1. /\ ~Automatic /\ grade.schedule # 0
        /\ RecordOutcome(grade, v, submission)
        /\ UNCHANGED <<panelists, submission, attempts>>
    BY DEF RecordVerdict
  <1>2. grade \in Grade
    BY DEF Core, Typed
  <1> QED BY <1>1, <1>2, RecordOutcomeVerdict

\* A late submission cannot reach the hearing of a verdict, which is settled.
LEMMA SubmitVerdict ==
  ASSUME Core, VInv, NEW r \in requests, NEW s \in Score, Submit(r, s)
  PROVE  VInv'
  <1> DEFINE sub == [submission EXCEPT ![r.hearing][r.panelist] = s]
             scored == [grade EXCEPT !.panel = Live(grade.schedule, sub)]
  <1>1. /\ grade \in Grade /\ r.hearing \in Hearing
        /\ submission \in [Hearing -> [Panelist -> Evaluation]]
    BY DEF Core, Typed, Request
  <1>2. /\ status[r.hearing] = "scheduled" /\ submission' = sub
        /\ UNCHANGED <<panelists, attempts>>
        /\ \/ /\ Resolves(scored, sub)
              /\ RecordOutcome(scored, Outcome(scored.panel), sub)
           \/ ~Resolves(scored, sub) /\ grade' = scored /\ UNCHANGED status
    BY DEF Submit, MaySubmit, Outcome
  <1>3. grade.verdict # "" => sub[grade.schedule] = submission[grade.schedule]
    <2>1. grade.verdict # "" => grade.schedule \in Hearing \ {r.hearing}
      BY <1>2, VerdictHasHearing
    <2> QED BY <1>1, <2>1
  <1> HIDE DEF sub
  <1>4. /\ scored.schedule = grade.schedule /\ scored.verdict = grade.verdict
        /\ scored.panel = Live(grade.schedule, sub)
    BY <1>1 DEF Grade
  <1>5. scored \in Grade
    <2>1. sub \in [Hearing -> [Panelist -> Evaluation]]
      BY <1>1 DEF sub, Evaluation
    <2>2. Live(grade.schedule, sub) \in PanelScores
      BY <1>1, <2>1, LiveType DEF Grade
    <2> QED BY <1>1, <2>2 DEF Grade
  <1> HIDE DEF scored
  <1>6. CASE Resolves(scored, sub) /\ RecordOutcome(scored, Outcome(scored.panel), sub)
    <2>1. EvaluatorsComplete(scored.schedule, sub) /\ scored.schedule # 0
      BY <1>6 DEF Resolves, EvaluatorsComplete
    <2>2. Outcome(scored.panel) \in Verdict
      BY DEF Outcome, Verdict
    <2> QED BY <1>2, <1>4, <1>5, <1>6, <2>1, <2>2, RecordOutcomeVerdict
  <1>7. CASE grade' = scored /\ UNCHANGED status
    BY <1>2, <1>3, <1>4, <1>7, VerdictKept DEF StaysSettled
  <1> QED BY <1>2, <1>6, <1>7

---------------------------------------------------------------------------
(* Steps that clear, complete or publish                                    *)

LEMMA FinalizeVerdict ==
  ASSUME Core, VInv, NEW g \in Grade, Finalize(g),
         g.schedule = grade.schedule, g.verdict = grade.verdict, g.panel = grade.panel,
         UNCHANGED <<panelists, submission, attempts>>
  PROVE  VInv'
  <1>1. /\ grade'.schedule = grade.schedule /\ grade'.verdict = grade.verdict
        /\ grade'.panel = grade.panel
    BY AutoFinalizedType DEF Finalize
  <1>2. StaysSettled
    BY FinishHearingSettles DEF Finalize, StaysSettled
  <1> QED BY <1>1, <1>2, VerdictKept

LEMMA CompletingStepVerdict ==
  ASSUME Core, VInv,
         ClearRevisions \/ PeerScores \/ AdviserScore \/ Publish \/ CompleteStage
  PROVE  VInv'
  <1>1. grade \in Grade
    BY DEF Core, Typed
  <1>2. UNCHANGED <<panelists, submission, attempts>>
    BY DEF ClearRevisions, PeerScores, AdviserScore, Publish, CompleteStage
  <1>3. CASE ClearRevisions
    <2> DEFINE g == [grade EXCEPT !.cleared = TRUE]
    <2>1. /\ g \in Grade /\ g.schedule = grade.schedule
          /\ g.verdict = grade.verdict /\ g.panel = grade.panel
      BY <1>1 DEF Grade
    <2>2. Finalize(g)
      BY <1>3 DEF ClearRevisions
    <2> HIDE DEF g
    <2> QED BY <1>2, <2>1, <2>2, FinalizeVerdict
  <1>4. CASE PeerScores
    <2> DEFINE g == [grade EXCEPT !.peer = TRUE]
    <2>1. /\ g \in Grade /\ g.schedule = grade.schedule
          /\ g.verdict = grade.verdict /\ g.panel = grade.panel
      BY <1>1 DEF Grade
    <2>2. Finalize(g)
      BY <1>4 DEF PeerScores
    <2> HIDE DEF g
    <2> QED BY <1>2, <2>1, <2>2, FinalizeVerdict
  <1>5. CASE AdviserScore \/ Publish \/ CompleteStage
    <2>1. /\ grade'.schedule = grade.schedule /\ grade'.verdict = grade.verdict
          /\ grade'.panel = grade.panel
      BY <1>1, <1>5 DEF AdviserScore, Publish, CompleteStage, PublishGrade, Grade
    <2>2. UNCHANGED status \/ FinishHearing(grade.schedule)
      BY <1>5 DEF AdviserScore, Publish, CompleteStage, PublishGrade
    <2>3. StaysSettled
      BY <2>2, FinishHearingSettles DEF StaysSettled
    <2> QED BY <1>2, <2>1, <2>3, VerdictKept
  <1> QED BY <1>3, <1>4, <1>5

---------------------------------------------------------------------------
(* Corrections                                                              *)

\* A correction is taken only when the verdict still follows from the panel.
LEMMA CorrectVerdict ==
  ASSUME Core, VInv, NEW c, NEW protected, Correctable(c, protected), Correct(c),
         c.panelist \in Panelist, c.score \in Score \cup {VoidScore},
         UNCHANGED <<status, panelists, attempts>>
  PROVE  VInv'
  <1> DEFINE sub == Corrected(c)
             after == [grade EXCEPT !.panel = Live(grade.schedule, sub)]
  <1>1. /\ grade \in Grade /\ attempts \in Seq(Attempt)
        /\ submission \in [Hearing -> [Panelist -> Evaluation]]
    BY DEF Core, Typed
  <1>2. /\ CorrectionAccepted(grade, after, sub, protected)
        /\ submission' = sub /\ grade' = after
    BY DEF Correctable, Correct
  <1> HIDE DEF sub
  <1>3. /\ grade'.schedule = grade.schedule /\ grade'.verdict = grade.verdict
        /\ grade'.panel = Live(grade.schedule, sub)
    BY <1>1, <1>2 DEF Grade
  <1> HIDE DEF after
  <1>4. Automatic /\ grade'.verdict # "" =>
          /\ EvaluatorsComplete(grade.schedule, sub)
          /\ grade.verdict = Outcome(grade'.panel)
    BY <1>2, <1>3 DEF CorrectionAccepted, Outcome
  <1>5. VerdictHearingSettled'
    BY <1>3, AttemptType DEF VInv, VerdictHearingSettled
  <1>6. VerdictPanelCurrent'
    BY <1>2, <1>3 DEF VerdictPanelCurrent
  <1>7. VerdictMatchesPanel'
    <2>1. Automatic /\ grade'.verdict # "" =>
            /\ EvaluatorsComplete(grade.schedule, submission)'
            /\ grade'.verdict = Outcome(Live(grade'.schedule, submission'))
      BY <1>2, <1>3, <1>4 DEF EvaluatorsComplete
    <2> QED BY <2>1 DEF VInv, VerdictMatchesPanel, Outcome
  <1> QED BY <1>5, <1>6, <1>7 DEF VInv

LEMMA CorrectionVerdict ==
  ASSUME IInv, VInv, CorrectionOperation
  PROVE  VInv'
  <1>1. Core /\ amendment \subseteq Amendment
    BY DEF IInv
  <1>2. CASE UNCHANGED <<submission, grade>>
    BY <1>1, <1>2, QuietVerdict
       DEF CorrectionOperation, RequestCorrection, ReviewCorrection, StaysSettled
  <1>3. CASE \E c, protected : /\ c.panelist \in Panelist /\ c.score \in Score \cup {VoidScore}
                               /\ Correctable(c, protected) /\ Correct(c)
                               /\ UNCHANGED <<status, panelists, attempts>>
    BY <1>1, <1>3, CorrectVerdict
  <1>4. CASE \E p \in Panelist, s \in Score \cup {VoidScore} : RequestCorrection(p, s)
    <2>1. PICK p \in Panelist, s \in Score \cup {VoidScore} : RequestCorrection(p, s)
      BY <1>4
    <2> DEFINE c == [panelist |-> p, score |-> s, stale |-> FALSE]
    <2>2. c.panelist \in Panelist /\ c.score \in Score \cup {VoidScore}
      OBVIOUS
    <2>3. /\ Correctable(c, Protected) /\ UNCHANGED <<status, panelists, attempts>>
          /\ Correct(c) \/ UNCHANGED <<submission, grade>>
      BY <2>1 DEF RequestCorrection
    <2> HIDE DEF c
    <2> QED BY <1>2, <1>3, <2>2, <2>3
  <1>5. CASE \E c \in amendment : ReviewCorrection(c)
    <2>1. PICK c \in amendment : ReviewCorrection(c)
      BY <1>5
    <2>2. c.panelist \in Panelist /\ c.score \in Score \cup {VoidScore}
      BY <1>1 DEF Amendment
    <2>3. /\ UNCHANGED <<status, panelists, attempts>>
          /\ \/ Correctable(c, TRUE) /\ Correct(c)
             \/ UNCHANGED <<submission, grade>>
      BY <2>1 DEF ReviewCorrection
    <2> QED BY <1>2, <1>3, <2>2, <2>3
  <1> QED BY <1>4, <1>5 DEF CorrectionOperation

---------------------------------------------------------------------------
(* All steps                                                                *)

LEMMA NextVerdict ==
  ASSUME IInv, VInv, [Next]_vars
  PROVE  VInv'
  <1>1. Core
    BY DEF IInv
  <1>2. CASE Endorse \/ Unendorse
    BY <1>1, <1>2, QuietStepVerdict
  <1>3. CASE HearingOperation
    BY <1>1, <1>3, QuietStepVerdict, ChangePanelVerdict, MovingStepVerdict,
       DeleteHearingVerdict DEF HearingOperation
  <1>4. CASE PanelOperation
    BY <1>1, <1>4, QuietStepVerdict, MovingStepVerdict, SubmitVerdict DEF PanelOperation
  <1>5. CASE GradeOperation
    BY <1>1, <1>5, QuietStepVerdict, MovingStepVerdict, RecordVerdictVerdict,
       CompletingStepVerdict DEF GradeOperation
  <1>6. CASE CorrectionOperation
    BY <1>6, CorrectionVerdict
  <1>7. CASE UNCHANGED vars
    BY <1>1, <1>7, QuietVerdict DEF vars, StaysSettled
  <1> QED BY <1>2, <1>3, <1>4, <1>5, <1>6, <1>7 DEF Next, Operation

LEMMA InitVerdict == Init => VInv
  <1> SUFFICES ASSUME Init PROVE VInv
    OBVIOUS
  <1>1. attempts = <<>>
    BY DEF Init
  <1>2. DOMAIN attempts = {}
    BY <1>1
  <1>3. grade.verdict = ""
    BY DEF Init
  <1> QED BY <1>2, <1>3 DEF VInv, VerdictHearingSettled, VerdictMatchesPanel, VerdictPanelCurrent

LEMMA VerdictInvariant == Spec => []VInv
  <1>1. IInv /\ VInv /\ [Next]_vars => VInv'
    BY NextVerdict
  <1> QED BY <1>1, InitVerdict, DefenseInvariant, PTL DEF Spec

\* A hearing with a verdict, the current one or one of the history, stays closed
\* for evaluations, cancellation and deletion.
THEOREM VerdictHearingSettledAlways == Spec => []VerdictHearingSettled
  <1>1. VInv => VerdictHearingSettled
    BY DEF VInv
  <1> QED BY <1>1, VerdictInvariant, PTL

\* An automatic verdict is the one its complete panel gives, whatever late
\* submissions and corrections arrive, and goes like that into the history.
THEOREM VerdictMatchesPanelAlways == Spec => []VerdictMatchesPanel
  <1>1. VInv => VerdictMatchesPanel
    BY DEF VInv
  <1> QED BY <1>1, VerdictInvariant, PTL

---------------------------------------------------------------------------
(* What publication is worth: the grade is whole when it is published and    *)
(* only the next attempt takes it away again.                                *)

\* Only the completion of a stage with automatic outcomes closes a grade, and
\* only one with a verdict.
ClosedDecided == grade.closed => Automatic /\ grade.verdict # ""

PInv == PublishedComplete /\ ClosedDecided /\ PassedStageEarned

\* What PublishedOnlySuperseded demands of a step.
PublishedKept ==
  /\ \A field \in {"schedule", "attempt", "verdict", "published", "closed"} :
       grade'[field] = grade[field]
  /\ Qualifies(grade'.panel) <=> Qualifies(grade.panel)
Superseded ==
  /\ grade'.attempt = grade.attempt + 1
  /\ attempts'[grade.attempt].verdict = grade.verdict
  /\ attempts'[grade.attempt].panel = grade.panel
SupersededStep == grade.published => PublishedKept \/ Superseded

\* What a grade must be to be published, unless it is a closed failure.
Whole(g, sub) == /\ Ready(g, sub) /\ GradeComplete(g)
                 /\ Passed(g) \/ g.verdict = "failed"

\* A stage becomes passed with a published grade that has passed.
ProgressEarned ==
  progress' = "passed" => progress = "passed" \/ (grade'.published /\ Passed(grade'))

LEMMA PublishedHasVerdict ==
  ASSUME Core, VInv, PInv, grade.published
  PROVE  grade.verdict # "" /\ grade.schedule # 0
  <1>1. grade.verdict # ""
    BY DEF PInv, PublishedComplete, ClosedDecided, Passed
  <1> QED BY <1>1 DEF VInv, VerdictHearingSettled

LEMMA ResultEarned ==
  ASSUME NEW g, ApplyResult(g), progress' = "passed"
  PROVE  g.published /\ Passed(g)
  BY DEF ApplyResult, ProgressAfter

---------------------------------------------------------------------------
(* Three kinds of steps                                                     *)

\* The grade stays as it is, and what a published one rests on too.
LEMMA PublishedSame ==
  ASSUME Core, PInv, grade' = grade, attempts' = attempts, ProgressEarned,
         grade.published =>
           /\ submission'[grade.schedule] = submission[grade.schedule]
           /\ panelists'[grade.schedule] = panelists[grade.schedule]
  PROVE  PInv' /\ SupersededStep
  <1>1. PublishedComplete'
    <2>1. grade.published /\ EvaluatorsComplete(grade.schedule, submission)
            => EvaluatorsComplete(grade.schedule, submission)'
      BY DEF EvaluatorsComplete
    <2>2. grade.published /\ Ready(grade, submission) => Ready(grade, submission)'
      BY <2>1 DEF Ready, PanelComplete, OthersComplete
    <2> QED BY <2>2 DEF PInv, PublishedComplete, GradeComplete, OthersComplete, Passed
  <1>2. ClosedDecided'
    BY DEF PInv, ClosedDecided
  <1>3. PassedStageEarned'
    BY DEF PInv, PassedStageEarned, ProgressEarned, Passed
  <1>4. SupersededStep
    BY DEF SupersededStep, PublishedKept
  <1> QED BY <1>1, <1>2, <1>3, <1>4 DEF PInv

\* The grade was not published yet.
LEMMA PublishedNow ==
  ASSUME Core, PInv, ~grade.published, attempts' = attempts, panelists' = panelists,
         grade'.published => grade'.closed \/ Whole(grade', submission'),
         grade'.closed => Automatic /\ grade'.verdict # "", ProgressEarned
  PROVE  PInv' /\ SupersededStep
  <1>1. PublishedComplete'
    BY DEF PublishedComplete, Whole, Ready, PanelComplete, EvaluatorsComplete, GradeComplete,
           OthersComplete, Passed
  <1>2. ClosedDecided'
    BY DEF ClosedDecided
  <1>3. PassedStageEarned'
    BY DEF PInv, PassedStageEarned, ProgressEarned, Passed
  <1>4. SupersededStep
    BY DEF SupersededStep
  <1> QED BY <1>1, <1>2, <1>3, <1>4 DEF PInv

\* The grade is taken up for another hearing: a published one goes into the history.
LEMMA OpenGradePublished ==
  ASSUME Core, VInv, PInv, NEW h \in Hearing, OpenGrade(h), submission' = submission,
         progress' # "passed" \/ progress' = progress,
         grade.published => panelists'[grade.schedule] = panelists[grade.schedule]
  PROVE  PInv' /\ SupersededStep
  <1>1. grade \in Grade /\ attempts \in Seq(Attempt)
    BY DEF Core, Typed
  <1>2. CASE grade' = grade /\ attempts' = attempts
    BY <1>2, PublishedSame DEF ProgressEarned
  <1>3. CASE /\ ~StartsAttempt(h) /\ MovesGrade(h)
             /\ grade' = [grade EXCEPT !.schedule = h] /\ attempts' = attempts
    <2>1. ~grade.published
      BY <1>3, PublishedHasVerdict DEF StartsAttempt
    <2>2. /\ grade'.published = grade.published /\ grade'.closed = grade.closed
          /\ grade'.verdict = grade.verdict
      BY <1>1, <1>3 DEF Grade
    <2>3. PublishedComplete' /\ ClosedDecided' /\ SupersededStep
      BY <2>1, <2>2 DEF PublishedComplete, PInv, ClosedDecided, SupersededStep
    <2>4. PassedStageEarned'
      BY <1>3, <2>1 DEF PInv, PassedStageEarned
    <2> QED BY <2>3, <2>4 DEF PInv
  <1>4. CASE StartsAttempt(h) /\ grade' = NextAttempt(grade, h) /\ attempts' = WithSnapshot
    <2> DEFINE e == [schedule |-> grade.schedule, attempt |-> grade.attempt,
                     panel |-> grade.panel, verdict |-> grade.verdict]
    <2>1. /\ grade'.published = FALSE /\ grade'.closed = FALSE
          /\ grade'.attempt = grade.attempt + 1
      BY <1>1, <1>4 DEF NextAttempt, Grade
    <2>2. e \in Attempt
      BY <1>1, <1>4 DEF StartsAttempt, Grade, Attempt
    <2>3. e.panel = grade.panel /\ e.verdict = grade.verdict
      OBVIOUS
    <2>4. /\ grade.attempt = Len(attempts) + 1
          /\ \A i \in DOMAIN attempts : attempts[i].attempt = i
      BY DEF Core, AttemptNumbering
    <2>5. attempts' = Append(attempts, e)
      <3>1. Len(attempts) + 1 \notin DOMAIN attempts
        BY <1>1
      <3> QED BY <1>4, <2>4, <3>1 DEF WithSnapshot
    <2> HIDE DEF e
    <2>6. /\ DOMAIN attempts' = DOMAIN attempts \cup {Len(attempts) + 1}
          /\ \A i \in DOMAIN attempts : attempts'[i] = attempts[i]
          /\ attempts'[Len(attempts) + 1] = e
      <3>1. attempts \in Seq(Attempt)
        BY <1>1
      <3>2. /\ DOMAIN Append(attempts, e) = DOMAIN attempts \cup {Len(attempts) + 1}
            /\ \A i \in DOMAIN attempts : Append(attempts, e)[i] = attempts[i]
            /\ Append(attempts, e)[Len(attempts) + 1] = e
        BY <2>2, <3>1, AppendAttempt
      <3> QED BY <2>5, <3>2
    <2>7. PublishedComplete' /\ ClosedDecided'
      BY <2>1 DEF PublishedComplete, ClosedDecided
    <2>8. SupersededStep
      BY <2>1, <2>3, <2>4, <2>6 DEF SupersededStep, Superseded
    <2>9. PassedStageEarned'
      <3> SUFFICES ASSUME progress' = "passed"
                   PROVE  \E i \in DOMAIN attempts' : attempts'[i].verdict \in Passing
        BY DEF PassedStageEarned
      <3>1. \/ grade.verdict \in Passing
            \/ \E i \in DOMAIN attempts : attempts[i].verdict \in Passing
        BY DEF PInv, PassedStageEarned, Passed, Passing
      <3> QED BY <2>3, <2>6, <3>1
    <2> QED BY <2>7, <2>8, <2>9 DEF PInv
  <1> QED BY <1>2, <1>3, <1>4 DEF OpenGrade

---------------------------------------------------------------------------
(* Steps of the hearings and of the requests                                *)

LEMMA QuietPublished ==
  ASSUME Core, VInv, PInv,
         \/ Endorse \/ Unendorse \/ RefuseHearing \/ ReopenStage
         \/ \E panel \in Panels : ValidateHearing(panel)
         \/ \E h \in Hearing : Cancel(h) \/ Restore(h) \/ Archive(h)
         \/ \E p \in Panelist, h \in Hearing : Read(p, h)
         \/ \E r \in requests : Abandon(r)
  PROVE  PInv' /\ SupersededStep
  <1>1. UNCHANGED <<panelists, submission, grade, attempts>>
    BY DEF Endorse, Unendorse, RefuseHearing, ReopenStage, ValidateHearing,
           Cancel, Restore, Archive, Read, Abandon
  <1>2. progress' \in {progress, "ready", "locked", "scheduled"}
    BY DEF Endorse, Unendorse, RefuseHearing, ReopenStage, ValidateHearing, Cancel, Restore,
           Archive, Read, Abandon, LeaveScheduled, MarkReady, teamVars
  <1> QED BY <1>1, <1>2, PublishedSame DEF ProgressEarned

LEMMA ChangePanelPublished ==
  ASSUME Core, VInv, PInv, NEW h \in Hearing, NEW panel \in Panels, ChangePanel(h, panel)
  PROVE  PInv' /\ SupersededStep
  <1>1. /\ submission' = submission /\ grade' = grade /\ attempts' = attempts
        /\ grade.schedule = h => ~grade.published
        /\ panelists' = [panelists EXCEPT ![h] = panel]
        /\ progress' \in {progress, "scheduled"}
    BY DEF ChangePanel
  <1>2. grade.published => panelists'[grade.schedule] = panelists[grade.schedule]
    BY <1>1 DEF Core, Typed
  <1> QED BY <1>1, <1>2, PublishedSame DEF ProgressEarned

LEMMA MovingStepPublished ==
  ASSUME Core, VInv, PInv,
         \/ CreateHearing
         \/ \E panel \in Panels : PlanHearing(panel)
         \/ \E r \in requests : Open(r)
         \/ \E h \in Hearing : OpenByVerdict(h)
  PROVE  PInv' /\ SupersededStep
  <1>1. CASE \E panel \in SUBSET Panelist : Schedule(panel)
    <2> PICK panel \in SUBSET Panelist : Schedule(panel)
      BY <1>1
    <2>1. PICK h \in Hearing :
            /\ status[h] = "none" /\ panelists' = [panelists EXCEPT ![h] = panel]
            /\ OpenGrade(h) /\ submission' = submission /\ progress' = "scheduled"
      BY DEF Schedule
    <2>2. grade.published => panelists'[grade.schedule] = panelists[grade.schedule]
      <3>1. grade.published => grade.schedule \in Hearing \ {h}
        BY <2>1, PublishedHasVerdict, VerdictHasHearing
      <3> QED BY <2>1, <3>1 DEF Core, Typed
    <2> QED BY <2>1, <2>2, OpenGradePublished
  <1>2. CASE \E h \in Hearing : OpenGrade(h) /\ UNCHANGED <<panelists, submission, progress>>
    BY <1>2, OpenGradePublished
  <1>3. planned \subseteq Panelist /\ \A r \in requests : r.hearing \in Hearing
    BY DEF Core, Typed, Request
  <1> QED BY <1>1, <1>2, <1>3 DEF CreateHearing, PlanHearing, Panels, Open, OpenByVerdict

\* A hearing is deleted only while nothing was published or recorded.
LEMMA DeleteHearingPublished ==
  ASSUME Core, VInv, PInv, NEW h \in Hearing, DeleteHearing(h)
  PROVE  PInv' /\ SupersededStep
  <1>1. ~grade.published /\ grade.verdict = "" /\ attempts = <<>> /\ attempts' = <<>>
    BY DEF DeleteHearing
  <1>2. grade \in Grade
    BY DEF Core, Typed
  <1>3. grade'.published = FALSE /\ grade'.closed = grade.closed /\ ~grade.closed
    <2>1. ~grade.closed
      BY <1>1 DEF PInv, ClosedDecided
    <2> QED BY <1>1, <1>2, <2>1 DEF DeleteHearing, Grade
  <1>4. PublishedComplete' /\ ClosedDecided' /\ SupersededStep
    BY <1>1, <1>3 DEF PublishedComplete, ClosedDecided, SupersededStep
  <1>5. PassedStageEarned'
    <2>1. progress # "passed"
      <3>1. attempts = <<>>
        BY <1>1
      <3>2. DOMAIN attempts = {}
        BY <3>1
      <3> QED BY <1>1, <3>2 DEF PInv, PassedStageEarned
    <2>2. progress' \in {progress, "ready"}
      BY DEF DeleteHearing, LeaveScheduled, MarkReady, teamVars
    <2> QED BY <2>1, <2>2 DEF PassedStageEarned
  <1> QED BY <1>4, <1>5 DEF PInv

---------------------------------------------------------------------------
(* Steps that record, complete or publish                                   *)

\* What a recorded outcome or another change publishes by itself is whole.
LEMMA AutoFinalizedWhole ==
  ASSUME NEW g \in Grade, NEW sub
  PROVE  LET n == AutoFinalized(g, sub)
         IN  /\ n.closed = g.closed /\ n.verdict = g.verdict
             /\ n.published /\ ~g.published => Whole(n, sub)
  <1> DEFINE p == [g EXCEPT !.published = TRUE]
  <1>1. /\ p.schedule = g.schedule /\ p.panel = g.panel /\ p.adviser = g.adviser
        /\ p.peer = g.peer /\ p.verdict = g.verdict /\ p.cleared = g.cleared
        /\ p.closed = g.closed
    BY DEF Grade
  <1>2. CASE Finalizes(g, sub)
    <2>1. AutoFinalized(g, sub) = p
      BY <1>2 DEF AutoFinalized
    <2> HIDE DEF p
    <2>2. Passed(g) /\ Ready(g, sub) /\ GradeComplete(g)
      BY <1>2 DEF Finalizes
    <2>3. Passed(p) /\ Ready(p, sub) /\ GradeComplete(p)
      BY <1>1, <2>2 DEF Passed, Ready, PanelComplete, EvaluatorsComplete, GradeComplete,
                        OthersComplete
    <2> QED BY <1>1, <2>1, <2>3 DEF Whole
  <1>3. CASE ~Finalizes(g, sub)
    BY <1>3 DEF AutoFinalized
  <1> QED BY <1>2, <1>3

LEMMA RecordOutcomePublished ==
  ASSUME Core, PInv, NEW g \in Grade, NEW v \in Verdict \ {""}, NEW sub,
         RecordOutcome(g, v, sub), ~grade.published, g.published = grade.published,
         g.closed = grade.closed, submission' = sub, UNCHANGED <<panelists, attempts>>
  PROVE  PInv' /\ SupersededStep
  <1> DEFINE n == [g EXCEPT !.verdict = v, !.cleared = FALSE]
  <1>1. n \in Grade /\ n.verdict = v /\ n.published = g.published /\ n.closed = g.closed
    BY DEF Grade
  <1>2. grade' = AutoFinalized(n, sub) /\ ApplyResult(grade')
    BY DEF RecordOutcome
  <1> HIDE DEF n
  <1>3. /\ grade'.closed = grade.closed /\ grade'.verdict = v
        /\ grade'.published => Whole(grade', submission')
    BY <1>1, <1>2, AutoFinalizedWhole
  <1>4. ProgressEarned
    BY <1>2, ResultEarned DEF ProgressEarned
  <1>5. grade'.closed => Automatic /\ grade'.verdict # ""
    BY <1>3 DEF PInv, ClosedDecided
  <1> QED BY <1>3, <1>4, <1>5, PublishedNow

LEMMA RecordVerdictPublished ==
  ASSUME Core, PInv, NEW v \in Verdict \ {""}, RecordVerdict(v)
  PROVE  PInv' /\ SupersededStep
  <1>1. /\ ~grade.published /\ RecordOutcome(grade, v, submission)
        /\ UNCHANGED <<panelists, submission, attempts>>
    BY DEF RecordVerdict
  <1>2. grade \in Grade
    BY DEF Core, Typed
  <1> QED BY <1>1, <1>2, RecordOutcomePublished

\* A published grade takes no more evaluations.
LEMMA SubmitPublished ==
  ASSUME Core, PInv, NEW r \in requests, NEW s \in Score, Submit(r, s)
  PROVE  PInv' /\ SupersededStep
  <1> DEFINE sub == [submission EXCEPT ![r.hearing][r.panelist] = s]
             scored == [grade EXCEPT !.panel = Live(grade.schedule, sub)]
  <1>1. /\ grade \in Grade /\ r.hearing \in Hearing
        /\ submission \in [Hearing -> [Panelist -> Evaluation]]
    BY DEF Core, Typed, Request
  <1>2. /\ ~grade.published /\ submission' = sub
        /\ UNCHANGED <<panelists, attempts>>
        /\ \/ RecordOutcome(scored, Outcome(scored.panel), sub)
           \/ grade' = scored /\ UNCHANGED <<status, teamVars>>
    BY DEF Submit, MaySubmit, Outcome
  <1>3. /\ scored.published = grade.published /\ scored.closed = grade.closed
        /\ scored.verdict = grade.verdict
    BY <1>1 DEF Grade
  <1>4. scored \in Grade
    <2>1. sub \in [Hearing -> [Panelist -> Evaluation]]
      BY <1>1 DEF Evaluation
    <2> HIDE DEF sub
    <2>2. Live(grade.schedule, sub) \in PanelScores
      BY <1>1, <2>1, LiveType DEF Grade
    <2> QED BY <1>1, <2>2 DEF Grade
  <1> HIDE DEF sub, scored
  <1>5. CASE RecordOutcome(scored, Outcome(scored.panel), sub)
    <2>1. Outcome(scored.panel) \in Verdict \ {""}
      BY DEF Outcome, Verdict
    <2> QED BY <1>2, <1>3, <1>4, <1>5, <2>1, RecordOutcomePublished
  <1>6. CASE grade' = scored /\ UNCHANGED <<status, teamVars>>
    <2>1. ~grade'.published /\ (grade'.closed => Automatic /\ grade'.verdict # "")
      BY <1>2, <1>3, <1>6 DEF PInv, ClosedDecided
    <2>2. ProgressEarned
      BY <1>6 DEF ProgressEarned, teamVars
    <2> QED BY <1>2, <2>1, <2>2, PublishedNow
  <1> QED BY <1>2, <1>5, <1>6

\* Changes of a grade that is not published yet, with what they publish.
LEMMA FinalizePublished ==
  ASSUME Core, PInv, NEW g \in Grade, Finalize(g), ~grade.published,
         g.published = grade.published, g.closed = grade.closed, g.verdict = grade.verdict,
         ApplyResult(grade') \/ progress' = progress,
         UNCHANGED <<panelists, submission, attempts>>
  PROVE  PInv' /\ SupersededStep
  <1>1. grade' = AutoFinalized(g, submission)
    BY DEF Finalize
  <1>2. /\ grade'.closed = grade.closed /\ grade'.verdict = grade.verdict
        /\ grade'.published => Whole(grade', submission')
    BY <1>1, AutoFinalizedWhole
  <1>3. ProgressEarned
    BY ResultEarned DEF ProgressEarned
  <1>4. grade'.closed => Automatic /\ grade'.verdict # ""
    BY <1>2 DEF PInv, ClosedDecided
  <1> QED BY <1>2, <1>3, <1>4, PublishedNow

LEMMA GradingStepPublished ==
  ASSUME Core, PInv, ClearRevisions \/ PeerScores \/ AdviserScore
  PROVE  PInv' /\ SupersededStep
  <1>1. grade \in Grade
    BY DEF Core, Typed
  <1>2. ~grade.published /\ UNCHANGED <<panelists, submission, attempts>>
    BY DEF ClearRevisions, PeerScores, AdviserScore, GradingAvailable
  <1>3. CASE ClearRevisions
    <2> DEFINE g == [grade EXCEPT !.cleared = TRUE]
    <2>1. /\ g \in Grade /\ g.published = grade.published
          /\ g.verdict = grade.verdict /\ g.closed = grade.closed
      BY <1>1 DEF Grade
    <2>2. Finalize(g) /\ ApplyResult(grade')
      BY <1>3 DEF ClearRevisions
    <2> HIDE DEF g
    <2> QED BY <1>2, <2>1, <2>2, FinalizePublished
  <1>4. CASE PeerScores
    <2> DEFINE g == [grade EXCEPT !.peer = TRUE]
    <2>1. /\ g \in Grade /\ g.published = grade.published
          /\ g.verdict = grade.verdict /\ g.closed = grade.closed
      BY <1>1 DEF Grade
    <2>2. Finalize(g) /\ (ApplyResult(grade') \/ progress' = progress)
      BY <1>4 DEF PeerScores
    <2> HIDE DEF g
    <2> QED BY <1>2, <2>1, <2>2, FinalizePublished
  <1>5. CASE AdviserScore
    <2>1. grade' = [grade EXCEPT !.adviser = TRUE] /\ progress' = progress
      BY <1>5 DEF AdviserScore, teamVars
    <2>2. /\ grade'.published = grade.published /\ grade'.closed = grade.closed
          /\ grade'.verdict = grade.verdict
      BY <1>1, <2>1 DEF Grade
    <2>3. grade'.closed => Automatic /\ grade'.verdict # ""
      BY <2>2 DEF PInv, ClosedDecided
    <2> QED BY <1>2, <2>1, <2>2, <2>3, PublishedNow DEF ProgressEarned
  <1> QED BY <1>3, <1>4, <1>5

\* Publishing: the guards of publish and of the completion ask for a whole grade.
LEMMA PublishGradePublished ==
  ASSUME Core, PInv, PublishGrade, Whole(grade, submission),
         UNCHANGED <<panelists, submission, attempts>>
  PROVE  PInv' /\ SupersededStep
  <1>1. grade \in Grade
    BY DEF Core, Typed
  <1>2. grade' = [grade EXCEPT !.published = TRUE] /\ ApplyResult(grade')
    BY DEF PublishGrade
  <1>3. /\ grade'.schedule = grade.schedule /\ grade'.panel = grade.panel
        /\ grade'.adviser = grade.adviser /\ grade'.peer = grade.peer
        /\ grade'.verdict = grade.verdict /\ grade'.cleared = grade.cleared
        /\ grade'.closed = grade.closed
    BY <1>1, <1>2 DEF Grade
  <1>4. ProgressEarned
    BY <1>2, ResultEarned DEF ProgressEarned
  <1>5. CASE grade.published
    <2>1. grade' = grade
      BY <1>1, <1>2, <1>5 DEF Grade
    <2> QED BY <1>4, <2>1, PublishedSame
  <1>6. CASE ~grade.published
    <2>1. Whole(grade', submission')
      BY <1>3 DEF Whole, Ready, PanelComplete, EvaluatorsComplete, GradeComplete,
                  OthersComplete, Passed
    <2>2. grade'.closed => Automatic /\ grade'.verdict # ""
      BY <1>3 DEF PInv, ClosedDecided
    <2> QED BY <1>4, <1>6, <2>1, <2>2, PublishedNow
  <1> QED BY <1>5, <1>6

LEMMA CompletionPublished ==
  ASSUME Core, PInv, Publish \/ CompleteStage
  PROVE  PInv' /\ SupersededStep
  <1>1. grade \in Grade
    BY DEF Core, Typed
  <1>2. UNCHANGED <<panelists, submission, attempts>>
    BY DEF Publish, CompleteStage
  <1>3. CASE Publish
    <2>1. Whole(grade, submission)
      BY <1>3 DEF Publish, MayPublish, Whole
    <2> QED BY <1>2, <1>3, <2>1, PublishGradePublished DEF Publish
  <1>4. CASE NothingMissing /\ GradeComplete(grade) /\ PublishGrade
    <2>1. Whole(grade, submission)
      BY <1>4 DEF NothingMissing, Whole
    <2> QED BY <1>2, <1>4, <2>1, PublishGradePublished
  <1>5. CASE /\ EligibleFailure /\ ApplyResult(grade')
             /\ grade' = [grade EXCEPT !.closed = TRUE, !.published = TRUE]
    <2>1. Automatic /\ grade.verdict = "for_redefense" /\ ~grade.published
      BY <1>5 DEF EligibleFailure
    <2>2. grade'.closed = TRUE /\ grade'.verdict = grade.verdict
      BY <1>1, <1>5 DEF Grade
    <2>3. ProgressEarned
      BY <1>5, ResultEarned DEF ProgressEarned
    <2> QED BY <1>2, <2>1, <2>2, <2>3, PublishedNow
  <1>6. CASE grade' = grade /\ (ApplyResult(grade) \/ progress' = progress)
    <2>1. ProgressEarned
      BY <1>6, ResultEarned DEF ProgressEarned
    <2> QED BY <1>2, <1>6, <2>1, PublishedSame
  <1> QED BY <1>3, <1>4, <1>5, <1>6 DEF CompleteStage

---------------------------------------------------------------------------
(* Corrections of a published grade                                         *)

\* A published grade stays whole and on its side of the cutoff: its evaluations
\* can be replaced, not voided.
LEMMA CorrectPublished ==
  ASSUME Core, VInv, PInv, NEW c, NEW protected, Correctable(c, protected), Correct(c),
         grade.published => protected,
         c.panelist \in Panelist, c.score \in Score \cup {VoidScore},
         UNCHANGED <<panelists, attempts, progress>>
  PROVE  PInv' /\ SupersededStep
  <1> DEFINE h == grade.schedule
             sub == Corrected(c)
             after == [grade EXCEPT !.panel = Live(h, sub)]
  <1>1. /\ grade \in Grade /\ submission \in [Hearing -> [Panelist -> Evaluation]]
        /\ panelists \in [Hearing -> SUBSET Panelist]
    BY DEF Core, Typed
  <1>2. /\ CorrectionAccepted(grade, after, sub, protected)
        /\ submission' = sub /\ grade' = after
        /\ h # 0 /\ (c.score = VoidScore => ~grade.published)
    BY DEF Correctable, Correct
  <1>3. /\ after.schedule = h /\ after.panel = Live(h, sub) /\ after.attempt = grade.attempt
        /\ after.adviser = grade.adviser /\ after.peer = grade.peer
        /\ after.verdict = grade.verdict /\ after.cleared = grade.cleared
        /\ after.published = grade.published /\ after.closed = grade.closed
    BY <1>1 DEF Grade
  <1>4. h \in Hearing
    BY <1>1, <1>2 DEF Grade
  <1>5. grade.published => \A p \in Panelist : submission[h][p] \in Score => sub[h][p] \in Score
    BY <1>1, <1>2, <1>4 DEF Corrected
  <1> HIDE DEF sub, after
  <1>6. ProgressEarned
    BY DEF ProgressEarned
  <1>7. CASE ~grade.published
    <2>1. ~grade'.published /\ (grade'.closed => Automatic /\ grade'.verdict # "")
      BY <1>2, <1>3, <1>7 DEF PInv, ClosedDecided
    <2> QED BY <1>6, <1>7, <2>1, PublishedNow
  <1>8. CASE grade.published
    <2> HIDE DEF h
    <2>1. h = grade.schedule
      BY DEF h
    <2>2. ~grade.closed => Whole(after, sub)
      <3> SUFFICES ASSUME ~grade.closed PROVE Whole(after, sub)
        OBVIOUS
      <3>1. /\ Ready(grade, submission) /\ GradeComplete(grade)
            /\ Passed(grade) \/ grade.verdict = "failed"
        BY <1>8 DEF PInv, PublishedComplete
      <3>2. panelists[h] # {} /\ \A p \in panelists[h] : p \in Panelist /\ sub[h][p] \in Score
        BY <1>1, <1>4, <1>5, <1>8, <2>1, <3>1 DEF Ready, PanelComplete, EvaluatorsComplete
      <3>3. EvaluatorsComplete(after.schedule, sub)
        BY <1>2, <1>3, <2>1, <3>2 DEF EvaluatorsComplete
      <3>4. after.panel # NoPanel
        <4>1. PICK p \in Panelist : sub[h][p] \in Score
          BY <3>2
        <4>2. after.panel[p] \in Score
          BY <1>2, <1>3, <2>1, <4>1 DEF Live
        <4>3. NoPanel[p] \notin Score
          BY EvaluationAssumption DEF NoPanel
        <4> QED BY <4>2, <4>3
      <3>5. OthersComplete(after)
        BY <1>3, <3>1 DEF Ready, OthersComplete
      <3>6. Passed(after) \/ after.verdict = "failed"
        BY <1>3, <3>1 DEF Passed
      <3> QED BY <3>3, <3>4, <3>5, <3>6 DEF Whole, Ready, PanelComplete, GradeComplete
    <2>3. PublishedComplete'
      <3>1. grade'.closed \/ Whole(grade', submission')
        BY <1>2, <1>3, <2>2
      <3> QED BY <3>1 DEF PublishedComplete, Whole, Ready, PanelComplete, EvaluatorsComplete,
                          GradeComplete, OthersComplete, Passed
    <2>4. ClosedDecided'
      BY <1>2, <1>3 DEF PInv, ClosedDecided
    <2>5. PassedStageEarned'
      <3>1. Passed(grade) => Passed(grade')
        BY <1>2, <1>3 DEF Passed
      <3> QED BY <1>2, <1>3, <1>8, <3>1 DEF PInv, PassedStageEarned
    <2>6. Qualifies(after.panel) <=> Qualifies(grade.panel)
      <3>1. CASE Automatic
        <4>1. grade.verdict # ""
          BY <1>8, PublishedHasVerdict
        <4>2. grade.verdict = Outcome(grade.panel)
          BY <3>1, <4>1 DEF VInv, VerdictMatchesPanel, VerdictPanelCurrent, Outcome
        <4>3. grade.verdict = Outcome(after.panel)
          BY <1>2, <3>1, <4>1 DEF CorrectionAccepted, Outcome
        <4> QED BY <4>2, <4>3 DEF Outcome
      <3>2. CASE ~Automatic
        <4>1. ~grade.closed
          BY <3>2 DEF PInv, ClosedDecided
        <4>2. GradeComplete(grade) /\ GradeComplete(after)
          BY <1>8, <2>2, <4>1 DEF PInv, PublishedComplete, Whole
        <4>3. (GradeComplete(grade) /\ Qualifies(grade.panel))
                <=> (GradeComplete(after) /\ Qualifies(after.panel))
          BY <1>2, <1>8, <3>2 DEF CorrectionAccepted
        <4> QED BY <4>2, <4>3
      <3> QED BY <3>1, <3>2
    <2>7. PublishedKept
      BY <1>2, <1>3, <2>1, <2>6 DEF PublishedKept
    <2> QED BY <2>3, <2>4, <2>5, <2>7 DEF PInv, SupersededStep
  <1> QED BY <1>7, <1>8

LEMMA CorrectionPublished ==
  ASSUME IInv, VInv, PInv, CorrectionOperation
  PROVE  PInv' /\ SupersededStep
  <1>1. Core /\ amendment \subseteq Amendment
    BY DEF IInv
  <1>2. CASE UNCHANGED <<panelists, submission, grade, attempts, progress>>
    BY <1>1, <1>2, PublishedSame DEF ProgressEarned
  <1>3. CASE \E p \in Panelist, s \in Score \cup {VoidScore} : RequestCorrection(p, s)
    <2>1. PICK p \in Panelist, s \in Score \cup {VoidScore} : RequestCorrection(p, s)
      BY <1>3
    <2> DEFINE c == [panelist |-> p, score |-> s, stale |-> FALSE]
    <2>2. c.panelist \in Panelist /\ c.score \in Score \cup {VoidScore}
      OBVIOUS
    <2>3. /\ Correctable(c, Protected) /\ UNCHANGED <<panelists, attempts, progress>>
          /\ Correct(c) \/ UNCHANGED <<submission, grade>>
      BY <2>1 DEF RequestCorrection, teamVars
    <2>4. grade.published => Protected
      BY DEF Protected
    <2> HIDE DEF c
    <2> QED BY <1>1, <1>2, <2>2, <2>3, <2>4, CorrectPublished
  <1>4. CASE \E c \in amendment : ReviewCorrection(c)
    <2>1. PICK c \in amendment : ReviewCorrection(c)
      BY <1>4
    <2>2. c.panelist \in Panelist /\ c.score \in Score \cup {VoidScore}
      BY <1>1 DEF Amendment
    <2>3. /\ UNCHANGED <<panelists, attempts, progress>>
          /\ \/ Correctable(c, TRUE) /\ Correct(c)
             \/ UNCHANGED <<submission, grade>>
      BY <2>1 DEF ReviewCorrection, teamVars
    <2> QED BY <1>1, <1>2, <2>2, <2>3, CorrectPublished
  <1> QED BY <1>3, <1>4 DEF CorrectionOperation

---------------------------------------------------------------------------
(* All steps                                                                *)

LEMMA NextPublished ==
  ASSUME IInv, VInv, PInv, [Next]_vars
  PROVE  PInv' /\ SupersededStep
  <1>1. Core
    BY DEF IInv
  <1>2. CASE Endorse \/ Unendorse
    BY <1>1, <1>2, QuietPublished
  <1>3. CASE HearingOperation
    BY <1>1, <1>3, QuietPublished, ChangePanelPublished, MovingStepPublished,
       DeleteHearingPublished DEF HearingOperation
  <1>4. CASE PanelOperation
    BY <1>1, <1>4, QuietPublished, MovingStepPublished, SubmitPublished DEF PanelOperation
  <1>5. CASE GradeOperation
    BY <1>1, <1>5, QuietPublished, MovingStepPublished, RecordVerdictPublished,
       GradingStepPublished, CompletionPublished DEF GradeOperation
  <1>6. CASE CorrectionOperation
    BY <1>6, CorrectionPublished
  <1>7. CASE UNCHANGED vars
    BY <1>1, <1>7, PublishedSame DEF vars, teamVars, ProgressEarned
  <1> QED BY <1>2, <1>3, <1>4, <1>5, <1>6, <1>7 DEF Next, Operation

LEMMA InitPublished == Init => PInv
  <1> SUFFICES ASSUME Init PROVE PInv
    OBVIOUS
  <1>1. ~grade.published /\ ~grade.closed /\ progress # "passed"
    BY DEF Init
  <1> QED BY <1>1 DEF PInv, PublishedComplete, ClosedDecided, PassedStageEarned

LEMMA PublishedInvariant == Spec => []PInv
  <1>1. IInv /\ VInv /\ PInv /\ [Next]_vars => PInv'
    BY NextPublished
  <1> QED BY <1>1, InitPublished, DefenseInvariant, VerdictInvariant, PTL DEF Spec

\* A published grade is a closed failure or complete in every component, by every
\* evaluator now on the panel, with an outcome that may be published: publish,
\* finalize_for_archive, complete_group and the guards of roster and correction.
THEOREM PublishedCompleteAlways == Spec => []PublishedComplete
  <1>1. PInv => PublishedComplete
    BY DEF PInv
  <1> QED BY <1>1, PublishedInvariant, PTL

\* A stage is shown as passed only when an attempt of it has a passing verdict,
\* however its hearings are cancelled, restored, deleted or repeated afterwards
\* (mark_stage_result).
THEOREM PassedStageEarnedAlways == Spec => []PassedStageEarned
  <1>1. PInv => PassedStageEarned
    BY DEF PInv
  <1> QED BY <1>1, PublishedInvariant, PTL

\* A published grade keeps its verdict and its side of the cutoff, corrections
\* included, until the next attempt supersedes it; then the history has it as it
\* was (_snapshot_attempt, _perform_change, _check_progression).
THEOREM PublishedOnlySupersededAlways == Spec => PublishedOnlySuperseded
  <1>1. IInv /\ VInv /\ PInv /\ [Next]_vars
          => [grade.published =>
                \/ /\ \A field \in {"schedule", "attempt", "verdict", "published", "closed"} :
                        grade'[field] = grade[field]
                   /\ Qualifies(grade'.panel) <=> Qualifies(grade.panel)
                \/ /\ grade'.attempt = grade.attempt + 1
                   /\ attempts'[grade.attempt].verdict = grade.verdict
                   /\ attempts'[grade.attempt].panel = grade.panel]_vars
    BY NextPublished DEF SupersededStep, PublishedKept, Superseded
  <1> QED BY <1>1, PublishedInvariant, VerdictInvariant, DefenseInvariant, PTL
          DEF Spec, PublishedOnlySuperseded
==============================================================================
