---------------------------- MODULE DefenseAttempt ----------------------------
(***************************************************************************)
(* The defense of one Capstone team at one stage of one term: its hearings  *)
(* (DefenseSchedule), the one grade row they share (TeamGrade), the history *)
(* of superseded attempts (GradeAttemptHistory), the progress of the stage  *)
(* (TeamStageProgress) and the closing of the team's participation.         *)
(*                                                                          *)
(* Every writer below holds the row lock of the team, so each is one step;  *)
(* what a request reads before that lock is a step of its own: the          *)
(* validation of a new hearing (ValidateHearing) and the three transactions *)
(* of a panelist's submission (Read, Open, Submit).  A request a handler     *)
(* refuses, or that dies between two transactions, is abandoned.            *)
(*                                                                          *)
(* Both assessment policies are covered.  Automatic: the stage has a        *)
(* qualifying score and the complete panel decides.  Otherwise the chair    *)
(* records the verdict.  The hearing day has come, every required file and  *)
(* signed minutes are in, all evaluators are faculty.                       *)
(***************************************************************************)
EXTENDS Naturals, Sequences, FiniteSets, Functions

CONSTANTS Panelist,    \* faculty who may sit on the panel
          MaxHearing,  \* bound: hearings ever created
          Score,       \* percentages a panelist may give
          Qualifying,  \* qualifying score of the stage, and the passing total
          NoScore,     \* no evaluation
          VoidScore,   \* an evaluation that was voided
          Automatic,   \* policy version 1: the panel mean decides
          AdviserRequired, \* adviser grading is enabled for the term and weighs
          Reassess,    \* score_carryover = 'reassess'
          MaxRequests, \* bound: panelist requests under way
          Amendable    \* bound: whether grade corrections are requested

ASSUME HearingAssumption == MaxHearing \in Nat
ASSUME ScoreAssumption == Score \subseteq Nat /\ Qualifying \in Nat
ASSUME EvaluationAssumption == /\ NoScore \notin Score
                               /\ VoidScore \notin Score \cup {NoScore}
ASSUME PolicyAssumption == {Automatic, AdviserRequired, Reassess, Amendable} \subseteq BOOLEAN
ASSUME RequestAssumption == MaxRequests \in Nat

VARIABLES status,      \* of every hearing
          panelists,   \* panel_assignments of every hearing
          submission,  \* PanelistGradeSubmission by hearing and panelist
          grade,       \* the TeamGrade row
          attempts,    \* its attempt_history, oldest first
          progress,    \* TeamStageProgress.status
          reendorsed,  \* ready_at > verdict_at
          participationOpen,  \* TeamTermParticipation.closed_at is null
          officiallyComplete, \* StageGradingConfig.is_officially_complete
          planned,     \* panel of a validated request to create a hearing, or {}
          requests,    \* panelists' submissions under way
          amendment    \* the pending GradeCorrection, as a set of at most one

teamVars == <<progress, reendorsed, participationOpen>>
vars == <<status, panelists, submission, grade, attempts, teamVars,
          officiallyComplete, planned, requests, amendment>>

Hearing == 1..MaxHearing
Evaluation == Score \cup {NoScore, VoidScore}
Verdict == {"", "approved", "approved_with_revisions", "for_redefense", "failed"}
Passing == {"approved", "approved_with_revisions"}
Panels == SUBSET Panelist \ {{}}
Request == [panelist : Panelist, hearing : Hearing, opened : BOOLEAN]
NoPanel == [p \in Panelist |-> NoScore]

---------------------------------------------------------------------------
(* Panel results                                                            *)

\* Mutant: a voided evaluation still counts.
LiveWithVoid(h, sub) ==
  IF h = 0 THEN NoPanel ELSE sub[h]

\* The evaluations of hearing h that count.  panel_score is their mean; the
\* model keeps the evaluations themselves.
Live(h, sub) ==
  IF h = 0 THEN NoPanel
  ELSE [p \in Panelist |-> IF sub[h][p] \in Score THEN sub[h][p] ELSE NoScore]

EvaluatorsComplete(h, sub) ==
  /\ h # 0
  /\ panelists[h] # {}
  /\ \A p \in panelists[h] : sub[h][p] \in Score

\* The mean of a panel reaches the qualifying score.
Qualifies(panel) ==
  LET given == {p \in Panelist : panel[p] \in Score}
  IN  FoldFunctionOnSet(+, 0, panel, given) >= Qualifying * Cardinality(given)

\* TeamGrade.is_complete, team_grading_readiness, passed_and_cleared, result.
OthersComplete(g) == (AdviserRequired => g.adviser) /\ g.peer
GradeComplete(g) == g.panel # NoPanel /\ OthersComplete(g)
PanelComplete(g, sub) == /\ EvaluatorsComplete(g.schedule, sub)
                         /\ Automatic \/ g.panel # NoPanel
Ready(g, sub) == PanelComplete(g, sub) /\ OthersComplete(g)

Passed(g) == \/ g.verdict = "approved"
             \/ g.verdict = "approved_with_revisions" /\ g.cleared

\* Without a verdict the manual policy reads a result off the complete total,
\* which reaches the passing total exactly when the panel mean does.
NumericResult(g) == ~Automatic /\ g.verdict = "" /\ GradeComplete(g)
Failed(g) == \/ g.closed
             \/ g.verdict = "failed"
             \/ NumericResult(g) /\ ~Qualifies(g.panel)

---------------------------------------------------------------------------
(* Stage progress                                                           *)

\* Mutant: whatever is published has passed.
ProgressWhenPublished(g) ==
  CASE g.published -> "passed"
    [] g.verdict = "for_redefense" -> "redefense"
    [] g.verdict = "approved_with_revisions" /\ ~g.cleared -> "revisions"
    [] g.verdict = "failed" -> "failed"
    [] OTHER -> "grading"

ProgressAfter(g) ==
  CASE g.published /\ Passed(g) -> "passed"
    [] g.closed \/ (g.verdict = "failed") -> "failed"
    [] g.verdict = "for_redefense" /\ ~g.closed -> "redefense"
    [] g.verdict = "approved_with_revisions" /\ ~g.cleared -> "revisions"
    [] OTHER -> "grading"

\* mark_stage_result: an official failure closes the participation.
ApplyResult(g) ==
  /\ progress' = ProgressAfter(g)
  /\ participationOpen' = (participationOpen /\ ~(g.published /\ Failed(g)))

\* was_stage_endorsed
Endorsed ==
  \/ progress \in {"ready", "scheduled", "grading", "passed", "revisions", "failed"}
  \/ progress = "redefense" /\ ~Automatic

Preparing == ~grade.closed /\ grade.verdict = "for_redefense" /\ progress # "ready"

Underway == {h \in Hearing : status[h] \in {"scheduled", "done"}}
Scheduled == {h \in Hearing : status[h] = "scheduled"}

\* mark_stage_ready, and the endorsement date it leaves.
CanMarkReady == participationOpen /\ ~Failed(grade) /\ grade.verdict \notin Passing
MarkReady ==
  /\ CanMarkReady
  /\ progress' = "ready"
  /\ reendorsed' = (reendorsed \/ (Automatic /\ grade.verdict = "for_redefense"))
  /\ UNCHANGED participationOpen

\* is_stage_ready
StageReady ==
  /\ participationOpen
  /\ \A h \in Scheduled : grade.schedule = h /\ grade.verdict # ""
  /\ IF grade.verdict = "for_redefense" /\ ~grade.closed
     THEN Automatic => progress = "ready" /\ reendorsed
     ELSE /\ ~Failed(grade) /\ grade.verdict \notin Passing
          /\ \/ progress = "ready"
             \/ progress = "scheduled" /\ ~NumericResult(grade)

\* _validate_duplicate, the part of the validation repeated under the lock.
NotDuplicate == Scheduled = {} /\ progress # "passed"

\* is_stage_defense_done, for a grade whose verdict is not for_redefense.
DefenseDone == \/ progress \in {"grading", "passed"}
               \/ grade.panel # NoPanel

Endorse ==
  /\ \/ Preparing
     \/ /\ ~Endorsed
        /\ Underway = {} /\ ~officiallyComplete
        /\ grade.verdict # "for_redefense" => ~DefenseDone
  /\ MarkReady
  /\ UNCHANGED <<status, panelists, submission, grade, attempts,
                 officiallyComplete, planned, requests>>

Unendorse ==
  /\ Underway = {}
  /\ progress' = "locked"
  /\ UNCHANGED <<status, panelists, submission, grade, attempts, reendorsed,
                 participationOpen, officiallyComplete, planned, requests>>

---------------------------------------------------------------------------
(* Which hearing the grade row is about                                     *)

\* Mutants: a hearing of an earlier attempt can be taken up again; a closed
\* participation does not stop a new attempt.
MovesToAnyHearing(h) == participationOpen /\ grade.schedule # h
MovesWhenClosed(h) ==
  /\ grade.schedule # h
  /\ \A i \in DOMAIN attempts : attempts[i].schedule # h

MovesGrade(h) ==
  /\ participationOpen
  /\ grade.schedule # h
  /\ \A i \in DOMAIN attempts : attempts[i].schedule # h

StartsAttempt(h) ==
  /\ MovesGrade(h)
  /\ grade.schedule # 0
  /\ grade.panel # NoPanel \/ grade.verdict # ""

\* Mutants: the attempt counter stays; the panel score is carried over.
SameAttempt(g, h) ==
  [g EXCEPT !.schedule = h, !.panel = NoPanel, !.adviser = @ /\ ~Reassess,
            !.peer = @ /\ ~Reassess, !.verdict = "", !.cleared = FALSE,
            !.published = FALSE, !.closed = FALSE]

CarriesPanelScore(g, h) ==
  [g EXCEPT !.schedule = h, !.attempt = @ + 1, !.adviser = @ /\ ~Reassess,
            !.peer = @ /\ ~Reassess, !.verdict = "", !.cleared = FALSE,
            !.published = FALSE, !.closed = FALSE]

NextAttempt(g, h) ==
  [g EXCEPT !.schedule = h, !.attempt = @ + 1, !.panel = NoPanel,
            !.adviser = @ /\ ~Reassess, !.peer = @ /\ ~Reassess,
            !.verdict = "", !.cleared = FALSE,
            !.published = FALSE, !.closed = FALSE]

\* Mutant: an attempt without a panel score leaves no trace but a number.
WithBareSnapshot ==
  Append(attempts, [schedule |-> grade.schedule, attempt |-> grade.attempt,
                    panel |-> NoPanel, verdict |-> grade.verdict])

\* _snapshot_attempt
WithSnapshot ==
  IF \E i \in DOMAIN attempts : attempts[i].attempt = grade.attempt
  THEN attempts
  ELSE Append(attempts, [schedule |-> grade.schedule, attempt |-> grade.attempt,
                         panel |-> grade.panel, verdict |-> grade.verdict])

\* get_or_create_for_schedule
OpenGrade(h) ==
  \/ /\ StartsAttempt(h)
     /\ grade' = NextAttempt(grade, h)
     /\ attempts' = WithSnapshot
     /\ reendorsed' = FALSE
  \/ /\ MovesGrade(h) /\ ~StartsAttempt(h)
     /\ grade' = [grade EXCEPT !.schedule = h]
     /\ UNCHANGED <<attempts, reendorsed>>
  \/ /\ ~MovesGrade(h)
     /\ UNCHANGED <<grade, attempts, reendorsed>>

---------------------------------------------------------------------------
(* Hearings                                                                 *)

Schedule(panel) ==
  \E h \in Hearing :
    /\ status[h] = "none"
    /\ \A k \in Hearing : k < h => status[k] # "none"
    /\ status' = [status EXCEPT ![h] = "scheduled"]
    /\ panelists' = [panelists EXCEPT ![h] = panel]
    /\ progress' = "scheduled"
    /\ OpenGrade(h)
    /\ UNCHANGED <<submission, participationOpen, officiallyComplete, requests>>

\* One new hearing: what is_valid checked before the locks is not all checked
\* again under them.
ValidateHearing(panel) ==
  /\ planned = {}
  /\ StageReady /\ NotDuplicate
  /\ planned' = panel
  /\ UNCHANGED <<status, panelists, submission, grade, attempts, teamVars,
                 officiallyComplete, requests>>

CreateHearing ==
  /\ planned # {}
  /\ NotDuplicate
  /\ Schedule(planned)
  /\ planned' = {}

RefuseHearing ==
  /\ planned # {}
  /\ planned' = {}
  /\ UNCHANGED <<status, panelists, submission, grade, attempts, teamVars,
                 officiallyComplete, requests>>

\* The bulk plan validates everything again under the locks.
PlanHearing(panel) ==
  /\ StageReady /\ NotDuplicate
  /\ Schedule(panel)
  /\ UNCHANGED planned

\* Without another hearing under way the stage goes back to ready; when
\* mark_stage_ready refuses, so does the whole request.
LeaveScheduled(h) ==
  IF progress = "scheduled" /\ Underway \subseteq {h}
  THEN MarkReady
  ELSE UNCHANGED teamVars

Cancel(h) ==
  /\ status[h] = "scheduled"
  /\ status' = [status EXCEPT ![h] = "cancelled"]
  /\ LeaveScheduled(h)
  /\ UNCHANGED <<panelists, submission, grade, attempts, officiallyComplete,
                 planned, requests>>

Restore(h) ==
  /\ status[h] = "cancelled"
  /\ status' = [status EXCEPT ![h] = "scheduled"]
  /\ progress' = "scheduled"
  /\ UNCHANGED <<panelists, submission, grade, attempts, reendorsed,
                 participationOpen, officiallyComplete, planned, requests>>

Archive(h) ==
  /\ status[h] = "done"
  /\ Automatic /\ grade.schedule = h /\ grade.verdict \notin {"for_redefense", "failed"}
       => /\ grade.published /\ Passed(grade)
          /\ Ready(grade, submission) /\ GradeComplete(grade)
  /\ status' = [status EXCEPT ![h] = "archived"]
  /\ UNCHANGED <<panelists, submission, grade, attempts, teamVars,
                 officiallyComplete, planned, requests>>

ChangePanel(h, panel) ==
  /\ status[h] \in {"scheduled", "cancelled"}
  /\ panel # panelists[h]
  /\ grade.schedule = h => ~grade.published /\ ~officiallyComplete
  /\ \A p \in panelists[h] \ panel : submission[h][p] \notin Score
  /\ panelists' = [panelists EXCEPT ![h] = panel]
  /\ progress' = IF status[h] = "scheduled" THEN "scheduled" ELSE progress
  /\ UNCHANGED <<status, submission, grade, attempts, reendorsed, participationOpen,
                 officiallyComplete, planned, requests>>

DeleteHearing(h) ==
  /\ status[h] \in {"scheduled", "cancelled"}
  /\ \A k \in Hearing : submission[k] = NoPanel
  /\ attempts = <<>>
  /\ ~grade.adviser /\ ~grade.peer /\ grade.verdict = "" /\ ~grade.published
  /\ status' = [status EXCEPT ![h] = "deleted"]
  /\ panelists' = [panelists EXCEPT ![h] = {}]
  /\ grade' = IF grade.schedule = h THEN [grade EXCEPT !.schedule = 0] ELSE grade
  /\ LeaveScheduled(h)
  /\ UNCHANGED <<submission, attempts, officiallyComplete, planned, requests>>

---------------------------------------------------------------------------
(* Outcomes                                                                 *)

Editable ==
  /\ participationOpen
  /\ \/ grade.verdict = "for_redefense" /\ ~grade.closed /\ ~grade.published
     \/ ~officiallyComplete

\* What maybe_auto_finalize_passed_grade makes of grade g.
Finalizes(g, sub) == /\ officiallyComplete /\ ~g.published
                     /\ Passed(g) /\ Ready(g, sub) /\ GradeComplete(g)
AutoFinalized(g, sub) ==
  IF Finalizes(g, sub) THEN [g EXCEPT !.published = TRUE] ELSE g

\* Bringing the hearing to done; from cancelled or archived it is an error.
FinishHearing(h) ==
  /\ status[h] \in {"scheduled", "done"}
  /\ status' = [status EXCEPT ![h] = "done"]

\* Mutant: the outcome leaves the hearing open for grading.
OutcomeKeepsHearing(g, v, sub) ==
  LET final == AutoFinalized([g EXCEPT !.verdict = v, !.cleared = FALSE], sub)
  IN  /\ grade' = final
      /\ reendorsed' = FALSE
      /\ ApplyResult(final)
      /\ UNCHANGED status

\* _record_outcome
RecordOutcome(g, v, sub) ==
  LET final == AutoFinalized([g EXCEPT !.verdict = v, !.cleared = FALSE], sub)
  IN  /\ grade' = final
      /\ reendorsed' = FALSE
      /\ FinishHearing(g.schedule)
      /\ ApplyResult(final)

---------------------------------------------------------------------------
(* A panelist submits: three transactions                                   *)

Read(p, h) ==
  /\ Cardinality(requests) < MaxRequests
  /\ p \in panelists[h] /\ status[h] = "scheduled"
  /\ submission[h][p] \notin Score
  /\ requests' = requests \cup {[panelist |-> p, hearing |-> h, opened |-> FALSE]}
  /\ UNCHANGED <<status, panelists, submission, grade, attempts, teamVars,
                 officiallyComplete, planned>>

\* The grade row moves to the hearing in a transaction of its own, before any
\* check under the lock; what is refused afterwards does not undo it.
Open(r) ==
  /\ ~r.opened /\ status[r.hearing] # "deleted"
  /\ OpenGrade(r.hearing)
  /\ requests' = (requests \ {r}) \cup {[r EXCEPT !.opened = TRUE]}
  /\ UNCHANGED <<status, panelists, submission, progress, participationOpen,
                 officiallyComplete, planned>>

\* Mutant: an evaluation already recorded is replaced.
MaySubmitAgain(r) ==
  /\ status[r.hearing] = "scheduled"
  /\ ~grade.published /\ Editable
  /\ r.panelist \in panelists[r.hearing]

MaySubmit(r) ==
  /\ status[r.hearing] = "scheduled"
  /\ ~grade.published /\ Editable
  /\ r.panelist \in panelists[r.hearing]
  /\ submission[r.hearing][r.panelist] = NoScore

Resolves(g, sub) == /\ Automatic /\ g.verdict = "" /\ ~g.published
                    /\ EvaluatorsComplete(g.schedule, sub)

\* submit_panelist_grade, with resolve_outcome
Submit(r, s) ==
  /\ r.opened
  /\ MaySubmit(r)
  /\ LET sub == [submission EXCEPT ![r.hearing][r.panelist] = s]
         scored == [grade EXCEPT !.panel = Live(grade.schedule, sub)]
     IN  /\ submission' = sub
         /\ \/ /\ Resolves(scored, sub)
               /\ status[grade.schedule] = "scheduled"
               /\ RecordOutcome(scored,
                    IF Qualifies(scored.panel) THEN "approved" ELSE "for_redefense", sub)
            \/ /\ ~Resolves(scored, sub)
               /\ grade' = scored
               /\ UNCHANGED <<status, teamVars>>
  /\ requests' = requests \ {r}
  /\ UNCHANGED <<panelists, attempts, officiallyComplete, planned>>

Abandon(r) ==
  /\ requests' = requests \ {r}
  /\ UNCHANGED <<status, panelists, submission, grade, attempts, teamVars,
                 officiallyComplete, planned>>

---------------------------------------------------------------------------
(* Chair, adviser, teammates, administrator                                 *)

\* The verdict request opens the grade of its hearing before it is checked.
OpenByVerdict(h) ==
  /\ status[h] \notin {"none", "deleted"} /\ grade.schedule # h
  /\ OpenGrade(h)
  /\ UNCHANGED <<status, panelists, submission, progress, participationOpen,
                 officiallyComplete, planned, requests>>

\* record_verdict: refused to a stage with automatic outcomes.
RecordVerdict(v) ==
  LET h == grade.schedule
  IN  /\ ~Automatic /\ participationOpen /\ h # 0
      /\ ~grade.published
      /\ PanelComplete(grade, submission)
      /\ status[h] = "scheduled" \/ (status[h] = "done" /\ grade.verdict # "")
      /\ RecordOutcome(grade, v, submission)
      /\ UNCHANGED <<panelists, submission, attempts, officiallyComplete,
                     planned, requests>>

\* AutoFinalized after another change of the grade: finishes the hearing only
\* when it publishes.
Finalize(g) ==
  /\ grade' = AutoFinalized(g, submission)
  /\ IF Finalizes(g, submission) THEN FinishHearing(g.schedule) ELSE UNCHANGED status

ClearRevisions ==
  /\ participationOpen
  /\ grade.verdict = "approved_with_revisions" /\ ~grade.published
  /\ Finalize([grade EXCEPT !.cleared = TRUE])
  /\ ApplyResult(grade')
  /\ UNCHANGED <<panelists, submission, attempts, reendorsed, officiallyComplete,
                 planned, requests>>

\* adviser and peer grading_unavailable_reason
GradingAvailable ==
  /\ Editable /\ ~grade.published
  /\ grade.schedule # 0 /\ status[grade.schedule] \in {"scheduled", "done"}
  /\ Endorsed

AdviserScore ==
  /\ AdviserRequired
  /\ GradingAvailable
  /\ grade' = [grade EXCEPT !.adviser = TRUE]
  /\ UNCHANGED <<status, panelists, submission, attempts, teamVars,
                 officiallyComplete, planned, requests>>

\* The last peer evaluation; none counts before it.
PeerScores ==
  /\ GradingAvailable
  /\ EvaluatorsComplete(grade.schedule, submission) /\ grade.panel # NoPanel
  /\ ~grade.peer
  /\ Finalize([grade EXCEPT !.peer = TRUE])
  /\ IF grade'.published THEN ApplyResult(grade')
                         ELSE UNCHANGED <<progress, participationOpen>>
  /\ UNCHANGED <<panelists, submission, attempts, reendorsed, officiallyComplete,
                 planned, requests>>

\* Mutant: an incomplete grade is published.
MayPublishIncomplete(g) ==
  participationOpen /\ (Passed(g) \/ g.verdict = "failed")

MayPublish(g) ==
  /\ participationOpen
  /\ Passed(g) \/ g.verdict = "failed"
  /\ Ready(g, submission) /\ GradeComplete(g)

PublishGrade ==
  /\ grade' = [grade EXCEPT !.published = TRUE]
  /\ FinishHearing(grade.schedule)
  /\ ApplyResult(grade')

Publish ==
  /\ MayPublish(grade)
  /\ PublishGrade
  /\ UNCHANGED <<panelists, submission, attempts, reendorsed, officiallyComplete,
                 planned, requests>>

---------------------------------------------------------------------------
(* Completion of the stage                                                  *)

EligibleFailure ==
  /\ Automatic /\ grade.verdict = "for_redefense"
  /\ ~grade.closed /\ ~grade.published
  /\ status[grade.schedule] = "done"
  /\ EvaluatorsComplete(grade.schedule, submission) /\ ~Qualifies(grade.panel)
  /\ Scheduled = {}

\* missing_components = []
NothingMissing ==
  /\ Ready(grade, submission)
  /\ grade.verdict = "failed" \/ Passed(grade)

\* complete_group: an eligible failure is closed, a cleared pass published.
CompleteStage ==
  /\ ~officiallyComplete /\ grade.schedule # 0
  /\ officiallyComplete' = TRUE
  /\ \/ /\ EligibleFailure /\ participationOpen
        /\ grade' = [grade EXCEPT !.closed = TRUE, !.published = TRUE]
        /\ ApplyResult(grade')
        /\ UNCHANGED status
     \/ /\ NothingMissing /\ GradeComplete(grade)
        /\ Passed(grade) /\ ~grade.published /\ participationOpen
        /\ PublishGrade
     \/ /\ NothingMissing /\ GradeComplete(grade) /\ ~grade.closed /\ ~Passed(grade)
        /\ ApplyResult(grade)
        /\ UNCHANGED <<grade, status>>
     \/ /\ \/ grade.closed
           \/ NothingMissing /\ ~GradeComplete(grade)
           \/ NothingMissing /\ Passed(grade) /\ grade.published
        /\ UNCHANGED <<grade, status, progress, participationOpen>>
  /\ UNCHANGED <<panelists, submission, attempts, reendorsed, planned, requests>>

\* update_group_settings with is_officially_complete = false
ReopenStage ==
  /\ officiallyComplete
  /\ officiallyComplete' = FALSE
  /\ UNCHANGED <<status, panelists, submission, grade, attempts, teamVars,
                 planned, requests>>

---------------------------------------------------------------------------
(* Corrections of a recorded evaluation                                     *)

Protected == \/ grade.published \/ officiallyComplete
             \/ status[grade.schedule] \in {"done", "archived"}

\* Mutants: a correction may turn the verdict over, or a passing total.
CorrectionFits(before, after, sub, protected) ==
  protected /\ ~Automatic =>
    (GradeComplete(before) /\ Qualifies(before.panel))
      <=> (GradeComplete(after) /\ Qualifies(after.panel))

CorrectionUncompared(before, after, sub, protected) ==
  Automatic /\ before.verdict # "" =>
    /\ EvaluatorsComplete(after.schedule, sub)
    /\ before.verdict = IF Qualifies(after.panel) THEN "approved" ELSE "for_redefense"

\* _perform_change and _check_progression
CorrectionAccepted(before, after, sub, protected) ==
  /\ Automatic /\ before.verdict # "" =>
       /\ EvaluatorsComplete(after.schedule, sub)
       /\ before.verdict = IF Qualifies(after.panel) THEN "approved" ELSE "for_redefense"
  /\ protected /\ ~Automatic =>
       (GradeComplete(before) /\ Qualifies(before.panel))
         <=> (GradeComplete(after) /\ Qualifies(after.panel))

Corrected(c) == [submission EXCEPT ![grade.schedule][c.panelist] = c.score]

Correctable(c, protected) ==
  /\ grade.schedule # 0
  /\ submission[grade.schedule][c.panelist] \in Score \ {c.score}
  /\ c.score = VoidScore => ~grade.published
  /\ CorrectionAccepted(grade,
       [grade EXCEPT !.panel = Live(grade.schedule, Corrected(c))], Corrected(c), protected)

Correct(c) ==
  /\ submission' = Corrected(c)
  /\ grade' = [grade EXCEPT !.panel = Live(grade.schedule, Corrected(c))]

\* What snapshot reads: the grade, its evaluations and the revision of its
\* hearing, which counts the changes of status and panel.
Snapshot == <<grade, submission[grade.schedule], status[grade.schedule],
              panelists[grade.schedule]>>

\* Any change of it makes a pending correction stale, for good: the code also
\* compares updated_at.
AmendmentAges ==
  amendment' = {[c EXCEPT !.stale = @ \/ Snapshot' # Snapshot] : c \in amendment}

\* A correction replaces one live evaluation, with VoidScore to void it.
\* request_correction: a protected grade waits for a second administrator.
RequestCorrection(p, s) ==
  LET c == [panelist |-> p, score |-> s, stale |-> FALSE]
  IN  /\ Amendable
      /\ Correctable(c, Protected)
      /\ UNCHANGED <<status, panelists, attempts, teamVars, officiallyComplete,
                     planned, requests>>
      /\ \/ ~Protected /\ Correct(c) /\ AmendmentAges
         \/ /\ Protected /\ amendment = {}
            /\ amendment' = {c}
            /\ UNCHANGED <<submission, grade>>

ReviewCorrection(c) ==
  /\ \/ ~c.stale /\ Correctable(c, TRUE) /\ Correct(c)
     \/ UNCHANGED <<submission, grade>>
  /\ amendment' = {}
  /\ UNCHANGED <<status, panelists, attempts, teamVars, officiallyComplete,
                 planned, requests>>

---------------------------------------------------------------------------
Init ==
  /\ status = [h \in Hearing |-> "none"]
  /\ panelists = [h \in Hearing |-> {}]
  /\ submission = [h \in Hearing |-> NoPanel]
  /\ grade = [schedule |-> 0, attempt |-> 1, panel |-> NoPanel, adviser |-> FALSE,
              peer |-> FALSE, verdict |-> "", cleared |-> FALSE,
              published |-> FALSE, closed |-> FALSE]
  /\ attempts = <<>>
  /\ progress = "locked"
  /\ reendorsed = FALSE
  /\ participationOpen = TRUE
  /\ officiallyComplete = FALSE
  /\ planned = {}
  /\ requests = {}
  /\ amendment = {}

HearingOperation ==
  \/ \E panel \in Panels : ValidateHearing(panel) \/ PlanHearing(panel)
  \/ CreateHearing \/ RefuseHearing
  \/ \E h \in Hearing : \/ Cancel(h) \/ Restore(h) \/ Archive(h) \/ DeleteHearing(h)
                        \/ \E panel \in Panels : ChangePanel(h, panel)

PanelOperation ==
  \/ \E p \in Panelist, h \in Hearing : Read(p, h)
  \/ \E r \in requests : Open(r) \/ Abandon(r) \/ \E s \in Score : Submit(r, s)

GradeOperation ==
  \/ \E h \in Hearing : OpenByVerdict(h)
  \/ \E v \in Verdict \ {""} : RecordVerdict(v)
  \/ ClearRevisions \/ AdviserScore \/ PeerScores
  \/ Publish \/ CompleteStage \/ ReopenStage

CorrectionOperation ==
  \/ \E p \in Panelist, s \in Score \cup {VoidScore} : RequestCorrection(p, s)
  \/ \E c \in amendment : ReviewCorrection(c)

Operation == Endorse \/ Unendorse \/ HearingOperation \/ PanelOperation \/ GradeOperation

Next ==
  \/ Operation /\ AmendmentAges
  \/ CorrectionOperation

Spec == Init /\ [][Next]_vars

---------------------------------------------------------------------------
(* Properties                                                               *)

Status == {"none", "scheduled", "done", "cancelled", "archived", "deleted"}
Progress == {"locked", "ready", "scheduled", "grading", "revisions", "redefense",
             "passed", "failed"}
PanelScores == [Panelist -> Score \cup {NoScore}]
Grade == [schedule : Hearing \cup {0}, attempt : Nat \ {0}, panel : PanelScores,
          adviser : BOOLEAN, peer : BOOLEAN, verdict : Verdict, cleared : BOOLEAN,
          published : BOOLEAN, closed : BOOLEAN]
Attempt == [schedule : Hearing, attempt : Nat \ {0}, panel : PanelScores, verdict : Verdict]

Amendment == [panelist : Panelist, score : Score \cup {VoidScore}, stale : BOOLEAN]

\* Every value has its type: among others, a voided evaluation is never part of
\* a panel score and no attempt is recorded for a missing hearing.
TypeOK ==
  /\ status \in [Hearing -> Status]
  /\ panelists \in [Hearing -> SUBSET Panelist]
  /\ submission \in [Hearing -> [Panelist -> Evaluation]]
  /\ grade \in Grade
  /\ attempts \in Seq(Attempt)
  /\ progress \in Progress
  /\ {reendorsed, participationOpen, officiallyComplete} \subseteq BOOLEAN
  /\ planned \subseteq Panelist
  /\ requests \subseteq Request
  /\ amendment \subseteq Amendment

\* The attempts in the history are numbered from one without a gap, and the
\* current attempt follows them: no attempt is taken over without its snapshot
\* and none is recorded twice (_snapshot_attempt, get_or_create_for_schedule).
AttemptNumbering ==
  /\ grade.attempt = Len(attempts) + 1
  /\ \A i \in DOMAIN attempts : attempts[i].attempt = i

\* A hearing stands for at most one attempt: once an attempt is in the history
\* its hearing is neither graded nor recorded again, whichever hearing the
\* requests under way name (get_or_create_for_schedule).
SettledHearingNeverReused ==
  /\ \A i \in DOMAIN attempts : attempts[i].schedule # grade.schedule
  /\ \A i, j \in DOMAIN attempts : attempts[i].schedule = attempts[j].schedule => i = j

\* The panel score is empty or made of exactly the live evaluations of the
\* grade's own hearing: evaluations of another hearing, older or concurrent,
\* never leak into it (recompute_panel_score, get_or_create_for_schedule).
PanelScoreCurrent ==
  grade.panel \in {NoPanel, Live(grade.schedule, submission)}

\* An automatic verdict is the one the complete panel gives, now and in the
\* history, whatever is submitted, corrected or voided around it
\* (resolve_outcome, validate_outcome).
VerdictMatchesPanel ==
  Automatic =>
    /\ grade.verdict # "" =>
         /\ EvaluatorsComplete(grade.schedule, submission)
         /\ grade.verdict = IF Qualifies(Live(grade.schedule, submission))
                            THEN "approved" ELSE "for_redefense"
    /\ \A i \in DOMAIN attempts : attempts[i].verdict # "" =>
         attempts[i].verdict = IF Qualifies(attempts[i].panel)
                               THEN "approved" ELSE "for_redefense"

\* A hearing with a verdict is closed for good: it cannot be graded, cancelled,
\* restored or deleted any more (_record_outcome, VALID_TRANSITIONS).
VerdictHearingSettled ==
  /\ grade.verdict # "" => /\ grade.schedule # 0
                           /\ status[grade.schedule] \in {"done", "archived"}
  /\ \A i \in DOMAIN attempts : attempts[i].verdict # "" =>
       status[attempts[i].schedule] \in {"done", "archived"}

\* A published grade is a closed failure, or it is complete in every component,
\* by every evaluator now on the panel, with an outcome that may be published
\* (publish, finalize_for_archive, deletion and roster guards).
PublishedComplete ==
  grade.published =>
    \/ grade.closed
    \/ /\ Ready(grade, submission) /\ GradeComplete(grade)
       /\ Passed(grade) \/ grade.verdict = "failed"

\* A panelist whose evaluation counts is on the panel of that hearing
\* (execute_operation, submit_panelist_grade).
LiveEvaluatorsAssigned ==
  \A h \in Hearing, p \in Panelist : submission[h][p] \in Score => p \in panelists[h]

\* A stage is shown as passed only when an attempt of it has a passing verdict
\* (mark_stage_result).
PassedStageEarned ==
  progress = "passed" =>
    \/ grade.published /\ Passed(grade)
    \/ \E i \in DOMAIN attempts : attempts[i].verdict \in Passing

\* Answering a submission, a retry included, never changes an evaluation that is
\* already recorded, live or voided (submit_panelist_grade).
EvaluationRecordedOnce ==
  [][requests' # requests =>
       \A h \in Hearing, p \in Panelist :
         submission[h][p] # NoScore => submission'[h][p] = submission[h][p]]_vars

\* A finalized failure is final: after the participation closed, no operation
\* moves, reassesses, unpublishes or reopens it (require_open, require_current).
FailureIsFinal ==
  [][~participationOpen =>
       /\ ~participationOpen'
       /\ attempts' = attempts
       /\ \A field \in {"schedule", "attempt", "verdict", "published", "closed"} :
            grade'[field] = grade[field]]_vars

\* A published grade keeps its verdict and stays on its side of the cutoff, or
\* it is superseded by the next attempt and kept in the history as it was
\* (_snapshot_attempt, _perform_change, _check_progression).
PublishedOnlySuperseded ==
  [][grade.published =>
       \/ /\ \A field \in {"schedule", "attempt", "verdict", "published", "closed"} :
               grade'[field] = grade[field]
          /\ Qualifies(grade'.panel) <=> Qualifies(grade.panel)
       \/ /\ grade'.attempt = grade.attempt + 1
          /\ attempts'[grade.attempt].verdict = grade.verdict
          /\ attempts'[grade.attempt].panel = grade.panel]_vars
==============================================================================
