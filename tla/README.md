# DefenSYS in TLA+

DefenSYS runs the defenses of a college's capstone and PIT projects: terms,
teams, schedules, panels, grades, verdicts, deliverables and archives.  This
directory holds TLA+ specifications of its transactional core, TLC models that
check them on small instances, and TLAPS proofs of theorems about them.  All
paths below are under `src/backend/modules/` unless they start with `src/`.

## The system

A Django REST backend over PostgreSQL serves a Flutter client.  The client
holds no authoritative data: what it shows is a copy fetched earlier, and
every write is a request that carries that copy's tokens (an evaluation
context, a schedule revision, a review token, a signed preview).  What it does
hold is its session and its websocket, and both are concurrent programs of
their own.  Transactions run at READ COMMITTED; a handler is serialised with
another one only from the moment both wait for the same `select_for_update`
row.  Rows are locked in the order term, team, schedule, grade.  A value read
before the lock may be stale when the lock is granted; some handlers (minutes,
scheduling against a section's clearance, the settings of a group) never lock
what they read.  Notifications and realtime broadcasts happen on commit and
never feed back into the state.

How the modelled parts meet: activation of a term closes the term rows and
participations a failure or a completion ended (`CapstoneTerms`); the term it
makes active is what an instructor's request has read (`InstructorAssignments`).
The concept rounds of a section clear its teams for a hearing and decide, with
the panels' results, which module is approved (`SectionConcepts`); the calendar
places the hearings and keeps people and rooms apart (`DefenseCalendar`); at
each hearing the attempt collects evaluations, gets its outcome and publishes
(`DefenseAttempt`), while the minutes are signed or amended
(`DefenseMinutes`).  Everything reaches the server through the client's session
(`ClientSession`) and comes back through its websocket (`RealtimeSync`).

### Inventory

| Part | State it keeps | Operations | What must hold |
|---|---|---|---|
| Grades and verdicts (`grading/grades`) | one `TeamGrade` per team and stage: attempt number, schedule, panel / adviser / peer scores, final grade, status, verdict, clearance; panelist and peer submissions; attempt history; corrections | submit scores, resolve or record the outcome, correct, archive a hearing, publish, close a stage | a published grade is complete and agrees with its hearing; a hearing's evaluations never leak into the next one; a closed failure stays closed; whatever is waiting for a verdict gets one |
| Schedules (`defense/scheduler`) | `DefenseSchedule`: status, revision, panel, chair, documenter, time; drafts of evaluations | create, operate in bulk, change status, delete | a panelist whose evaluation counts is not removed; stale screens cannot overwrite; done hearings stay done |
| Terms (`academic_period_management`) | `Semester.is_active`, activation log, activation preview | create, preview, switch the active term | one active term, a request takes effect once, a stale preview is refused |
| Capstone participation (`student_teams/participation.py`, `capstone_lifecycle.py`) | `StudentCapstoneParticipation` per student and intake, placements with teams, a team's row per term | confirm roster, close, move with the team, finalise failure | intakes numbered without gaps, at most one open placement per student, a failed one is never reopened |
| Stage progress (`student_teams/services.py`, `defense/scheduler/progress.py`) | `ready_for_stage`, current stage, progress per stage | mark ready, scheduled, result | the stage advances only through a cleared result |
| Endorsement (`repository/deliverables`) | deliverable rows, endorsement, hearing snapshot | submit files, review and endorse | what is endorsed is what was reviewed |
| Concepts (`repository/section_concepts`, `repository/deliverables/concepts.py`) | concept rounds, selections, redefense direction | submit, select, correct a selection | one adopted concept, reassessment concerns only the chosen one |
| Titles and archive (`repository/title_workflow`, `repository/project_archive`) | title proposals, project versions, archive entries | propose, approve, archive | an archived project is final |
| Section instructors (`user_management/instructor_assignments.py`) | `SectionInstructorAssignment` rows | assign, replace, remove, restore, move | one active instructor per section, closed terms read-only |
| Panelist eligibility (`user_management/panelist_eligibility.py`) | `User.is_panelist`, nomination requests | nominate, review, approve through a schedule or a role edit | an approved faculty member has no pending nomination; a reviewed one is final |
| External evaluators (`user_management/external_evaluators.py`) | invitations, access | invite, accept, revoke | access ends with the schedule |
| Minutes (`defense/minutes`) | minutes, signatures, amendments | record, sign, amend | a signed version is retained, an amended one is signed anew |
| Peer evaluation (`grading/grades/peer_eval.py`) | per pair of students | submit, summarise | one vote per pair and hearing |
| Accounts, password reset (`authentication_access_control`) | users, reset tokens, attempt counters | log in, request and confirm a reset | a token works once |
| Notifications, SMS, realtime | rows, outbox | send on commit | out of band |
| Weekly progress, reports, dashboards | read models | | read only |
| Flutter client (`src/frontend`) | the session: stored and in-memory tokens, one shared refresh, logout and expiry flags; the websocket: channel, subscription, timers | call, refresh, log in and out, restore, connect, retry, poll | no stored token that is out of use, every call and logout ends, a student's link comes back |
| Capstone planning (`defense/scheduler/capstone_planning.py`, `sessions.py`, `operations.py`) | continuing rosters and batches with revisions and idempotency keys; reservations | save people, preview and confirm a plan, operate on selected hearings | nobody in two places, nobody scheduled twice, nothing unseen overwritten |


## Modules

| Module | What it is |
|---|---|
| `DefenseAttempt` | one Capstone team at one stage of one term: hearings, panels, evaluations, the grade row, its history, stage progress, completion of the stage, corrections |
| `MCDefenseAttempt` | symmetry of the panelists for TLC |
| `DefenseAttemptClaims` | what the code says of an attempt and `DefenseAttempt` does not keep |
| `DefenseAttemptProofs` | types, attempts, evaluations and the finality of a failure, proved |
| `DefenseVerdictProofs` | what a verdict and a published grade are worth, proved on top of it |
| `DefenseCalendar`, `MCDefenseCalendar`, `DefenseCalendarProofs` | the hearings of several teams on one calendar: creation, signed plan, operations from old screens, the board, rosters, advisers |
| `DefenseMinutes` | the minutes of one hearing under concurrent signing and amendment |
| `TermHistory` | abstract: one active term and the log that explains it |
| `CapstoneJourneys` | abstract: a student's numbered intakes and their outcomes |
| `CapstoneTerms`, `MCCapstoneTerms`, `CapstoneTermsProofs` | terms with previews and retried activations, teams, term rows, participations and placements; implements the two abstract modules |
| `SectionConcepts`, `MCSectionConcepts`, `SectionConceptsProofs` | the shared proposals of a section, the modules of its teams and the one choice |
| `ClientSession`, `MCClientSession`, `ClientSessionProofs` | the client's session against rotating refresh tokens |
| `RealtimeSync`, `MCRealtimeSync`, `RealtimeSyncProofs` | the client's websocket, its retries and its fallback |
| `InstructorAssignments`, `MCInstructorAssignments`, `InstructorAssignmentsProofs` | section instructors, the race with the switch of the term, and the proofs of the two uniqueness rules |

### DefenseAttempt

Variables and what they stand for:

| Variable | Code |
|---|---|
| `status[h]`, `panelists[h]` | `DefenseSchedule.status` (and "none", "deleted" for rows that are not there), `panel_assignments`; the number of a hearing is its creation order |
| `submission[h][p]` | `PanelistGradeSubmission`: no row, a voided one, or its percentage |
| `grade` | the `TeamGrade` row of the team and stage; `panel` keeps the evaluations behind `panel_score`, `adviser` and `peer` say that the component is in, `closed` is a failure closed with the stage |
| `attempts` | `GradeAttemptHistory`, oldest first |
| `progress`, `reendorsed` | `TeamStageProgress.status`; `ready_at` later than `verdict_at` |
| `participationOpen` | the participation of the term has no `closed_at` |
| `officiallyComplete` | `StageGradingConfig.is_officially_complete` |
| `planned` | a request to create a hearing between `is_valid` and `create` |
| `requests` | panelists' submissions between their three transactions |
| `amendment` | the pending `GradeCorrection` of a protected grade |

Every writer takes the row lock of the team first, so from that lock to its
commit it is one action, with everything it calls: `RecordOutcome` finishes the
hearing, resets the endorsement date, publishes when the stage is already
complete and applies the result to the progress and the participation;
`Schedule` also moves the grade row.  What a handler does in transactions of
its own, or reads before the lock, is a separate step: `Read`, `Open` and
`Submit` of a panelist's submission (`defense/scheduler/views.py:737-817`),
`ValidateHearing` and `CreateHearing` (`serializers.py:1113-1255`), and
`OpenByVerdict`, which moves the grade row before the verdict is checked
(`views.py:1455`).  Between them anything may happen, and `Abandon` and
`RefuseHearing` end a request at any point: the process died, the client gave
up, or the handler refused.

`AmendmentAges` is conjoined to every other operation because a pending
correction is compared with a snapshot of the grade when it is reviewed.

What is abstracted, and in which direction:

- A percentage is a member of `Score`; the weighted total is not computed.
  Under the manual policy the total reaches the passing total exactly when the
  panel mean does.
- The tokens a request carries (evaluation context, schedule revision, review
  token) are left out: the model accepts requests the code would refuse as
  stale, so a safety property that holds here holds with the tokens.  The code
  lets a panelist's request omit its context (`panelist_evaluation.py:62`), so
  the counterexamples below do not depend on the omission.
- The day of the hearing has come, files, minutes and signatures are in, and
  verification of revisions is not requested.  Each of them is only a guard.
- Evaluators are faculty; guests, aggregate overrides, individual and
  per-concept scores, pause and postponement, and the repair of the grade
  center (`GradeCenterSync`) are left out.  So is the later call to
  `get_or_create_for_schedule` by concept rounds.
- `ready_for_stage` mirrors the progress row and is folded into it.  Closing a
  participation and finalizing a Capstone failure are one flag.
- A hearing that is scheduled cannot be set to done by hand before its verdict,
  and with the verdict it is done already; this transition is no action.
- One correction is pending at a time.

### InstructorAssignments

`rows` is the table, `seen[w]` what request `w` read in `_current_period`
before it got the lock of the term.  `SwitchTerm` is the activation of another
term, `ToggleAccount` the account switch; both may come between the read and
the write.  The two unique constraints of the table are left out on purpose:
the properties say that the code never runs into them.

### CapstoneTerms, TermHistory, CapstoneJourneys

Terms are consecutive regular semesters; an odd one takes in Capstone 1, the
even one after it is Capstone 2.  `terms`, `active` and `log` are the
`Semester` rows, `is_active` and `SemesterTransitionLog`; `teams`, `termRow`,
`participations` and `placements` are `StudentTeam`, `TeamTermParticipation`,
`StudentCapstoneParticipation` and `StudentCapstonePlacement`; `requests` are
the transition dialogs of the screens, each with the preview it was opened on.
Every writer first locks all terms, so each is one step; the unreliable part is
outside: a dialog's answer may be lost, the dialog be sent again at any later
time with the same `request_id`, by a screen whose preview is old.
`RevisionMatches` compares the revision of the preview with the cohort as it
is, `Replayed` finds the log entry of a repeated request.

Refinement: `TermsExplained` maps `active` and `log` to `TermHistory`, so a
replayed or refused request is a stutter and every other one a recorded
activation.  `ParticipationsFollow` maps the latest participation of each
student to `CapstoneJourneys`: intakes numbered from one, the next one only
after a failure and in a later term, outcomes never taken back.

Left out: dates and school years, PIT teams, formation, continuation sections.
Documents and results of a team are one flag each, as far as the transition
reads them.

### SectionConcepts

`title` and `paper` are the section's `SectionSystemConcept` rows and their
current paper, `round` the latest `SectionConceptRound`, `assembled` its
hearings; `module[t]` gathers the team's latest `ConceptRound`, hearing and
grade.  Writers of the section lock project and round, writers of a team lock
the team; scheduling locks only the team and reads the section's clearance
before, so `ReadClearance` and `Bind` are two steps and anything of the section
may come between.  `Select`, `Replace` and `CorrectSelection` are the whole
handlers `decide` and `correct`, with the outcomes they resolve.

Abstractions: a panel's evaluation of a module is complete in one step;
endorsement is one step although it reads the section unlocked; one paper per
proposal and one final paper stand for the shared documents; the evaluations
of a next attempt start empty; a team on the independent route is not followed.

### DefenseCalendar

`hearings` are the `DefenseSchedule` rows by id, `people` the
`CapstonePeopleAssignment` with its revision, `screen` what an administrator's
dialog has read, `token` the signed preview of a plan, `batches` the confirmed
plans by idempotency key.  Everything that writes takes the lock of all terms
(`lock_calendar_resources`, `execute_operation`), except the board's
transitions, which take the team's: each is one step, and what is old is what
`screen` and `token` hold.  `Operate(request, continuing)` is
`execute_operation` with the fields of the request put into every selected
hearing and, if asked for, into the continuing rosters; `Confirm` replays `build_plan` under the locks and compares.
`FreeFrom` and `Slots` are the allocation itself, and `PlanTakesEarliest`
compares it with a definition that knows no cursor.

Abstractions: one day with one window, equal durations, no gap, no excluded
dates and no overrides; external evaluators count as panelists, the chair is
left out; one kind of field per operation; done means that the stage is passed;
the eight hours after which a preview expires are a refusal; what `validate`
asks before the locks is folded into the recheck where the recheck repeats it.
`origin` is a history variable: it says whether the hearing's place was
created, restored by an operation or restored by the board.

### DefenseMinutes

`minutes` is the row, `retained` the `DefenseMinutesRevision` rows, `requests`
what each handler has read.  The three signing handlers and the editing of
comments read the hearing and the row, check, and save later, without a lock;
`SaveSigning` writes every column as it was read.  The amendment
(`operations.py:430-529`) is one step.  A signature is kept as the version of
the hearing that its signer saw.

### ClientSession

`token` is what the server knows of each refresh token, `store` the token in
the device's store, `access` the one in memory; `completer` and `flight` are
`_refreshCompleter` and the refreshes under way, `call` and `logout` where each
call and the logout stand.  A step runs from one await to the next; answers of
the server come in any order or never, and a reload may come at any time.

Abstractions: the age of an access token and a 401 are nondeterministic; an
expired refresh token is a lost one; tokens are renumbered by age; the profile
fetch only makes a refresh longer; awaits of the local store are not
interleaved; accounts are not told apart, and guests are left out.

### RealtimeSync

The fields of the notifier are variables of their own; `attempt` is where each
`_connectInternal` or timer callback is suspended, `socket` and `live` what the
library and the network hold.  `Settle` is the moment from which the network
and the user stay quiet.

## Runs

| Run | Bounds | States | What it shows |
|---|---|---|---|
| `instructors` | 2 terms, 2 faculty, 2 sections, 2 requests, 3 rows | 205,254 | one instructor per section, one row per instructor and section |
| `attempt_automatic` | 2 panelists, scores {1, 3} around the cutoff 2, 2 hearings, 2 submissions under way | 1,586,613 | with automatic outcomes: numbering of attempts, no hearing used twice, evaluations never in another attempt, verdicts settle their hearing, a pass earned, evaluations recorded once, a failure final |
| `attempt_manual` | same, 1 submission under way, the adviser's component required | 2,081,090 | the chair's verdicts, revisions and clearance: complete publication, history of what was published |
| `attempt_corrections` | same, automatic outcomes, corrections on | 1,667,865 | corrections and voids, direct or waiting for a second administrator, never turn a verdict over |
| `terms` | 2 students, 2 teams, 3 terms, 4 activations, one screen with 2 dialogs | 613,282 | an activation takes effect once and moves what was reviewed, one placement per student, closed rows final; the two refinements |
| `section_concepts` | 2 teams, 2 proposals, 2 titles, 2 rounds, 2 hearings, 1 detour | 764,501 | the choice stands on an accepted set, settles every module that waits for it, no approval with another system, no team left behind |
| `calendar` | 2 teams, 2 people, 2 rooms, 2 hearings, a day of 4 with hearings of 2, 4 writes | 182,267 | collisions come only from the board, nobody scheduled twice, plans take the earliest place, operations overwrite nothing unseen |
| `session` | 2 calls, 1 timer, the restoration, 4 tokens at once | 66,427 | no stored token out of use; calls, restoration and logout end |
| `realtime` | 3 attempts or callbacks, 6 sockets, 3 changes of the account | 81,498 | a student's retry is never lost; after the last disturbance the link is up for good |
| `instructors_history`, `claim_CompletePanelResolved`, `minutes` | small | stop at the counterexample | statements of the code that it does not keep, below |

Why the bounds are enough.  *Attempt*: two panelists are the smallest panel
that can be incomplete, disagree, and lose or gain a member; the scores 1 and 3
give means below, on and above the cutoff.  With two hearings an attempt can be
superseded, an older hearing be restored, deleted or named by a late request,
and two hearings be scheduled at once; a third would repeat the second step of
the history.  Two submissions under way let one overtake the other in each of
their three transactions.  *Terms*: three terms hold an intake, its second
semester and the next intake, so a student can fail and return; four
activations allow going back and forth; two dialogs of one screen are an old
request and a new one.  *Concepts*: two teams are ahead of and behind each
other, two proposals a choice and its alternative, two rounds a replacement.
*Calendar*: starts 0, 1, 2 with duration 2 overlap partly, wholly, or touch;
four writes are two hearings, a cancellation and what follows from an old screen
or plan.  *Session and websocket*: one more call or attempt than can hold the
shared refresh or the channel.

Permutations of interchangeable values are declared as symmetry where no
liveness property is checked.  The symmetry in `terms` is used with two
refinements that have no fairness, so they are checked as safety.  `calendar`
has a constraint, `ScreenMaySave`: a screen whose revisions are out of date can
only be closed, and closing it leads to a state that is reached without it, so
such states are checked and not followed.

Deadlock is checked in the attempt and instructor runs, where an operation is
always possible.  In the others the bounded system may stop: the last
activation, write, round or change of account has been used up.

**Fairness.** `ClientSession!Spec` assumes weak fairness of the steps of each
refresh, each call and the logout: Dart's event loop resumes a callback whose
await has ended, and a request is answered or fails.  The code sets no HTTP
timeout, so the second half is an assumption on the platform's network stack;
nothing is assumed of answers being good, of the user, or of reloads
(`RestorationEnds` excepts a user who reloads for ever).  `RealtimeSync!Spec`
assumes weak fairness of the suspended attempts, the timer and the `onDone`
callback, and `Settle` that from some moment on the network and the user stay
quiet.  Handshakes are then shorter than the shortest retry delay of one
second; a slower one would be closed by its own retry again and again.  The
server's modules have safety and action properties only: nothing in the code
makes an administrator or a panelist act.

## What the code says and does not keep

Each run refutes one statement of the code; `PROJECT.json` quotes it.

- `instructors_history`.  A request reads the active term and waits for its
  lock; meanwhile the active term is switched.  It then writes rows of the
  term that is now history ("Historical instructor assignments are
  read-only").
- `claim_CompletePanelResolved`.  One of two panelists submits, the other is
  replaced by nobody.  The panel is complete and nothing resolves the outcome:
  every panelist has submitted, the chair's verdict is refused for automatic
  hearings, and a concept can be chosen only among two that qualify.
- `minutes`.  The documenter has signed; the adviser's request has read the row
  and passed its check.  An administrator amends the hearing: the signed
  version is retained and the row starts again.  The adviser's request then
  saves the row as it was: the documenter's old signature and the adviser's new
  one stand over a hearing they were not given for ("restart its signatures").

Observations, visible in the models or met while writing them, without a run of
their own:

*Attempt.*  A restored hearing starts a re-defense attempt without the fresh
endorsement the workflow asks for (`defense_workflow.py:123`) and may stand
beside a newer active hearing; a verdict recorded for a cancelled first hearing
starts a new attempt, and the published grade is pending again, before the
verdict is refused; a hearing may be restored, or created from a request
validated before, after the participation was finalized as failed; a submission
opened for an earlier hearing is recorded there when the request carries no
evaluation context (`panelist_evaluation.py:62`); a partly graded, cancelled
hearing goes into the history without a verdict
(`grading/grades/models.py:682`); under the manual policy a hearing archived
before its grade is published can never be published.

*Calendar.*  A restoration by the board looks at no room, person, adviser,
duplicate or revision; one by an operation looks at all of them except the
duplicate.  Creation rechecks the panel against the adviser of the moment, not
the documenter, and `adviser_assignment_conflict` does not look at the
documenter either, so an adviser may come to document the own team's hearing.
Publication and reconciliation set a hearing to done without a new revision,
which no operation can misuse, because it refuses done hearings.

*Minutes.*  A second, slower submission or adviser signature overwrites a
completed row, and its signatures and document are lost; comments may change
after submission when a draft edit is under way; a submission under way saves
over a draft that an amendment has just refreshed.

*Terms.*  A student removed from a roster keeps an active participation
without a placement and can join no later intake.  A row closed as needs_review
stays so when its participation fails or completes later; its team may be moved
on by a second switch after switching back.  A repeated activation without a
`request_id` over an empty cohort is applied again.

*Concepts.*  A title or paper returned between the reading of the clearance and
the attachment of the module leaves a hearing on an uncleared round, and the
proposals stay closed until all hearings are cancelled.  An assembled hearing
that is cancelled, whose title is revised, and that is restored is not checked
for its modules' acceptance again.  A choice approved with revisions together
with a failing team kept on the shared route leaves both waiting unless the
independent route is allowed.

*Client.*  A refresh under way at logout writes its tokens back; the timers use
the token the shared refresh is about to rotate, and the loser signs out; any
failed refresh signs out; the server checks and then blacklists, so two
concurrent refreshes may both be granted; an answer that arrives after another
account has signed in overwrites its session.  A socket whose handshake ends
after sign-out stays live, two listeners may be live at once, staff clients
never reconnect, and a reconnection does not fetch the events that were missed.

*Locks.*  Some handlers lock in another order than the one stated at
`redefense_direction.py:172`: `shared_deliverables.lock_profile` (712-728) and
`section_concepts.services.review` against `decide` (940-950), `clear_revisions`
(746), `correct` (143) and the confirmation of a direction (180-181);
`complete_group` (`grades/services.py:2661-2697`) against the creation of a
hearing (`serializers.py:1121-1132`).  PostgreSQL would abort one of two such
requests; no model covers it yet.

## Proofs

Every safety property that a passing run checks, invariant, action property or
refinement, is also a theorem, proved for every value of the constants.  The
theorem about `P` is called `PAlways`.  Each module is proved from an invariant
that was first checked by TLC on the instance of its run; what follows says why
the invariant is stronger than the properties.

The assumptions are the named ones of the modules.  Bounds, scores and the
cutoff are natural numbers; `NoScore`, `NoTerm`, `NoKey` and the like are no
members of the sets they complete; policies are Boolean; a hearing fits into
the day.  Two say that an abstraction has room enough: `EnoughTokens`, that
`ClientSession` may number one token for each timer, one for the restoration or
the shared refresh, one for a logout and a newest one, of finitely many timers;
and `EnoughSockets`, that a finite set of sockets exceeds the changes of the
authentication state.  The code numbers nothing and opens as many sockets as it
likes, and the type theorems of both modules show that the numbers and the
sockets suffice for any number of rotations and reconnections.

**InstructorAssignments.** `IInv == TypeOK /\ SingleOwner /\ UniqueAssignment`
is inductive.  Neither uniqueness rule is inductive alone with the types: a
restored row cannot clash with the owner because the slot is checked, and a
moved row cannot duplicate because every other row of the instructor is looked
up, retired ones included.

**DefenseAttempt** (`DefenseAttemptProofs`). `DefenseInvariant` proves `IInv ==
Core /\ amendment \subseteq Amendment`.  `Core` is the types,
`AttemptNumbering`, `SettledHearingNeverReused`, `PanelScoreCurrent`,
`LiveEvaluatorsAssigned` and two facts needed for induction: a hearing that was
never created has no panel (`FreshHearings`, so nobody has evaluated it), and
only a published grade closes the participation (`ClosedPublished`, so
`FailureIsFinal` survives the operations that may touch an unpublished grade).
A grade that was never scored may move to another hearing without a snapshot:
for that case `PanelScoreCurrent` needs the empty panel as its alternative.
`OpenGrade`, the one place where an attempt ends, has a lemma of its own
(`OpenGradeKeeps`); the operations that leave grade and evaluations alone share
`QuietKeeps`, those that only change the grade share `GradeStep`.

*Verdicts* (`DefenseVerdictProofs`).  `VInv` adds `VerdictHearingSettled`,
`VerdictMatchesPanel` and `VerdictPanelCurrent`: with an automatic verdict the
panel score is the current one.  Without the last, the verdict that goes into
the history could disagree with the score that goes with it.  Every step either
keeps verdict, panel and evaluations (`VerdictKept`), records a new outcome,
starts the next attempt, or is a correction that `_check_progression` accepted.

*Publication* (same module).  `PInv` is `PublishedComplete`,
`PassedStageEarned` and `ClosedDecided`: only a grade with an automatic verdict
is ever closed.  A published grade therefore has a verdict and a hearing
(`PublishedHasVerdict`), so whatever moves it to another hearing starts an
attempt and takes the snapshot (`OpenGradePublished`).  A correction of a
published grade cannot void, so the panel stays complete, and
`_check_progression` keeps it on its side of the cutoff: under the automatic
policy because the verdict is compared with the panel, under the manual one
because the completed total is (`CorrectPublished`).

**CapstoneTerms.** `TypeInv` adds that an open dialog has an identity not used
up and that a team is in its intake's term or one later; `TermsExplained`,
`EffectOnce`, `ClosedRowsFinal` and `MovedAsReviewed` follow from it step by
step.  `CohortInv` carries the students: participations of a student are
ordered by number and intake alike (`OrderedIn`) and numbered without a gap
(`NumberedIn`), an open placement belongs to an active participation of its
intake (`OpenIsActive`), `SinglePlacement` and `RosterPlaced`.  The order is
what makes the latest participation unique, which the mapping of
`ParticipationsFollow` chooses; that it exists is shown by taking the least
element of a set of numbers.  The two refinements have no fairness; each step of
`CapstoneTerms` is shown to be a step of the abstract module or a stutter.

**SectionConcepts.** `IInv` splits each module of a team into what holds of it
alone (`Good`: an outcome ends its hearing, an approval names its module, only
an attached hearing has evaluations) and what holds of it under the section's
round (`Fits`: it follows the latest round, nothing that waits only for the
choice is unsettled, an approval is for the selection and qualified).
`ReadingOk` covers scheduling that read the clearance before the lock: the
module it is about to attach is still free.  `DecidedOnAcceptedSet` goes with
them.

**DefenseCalendar.** Four invariants over the types.  `TokenPlanned`: a signed
plan is about a queue.  `Unseen`: a hearing or a roster that differs from what
the screen holds has a higher revision, or it was settled, and no operation
accepts a settled one; `ActedOnWhatWasSeen` is read off.  `BatchesUsed`: a
hearing made by a plan has its key recorded, so a repeated confirmation adds
none.  `AdvisersOff` and `Apart`: places that were checked, those not restored
by the board, hold no conflict; of a plan this needs that its hearings are apart
from the calendar and from each other, whatever `Slots` is.  `FreeFrom` and
`Slots` are recursive functions: that such functions exist is proved by a least
counterexample, and then that the cursor finds the earliest free place
(`PlanTakesEarliest`).

**ClientSession.** `StoredTokenUsable` is inductive with `Quiet` (nothing but
the restoration runs while restoring), `StartupRestores`, `OneLeader` (a call
that refreshes holds the completer) and `LogoutOpened` (a logout posts a token
only from the session's own store, and the store stays its own until the logout
clears it).  `OneLeader` and `Quiet` also bound the tokens under way
(`FewHeld`), on which the numbering of the tokens rests (`AgedTyped`).

**RealtimeSync.** `StudentCovered` is inductive with the types once these
include that a handshake's socket was never listened to.  That a fresh socket
is left follows from `StrandsBounded`: listeners that were never cancelled,
suspended attempts and a pending timer turn into one another, and only a change
of the authentication state begins a new one.  It is a theorem and the property
of no run.

`LiveEvaluatorsAssigned` has no run of its own either: its theorem is the
stronger statement and other theorems use it.  Corrections under the manual
policy are covered by the proofs and not by a run.

Model-checked only: the liveness properties (`CallsEnd`, `RestorationEnds`,
`LogoutEnds`, `StudentReconnects`), because liveness under fairness and ENABLED
are out of the prover's reach; and the three runs that end in a
counterexample.  No module uses a RECURSIVE operator.  The mean of a panel is a
fold of the community modules, whose value no proof needs: two panels are only
compared through `Qualifies`.

## Plan

Done: the attempt, instructors, terms and participations with their
refinements, the schedule operations, the section's concepts, minutes, the
client's session and websocket with liveness; the proofs of all safety
properties.  Next, in this order:

1. An abstract attempt log (attempts begin, get one outcome, are superseded)
   that `DefenseAttempt` implements, with its refinement theorem.
2. The invariants of the minutes that survive the unlocked handlers, proved
   next to the statement that does not.
3. The lock order of term, team, section, schedule and grade, as a module whose
   deadlocks are the inversions listed above.
4. The unlocked read of the grading configuration (`services.py:2899`) with
   several teams of one group.
5. Panelist eligibility, external evaluators and their access, password reset,
   deliverables with endorsement rounds.

## Not modelled

The parts of the inventory without a module are planned above or left out:
notifications and SMS (sent on commit, never read back), reports and
dashboards (read only), curriculum analytics and the project archive (derived
data and a linear workflow), role flags (single rows), configuration locks
(predicates over rows), weekly progress (a per-team report workflow), PIT
events (grades without a verdict), and the screens of the client (their
requests are the inputs the modules choose).  `PROJECT.json` gives the reason
for each.  Most of the repository's lines are of these kinds: serializers and
views that format what others decide, generated sample data, and Flutter
widgets have no state whose interleavings a model could explore, so the mapped
lines are a small share of the whole and most of its transactional core.
