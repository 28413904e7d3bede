---------------------------- MODULE SectionConcepts ----------------------------
(***************************************************************************)
(* The shared system proposals of one section at one Capstone stage        *)
(* (SectionConceptProject and its rounds): the title and the paper of      *)
(* every proposal, the modules each team connects to them (ConceptRound),  *)
(* the hearings of the teams and the one choice their common chair makes.  *)
(*                                                                         *)
(* Writers of the section hold the rows of the project and its round, so   *)
(* each is one step; writers of a team hold that team's row.  Scheduling   *)
(* holds only the team and reads the section without a lock: it is two     *)
(* steps, ReadClearance and Bind, and the team's other writers, and those   *)
(* of the section that lock the teams, wait for the second.                *)
(*                                                                         *)
(* Titles follow the title workflow (version 2); outcomes are automatic    *)
(* and narrow to the selected module; one paper per proposal is the only   *)
(* shared document before the hearing and one final paper after it.  The   *)
(* teams' own files, the panel's composition and the academic part of the  *)
(* hearing belong to DefenseAttempt; here a panel's evaluation of a module *)
(* is complete in one step.  A team that takes the independent route has   *)
(* left the section and is not followed further.                           *)
(***************************************************************************)
EXTENDS Naturals, FiniteSets

CONSTANTS Team, Key, Title,
          NoTitle, NoKey, NoTeam,
          ThreeConcepts, \* the stage asks for three concepts, so a team may
                         \* go on with its own
          MaxRounds,     \* bound: rounds of proposals
          MaxHearings,   \* bound: hearings of a team
          MaxDetours     \* bound: drafts, requests for revision, cancellations

ASSUME SentinelAssumption ==
  NoTitle \notin Title /\ NoKey \notin Key /\ NoTeam \notin Team
ASSUME BoundAssumption ==
  MaxRounds \in Nat \ {0} /\ MaxHearings \in Nat /\ MaxDetours \in Nat
ASSUME RouteAssumption == ThreeConcepts \in BOOLEAN

VARIABLES participants, \* teams with an active link to the project
          left,         \* teams that chose the independent route
          title,        \* SectionSystemConcept by key
          paper,        \* its current proposal paper
          round,        \* the latest SectionConceptRound
          assembled,    \* round.schedules: the hearing of each team, or 0
          module,       \* latest ConceptRound, hearing and grade of each team
          reading,      \* team whose scheduling has read the clearance
          detours       \* bound

sectionVars == <<participants, left, title, paper, round, assembled>>
vars == <<sectionVars, module, reading, detours>>

Passing == {"approved", "approved_with_revisions"}

NewTitle == [text |-> NoTitle, evidence |-> NoTitle, state |-> "draft", version |-> 0]
NewPaper == [state |-> "none", context |-> NoTitle, returned |-> FALSE]
NewRound(n) == [number |-> n, verdict |-> "", selected |-> NoKey, started |-> FALSE,
                clearedFor |-> {}, final |-> "none"]
DraftModule == [state |-> "draft", parent |-> [text |-> NoTitle, version |-> 0]]
NewModule == [concepts |-> [k \in Key |-> DraftModule], required |-> Key, section |-> 0,
              endorsed |-> FALSE, bound |-> FALSE, hearing |-> 0, status |-> "none",
              assessed |-> [k \in Key |-> "none"], outcome |-> "", chosen |-> NoKey,
              direction |-> "", published |-> FALSE]

Detour == detours < MaxDetours /\ detours' = detours + 1

---------------------------------------------------------------------------
(* What is cleared, what may still change                                   *)

\* parent_evidence
Parent(k) == [text |-> title[k].text, version |-> title[k].version]

ModuleAccepted(t, k) ==
  /\ module[t].concepts[k].state = "accepted"
  /\ module[t].concepts[k].parent = Parent(k)

ModulesAccepted(t) == \A k \in module[t].required : ModuleAccepted(t, k)

\* accepted_system, and complete() for the proposal papers.
ProposalAccepted(k) ==
  /\ title[k].state = "accepted"
  /\ paper[k].state = "accepted"
  /\ paper[k].context = title[k].text

\* Mutant: an accepted paper counts whatever became of its title.
ClearedByPapers == \A k \in Key : paper[k].state = "accepted"

\* shared_clearance
SharedClearance ==
  IF round.verdict = "approved_with_revisions"
  THEN round.clearedFor # {} /\ round.clearedFor = participants
  ELSE \A k \in Key : ProposalAccepted(k)

Live(t) == module[t].bound /\ module[t].status # "cancelled"

Editable ==
  /\ round.verdict = ""
  /\ \A t \in participants : module[t].section = round.number => ~Live(t)

\* invalidate(modules=True): the modules not attached to a hearing need a new
\* endorsement.
Invalidated ==
  [t \in Team |->
     IF t \in participants /\ module[t].section = round.number /\ ~module[t].bound
     THEN [module[t] EXCEPT !.endorsed = FALSE] ELSE module[t]]

---------------------------------------------------------------------------
(* Outcomes                                                                 *)

\* concept_keys: the required work narrows to the selected system.
RequiredKeys(m, r) ==
  IF r.selected # NoKey /\ r.verdict # "for_redefense" THEN {r.selected} ELSE m.required

Assessed(m, r) == \A k \in RequiredKeys(m, r) : m.assessed[k] # "none"

NotAssessed == [k \in Key |-> "none"]

\* record_outcome: the next attempt prepares the requested modules again, and
\* the evaluations of this one are history.
NextAttempt(m, requested) ==
  [m EXCEPT !.outcome = "for_redefense", !.status = "done", !.required = requested,
            !.concepts = [k \in Key |-> DraftModule], !.assessed = NotAssessed,
            !.endorsed = FALSE, !.bound = FALSE]

\* Mutant: the approval does not name the module it is for.
ApprovedUnnamed(m, k) == [m EXCEPT !.outcome = "approved", !.status = "done"]

Approved(m, k) ==
  [m EXCEPT !.outcome = "approved", !.chosen = k, !.status = "done"]

\* resolve_outcome
Resolved(m, r) ==
  IF m.outcome # "" \/ ~Assessed(m, r) THEN m
  ELSE IF r.verdict = "for_redefense" THEN NextAttempt(m, m.required)
  ELSE IF r.selected = NoKey THEN m
  ELSE IF m.assessed[r.selected] = "pass"
       THEN Approved(m, r.selected)
       ELSE NextAttempt(m, {r.selected})

\* Mutant: the selection waits for the next evaluation to be applied.
UnresolvedUnder(r) == module

ResolvedUnder(r) ==
  [t \in Team |-> IF t \in participants THEN Resolved(module[t], r) ELSE module[t]]

---------------------------------------------------------------------------
(* Proposals                                                                *)

\* configure: teams are added while the proposals may still change.
Join(t) ==
  /\ t \notin participants \cup left
  /\ Editable
  /\ participants' = participants \cup {t}
  /\ module' = [module EXCEPT ![t].section = round.number]
  /\ UNCHANGED <<left, title, paper, round, assembled, reading, detours>>

Reviewable(k) == Editable /\ title[k].state \in {"submitted", "accepted"}

\* A paper accepted for another title is to be reviewed again.
PaperAfterTitle(k, text) ==
  IF title[k].evidence \notin {NoTitle, text} /\ paper[k].state = "accepted"
  THEN [paper EXCEPT ![k].state = "pending"] ELSE paper

\* system_action: submit_title, with new_review.
SubmitTitle(k, text) ==
  /\ Editable
  /\ title[k].state \in {"draft", "changes_requested"}
  /\ title' = [title EXCEPT ![k] =
       [text |-> text, evidence |-> text, state |-> "submitted",
        version |-> IF @.evidence = text THEN @.version ELSE @.version + 1]]
  /\ paper' = PaperAfterTitle(k, text)
  /\ module' = Invalidated
  /\ UNCHANGED <<participants, left, round, assembled, reading, detours>>

DraftTitle(k, text) ==
  /\ Editable
  /\ title[k].state \in {"draft", "changes_requested"}
  /\ title' = [title EXCEPT ![k].text = text]
  /\ module' = Invalidated
  /\ Detour
  /\ UNCHANGED <<participants, left, paper, round, assembled, reading>>

AcceptTitle(k) ==
  /\ Editable
  /\ title[k].state = "submitted"
  /\ title' = [title EXCEPT ![k].state = "accepted"]
  /\ module' = Invalidated
  /\ UNCHANGED <<participants, left, paper, round, assembled, reading, detours>>

RequestTitleRevision(k) ==
  /\ Reviewable(k)
  /\ title' = [title EXCEPT ![k].state = "changes_requested"]
  /\ module' = Invalidated
  /\ Detour
  /\ UNCHANGED <<participants, left, paper, round, assembled, reading>>

UploadPaper(k) ==
  /\ Reviewable(k)
  /\ paper[k].state # "accepted"
  /\ paper' = [paper EXCEPT ![k] =
       [state |-> "pending", context |-> title[k].text, returned |-> FALSE]]
  /\ UNCHANGED <<participants, left, title, round, assembled, module, reading, detours>>

\* file_acceptance
Acceptable(k) ==
  /\ paper[k].state # "none" /\ ~paper[k].returned
  /\ title[k].state = "accepted" /\ paper[k].context = title[k].text

AcceptPaper(k) ==
  /\ Editable
  /\ Acceptable(k)
  /\ paper' = [paper EXCEPT ![k].state = "accepted"]
  /\ UNCHANGED <<participants, left, title, round, assembled, module, reading, detours>>

\* revise_file: only the paper, or the title with it.
ReturnPaper(k, scope) ==
  /\ Editable
  /\ paper[k].state # "none"
  /\ paper' = [paper EXCEPT ![k].state = "rejected", ![k].returned = TRUE]
  /\ \/ /\ scope = "paper"
        /\ UNCHANGED <<title, module>>
     \/ /\ scope = "title_and_paper"
        /\ title[k].state \in {"submitted", "accepted"}
        /\ title' = [title EXCEPT ![k].state = "changes_requested"]
        /\ module' = Invalidated
  /\ Detour
  /\ UNCHANGED <<participants, left, round, assembled, reading>>

---------------------------------------------------------------------------
(* Modules of a team                                                        *)

\* team_action: the latest round of the team, never attached to a hearing.
Preparing(t) == t \in participants /\ reading # t /\ ~module[t].bound

SetConcept(t, k, concept) ==
  module' = [module EXCEPT ![t].concepts[k] = concept, ![t].endorsed = FALSE]

SubmitModule(t, k) ==
  /\ Preparing(t) /\ k \in module[t].required
  /\ \/ module[t].concepts[k].state \in {"draft", "changes_requested"}
     \/ module[t].concepts[k].parent # Parent(k)
  /\ SetConcept(t, k, [state |-> "submitted", parent |-> Parent(k)])
  /\ UNCHANGED <<sectionVars, reading, detours>>

AcceptModule(t, k) ==
  /\ Preparing(t) /\ k \in module[t].required
  /\ module[t].concepts[k] = [state |-> "submitted", parent |-> Parent(k)]
  /\ SetConcept(t, k, [state |-> "accepted", parent |-> Parent(k)])
  /\ UNCHANGED <<sectionVars, reading, detours>>

ReturnModule(t, k) ==
  /\ Preparing(t) /\ k \in module[t].required
  /\ module[t].concepts[k].state \in {"submitted", "accepted"}
  /\ SetConcept(t, k, [module[t].concepts[k] EXCEPT !.state = "changes_requested"])
  /\ Detour
  /\ UNCHANGED <<sectionVars, reading>>

Endorse(t) ==
  /\ Preparing(t)
  /\ module[t].section = round.number
  /\ ModulesAccepted(t)
  /\ module' = [module EXCEPT ![t].endorsed = TRUE]
  /\ UNCHANGED <<sectionVars, reading, detours>>

---------------------------------------------------------------------------
(* Hearings                                                                 *)

\* clearance_blocker and scheduling_blocker
Schedulable(t) ==
  /\ module[t].section = round.number
  /\ SharedClearance
  /\ ModulesAccepted(t)
  /\ module[t].endorsed

ReadClearance(t) ==
  /\ reading = NoTeam
  /\ t \in participants /\ ~Live(t)
  /\ module[t].hearing < MaxHearings
  /\ Schedulable(t)
  /\ reading' = t
  /\ UNCHANGED <<sectionVars, module, detours>>

\* bind_schedule writes what was read, and the grade starts on the new hearing.
Bind(t) ==
  /\ reading = t
  /\ reading' = NoTeam
  /\ module' = [module EXCEPT ![t].bound = TRUE, ![t].hearing = @ + 1,
                  ![t].status = "scheduled", ![t].outcome = "", ![t].chosen = NoKey,
                  ![t].assessed = NotAssessed, ![t].direction = ""]
  /\ UNCHANGED <<sectionVars, detours>>

Cancel(t) ==
  /\ reading # t
  /\ module[t].bound /\ module[t].status = "scheduled"
  /\ module' = [module EXCEPT ![t].status = "cancelled"]
  /\ Detour
  /\ UNCHANGED <<sectionVars, reading>>

\* A cancelled hearing comes back without any of the checks above; one that
\* was replaced meanwhile has no module round and is left out.
Restore(t) ==
  /\ reading # t
  /\ module[t].status = "cancelled"
  /\ module' = [module EXCEPT ![t].status = "scheduled"]
  /\ UNCHANGED <<sectionVars, reading, detours>>

\* submit_panelist_grade, when it completes the panel's evaluation of module k.
Assess(t, k, result) ==
  /\ reading # t
  /\ t \in participants
  /\ module[t].bound /\ module[t].status = "scheduled"
  /\ k \in RequiredKeys(module[t], round)
  /\ module[t].assessed[k] = "none"
  /\ module' = [module EXCEPT ![t] =
                  Resolved([@ EXCEPT !.assessed[k] = result], round)]
  /\ UNCHANGED <<sectionVars, reading, detours>>

\* publish: passed_and_cleared asks for the shared decision as well.  It waits
\* for the scores of adviser and peers, which belong to DefenseAttempt: here it
\* comes at any time after, by hand or in the step that brings the last score.
PassAllowed == \/ round.verdict = "approved"
               \/ round.verdict = "approved_with_revisions" /\ round.clearedFor # {}

Publish(t) ==
  /\ reading # t
  /\ t \in participants /\ module[t].bound
  /\ module[t].outcome = "approved" /\ PassAllowed
  /\ module' = [module EXCEPT ![t].published = TRUE]
  /\ UNCHANGED <<sectionVars, reading, detours>>

---------------------------------------------------------------------------
(* The choice of the section                                                *)

Assemblable ==
  /\ round.verdict = "" /\ participants # {}
  /\ SharedClearance
  /\ \A t \in participants : /\ Live(t) /\ module[t].section = round.number
                             /\ ModulesAccepted(t)

CurrentHearings == [t \in Team |-> IF t \in participants THEN module[t].hearing ELSE 0]

\* schedule_hearing
Assemble ==
  /\ Assemblable
  /\ assembled # CurrentHearings
  /\ assembled' = CurrentHearings
  /\ UNCHANGED <<participants, left, title, paper, round, module, reading, detours>>

NothingAssembled == \A t \in Team : assembled[t] = 0

\* start_presentation assembles a set nobody assembled; selection_blocker.
Startable ==
  /\ round.verdict = "" /\ participants # {}
  /\ NothingAssembled => Assemblable
  /\ ~NothingAssembled => assembled = CurrentHearings
  /\ SharedClearance
  /\ \A t \in participants : /\ module[t].bound /\ module[t].status = "scheduled"
                             /\ module[t].section = round.number

Start ==
  /\ ~round.started /\ Startable
  /\ round' = [round EXCEPT !.started = TRUE]
  /\ assembled' = CurrentHearings
  /\ UNCHANGED <<participants, left, title, paper, module, reading, detours>>

\* decide, up to the verdict; it locks the teams.
Decidable ==
  /\ reading = NoTeam
  /\ round.verdict = "" /\ participants # {}
  /\ IF round.started
     THEN assembled = CurrentHearings /\ \A t \in participants : Live(t)
     ELSE Startable
  /\ SharedClearance

Select(k, verdict) ==
  /\ Decidable
  /\ LET decided == [round EXCEPT !.started = TRUE, !.verdict = verdict, !.selected = k]
     IN  round' = decided /\ module' = ResolvedUnder(decided)
  /\ assembled' = CurrentHearings
  /\ UNCHANGED <<participants, left, title, paper, reading, detours>>

\* Mutant: the modules stay with the round they were written for.
FollowNoRound(m) == m

\* decide moves the rounds without a hearing to the replacement set.
FollowRound(m) ==
  IF ~m.bound /\ m.section = round.number THEN [m EXCEPT !.section = @ + 1] ELSE m

\* All proposals are rejected: every team has been assessed and prepares again
\* under a new round.
Replace ==
  /\ Decidable
  /\ round.number < MaxRounds
  /\ \A t \in participants :
       module[t].status = "scheduled" /\ Assessed(module[t], round)
  /\ LET rejected == ResolvedUnder([round EXCEPT !.verdict = "for_redefense"])
     IN  module' = [t \in Team |-> IF t \in participants
                                   THEN FollowRound(rejected[t]) ELSE rejected[t]]
  /\ round' = NewRound(round.number + 1)
  /\ title' = [k \in Key |-> NewTitle]
  /\ paper' = [k \in Key |-> NewPaper]
  /\ assembled' = [t \in Team |-> 0]
  /\ UNCHANGED <<participants, left, reading, detours>>

Decided == round.verdict \in Passing

\* Mutant: results already recorded do not hold the selection.
CorrectableAnyway ==
  /\ Decided /\ round.clearedFor = {} /\ round.final = "none"
  /\ assembled = CurrentHearings

\* selection_corrections._unavailable
Correctable ==
  /\ Decided /\ round.clearedFor = {} /\ round.final = "none"
  /\ assembled = CurrentHearings
  /\ \A t \in participants : /\ module[t].bound /\ module[t].status = "scheduled"
                             /\ module[t].outcome = ""

CorrectSelection(k) ==
  /\ reading = NoTeam
  /\ Correctable /\ k # round.selected
  /\ \A t \in participants : k \in module[t].required
  /\ LET corrected == [round EXCEPT !.selected = k]
     IN  round' = corrected /\ module' = ResolvedUnder(corrected)
  /\ UNCHANGED <<participants, left, title, paper, assembled, reading, detours>>

---------------------------------------------------------------------------
(* After the choice                                                         *)

\* redefense_direction.confirm: the chair settles how a team prepares again.
MayChooseDirection(t) ==
  /\ reading # t
  /\ t \in participants /\ Decided
  /\ module[t].section = round.number
  /\ module[t].outcome = "for_redefense" /\ module[t].direction = ""
  /\ ~module[t].bound /\ ~module[t].endorsed

KeepShared(t) ==
  /\ MayChooseDirection(t)
  /\ module' = [module EXCEPT ![t].direction = "shared"]
  /\ UNCHANGED <<sectionVars, reading, detours>>

GoIndependent(t) ==
  /\ MayChooseDirection(t)
  /\ ThreeConcepts
  /\ participants' = participants \ {t}
  /\ left' = left \cup {t}
  /\ module' = [module EXCEPT ![t] = NewModule]
  /\ UNCHANGED <<title, paper, round, assembled, reading, detours>>

\* shared_post_defense_state
FinalOpen ==
  /\ Decided /\ participants # {}
  /\ \A t \in participants : /\ Live(t)
                             /\ module[t].outcome = "approved"
                             /\ module[t].chosen = round.selected

UploadFinal ==
  /\ FinalOpen
  /\ round.final \in {"none", "rejected"}
  /\ round' = [round EXCEPT !.final = "pending"]
  /\ UNCHANGED <<participants, left, title, paper, assembled, module, reading, detours>>

ReturnFinal ==
  /\ FinalOpen
  /\ round.final = "pending"
  /\ round' = [round EXCEPT !.final = "rejected"]
  /\ UNCHANGED <<participants, left, title, paper, assembled, module, reading, detours>>

\* The accepted final paper clears the revisions the panel asked for.
AcceptFinal ==
  /\ FinalOpen /\ reading = NoTeam
  /\ round.final \in {"pending", "rejected"}
  /\ round' = [round EXCEPT !.final = "accepted",
                 !.clearedFor = IF round.verdict = "approved_with_revisions"
                                THEN participants ELSE @]
  /\ UNCHANGED <<participants, left, title, paper, assembled, module, reading, detours>>

---------------------------------------------------------------------------
Init ==
  /\ participants = {} /\ left = {}
  /\ title = [k \in Key |-> NewTitle]
  /\ paper = [k \in Key |-> NewPaper]
  /\ round = NewRound(1)
  /\ assembled = [t \in Team |-> 0]
  /\ module = [t \in Team |-> NewModule]
  /\ reading = NoTeam
  /\ detours = 0

Next ==
  \/ \E t \in Team :
       \/ Join(t) \/ Endorse(t)
       \/ ReadClearance(t) \/ Bind(t) \/ Cancel(t) \/ Restore(t)
       \/ Publish(t) \/ KeepShared(t) \/ GoIndependent(t)
  \/ \E k \in Key :
       \/ \E text \in Title : SubmitTitle(k, text) \/ DraftTitle(k, text)
       \/ AcceptTitle(k) \/ RequestTitleRevision(k)
       \/ UploadPaper(k) \/ AcceptPaper(k)
       \/ \E scope \in {"paper", "title_and_paper"} : ReturnPaper(k, scope)
       \/ \E verdict \in Passing : Select(k, verdict)
       \/ CorrectSelection(k)
  \/ \E t \in Team, k \in Key :
       \/ SubmitModule(t, k) \/ AcceptModule(t, k) \/ ReturnModule(t, k)
       \/ \E result \in {"pass", "fail"} : Assess(t, k, result)
  \/ Assemble \/ Start \/ Replace
  \/ UploadFinal \/ ReturnFinal \/ AcceptFinal

Spec == Init /\ [][Next]_vars

---------------------------------------------------------------------------
TitleState == {"draft", "submitted", "changes_requested", "accepted"}
Text == Title \cup {NoTitle}
Concept == [state : TitleState, parent : [text : Text, version : Nat]]

\* Types, and the fields that go together: a selection belongs to a passing
\* verdict, a chosen module to an approval, a hearing to an attached module.
TypeOK ==
  /\ participants \subseteq Team /\ left \subseteq Team \ participants
  /\ title \in [Key -> [text : Text, evidence : Text, state : TitleState, version : Nat]]
  /\ paper \in [Key -> [state : {"none", "pending", "accepted", "rejected"},
                        context : Text, returned : BOOLEAN]]
  /\ round \in [number : 1..MaxRounds, verdict : Passing \cup {""},
                selected : Key \cup {NoKey}, started : BOOLEAN,
                clearedFor : SUBSET Team,
                final : {"none", "pending", "accepted", "rejected"}]
  /\ assembled \in [Team -> 0..MaxHearings]
  /\ module \in [Team -> [concepts : [Key -> Concept], required : SUBSET Key,
                   section : 0..MaxRounds, endorsed : BOOLEAN, bound : BOOLEAN,
                   hearing : 0..MaxHearings,
                   status : {"none", "scheduled", "cancelled", "done"},
                   assessed : [Key -> {"none", "pass", "fail"}],
                   outcome : {"", "approved", "for_redefense"},
                   chosen : Key \cup {NoKey}, direction : {"", "shared"},
                   published : BOOLEAN]]
  /\ reading \in Team \cup {NoTeam}
  /\ detours \in 0..MaxDetours
  /\ Decided <=> round.selected # NoKey
  /\ \A t \in Team : module[t].outcome = "approved" <=> module[t].chosen # NoKey

\* The chair's choice stands on accepted proposals, and they never change
\* again: every title is accepted, every paper was accepted for that very
\* title.  Titles and papers are edited by the section, hearings come and go
\* by team (editable, shared_clearance, decide).
DecidedOnAcceptedSet == Decided => \A k \in Key : ProposalAccepted(k)

\* A module that waits for nothing but the section's choice has its outcome as
\* soon as there is one, whichever of evaluation, choice and correction of the
\* choice comes last (submit_panelist_grade, decide, correct, resolve_outcome).
ChoiceSettlesModules ==
  Decided => \A t \in participants :
    module[t].bound /\ module[t].status = "scheduled"
      => module[t].assessed[round.selected] = "none"

\* An approved module is the one of the section's system and qualified; it is
\* published only when the shared system has passed as well, and a correction
\* of the choice never strands it (correct, resolve_outcome, module_pass_allowed).
ApprovedForSelection ==
  \A t \in participants :
    /\ module[t].outcome = "approved" =>
         Decided /\ module[t].chosen = round.selected
                 /\ module[t].assessed[round.selected] = "pass"
    /\ module[t].published => module[t].outcome = "approved" /\ PassAllowed

\* Every participating team prepares under the latest proposals: a section
\* that replaces them takes all teams along (decide, record_outcome).
ModulesFollowRound ==
  \A t \in participants : module[t].section = round.number
=============================================================================
