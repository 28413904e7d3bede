---------------------------- MODULE CapstoneTerms ----------------------------
(***************************************************************************)
(* Terms, and the Capstone cohort that lives in them: activation of a term  *)
(* from a reviewed preview, requests that are retried when their answer is  *)
(* lost, the teams' records per term, and the students' participations and  *)
(* placements (academic_period_management/services.py, student_teams/       *)
(* capstone_lifecycle.py, participation.py, serializers.py, deletion.py).   *)
(*                                                                          *)
(* Terms are consecutive regular semesters: an odd one is a 2nd Semester    *)
(* (Capstone 1 intake), the even one after it the 1st Semester of the next  *)
(* school year (Capstone 2).  Every writer below first takes the lock of    *)
(* all periods, so each is one atomic step; what comes before that lock is  *)
(* the preview an administrator looked at.                                  *)
(***************************************************************************)
EXTENDS Naturals, Sequences, FiniteSets

CONSTANTS Student, Team,
          Request,    \* screens that open transition dialogs
          NoRequest,  \* no screen: an activation without a request_id
          MaxDialog,  \* bound: dialogs that a screen opens
          MaxTerm,    \* bound: regular semesters 1 .. MaxTerm
          MaxLog      \* bound: activations

ASSUME RequestAssumption == NoRequest \notin Request
ASSUME BoundAssumption == MaxTerm \in Nat /\ MaxLog \in Nat /\ MaxDialog \in Nat

NoTerm == 0
Identity == (Request \X (1 .. MaxDialog)) \cup {<<NoRequest, 0>>}
Term == 1 .. MaxTerm
IntakeTerm(t) == t % 2 = 1

VARIABLES terms,    \* the Semester rows
          active,   \* Semester.is_active, unique
          log,      \* SemesterTransitionLog, oldest first
          teams,    \* StudentTeam rows, or NoTeam
          termRow,  \* TeamTermParticipation of a team and a term
          participations, placements,
          requests  \* dialogs: what was previewed and how it was decided

cohortVars == <<teams, termRow, participations, placements>>
vars == <<terms, active, log, teams, termRow, participations, placements, requests>>

\* A row is open, or closed with the outcome open (moved on), failed,
\* completed or needs_review.
RowState == {"none", "open", "moved", "failed", "completed", "needs_review"}
Result == {"none", "passed", "cleared", "failed"}
NoTeam == [term |-> NoTerm, intake |-> NoTerm, members |-> {}, result |-> "none"]
TeamRow == [term : Term, intake : Term, members : SUBSET Student, result : Result]
            \cup {NoTeam}
Participation == [student : Student, intake : Term, number : Nat,
                  state : {"active", "failed", "completed"}]
Placement == [student : Student, intake : Term, team : Team, open : BOOLEAN]
LogEntry == [from : Term \cup {NoTerm}, to : Term, request : Identity]
ReviewOutcome == {"absent", "moved", "failed", "completed", "needs_review"}
Dialog == [number : 1 .. MaxDialog + 1, open : BOOLEAN, creates : BOOLEAN,
           target : Term \cup {NoTerm}, forced : BOOLEAN, source : Term \cup {NoTerm},
           review : [Team -> ReviewOutcome], current : BOOLEAN]
NoReview == [team \in Team |-> "absent"]
Idle(n) == [number |-> n, open |-> FALSE, creates |-> FALSE, target |-> NoTerm,
            forced |-> FALSE, source |-> NoTerm, review |-> NoReview, current |-> FALSE]

Closed(team, t) == termRow[team][t] \notin {"none", "open"}
Cohort(t) == {team \in Team : teams[team].term = t /\ t # NoTerm}

Init == /\ terms = {}
        /\ active = NoTerm
        /\ log = <<>>
        /\ teams = [team \in Team |-> NoTeam]
        /\ termRow = [team \in Team |-> [t \in Term |-> "none"]]
        /\ participations = {}
        /\ placements = {}
        /\ requests = [r \in Request |-> Idle(1)]

------------------------------------------------------------------------------
\* transition_kind
Continues(s, t) == s # NoTerm /\ IntakeTerm(s) /\ t = s + 1
ClosesCycle(s, t) == s # NoTerm /\ ~IntakeTerm(s) /\ t = s + 1

\* closed_failure: the latest published assessment failed, or a row closed so.
ClosedFailure(team) == \/ teams[team].result = "failed"
                       \/ \E t \in Term : termRow[team][t] = "failed"

\* Another Capstone team of the term t has one of these students.
MemberTaken(S, t, team) ==
  \E other \in Cohort(t) \ {team} : teams[other].members \cap S # {}

\* build_capstone_review, one row: the outcome proposed for a team of term s.
ReviewOf(team, s, t) ==
  IF teams[team].term # s \/ s = NoTerm THEN "absent"
  ELSE IF ClosedFailure(team) THEN "failed"
  ELSE IF /\ Continues(s, t)
          /\ teams[team].intake = s
          /\ teams[team].result = "cleared"
          /\ ~MemberTaken(teams[team].members, t, team) THEN "moved"
  ELSE IF ClosesCycle(s, t) /\ teams[team].result = "cleared" THEN "completed"
  ELSE "needs_review"

Review(s, t) == [team \in Team |-> ReviewOf(team, s, t)]

\* The blocking issues of build_semester_transition_preview.
Blocked(s, t) ==
  /\ Cohort(s) # {}
  /\ \/ ~Continues(s, t) /\ ~ClosesCycle(s, t)
     \/ \E team \in Cohort(s) : ReviewOf(team, s, t) = "needs_review"

\* Mutant: the preview is compared by its terms only.
RevisionMatchesTerms(r) ==
  requests[r].source = active

\* The revision of the dialog's preview is still the revision of the preview.
RevisionMatches(r) ==
  /\ requests[r].source = active
  /\ requests[r].current
  /\ requests[r].review = Review(active, requests[r].target)

------------------------------------------------------------------------------
\* The participation with the highest number of a student, if any.
Latest(student) ==
  {p \in participations : /\ p.student = student
                          /\ \A q \in participations :
                               q.student = student => q.number <= p.number}

\* Mutant: only placements in the own team are looked at.
NotPlacedBlind(student, intake, team) == TRUE

NotPlaced(student, intake, team) ==
  \A p \in placements : p.student = student /\ p.intake = intake /\ p.open
                          => p.team = team

\* Mutant: an unfinished earlier participation does not keep a student out.
JoinsIntakeUnfinished(p, t) ==
  /\ p.intake < t
  /\ \A q \in placements : q.student = p.student /\ q.intake = p.intake
                             => teams[q.team].term < t

\* A participation of an earlier intake lets its student into the intake t.
JoinsIntake(p, t) ==
  /\ p.state = "failed"
  /\ p.intake < t
  /\ \A q \in placements : q.student = p.student /\ q.intake = p.intake
                             => teams[q.team].term < t

\* validate_roster for one student of a team with that intake, in term t.
Eligible(student, intake, t, team) ==
  \/ /\ IntakeTerm(t)
     /\ Latest(student) = {}
  \/ \E p \in Latest(student) :
       \/ /\ p.intake = intake
          /\ p.state = "active"
          /\ NotPlaced(student, intake, team)
       \/ /\ p.intake # intake
          /\ IntakeTerm(t)
          /\ JoinsIntake(p, t)

\* Mutant: placements of removed members stay open.
ConfirmedPlacementsKept(team, S, intake) ==
  placements \cup {[student |-> s, intake |-> intake, team |-> team, open |-> TRUE] : s \in S}

\* confirm_roster: who left is no longer placed, who is listed is.
ConfirmedPlacements(team, S, intake) ==
  LET left == {p \in placements : p.team = team /\ p.open /\ p.student \notin S}
  IN (placements \ left)
       \cup {[p EXCEPT !.open = FALSE] : p \in left}
       \cup {[student |-> s, intake |-> intake, team |-> team, open |-> TRUE] : s \in S}

NextNumber(student) == IF Latest(student) = {} THEN 1
                       ELSE (CHOOSE p \in Latest(student) : TRUE).number + 1

ConfirmedParticipations(S, intake) ==
  participations \cup
    {[student |-> s, intake |-> intake, number |-> NextNumber(s), state |-> "active"] :
       s \in {x \in S : ~\E p \in participations : p.student = x /\ p.intake = intake}}

\* close_placements of teams: the students placed there get the outcome of the
\* team; outcome is failed or completed for the teams that end.
Ending(outcome) == {team \in Team : outcome[team] \in {"failed", "completed"}}

ClosedParticipations(outcome) ==
  {IF \E q \in placements : /\ q.open /\ q.team \in Ending(outcome)
                            /\ q.student = p.student /\ q.intake = p.intake
   THEN [p EXCEPT !.state = outcome[(CHOOSE q \in placements :
           /\ q.open /\ q.team \in Ending(outcome)
           /\ q.student = p.student /\ q.intake = p.intake).team]]
   ELSE p : p \in participations}

ClosedPlacements(outcome) ==
  {IF p.team \in Ending(outcome) THEN [p EXCEPT !.open = FALSE] ELSE p : p \in placements}

\* Every preview that listed one of these teams has another revision now.
Touch(touched) ==
  requests' = [r \in Request |->
    IF \E team \in touched : requests[r].review[team] # "absent"
    THEN [requests[r] EXCEPT !.current = FALSE, !.source = NoTerm, !.review = NoReview] ELSE requests[r]]

------------------------------------------------------------------------------
\* The transition dialog shows a preview of its target, at first or again with
\* the same identity, and the administrator forces what is blocked.
Preview(r, t) ==
  LET fresh == ~requests[r].open
  IN /\ requests[r].number <= MaxDialog
     /\ t # active
     /\ fresh \/ t = requests[r].target
     /\ requests' = [requests EXCEPT ![r] =
          [number |-> requests[r].number, open |-> TRUE, target |-> t,
           creates |-> IF fresh THEN t \notin terms ELSE requests[r].creates,
           forced |-> Blocked(active, t),
           source |-> active, review |-> Review(active, t), current |-> TRUE]]
     /\ UNCHANGED <<terms, active, log, cohortVars>>

IdentityOf(r) == <<r, requests[r].number>>

\* Mutant: the log is not searched for the request.
ReplayedNever(r) == FALSE

\* This request has already taken effect: the recorded answer is returned.
Replayed(r) == \E i \in DOMAIN log : log[i].request = IdentityOf(r)

\* Mutant: a closed row gets the new outcome.
RowsOverwritten(s, t, review) ==
  [team \in Team |->
     IF review[team] = "absent" THEN termRow[team]
     ELSE LET row == [termRow[team] EXCEPT ![s] = review[team]]
          IN IF review[team] = "moved" THEN [row EXCEPT ![t] = "open"] ELSE row]

\* apply_capstone_transition: the term rows.  A closed row is left alone.
RowsAfter(s, t, review) ==
  [team \in Team |->
     IF review[team] = "absent" THEN termRow[team]
     ELSE LET kept == IF Closed(team, s) THEN termRow[team]
                      ELSE [termRow[team] EXCEPT ![s] = review[team]]
          IN IF review[team] = "moved" THEN [kept EXCEPT ![t] = "open"] ELSE kept]

\* Teams the review sends on.
Moving(review) == {team \in Team : review[team] = "moved"}

\* apply_capstone_transition.  Other kinds of transition change no team.
ApplyTransition(s, t) ==
  LET review == Review(s, t)
      moving == Moving(review)
  IN IF ~Continues(s, t) /\ ~ClosesCycle(s, t) THEN UNCHANGED cohortVars
     ELSE /\ \A team \in moving :
               /\ termRow[team][t] = "none"
               /\ \A x \in teams[team].members : Eligible(x, teams[team].intake, s, team)
          /\ termRow' = RowsAfter(s, t, review)
          /\ teams' = [team \in Team |->
               IF team \in moving THEN [teams[team] EXCEPT !.term = t, !.result = "none"]
               ELSE teams[team]]
          /\ participations' = ClosedParticipations(review)
          /\ placements' = ClosedPlacements(review)

\* Mutant: activating the active term counts as a switch.
SwitchAgain(request, t, forced) ==
  /\ Blocked(active, t) => forced
  /\ Len(log) < MaxLog
  /\ active' = t
  /\ log' = Append(log, [from |-> active, to |-> t, request |-> request])
  /\ ApplyTransition(active, t)
  /\ Touch(IF Continues(active, t) THEN Moving(Review(active, t)) ELSE {})

\* switch_active_semester, past the replay: the switch takes effect.
Switch(request, t, forced) ==
  /\ t # active
  /\ Blocked(active, t) => forced
  /\ Len(log) < MaxLog
  /\ active' = t
  /\ log' = Append(log, [from |-> active, to |-> t, request |-> request])
  /\ ApplyTransition(active, t)
  /\ Touch(IF Continues(active, t) THEN Moving(Review(active, t)) ELSE {})

\* Mutant: the term is not read again under the lock.
ActivateVanished(r) ==
  /\ requests[r].open
  /\ ~requests[r].creates
  /\ ~Replayed(r)
  /\ RevisionMatches(r)
  /\ Switch(IdentityOf(r), requests[r].target, requests[r].forced)
  /\ UNCHANGED terms

\* switch_active_semester of an existing term.
ActivateTerm(r) ==
  LET t == requests[r].target
  IN /\ requests[r].open
     /\ ~requests[r].creates
     /\ t \in terms
     /\ ~Replayed(r)
     /\ RevisionMatches(r)
     /\ Switch(IdentityOf(r), t, requests[r].forced)
     /\ UNCHANGED terms

\* Activation without the dialog (setSemesterActive) sends neither a revision
\* nor an identity nor force: it may arrive late, or twice.
ActivateDirectly(t) ==
  /\ t \in terms
  /\ Cohort(active) = {}
  /\ Switch(<<NoRequest, 0>>, t, FALSE)
  /\ UNCHANGED terms

\* create_semester with set_active: the new term and its activation.
CreateActiveTerm(r) ==
  LET t == requests[r].target
  IN /\ requests[r].open
     /\ requests[r].creates
     /\ ~Replayed(r)
     /\ t \notin terms
     /\ active # NoTerm => RevisionMatches(r)
     /\ Switch(IdentityOf(r), t, requests[r].forced)
     /\ terms' = terms \cup {t}

\* The answer arrived, or the administrator gave up; the next dialog has another
\* identity.
CloseDialog(r) ==
  /\ requests[r].open
  /\ requests' = [requests EXCEPT ![r] = Idle(requests[r].number + 1)]
  /\ UNCHANGED <<terms, active, log, cohortVars>>

\* create_semester without activation.
CreateTerm(t) ==
  /\ t \notin terms
  /\ terms' = terms \cup {t}
  /\ UNCHANGED <<active, log, cohortVars, requests>>

\* SemesterStatusView.delete: rows that refer to the term protect it.
DeleteTerm(t) ==
  /\ t \in terms
  /\ t # active
  /\ ~\E i \in DOMAIN log : log[i].to = t
  /\ ~\E team \in Team : teams[team].term = t \/ teams[team].intake = t
                            \/ termRow[team][t] # "none"
  /\ ~\E p \in participations : p.intake = t
  /\ terms' = terms \ {t}
  /\ UNCHANGED <<active, log, cohortVars, requests>>

------------------------------------------------------------------------------
\* TeamSerializer.create and the capture of its first term row.
CreateTeam(team, S) ==
  /\ active # NoTerm
  /\ teams[team] = NoTeam
  /\ S # {}
  /\ ~MemberTaken(S, active, team)
  /\ IntakeTerm(active)
  /\ \A x \in S : Eligible(x, active, active, team)
  /\ teams' = [teams EXCEPT ![team] =
       [term |-> active, intake |-> active, members |-> S, result |-> "none"]]
  /\ termRow' = [termRow EXCEPT ![team][active] = "open"]
  /\ participations' = ConfirmedParticipations(S, active)
  /\ placements' = ConfirmedPlacements(team, S, active)
  /\ UNCHANGED <<terms, active, log, requests>>

\* TeamSerializer.update of the members.
UpdateRoster(team, S) ==
  LET intake == teams[team].intake
  IN /\ teams[team] # NoTeam
     /\ teams[team].term = active
     /\ ~Closed(team, active)
     /\ ~ClosedFailure(team)
     /\ S # {} /\ S # teams[team].members
     /\ ~MemberTaken(S, active, team)
     /\ \A x \in S : Eligible(x, intake, active, team)
     /\ teams' = [teams EXCEPT ![team].members = S]
     /\ participations' = ConfirmedParticipations(S, intake)
     /\ placements' = ConfirmedPlacements(team, S, intake)
     /\ Touch({team})
     /\ UNCHANGED <<terms, active, log, termRow>>

\* remove_unused_placements: active participations that only this team placed.
Orphaned(team) ==
  {p \in participations :
     /\ p.state = "active"
     /\ \E q \in placements : /\ q.team = team
                              /\ q.student = p.student /\ q.intake = p.intake
     /\ ~\E q \in placements : /\ q.team # team
                               /\ q.student = p.student /\ q.intake = p.intake
     /\ ~\E n \in participations : n.student = p.student /\ n.number = p.number + 1}

\* StudentTeamDetailView.delete of a team without evidence.
DeleteTeam(team) ==
  /\ teams[team] # NoTeam
  /\ teams[team].term = active
  /\ ~Closed(team, active)
  /\ \A t \in Term \ {active} : termRow[team][t] = "none"
  /\ teams[team].result = "none"
  /\ ~\E p \in participations : /\ p.state # "active"
                                /\ \E q \in placements : /\ q.team = team
                                     /\ q.student = p.student /\ q.intake = p.intake
  /\ participations' = participations \ Orphaned(team)
  /\ placements' = {q \in placements : q.team # team}
  /\ teams' = [teams EXCEPT ![team] = NoTeam]
  /\ termRow' = [termRow EXCEPT ![team][active] = "none"]
  /\ Touch({team})
  /\ UNCHANGED <<terms, active, log>>

------------------------------------------------------------------------------
\* require_current: the term row of the assessment is open.
AssessmentOpen(team) ==
  teams[team] # NoTeam /\ ~Closed(team, teams[team].term)

\* A stage assessment of the team's term is published as passed.
PublishPass(team) ==
  /\ AssessmentOpen(team)
  /\ teams[team].result = "none"
  /\ teams' = [teams EXCEPT ![team].result = "passed"]
  /\ Touch({team})
  /\ UNCHANGED <<terms, active, log, termRow, participations, placements>>

\* The last documents of the stage are approved, or an approval is withdrawn.
\* Reviewing documents asks for require_open only: a closed row that needs
\* review does not stop it.
ReviewDocuments(team) ==
  /\ teams[team].result \in {"passed", "cleared"}
  /\ ~ClosedFailure(team)
  /\ teams' = [teams EXCEPT ![team].result =
                 IF teams[team].result = "passed" THEN "cleared" ELSE "passed"]
  /\ Touch({team})
  /\ UNCHANGED <<terms, active, log, termRow, participations, placements>>

\* A published failure: apply_stage_result and finalize_failed.
PublishFailure(team) ==
  LET outcome == [other \in Team |-> IF other = team THEN "failed" ELSE "absent"]
  IN /\ AssessmentOpen(team)
     /\ ~ClosedFailure(team)
     /\ teams' = [teams EXCEPT ![team].result = "failed"]
     /\ termRow' = [termRow EXCEPT ![team][teams[team].term] = "failed"]
     /\ participations' = ClosedParticipations(outcome)
     /\ placements' = ClosedPlacements(outcome)
     /\ Touch({team})
     /\ UNCHANGED <<terms, active, log>>

Next == \/ \E r \in Request :
             \/ \E t \in Term : Preview(r, t)
             \/ ActivateTerm(r)
             \/ CreateActiveTerm(r)
             \/ CloseDialog(r)
        \/ \E t \in Term : CreateTerm(t) \/ DeleteTerm(t) \/ ActivateDirectly(t)
        \/ \E team \in Team :
             \/ \E S \in SUBSET Student : CreateTeam(team, S) \/ UpdateRoster(team, S)
             \/ DeleteTeam(team)
             \/ PublishPass(team)
             \/ ReviewDocuments(team)
             \/ PublishFailure(team)

Spec == Init /\ [][Next]_vars

------------------------------------------------------------------------------
TypeOK == /\ terms \subseteq Term
          /\ active \in terms \cup {NoTerm}
          /\ log \in Seq(LogEntry) /\ Len(log) <= MaxLog
          /\ teams \in [Team -> TeamRow]
          /\ termRow \in [Team -> [Term -> RowState]]
          /\ participations \subseteq Participation
          /\ placements \subseteq Placement
          /\ requests \in [Request -> Dialog]

\* A student is placed with one team at a time, over all intakes and terms:
\* the unique constraint of the table covers one participation only.
SinglePlacement ==
  \A p, q \in placements : p.open /\ q.open /\ p.student = q.student => p = q

\* Rosters and placements tell the same story: a member of a team holds a
\* participation of its intake and is placed exactly while that is active, and
\* nobody else is placed there (confirm_roster, close_placements).
RosterPlaced ==
  /\ \A p \in placements : p.open => p.student \in teams[p.team].members
  /\ \A team \in Team : \A s \in teams[team].members :
       \E p \in participations :
         /\ p.student = s /\ p.intake = teams[team].intake
         /\ (p.state = "active") <=>
              ([student |-> s, intake |-> p.intake, team |-> team, open |-> TRUE] \in placements)

\* A dialog with an identity takes effect at most once, however often it is
\* delivered and whatever terms were activated in between.
EffectOnce ==
  \A i, j \in DOMAIN log : log[i].request = log[j].request
                             /\ log[i].request # <<NoRequest, 0>> => i = j

\* A closed term row is history: no activation, failure, roster change or
\* deletion changes it (TeamTermParticipation.closed_at).
ClosedRowsFinal ==
  [][\A team \in Team, t \in Term :
       Closed(team, t) => termRow'[team][t] = termRow[team][t]]_vars

\* What a switch does to the teams is what its administrator saw: the team
\* moves on only from a dialog that showed it moving.
MovedAsReviewed ==
  [][\A team \in Team : teams'[team].term \notin {teams[team].term, NoTerm}
                            /\ teams[team].term # NoTerm
       => \E r \in Request : /\ requests[r].open
                              /\ requests[r].review[team] = "moved"
                              /\ Len(log') > Len(log)
                              /\ log'[Len(log')].request = IdentityOf(r)]_vars

\* The periods implement their abstract log: one active term, explained by
\* the activations so far.
History == INSTANCE TermHistory WITH
             history <- [i \in DOMAIN log |-> [from |-> log[i].from, to |-> log[i].to]]
TermsExplained == History!Spec

\* The participations implement the students' journeys: intakes numbered from
\* one, the next only after a failure and later, outcomes never taken back.
JourneyOf(s) ==
  IF Latest(s) = {} THEN [number |-> 0, intake |-> 0, state |-> "none"]
  ELSE LET p == CHOOSE p \in Latest(s) : TRUE
       IN [number |-> p.number, intake |-> p.intake, state |-> p.state]
Journeys == INSTANCE CapstoneJourneys WITH journey <- [s \in Student |-> JourneyOf(s)]
ParticipationsFollow == Journeys!Spec
==============================================================================
