------------------------- MODULE CapstoneTermsProofs -------------------------
(***************************************************************************)
(* Proofs about CapstoneTerms for every set of students, teams and screens  *)
(* and any number of terms, activations and dialogs.                        *)
(***************************************************************************)
EXTENDS CapstoneTerms, WellFoundedInduction, TLAPS

\* An open dialog has a target and an identity that was not used up.
DialogsOpen ==
  \A r \in Request : requests[r].open => /\ requests[r].target \in Term
                                         /\ requests[r].number <= MaxDialog

\* A team is in the intake's term or has moved on once; a deleted one has left
\* no record.
TeamTerms ==
  \A team \in Team :
    IF teams[team] = NoTeam THEN \A t \in Term : termRow[team][t] = "none"
    ELSE /\ IntakeTerm(teams[team].intake)
         /\ teams[team].term \in {teams[team].intake, teams[team].intake + 1}

TypeInv == TypeOK /\ DialogsOpen /\ TeamTerms

------------------------------------------------------------------------------
(* Types *)

LEMMA TermFacts ==
  /\ Term \subseteq Nat /\ NoTerm \notin Term /\ NoTerm \in Nat
  /\ \A t \in Term : t \in Nat /\ t >= 1 /\ t <= MaxTerm
  BY BoundAssumption DEF Term, NoTerm

LEMMA NoTeamFacts ==
  /\ NoTeam.term = NoTerm /\ NoTeam.members = {} /\ NoTeam.result = "none"
  /\ NoTeam \in TeamRow
  /\ \A e \in TeamRow : e # NoTeam <=> e.term \in Term
  BY TermFacts DEF NoTeam, TeamRow

LEMMA TeamTyped ==
  ASSUME TypeOK, NEW team \in Team, teams[team] # NoTeam
  PROVE  teams[team] \in [term : Term, intake : Term, members : SUBSET Student,
                          result : Result]
  BY DEF TypeOK, TeamRow

LEMMA LatestTyped ==
  ASSUME TypeOK, NEW s
  PROVE  NextNumber(s) \in Nat
  <1>1. CASE Latest(s) = {}
    BY <1>1 DEF NextNumber
  <1>2. CASE Latest(s) # {}
    <2>1. (CHOOSE p \in Latest(s) : TRUE) \in Latest(s)
      BY <1>2
    <2>2. Latest(s) \subseteq Participation
      BY DEF Latest, TypeOK
    <2>3. (CHOOSE p \in Latest(s) : TRUE).number \in Nat
      BY <2>1, <2>2 DEF Participation
    <2> QED BY <1>2, <2>3 DEF NextNumber
  <1> QED BY <1>1, <1>2

LEMMA ConfirmTyped ==
  ASSUME TypeOK, NEW team \in Team, NEW S \in SUBSET Student, NEW intake \in Term
  PROVE  /\ ConfirmedPlacements(team, S, intake) \subseteq Placement
         /\ ConfirmedParticipations(S, intake) \subseteq Participation
  <1>1. ConfirmedParticipations(S, intake) \subseteq Participation
    BY LatestTyped DEF ConfirmedParticipations, TypeOK, Participation
  <1>2. ASSUME NEW p \in placements
        PROVE  [p EXCEPT !.open = FALSE] \in Placement
    BY DEF TypeOK, Placement
  <1>3. {[student |-> s, intake |-> intake, team |-> team, open |-> TRUE] : s \in S}
          \subseteq Placement
    <2>1. ASSUME NEW s \in S
          PROVE  [student |-> s, intake |-> intake, team |-> team, open |-> TRUE] \in Placement
      <3>1. s \in Student /\ TRUE \in BOOLEAN
        OBVIOUS
      <3> QED BY <3>1 DEF Placement
    <2> HIDE DEF Placement
    <2> QED BY <2>1
  <1>4. placements \subseteq Placement
    BY DEF TypeOK
  <1>5. ConfirmedPlacements(team, S, intake) \subseteq Placement
    <2> HIDE DEF Placement
    <2> QED BY <1>2, <1>3, <1>4 DEF ConfirmedPlacements
  <1> QED BY <1>1, <1>5

\* Somebody placed for p leaves with the end of a team.
LeavesWith(p, q, outcome) == /\ q.open /\ q.team \in Ending(outcome)
                             /\ q.student = p.student /\ q.intake = p.intake
Leaves(p, outcome) == \E q \in placements : LeavesWith(p, q, outcome)

\* What becomes of the participation p when teams end.
Closes(p, x, outcome) ==
  /\ x.student = p.student /\ x.intake = p.intake /\ x.number = p.number
  /\ IF Leaves(p, outcome) THEN x.state \in {"failed", "completed"} ELSE x = p

LEMMA ClosedShape ==
  ASSUME TypeOK, NEW outcome \in [Team -> ReviewOutcome]
  PROVE  /\ ClosedParticipations(outcome) \subseteq Participation
         /\ \A x \in ClosedParticipations(outcome) :
              \E p \in participations : Closes(p, x, outcome)
         /\ \A p \in participations :
              \E x \in ClosedParticipations(outcome) : Closes(p, x, outcome)
  <1> DEFINE c(p) == CHOOSE q \in placements : LeavesWith(p, q, outcome)
             After(p) == IF Leaves(p, outcome)
                         THEN [p EXCEPT !.state = outcome[c(p).team]] ELSE p
  <1>1. ASSUME NEW p \in participations
        PROVE  Closes(p, After(p), outcome) /\ After(p) \in Participation
    <2>1. CASE Leaves(p, outcome)
      <3>1. LeavesWith(p, c(p), outcome)
        BY <2>1 DEF Leaves
      <3> DEFINE e == outcome[c(p).team]
      <3>2. e \in {"failed", "completed"}
        BY <3>1 DEF LeavesWith, Ending
      <3>3. After(p) = [p EXCEPT !.state = e] /\ p \in Participation
        BY <2>1 DEF TypeOK
      <3> HIDE DEF e, After
      <3> QED BY <2>1, <3>2, <3>3 DEF Participation, Closes
    <2>2. CASE ~Leaves(p, outcome)
      <3>1. After(p) = p /\ p \in Participation
        BY <2>2 DEF TypeOK
      <3> HIDE DEF After
      <3> QED BY <2>2, <3>1 DEF Closes
    <2> QED BY <2>1, <2>2
  <1>2. ClosedParticipations(outcome) = {After(p) : p \in participations}
    BY DEF ClosedParticipations, Leaves, LeavesWith
  <1> HIDE DEF After
  <1> QED BY <1>1, <1>2

LEMMA ClosedPlacementShape ==
  ASSUME TypeOK, NEW outcome \in [Team -> ReviewOutcome]
  PROVE  /\ ClosedPlacements(outcome) \subseteq Placement
         /\ \A q : (q \in ClosedPlacements(outcome) /\ q.open)
                     <=> (q \in placements /\ q.open /\ q.team \notin Ending(outcome))
  <1> DEFINE After(p) == IF p.team \in Ending(outcome) THEN [p EXCEPT !.open = FALSE] ELSE p
  <1>1. ASSUME NEW p \in placements
        PROVE  /\ After(p) \in Placement
               /\ p.team \in Ending(outcome) => ~After(p).open
               /\ p.team \notin Ending(outcome) => After(p) = p
    BY DEF TypeOK, Placement
  <1>2. ClosedPlacements(outcome) = {After(p) : p \in placements}
    BY DEF ClosedPlacements
  <1> HIDE DEF After
  <1> QED BY <1>1, <1>2

LEMMA ReviewTyped ==
  \A s, t : Review(s, t) \in [Team -> ReviewOutcome]
  BY DEF Review, ReviewOf, ReviewOutcome

LEMMA IdleTyped ==
  ASSUME NEW n \in 1 .. MaxDialog + 1
  PROVE  Idle(n) \in Dialog /\ ~Idle(n).open
  BY BoundAssumption DEF Idle, Dialog, NoReview, ReviewOutcome

LEMMA TouchTyped ==
  ASSUME TypeOK, DialogsOpen, NEW touched, Touch(touched)
  PROVE  requests' \in [Request -> Dialog] /\ DialogsOpen'
  <1>1. ASSUME NEW r \in Request
        PROVE  /\ requests'[r] \in Dialog
               /\ requests'[r].open = requests[r].open
               /\ requests'[r].target = requests[r].target
               /\ requests'[r].number = requests[r].number
    <2>1. requests[r] \in Dialog
      BY DEF TypeOK
    <2>2. [requests[r] EXCEPT !.current = FALSE, !.source = NoTerm, !.review = NoReview] \in Dialog
      BY <2>1 DEF Dialog, NoReview, ReviewOutcome
    <2> QED BY <2>1, <2>2 DEF Touch, Dialog
  <1>2. requests' \in [Request -> Dialog]
    BY <1>1 DEF Touch
  <1> QED BY <1>1, <1>2 DEF DialogsOpen

------------------------------------------------------------------------------
(* The switch of the active term *)

\* Who moves on is a team of the intake that ends, and the term after it follows.
LEMMA MovingTeam ==
  ASSUME TypeOK, NEW s, NEW t, NEW team \in Moving(Review(s, t))
  PROVE  /\ team \in Team /\ teams[team] # NoTeam
         /\ teams[team].term = s /\ teams[team].intake = s
         /\ s # NoTerm /\ IntakeTerm(s) /\ t = s + 1 /\ t # s
         /\ Continues(s, t)
  <1>1. team \in Team /\ ReviewOf(team, s, t) = "moved"
    BY DEF Moving, Review
  <1>2. teams[team].term = s /\ s # NoTerm /\ Continues(s, t) /\ teams[team].intake = s
    BY <1>1 DEF ReviewOf
  <1>3. teams[team] # NoTeam
    BY <1>2, NoTeamFacts
  <1>4. s \in Nat
    BY <1>1, <1>2, <1>3, TeamTyped, TermFacts
  <1> QED BY <1>1, <1>2, <1>3, <1>4 DEF Continues

\* Teams outside the review of the term that ends, the unused ones among them.
LEMMA AbsentTeam ==
  ASSUME TypeOK, NEW s, NEW t, NEW team \in Team
  PROVE  teams[team] = NoTeam => Review(s, t)[team] = "absent"
  BY NoTeamFacts DEF Review, ReviewOf

LEMMA RowsAfterTyped ==
  ASSUME TypeOK, NEW s, NEW t \in Term
  PROVE  RowsAfter(s, t, Review(s, t)) \in [Team -> [Term -> RowState]]
  <1> DEFINE review == Review(s, t)
  <1>1. review \in [Team -> ReviewOutcome]
    BY ReviewTyped
  <1>2. ASSUME NEW team \in Team
        PROVE  RowsAfter(s, t, review)[team] \in [Term -> RowState]
    <2> DEFINE kept == IF Closed(team, s) THEN termRow[team]
                       ELSE [termRow[team] EXCEPT ![s] = review[team]]
    <2>1. CASE review[team] = "absent"
      BY <2>1 DEF TypeOK, RowsAfter
    <2>2. CASE review[team] # "absent"
      <3>1. review[team] \in RowState
        BY <1>1, <2>2 DEF ReviewOutcome, RowState
      <3>2. termRow[team] \in [Term -> RowState]
        BY DEF TypeOK
      <3> HIDE DEF review
      <3>3. kept \in [Term -> RowState]
        BY <3>1, <3>2
      <3>4. "open" \in RowState
        BY DEF RowState
      <3>5. RowsAfter(s, t, review)[team]
              = IF review[team] = "moved" THEN [kept EXCEPT ![t] = "open"] ELSE kept
        BY <2>2 DEF RowsAfter
      <3> HIDE DEF kept
      <3> QED BY <3>3, <3>4, <3>5
    <2> QED BY <2>1, <2>2
  <1> QED BY <1>2 DEF RowsAfter

LEMMA ApplyTypes ==
  ASSUME TypeInv, NEW t \in Term, t # active, ApplyTransition(active, t)
  PROVE  /\ teams' \in [Team -> TeamRow]
         /\ termRow' \in [Team -> [Term -> RowState]]
         /\ participations' \subseteq Participation
         /\ placements' \subseteq Placement
         /\ TeamTerms'
  <1> DEFINE review == Review(active, t)
             moving == Moving(review)
  <1> USE DEF TypeInv
  <1>1. CASE ~Continues(active, t) /\ ~ClosesCycle(active, t)
    BY <1>1 DEF ApplyTransition, cohortVars, TypeOK, TeamTerms
  <1>2. CASE Continues(active, t) \/ ClosesCycle(active, t)
    <2>1. /\ termRow' = RowsAfter(active, t, review)
          /\ teams' = [team \in Team |->
               IF team \in moving THEN [teams[team] EXCEPT !.term = t, !.result = "none"]
               ELSE teams[team]]
          /\ participations' = ClosedParticipations(review)
          /\ placements' = ClosedPlacements(review)
      BY <1>2 DEF ApplyTransition
    <2>2. review \in [Team -> ReviewOutcome]
      BY ReviewTyped
    <2>3. participations' \subseteq Participation /\ placements' \subseteq Placement
      BY <2>1, <2>2, ClosedShape, ClosedPlacementShape
    <2>4. termRow' \in [Team -> [Term -> RowState]]
      BY <2>1, RowsAfterTyped
    <2>5. ASSUME NEW team \in Team
          PROVE  /\ teams'[team] \in TeamRow
                 /\ team \in moving => /\ teams'[team].term = t /\ teams'[team] # NoTeam
                                       /\ teams'[team].intake = teams[team].intake
                 /\ team \notin moving => teams'[team] = teams[team]
      <3>1. CASE team \in moving
        <4>1. teams[team] # NoTeam
          BY <3>1, MovingTeam
        <4>2. teams[team] \in [term : Term, intake : Term, members : SUBSET Student,
                                result : Result]
          BY <4>1, TeamTyped
        <4>3. teams'[team] = [teams[team] EXCEPT !.term = t, !.result = "none"]
          BY <2>1, <3>1
        <4>4. /\ teams'[team] \in [term : Term, intake : Term, members : SUBSET Student,
                                   result : Result]
              /\ teams'[team].term = t /\ teams'[team].intake = teams[team].intake
          BY <4>2, <4>3 DEF Result
        <4> QED BY <3>1, <4>4, NoTeamFacts, TermFacts DEF TeamRow
      <3>2. CASE team \notin moving
        BY <2>1, <3>2 DEF TypeOK
      <3> QED BY <3>1, <3>2
    <2>6. teams' \in [Team -> TeamRow]
      BY <2>1, <2>5
    <2>7. ASSUME NEW team \in Team
          PROVE  IF teams'[team] = NoTeam THEN \A u \in Term : termRow'[team][u] = "none"
                 ELSE /\ IntakeTerm(teams'[team].intake)
                      /\ teams'[team].term \in {teams'[team].intake, teams'[team].intake + 1}
      <3>1. CASE team \in moving
        BY <2>5, <3>1, MovingTeam
      <3>2. CASE team \notin moving /\ teams[team] # NoTeam
        BY <2>5, <3>2 DEF TeamTerms
      <3>3. CASE team \notin moving /\ teams[team] = NoTeam
        <4>1. review[team] = "absent"
          BY <3>3, AbsentTeam
        <4>2. termRow'[team] = termRow[team]
          BY <2>1, <4>1 DEF RowsAfter
        <4> QED BY <2>5, <3>3, <4>2 DEF TeamTerms
      <3> QED BY <3>1, <3>2, <3>3
    <2>8. TeamTerms'
      BY <2>7 DEF TeamTerms
    <2> QED BY <2>3, <2>4, <2>6, <2>8
  <1> QED BY <1>1, <1>2

LEMMA SwitchTypes ==
  ASSUME TypeInv, NEW identity \in Identity, NEW t \in Term, NEW forced,
         Switch(identity, t, forced)
  PROVE  /\ active' = t
         /\ log' \in Seq(LogEntry) /\ Len(log') <= MaxLog
         /\ teams' \in [Team -> TeamRow]
         /\ termRow' \in [Team -> [Term -> RowState]]
         /\ participations' \subseteq Participation
         /\ placements' \subseteq Placement
         /\ requests' \in [Request -> Dialog] /\ DialogsOpen' /\ TeamTerms'
  <1> DEFINE e == [from |-> active, to |-> t, request |-> identity]
  <1>1. e \in LogEntry
    BY DEF TypeInv, TypeOK, LogEntry
  <1>2. log \in Seq(LogEntry) /\ Len(log) < MaxLog /\ log' = Append(log, e)
    BY DEF TypeInv, TypeOK, Switch
  <1>3. log' \in Seq(LogEntry) /\ Len(log') <= MaxLog
    <2> HIDE DEF e
    <2> QED BY <1>1, <1>2, BoundAssumption
  <1>4. requests' \in [Request -> Dialog] /\ DialogsOpen'
    BY TouchTyped DEF TypeInv, Switch
  <1>5. ApplyTransition(active, t) /\ t # active /\ active' = t
    BY DEF Switch
  <1> QED BY <1>3, <1>4, <1>5, ApplyTypes

------------------------------------------------------------------------------
(* Types are invariant *)

LEMMA InitTypes == Init => TypeInv
  <1> SUFFICES ASSUME Init PROVE TypeInv
    OBVIOUS
  <1>1. log \in Seq(LogEntry) /\ Len(log) <= MaxLog
    BY BoundAssumption DEF Init
  <1>2. terms \subseteq Term /\ active \in terms \cup {NoTerm}
    BY DEF Init
  <1>3. teams \in [Team -> TeamRow] /\ termRow \in [Team -> [Term -> RowState]]
    BY NoTeamFacts DEF Init, RowState
  <1>4. participations \subseteq Participation /\ placements \subseteq Placement
    BY DEF Init
  <1>5. requests \in [Request -> Dialog] /\ DialogsOpen
    <2>1. 1 \in 1 .. MaxDialog + 1
      BY BoundAssumption
    <2>2. Idle(1) \in Dialog /\ ~Idle(1).open
      BY <2>1, IdleTyped
    <2> QED BY <2>2 DEF Init, DialogsOpen
  <1>6. TeamTerms
    BY DEF Init, TeamTerms
  <1> QED BY <1>1, <1>2, <1>3, <1>4, <1>5, <1>6 DEF TypeInv, TypeOK

LEMMA PreviewTypes ==
  ASSUME TypeInv, NEW r \in Request, NEW t \in Term, Preview(r, t)
  PROVE  TypeInv'
  <1> DEFINE d == [number |-> requests[r].number, open |-> TRUE, target |-> t,
                   creates |-> IF ~requests[r].open THEN t \notin terms ELSE requests[r].creates,
                   forced |-> Blocked(active, t), source |-> active,
                   review |-> Review(active, t), current |-> TRUE]
  <1>1. requests' = [requests EXCEPT ![r] = d]
    BY DEF Preview
  <1>2. requests[r] \in Dialog /\ requests[r].number <= MaxDialog
    BY DEF Preview, TypeInv, TypeOK
  <1>3. d \in Dialog
    <2>1. active \in Term \cup {NoTerm} /\ Review(active, t) \in [Team -> ReviewOutcome]
      BY ReviewTyped DEF TypeInv, TypeOK
    <2>2. d.creates \in BOOLEAN /\ d.forced \in BOOLEAN
      BY <1>2 DEF Blocked, Dialog
    <2>3. d.number \in 1 .. MaxDialog + 1
      BY <1>2 DEF Dialog
    <2>4. d.open \in BOOLEAN /\ d.current \in BOOLEAN
      BY Zenon
    <2>5. d.target \in Term \cup {NoTerm} /\ d.source \in Term \cup {NoTerm}
          /\ d.review \in [Team -> ReviewOutcome]
      BY <2>1
    <2>6. d = [number |-> d.number, open |-> d.open, creates |-> d.creates, target |-> d.target,
               forced |-> d.forced, source |-> d.source, review |-> d.review,
               current |-> d.current]
      OBVIOUS
    <2> HIDE DEF d
    <2> QED BY <2>2, <2>3, <2>4, <2>5, <2>6 DEF Dialog
  <1>4. d.number <= MaxDialog /\ d.target \in Term
    BY <1>2
  <1> HIDE DEF d
  <1>5. requests' \in [Request -> Dialog] /\ DialogsOpen'
    BY <1>1, <1>3, <1>4 DEF TypeInv, TypeOK, DialogsOpen
  <1> QED BY <1>5 DEF Preview, cohortVars, TypeInv, TypeOK, TeamTerms

LEMMA ActivationTypes ==
  ASSUME TypeInv, NEW r \in Request, ActivateTerm(r) \/ CreateActiveTerm(r)
  PROVE  TypeInv'
  <1> DEFINE t == requests[r].target
  <1>1. t \in Term /\ IdentityOf(r) \in Identity
    <2>1. requests[r] \in Dialog /\ requests[r].open
      BY DEF TypeInv, TypeOK, ActivateTerm, CreateActiveTerm
    <2>2. t \in Term /\ requests[r].number <= MaxDialog
      BY <2>1 DEF TypeInv, DialogsOpen
    <2>3. requests[r].number \in 1 .. MaxDialog
      BY <2>1, <2>2, BoundAssumption DEF Dialog
    <2> QED BY <2>2, <2>3 DEF IdentityOf, Identity
  <1>2. Switch(IdentityOf(r), t, requests[r].forced)
    BY DEF ActivateTerm, CreateActiveTerm
  <1>3. terms' \subseteq Term /\ t \in terms'
    BY <1>1 DEF ActivateTerm, CreateActiveTerm, TypeInv, TypeOK
  <1> HIDE DEF t
  <1> QED BY <1>1, <1>2, <1>3, SwitchTypes DEF TypeInv, TypeOK

LEMMA ActivateDirectlyTypes ==
  ASSUME TypeInv, NEW t \in Term, ActivateDirectly(t)
  PROVE  TypeInv'
  <1>1. <<NoRequest, 0>> \in Identity
    BY DEF Identity
  <1> QED BY <1>1, SwitchTypes DEF ActivateDirectly, TypeInv, TypeOK

LEMMA CloseDialogTypes ==
  ASSUME TypeInv, NEW r \in Request, CloseDialog(r)
  PROVE  TypeInv'
  <1> DEFINE d == Idle(requests[r].number + 1)
  <1>1. requests[r].number + 1 \in 1 .. MaxDialog + 1
    BY BoundAssumption DEF CloseDialog, TypeInv, TypeOK, DialogsOpen, Dialog
  <1>2. d \in Dialog /\ ~d.open
    BY <1>1, IdleTyped
  <1>3. requests' = [requests EXCEPT ![r] = d]
    BY DEF CloseDialog
  <1> HIDE DEF d
  <1> QED BY <1>2, <1>3 DEF CloseDialog, cohortVars, TypeInv, TypeOK, DialogsOpen, TeamTerms

LEMMA TermsTypes ==
  ASSUME TypeInv, NEW t \in Term, CreateTerm(t) \/ DeleteTerm(t)
  PROVE  TypeInv'
  BY DEF CreateTerm, DeleteTerm, cohortVars, TypeInv, TypeOK, DialogsOpen, TeamTerms

LEMMA CreateTeamTypes ==
  ASSUME TypeInv, NEW team \in Team, NEW S \in SUBSET Student, CreateTeam(team, S)
  PROVE  TypeInv'
  <1> DEFINE e == [term |-> active, intake |-> active, members |-> S, result |-> "none"]
  <1>1. active \in Term /\ IntakeTerm(active)
    BY DEF CreateTeam, TypeInv, TypeOK
  <1>2. e \in TeamRow /\ e # NoTeam
    BY <1>1, NoTeamFacts, TermFacts DEF TeamRow, Result
  <1>3. e.intake = active /\ e.term = active
    OBVIOUS
  <1>4. teams' = [teams EXCEPT ![team] = e]
    BY DEF CreateTeam
  <1> HIDE DEF e
  <1>5. teams' \in [Team -> TeamRow]
    BY <1>2, <1>4 DEF TypeInv, TypeOK
  <1>6. /\ termRow' \in [Team -> [Term -> RowState]]
        /\ \A other \in Team \ {team} : termRow'[other] = termRow[other]
    BY DEF CreateTeam, TypeInv, TypeOK, RowState
  <1>7. participations' \subseteq Participation /\ placements' \subseteq Placement
    BY <1>1, ConfirmTyped DEF CreateTeam, TypeInv
  <1>8. TeamTerms'
    BY <1>1, <1>2, <1>3, <1>4, <1>6 DEF TypeInv, TypeOK, TeamTerms
  <1> QED BY <1>5, <1>6, <1>7, <1>8 DEF CreateTeam, TypeInv, TypeOK, DialogsOpen

\* A step that changes fields of one team's record only.
LEMMA TeamChange ==
  ASSUME TypeInv, NEW team \in Team, teams[team] # NoTeam, NEW e \in TeamRow,
         e.term = teams[team].term, e.intake = teams[team].intake,
         teams' = [teams EXCEPT ![team] = e]
  PROVE  /\ teams' \in [Team -> TeamRow]
         /\ \A other \in Team : /\ teams'[other] = NoTeam <=> teams[other] = NoTeam
                                /\ teams'[other].term = teams[other].term
                                /\ teams'[other].intake = teams[other].intake
         /\ termRow' = termRow => TeamTerms'
  <1>1. e # NoTeam
    BY TeamTyped, NoTeamFacts, TermFacts DEF TypeInv
  <1>2. teams' \in [Team -> TeamRow]
    BY DEF TypeInv, TypeOK
  <1>3. \A other \in Team : /\ teams'[other] = NoTeam <=> teams[other] = NoTeam
                            /\ teams'[other].term = teams[other].term
                            /\ teams'[other].intake = teams[other].intake
    BY <1>1 DEF TypeInv, TypeOK
  <1> QED BY <1>2, <1>3 DEF TypeInv, TeamTerms

LEMMA UpdateRosterTypes ==
  ASSUME TypeInv, NEW team \in Team, NEW S \in SUBSET Student, UpdateRoster(team, S)
  PROVE  TypeInv'
  <1> DEFINE e == [teams[team] EXCEPT !.members = S]
  <1>1. teams[team] # NoTeam
    BY DEF UpdateRoster
  <1>2. teams[team] \in [term : Term, intake : Term, members : SUBSET Student,
                          result : Result]
    BY <1>1, TeamTyped DEF TypeInv
  <1>3. e \in TeamRow /\ e.term = teams[team].term /\ e.intake = teams[team].intake
    BY <1>2 DEF TeamRow
  <1>4. teams' = [teams EXCEPT ![team] = e]
    BY DEF UpdateRoster
  <1>5. teams' \in [Team -> TeamRow] /\ TeamTerms'
    <2>1. termRow' = termRow
      BY DEF UpdateRoster
    <2> HIDE DEF e
    <2> QED BY <1>1, <1>3, <1>4, <2>1, TeamChange
  <1>6. participations' \subseteq Participation /\ placements' \subseteq Placement
    BY <1>2, ConfirmTyped DEF UpdateRoster, TypeInv
  <1>7. requests' \in [Request -> Dialog] /\ DialogsOpen'
    BY TouchTyped DEF UpdateRoster, TypeInv
  <1> QED BY <1>5, <1>6, <1>7 DEF UpdateRoster, TypeInv, TypeOK

LEMMA DeleteTeamTypes ==
  ASSUME TypeInv, NEW team \in Team, DeleteTeam(team)
  PROVE  TypeInv'
  <1>1. teams' = [teams EXCEPT ![team] = NoTeam] /\ teams' \in [Team -> TeamRow]
    BY NoTeamFacts DEF DeleteTeam, TypeInv, TypeOK
  <1>2. active \in Term
    BY NoTeamFacts DEF DeleteTeam, TypeInv, TypeOK
  <1>3. /\ termRow' \in [Team -> [Term -> RowState]]
        /\ \A other \in Team \ {team} : termRow'[other] = termRow[other]
        /\ \A t \in Term : termRow'[team][t] = "none"
    BY <1>2 DEF DeleteTeam, TypeInv, TypeOK, RowState
  <1>4. TeamTerms'
    BY <1>1, <1>3 DEF TypeInv, TypeOK, TeamTerms
  <1>5. participations' \subseteq Participation /\ placements' \subseteq Placement
    BY DEF DeleteTeam, TypeInv, TypeOK
  <1>6. requests' \in [Request -> Dialog] /\ DialogsOpen'
    BY TouchTyped DEF DeleteTeam, TypeInv
  <1> QED BY <1>1, <1>3, <1>4, <1>5, <1>6 DEF DeleteTeam, TypeInv, TypeOK

LEMMA ResultTypes ==
  ASSUME TypeInv, NEW team \in Team, PublishPass(team) \/ ReviewDocuments(team)
  PROVE  TypeInv'
  <1> DEFINE new == IF PublishPass(team) THEN "passed"
                    ELSE IF teams[team].result = "passed" THEN "cleared" ELSE "passed"
             e == [teams[team] EXCEPT !.result = new]
  <1>1. teams[team] # NoTeam
    BY NoTeamFacts DEF PublishPass, AssessmentOpen, ReviewDocuments
  <1>2. teams[team] \in [term : Term, intake : Term, members : SUBSET Student,
                          result : Result]
    BY <1>1, TeamTyped DEF TypeInv
  <1>3. new \in Result
    BY DEF Result
  <1>4. teams' = [teams EXCEPT ![team] = e]
    <2>1. CASE PublishPass(team)
      BY <2>1 DEF PublishPass
    <2>2. CASE ~PublishPass(team)
      BY <2>2 DEF ReviewDocuments
    <2> QED BY <2>1, <2>2
  <1> HIDE DEF new
  <1>5. e \in TeamRow /\ e.term = teams[team].term /\ e.intake = teams[team].intake
    BY <1>2, <1>3 DEF TeamRow
  <1>6. teams' \in [Team -> TeamRow] /\ TeamTerms'
    <2>1. termRow' = termRow
      BY DEF PublishPass, ReviewDocuments
    <2> HIDE DEF e
    <2> QED BY <1>1, <1>4, <1>5, <2>1, TeamChange
  <1>7. requests' \in [Request -> Dialog] /\ DialogsOpen'
    BY TouchTyped DEF PublishPass, ReviewDocuments, TypeInv
  <1> QED BY <1>6, <1>7 DEF PublishPass, ReviewDocuments, TypeInv, TypeOK

\* The outcome that a published failure closes placements with.
FailureOf(team) == [other \in Team |-> IF other = team THEN "failed" ELSE "absent"]

LEMMA FailureTyped ==
  ASSUME NEW team \in Team
  PROVE  FailureOf(team) \in [Team -> ReviewOutcome] /\ Ending(FailureOf(team)) = {team}
  BY DEF FailureOf, ReviewOutcome, Ending

LEMMA PublishFailureTypes ==
  ASSUME TypeInv, NEW team \in Team, PublishFailure(team)
  PROVE  TypeInv'
  <1> DEFINE e == [teams[team] EXCEPT !.result = "failed"]
  <1>1. teams[team] # NoTeam
    BY DEF PublishFailure, AssessmentOpen
  <1>2. teams[team] \in [term : Term, intake : Term, members : SUBSET Student,
                          result : Result]
    BY <1>1, TeamTyped DEF TypeInv
  <1>3. e \in TeamRow /\ e.term = teams[team].term /\ e.intake = teams[team].intake
    BY <1>2 DEF TeamRow, Result
  <1>4. teams' = [teams EXCEPT ![team] = e]
    BY DEF PublishFailure
  <1> HIDE DEF e
  <1>5. /\ teams' \in [Team -> TeamRow]
        /\ \A other \in Team : /\ teams'[other] = NoTeam <=> teams[other] = NoTeam
                               /\ teams'[other].term = teams[other].term
                               /\ teams'[other].intake = teams[other].intake
    BY <1>1, <1>3, <1>4, TeamChange
  <1>6. /\ termRow' \in [Team -> [Term -> RowState]]
        /\ \A other \in Team \ {team} : termRow'[other] = termRow[other]
    BY DEF PublishFailure, TypeInv, TypeOK, RowState
  <1>7. TeamTerms'
    BY <1>1, <1>5, <1>6 DEF TypeInv, TeamTerms
  <1>8. participations' \subseteq Participation /\ placements' \subseteq Placement
    BY FailureTyped, ClosedShape, ClosedPlacementShape DEF PublishFailure, TypeInv, FailureOf
  <1>9. requests' \in [Request -> Dialog] /\ DialogsOpen'
    BY TouchTyped DEF PublishFailure, TypeInv
  <1> QED BY <1>5, <1>6, <1>7, <1>8, <1>9 DEF PublishFailure, TypeInv, TypeOK

LEMMA NextTypes == TypeInv /\ [Next]_vars => TypeInv'
  <1> SUFFICES ASSUME TypeInv, [Next]_vars PROVE TypeInv'
    OBVIOUS
  <1>1. CASE UNCHANGED vars
    BY <1>1 DEF vars, TypeInv, TypeOK, DialogsOpen, TeamTerms
  <1> QED BY <1>1, PreviewTypes, ActivationTypes, ActivateDirectlyTypes, CloseDialogTypes,
             TermsTypes, CreateTeamTypes, UpdateRosterTypes, DeleteTeamTypes, ResultTypes,
             PublishFailureTypes DEF Next

LEMMA TypesAlways == Spec => []TypeInv
  BY InitTypes, NextTypes, PTL DEF Spec

\* Terms, teams, participations, placements and dialogs stay well formed through
\* every activation, roster change and deletion; the active term always exists
\* (SemesterStatusView.delete, switch_active_semester).
THEOREM TypeOKAlways == Spec => []TypeOK
  <1>1. TypeInv => TypeOK
    BY DEF TypeInv
  <1> QED BY <1>1, TypesAlways, PTL

------------------------------------------------------------------------------
(* The log of activations *)

\* Only a switch of the active term writes the log, and it appends one entry.
LEMMA LogSteps ==
  ASSUME TypeInv, [Next]_vars
  PROVE  \/ UNCHANGED <<active, log>>
         \/ \E identity \in Identity, t \in Term :
              /\ identity # <<NoRequest, 0>> =>
                   ~\E i \in DOMAIN log : log[i].request = identity
              /\ t # active /\ active' = t
              /\ log' = Append(log, [from |-> active, to |-> t, request |-> identity])
  <1>1. ASSUME NEW r \in Request, ActivateTerm(r) \/ CreateActiveTerm(r)
        PROVE  \E identity \in Identity, t \in Term :
                 /\ ~\E i \in DOMAIN log : log[i].request = identity
                 /\ t # active /\ active' = t
                 /\ log' = Append(log, [from |-> active, to |-> t, request |-> identity])
    <2>1. requests[r] \in Dialog /\ requests[r].open
      BY <1>1 DEF TypeInv, TypeOK, ActivateTerm, CreateActiveTerm
    <2>2. requests[r].target \in Term /\ requests[r].number <= MaxDialog
      BY <2>1 DEF TypeInv, DialogsOpen
    <2>3. IdentityOf(r) \in Identity
      BY <2>1, <2>2, BoundAssumption DEF Dialog, IdentityOf, Identity
    <2>4. ~Replayed(r) /\ Switch(IdentityOf(r), requests[r].target, requests[r].forced)
      BY <1>1 DEF ActivateTerm, CreateActiveTerm
    <2> QED BY <2>2, <2>3, <2>4 DEF Replayed, Switch
  <1>2. ASSUME NEW t \in Term, ActivateDirectly(t)
        PROVE  /\ <<NoRequest, 0>> \in Identity
               /\ t # active /\ active' = t
               /\ log' = Append(log, [from |-> active, to |-> t,
                                      request |-> <<NoRequest, 0>>])
    BY <1>2 DEF ActivateDirectly, Switch, Identity
  <1>3. ASSUME NEW r \in Request, NEW t \in Term, Preview(r, t)
        PROVE  UNCHANGED <<active, log>>
    BY <1>3 DEF Preview
  <1>4. ASSUME NEW r \in Request, CloseDialog(r) PROVE UNCHANGED <<active, log>>
    BY <1>4 DEF CloseDialog
  <1>5. ASSUME NEW t \in Term, CreateTerm(t) \/ DeleteTerm(t) PROVE UNCHANGED <<active, log>>
    BY <1>5 DEF CreateTerm, DeleteTerm
  <1>6. ASSUME NEW team \in Team, NEW S \in SUBSET Student,
               CreateTeam(team, S) \/ UpdateRoster(team, S)
        PROVE  UNCHANGED <<active, log>>
    BY <1>6 DEF CreateTeam, UpdateRoster
  <1>7. ASSUME NEW team \in Team, \/ DeleteTeam(team) \/ PublishPass(team)
                                 \/ ReviewDocuments(team) \/ PublishFailure(team)
        PROVE  UNCHANGED <<active, log>>
    BY <1>7 DEF DeleteTeam, PublishPass, ReviewDocuments, PublishFailure
  <1>8. CASE UNCHANGED vars
    BY <1>8 DEF vars
  <1>9. CASE \E r \in Request : ActivateTerm(r) \/ CreateActiveTerm(r)
    BY <1>1, <1>9
  <1>10. CASE \E t \in Term : ActivateDirectly(t)
    BY <1>2, <1>10
  <1> QED BY <1>3, <1>4, <1>5, <1>6, <1>7, <1>8, <1>9, <1>10 DEF Next

LEMMA AppendEntry ==
  ASSUME TypeOK, NEW e, log' = Append(log, e)
  PROVE  /\ Len(log) \in Nat /\ DOMAIN log = 1 .. Len(log)
         /\ DOMAIN log' = DOMAIN log \cup {Len(log) + 1} /\ Len(log) + 1 \notin DOMAIN log
         /\ Len(log') = Len(log) + 1
         /\ \A i \in DOMAIN log : log'[i] = log[i]
         /\ log'[Len(log) + 1] = e
  <1>1. log \in Seq(LogEntry)
    BY DEF TypeOK
  <1> QED BY <1>1

LEMMA NextEffectOnce == TypeInv /\ EffectOnce /\ [Next]_vars => EffectOnce'
  <1> SUFFICES ASSUME TypeInv, EffectOnce, [Next]_vars PROVE EffectOnce'
    OBVIOUS
  <1>1. CASE UNCHANGED <<active, log>>
    BY <1>1 DEF EffectOnce
  <1>2. ASSUME NEW identity, NEW t,
               identity # <<NoRequest, 0>> =>
                 ~\E i \in DOMAIN log : log[i].request = identity,
               log' = Append(log, [from |-> active, to |-> t, request |-> identity])
        PROVE  EffectOnce'
    <2> DEFINE e == [from |-> active, to |-> t, request |-> identity]
    <2>1. e.request = identity /\ log' = Append(log, e)
      BY <1>2
    <2> HIDE DEF e
    <2>2. /\ DOMAIN log' = DOMAIN log \cup {Len(log) + 1}
          /\ \A i \in DOMAIN log : log'[i] = log[i]
          /\ log'[Len(log) + 1] = e
      BY <2>1, AppendEntry DEF TypeInv
    <2> QED BY <1>2, <2>1, <2>2 DEF EffectOnce
  <1> QED BY <1>1, <1>2, LogSteps

\* An activation with an identity takes effect once, however often its request is
\* repeated (switch_active_semester replays the recorded transition).
THEOREM EffectOnceAlways == Spec => []EffectOnce
  <1>1. Init => EffectOnce
    BY DEF Init, EffectOnce
  <1> QED BY <1>1, NextEffectOnce, TypesAlways, PTL DEF Spec

\* The periods implement their abstract log: every step of the system is one
\* activation of another term, recorded once, or leaves both alone
\* (SemesterTransitionLog, switch_active_semester).
THEOREM TermsExplainedAlways == Spec => TermsExplained
  <1> DEFINE entries == [i \in DOMAIN log |-> [from |-> log[i].from, to |-> log[i].to]]
  <1>1. Init => History!Init
    BY DEF Init, History!Init
  <1>2. TypeInv /\ [Next]_vars => [History!Next]_<<active, entries>>
    <2> SUFFICES ASSUME TypeInv, [Next]_vars PROVE [History!Next]_<<active, entries>>
      OBVIOUS
    <2>1. CASE UNCHANGED <<active, log>>
      BY <2>1
    <2>2. ASSUME NEW identity \in Identity, NEW t \in Term, t # active, active' = t,
                 log' = Append(log, [from |-> active, to |-> t, request |-> identity])
          PROVE  History!Activate(t)
      <3> DEFINE e == [from |-> active, to |-> t, request |-> identity]
                 new == Append(entries, [from |-> active, to |-> t])
      <3>1. /\ Len(log) \in Nat /\ DOMAIN log = 1 .. Len(log)
            /\ DOMAIN log' = DOMAIN log \cup {Len(log) + 1} /\ Len(log) + 1 \notin DOMAIN log
            /\ \A i \in DOMAIN log : log'[i] = log[i]
            /\ log'[Len(log) + 1] = e
        <4> HIDE DEF e
        <4>1. log' = Append(log, e)
          BY <2>2 DEF e
        <4> QED BY <4>1, AppendEntry DEF TypeInv
      <3>2. /\ entries \in Seq([from : Term \cup {NoTerm}, to : Term])
            /\ Len(entries) = Len(log)
        <4> DEFINE E == [from : Term \cup {NoTerm}, to : Term]
        <4>1. \A i \in 1 .. Len(log) : log[i] \in LogEntry
          BY DEF TypeInv, TypeOK
        <4>2. \A i \in 1 .. Len(log) : [from |-> log[i].from, to |-> log[i].to] \in E
          BY <4>1 DEF LogEntry
        <4>3. entries \in [1 .. Len(log) -> E] /\ Len(log) \in Nat
          BY <3>1, <4>2
        <4> HIDE DEF E, entries
        <4>4. entries \in Seq(E) /\ Len(entries) = Len(log)
          BY <4>3
        <4> QED BY <4>4 DEF E
      <3>3. /\ DOMAIN new = DOMAIN log \cup {Len(log) + 1}
            /\ \A i \in DOMAIN log : new[i] = entries[i]
            /\ new[Len(log) + 1] = [from |-> active, to |-> t]
        BY <3>1, <3>2
      <3>4. new = [i \in DOMAIN new |-> new[i]]
        BY <3>2
      <3>5. entries' = new
        BY <3>1, <3>3, <3>4
      <3> QED BY <2>2, <3>5 DEF History!Activate
    <2> QED BY <2>1, <2>2, LogSteps DEF History!Next
  <1> QED BY <1>1, <1>2, TypesAlways, PTL DEF Spec, TermsExplained, History!Spec

------------------------------------------------------------------------------
(* What a step may not do to teams and their term rows *)

\* A switch leaves closed rows alone, and only moves a team into a fresh row.
LEMMA ApplyKeepsClosed ==
  ASSUME TypeInv, NEW t \in Term, ApplyTransition(active, t),
         NEW team \in Team, NEW u \in Term, Closed(team, u)
  PROVE  termRow'[team][u] = termRow[team][u]
  <1> DEFINE review == Review(active, t)
  <1>1. CASE ~Continues(active, t) /\ ~ClosesCycle(active, t)
    BY <1>1 DEF ApplyTransition, cohortVars
  <1>2. CASE Continues(active, t) \/ ClosesCycle(active, t)
    <2>1. termRow' = RowsAfter(active, t, review)
      BY <1>2 DEF ApplyTransition
    <2>2. review[team] = "moved" => termRow[team][t] = "none"
      BY <1>2 DEF ApplyTransition, Moving
    <2>3. review[team] = "moved" => t # u
      BY <2>2 DEF Closed
    <2> DEFINE kept == IF Closed(team, active) THEN termRow[team]
                       ELSE [termRow[team] EXCEPT ![active] = review[team]]
    <2>4. kept[u] = termRow[team][u] /\ DOMAIN kept = Term
      BY DEF TypeInv, TypeOK, Closed
    <2>5. termRow'[team] = IF review[team] = "absent" THEN termRow[team]
                           ELSE IF review[team] = "moved" THEN [kept EXCEPT ![t] = "open"]
                                ELSE kept
      BY <2>1 DEF RowsAfter
    <2> HIDE DEF kept, review
    <2> QED BY <2>3, <2>4, <2>5
  <1> QED BY <1>1, <1>2

\* Once the row of a team for a term is closed, no step changes it again
\* (TeamTermParticipation.closed_at in apply_capstone_transition, the serializers
\* and close_placements).
THEOREM ClosedRowsFinalAlways == Spec => ClosedRowsFinal
  <1> DEFINE Final == \A team \in Team, t \in Term :
                        Closed(team, t) => termRow'[team][t] = termRow[team][t]
  <1>1. TypeInv /\ [Next]_vars => Final
    <2> SUFFICES ASSUME TypeInv, [Next]_vars PROVE Final
      OBVIOUS
    <2>1. CASE UNCHANGED termRow
      BY <2>1
    <2>2. ASSUME NEW t \in Term, ApplyTransition(active, t)
          PROVE  Final
      BY <2>2, ApplyKeepsClosed
    <2>3. ASSUME NEW r \in Request, ActivateTerm(r) \/ CreateActiveTerm(r)
          PROVE  Final
      <3>1. requests[r].target \in Term
        BY <2>3 DEF TypeInv, DialogsOpen, ActivateTerm, CreateActiveTerm
      <3>2. ApplyTransition(active, requests[r].target)
        BY <2>3 DEF ActivateTerm, CreateActiveTerm, Switch
      <3> QED BY <2>2, <3>1, <3>2
    <2>4. ASSUME NEW t \in Term, ActivateDirectly(t) PROVE Final
      BY <2>2, <2>4 DEF ActivateDirectly, Switch
    <2>5. ASSUME NEW team \in Team, NEW S, CreateTeam(team, S) PROVE Final
      <3>1. \A t \in Term : ~Closed(team, t)
        BY <2>5 DEF CreateTeam, TypeInv, TeamTerms, Closed
      <3> QED BY <2>5, <3>1 DEF CreateTeam, TypeInv, TypeOK
    <2>6. ASSUME NEW team \in Team, DeleteTeam(team) PROVE Final
      BY <2>6 DEF DeleteTeam, TypeInv, TypeOK
    <2>7. ASSUME NEW team \in Team, PublishFailure(team) PROVE Final
      BY <2>7 DEF PublishFailure, AssessmentOpen, TypeInv, TypeOK
    <2>8. ASSUME NEW r \in Request, (\E t \in Term : Preview(r, t)) \/ CloseDialog(r)
          PROVE  Final
      BY <2>1, <2>8 DEF Preview, CloseDialog, cohortVars
    <2>9. ASSUME NEW t \in Term, CreateTerm(t) \/ DeleteTerm(t) PROVE Final
      BY <2>1, <2>9 DEF CreateTerm, DeleteTerm, cohortVars
    <2>10. ASSUME NEW team \in Team, NEW S,
                  UpdateRoster(team, S) \/ PublishPass(team) \/ ReviewDocuments(team)
           PROVE  Final
      BY <2>1, <2>10 DEF UpdateRoster, PublishPass, ReviewDocuments
    <2>11. CASE UNCHANGED vars
      BY <2>1, <2>11 DEF vars
    <2> HIDE DEF Final
    <2> QED BY <2>3, <2>4, <2>5, <2>6, <2>7, <2>8, <2>9, <2>10, <2>11 DEF Next
  <1> QED BY <1>1, TypesAlways, PTL DEF Spec, ClosedRowsFinal

\* A switch moves exactly the teams of its review.
LEMMA ApplyMoves ==
  ASSUME TypeInv, NEW t \in Term, ApplyTransition(active, t), NEW team \in Team,
         teams'[team].term # teams[team].term
  PROVE  team \in Moving(Review(active, t)) /\ active # NoTerm /\ team \in Cohort(active)
  <1>1. CASE ~Continues(active, t) /\ ~ClosesCycle(active, t)
    BY <1>1 DEF ApplyTransition, cohortVars
  <1>2. CASE Continues(active, t) \/ ClosesCycle(active, t)
    <2>1. team \in Moving(Review(active, t))
      BY <1>2 DEF ApplyTransition
    <2> QED BY <2>1, MovingTeam DEF Cohort, TypeInv
  <1> QED BY <1>1, <1>2

\* A team reaches its second term only through a dialog that showed it moving:
\* neither a switch without a dialog nor a dialog over an older review moves it
\* (build_semester_transition_preview, switch_active_semester).
THEOREM MovedAsReviewedAlways == Spec => MovedAsReviewed
  <1> DEFINE Reviewed ==
               \A team \in Team : teams'[team].term \notin {teams[team].term, NoTerm}
                                     /\ teams[team].term # NoTerm
                 => \E r \in Request : /\ requests[r].open
                                        /\ requests[r].review[team] = "moved"
                                        /\ Len(log') > Len(log)
                                        /\ log'[Len(log')].request = IdentityOf(r)
  <1>1. TypeInv /\ [Next]_vars => Reviewed
    <2> DEFINE Moved(team, r) == /\ requests[r].open
                                 /\ requests[r].review[team] = "moved"
                                 /\ Len(log') > Len(log)
                                 /\ log'[Len(log')].request = IdentityOf(r)
               Goes(team) == /\ teams'[team].term \notin {teams[team].term, NoTerm}
                             /\ teams[team].term # NoTerm
    <2> SUFFICES ASSUME TypeInv, [Next]_vars, NEW team \in Team, Goes(team)
                 PROVE  \E r \in Request : Moved(team, r)
      OBVIOUS
    <2>1. ASSUME NEW r \in Request, ActivateTerm(r) \/ CreateActiveTerm(r)
          PROVE  Moved(team, r)
      <3> DEFINE t == requests[r].target
                 e == [from |-> active, to |-> t, request |-> IdentityOf(r)]
      <3>1. /\ t \in Term /\ requests[r].open
            /\ ApplyTransition(active, t) /\ log' = Append(log, e)
        BY <2>1 DEF TypeInv, DialogsOpen, ActivateTerm, CreateActiveTerm, Switch
      <3>2. team \in Moving(Review(active, t)) /\ active # NoTerm
        BY <3>1, ApplyMoves
      <3>3. requests[r].review = Review(active, t)
        BY <2>1, <3>2 DEF ActivateTerm, CreateActiveTerm, RevisionMatches
      <3>4. e.request = IdentityOf(r)
        OBVIOUS
      <3> HIDE DEF e
      <3>5. Len(log') > Len(log) /\ log'[Len(log')] = e
        BY <3>1, AppendEntry DEF TypeInv
      <3> QED BY <3>1, <3>2, <3>3, <3>4, <3>5 DEF Moving
    <2>2. ASSUME NEW t \in Term, ActivateDirectly(t) PROVE FALSE
      BY <2>2, ApplyMoves DEF ActivateDirectly, Switch
    <2>3. ~ UNCHANGED teams
      OBVIOUS
    <2>4. ASSUME NEW other \in Team, NEW S, CreateTeam(other, S) PROVE FALSE
      BY <2>4, NoTeamFacts DEF CreateTeam, TypeInv, TypeOK
    <2>5. ASSUME NEW other \in Team, DeleteTeam(other) PROVE FALSE
      BY <2>5, NoTeamFacts DEF DeleteTeam, TypeInv, TypeOK
    <2>6. ASSUME NEW other \in Team, NEW S \in SUBSET Student,
                 \/ UpdateRoster(other, S) \/ PublishPass(other)
                 \/ ReviewDocuments(other) \/ PublishFailure(other)
          PROVE  FALSE
      <3>1. ASSUME NEW e, teams' = [teams EXCEPT ![other] = e], e.term = teams[other].term
            PROVE  FALSE
        BY <3>1 DEF TypeInv, TypeOK
      <3>2. teams[other] # NoTeam
        BY <2>6, NoTeamFacts DEF UpdateRoster, PublishPass, ReviewDocuments, PublishFailure,
                                 AssessmentOpen
      <3>3. teams[other] \in [term : Term, intake : Term, members : SUBSET Student,
                              result : Result]
        BY <3>2, TeamTyped DEF TypeInv
      <3>4. CASE UpdateRoster(other, S)
        <4>1. [teams[other] EXCEPT !.members = S].term = teams[other].term
          BY <3>3
        <4> QED BY <3>1, <3>4, <4>1 DEF UpdateRoster
      <3>5. \A v : [teams[other] EXCEPT !.result = v].term = teams[other].term
        BY <3>3
      <3>6. CASE PublishPass(other)
        BY <3>1, <3>5, <3>6 DEF PublishPass
      <3>7. CASE ReviewDocuments(other)
        BY <3>1, <3>5, <3>7 DEF ReviewDocuments
      <3>8. CASE PublishFailure(other)
        BY <3>1, <3>5, <3>8 DEF PublishFailure
      <3> QED BY <2>6, <3>4, <3>6, <3>7, <3>8
    <2>7. ASSUME NEW r \in Request, (\E t \in Term : Preview(r, t)) \/ CloseDialog(r)
          PROVE  FALSE
      BY <2>3, <2>7 DEF Preview, CloseDialog, cohortVars
    <2>8. ASSUME NEW t \in Term, CreateTerm(t) \/ DeleteTerm(t) PROVE FALSE
      BY <2>3, <2>8 DEF CreateTerm, DeleteTerm, cohortVars
    <2>9. CASE UNCHANGED vars
      BY <2>3, <2>9 DEF vars
    <2> HIDE DEF Moved, Goes
    <2> QED BY <2>1, <2>2, <2>4, <2>5, <2>6, <2>7, <2>8, <2>9 DEF Next
  <1> QED BY <1>1, TypesAlways, PTL DEF Spec, MovedAsReviewed

------------------------------------------------------------------------------
(* The least number of a set, from the well-foundedness of < *)

LEMMA LeastOf ==
  ASSUME NEW R, IsWellFoundedOn(R, Nat), \A x, y \in Nat : y < x => <<y, x>> \in R,
         NEW T \in SUBSET Nat, T # {}
  PROVE  \E m \in T : \A k \in T : m <= k
  <1>1. \E x \in T : \A y \in T : ~ (<<y, x>> \in R)
    BY WFMin
  <1>2. PICK x \in T : \A y \in T : ~ (<<y, x>> \in R)
    BY <1>1
  <1>3. ASSUME NEW y \in T PROVE ~ (y < x)
    <2>1. x \in Nat /\ y \in Nat
      OBVIOUS
    <2> QED BY <1>2, <2>1, Zenon
  <1>4. ASSUME NEW y \in T PROVE x <= y
    <2>1. x \in Nat /\ y \in Nat
      OBVIOUS
    <2> QED BY <1>3, <2>1
  <1> QED BY <1>4

LEMMA Least ==
  ASSUME NEW T \in SUBSET Nat, T # {}
  PROVE  \E m \in T : \A k \in T : m <= k
  <1>1. IsWellFoundedOn(OpToRel(<, Nat), Nat)
    BY NatLessThanWellFounded
  <1>2. \A x, y \in Nat : y < x => <<y, x>> \in OpToRel(<, Nat)
    BY DEF OpToRel
  <1> QED BY <1>1, <1>2, LeastOf, Zenon

------------------------------------------------------------------------------
(* The cohort: participations, placements and rosters *)

\* The student had the intake of p, and failed it, before that of q.
Before(p, q) == p.number < q.number /\ p.intake < q.intake /\ p.state = "failed"

OrderedIn(P) == \A p, q \in P : p.student = q.student => p = q \/ Before(p, q) \/ Before(q, p)

NumberedIn(P) ==
  \A p \in P : /\ p.number >= 1
               /\ p.number > 1 => \E q \in P : q.student = p.student /\ q.number = p.number - 1

\* Who is placed takes part, in that intake and without an outcome yet.
OpenIsActive ==
  \A q \in placements : q.open => \E p \in participations :
    p.student = q.student /\ p.intake = q.intake /\ p.state = "active"

CohortInv == /\ TypeInv
             /\ OrderedIn(participations) /\ NumberedIn(participations)
             /\ OpenIsActive /\ SinglePlacement /\ RosterPlaced

LatestIn(P, s) ==
  {p \in P : p.student = s /\ \A q \in P : q.student = s => q.number <= p.number}

\* A student who takes part has a latest participation.
LEMMA LatestExists ==
  ASSUME NEW P \in SUBSET Participation, OrderedIn(P), NEW p \in P
  PROVE  LatestIn(P, p.student) # {}
  <1> DEFINE T == {MaxTerm - q.intake : q \in {r \in P : r.student = p.student}}
  <1>1. \A q \in P : q.intake \in 1 .. MaxTerm /\ q.number \in Nat
    BY DEF Participation, Term
  <1>2. T \in SUBSET Nat /\ T # {}
    BY <1>1, BoundAssumption
  <1> HIDE DEF T
  <1>3. PICK m \in T : \A k \in T : m <= k
    BY <1>2, Least
  <1> USE DEF T
  <1>4. PICK q \in P : q.student = p.student /\ m = MaxTerm - q.intake
    OBVIOUS
  <1>5. ASSUME NEW r \in P, r.student = p.student
        PROVE  r.number <= q.number
    <2>1. MaxTerm - q.intake <= MaxTerm - r.intake
      BY <1>3, <1>4, <1>5
    <2>2. r.intake <= q.intake
      BY <2>1, <1>1, BoundAssumption
    <2>3. r = q \/ Before(r, q) \/ Before(q, r)
      BY <1>4, <1>5 DEF OrderedIn
    <2> QED BY <1>1, <2>2, <2>3 DEF Before
  <1> QED BY <1>4, <1>5 DEF LatestIn

\* There is one latest participation, nothing comes after it, and all others failed.
LEMMA LatestUnique ==
  ASSUME NEW P \in SUBSET Participation, OrderedIn(P), NEW s, NEW p \in LatestIn(P, s)
  PROVE  /\ p \in P /\ p.student = s /\ LatestIn(P, s) = {p}
         /\ \A q \in P : q.student = s => q = p \/ Before(q, p)
  <1>1. \A q \in P : q.number \in Nat
    BY DEF Participation
  <1>2. \A q \in P : q.student = s => q = p \/ Before(q, p)
    BY <1>1 DEF OrderedIn, LatestIn, Before
  <1> QED BY <1>1, <1>2 DEF LatestIn, Before

\* A participation without an outcome is the latest of its student.
LEMMA ActiveIsLatest ==
  ASSUME NEW P \in SUBSET Participation, OrderedIn(P), NEW p \in P, p.state = "active"
  PROVE  /\ p \in LatestIn(P, p.student)
         /\ \A q \in P : q.student = p.student => q = p \/ Before(q, p)
  <1>1. \A q \in P : q.number \in Nat
    BY DEF Participation
  <1>2. \A q \in P : q.student = p.student => q = p \/ Before(q, p)
    BY DEF OrderedIn, Before
  <1> QED BY <1>1, <1>2 DEF LatestIn, Before

------------------------------------------------------------------------------
(* Closing the placements of teams that end *)

\* Participations after the end of teams, one by one.
Ended(p, outcome) ==
  IF Leaves(p, outcome)
  THEN [p EXCEPT !.state = outcome[(CHOOSE q \in placements : LeavesWith(p, q, outcome)).team]]
  ELSE p

LEMMA EndedShape ==
  ASSUME TypeOK, NEW outcome \in [Team -> ReviewOutcome]
  PROVE  /\ ClosedParticipations(outcome) = {Ended(p, outcome) : p \in participations}
         /\ \A p \in participations : Closes(p, Ended(p, outcome), outcome)
  <1>1. ClosedParticipations(outcome) = {Ended(p, outcome) : p \in participations}
    BY DEF ClosedParticipations, Leaves, LeavesWith, Ended
  <1>2. ASSUME NEW p \in participations
        PROVE  Closes(p, Ended(p, outcome), outcome)
    <2> DEFINE c == CHOOSE q \in placements : LeavesWith(p, q, outcome)
               e == outcome[c.team]
    <2>1. CASE Leaves(p, outcome)
      <3>1. LeavesWith(p, c, outcome)
        BY <2>1 DEF Leaves
      <3>2. e \in {"failed", "completed"}
        BY <3>1 DEF LeavesWith, Ending
      <3>3. Ended(p, outcome) = [p EXCEPT !.state = e] /\ p \in Participation
        BY <2>1 DEF TypeOK, Ended
      <3> HIDE DEF e
      <3> QED BY <2>1, <3>2, <3>3 DEF Participation, Closes
    <2>2. CASE ~Leaves(p, outcome)
      BY <2>2 DEF Ended, Closes
    <2> QED BY <2>1, <2>2
  <1> QED BY <1>1, <1>2

\* Only the one active participation of a student ends.
LEMMA LeavesActive ==
  ASSUME CohortInv, NEW outcome, NEW p \in participations, Leaves(p, outcome)
  PROVE  p.state = "active"
  <1>1. PICK q \in placements : LeavesWith(p, q, outcome)
    BY DEF Leaves
  <1>2. PICK r \in participations : r.student = q.student /\ r.intake = q.intake
                                    /\ r.state = "active"
    BY <1>1 DEF LeavesWith, CohortInv, OpenIsActive
  <1>3. r = p \/ Before(r, p) \/ Before(p, r)
    BY <1>1, <1>2 DEF LeavesWith, CohortInv, OrderedIn
  <1>4. r.intake = p.intake /\ p.intake \in Nat
    BY <1>1, <1>2, TermFacts DEF LeavesWith, CohortInv, TypeInv, TypeOK, Participation
  <1> QED BY <1>2, <1>3, <1>4 DEF Before

LEMMA CloseKeepsCohort ==
  ASSUME CohortInv, NEW outcome \in [Team -> ReviewOutcome],
         participations' = ClosedParticipations(outcome),
         placements' = ClosedPlacements(outcome),
         \A team \in Team : /\ teams'[team].members = teams[team].members
                            /\ teams'[team].intake = teams[team].intake
  PROVE  /\ OrderedIn(participations)' /\ NumberedIn(participations)'
         /\ OpenIsActive' /\ SinglePlacement' /\ RosterPlaced'
  <1> DEFINE E(p) == Ended(p, outcome)
  <1>1. participations' = {E(p) : p \in participations}
    BY EndedShape DEF CohortInv, TypeInv
  <1>2. \A p \in participations : Closes(p, E(p), outcome)
    BY EndedShape DEF CohortInv, TypeInv
  <1>3. \A q : (q \in placements' /\ q.open)
                 <=> (q \in placements /\ q.open /\ q.team \notin Ending(outcome))
    BY ClosedPlacementShape DEF CohortInv, TypeInv
  <1>4. \A p \in participations : Leaves(p, outcome) => p.state = "active"
    BY LeavesActive
  <1>5. \A p \in participations : /\ p.number \in Nat /\ p.intake \in Nat
                                  /\ p.student \in Student
    BY TermFacts DEF CohortInv, TypeInv, TypeOK, Participation
  <1> HIDE DEF E
  <1>6. OrderedIn(participations)'
    <2>1. ASSUME NEW p \in participations, NEW q \in participations, Before(p, q)
          PROVE  Before(E(p), E(q))
      <3>1. ~Leaves(p, outcome)
        BY <1>4, <2>1 DEF Before
      <3> QED BY <1>2, <2>1, <3>1 DEF Before, Closes
    <2>2. ASSUME NEW p \in participations, NEW q \in participations,
                 E(p).student = E(q).student
          PROVE  E(p) = E(q) \/ Before(E(p), E(q)) \/ Before(E(q), E(p))
      BY <1>2, <2>1, <2>2 DEF CohortInv, OrderedIn, Closes
    <2> QED BY <1>1, <2>2 DEF OrderedIn
  <1>7. NumberedIn(participations)'
    <2>1. ASSUME NEW p \in participations
          PROVE  /\ E(p).number >= 1
                 /\ E(p).number > 1 => \E q \in participations :
                      E(q).student = E(p).student /\ E(q).number = E(p).number - 1
      BY <1>2 DEF CohortInv, NumberedIn, Closes
    <2> QED BY <1>1, <2>1 DEF NumberedIn
  <1>8. OpenIsActive'
    <2>1. ASSUME NEW q \in placements', q.open
          PROVE  \E x \in participations' :
                   x.student = q.student /\ x.intake = q.intake /\ x.state = "active"
      <3>1. q \in placements /\ q.open /\ q.team \notin Ending(outcome)
        BY <1>3, <2>1
      <3>2. PICK p \in participations :
              p.student = q.student /\ p.intake = q.intake /\ p.state = "active"
        BY <3>1 DEF CohortInv, OpenIsActive
      <3>3. ~Leaves(p, outcome)
        BY <3>1, <3>2 DEF CohortInv, SinglePlacement, Leaves, LeavesWith
      <3>4. E(p) = p
        BY <1>2, <3>3 DEF Closes
      <3> QED BY <1>1, <3>2, <3>4
    <2> QED BY <2>1 DEF OpenIsActive
  <1>9. SinglePlacement'
    BY <1>3 DEF CohortInv, SinglePlacement
  <1>10. ASSUME NEW q \in placements', q.open
         PROVE  q.student \in teams'[q.team].members
    BY <1>3, <1>10 DEF CohortInv, RosterPlaced, TypeInv, TypeOK, Placement
  <1>11. ASSUME NEW team \in Team, NEW s \in teams'[team].members
         PROVE  \E x \in participations' :
                  /\ x.student = s /\ x.intake = teams'[team].intake
                  /\ (x.state = "active") <=>
                       ([student |-> s, intake |-> x.intake, team |-> team, open |-> TRUE]
                          \in placements')
    <2>1. PICK p \in participations :
            /\ p.student = s /\ p.intake = teams[team].intake
            /\ (p.state = "active") <=>
                 ([student |-> s, intake |-> p.intake, team |-> team, open |-> TRUE]
                    \in placements)
      BY <1>11 DEF CohortInv, RosterPlaced
    <2> DEFINE d == [student |-> s, intake |-> p.intake, team |-> team, open |-> TRUE]
    <2>2. d.open /\ d.team = team /\ d.student = s /\ d.intake = p.intake
      OBVIOUS
    <2>3. (p.state = "active") <=> (d \in placements)
      BY <2>1
    <2> HIDE DEF d
    <2>4. (E(p).state = "active") <=> (d \in placements')
      <3>1. CASE Leaves(p, outcome)
        <4>1. PICK q \in placements : LeavesWith(p, q, outcome)
          BY <3>1 DEF Leaves
        <4>2. d \in placements
          BY <1>4, <2>3, <3>1
        <4>3. d = q
          BY <2>1, <2>2, <4>1, <4>2 DEF LeavesWith, CohortInv, SinglePlacement
        <4>4. d \notin placements'
          BY <1>3, <2>2, <4>1, <4>3 DEF LeavesWith
        <4> QED BY <1>2, <3>1, <4>4 DEF Closes
      <3>2. CASE ~Leaves(p, outcome)
        <4>1. E(p) = p
          BY <1>2, <3>2 DEF Closes
        <4>2. d \in placements => team \notin Ending(outcome)
          BY <2>1, <2>2, <3>2 DEF Leaves, LeavesWith
        <4> QED BY <1>3, <2>2, <2>3, <4>1, <4>2
      <3> QED BY <3>1, <3>2
    <2>5. /\ E(p) \in participations' /\ E(p).student = s
          /\ E(p).intake = p.intake /\ E(p).intake = teams'[team].intake
      BY <1>1, <1>2, <2>1 DEF Closes
    <2> QED BY <2>4, <2>5 DEF d
  <1> QED BY <1>6, <1>7, <1>8, <1>9, <1>10, <1>11 DEF RosterPlaced

------------------------------------------------------------------------------
(* Confirming a roster *)

\* What validate_roster leaves of Eligible in the intake of the team: a newcomer,
\* a member of this intake who is not placed elsewhere, or a student after a failure.
MayJoin(student, intake, team) ==
  \/ Latest(student) = {}
  \/ \E p \in Latest(student) :
       \/ p.intake = intake /\ p.state = "active" /\ NotPlaced(student, intake, team)
       \/ p.state = "failed" /\ p.intake < intake

LEMMA EligibleMayJoin ==
  ASSUME TypeInv, NEW team \in Team, NEW x, NEW intake \in Term,
         NEW t, t \in {intake, intake + 1}, IntakeTerm(intake), Eligible(x, intake, t, team)
  PROVE  MayJoin(x, intake, team)
  <1>1. CASE IntakeTerm(t)
    <2>1. t = intake
      BY <1>1, TermFacts DEF IntakeTerm
    <2> QED BY <2>1 DEF Eligible, MayJoin, JoinsIntake
  <1>2. CASE ~IntakeTerm(t)
    BY <1>2 DEF Eligible, MayJoin
  <1> QED BY <1>1, <1>2

\* Who joins: a new participation, numbered after all others.
Joining(S, intake) ==
  {x \in S : ~\E p \in participations : p.student = x /\ p.intake = intake}
Joined(s, intake) ==
  [student |-> s, intake |-> intake, number |-> NextNumber(s), state |-> "active"]

LEMMA JoinedAfter ==
  ASSUME CohortInv, NEW team \in Team, NEW intake \in Term, NEW s \in Student,
         MayJoin(s, intake, team),
         ~\E p \in participations : p.student = s /\ p.intake = intake
  PROVE  /\ \A q \in participations : q.student = s => Before(q, Joined(s, intake))
         /\ Joined(s, intake).number >= 1
         /\ Joined(s, intake).number > 1 =>
              \E q \in participations : q.student = s /\ q.number = Joined(s, intake).number - 1
  <1> DEFINE P == participations
  <1>1. P \in SUBSET Participation /\ OrderedIn(P) /\ NumberedIn(P)
    BY DEF CohortInv, TypeInv, TypeOK
  <1>2. Latest(s) = LatestIn(P, s)
    BY DEF Latest, LatestIn
  <1>3. /\ Joined(s, intake).number = NextNumber(s) /\ Joined(s, intake).intake = intake
    BY DEF Joined
  <1>4. CASE Latest(s) = {}
    <2>1. ~\E q \in P : q.student = s
      BY <1>1, <1>2, <1>4, LatestExists
    <2> QED BY <1>3, <1>4, <2>1 DEF NextNumber
  <1>5. CASE Latest(s) # {}
    <2>1. PICK p \in Latest(s) : p.state = "failed" /\ p.intake < intake
      BY <1>5 DEF MayJoin, Latest
    <2>2. /\ p \in P /\ p.student = s /\ Latest(s) = {p}
          /\ \A q \in P : q.student = s => q = p \/ Before(q, p)
      BY <1>1, <1>2, <2>1, LatestUnique
    <2>3. NextNumber(s) = p.number + 1
      BY <1>5, <2>2 DEF NextNumber
    <2>4. p.number >= 1
      BY <1>1, <2>2 DEF NumberedIn
    <2>5. \A q \in P : q.number \in Nat /\ q.intake \in Nat
      BY <1>1, TermFacts DEF Participation
    <2>6. intake \in Nat
      BY TermFacts
    <2> QED BY <1>3, <2>1, <2>2, <2>3, <2>4, <2>5, <2>6 DEF Before
  <1> QED BY <1>4, <1>5

\* Who may join and takes part in another intake than the team's has failed there,
\* so an open placement of theirs is one in this intake and this team.
LEMMA PlacedHere ==
  ASSUME CohortInv, NEW team \in Team, NEW intake \in Term, NEW s \in Student,
         MayJoin(s, intake, team), NEW q \in placements, q.open, q.student = s
  PROVE  q.team = team /\ q.intake = intake
  <1> DEFINE P == participations
  <1>1. P \in SUBSET Participation /\ OrderedIn(P)
    BY DEF CohortInv, TypeInv, TypeOK
  <1>2. PICK r \in P : r.student = s /\ r.intake = q.intake /\ r.state = "active"
    BY DEF CohortInv, OpenIsActive
  <1>3. Latest(s) = LatestIn(P, s)
    BY DEF Latest, LatestIn
  <1>4. r \in Latest(s)
    BY <1>1, <1>2, <1>3, ActiveIsLatest
  <1>5. Latest(s) = {r}
    BY <1>1, <1>3, <1>4, LatestUnique
  <1>6. r.intake = intake /\ NotPlaced(s, intake, team)
    BY <1>2, <1>5 DEF MayJoin
  <1> QED BY <1>2, <1>6 DEF NotPlaced

PlacedAt(s, intake, team) ==
  [student |-> s, intake |-> intake, team |-> team, open |-> TRUE]

LEMMA ConfirmShape ==
  ASSUME TypeOK, NEW team \in Team, NEW S \in SUBSET Student, NEW intake \in Term
  PROVE  \A q : (q \in ConfirmedPlacements(team, S, intake) /\ q.open)
           <=> \/ q \in placements /\ q.open /\ (q.team = team => q.student \in S)
               \/ \E s \in S : q = PlacedAt(s, intake, team)
  <1> DEFINE left == {p \in placements : p.team = team /\ p.open /\ p.student \notin S}
             Shut(p) == [p EXCEPT !.open = FALSE]
             new == {PlacedAt(s, intake, team) : s \in S}
  <1>1. \A p \in left : ~Shut(p).open
    BY DEF TypeOK, Placement
  <1>2. \A q \in new : q.open
    BY DEF PlacedAt
  <1>3. ConfirmedPlacements(team, S, intake) = (placements \ left) \cup {Shut(p) : p \in left} \cup new
    BY DEF ConfirmedPlacements, PlacedAt
  <1>4. \A q : q \in new <=> \E s \in S : q = PlacedAt(s, intake, team)
    OBVIOUS
  <1>5. \A q \in placements : q \in left <=> q.team = team /\ q.open /\ q.student \notin S
    OBVIOUS
  <1>6. left \subseteq placements
    OBVIOUS
  <1> HIDE DEF left, Shut, new
  <1> QED BY <1>1, <1>2, <1>3, <1>4, <1>5, <1>6

LEMMA ConfirmKeepsCohort ==
  ASSUME CohortInv, NEW team \in Team, NEW S \in SUBSET Student, NEW intake \in Term,
         \A s \in S : MayJoin(s, intake, team),
         participations' = ConfirmedParticipations(S, intake),
         placements' = ConfirmedPlacements(team, S, intake),
         teams'[team].members = S, teams'[team].intake = intake,
         \A other \in Team \ {team} : teams'[other] = teams[other]
  PROVE  /\ OrderedIn(participations)' /\ NumberedIn(participations)'
         /\ OpenIsActive' /\ SinglePlacement' /\ RosterPlaced'
  <1> DEFINE New == {Joined(s, intake) : s \in Joining(S, intake)}
  <1>1. participations' = participations \cup New
    BY DEF ConfirmedParticipations, Joining, Joined
  <1>2. ASSUME NEW s \in Joining(S, intake)
        PROVE  /\ \A q \in participations : q.student = s => Before(q, Joined(s, intake))
               /\ Joined(s, intake).number >= 1
               /\ Joined(s, intake).number > 1 =>
                    \E q \in participations : /\ q.student = s
                                              /\ q.number = Joined(s, intake).number - 1
    BY JoinedAfter DEF Joining
  <1>3. \A s : /\ Joined(s, intake).student = s /\ Joined(s, intake).intake = intake
               /\ Joined(s, intake).state = "active"
    BY DEF Joined
  <1>4. \A q : (q \in placements' /\ q.open)
           <=> \/ q \in placements /\ q.open /\ (q.team = team => q.student \in S)
               \/ \E s \in S : q = PlacedAt(s, intake, team)
    BY ConfirmShape DEF CohortInv, TypeInv
  <1>5. \A s : /\ PlacedAt(s, intake, team).student = s /\ PlacedAt(s, intake, team).open
               /\ PlacedAt(s, intake, team).intake = intake
               /\ PlacedAt(s, intake, team).team = team
    BY DEF PlacedAt
  <1>6. OrderedIn(participations)'
    <2>1. ASSUME NEW p \in participations, NEW q \in participations, p.student = q.student
          PROVE  p = q \/ Before(p, q) \/ Before(q, p)
      BY <2>1 DEF CohortInv, OrderedIn
    <2>2. ASSUME NEW p \in participations, NEW q \in New, p.student = q.student
          PROVE  Before(p, q)
      BY <1>2, <1>3, <2>2
    <2>3. ASSUME NEW p \in New, NEW q \in New, p.student = q.student
          PROVE  p = q
      BY <1>3, <2>3
    <2> HIDE DEF New
    <2> QED BY <1>1, <2>1, <2>2, <2>3 DEF OrderedIn
  <1>7. NumberedIn(participations)'
    <2>1. ASSUME NEW p \in participations
          PROVE  /\ p.number >= 1
                 /\ p.number > 1 => \E q \in participations :
                      q.student = p.student /\ q.number = p.number - 1
      BY DEF CohortInv, NumberedIn
    <2>2. ASSUME NEW p \in New
          PROVE  /\ p.number >= 1
                 /\ p.number > 1 => \E q \in participations :
                      q.student = p.student /\ q.number = p.number - 1
      BY <1>2, <1>3
    <2> HIDE DEF New
    <2> QED BY <1>1, <2>1, <2>2 DEF NumberedIn
  <1>8. ASSUME NEW s \in S
        PROVE  \E p \in participations' :
                 p.student = s /\ p.intake = intake /\ p.state = "active"
    <2>1. CASE s \in Joining(S, intake)
      BY <1>1, <1>3, <2>1
    <2>2. CASE s \notin Joining(S, intake)
      <3>1. PICK p \in participations : p.student = s /\ p.intake = intake
        BY <2>2 DEF Joining
      <3>2. /\ participations \in SUBSET Participation /\ OrderedIn(participations)
            /\ Latest(s) = LatestIn(participations, s)
        BY DEF CohortInv, TypeInv, TypeOK, Latest, LatestIn
      <3>3. Latest(s) # {}
        BY <3>1, <3>2, LatestExists
      <3>4. PICK r \in Latest(s) :
              \/ r.intake = intake /\ r.state = "active"
              \/ r.state = "failed" /\ r.intake < intake
        BY <3>3 DEF MayJoin
      <3>5. r \in participations /\ r.student = s /\ (p = r \/ Before(p, r))
        BY <3>1, <3>2, <3>4, LatestUnique
      <3>6. p.intake \in Nat /\ r.intake \in Nat
        BY <3>2, <3>5, TermFacts DEF Participation
      <3>7. r = p /\ r.state = "active"
        BY <3>1, <3>4, <3>5, <3>6 DEF Before
      <3> QED BY <1>1, <3>1, <3>7
    <2> QED BY <2>1, <2>2
  <1>9. OpenIsActive'
    <2>1. ASSUME NEW q \in placements', q.open
          PROVE  \E p \in participations' :
                   p.student = q.student /\ p.intake = q.intake /\ p.state = "active"
      <3>1. CASE q \in placements
        BY <1>1, <2>1, <3>1 DEF CohortInv, OpenIsActive
      <3>2. CASE \E s \in S : q = PlacedAt(s, intake, team)
        BY <1>5, <1>8, <3>2
      <3> QED BY <1>4, <2>1, <3>1, <3>2
    <2> QED BY <2>1 DEF OpenIsActive
  <1>10. ASSUME NEW p \in placements, p.open, NEW s \in S, p.student = s
         PROVE  p = PlacedAt(s, intake, team)
    <2>1. p.team = team /\ p.intake = intake
      BY <1>10, PlacedHere
    <2>2. p \in Placement
      BY DEF CohortInv, TypeInv, TypeOK
    <2> QED BY <1>10, <2>1, <2>2 DEF Placement, PlacedAt
  <1>11. SinglePlacement'
    <2>1. ASSUME NEW p \in placements', NEW q \in placements', p.open, q.open,
                 p.student = q.student
          PROVE  p = q
      <3>1. CASE p \in placements /\ q \in placements
        BY <2>1, <3>1 DEF CohortInv, SinglePlacement
      <3>2. CASE p \in placements /\ \E s \in S : q = PlacedAt(s, intake, team)
        BY <1>5, <1>10, <2>1, <3>2
      <3>3. CASE q \in placements /\ \E s \in S : p = PlacedAt(s, intake, team)
        BY <1>5, <1>10, <2>1, <3>3
      <3>4. CASE /\ \E s \in S : p = PlacedAt(s, intake, team)
                 /\ \E s \in S : q = PlacedAt(s, intake, team)
        BY <1>5, <2>1, <3>4
      <3> QED BY <1>4, <2>1, <3>1, <3>2, <3>3, <3>4
    <2> QED BY <2>1 DEF SinglePlacement
  <1>12. ASSUME NEW q \in placements', q.open
         PROVE  q.student \in teams'[q.team].members
    <2>1. CASE q.team = team
      BY <1>4, <1>5, <1>12, <2>1
    <2>2. CASE q.team # team
      <3>1. q \in placements
        BY <1>4, <1>5, <1>12, <2>2
      <3>2. q.team \in Team \ {team}
        BY <2>2, <3>1 DEF CohortInv, TypeInv, TypeOK, Placement
      <3> QED BY <1>12, <3>1, <3>2 DEF CohortInv, RosterPlaced
    <2> QED BY <2>1, <2>2
  <1>13. ASSUME NEW other \in Team, NEW s \in teams'[other].members
         PROVE  \E p \in participations' :
                  /\ p.student = s /\ p.intake = teams'[other].intake
                  /\ (p.state = "active") <=>
                       ([student |-> s, intake |-> p.intake, team |-> other, open |-> TRUE]
                          \in placements')
    <2>1. CASE other = team
      <3>1. PICK p \in participations' :
              p.student = s /\ p.intake = intake /\ p.state = "active"
        BY <1>8, <1>13, <2>1
      <3>2. PlacedAt(s, intake, team) \in placements'
        BY <1>4, <1>13, <2>1
      <3> QED BY <2>1, <3>1, <3>2 DEF PlacedAt
    <2>2. CASE other # team
      <3>1. PICK p \in participations :
              /\ p.student = s /\ p.intake = teams[other].intake
              /\ (p.state = "active") <=>
                   ([student |-> s, intake |-> p.intake, team |-> other, open |-> TRUE]
                      \in placements)
        BY <1>13, <2>2 DEF CohortInv, RosterPlaced
      <3> DEFINE d == [student |-> s, intake |-> p.intake, team |-> other, open |-> TRUE]
      <3>2. d.open /\ d.team = other
        OBVIOUS
      <3> HIDE DEF d
      <3>3. d \in placements' <=> d \in placements
        BY <1>4, <1>5, <2>2, <3>2
      <3> USE DEF d
      <3> QED BY <1>1, <1>13, <2>2, <3>1, <3>3
    <2> QED BY <2>1, <2>2
  <1> QED BY <1>6, <1>7, <1>9, <1>11, <1>12, <1>13 DEF RosterPlaced

------------------------------------------------------------------------------
(* Deleting a team, and the whole step *)

LEMMA DeleteKeepsCohort ==
  ASSUME CohortInv, NEW team \in Team, DeleteTeam(team)
  PROVE  /\ OrderedIn(participations)' /\ NumberedIn(participations)'
         /\ OpenIsActive' /\ SinglePlacement' /\ RosterPlaced'
  <1>1. /\ participations' = participations \ Orphaned(team)
        /\ placements' = {q \in placements : q.team # team}
        /\ teams' = [teams EXCEPT ![team] = NoTeam]
    BY DEF DeleteTeam
  <1>2. \A p \in Orphaned(team) :
          /\ p.state = "active"
          /\ \A q \in placements : q.student = p.student /\ q.intake = p.intake
                                     => q.team = team
    BY DEF Orphaned
  <1>3. OrderedIn(participations)'
    BY <1>1 DEF CohortInv, OrderedIn
  <1>4. NumberedIn(participations)'
    <2>1. ASSUME NEW p \in participations', p.number > 1
          PROVE  \E q \in participations' : q.student = p.student /\ q.number = p.number - 1
      <3>1. p \in participations
        BY <1>1
      <3>2. PICK q \in participations : q.student = p.student /\ q.number = p.number - 1
        BY <2>1, <3>1 DEF CohortInv, NumberedIn
      <3>3. p.number \in Nat /\ q.number \in Nat
        BY <3>1 DEF CohortInv, TypeInv, TypeOK, Participation
      <3>4. Before(q, p)
        BY <3>1, <3>2, <3>3 DEF CohortInv, OrderedIn, Before
      <3>5. q \notin Orphaned(team)
        BY <1>2, <3>4 DEF Before
      <3> QED BY <1>1, <3>2, <3>5
    <2> QED BY <1>1, <2>1 DEF CohortInv, NumberedIn
  <1>5. OpenIsActive'
    BY <1>1, <1>2 DEF CohortInv, OpenIsActive
  <1>6. SinglePlacement'
    BY <1>1 DEF CohortInv, SinglePlacement
  <1>7. \A other \in Team \ {team} : teams'[other] = teams[other]
    BY <1>1 DEF CohortInv, TypeInv, TypeOK
  <1>8. teams'[team].members = {}
    BY <1>1, NoTeamFacts DEF CohortInv, TypeInv, TypeOK
  <1>9. ASSUME NEW q \in placements', q.open
        PROVE  q.student \in teams'[q.team].members
    <2>1. q \in placements /\ q.team \in Team \ {team}
      BY <1>1 DEF CohortInv, TypeInv, TypeOK, Placement
    <2> QED BY <1>7, <1>9, <2>1 DEF CohortInv, RosterPlaced
  <1>10. ASSUME NEW other \in Team, NEW s \in teams'[other].members
         PROVE  \E p \in participations' :
                  /\ p.student = s /\ p.intake = teams'[other].intake
                  /\ (p.state = "active") <=>
                       ([student |-> s, intake |-> p.intake, team |-> other, open |-> TRUE]
                          \in placements')
    <2>1. other # team
      BY <1>8, <1>10
    <2>2. PICK p \in participations :
            /\ p.student = s /\ p.intake = teams[other].intake
            /\ (p.state = "active") <=>
                 ([student |-> s, intake |-> p.intake, team |-> other, open |-> TRUE]
                    \in placements)
      BY <1>7, <1>10, <2>1 DEF CohortInv, RosterPlaced
    <2> DEFINE d == [student |-> s, intake |-> p.intake, team |-> other, open |-> TRUE]
    <2>3. d.student = s /\ d.intake = p.intake /\ d.team = other
      OBVIOUS
    <2>4. (p.state = "active") <=> (d \in placements)
      BY <2>2
    <2> HIDE DEF d
    <2>5. d \in placements' <=> d \in placements
      BY <1>1, <2>1, <2>3
    <2>6. p \notin Orphaned(team)
      BY <1>2, <2>1, <2>2, <2>3, <2>4
    <2>7. p \in participations' /\ p.intake = teams'[other].intake
      BY <1>1, <1>7, <2>1, <2>2, <2>6
    <2> QED BY <2>2, <2>4, <2>5, <2>7 DEF d
  <1> QED BY <1>3, <1>4, <1>5, <1>6, <1>9, <1>10 DEF RosterPlaced

\* A switch keeps rosters and intakes of all teams, and closes what ends.
LEMMA ApplyKeepsCohort ==
  ASSUME CohortInv, NEW t \in Term, ApplyTransition(active, t)
  PROVE  /\ OrderedIn(participations)' /\ NumberedIn(participations)'
         /\ OpenIsActive' /\ SinglePlacement' /\ RosterPlaced'
  <1> DEFINE review == Review(active, t)
  <1>1. CASE ~Continues(active, t) /\ ~ClosesCycle(active, t)
    BY <1>1 DEF ApplyTransition, cohortVars, CohortInv, OpenIsActive, SinglePlacement,
                RosterPlaced
  <1>2. CASE Continues(active, t) \/ ClosesCycle(active, t)
    <2>1. review \in [Team -> ReviewOutcome]
      BY ReviewTyped
    <2>2. /\ participations' = ClosedParticipations(review)
          /\ placements' = ClosedPlacements(review)
          /\ teams' = [team \in Team |->
               IF team \in Moving(review)
               THEN [teams[team] EXCEPT !.term = t, !.result = "none"] ELSE teams[team]]
      BY <1>2 DEF ApplyTransition
    <2>3. ASSUME NEW team \in Team
          PROVE  /\ teams'[team].members = teams[team].members
                 /\ teams'[team].intake = teams[team].intake
      <3>1. CASE team \in Moving(review)
        <4>1. teams[team] \in [term : Term, intake : Term, members : SUBSET Student,
                                result : Result]
          BY <3>1, MovingTeam, TeamTyped DEF CohortInv, TypeInv
        <4> QED BY <2>2, <3>1, <4>1
      <3>2. CASE team \notin Moving(review)
        BY <2>2, <3>2
      <3> QED BY <3>1, <3>2
    <2> QED BY <2>1, <2>2, <2>3, CloseKeepsCohort
  <1> QED BY <1>1, <1>2

LEMMA FailureKeepsCohort ==
  ASSUME CohortInv, NEW team \in Team, PublishFailure(team)
  PROVE  /\ OrderedIn(participations)' /\ NumberedIn(participations)'
         /\ OpenIsActive' /\ SinglePlacement' /\ RosterPlaced'
  <1>1. teams[team] \in [term : Term, intake : Term, members : SUBSET Student,
                         result : Result]
    BY TeamTyped DEF PublishFailure, AssessmentOpen, CohortInv, TypeInv
  <1>2. ASSUME NEW other \in Team
        PROVE  /\ teams'[other].members = teams[other].members
               /\ teams'[other].intake = teams[other].intake
    <2> DEFINE e == [teams[team] EXCEPT !.result = "failed"]
    <2>1. e.members = teams[team].members /\ e.intake = teams[team].intake
      BY <1>1
    <2>2. teams' = [teams EXCEPT ![team] = e]
      BY DEF PublishFailure
    <2> HIDE DEF e
    <2> QED BY <2>1, <2>2 DEF CohortInv, TypeInv, TypeOK
  <1>3. /\ participations' = ClosedParticipations(FailureOf(team))
        /\ placements' = ClosedPlacements(FailureOf(team))
    BY DEF PublishFailure, FailureOf
  <1> QED BY <1>2, <1>3, FailureTyped, CloseKeepsCohort

LEMMA CreateKeepsCohort ==
  ASSUME CohortInv, NEW team \in Team, NEW S \in SUBSET Student, CreateTeam(team, S)
  PROVE  /\ OrderedIn(participations)' /\ NumberedIn(participations)'
         /\ OpenIsActive' /\ SinglePlacement' /\ RosterPlaced'
  <1>1. active \in Term /\ IntakeTerm(active)
    BY DEF CreateTeam, CohortInv, TypeInv, TypeOK
  <1>2. \A s \in S : MayJoin(s, active, team)
    BY <1>1, EligibleMayJoin DEF CreateTeam, CohortInv
  <1>3. /\ teams'[team].members = S /\ teams'[team].intake = active
        /\ \A other \in Team \ {team} : teams'[other] = teams[other]
    BY DEF CreateTeam, CohortInv, TypeInv, TypeOK
  <1>4. /\ participations' = ConfirmedParticipations(S, active)
        /\ placements' = ConfirmedPlacements(team, S, active)
    BY DEF CreateTeam
  <1> QED BY <1>1, <1>2, <1>3, <1>4, ConfirmKeepsCohort

LEMMA RosterMayJoin ==
  ASSUME CohortInv, NEW team \in Team, NEW S \in SUBSET Student, UpdateRoster(team, S)
  PROVE  /\ teams[team].intake \in Term
         /\ \A s \in S : MayJoin(s, teams[team].intake, team)
         /\ participations' = ConfirmedParticipations(S, teams[team].intake)
         /\ placements' = ConfirmedPlacements(team, S, teams[team].intake)
         /\ teams'[team].members = S /\ teams'[team].intake = teams[team].intake
         /\ \A other \in Team \ {team} : teams'[other] = teams[other]
  <1>1. teams[team] \in [term : Term, intake : Term, members : SUBSET Student,
                         result : Result]
    BY TeamTyped DEF UpdateRoster, CohortInv, TypeInv
  <1>2. /\ teams[team].intake \in Term /\ IntakeTerm(teams[team].intake)
        /\ active \in {teams[team].intake, teams[team].intake + 1}
    BY <1>1 DEF UpdateRoster, CohortInv, TypeInv, TeamTerms
  <1>3. \A s \in S : MayJoin(s, teams[team].intake, team)
    BY <1>2, EligibleMayJoin DEF UpdateRoster, CohortInv
  <1>4. /\ teams'[team].members = S /\ teams'[team].intake = teams[team].intake
        /\ \A other \in Team \ {team} : teams'[other] = teams[other]
    BY <1>1 DEF UpdateRoster, CohortInv, TypeInv, TypeOK
  <1> QED BY <1>2, <1>3, <1>4 DEF UpdateRoster

\* Steps that leave participations, placements and rosters alone.
LEMMA StillCohort ==
  ASSUME CohortInv, UNCHANGED <<participations, placements>>,
         \A team \in Team : /\ teams'[team].members = teams[team].members
                            /\ teams'[team].intake = teams[team].intake
  PROVE  /\ OrderedIn(participations)' /\ NumberedIn(participations)'
         /\ OpenIsActive' /\ SinglePlacement' /\ RosterPlaced'
  <1>1. \A q \in placements : q.team \in Team
    BY DEF CohortInv, TypeInv, TypeOK, Placement
  <1>2. \A p \in placements : p.open => p.student \in teams'[p.team].members
    BY <1>1 DEF CohortInv, RosterPlaced
  <1>3. ASSUME NEW team \in Team, NEW s \in teams'[team].members
        PROVE  \E p \in participations :
                 /\ p.student = s /\ p.intake = teams'[team].intake
                 /\ (p.state = "active") <=>
                      ([student |-> s, intake |-> p.intake, team |-> team, open |-> TRUE]
                         \in placements)
    <2>1. s \in teams[team].members /\ teams'[team].intake = teams[team].intake
      BY <1>3
    <2>2. \E p \in participations :
            /\ p.student = s /\ p.intake = teams[team].intake
            /\ (p.state = "active") <=>
                 ([student |-> s, intake |-> p.intake, team |-> team, open |-> TRUE]
                    \in placements)
      BY <2>1 DEF CohortInv, RosterPlaced
    <2> QED BY <2>1, <2>2
  <1>4. RosterPlaced'
    BY <1>2, <1>3 DEF RosterPlaced
  <1> QED BY <1>4 DEF CohortInv, OpenIsActive, SinglePlacement

LEMMA ResultKeepsCohort ==
  ASSUME CohortInv, NEW team \in Team, PublishPass(team) \/ ReviewDocuments(team)
  PROVE  /\ OrderedIn(participations)' /\ NumberedIn(participations)'
         /\ OpenIsActive' /\ SinglePlacement' /\ RosterPlaced'
  <1>1. teams[team] # NoTeam
    BY NoTeamFacts DEF PublishPass, AssessmentOpen, ReviewDocuments
  <1>2. teams[team] \in [term : Term, intake : Term, members : SUBSET Student,
                         result : Result]
    BY <1>1, TeamTyped DEF CohortInv, TypeInv
  <1>3. PICK v : teams' = [teams EXCEPT ![team] = [teams[team] EXCEPT !.result = v]]
    <2>1. CASE PublishPass(team)
      BY <2>1 DEF PublishPass
    <2>2. CASE ReviewDocuments(team)
      BY <2>2 DEF ReviewDocuments
    <2> QED BY <2>1, <2>2
  <1> DEFINE e == [teams[team] EXCEPT !.result = v]
  <1>4. e.members = teams[team].members /\ e.intake = teams[team].intake
    BY <1>2
  <1>5. teams' = [teams EXCEPT ![team] = e]
    BY <1>3
  <1> HIDE DEF e
  <1>6. \A other \in Team : /\ teams'[other].members = teams[other].members
                            /\ teams'[other].intake = teams[other].intake
    BY <1>4, <1>5 DEF CohortInv, TypeInv, TypeOK
  <1>7. UNCHANGED <<participations, placements>>
    BY DEF PublishPass, ReviewDocuments
  <1> QED BY <1>6, <1>7, StillCohort

LEMMA NextCohort == CohortInv /\ [Next]_vars => CohortInv'
  <1> DEFINE Cohort2 == /\ OrderedIn(participations)' /\ NumberedIn(participations)'
                        /\ OpenIsActive' /\ SinglePlacement' /\ RosterPlaced'
  <1> SUFFICES ASSUME CohortInv, [Next]_vars PROVE Cohort2
    BY NextTypes DEF CohortInv
  <1>1. CASE UNCHANGED cohortVars
    BY <1>1, StillCohort DEF cohortVars
  <1>2. ASSUME NEW r \in Request, ActivateTerm(r) \/ CreateActiveTerm(r)
        PROVE  Cohort2
    <2>1. requests[r].target \in Term
      BY <1>2 DEF CohortInv, TypeInv, DialogsOpen, ActivateTerm, CreateActiveTerm
    <2>2. ApplyTransition(active, requests[r].target)
      BY <1>2 DEF ActivateTerm, CreateActiveTerm, Switch
    <2> QED BY <2>1, <2>2, ApplyKeepsCohort
  <1>3. ASSUME NEW t \in Term, ActivateDirectly(t) PROVE Cohort2
    BY <1>3, ApplyKeepsCohort DEF ActivateDirectly, Switch
  <1>4. ASSUME NEW r \in Request, (\E t \in Term : Preview(r, t)) \/ CloseDialog(r)
        PROVE  Cohort2
    BY <1>1, <1>4 DEF Preview, CloseDialog
  <1>5. ASSUME NEW t \in Term, CreateTerm(t) \/ DeleteTerm(t) PROVE Cohort2
    BY <1>1, <1>5 DEF CreateTerm, DeleteTerm
  <1>6. ASSUME NEW team \in Team, NEW S \in SUBSET Student, UpdateRoster(team, S)
        PROVE  Cohort2
    BY <1>6, RosterMayJoin, ConfirmKeepsCohort
  <1>7. CASE UNCHANGED vars
    BY <1>1, <1>7 DEF vars, cohortVars
  <1> HIDE DEF Cohort2
  <1>8. ASSUME NEW team \in Team, NEW S \in SUBSET Student, CreateTeam(team, S)
        PROVE  Cohort2
    BY <1>8, CreateKeepsCohort DEF Cohort2
  <1>9. ASSUME NEW team \in Team, DeleteTeam(team) PROVE Cohort2
    BY <1>9, DeleteKeepsCohort DEF Cohort2
  <1>10. ASSUME NEW team \in Team, PublishPass(team) \/ ReviewDocuments(team) PROVE Cohort2
    BY <1>10, ResultKeepsCohort DEF Cohort2
  <1>11. ASSUME NEW team \in Team, PublishFailure(team) PROVE Cohort2
    BY <1>11, FailureKeepsCohort DEF Cohort2
  <1> QED BY <1>2, <1>3, <1>4, <1>5, <1>6, <1>7, <1>8, <1>9, <1>10, <1>11 DEF Next

LEMMA CohortAlways == Spec => []CohortInv
  <1>1. Init => CohortInv
    <2> SUFFICES ASSUME Init PROVE CohortInv
      OBVIOUS
    <2>1. TypeInv
      BY InitTypes
    <2>2. participations = {} /\ placements = {}
      BY DEF Init
    <2>3. \A team \in Team : teams[team].members = {}
      BY NoTeamFacts DEF Init
    <2> QED BY <2>1, <2>2, <2>3 DEF CohortInv, OrderedIn, NumberedIn, OpenIsActive,
                                    SinglePlacement, RosterPlaced
  <1> QED BY <1>1, NextCohort, PTL DEF Spec

\* No student is placed with two teams at once, in any intake or term: every roster
\* change checks the placements, and every end of a team closes its own
\* (validate_roster, confirm_roster, close_placements).
THEOREM SinglePlacementAlways == Spec => []SinglePlacement
  <1>1. CohortInv => SinglePlacement
    BY DEF CohortInv
  <1> QED BY <1>1, CohortAlways, PTL

\* The members of a team take part in its intake and are placed with it exactly
\* while they have no outcome (confirm_roster, close_placements,
\* remove_unused_placements).
THEOREM RosterPlacedAlways == Spec => []RosterPlaced
  <1>1. CohortInv => RosterPlaced
    BY DEF CohortInv
  <1> QED BY <1>1, CohortAlways, PTL

------------------------------------------------------------------------------
(* The students' journeys *)

\* The journey of a student in a set of participations.
JourneyIn(P, s) ==
  IF LatestIn(P, s) = {} THEN [number |-> 0, intake |-> 0, state |-> "none"]
  ELSE LET p == CHOOSE p \in LatestIn(P, s) : TRUE
       IN [number |-> p.number, intake |-> p.intake, state |-> p.state]

LEMMA JourneyFacts ==
  ASSUME NEW P \in SUBSET Participation, OrderedIn(P), NEW s
  PROVE  /\ (\A p \in P : p.student # s) =>
              /\ JourneyIn(P, s).number = 0 /\ JourneyIn(P, s).intake = 0
              /\ JourneyIn(P, s).state = "none"
         /\ \A p \in LatestIn(P, s) : /\ JourneyIn(P, s).number = p.number
                                      /\ JourneyIn(P, s).intake = p.intake
                                      /\ JourneyIn(P, s).state = p.state
  <1>1. ASSUME NEW p \in LatestIn(P, s)
        PROVE  /\ JourneyIn(P, s).number = p.number
               /\ JourneyIn(P, s).intake = p.intake
               /\ JourneyIn(P, s).state = p.state
    <2>1. LatestIn(P, s) = {p}
      BY LatestUnique
    <2> QED BY <2>1 DEF JourneyIn
  <1>2. ASSUME \A p \in P : p.student # s
        PROVE  /\ JourneyIn(P, s).number = 0 /\ JourneyIn(P, s).intake = 0
               /\ JourneyIn(P, s).state = "none"
    <2>1. LatestIn(P, s) = {}
      BY <1>2 DEF LatestIn
    <2> QED BY <2>1 DEF JourneyIn
  <1> QED BY <1>1, <1>2

\* Only the participations of the student count.
LEMMA JourneyStays ==
  ASSUME NEW P, NEW Q, NEW s,
         {p \in P : p.student = s} = {p \in Q : p.student = s}
  PROVE  JourneyIn(P, s) = JourneyIn(Q, s)
  <1>1. \A p : (p \in P /\ p.student = s) <=> (p \in Q /\ p.student = s)
    <2>1. \A p : p \in {q \in P : q.student = s} <=> p \in {q \in Q : q.student = s}
      OBVIOUS
    <2> QED BY <2>1
  <1>2. LatestIn(P, s) = LatestIn(Q, s)
    BY <1>1 DEF LatestIn
  <1> QED BY <1>2 DEF JourneyIn

\* One step of one student's journey.
JourneySteps(old, new) == \/ new = old
                          \/ Journeys!Joins(old, new)
                          \/ Journeys!Concludes(old, new)
                          \/ Journeys!Withdraws(old, new)

LEMMA JoinSteps ==
  ASSUME CohortInv, OrderedIn(participations)', NEW team \in Team, NEW S \in SUBSET Student,
         NEW intake \in Term, \A s \in S : MayJoin(s, intake, team),
         participations' = ConfirmedParticipations(S, intake), participations' \subseteq Participation,
         NEW s \in Student
  PROVE  JourneySteps(JourneyIn(participations, s), JourneyIn(participations', s))
  <1> DEFINE P == participations
             Q == participations'
             j == Joined(s, intake)
  <1>1. Q = P \cup {Joined(x, intake) : x \in Joining(S, intake)}
    BY DEF ConfirmedParticipations, Joining, Joined
  <1>2. \A x : Joined(x, intake).student = x
    BY DEF Joined
  <1>3. P \in SUBSET Participation /\ OrderedIn(P)
    BY DEF CohortInv, TypeInv, TypeOK
  <1>4. CASE s \notin Joining(S, intake)
    <2>1. {p \in P : p.student = s} = {p \in Q : p.student = s}
      BY <1>1, <1>2, <1>4
    <2> QED BY <2>1, JourneyStays DEF JourneySteps
  <1>5. CASE s \in Joining(S, intake)
    <2>1. \A q \in P : q.student = s => Before(q, j)
      BY <1>5, JoinedAfter DEF Joining
    <2>2. j \in Q /\ j.student = s /\ j.intake = intake /\ j.state = "active"
          /\ j.number = NextNumber(s)
      BY <1>1, <1>5 DEF Joined
    <2>3. OrderedIn(Q) /\ Q \in SUBSET Participation
      BY DEF OrderedIn
    <2>4. j \in LatestIn(Q, s)
      BY <2>2, <2>3, ActiveIsLatest
    <2>5. /\ JourneyIn(Q, s).number = NextNumber(s) /\ JourneyIn(Q, s).intake = intake
          /\ JourneyIn(Q, s).state = "active"
      BY <2>2, <2>3, <2>4, JourneyFacts
    <2>6. Latest(s) = LatestIn(P, s)
      BY DEF Latest, LatestIn
    <2>7. intake \in Nat /\ intake > 0
      BY TermFacts
    <2>8. CASE Latest(s) = {}
      <3>1. \A p \in P : p.student # s
        BY <1>3, <2>6, <2>8, LatestExists
      <3>2. /\ JourneyIn(P, s).number = 0 /\ JourneyIn(P, s).intake = 0
            /\ JourneyIn(P, s).state = "none"
        BY <1>3, <3>1, JourneyFacts
      <3>3. NextNumber(s) = 1
        BY <2>8 DEF NextNumber
      <3> QED BY <2>5, <2>7, <3>2, <3>3 DEF JourneySteps, Journeys!Joins
    <2>9. CASE Latest(s) # {}
      <3>1. PICK p \in LatestIn(P, s) : TRUE
        BY <2>6, <2>9
      <3>2. p \in P /\ p.student = s /\ Latest(s) = {p}
        BY <1>3, <2>6, <3>1, LatestUnique
      <3>3. /\ JourneyIn(P, s).number = p.number /\ JourneyIn(P, s).intake = p.intake
            /\ JourneyIn(P, s).state = p.state
        BY <1>3, <3>1, JourneyFacts
      <3>4. NextNumber(s) = p.number + 1
        BY <2>9, <3>2 DEF NextNumber
      <3>5. p.intake < intake /\ p.state = "failed"
        BY <2>1, <2>2, <3>2 DEF Before
      <3> QED BY <2>5, <3>3, <3>4, <3>5 DEF JourneySteps, Journeys!Joins
    <2> QED BY <2>8, <2>9
  <1> QED BY <1>4, <1>5

LEMMA CloseSteps ==
  ASSUME CohortInv, OrderedIn(participations)', NEW outcome \in [Team -> ReviewOutcome],
         participations' = ClosedParticipations(outcome), participations' \subseteq Participation,
         NEW s \in Student
  PROVE  JourneySteps(JourneyIn(participations, s), JourneyIn(participations', s))
  <1> DEFINE P == participations
             Q == participations'
             E(p) == Ended(p, outcome)
  <1>1. Q = {E(p) : p \in P}
    BY EndedShape DEF CohortInv, TypeInv
  <1>2. \A p \in P : Closes(p, E(p), outcome)
    BY EndedShape DEF CohortInv, TypeInv
  <1>3. P \in SUBSET Participation /\ OrderedIn(P) /\ Q \in SUBSET Participation /\ OrderedIn(Q)
    BY DEF CohortInv, TypeInv, TypeOK, OrderedIn
  <1> HIDE DEF E
  <1>4. CASE \A p \in P : p.student = s => ~Leaves(p, outcome)
    <2>1. \A p \in P : p.student = s => E(p) = p
      BY <1>2, <1>4 DEF Closes
    <2>2. \A p \in P : E(p).student = p.student
      BY <1>2 DEF Closes
    <2>3. {p \in P : p.student = s} = {p \in Q : p.student = s}
      BY <1>1, <2>1, <2>2
    <2> QED BY <2>3, JourneyStays DEF JourneySteps
  <1>5. ASSUME NEW p \in P, p.student = s, Leaves(p, outcome)
        PROVE  JourneySteps(JourneyIn(P, s), JourneyIn(Q, s))
    <2>1. p.state = "active"
      BY <1>5, LeavesActive
    <2>2. p \in LatestIn(P, s)
      BY <1>3, <1>5, <2>1, ActiveIsLatest
    <2>3. /\ E(p).number = p.number /\ E(p).intake = p.intake /\ E(p).student = s
          /\ E(p).state \in {"failed", "completed"}
      BY <1>2, <1>5 DEF Closes
    <2>4. \A q \in P : q.student = s => q.number <= p.number
      BY <2>2 DEF LatestIn
    <2>5. \A q \in P : E(q).number = q.number /\ E(q).student = q.student
      BY <1>2 DEF Closes
    <2>6. E(p) \in LatestIn(Q, s)
      BY <1>1, <2>3, <2>4, <2>5 DEF LatestIn
    <2>7. /\ JourneyIn(P, s).number = p.number /\ JourneyIn(P, s).intake = p.intake
          /\ JourneyIn(P, s).state = "active"
      BY <1>3, <2>1, <2>2, JourneyFacts
    <2>8. /\ JourneyIn(Q, s).number = E(p).number /\ JourneyIn(Q, s).intake = E(p).intake
          /\ JourneyIn(Q, s).state = E(p).state
      BY <1>3, <2>6, JourneyFacts
    <2> QED BY <2>3, <2>7, <2>8 DEF JourneySteps, Journeys!Concludes
  <1> QED BY <1>4, <1>5

LEMMA DeleteSteps ==
  ASSUME CohortInv, NEW team \in Team, NEW s \in Student,
         participations' = participations \ Orphaned(team)
  PROVE  JourneySteps(JourneyIn(participations, s), JourneyIn(participations', s))
  <1> DEFINE P == participations
             Q == participations'
  <1>1. P \in SUBSET Participation /\ OrderedIn(P) /\ NumberedIn(P)
    BY DEF CohortInv, TypeInv, TypeOK
  <1>2. Q \in SUBSET Participation /\ OrderedIn(Q)
    BY <1>1 DEF OrderedIn
  <1>3. CASE \A p \in Orphaned(team) : p.student # s
    <2>1. {p \in P : p.student = s} = {p \in Q : p.student = s}
      BY <1>3
    <2> QED BY <2>1, JourneyStays DEF JourneySteps
  <1>4. ASSUME NEW p \in Orphaned(team), p.student = s
        PROVE  JourneySteps(JourneyIn(P, s), JourneyIn(Q, s))
    <2>1. p \in P /\ p.state = "active" /\ p \notin Q
      BY DEF Orphaned
    <2>2. p \in LatestIn(P, s) /\ \A q \in P : q.student = s => q = p \/ Before(q, p)
      BY <1>1, <1>4, <2>1, ActiveIsLatest
    <2>3. /\ JourneyIn(P, s).number = p.number /\ JourneyIn(P, s).intake = p.intake
          /\ JourneyIn(P, s).state = "active"
      BY <1>1, <2>1, <2>2, JourneyFacts
    <2>4. \A q \in P : q.number \in Nat /\ q.intake \in Nat /\ q.intake > 0
      <3>1. \A q \in P : q.number \in Nat /\ q.intake \in Term
        BY <1>1 DEF Participation
      <3>2. \A t \in Term : t \in Nat /\ t > 0
        BY TermFacts
      <3> QED BY <3>1, <3>2
    <2>5. \A q \in Q : q \in P /\ q # p
      BY <2>1
    <2>6. CASE p.number = 1
      <3>1. \A q \in Q : q.student # s
        BY <1>1, <2>2, <2>4, <2>5, <2>6 DEF NumberedIn, Before
      <3>2. /\ JourneyIn(Q, s).number = 0 /\ JourneyIn(Q, s).intake = 0
            /\ JourneyIn(Q, s).state = "none"
        BY <1>2, <3>1, JourneyFacts
      <3> QED BY <2>1, <2>3, <2>4, <2>6, <3>2 DEF JourneySteps, Journeys!Withdraws
    <2>7. CASE p.number # 1
      <3>1. PICK q \in P : q.student = s /\ q.number = p.number - 1
        BY <1>1, <1>4, <2>1, <2>4, <2>7 DEF NumberedIn
      <3>2. Before(q, p)
        BY <2>1, <2>2, <2>4, <3>1
      <3>3. q \in Q
        BY <2>1, <3>2 DEF Orphaned, Before
      <3>4. \A r \in Q : r.student = s => r.number <= q.number
        BY <2>1, <2>2, <2>4, <2>5, <3>1 DEF Before
      <3>5. q \in LatestIn(Q, s)
        BY <3>1, <3>3, <3>4 DEF LatestIn
      <3>6. /\ JourneyIn(Q, s).number = q.number /\ JourneyIn(Q, s).intake = q.intake
            /\ JourneyIn(Q, s).state = q.state
        BY <1>2, <3>5, JourneyFacts
      <3> QED BY <2>3, <3>1, <3>2, <3>6 DEF JourneySteps, Journeys!Withdraws, Before
    <2> QED BY <2>6, <2>7
  <1> QED BY <1>3, <1>4

LEMMA NextSteps ==
  ASSUME CohortInv, [Next]_vars, NEW s \in Student
  PROVE  JourneySteps(JourneyIn(participations, s), JourneyIn(participations', s))
  <1> DEFINE Step == JourneySteps(JourneyIn(participations, s), JourneyIn(participations', s))
  <1>1. OrderedIn(participations)' /\ participations' \subseteq Participation
    BY NextCohort DEF CohortInv, TypeInv, TypeOK
  <1>2. CASE UNCHANGED participations
    BY <1>2 DEF JourneySteps
  <1>3. ASSUME NEW t \in Term, ApplyTransition(active, t) PROVE Step
    <2>1. CASE ~Continues(active, t) /\ ~ClosesCycle(active, t)
      BY <1>2, <1>3, <2>1 DEF ApplyTransition, cohortVars
    <2>2. CASE Continues(active, t) \/ ClosesCycle(active, t)
      <3>1. participations' = ClosedParticipations(Review(active, t))
        BY <1>3, <2>2 DEF ApplyTransition
      <3> QED BY <1>1, <3>1, ReviewTyped, CloseSteps
    <2> QED BY <2>1, <2>2
  <1>4. ASSUME NEW r \in Request, ActivateTerm(r) \/ CreateActiveTerm(r)
        PROVE  Step
    <2>1. requests[r].target \in Term
      BY <1>4 DEF CohortInv, TypeInv, DialogsOpen, ActivateTerm, CreateActiveTerm
    <2>2. ApplyTransition(active, requests[r].target)
      BY <1>4 DEF ActivateTerm, CreateActiveTerm, Switch
    <2> QED BY <1>3, <2>1, <2>2
  <1>5. ASSUME NEW t \in Term, ActivateDirectly(t) PROVE Step
    BY <1>3, <1>5 DEF ActivateDirectly, Switch
  <1>6. ASSUME NEW r \in Request, (\E t \in Term : Preview(r, t)) \/ CloseDialog(r)
        PROVE  Step
    BY <1>2, <1>6 DEF Preview, CloseDialog, cohortVars
  <1>7. ASSUME NEW t \in Term, CreateTerm(t) \/ DeleteTerm(t) PROVE Step
    BY <1>2, <1>7 DEF CreateTerm, DeleteTerm, cohortVars
  <1>8. ASSUME NEW team \in Team, PublishPass(team) \/ ReviewDocuments(team) PROVE Step
    BY <1>2, <1>8 DEF PublishPass, ReviewDocuments
  <1>9. CASE UNCHANGED vars
    BY <1>2, <1>9 DEF vars
  <1>10. ASSUME NEW team \in Team, NEW S \in SUBSET Student, CreateTeam(team, S)
         PROVE  Step
    <2>1. active \in Term /\ IntakeTerm(active)
      BY <1>10 DEF CreateTeam, CohortInv, TypeInv, TypeOK
    <2>2. \A x \in S : MayJoin(x, active, team)
      BY <1>10, <2>1, EligibleMayJoin DEF CreateTeam, CohortInv
    <2>3. participations' = ConfirmedParticipations(S, active)
      BY <1>10 DEF CreateTeam
    <2> QED BY <1>1, <2>1, <2>2, <2>3, JoinSteps
  <1>11. ASSUME NEW team \in Team, NEW S \in SUBSET Student, UpdateRoster(team, S)
         PROVE  Step
    BY <1>1, <1>11, RosterMayJoin, JoinSteps
  <1>12. ASSUME NEW team \in Team, DeleteTeam(team) PROVE Step
    BY <1>12, DeleteSteps DEF DeleteTeam
  <1>13. ASSUME NEW team \in Team, PublishFailure(team) PROVE Step
    <2>1. participations' = ClosedParticipations(FailureOf(team))
      BY <1>13 DEF PublishFailure, FailureOf
    <2> QED BY <1>1, <2>1, FailureTyped, CloseSteps
  <1>14. CASE \E r \in Request : \/ \E t \in Term : Preview(r, t)
                                \/ ActivateTerm(r) \/ CreateActiveTerm(r) \/ CloseDialog(r)
    BY <1>4, <1>6, <1>14
  <1>15. CASE \E t \in Term : CreateTerm(t) \/ DeleteTerm(t) \/ ActivateDirectly(t)
    BY <1>5, <1>7, <1>15
  <1>16. CASE \E team \in Team :
                \/ \E S \in SUBSET Student : CreateTeam(team, S) \/ UpdateRoster(team, S)
                \/ DeleteTeam(team) \/ PublishPass(team) \/ ReviewDocuments(team)
                \/ PublishFailure(team)
    BY <1>8, <1>10, <1>11, <1>12, <1>13, <1>16
  <1> QED BY <1>9, <1>14, <1>15, <1>16 DEF Next

\* The participations implement the students' journeys: every step of the system
\* takes each student through at most one step of the journey - the next intake
\* only after a failure and in a later term, an outcome never taken back
\* (confirm_roster, close_placements, remove_unused_placements).
THEOREM ParticipationsFollowAlways == Spec => ParticipationsFollow
  <1> DEFINE journey == [s \in Student |-> JourneyOf(s)]
  <1>1. \A s : JourneyOf(s) = JourneyIn(participations, s)
    BY DEF JourneyOf, JourneyIn, Latest, LatestIn
  <1>2. Init => Journeys!Init
    <2> SUFFICES ASSUME Init PROVE Journeys!Init
      OBVIOUS
    <2>1. \A s : Latest(s) = {}
      BY DEF Init, Latest
    <2> QED BY <2>1 DEF JourneyOf, Journeys!Init, Journeys!Newcomer
  <1>3. \A s : JourneyOf(s)' = JourneyIn(participations', s)
    BY DEF JourneyOf, JourneyIn, Latest, LatestIn
  <1>4. CohortInv /\ [Next]_vars => Journeys!Next
    <2> SUFFICES ASSUME CohortInv, [Next]_vars PROVE Journeys!Next
      OBVIOUS
    <2>1. ASSUME NEW s \in Student
          PROVE  JourneySteps(journey[s], journey'[s])
      BY <1>1, <1>3, NextSteps
    <2> HIDE DEF journey
    <2>2. \A s \in Student : JourneySteps(journey[s], journey'[s])
      BY <2>1
    <2> QED BY <2>2 DEF journey, Journeys!Next, JourneySteps
  <1>5. CohortInv /\ [Next]_vars => [Journeys!Next]_journey
    BY <1>4
  <1> QED BY <1>2, <1>5, CohortAlways, PTL DEF Spec, ParticipationsFollow, Journeys!Spec
==============================================================================
