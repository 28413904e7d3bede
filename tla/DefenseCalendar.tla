--------------------------- MODULE DefenseCalendar ---------------------------
(***************************************************************************)
(* The hearings of one Capstone stage on one day's calendar: single         *)
(* creation, the signed automatic plan, revision-checked operations on      *)
(* selected hearings, the status changes of the defense board, evaluations, *)
(* continuing rosters and changes of the adviser.  (defense/scheduler)      *)
(*                                                                          *)
(* Every write here except the board's locks all terms first                *)
(* (lock_calendar_resources), so each is one step; what a client read       *)
(* before is held in screen and token and may be old.  Times are   *)
(* the start positions of one window, all hearings last Duration; the       *)
(* external evaluators of a panel count as panelists, the chair is left     *)
(* out, and a hearing that is done has passed the stage (repeated attempts  *)
(* are in DefenseAttempt).                                                  *)
(***************************************************************************)
EXTENDS Integers, Sequences, FiniteSetsExt, Functions

CONSTANTS Team, Person, Room, Key, Nobody, None,
          Day,          \* the length of the window
          Duration,     \* slot_duration
          MaxHearing,   \* bound: hearings ever created
          MaxChanges    \* bound: committed writes

ASSUME SizesAssumption ==
    /\ Day \in Nat /\ Duration \in Nat \ {0} /\ Duration <= Day
    /\ MaxHearing \in Nat /\ MaxChanges \in Nat
    /\ Nobody \notin Person /\ None \notin Key

VARIABLES
    hearings,   \* DefenseSchedule by id; a deleted one leaves the domain
    created,    \* how many hearings were ever created
    adviser,    \* StudentTeam.adviser
    people,     \* CapstonePeopleAssignment with its revision, 0: none saved
    screen,     \* hearings and rosters as an operation's dialog read them
    token,      \* the signed preview of a plan
    batches,    \* CapstonePlanningBatch by idempotency key
    changes     \* committed writes so far

vars == <<hearings, created, adviser, people, screen, token, batches, changes>>

Start == 0 .. Day - Duration
Ids == DOMAIN hearings
Rosters == {r \in [panel : SUBSET Person \ {{}}, documenter : Person \cup {Nobody}] :
              r.documenter \notin r.panel}

\* The origin of a hearing's present place is kept for the properties only:
\* whether it was created, restored by an operation or by the board.
Hearing ==
    [team : Team, status : {"scheduled", "done", "cancelled", "archived"},
     start : Start, room : Room, panel : SUBSET Person, documenter : Person \cup {Nobody},
     revision : Nat, submitted : SUBSET Person, batch : Key \cup {None},
     origin : {"created", "restored", "board"}]

People == [panel : SUBSET Person, documenter : Person \cup {Nobody}, revision : Nat]

TypeOK ==
    /\ created \in 0 .. MaxHearing
    /\ Ids \subseteq 1 .. created
    /\ hearings \in [Ids -> Hearing]
    /\ adviser \in [Team -> Person \cup {Nobody}]
    /\ people \in [Team -> People]
    /\ changes \in 0 .. MaxChanges
    /\ \A i \in Ids : hearings[i].submitted \subseteq hearings[i].panel

\* validate_roster and execute_operation: who may serve for a team.
Eligible(t, r) ==
    /\ adviser[t] \notin r.panel
    /\ r.documenter = Nobody \/ r.documenter # adviser[t]

Init ==
    /\ hearings = <<>>
    /\ created = 0
    /\ adviser \in [Team -> Person \cup {Nobody}]
    /\ people = [t \in Team |-> [panel |-> {}, documenter |-> Nobody, revision |-> 0]]
    /\ screen = None /\ token = None
    /\ batches = [k \in Key |-> None]
    /\ changes = 0

Write == changes < MaxChanges /\ changes' = changes + 1

-----------------------------------------------------------------------------
(* Conflicts *)

Overlap(a, b) == a < b + Duration /\ b < a + Duration

Staff(h) == h.panel \cup ({h.documenter} \ {Nobody})

\* Two places on the calendar exclude each other.
Collide(a, b) ==
    /\ Overlap(a.start, b.start)
    /\ a.room = b.room \/ Staff(a) \cap Staff(b) # {}

\* Mutant: a settled hearing no longer holds its place.
ReservedOpen == {hearings[i] : i \in {j \in Ids : hearings[j].status = "scheduled"}}

Reserved == {hearings[i] : i \in {j \in Ids : hearings[j].status \in {"scheduled", "done"}}}

ScheduledFor(t) == \E i \in Ids : hearings[i].team = t /\ hearings[i].status = "scheduled"
Settled(t) == \E i \in Ids : hearings[i].team = t /\ hearings[i].status \in {"done", "archived"}

NewHearing(c, k) ==
    [team |-> c.team, status |-> "scheduled", start |-> c.start, room |-> c.room,
     panel |-> c.panel, documenter |-> c.documenter, revision |-> 1,
     submitted |-> {}, batch |-> k, origin |-> "created"]

\* Hearings are appended in the order of the sequence.
AddHearings(cs, k) ==
    /\ created + Len(cs) <= MaxHearing
    /\ created' = created + Len(cs)
    /\ hearings' = [i \in Ids \cup (created + 1 .. created + Len(cs)) |->
                      IF i <= created THEN hearings[i] ELSE NewHearing(cs[i - created], k)]

-----------------------------------------------------------------------------
(* Creating one hearing *)

\* create rechecks this under its locks.  validate asked for the same before
\* them, and for a documenter who is not the adviser: that one may be old.
StillFree(c) ==
    /\ adviser[c.team] \notin c.panel
    /\ ~ ScheduledFor(c.team) /\ ~ Settled(c.team)
    /\ \A h \in Reserved : ~ Collide(c, h)

Create(c) ==
    /\ Write
    /\ StillFree(c)
    /\ AddHearings(<<c>>, None)
    /\ UNCHANGED <<adviser, people, screen, token, batches>>

-----------------------------------------------------------------------------
(* The automatic plan *)

\* allocate's cursor: past every reservation that blocks the place.
FreeFrom(c, room, crew) ==
    LET Blocking(x) == {h \in Reserved : /\ Overlap(x, h.start)
                                         /\ h.room = room \/ Staff(h) \cap Staff(crew) # {}}
        At[x \in 0 .. Day] ==
            IF x + Duration > Day \/ Blocking(x) = {} THEN x
            ELSE At[Max({h.start + Duration : h \in Blocking(x)})]
    IN  At[c]

\* Where each team of the queue would start; a team that does not fit, and all
\* after it, get a start the window cannot hold.
Slots(q, room) ==
    LET S[i \in 1 .. Len(q)] ==
            LET c == IF i = 1 THEN 0 ELSE S[i - 1] + Duration
            IN  IF c > Day THEN c ELSE FreeFrom(c, room, people[q[i]])
    IN  S

Queues == {q \in UNION {[1 .. n -> Team] : n \in 1 .. Cardinality(Team)} : IsInjective(q)}

\* The queue keeps the teams of an adviser together.
Grouped(q) == \A i, j, k \in DOMAIN q :
    i < j /\ j < k /\ adviser[q[i]] = adviser[q[k]] => adviser[q[j]] = adviser[q[i]]

Plannable(q) ==
    /\ Grouped(q)
    /\ \A t \in Range(q) : /\ people[t].revision > 0
                          /\ adviser[t] # Nobody /\ Eligible(t, people[t])
                          /\ ~ ScheduledFor(t) /\ ~ Settled(t)

\* build_plan; the fingerprint covers all of this.
Plan(q, room) ==
    [teams |-> q, room |-> room, starts |-> Slots(q, room),
     people |-> [i \in DOMAIN q |-> people[q[i]]],
     advisers |-> [i \in DOMAIN q |-> adviser[q[i]]]]

Complete(plan) == \A i \in DOMAIN plan.teams : plan.starts[i] + Duration <= Day

Preview(q, room) ==
    /\ Plannable(q)
    /\ token' = Plan(q, room)
    /\ token' # token
    /\ UNCHANGED <<hearings, created, adviser, people, screen, batches, changes>>

\* Mutant: the teams are checked again, the places are not.
StillPlannable(plan) == Plannable(plan.teams)

\* confirm_plan replays the signed inputs under the locks.
StillCurrent(plan) ==
    /\ Plannable(plan.teams)
    /\ Plan(plan.teams, plan.room) = plan

\* Mutant: the same confirmation again is a new one.
UnusedByOthers(k) == batches[k] \in {None, token}

\* A repeated key answers with the batch it made, or is refused.
Unused(k) == batches[k] = None

Confirm(k) ==
    /\ token # None
    /\ Unused(k)
    /\ StillCurrent(token) /\ Complete(token)
    /\ AddHearings([i \in DOMAIN token.teams |->
                      [team |-> token.teams[i], start |-> token.starts[i], room |-> token.room,
                       panel |-> token.people[i].panel, documenter |-> token.people[i].documenter]], k)
    /\ batches' = [batches EXCEPT ![k] = token]
    /\ Write
    /\ UNCHANGED <<adviser, people, screen, token>>

-----------------------------------------------------------------------------
(* Operations on hearings reviewed on a screen: execute_operation *)

Content(h) == [status |-> h.status, start |-> h.start, room |-> h.room,
               panel |-> h.panel, documenter |-> h.documenter, revision |-> h.revision]

Review(S) ==
    /\ screen = None
    /\ screen' = [seen |-> [i \in S |-> Content(hearings[i])],
                  people |-> [t \in {hearings[i].team : i \in S} |-> people[t]]]
    /\ UNCHANGED <<hearings, created, adviser, people, token, batches, changes>>

CloseScreen ==
    /\ screen # None
    /\ screen' = None
    /\ UNCHANGED <<hearings, created, adviser, people, token, batches, changes>>

RevisionsMatch(seen) ==
    \A i \in DOMAIN seen : i \in Ids /\ hearings[i].revision = seen[i].revision

\* Mutant: a panelist may leave after evaluating.
AdmissibleDeparture(old, h) ==
    /\ old.status \notin {"done", "archived"}
    /\ Eligible(h.team, h) /\ h.documenter \notin h.panel

\* The changed form h of a hearing old may be saved.
Admissible(old, h) ==
    /\ old.status \notin {"done", "archived"}
    /\ Eligible(h.team, h) /\ h.documenter \notin h.panel
    /\ old.submitted \subseteq h.panel
    /\ old.submitted = {} \/ (h.start = old.start /\ h.room = old.room)

\* _validate_conflicts: the selected hearings against each other and all others.
NoConflicts(new) ==
    LET After(i) == IF i \in DOMAIN new THEN new[i] ELSE hearings[i]
    IN  \A i \in DOMAIN new, j \in Ids :
            (i # j /\ After(i).status = "scheduled" /\ After(j).status = "scheduled")
                => ~ Collide(After(i), After(j))

Saved(old, h) ==
    IF Content(h) = Content(old) THEN old
    ELSE [h EXCEPT !.revision = old.revision + 1,
                   !.origin = IF old.origin = "board" \/ (old.status = "cancelled" /\ h.status = "scheduled")
                              THEN "restored" ELSE old.origin]

\* The fields that the request names are replaced, the others stay.
With(old, request) == [x \in DOMAIN old |-> IF x \in DOMAIN request THEN request[x] ELSE old[x]]

\* The same change in the continuing roster of each team, when asked for.
Continued(S, request) ==
    [t \in Team |->
        LET r == With(people[t], request)
        IN  IF t \in {hearings[i].team : i \in S} /\ r # people[t]
            THEN [r EXCEPT !.revision = people[t].revision + 1] ELSE people[t]]

MayContinue(S, request) == \A t \in {hearings[i].team : i \in S} :
    LET r == With(people[t], request)
    IN  /\ people[t].revision > 0
        /\ people[t].revision = screen.people[t].revision
        /\ adviser[t] # Nobody /\ Eligible(t, r) /\ r.documenter \notin r.panel

Operate(request, continuing) ==
    /\ screen # None
    /\ RevisionsMatch(screen.seen)
    /\ LET S == DOMAIN screen.seen
           new == [i \in S |-> With(hearings[i], request)]
       IN  /\ \A i \in S : Admissible(hearings[i], new[i])
           /\ NoConflicts(new)
           /\ continuing => MayContinue(S, request)
           /\ people' = IF continuing THEN Continued(S, request) ELSE people
           /\ hearings' = [i \in Ids |-> IF i \in S THEN Saved(hearings[i], new[i]) ELSE hearings[i]]
    /\ <<hearings, people>>' # <<hearings, people>>
    /\ screen' = None
    /\ Write
    /\ UNCHANGED <<created, adviser, token, batches>>

Reschedule(start, room) == Operate([start |-> start, room |-> room], FALSE)
ReplacePanel(panel, continuing) == Operate([panel |-> panel], continuing)
ReplaceDocumenter(d, continuing) == Operate([documenter |-> d], continuing)
SetStatus(st) == Operate([status |-> st], FALSE)

-----------------------------------------------------------------------------
(* The board, evaluations, rosters and advisers *)

\* Mutant: the board's status does not count as a change.
TransitionedUnmarked(h, st) == [h EXCEPT !.status = st]

\* transition_schedule_status
Transitioned(h, st) == [h EXCEPT !.status = st, !.revision = @ + 1]

BoardCancel(i) ==
    /\ hearings[i].status = "scheduled"
    /\ hearings' = [hearings EXCEPT ![i] = Transitioned(@, "cancelled")]
    /\ Write
    /\ UNCHANGED <<created, adviser, people, screen, token, batches>>

\* Neither the calendar nor the adviser is looked at.
BoardRestore(i) ==
    /\ hearings[i].status = "cancelled"
    /\ hearings' = [hearings EXCEPT ![i] = [Transitioned(@, "scheduled") EXCEPT !.origin = "board"]]
    /\ Write
    /\ UNCHANGED <<created, adviser, people, screen, token, batches>>

BoardArchive(i) ==
    /\ hearings[i].status = "done"
    /\ hearings' = [hearings EXCEPT ![i] = Transitioned(@, "archived")]
    /\ Write
    /\ UNCHANGED <<created, adviser, people, screen, token, batches>>

Delete(i) ==
    /\ hearings[i].status \in {"scheduled", "cancelled"}
    /\ hearings[i].submitted = {}
    /\ hearings' = [j \in Ids \ {i} |-> hearings[j]]
    /\ Write
    /\ UNCHANGED <<created, adviser, people, screen, token, batches>>

Evaluate(i, p) ==
    /\ hearings[i].status = "scheduled"
    /\ p \in hearings[i].panel \ hearings[i].submitted
    /\ hearings' = [hearings EXCEPT ![i].submitted = @ \cup {p}]
    /\ Write
    /\ UNCHANGED <<created, adviser, people, screen, token, batches>>

\* Through a transition, or by publication and the board's reconciliation,
\* which set the status alone.
Settle(i) ==
    /\ hearings[i].status = "scheduled"
    /\ hearings[i].submitted = hearings[i].panel
    /\ \E h \in {Transitioned(hearings[i], "done"), [hearings[i] EXCEPT !.status = "done"]} :
          hearings' = [hearings EXCEPT ![i] = h]
    /\ Write
    /\ UNCHANGED <<created, adviser, people, screen, token, batches>>

\* save_assignments
SavePeople(t, r) ==
    /\ adviser[t] # Nobody /\ Eligible(t, r)
    /\ r.panel # people[t].panel \/ r.documenter # people[t].documenter
    /\ people' = [people EXCEPT ![t] = [panel |-> r.panel, documenter |-> r.documenter,
                                        revision |-> @.revision + 1]]
    /\ Write
    /\ UNCHANGED <<hearings, created, adviser, screen, token, batches>>

\* adviser_assignment_conflict: only the panels of scheduled hearings.
ServesOn(a, t) == \E i \in Ids :
    hearings[i].team = t /\ hearings[i].status = "scheduled" /\ a \in hearings[i].panel

ChangeAdviser(t, a) ==
    /\ a # adviser[t]
    /\ ~ ServesOn(a, t)
    /\ adviser' = [adviser EXCEPT ![t] = a]
    /\ Write
    /\ UNCHANGED <<hearings, created, people, screen, token, batches>>

Next ==
    \/ \E t \in Team, s \in Start, m \in Room, r \in Rosters :
          Create([team |-> t, start |-> s, room |-> m, panel |-> r.panel, documenter |-> r.documenter])
    \/ \E q \in Queues, m \in Room : Preview(q, m)
    \/ \E k \in Key : Confirm(k)
    \/ \E S \in SUBSET Ids \ {{}} : Review(S)
    \/ CloseScreen
    \/ \E s \in Start, m \in Room : Reschedule(s, m)
    \/ \E p \in SUBSET Person \ {{}}, c \in BOOLEAN : ReplacePanel(p, c)
    \/ \E d \in Person \cup {Nobody}, c \in BOOLEAN : ReplaceDocumenter(d, c)
    \/ \E st \in {"scheduled", "cancelled"} : SetStatus(st)
    \/ \E i \in Ids : \/ BoardCancel(i) \/ BoardRestore(i) \/ BoardArchive(i)
                      \/ Delete(i) \/ Settle(i)
                      \/ \E p \in Person : Evaluate(i, p)
    \/ \E t \in Team, r \in Rosters : SavePeople(t, r)
    \/ \E t \in Team, a \in Person \cup {Nobody} : ChangeAdviser(t, a)

Spec == Init /\ [][Next]_vars

-----------------------------------------------------------------------------
(* Properties *)

\* No two scheduled hearings share the room or a person at the same time, and
\* no adviser sits on the panel of a scheduled hearing of the own team, unless
\* the board restored one of the hearings and no operation has looked at it
\* since: the board's transition is the only write without that check.
Minutes(h) == h.start .. h.start + Duration - 1
ConflictsComeFromTheBoard ==
    \A i, j \in Ids :
        LET a == hearings[i]
            b == hearings[j]
        IN  (a.status = "scheduled" /\ b.status = "scheduled" /\ "board" \notin {a.origin, b.origin}) =>
                /\ adviser[a.team] \notin a.panel
                /\ i # j /\ Minutes(a) \cap Minutes(b) # {} =>
                      a.room # b.room /\ Staff(a) \cap Staff(b) = {}

\* Whatever retries, plans and creations validated earlier arrive, no team is
\* scheduled twice: it has one scheduled hearing unless a cancelled one was
\* restored, and a confirmation repeated after a lost answer, also when its
\* hearings were cancelled, moved or deleted meanwhile, adds none.
NobodyScheduledTwice ==
    \A i, j \in Ids :
        LET a == hearings[i]
            b == hearings[j]
        IN  (i # j /\ a.team = b.team) =>
                /\ a.status = "scheduled" /\ b.status = "scheduled" => {a.origin, b.origin} # {"created"}
                /\ a.batch # None => a.batch # b.batch

\* The plan takes the first place that is free: every start it passes over
\* after the previous team would meet a reservation, and none it gives does.
PlanTakesEarliest ==
    \A q \in Queues, m \in Room :
        LET S == Slots(q, m)
            Free(s, i) == \A j \in Ids :
                LET h == hearings[j]
                IN  \/ h.status \in {"cancelled", "archived"}
                    \/ (s .. s + Duration - 1) \cap Minutes(h) = {}
                    \/ h.room # m /\ Staff(h) \cap Staff(people[q[i]]) = {}
        IN  \A i \in DOMAIN q :
                LET c == IF i = 1 THEN 0 ELSE S[i - 1] + Duration
                IN  /\ S[i] >= c
                    /\ S[i] + Duration <= Day => Free(S[i], i)
                    /\ \A s \in c .. S[i] - 1 : s + Duration <= Day => ~ Free(s, i)

\* An operation changes exactly what its screen showed: no change made by
\* anybody since the review, by whatever path, is overwritten, and the same
\* holds for the continuing rosters it touches.
ActedOnWhatWasSeen ==
    [][(screen # None /\ screen' = None /\ changes' # changes) =>
         /\ \A i \in DOMAIN screen.seen : i \in Ids /\ Content(hearings[i]) = screen.seen[i]
         /\ \A t \in DOMAIN screen.people : people'[t] # people[t] => people[t] = screen.people[t]]_vars

=============================================================================
