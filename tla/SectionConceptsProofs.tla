------------------------ MODULE SectionConceptsProofs ------------------------
(***************************************************************************)
(* Proofs about SectionConcepts for every set of teams, keys and titles and *)
(* every bound: the shared decision and what the teams prepare and pass     *)
(* stay together.                                                           *)
(***************************************************************************)
EXTENDS SectionConcepts, TLAPS

------------------------------------------------------------------------------
(* The inductive invariant *)

ModuleRec == [concepts : [Key -> Concept], required : SUBSET Key,
              section : 0..MaxRounds, endorsed : BOOLEAN, bound : BOOLEAN,
              hearing : 0..MaxHearings,
              status : {"none", "scheduled", "cancelled", "done"},
              assessed : [Key -> {"none", "pass", "fail"}],
              outcome : {"", "approved", "for_redefense"},
              chosen : Key \cup {NoKey}, direction : {"", "shared"},
              published : BOOLEAN]

RoundRec == [number : 1..MaxRounds, verdict : Passing \cup {""},
             selected : Key \cup {NoKey}, started : BOOLEAN,
             clearedFor : SUBSET Team,
             final : {"none", "pending", "accepted", "rejected"}]

RoundOk(r) == r \in RoundRec /\ (r.verdict \in Passing <=> r.selected # NoKey)

TitleRec == [text : Text, evidence : Text, state : TitleState, version : Nat]
PaperRec == [state : {"none", "pending", "accepted", "rejected"},
             context : Text, returned : BOOLEAN]

SectionOk ==
  /\ participants \subseteq Team /\ left \subseteq Team \ participants
  /\ title \in [Key -> TitleRec]
  /\ paper \in [Key -> PaperRec]
  /\ RoundOk(round)
  /\ assembled \in [Team -> 0..MaxHearings]
  /\ reading \in Team \cup {NoTeam}
  /\ detours \in 0..MaxDetours

\* A team's work by itself: an outcome ends the hearing, an approval names its
\* module, and an attached hearing carries every evaluation and approval.
Good(m) ==
  /\ m \in ModuleRec
  /\ m.outcome = "approved" <=> m.chosen # NoKey
  /\ m.outcome # "" => m.status = "done"
  /\ m.outcome = "approved" => m.bound
  /\ \A k \in Key : m.assessed[k] # "none" => m.bound

Allows(r) == \/ r.verdict = "approved"
             \/ r.verdict = "approved_with_revisions" /\ r.clearedFor # {}

\* A participating team's work under the round of the section.
Fits(m, r) ==
  /\ m.section = r.number
  /\ r.verdict \in Passing /\ m.outcome = "" => m.assessed[r.selected] = "none"
  /\ m.outcome = "approved" => /\ r.verdict \in Passing /\ m.chosen = r.selected
                               /\ m.assessed[r.selected] = "pass"
  /\ m.published => m.outcome = "approved" /\ Allows(r)

Modules ==
  /\ module = [t \in Team |-> module[t]]
  /\ \A t \in Team : Good(module[t])
  /\ \A t \in participants : Fits(module[t], round)
  /\ \A t \in Team \ participants : module[t] = NewModule

\* Scheduling that has read the clearance has no live hearing yet.
Unattached(m) == m.hearing < MaxHearings /\ ~(m.bound /\ m.status # "cancelled")
ReadingOk == reading # NoTeam => reading \in participants /\ Unattached(module[reading])

IInv == SectionOk /\ Modules /\ ReadingOk /\ DecidedOnAcceptedSet

------------------------------------------------------------------------------
(* Work of one team *)

LEMMA RoundNumbers ==
  ASSUME NEW n \in 1..MaxRounds
  PROVE  /\ n \in 0..MaxRounds /\ n \in Nat
         /\ n < MaxRounds => n + 1 \in 1..MaxRounds /\ n + 1 \in 0..MaxRounds
  BY BoundAssumption

LEMMA NewModuleGood == Good(NewModule)
  <1>1. DraftModule \in Concept
    BY DEF DraftModule, Concept, TitleState, Text
  <1>2. /\ [k \in Key |-> DraftModule] \in [Key -> Concept]
        /\ [k \in Key |-> "none"] \in [Key -> {"none", "pass", "fail"}]
        /\ 0 \in 0..MaxRounds /\ 0 \in 0..MaxHearings
    BY <1>1, BoundAssumption
  <1>3. NewModule \in ModuleRec
    BY <1>2 DEF NewModule, ModuleRec
  <1>4. \A k \in Key : NewModule.assessed[k] = "none"
    BY DEF NewModule
  <1> QED BY <1>3, <1>4 DEF Good, NewModule

LEMMA NextAttemptGood ==
  ASSUME NEW m, Good(m), m.outcome = "", NEW requested \in SUBSET Key
  PROVE  LET n == NextAttempt(m, requested)
         IN  /\ Good(n) /\ n.outcome = "for_redefense" /\ n.section = m.section
             /\ n.published = m.published /\ n.hearing = m.hearing /\ ~n.bound
  <1>1. DraftModule \in Concept
    BY DEF DraftModule, Concept, TitleState, Text
  <1> DEFINE drafts == [k \in Key |-> DraftModule]
             n == NextAttempt(m, requested)
  <1>2. drafts \in [Key -> Concept]
    BY <1>1
  <1>3. NotAssessed \in [Key -> {"none", "pass", "fail"}] /\ \A k \in Key : NotAssessed[k] = "none"
    BY DEF NotAssessed
  <1>4. n = [m EXCEPT !.outcome = "for_redefense", !.status = "done", !.required = requested,
                      !.concepts = drafts, !.assessed = NotAssessed,
                      !.endorsed = FALSE, !.bound = FALSE]
    BY DEF NextAttempt
  <1>5. m \in ModuleRec /\ m.chosen = NoKey
    BY DEF Good
  <1> HIDE DEF drafts, n
  <1>6. /\ n \in ModuleRec /\ n.outcome = "for_redefense" /\ n.status = "done"
        /\ n.section = m.section /\ n.published = m.published /\ n.hearing = m.hearing
        /\ n.bound = FALSE /\ n.chosen = m.chosen /\ n.assessed = NotAssessed
    BY <1>2, <1>3, <1>4, <1>5 DEF ModuleRec
  <1>7. Good(n)
    BY <1>3, <1>5, <1>6 DEF Good
  <1> QED BY <1>6, <1>7 DEF n

LEMMA ApprovedGood ==
  ASSUME NEW m, Good(m), m.outcome = "", m.bound, NEW k \in Key
  PROVE  LET n == Approved(m, k)
         IN  /\ Good(n) /\ n.outcome = "approved" /\ n.chosen = k /\ n.section = m.section
             /\ n.published = m.published /\ n.assessed = m.assessed /\ n.hearing = m.hearing
  <1> DEFINE n == Approved(m, k)
  <1>1. n = [m EXCEPT !.outcome = "approved", !.chosen = k, !.status = "done"] /\ m \in ModuleRec
    BY DEF Approved, Good
  <1> HIDE DEF n
  <1>2. /\ n \in ModuleRec /\ n.outcome = "approved" /\ n.chosen = k /\ n.section = m.section
        /\ n.published = m.published /\ n.assessed = m.assessed /\ n.bound = m.bound
        /\ n.status = "done" /\ n.hearing = m.hearing
    BY <1>1 DEF ModuleRec
  <1>3. k # NoKey
    BY SentinelAssumption
  <1>4. Good(n)
    BY <1>2, <1>3 DEF Good
  <1> QED BY <1>2, <1>4 DEF n

\* resolve_outcome: work without an outcome fits the round it is resolved under.
LEMMA ResolvedFits ==
  ASSUME NEW m, Good(m), NEW r, RoundOk(r), m.section = r.number,
         m.outcome = "approved" => Fits(m, r),
         m.outcome # "approved" => ~m.published
  PROVE  /\ Good(Resolved(m, r)) /\ Fits(Resolved(m, r), r)
         /\ Resolved(m, r).hearing = m.hearing
  <1>1. /\ r.verdict \in Passing \cup {""} /\ r.selected \in Key \cup {NoKey}
        /\ r.verdict \in Passing <=> r.selected # NoKey
        /\ m \in ModuleRec
    BY DEF RoundOk, RoundRec, Good
  <1>2. r.verdict # "for_redefense"
    BY <1>1 DEF Passing
  <1>3. CASE m.outcome # ""
    <2>1. Resolved(m, r) = m
      BY <1>3 DEF Resolved
    <2> QED BY <1>3, <2>1 DEF Fits
  <1>4. CASE m.outcome = "" /\ r.selected = NoKey
    <2>1. Resolved(m, r) = m
      BY <1>2, <1>4 DEF Resolved
    <2> QED BY <1>1, <1>4, <2>1 DEF Fits
  <1>5. CASE m.outcome = "" /\ r.selected # NoKey
    <2>1. RequiredKeys(m, r) = {r.selected} /\ r.selected \in Key /\ r.verdict \in Passing
      BY <1>1, <1>2, <1>5 DEF RequiredKeys
    <2>2. Assessed(m, r) <=> m.assessed[r.selected] # "none"
      BY <2>1 DEF Assessed
    <2>3. CASE m.assessed[r.selected] = "none"
      <3>1. Resolved(m, r) = m
        BY <2>2, <2>3 DEF Resolved
      <3> QED BY <1>5, <2>3, <3>1 DEF Fits
    <2>4. CASE m.assessed[r.selected] = "pass"
      <3>1. Resolved(m, r) = Approved(m, r.selected)
        BY <1>2, <1>5, <2>2, <2>4 DEF Resolved
      <3>2. m.bound
        BY <2>1, <2>4 DEF Good
      <3> DEFINE n == Approved(m, r.selected)
      <3>3. /\ Good(n) /\ n.outcome = "approved" /\ n.chosen = r.selected
            /\ n.section = m.section /\ n.published = m.published
            /\ n.assessed = m.assessed /\ n.hearing = m.hearing
        BY <1>5, <2>1, <3>2, ApprovedGood
      <3> HIDE DEF n
      <3>4. Good(n) /\ Fits(n, r) /\ n.hearing = m.hearing
        BY <1>5, <2>1, <2>4, <3>3 DEF Fits
      <3> QED BY <3>1, <3>4 DEF n
    <2>5. CASE m.assessed[r.selected] \notin {"none", "pass"}
      <3>1. Resolved(m, r) = NextAttempt(m, {r.selected})
        BY <1>2, <1>5, <2>2, <2>5 DEF Resolved
      <3> DEFINE wanted == {r.selected}
                 n == NextAttempt(m, wanted)
      <3>5. wanted \in SUBSET Key
        BY <2>1
      <3> HIDE DEF wanted
      <3>2. /\ Good(n) /\ n.outcome = "for_redefense" /\ n.section = m.section
            /\ n.published = m.published /\ n.hearing = m.hearing
        BY <1>5, <3>5, NextAttemptGood
      <3> HIDE DEF n
      <3>3. Good(n) /\ Fits(n, r) /\ n.hearing = m.hearing
        BY <1>5, <3>2 DEF Fits
      <3> QED BY <3>1, <3>3 DEF n, wanted
    <2> QED BY <2>3, <2>4, <2>5
  <1> QED BY <1>3, <1>4, <1>5

------------------------------------------------------------------------------
(* Shapes of steps *)

LEMMA Detouring == ASSUME SectionOk, Detour PROVE detours' \in 0..MaxDetours
  BY BoundAssumption DEF SectionOk, Detour

\* One team's work changes, and nothing of the section.
LEMMA TeamStep ==
  ASSUME IInv, NEW t \in participants, NEW m, Good(m), Fits(m, round),
         module' = [module EXCEPT ![t] = m], UNCHANGED sectionVars,
         reading' = NoTeam \/ (reading' = reading /\ reading # t),
         detours' \in 0..MaxDetours
  PROVE  IInv'
  <1>1. SectionOk /\ Modules /\ ReadingOk /\ DecidedOnAcceptedSet
    BY DEF IInv
  <1>2. UNCHANGED <<participants, left, title, paper, round, assembled>>
    BY DEF sectionVars
  <1>3. t \in Team /\ module = [u \in Team |-> module[u]]
    BY <1>1 DEF SectionOk, Modules
  <1>4. module'[t] = m /\ \A u \in Team \ {t} : module'[u] = module[u]
    BY <1>3
  <1>5. SectionOk'
    BY <1>1, <1>2 DEF SectionOk
  <1>6. Modules'
    <2>1. module' = [u \in Team |-> module'[u]]
      BY <1>3
    <2>2. \A u \in Team : Good(module'[u])
      BY <1>1, <1>4 DEF Modules
    <2>3. \A u \in participants : Fits(module'[u], round)
      BY <1>1, <1>4 DEF Modules, SectionOk
    <2>4. \A u \in Team \ participants : module'[u] = NewModule
      BY <1>1, <1>4 DEF Modules
    <2> QED BY <1>2, <2>1, <2>2, <2>3, <2>4 DEF Modules
  <1>7. ReadingOk'
    <2> SUFFICES ASSUME reading' # NoTeam PROVE reading' \in participants /\ Unattached(module'[reading'])
      BY <1>2 DEF ReadingOk
    <2>1. reading' = reading /\ reading # t
      OBVIOUS
    <2>2. reading \in Team \ {t}
      BY <1>1, <2>1 DEF SectionOk
    <2> QED BY <1>1, <1>4, <2>1, <2>2 DEF ReadingOk
  <1>8. DecidedOnAcceptedSet'
    BY <1>1, <1>2 DEF DecidedOnAcceptedSet, Decided, ProposalAccepted
  <1> QED BY <1>5, <1>6, <1>7, <1>8 DEF IInv

LEMMA InvalidatedKeeps ==
  ASSUME IInv, module' = module \/ module' = Invalidated,
         UNCHANGED <<participants, round, reading>>
  PROVE  Modules' /\ ReadingOk'
  <1>1. SectionOk /\ Modules /\ ReadingOk
    BY DEF IInv
  <1>2. ASSUME NEW t \in Team
        PROVE  /\ Good(module'[t]) /\ module'[t].bound = module[t].bound
               /\ module'[t].status = module[t].status /\ module'[t].hearing = module[t].hearing
               /\ t \notin participants => module'[t] = module[t]
               /\ t \in participants => Fits(module'[t], round)
    <2>1. Good(module[t]) /\ (t \in participants => Fits(module[t], round))
      BY <1>1 DEF Modules
    <2>2. module'[t] = module[t] \/ (t \in participants /\ module'[t] = [module[t] EXCEPT !.endorsed = FALSE])
      BY DEF Invalidated
    <2>3. CASE module'[t] = module[t]
      BY <2>1, <2>3
    <2>4. CASE t \in participants /\ module'[t] = [module[t] EXCEPT !.endorsed = FALSE]
      <3> DEFINE m == module[t]
                 n == module'[t]
      <3>1. m \in ModuleRec /\ n = [m EXCEPT !.endorsed = FALSE]
        BY <2>1, <2>4 DEF Good
      <3> HIDE DEF m, n
      <3>2. /\ n \in ModuleRec /\ n.bound = m.bound /\ n.status = m.status /\ n.hearing = m.hearing
            /\ n.outcome = m.outcome /\ n.chosen = m.chosen /\ n.assessed = m.assessed
            /\ n.section = m.section /\ n.published = m.published
        BY <3>1 DEF ModuleRec
      <3>3. Good(m) => Good(n)
        BY <3>2 DEF Good
      <3>4. Fits(m, round) => Fits(n, round)
        BY <3>2 DEF Fits
      <3> QED BY <2>1, <2>4, <3>2, <3>3, <3>4 DEF m, n
    <2> QED BY <2>2, <2>3, <2>4
  <1>3. module' = [t \in Team |-> module'[t]]
    BY <1>1 DEF Modules, Invalidated
  <1>4. Modules'
    <2>1. participants \subseteq Team
      BY <1>1 DEF SectionOk
    <2> QED BY <1>1, <1>2, <1>3, <2>1 DEF Modules
  <1>5. ReadingOk'
    <2> SUFFICES ASSUME reading # NoTeam PROVE reading \in participants /\ Unattached(module'[reading])
      BY DEF ReadingOk
    <2>1. reading \in participants /\ reading \in Team /\ Unattached(module[reading])
      BY <1>1 DEF ReadingOk, SectionOk
    <2> QED BY <1>2, <2>1 DEF Unattached
  <1> QED BY <1>4, <1>5

\* Proposals change before the decision only.
LEMMA ProposalStep ==
  ASSUME IInv, Editable, module' = module \/ module' = Invalidated,
         title' \in [Key -> TitleRec], paper' \in [Key -> PaperRec],
         UNCHANGED <<participants, left, round, assembled, reading>>,
         detours' \in 0..MaxDetours
  PROVE  IInv'
  <1>1. SectionOk'
    BY DEF IInv, SectionOk
  <1>2. Modules' /\ ReadingOk'
    BY InvalidatedKeeps
  <1>3. ~Decided'
    BY DEF Editable, Decided, Passing
  <1>4. DecidedOnAcceptedSet'
    BY <1>3 DEF DecidedOnAcceptedSet
  <1> QED BY <1>1, <1>2, <1>4 DEF IInv

\* The round moves on under its verdict and selection.
LEMMA RoundStep ==
  ASSUME IInv, round' \in RoundRec, round'.number = round.number,
         round'.verdict = round.verdict, round'.selected = round.selected,
         round.clearedFor # {} => round'.clearedFor # {},
         assembled' \in [Team -> 0..MaxHearings],
         UNCHANGED <<participants, left, title, paper, module, reading, detours>>
  PROVE  IInv'
  <1>1. SectionOk /\ Modules /\ ReadingOk /\ DecidedOnAcceptedSet
    BY DEF IInv
  <1>2. RoundOk(round')
    BY <1>1 DEF SectionOk, RoundOk
  <1>3. SectionOk'
    BY <1>1, <1>2 DEF SectionOk
  <1>4. \A m : Fits(m, round) => Fits(m, round')
    BY DEF Fits, Allows
  <1>5. Modules'
    BY <1>1, <1>4 DEF Modules
  <1>6. ReadingOk'
    BY <1>1 DEF ReadingOk
  <1>7. DecidedOnAcceptedSet'
    BY <1>1 DEF DecidedOnAcceptedSet, Decided, ProposalAccepted
  <1> QED BY <1>3, <1>5, <1>6, <1>7 DEF IInv

\* The section chooses, or corrects its choice, before anybody has passed.
LEMMA ChoiceStep ==
  ASSUME IInv, NEW r, RoundOk(r), r.number = round.number, r.verdict \in Passing,
         \A t \in participants : module[t].outcome # "approved",
         \A k \in Key : ProposalAccepted(k),
         round' = r, module' = ResolvedUnder(r), reading = NoTeam,
         assembled' \in [Team -> 0..MaxHearings],
         UNCHANGED <<participants, left, title, paper, reading, detours>>
  PROVE  IInv'
  <1>1. SectionOk /\ Modules
    BY DEF IInv
  <1>2. SectionOk'
    BY <1>1 DEF SectionOk
  <1>3. ASSUME NEW t \in participants
        PROVE  Good(module'[t]) /\ Fits(module'[t], r)
    <2>1. t \in Team
      BY <1>1 DEF SectionOk
    <2> DEFINE m == module[t]
    <2>2. Good(m) /\ Fits(m, round) /\ m.outcome # "approved"
      BY <1>1, <2>1 DEF Modules
    <2>3. module'[t] = Resolved(m, r)
      BY <2>1 DEF ResolvedUnder
    <2> HIDE DEF m
    <2>4. m.section = r.number /\ ~m.published
      BY <2>2 DEF Fits
    <2> QED BY <2>2, <2>3, <2>4, ResolvedFits
  <1>4. \A t \in Team \ participants : module'[t] = module[t]
    BY DEF ResolvedUnder
  <1>5. module' = [t \in Team |-> module'[t]]
    BY DEF ResolvedUnder
  <1>6. Modules'
    <2>1. \A t \in Team : Good(module'[t])
      BY <1>1, <1>3, <1>4 DEF Modules
    <2> QED BY <1>1, <1>3, <1>4, <1>5, <2>1 DEF Modules
  <1>7. ReadingOk'
    BY DEF ReadingOk
  <1>8. DecidedOnAcceptedSet'
    BY DEF DecidedOnAcceptedSet, ProposalAccepted
  <1> QED BY <1>2, <1>6, <1>7, <1>8 DEF IInv

------------------------------------------------------------------------------
(* Proposals *)

\* The writes of the section to titles and papers.
Proposing == \E k \in Key :
  \/ \E text \in Title : SubmitTitle(k, text) \/ DraftTitle(k, text)
  \/ AcceptTitle(k) \/ RequestTitleRevision(k)
  \/ UploadPaper(k) \/ AcceptPaper(k)
  \/ \E scope \in {"paper", "title_and_paper"} : ReturnPaper(k, scope)

LEMMA ProposingKeeps ==
  ASSUME IInv, Proposing
  PROVE  IInv'
  <1>1. /\ SectionOk /\ title \in [Key -> TitleRec] /\ paper \in [Key -> PaperRec]
        /\ detours \in 0..MaxDetours
    BY DEF IInv, SectionOk
  <1> PICK k \in Key :
        \/ \E text \in Title : SubmitTitle(k, text) \/ DraftTitle(k, text)
        \/ AcceptTitle(k) \/ RequestTitleRevision(k)
        \/ UploadPaper(k) \/ AcceptPaper(k)
        \/ \E scope \in {"paper", "title_and_paper"} : ReturnPaper(k, scope)
    BY DEF Proposing
  <1>2. title[k] \in TitleRec /\ paper[k] \in PaperRec /\ title[k].version + 1 \in Nat
    BY <1>1 DEF TitleRec
  <1> DEFINE Goal == IInv'
  <1>3. ASSUME NEW x \in TitleRec, title' = [title EXCEPT ![k] = x],
               NEW y \in PaperRec, paper' = [paper EXCEPT ![k] = y],
               Editable, module' = module \/ module' = Invalidated,
               detours' \in 0..MaxDetours,
               UNCHANGED <<participants, left, round, assembled, reading>>
        PROVE  Goal
    BY <1>1, <1>3, ProposalStep
  <1>4. title = [title EXCEPT ![k] = title[k]] /\ paper = [paper EXCEPT ![k] = paper[k]]
    BY <1>1
  <1>5. \A st \in TitleState : [title[k] EXCEPT !.state = st] \in TitleRec
    BY <1>2 DEF TitleRec
  <1> SUFFICES Goal
    OBVIOUS
  <1> HIDE DEF Goal
  <1>6. ASSUME NEW text \in Title, SubmitTitle(k, text)
        PROVE  Goal
    <2> DEFINE x == [text |-> text, evidence |-> text, state |-> "submitted",
                     version |-> IF title[k].evidence = text THEN title[k].version
                                 ELSE title[k].version + 1]
    <2>1. x \in TitleRec /\ title' = [title EXCEPT ![k] = x]
      BY <1>2, <1>6 DEF SubmitTitle, TitleRec, Text, TitleState
    <2>2. PICK y \in PaperRec : paper' = [paper EXCEPT ![k] = y]
      <3>1. [paper[k] EXCEPT !.state = "pending"] \in PaperRec
        BY <1>2 DEF PaperRec
      <3>2. paper' = PaperAfterTitle(k, text)
        BY <1>6 DEF SubmitTitle
      <3>3. \/ paper' = [paper EXCEPT ![k] = paper[k]]
            \/ paper' = [paper EXCEPT ![k] = [paper[k] EXCEPT !.state = "pending"]]
        BY <1>4, <3>2 DEF PaperAfterTitle
      <3> QED BY <1>2, <3>1, <3>3
    <2>3. /\ Editable /\ module' = Invalidated /\ detours' = detours
          /\ UNCHANGED <<participants, left, round, assembled, reading>>
      BY <1>6 DEF SubmitTitle
    <2> HIDE DEF x
    <2> QED BY <1>1, <1>3, <2>1, <2>2, <2>3
  <1>7. ASSUME NEW text \in Title, DraftTitle(k, text)
        PROVE  Goal
    <2>1. [title[k] EXCEPT !.text = text] \in TitleRec
      BY <1>2 DEF TitleRec, Text
    <2>2. /\ Editable /\ module' = Invalidated /\ detours' \in 0..MaxDetours
          /\ title' = [title EXCEPT ![k] = [title[k] EXCEPT !.text = text]]
          /\ UNCHANGED <<participants, left, paper, round, assembled, reading>>
      BY <1>1, <1>7, Detouring DEF DraftTitle
    <2> QED BY <1>2, <1>3, <1>4, <2>1, <2>2
  <1>8. CASE AcceptTitle(k)
    <2>1. /\ Editable /\ module' = Invalidated /\ detours' = detours
          /\ title' = [title EXCEPT ![k] = [title[k] EXCEPT !.state = "accepted"]]
          /\ UNCHANGED <<participants, left, paper, round, assembled, reading>>
      BY <1>8 DEF AcceptTitle
    <2>2. [title[k] EXCEPT !.state = "accepted"] \in TitleRec
      BY <1>5 DEF TitleState
    <2> QED BY <1>1, <1>2, <1>3, <1>4, <2>1, <2>2
  <1>9. CASE RequestTitleRevision(k)
    <2>1. /\ Editable /\ module' = Invalidated /\ detours' \in 0..MaxDetours
          /\ title' = [title EXCEPT ![k] = [title[k] EXCEPT !.state = "changes_requested"]]
          /\ UNCHANGED <<participants, left, paper, round, assembled, reading>>
      BY <1>1, <1>9, Detouring DEF RequestTitleRevision, Reviewable
    <2>2. [title[k] EXCEPT !.state = "changes_requested"] \in TitleRec
      BY <1>5 DEF TitleState
    <2> QED BY <1>2, <1>3, <1>4, <2>1, <2>2
  <1>10. CASE UploadPaper(k)
    <2> DEFINE y == [state |-> "pending", context |-> title[k].text, returned |-> FALSE]
    <2>1. y \in PaperRec /\ paper' = [paper EXCEPT ![k] = y]
      BY <1>2, <1>10 DEF UploadPaper, PaperRec, TitleRec
    <2>2. Editable /\ UNCHANGED <<participants, left, title, round, assembled, module, reading, detours>>
      BY <1>10 DEF UploadPaper, Reviewable
    <2> HIDE DEF y
    <2> QED BY <1>1, <1>2, <1>3, <1>4, <2>1, <2>2
  <1>11. CASE AcceptPaper(k)
    <2>1. /\ Editable /\ paper' = [paper EXCEPT ![k] = [paper[k] EXCEPT !.state = "accepted"]]
          /\ UNCHANGED <<participants, left, title, round, assembled, module, reading, detours>>
      BY <1>11 DEF AcceptPaper
    <2>2. [paper[k] EXCEPT !.state = "accepted"] \in PaperRec
      BY <1>2 DEF PaperRec
    <2> QED BY <1>1, <1>2, <1>3, <1>4, <2>1, <2>2
  <1>12. ASSUME NEW scope \in {"paper", "title_and_paper"}, ReturnPaper(k, scope)
         PROVE  Goal
    <2> DEFINE y == [paper[k] EXCEPT !.state = "rejected", !.returned = TRUE]
    <2>1. y \in PaperRec /\ paper' = [paper EXCEPT ![k] = y]
      <3>1. y \in PaperRec
        BY <1>2 DEF PaperRec
      <3>2. paper' = [paper EXCEPT ![k].state = "rejected", ![k].returned = TRUE]
        BY <1>12 DEF ReturnPaper
      <3> QED BY <1>1, <3>1, <3>2
    <2> HIDE DEF y
    <2>2. /\ Editable /\ detours' \in 0..MaxDetours
          /\ UNCHANGED <<participants, left, round, assembled, reading>>
      BY <1>1, <1>12, Detouring DEF ReturnPaper
    <2>3. \/ UNCHANGED <<title, module>>
          \/ /\ title' = [title EXCEPT ![k] = [title[k] EXCEPT !.state = "changes_requested"]]
             /\ module' = Invalidated
      BY <1>12 DEF ReturnPaper
    <2>4. [title[k] EXCEPT !.state = "changes_requested"] \in TitleRec
      BY <1>5 DEF TitleState
    <2>5. CASE UNCHANGED <<title, module>>
      BY <1>2, <1>3, <1>4, <2>1, <2>2, <2>5
    <2>6. CASE /\ title' = [title EXCEPT ![k] = [title[k] EXCEPT !.state = "changes_requested"]]
               /\ module' = Invalidated
      BY <1>3, <2>1, <2>2, <2>4, <2>6
    <2> QED BY <2>3, <2>5, <2>6
  <1> QED BY <1>6, <1>7, <1>8, <1>9, <1>10, <1>11, <1>12

------------------------------------------------------------------------------
(* Teams *)

LEMMA Alike ==
  ASSUME NEW m, NEW r, Good(m), Fits(m, r), NEW n \in ModuleRec,
         n.bound = m.bound, n.outcome = m.outcome, n.chosen = m.chosen,
         n.assessed = m.assessed, n.section = m.section, n.published = m.published,
         n.status = m.status \/ m.outcome = ""
  PROVE  Good(n) /\ Fits(n, r)
  BY DEF Good, Fits

Preparation == \E t \in Team :
  \/ Endorse(t)
  \/ \E k \in Key : SubmitModule(t, k) \/ AcceptModule(t, k) \/ ReturnModule(t, k)

LEMMA ParentTyped ==
  ASSUME SectionOk, NEW k \in Key
  PROVE  Parent(k) \in [text : Text, version : Nat]
  BY DEF SectionOk, Parent, TitleRec

LEMMA PreparationKeeps ==
  ASSUME IInv, Preparation
  PROVE  IInv'
  <1>1. SectionOk /\ Modules /\ detours \in 0..MaxDetours
    BY DEF IInv, SectionOk
  <1> DEFINE Goal == IInv'
  <1> PICK t \in Team :
        \/ Endorse(t)
        \/ \E k \in Key : SubmitModule(t, k) \/ AcceptModule(t, k) \/ ReturnModule(t, k)
    BY DEF Preparation
  <1>2. t \in participants /\ reading # t
    BY DEF Endorse, SubmitModule, AcceptModule, ReturnModule, Preparing
  <1> DEFINE m == module[t]
  <1>3. Good(m) /\ Fits(m, round) /\ m \in ModuleRec
    BY <1>1, <1>2 DEF Modules, Good
  <1>4. module = [u \in Team |-> module[u]]
    BY <1>1 DEF Modules
  <1>5. ASSUME NEW n, Good(n), Fits(n, round), module' = [module EXCEPT ![t] = n],
               UNCHANGED <<sectionVars, reading>>, detours' \in 0..MaxDetours
        PROVE  Goal
    BY <1>2, <1>5, TeamStep
  <1> SUFFICES Goal
    OBVIOUS
  <1> HIDE DEF Goal
  <1>6. ASSUME NEW k \in Key, NEW concept \in Concept, SetConcept(t, k, concept),
               UNCHANGED <<sectionVars, reading>>, detours' \in 0..MaxDetours
        PROVE  Goal
    <2> DEFINE cs == [m.concepts EXCEPT ![k] = concept]
               n == [m EXCEPT !.concepts = cs, !.endorsed = FALSE]
    <2>1. module' = [module EXCEPT ![t].concepts[k] = concept, ![t].endorsed = FALSE]
      BY <1>6 DEF SetConcept
    <2>2. module' = [module EXCEPT ![t] = n]
      BY <1>3, <1>4, <2>1 DEF ModuleRec
    <2>3. cs \in [Key -> Concept]
      BY <1>3 DEF ModuleRec
    <2> HIDE DEF cs, m
    <2>4. /\ n \in ModuleRec /\ n.bound = m.bound /\ n.outcome = m.outcome
          /\ n.chosen = m.chosen /\ n.assessed = m.assessed /\ n.section = m.section
          /\ n.published = m.published /\ n.status = m.status
      BY <1>3, <2>3 DEF ModuleRec
    <2> HIDE DEF n
    <2>5. Good(n) /\ Fits(n, round)
      BY <1>3, <2>4, Alike
    <2> QED BY <1>5, <1>6, <2>2, <2>5
  <1>7. CASE Endorse(t)
    <2> DEFINE n == [m EXCEPT !.endorsed = TRUE]
    <2>1. module' = [module EXCEPT ![t] = n] /\ UNCHANGED <<sectionVars, reading, detours>>
      BY <1>7 DEF Endorse
    <2> HIDE DEF m
    <2>2. /\ n \in ModuleRec /\ n.bound = m.bound /\ n.outcome = m.outcome
          /\ n.chosen = m.chosen /\ n.assessed = m.assessed /\ n.section = m.section
          /\ n.published = m.published /\ n.status = m.status
      BY <1>3 DEF ModuleRec
    <2> HIDE DEF n
    <2>3. Good(n) /\ Fits(n, round)
      BY <1>3, <2>2, Alike
    <2> QED BY <1>1, <1>5, <2>1, <2>3
  <1>8. ASSUME NEW k \in Key, SubmitModule(t, k) \/ AcceptModule(t, k) \/ ReturnModule(t, k)
        PROVE  Goal
    <2>1. Parent(k) \in [text : Text, version : Nat]
      BY <1>1, ParentTyped
    <2>2. \A st \in TitleState : [state |-> st, parent |-> Parent(k)] \in Concept
      BY <2>1 DEF Concept
    <2>3. m.concepts[k] \in Concept
      BY <1>3 DEF ModuleRec
    <2>4. [m.concepts[k] EXCEPT !.state = "changes_requested"] \in Concept
      BY <2>3 DEF Concept, TitleState
    <2>5. CASE SubmitModule(t, k)
      <3>1. [state |-> "submitted", parent |-> Parent(k)] \in Concept
        BY <2>2 DEF TitleState
      <3>2. /\ SetConcept(t, k, [state |-> "submitted", parent |-> Parent(k)])
            /\ UNCHANGED <<sectionVars, reading, detours>>
        BY <2>5 DEF SubmitModule
      <3> QED BY <1>1, <1>6, <3>1, <3>2
    <2>6. CASE AcceptModule(t, k)
      <3>1. [state |-> "accepted", parent |-> Parent(k)] \in Concept
        BY <2>2 DEF TitleState
      <3>2. /\ SetConcept(t, k, [state |-> "accepted", parent |-> Parent(k)])
            /\ UNCHANGED <<sectionVars, reading, detours>>
        BY <2>6 DEF AcceptModule
      <3> QED BY <1>1, <1>6, <3>1, <3>2
    <2>7. CASE ReturnModule(t, k)
      <3>1. /\ SetConcept(t, k, [m.concepts[k] EXCEPT !.state = "changes_requested"])
            /\ UNCHANGED <<sectionVars, reading>> /\ Detour
        BY <2>7 DEF ReturnModule
      <3>2. detours' \in 0..MaxDetours
        BY <1>1, <3>1, Detouring
      <3> QED BY <1>6, <2>4, <3>1, <3>2
    <2> QED BY <1>8, <2>5, <2>6, <2>7
  <1> QED BY <1>7, <1>8

------------------------------------------------------------------------------
(* Hearings *)

LEMMA Member ==
  ASSUME IInv, NEW t \in Team, module[t].bound \/ module[t].status # "none"
  PROVE  t \in participants
  <1> SUFFICES ASSUME t \notin participants PROVE FALSE
    OBVIOUS
  <1>1. module[t] = NewModule
    BY DEF IInv, Modules
  <1>2. ~NewModule.bound /\ NewModule.status = "none"
    BY DEF NewModule
  <1>3. ~module[t].bound /\ module[t].status = "none"
    BY <1>1, <1>2
  <1> QED BY <1>3

LEMMA ReadKeeps ==
  ASSUME IInv, NEW t \in Team, ReadClearance(t)
  PROVE  IInv'
  <1>1. /\ t \in participants /\ Unattached(module[t]) /\ reading' = t
        /\ UNCHANGED <<participants, left, title, paper, round, assembled, module, detours>>
    BY DEF ReadClearance, Live, Unattached, sectionVars
  <1>2. SectionOk'
    BY <1>1 DEF IInv, SectionOk
  <1>3. Modules'
    BY <1>1 DEF IInv, Modules
  <1>4. ReadingOk'
    BY <1>1 DEF ReadingOk
  <1>5. DecidedOnAcceptedSet'
    BY <1>1 DEF IInv, DecidedOnAcceptedSet, Decided, ProposalAccepted
  <1> QED BY <1>2, <1>3, <1>4, <1>5 DEF IInv

LEMMA BindKeeps ==
  ASSUME IInv, NEW t \in Team, Bind(t)
  PROVE  IInv'
  <1> DEFINE m == module[t]
             n == [m EXCEPT !.bound = TRUE, !.hearing = m.hearing + 1, !.status = "scheduled",
                            !.outcome = "", !.chosen = NoKey, !.assessed = NotAssessed,
                            !.direction = ""]
  <1>1. t \in participants /\ Unattached(m) /\ detours \in 0..MaxDetours
    BY SentinelAssumption DEF Bind, IInv, ReadingOk, SectionOk
  <1>2. Good(m) /\ Fits(m, round) /\ m \in ModuleRec
    BY <1>1 DEF IInv, Modules, Good
  <1>3. /\ module' = [module EXCEPT ![t] = n] /\ reading' = NoTeam
        /\ UNCHANGED sectionVars /\ detours' = detours
    BY DEF Bind
  <1>4. NotAssessed \in [Key -> {"none", "pass", "fail"}] /\ \A k \in Key : NotAssessed[k] = "none"
    BY DEF NotAssessed
  <1> HIDE DEF m
  <1>5. m.hearing + 1 \in 0..MaxHearings
    <2>1. m.hearing \in 0..MaxHearings
      BY <1>2 DEF ModuleRec
    <2>2. m.hearing < MaxHearings
      BY <1>1 DEF Unattached
    <2> QED BY <2>1, <2>2, BoundAssumption
  <1>6. ~m.published
    BY <1>1, <1>2 DEF Fits, Good, Unattached
  <1> DEFINE h == m.hearing + 1
  <1>7. h \in 0..MaxHearings /\ n = [m EXCEPT !.bound = TRUE, !.hearing = h, !.status = "scheduled",
                            !.outcome = "", !.chosen = NoKey, !.assessed = NotAssessed,
                            !.direction = ""]
    BY <1>5
  <1> HIDE DEF h, n
  <1>8. /\ n \in ModuleRec /\ n.bound /\ n.outcome = "" /\ n.chosen = NoKey
        /\ n.assessed = NotAssessed /\ n.section = m.section /\ n.published = m.published
    BY <1>2, <1>4, <1>7 DEF ModuleRec
  <1>9. Good(n)
    BY <1>4, <1>8 DEF Good
  <1>10. round.verdict \in Passing => round.selected \in Key
    BY DEF IInv, SectionOk, RoundOk, RoundRec
  <1>11. Fits(n, round)
    BY <1>2, <1>4, <1>6, <1>8, <1>10 DEF Fits
  <1> QED BY <1>1, <1>3, <1>9, <1>11, TeamStep

LEMMA StatusKeeps ==
  ASSUME IInv, NEW t \in Team, Cancel(t) \/ Restore(t)
  PROVE  IInv'
  <1>1. /\ reading # t /\ t \in participants /\ detours' \in 0..MaxDetours
        /\ UNCHANGED <<sectionVars, reading>> /\ module[t].status \in {"scheduled", "cancelled"}
    BY Member, Detouring DEF Cancel, Restore, IInv, SectionOk
  <1>2. Good(module[t]) /\ Fits(module[t], round)
    BY <1>1 DEF IInv, Modules
  <1>3. PICK st \in {"scheduled", "cancelled"} :
          module' = [module EXCEPT ![t] = [module[t] EXCEPT !.status = st]]
    BY DEF Cancel, Restore
  <1> DEFINE m == module[t]
             n == [m EXCEPT !.status = st]
  <1>4. module' = [module EXCEPT ![t] = n] /\ Good(m) /\ Fits(m, round) /\ m.outcome = ""
    BY <1>1, <1>2, <1>3 DEF Good
  <1> HIDE DEF m
  <1>5. /\ n \in ModuleRec /\ n.bound = m.bound /\ n.outcome = m.outcome
        /\ n.chosen = m.chosen /\ n.assessed = m.assessed /\ n.section = m.section
        /\ n.published = m.published
    BY <1>4 DEF Good, ModuleRec
  <1> HIDE DEF n
  <1>6. Good(n) /\ Fits(n, round)
    BY <1>4, <1>5, Alike
  <1> QED BY <1>1, <1>4, <1>6, TeamStep

LEMMA AssessKeeps ==
  ASSUME IInv, NEW t \in Team, NEW k \in Key, NEW result \in {"pass", "fail"},
         Assess(t, k, result)
  PROVE  IInv'
  <1> DEFINE m == module[t]
             asd == [m.assessed EXCEPT ![k] = result]
             n == [m EXCEPT !.assessed = asd]
  <1>1. /\ reading # t /\ t \in participants /\ m.bound /\ m.status = "scheduled"
        /\ UNCHANGED <<sectionVars, reading, detours>>
    BY DEF Assess
  <1>2. Good(m) /\ Fits(m, round) /\ m \in ModuleRec
    BY <1>1 DEF IInv, Modules, Good
  <1>3. module' = [module EXCEPT ![t] = Resolved(n, round)]
    <2>1. module' = [module EXCEPT ![t] = Resolved([module[t] EXCEPT !.assessed[k] = result], round)]
      BY DEF Assess
    <2>2. [module[t] EXCEPT !.assessed[k] = result] = n
      BY <1>2 DEF ModuleRec
    <2> QED BY <2>1, <2>2
  <1> HIDE DEF m
  <1>4. asd \in [Key -> {"none", "pass", "fail"}]
    BY <1>2 DEF ModuleRec
  <1> HIDE DEF asd
  <1>5. m.outcome = ""
    BY <1>1, <1>2 DEF Good
  <1>6. /\ n \in ModuleRec /\ n.bound /\ n.outcome = "" /\ n.chosen = m.chosen
        /\ n.section = m.section /\ n.published = m.published
    BY <1>1, <1>2, <1>4, <1>5 DEF ModuleRec
  <1> HIDE DEF n
  <1>7. Good(n)
    BY <1>2, <1>5, <1>6 DEF Good
  <1>8. n.section = round.number /\ ~n.published /\ RoundOk(round)
    BY <1>2, <1>5, <1>6 DEF Fits, IInv, SectionOk
  <1>9. Good(Resolved(n, round)) /\ Fits(Resolved(n, round), round)
    BY <1>6, <1>7, <1>8, ResolvedFits
  <1>10. detours' \in 0..MaxDetours
    BY <1>1 DEF IInv, SectionOk
  <1> QED BY <1>1, <1>3, <1>9, <1>10, TeamStep

LEMMA PublishKeeps ==
  ASSUME IInv, NEW t \in Team, Publish(t)
  PROVE  IInv'
  <1> DEFINE m == module[t]
             n == [m EXCEPT !.published = TRUE]
  <1>1. /\ reading # t /\ t \in participants /\ m.outcome = "approved" /\ PassAllowed
        /\ UNCHANGED <<sectionVars, reading, detours>>
        /\ module' = [module EXCEPT ![t] = n]
    BY DEF Publish
  <1>2. Good(m) /\ Fits(m, round)
    BY <1>1 DEF IInv, Modules
  <1> HIDE DEF m
  <1>3. /\ n \in ModuleRec /\ n.bound = m.bound /\ n.outcome = m.outcome
        /\ n.chosen = m.chosen /\ n.assessed = m.assessed /\ n.section = m.section
        /\ n.status = m.status
    BY <1>2 DEF Good, ModuleRec
  <1> HIDE DEF n
  <1>4. Good(n)
    BY <1>2, <1>3 DEF Good
  <1>5. Fits(n, round)
    BY <1>1, <1>2, <1>3 DEF Fits, PassAllowed, Allows
  <1>6. detours' \in 0..MaxDetours
    BY <1>1 DEF IInv, SectionOk
  <1> QED BY <1>1, <1>4, <1>5, <1>6, TeamStep

LEMMA KeepSharedKeeps ==
  ASSUME IInv, NEW t \in Team, KeepShared(t)
  PROVE  IInv'
  <1> DEFINE m == module[t]
             n == [m EXCEPT !.direction = "shared"]
  <1>1. /\ reading # t /\ t \in participants
        /\ UNCHANGED <<sectionVars, reading, detours>>
        /\ module' = [module EXCEPT ![t] = n]
    BY DEF KeepShared, MayChooseDirection
  <1>2. Good(m) /\ Fits(m, round)
    BY <1>1 DEF IInv, Modules
  <1> HIDE DEF m
  <1>3. /\ n \in ModuleRec /\ n.bound = m.bound /\ n.outcome = m.outcome
        /\ n.chosen = m.chosen /\ n.assessed = m.assessed /\ n.section = m.section
        /\ n.published = m.published /\ n.status = m.status
    BY <1>2 DEF Good, ModuleRec
  <1> HIDE DEF n
  <1>4. Good(n) /\ Fits(n, round)
    BY <1>2, <1>3, Alike
  <1>5. detours' \in 0..MaxDetours
    BY <1>1 DEF IInv, SectionOk
  <1> QED BY <1>1, <1>4, <1>5, TeamStep

------------------------------------------------------------------------------
(* Coming and going *)

LEMMA JoinKeeps ==
  ASSUME IInv, NEW t \in Team, Join(t)
  PROVE  IInv'
  <1>1. /\ t \notin participants /\ t \notin left /\ Editable
        /\ participants' = participants \cup {t}
        /\ module' = [module EXCEPT ![t] = [module[t] EXCEPT !.section = round.number]]
        /\ UNCHANGED <<left, title, paper, round, assembled, reading, detours>>
    BY DEF Join
  <1>2. SectionOk /\ Modules /\ ReadingOk /\ DecidedOnAcceptedSet
    BY DEF IInv
  <1>3. module[t] = NewModule
    BY <1>1, <1>2 DEF Modules
  <1> DEFINE m == NewModule
             n == [m EXCEPT !.section = round.number]
  <1>4. Good(m) /\ m.outcome = "" /\ ~m.published /\ \A k \in Key : m.assessed[k] = "none"
    <2>1. Good(m)
      BY NewModuleGood
    <2> QED BY <2>1 DEF NewModule
  <1>5. round.number \in 0..MaxRounds /\ round.verdict = ""
    <2>1. round \in RoundRec
      BY <1>2 DEF SectionOk, RoundOk
    <2>2. round.number \in 1..MaxRounds
      BY <2>1 DEF RoundRec
    <2>3. round.verdict = ""
      BY <1>1 DEF Editable
    <2> QED BY <2>2, <2>3, RoundNumbers
  <1> HIDE DEF m
  <1>6. /\ n \in ModuleRec /\ n.bound = m.bound /\ n.outcome = m.outcome
        /\ n.chosen = m.chosen /\ n.assessed = m.assessed /\ n.section = round.number
        /\ n.published = m.published /\ n.status = m.status
    BY <1>4, <1>5 DEF Good, ModuleRec
  <1>7. module' = [module EXCEPT ![t] = n]
    BY <1>1, <1>3 DEF m
  <1> HIDE DEF n
  <1>8. Good(n)
    BY <1>4, <1>6 DEF Good
  <1>9. Fits(n, round)
    BY <1>4, <1>5, <1>6 DEF Fits, Passing
  <1>10. SectionOk'
    BY <1>1, <1>2 DEF SectionOk
  <1>11. Modules'
    BY <1>1, <1>2, <1>7, <1>8, <1>9 DEF Modules
  <1>12. ReadingOk'
    <2> SUFFICES ASSUME reading # NoTeam
                 PROVE  reading \in participants' /\ Unattached(module'[reading])
      BY <1>1 DEF ReadingOk
    <2>1. reading \in participants /\ Unattached(module[reading]) /\ reading \in Team
      BY <1>2 DEF ReadingOk, SectionOk
    <2>2. module'[reading] = module[reading]
      BY <1>1, <1>2, <1>7, <2>1 DEF Modules
    <2> QED BY <1>1, <2>1, <2>2
  <1>13. DecidedOnAcceptedSet'
    BY <1>1, <1>2 DEF DecidedOnAcceptedSet, Decided, ProposalAccepted
  <1> QED BY <1>10, <1>11, <1>12, <1>13 DEF IInv

LEMMA GoIndependentKeeps ==
  ASSUME IInv, NEW t \in Team, GoIndependent(t)
  PROVE  IInv'
  <1>1. /\ t \in participants /\ reading # t
        /\ participants' = participants \ {t} /\ left' = left \cup {t}
        /\ module' = [module EXCEPT ![t] = NewModule]
        /\ UNCHANGED <<title, paper, round, assembled, reading, detours>>
    BY DEF GoIndependent, MayChooseDirection
  <1>2. SectionOk /\ Modules /\ ReadingOk /\ DecidedOnAcceptedSet
    BY DEF IInv
  <1>3. SectionOk'
    BY <1>1, <1>2 DEF SectionOk
  <1>4. Modules'
    BY <1>1, <1>2, NewModuleGood DEF Modules, SectionOk
  <1>5. ReadingOk'
    <2> SUFFICES ASSUME reading # NoTeam
                 PROVE  reading \in participants' /\ Unattached(module'[reading])
      BY <1>1 DEF ReadingOk
    <2>1. reading \in participants /\ Unattached(module[reading]) /\ reading \in Team
      BY <1>2 DEF ReadingOk, SectionOk
    <2>2. module'[reading] = module[reading]
      BY <1>1, <1>2, <2>1 DEF Modules
    <2> QED BY <1>1, <2>1, <2>2
  <1>6. DecidedOnAcceptedSet'
    BY <1>1, <1>2 DEF DecidedOnAcceptedSet, Decided, ProposalAccepted
  <1> QED BY <1>3, <1>4, <1>5, <1>6 DEF IInv

------------------------------------------------------------------------------
(* The choice *)

LEMMA HearingsTyped == IInv => CurrentHearings \in [Team -> 0..MaxHearings]
  <1> SUFFICES ASSUME IInv PROVE CurrentHearings \in [Team -> 0..MaxHearings]
    OBVIOUS
  <1>1. \A t \in Team : module[t].hearing \in 0..MaxHearings
    BY DEF IInv, Modules, Good, ModuleRec
  <1>2. 0 \in 0..MaxHearings
    BY BoundAssumption
  <1> QED BY <1>1, <1>2 DEF CurrentHearings

LEMMA RoundTyped ==
  ASSUME IInv
  PROVE  /\ round \in RoundRec /\ round.clearedFor \subseteq Team
         /\ round.verdict \in Passing \cup {""} /\ round.selected \in Key \cup {NoKey}
         /\ round.number \in 1..MaxRounds
         /\ Decided <=> round.selected # NoKey
  <1>1. round \in RoundRec /\ (round.verdict \in Passing <=> round.selected # NoKey)
    BY DEF IInv, SectionOk, RoundOk
  <1> QED BY <1>1 DEF RoundRec, Decided

LEMMA PresentingKeeps ==
  ASSUME IInv, Assemble \/ Start \/ UploadFinal \/ ReturnFinal \/ AcceptFinal
  PROVE  IInv'
  <1>1. round \in RoundRec /\ CurrentHearings \in [Team -> 0..MaxHearings]
    BY RoundTyped, HearingsTyped
  <1>2. assembled \in [Team -> 0..MaxHearings] /\ participants \subseteq Team
    BY DEF IInv, SectionOk
  <1> DEFINE Same(r) == /\ r \in RoundRec /\ r.number = round.number /\ r.verdict = round.verdict
                        /\ r.selected = round.selected
                        /\ round.clearedFor # {} => r.clearedFor # {}
  <1>3. Same(round) /\ Same([round EXCEPT !.started = TRUE])
    BY <1>1 DEF RoundRec
  <1>4. \A f \in {"none", "pending", "accepted", "rejected"} : Same([round EXCEPT !.final = f])
    BY <1>1 DEF RoundRec
  <1>5. ASSUME participants # {}
        PROVE  Same([round EXCEPT !.final = "accepted", !.clearedFor = participants])
    BY <1>1, <1>2, <1>5 DEF RoundRec
  <1>6. [round EXCEPT !.final = "accepted", !.clearedFor = round.clearedFor]
          = [round EXCEPT !.final = "accepted"]
    BY <1>1 DEF RoundRec
  <1> HIDE DEF Same
  <1>7. ASSUME Same(round'), assembled' \in [Team -> 0..MaxHearings],
               UNCHANGED <<participants, left, title, paper, module, reading, detours>>
        PROVE  IInv'
    BY <1>7, RoundStep DEF Same
  <1>8. CASE Assemble
    <2>1. /\ assembled' = CurrentHearings /\ round' = round
          /\ UNCHANGED <<participants, left, title, paper, module, reading, detours>>
      BY <1>8 DEF Assemble
    <2> QED BY <1>1, <1>3, <1>7, <2>1
  <1>9. CASE Start
    <2>1. /\ assembled' = CurrentHearings /\ round' = [round EXCEPT !.started = TRUE]
          /\ UNCHANGED <<participants, left, title, paper, module, reading, detours>>
      BY <1>9 DEF Start
    <2> QED BY <1>1, <1>3, <1>7, <2>1
  <1>10. CASE UploadFinal \/ ReturnFinal
    <2>1. PICK f \in {"pending", "rejected"} : round' = [round EXCEPT !.final = f]
      BY <1>10 DEF UploadFinal, ReturnFinal
    <2>2. UNCHANGED <<participants, left, title, paper, assembled, module, reading, detours>>
      BY <1>10 DEF UploadFinal, ReturnFinal
    <2>3. Same(round')
      BY <1>4, <2>1
    <2> QED BY <1>2, <1>7, <2>2, <2>3
  <1>11. CASE AcceptFinal
    <2>1. /\ participants # {}
          /\ round' = [round EXCEPT !.final = "accepted",
                         !.clearedFor = IF round.verdict = "approved_with_revisions"
                                        THEN participants ELSE round.clearedFor]
          /\ UNCHANGED <<participants, left, title, paper, assembled, module, reading, detours>>
      BY <1>11 DEF AcceptFinal, FinalOpen
    <2>2. \/ round' = [round EXCEPT !.final = "accepted", !.clearedFor = participants]
          \/ round' = [round EXCEPT !.final = "accepted"]
      BY <1>6, <2>1
    <2>3. Same(round')
      BY <1>4, <1>5, <2>1, <2>2
    <2> QED BY <1>2, <1>7, <2>1, <2>3
  <1> QED BY <1>8, <1>9, <1>10, <1>11

LEMMA ClearanceMeans ==
  ASSUME SharedClearance, round.verdict = ""
  PROVE  \A k \in Key : ProposalAccepted(k)
  BY DEF SharedClearance

LEMMA SelectKeeps ==
  ASSUME IInv, NEW k \in Key, NEW verdict \in Passing, Select(k, verdict)
  PROVE  IInv'
  <1> DEFINE r == [round EXCEPT !.started = TRUE, !.verdict = verdict, !.selected = k]
  <1>1. /\ round' = r /\ module' = ResolvedUnder(r) /\ assembled' = CurrentHearings
        /\ UNCHANGED <<participants, left, title, paper, reading, detours>>
        /\ reading = NoTeam /\ round.verdict = "" /\ SharedClearance
    BY DEF Select, Decidable
  <1>2. round \in RoundRec /\ ~Decided
    BY <1>1, RoundTyped DEF Decided, Passing
  <1>3. r \in RoundRec /\ r.number = round.number /\ r.verdict = verdict /\ r.selected = k
    BY <1>2 DEF RoundRec
  <1> HIDE DEF r
  <1>4. RoundOk(r)
    BY <1>3, SentinelAssumption DEF RoundOk
  <1>5. \A t \in participants : module[t].outcome # "approved"
    BY <1>2 DEF IInv, Modules, Fits, Decided
  <1>6. \A x \in Key : ProposalAccepted(x)
    BY <1>1, ClearanceMeans
  <1>7. assembled' \in [Team -> 0..MaxHearings]
    BY <1>1, HearingsTyped
  <1> QED BY <1>1, <1>3, <1>4, <1>5, <1>6, <1>7, ChoiceStep

LEMMA CorrectKeeps ==
  ASSUME IInv, NEW k \in Key, CorrectSelection(k)
  PROVE  IInv'
  <1> DEFINE r == [round EXCEPT !.selected = k]
  <1>1. /\ round' = r /\ module' = ResolvedUnder(r) /\ Decided /\ reading = NoTeam
        /\ UNCHANGED <<participants, left, title, paper, assembled, reading, detours>>
        /\ \A t \in participants : module[t].outcome = ""
    BY DEF CorrectSelection, Correctable
  <1>2. round \in RoundRec
    BY RoundTyped
  <1>3. /\ r \in RoundRec /\ r.number = round.number /\ r.verdict = round.verdict
        /\ r.selected = k
    BY <1>2 DEF RoundRec
  <1> HIDE DEF r
  <1>4. RoundOk(r) /\ r.verdict \in Passing
    BY <1>1, <1>3, SentinelAssumption DEF RoundOk, Decided
  <1>5. \A x \in Key : ProposalAccepted(x)
    BY <1>1 DEF IInv, DecidedOnAcceptedSet
  <1>6. assembled' \in [Team -> 0..MaxHearings]
    BY <1>1 DEF IInv, SectionOk
  <1>7. \A t \in participants : module[t].outcome # "approved"
    BY <1>1
  <1> QED BY <1>1, <1>3, <1>4, <1>5, <1>6, <1>7, ChoiceStep

\* A rejected set: every team was assessed, prepares again and moves on.
LEMMA ReplaceKeeps ==
  ASSUME IInv, Replace
  PROVE  IInv'
  <1> DEFINE r == [round EXCEPT !.verdict = "for_redefense"]
             rejected == ResolvedUnder(r)
  <1>1. /\ round.verdict = "" /\ reading = NoTeam /\ round.number < MaxRounds
        /\ round' = NewRound(round.number + 1)
        /\ title' = [k \in Key |-> NewTitle] /\ paper' = [k \in Key |-> NewPaper]
        /\ assembled' = [t \in Team |-> 0]
        /\ module' = [t \in Team |-> IF t \in participants
                                     THEN FollowRound(rejected[t]) ELSE rejected[t]]
        /\ UNCHANGED <<participants, left, reading, detours>>
        /\ \A t \in participants : module[t].status = "scheduled" /\ Assessed(module[t], round)
    BY DEF Replace, Decidable
  <1>2. /\ SectionOk /\ Modules /\ round \in RoundRec /\ round.selected = NoKey
        /\ round.number \in 1..MaxRounds
    BY <1>1, RoundTyped DEF IInv, Decided, Passing
  <1>3. r.verdict = "for_redefense" /\ r.selected = NoKey
    BY <1>2 DEF RoundRec
  <1> DEFINE next == round.number + 1
  <1>4. next \in 1..MaxRounds /\ next \in 0..MaxRounds /\ round.number \in Nat
    BY <1>1, <1>2, RoundNumbers
  <1> HIDE DEF r
  <1>5. ASSUME NEW t \in participants
        PROVE  Good(module'[t]) /\ Fits(module'[t], round')
    <2>1. t \in Team
      BY <1>2 DEF SectionOk
    <2> DEFINE m == module[t]
               n == NextAttempt(m, m.required)
               x == [n EXCEPT !.section = n.section + 1]
    <2>2. Good(m) /\ Fits(m, round) /\ m \in ModuleRec
      BY <1>2, <2>1 DEF Modules, Good
    <2>3. m.outcome = ""
      BY <1>1, <2>2 DEF Good
    <2>4. Assessed(m, r)
      <3>1. RequiredKeys(m, round) = m.required /\ RequiredKeys(m, r) = m.required
        BY <1>2, <1>3 DEF RequiredKeys
      <3> QED BY <1>1, <3>1 DEF Assessed
    <2>5. rejected[t] = n
      BY <1>3, <2>1, <2>3, <2>4 DEF ResolvedUnder, Resolved
    <2>6. m.required \in SUBSET Key /\ m.section = round.number /\ ~m.published
      BY <2>2, <2>3 DEF ModuleRec, Fits
    <2>7. /\ Good(n) /\ n.outcome = "for_redefense" /\ n.section = m.section
          /\ n.published = m.published /\ ~n.bound
      BY <2>2, <2>3, <2>6, NextAttemptGood
    <2>8. module'[t] = x
      BY <1>1, <2>1, <2>5, <2>6, <2>7 DEF FollowRound
    <2> HIDE DEF n
    <2>9. /\ n.section + 1 = next /\ x = [n EXCEPT !.section = next]
      BY <2>6, <2>7
    <2> HIDE DEF next, x
    <2>10. n \in ModuleRec
      BY <2>7 DEF Good
    <2>11. /\ x \in ModuleRec /\ x.section = next /\ x.bound = n.bound /\ x.outcome = n.outcome
           /\ x.chosen = n.chosen /\ x.assessed = n.assessed /\ x.status = n.status
           /\ x.published = n.published
      BY <1>4, <2>9, <2>10 DEF ModuleRec
    <2>12. Good(x)
      BY <2>7, <2>11 DEF Good
    <2>13. round'.number = next
      BY <1>1 DEF NewRound, next
    <2>14. Fits(x, round')
      BY <2>6, <2>7, <2>11, <2>13 DEF Fits
    <2> QED BY <2>8, <2>12, <2>14
  <1>6. \A t \in Team \ participants : module'[t] = module[t]
    BY <1>1 DEF ResolvedUnder
  <1>7. module' = [t \in Team |-> module'[t]]
    BY <1>1
  <1>8. Modules'
    <2>1. \A t \in Team : Good(module'[t])
      BY <1>2, <1>5, <1>6 DEF Modules
    <2> QED BY <1>1, <1>2, <1>5, <1>6, <1>7, <2>1 DEF Modules
  <1>9. RoundOk(round') /\ ~Decided'
    BY <1>1, <1>4 DEF NewRound, RoundOk, RoundRec, Decided, Passing
  <1>10. SectionOk'
    <2>1. NewTitle \in TitleRec /\ NewPaper \in PaperRec /\ 0 \in 0..MaxHearings
      BY BoundAssumption DEF NewTitle, NewPaper, TitleRec, PaperRec, Text, TitleState
    <2> QED BY <1>1, <1>2, <1>9, <2>1 DEF SectionOk
  <1>11. ReadingOk'
    BY <1>1 DEF ReadingOk
  <1>12. DecidedOnAcceptedSet'
    BY <1>9 DEF DecidedOnAcceptedSet
  <1> QED BY <1>8, <1>10, <1>11, <1>12 DEF IInv

------------------------------------------------------------------------------
(* The invariant holds *)

LEMMA SectionInit == Init => IInv
  <1> SUFFICES ASSUME Init PROVE IInv
    OBVIOUS
  <1>1. NewTitle \in TitleRec /\ NewPaper \in PaperRec /\ 0 \in 0..MaxHearings
        /\ 0 \in 0..MaxDetours /\ 1 \in 1..MaxRounds
    BY BoundAssumption DEF NewTitle, NewPaper, TitleRec, PaperRec, Text, TitleState
  <1>2. RoundOk(round) /\ ~Decided
    BY <1>1 DEF Init, NewRound, RoundOk, RoundRec, Decided, Passing
  <1>3. SectionOk
    BY <1>1, <1>2 DEF Init, SectionOk
  <1>4. Modules
    BY NewModuleGood DEF Init, Modules
  <1>5. ReadingOk /\ DecidedOnAcceptedSet
    BY <1>2 DEF Init, ReadingOk, DecidedOnAcceptedSet
  <1> QED BY <1>3, <1>4, <1>5 DEF IInv

LEMMA SectionNext ==
  ASSUME IInv, [Next]_vars
  PROVE  IInv'
  <1>1. CASE UNCHANGED vars
    BY <1>1 DEF vars, sectionVars, IInv, SectionOk, Modules, ReadingOk, DecidedOnAcceptedSet,
                Decided, ProposalAccepted
  <1>2. ASSUME NEW t \in Team,
               \/ Join(t) \/ Endorse(t)
               \/ ReadClearance(t) \/ Bind(t) \/ Cancel(t) \/ Restore(t)
               \/ Publish(t) \/ KeepShared(t) \/ GoIndependent(t)
        PROVE  IInv'
    BY <1>2, JoinKeeps, PreparationKeeps, ReadKeeps, BindKeeps, StatusKeeps, PublishKeeps,
       KeepSharedKeeps, GoIndependentKeeps DEF Preparation
  <1>3. ASSUME NEW k \in Key,
               \/ \E text \in Title : SubmitTitle(k, text) \/ DraftTitle(k, text)
               \/ AcceptTitle(k) \/ RequestTitleRevision(k)
               \/ UploadPaper(k) \/ AcceptPaper(k)
               \/ \E scope \in {"paper", "title_and_paper"} : ReturnPaper(k, scope)
               \/ \E verdict \in Passing : Select(k, verdict)
               \/ CorrectSelection(k)
        PROVE  IInv'
    BY <1>3, ProposingKeeps, SelectKeeps, CorrectKeeps DEF Proposing
  <1>4. ASSUME NEW t \in Team, NEW k \in Key,
               \/ SubmitModule(t, k) \/ AcceptModule(t, k) \/ ReturnModule(t, k)
               \/ \E result \in {"pass", "fail"} : Assess(t, k, result)
        PROVE  IInv'
    BY <1>4, PreparationKeeps, AssessKeeps DEF Preparation
  <1>5. CASE Assemble \/ Start \/ Replace \/ UploadFinal \/ ReturnFinal \/ AcceptFinal
    BY <1>5, PresentingKeeps, ReplaceKeeps
  <1> QED BY <1>1, <1>2, <1>3, <1>4, <1>5 DEF Next

\* The invariant of a section that decides together: the parts below follow.
THEOREM SectionInvariant == Spec => []IInv
  BY SectionInit, SectionNext, PTL DEF Spec

\* Types, and the fields that go together: a selection with a passing verdict, a
\* chosen module with an approval (decide, correct, record_outcome).
THEOREM TypeOKAlways == Spec => []TypeOK
  <1>1. IInv => TypeOK
    <2> SUFFICES ASSUME IInv PROVE TypeOK
      OBVIOUS
    <2>1. SectionOk /\ Modules /\ (Decided <=> round.selected # NoKey) /\ round \in RoundRec
      BY RoundTyped DEF IInv
    <2>2. module \in [Team -> ModuleRec]
      BY <2>1 DEF Modules, Good
    <2>3. \A t \in Team : module[t].outcome = "approved" <=> module[t].chosen # NoKey
      BY <2>1 DEF Modules, Good
    <2> QED BY <2>1, <2>2, <2>3 DEF TypeOK, SectionOk, TitleRec, PaperRec, RoundRec, ModuleRec
  <1> QED BY <1>1, SectionInvariant, PTL

\* The chair's choice stands on accepted titles, each with a paper accepted for
\* that very title (editable, shared_clearance, decide).
THEOREM DecidedOnAcceptedSetAlways == Spec => []DecidedOnAcceptedSet
  <1>1. IInv => DecidedOnAcceptedSet
    BY DEF IInv
  <1> QED BY <1>1, SectionInvariant, PTL

\* Evaluation, choice and its correction each settle every module that only
\* waited for them, whichever comes last, and hearings that are cancelled and
\* restored in between wait for nothing either (resolve_outcome).
THEOREM ChoiceSettlesModulesAlways == Spec => []ChoiceSettlesModules
  <1>1. IInv => ChoiceSettlesModules
    <2> SUFFICES ASSUME IInv, Decided, NEW t \in participants, module[t].status = "scheduled"
                 PROVE  module[t].assessed[round.selected] = "none"
      BY DEF ChoiceSettlesModules
    <2>1. Good(module[t]) /\ Fits(module[t], round)
      BY DEF IInv, Modules, SectionOk
    <2>2. module[t].outcome = ""
      BY <2>1 DEF Good
    <2> QED BY <2>1, <2>2 DEF Fits, Decided
  <1> QED BY <1>1, SectionInvariant, PTL

\* An approved module is that of the chosen system and qualified, and published
\* work has passed with the shared system; a correction of the choice strands
\* none (correct, resolve_outcome, module_pass_allowed).
THEOREM ApprovedForSelectionAlways == Spec => []ApprovedForSelection
  <1>1. IInv => ApprovedForSelection
    BY DEF IInv, Modules, Fits, ApprovedForSelection, Decided, PassAllowed, Allows
  <1> QED BY <1>1, SectionInvariant, PTL

\* A section that replaces its proposals takes every participating team along,
\* also those with a hearing, because their attempts end first (decide).
THEOREM ModulesFollowRoundAlways == Spec => []ModulesFollowRound
  <1>1. IInv => ModulesFollowRound
    BY DEF IInv, Modules, Fits, ModulesFollowRound
  <1> QED BY <1>1, SectionInvariant, PTL
==============================================================================
