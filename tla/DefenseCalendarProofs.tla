------------------------ MODULE DefenseCalendarProofs ------------------------
(***************************************************************************)
(* Proofs about DefenseCalendar for every set of teams, people and rooms,   *)
(* every length of the window and of the hearings.                          *)
(***************************************************************************)
EXTENDS DefenseCalendar, WellFoundedInduction, TLAPS

(* The least number of a set, from the well-foundedness of < *)

LEMMA LeastOf ==
  ASSUME NEW R, IsWellFoundedOn(R, Nat), \A x, y \in Nat : y < x => <<y, x>> \in R,
         NEW T \in SUBSET Nat, T # {}
  PROVE  \E m \in T : \A k \in T : m <= k
  <1>1. \E x \in T : \A y \in T : ~ (<<y, x>> \in R)
    BY WFMin
  <1>2. PICK x \in T : \A y \in T : ~ (<<y, x>> \in R)
    BY <1>1
  <1>3. ASSUME NEW y \in T PROVE ~ (y < x)
    <2>1. x \in Nat /\ y \in Nat
      OBVIOUS
    <2> QED BY <1>2, <2>1, Zenon
  <1>4. ASSUME NEW y \in T PROVE x <= y
    <2>1. x \in Nat /\ y \in Nat
      OBVIOUS
    <2> QED BY <1>3, <2>1
  <1> QED BY <1>4

LEMMA Least ==
  ASSUME NEW T \in SUBSET Nat, T # {}
  PROVE  \E m \in T : \A k \in T : m <= k
  <1>1. IsWellFoundedOn(OpToRel(<, Nat), Nat)
    BY NatLessThanWellFounded
  <1>2. \A x, y \in Nat : y < x => <<y, x>> \in OpToRel(<, Nat)
    BY DEF OpToRel
  <1> QED BY <1>1, <1>2, LeastOf, Zenon

LEMMA Greatest ==
  ASSUME NEW b \in Nat, NEW T \in SUBSET (0 .. b), T # {}
  PROVE  \E m \in T : \A k \in T : k <= m
  <1> DEFINE D == {b - k : k \in T}
  <1>1. D \in SUBSET Nat /\ D # {}
    OBVIOUS
  <1> HIDE DEF D
  <1>2. PICK d \in D : \A e \in D : d <= e
    BY <1>1, Least
  <1> USE DEF D
  <1>3. PICK m \in T : d = b - m
    OBVIOUS
  <1>4. ASSUME NEW k \in T PROVE k <= m
    <2>1. b - m <= b - k
      BY <1>2, <1>3
    <2>2. m \in 0 .. b /\ k \in 0 .. b
      OBVIOUS
    <2> HIDE DEF D
    <2> QED BY <2>1, <2>2
  <1> QED BY <1>4

LEMMA MaxOf ==
  ASSUME NEW b \in Nat, NEW T \in SUBSET (0 .. b), T # {}
  PROVE  Max(T) \in T /\ \A k \in T : k <= Max(T)
  <1>1. \E m \in T : \A k \in T : m >= k
    <2>1. PICK m \in T : \A k \in T : k <= m
      BY Greatest
    <2> QED BY <2>1
  <1>2. Max(T) \in T /\ \A k \in T : Max(T) >= k
    BY <1>1 DEF Max
  <1> QED BY <1>2

------------------------------------------------------------------------------
(* The cursor of allocate *)

BlockingAt(x, room, crew) ==
  {h \in Reserved : /\ Overlap(x, h.start)
                    /\ h.room = room \/ Staff(h) \cap Staff(crew) # {}}

\* The cursor stops at x, or goes on to the last end of what blocks x.
Stops(x, room, crew) == x + Duration > Day \/ BlockingAt(x, room, crew) = {}
Further(x, room, crew) == Max({h.start + Duration : h \in BlockingAt(x, room, crew)})

LEMMA StartFacts ==
  /\ Duration \in Nat /\ Duration > 0 /\ Day \in Nat
  /\ \A s \in Start : s \in Nat /\ s + Duration <= Day
  BY SizesAssumption DEF Start

LEMMA ReservedTyped ==
  ASSUME TypeOK
  PROVE  \A h \in Reserved : h \in Hearing /\ h.start \in Start /\ h.start \in Nat
                             /\ h.start + Duration <= Day
  <1>1. \A h \in Reserved : h \in Hearing /\ h.start \in Start
    BY DEF Reserved, TypeOK, Hearing
  <1> QED BY <1>1, StartFacts

LEMMA FurtherOn ==
  ASSUME TypeOK, NEW room, NEW crew, NEW x \in 0 .. Day, ~Stops(x, room, crew)
  PROVE  /\ Further(x, room, crew) \in x + 1 .. Day
         /\ \E h \in BlockingAt(x, room, crew) : Further(x, room, crew) = h.start + Duration
  <1> DEFINE B == BlockingAt(x, room, crew)
             T == {h.start + Duration : h \in B}
  <1>1. \A h \in B : h.start \in Nat /\ h.start + Duration <= Day /\ x < h.start + Duration
    BY ReservedTyped DEF BlockingAt, Overlap
  <1>2. B # {}
    BY DEF Stops
  <1> HIDE DEF B
  <1>3. T \in SUBSET (0 .. Day) /\ T # {}
    BY <1>1, <1>2, StartFacts
  <1>4. Max(T) \in T
    BY <1>3, StartFacts, MaxOf
  <1>5. Further(x, room, crew) = Max(T)
    BY DEF Further, B
  <1>6. PICK h \in B : Further(x, room, crew) = h.start + Duration
    BY <1>4, <1>5
  <1> QED BY <1>1, <1>6, StartFacts DEF B

IsCursor(f, k, room, crew) ==
  f = [x \in k .. Day |-> IF Stops(x, room, crew) THEN x ELSE f[Further(x, room, crew)]]

\* The cursor is defined everywhere in the window: it only goes forward.
LEMMA CursorExists ==
  ASSUME TypeOK, NEW room, NEW crew
  PROVE  \E f : IsCursor(f, 0, room, crew)
  <1> DEFINE T == {k \in 0 .. Day + 1 : \E f : IsCursor(f, k, room, crew)}
  <1>1. Day + 1 \in T
    <2> DEFINE f == [x \in Day + 1 .. Day |-> 0]
    <2>1. Day + 1 .. Day = {}
      BY StartFacts
    <2>2. IsCursor(f, Day + 1, room, crew)
      BY <2>1 DEF IsCursor
    <2> QED BY <2>2, StartFacts
  <1>2. T \in SUBSET Nat /\ T # {}
    BY <1>1, StartFacts
  <1> HIDE DEF T
  <1>3. PICK m \in T : \A k \in T : m <= k
    BY <1>2, Least
  <1> USE DEF T
  <1>4. PICK f : IsCursor(f, m, room, crew)
    OBVIOUS
  <1>5. CASE m = 0
    BY <1>4, <1>5
  <1>6. CASE m # 0
    <2> DEFINE n == m - 1
               v == IF Stops(n, room, crew) THEN n ELSE f[Further(n, room, crew)]
               g == [x \in n .. Day |-> IF x = n THEN v ELSE f[x]]
    <2>1. n \in 0 .. Day /\ m = n + 1
      BY <1>6, StartFacts
    <2>2. ASSUME NEW x \in n .. Day
          PROVE  g[x] = IF Stops(x, room, crew) THEN x ELSE g[Further(x, room, crew)]
      <3>1. x \in 0 .. Day
        BY <2>1
      <3>2. ~Stops(x, room, crew) => Further(x, room, crew) \in x + 1 .. Day
        BY <3>1, FurtherOn
      <3>3. ~Stops(x, room, crew) => g[Further(x, room, crew)] = f[Further(x, room, crew)]
        BY <2>1, <3>1, <3>2
      <3>4. CASE x = n
        BY <3>3, <3>4
      <3>5. CASE x # n
        <4>1. x \in m .. Day
          BY <2>1, <3>5
        <4>2. f[x] = IF Stops(x, room, crew) THEN x ELSE f[Further(x, room, crew)]
          BY <1>4, <4>1 DEF IsCursor
        <4> QED BY <3>3, <3>5, <4>2
      <3> QED BY <3>4, <3>5
    <2>3. DOMAIN g = n .. Day /\ g = [x \in n .. Day |-> g[x]]
      OBVIOUS
    <2> HIDE DEF g
    <2>4. IsCursor(g, n, room, crew)
      BY <2>2, <2>3 DEF IsCursor
    <2>5. n \in T
      BY <2>1, <2>4, StartFacts
    <2> QED BY <1>3, <2>1, <2>5
  <1> QED BY <1>5, <1>6

LEMMA FreeFromCursor ==
  ASSUME TypeOK, NEW room, NEW crew, NEW c \in 0 .. Day
  PROVE  FreeFrom(c, room, crew)
           = IF Stops(c, room, crew) THEN c ELSE FreeFrom(Further(c, room, crew), room, crew)
  <1> DEFINE At == CHOOSE f : IsCursor(f, 0, room, crew)
  <1>1. IsCursor(At, 0, room, crew)
    BY CursorExists
  <1>2. \A x : FreeFrom(x, room, crew) = At[x]
    BY DEF FreeFrom, IsCursor, Stops, Further, BlockingAt
  <1> HIDE DEF At
  <1>3. At[c] = IF Stops(c, room, crew) THEN c ELSE At[Further(c, room, crew)]
    BY <1>1 DEF IsCursor
  <1> QED BY <1>2, <1>3

\* The cursor ends at the first place from c on that nothing reserved blocks, or
\* past the last place of the window.
LEMMA FreeFromEarliest ==
  ASSUME TypeOK, NEW room, NEW crew, NEW c \in 0 .. Day
  PROVE  /\ FreeFrom(c, room, crew) \in c .. Day
         /\ Stops(FreeFrom(c, room, crew), room, crew)
         /\ \A s \in c .. FreeFrom(c, room, crew) - 1 : BlockingAt(s, room, crew) # {}
  <1> DEFINE F(x) == FreeFrom(x, room, crew)
             Good(x) == /\ F(x) \in x .. Day
                        /\ Stops(F(x), room, crew)
                        /\ \A s \in x .. F(x) - 1 : BlockingAt(s, room, crew) # {}
             Bad == {x \in 0 .. Day : ~Good(x)}
  <1>1. SUFFICES ASSUME Bad # {} PROVE FALSE
    OBVIOUS
  <1>2. PICK x \in Bad : \A y \in Bad : y <= x
    <2>1. Bad \in SUBSET (0 .. Day) /\ Day \in Nat
      BY StartFacts
    <2> HIDE DEF Bad
    <2> QED BY <1>1, <2>1, Greatest
  <1>3. x \in 0 .. Day /\ ~Good(x) /\ \A y \in 0 .. Day : y > x => Good(y)
    BY <1>2
  <1>4. F(x) = IF Stops(x, room, crew) THEN x ELSE F(Further(x, room, crew))
    BY <1>3, FreeFromCursor
  <1>5. CASE Stops(x, room, crew)
    BY <1>3, <1>4, <1>5
  <1>6. CASE ~Stops(x, room, crew)
    <2> DEFINE y == Further(x, room, crew)
    <2>1. y \in x + 1 .. Day
      BY <1>3, <1>6, FurtherOn
    <2>2. PICK h \in BlockingAt(x, room, crew) : y = h.start + Duration
      BY <1>3, <1>6, FurtherOn
    <2>3. /\ h \in Reserved /\ h.start < x + Duration
          /\ h.room = room \/ Staff(h) \cap Staff(crew) # {}
      BY DEF BlockingAt, Overlap
    <2>4. h.start \in Nat
      BY <2>3, ReservedTyped
    <2> HIDE DEF y
    <2>5. Good(y)
      BY <1>3, <2>1
    <2>6. F(x) = F(y)
      BY <1>4, <1>6 DEF y
    <2>7. ASSUME NEW s \in x .. y - 1
          PROVE  h \in BlockingAt(s, room, crew)
      <3>1. s < h.start + Duration /\ h.start < s + Duration
        BY <1>3, <2>1, <2>2, <2>3, <2>4, StartFacts
      <3> QED BY <2>3, <3>1 DEF BlockingAt, Overlap
    <2>8. ASSUME NEW s \in x .. F(y) - 1
          PROVE  BlockingAt(s, room, crew) # {}
      <3>1. CASE s < y
        BY <1>3, <2>1, <2>7, <3>1
      <3>2. CASE ~(s < y)
        BY <1>3, <2>1, <2>5, <3>2
      <3> QED BY <3>1, <3>2
    <2>9. F(y) \in x .. Day
      BY <1>3, <2>1, <2>5
    <2> QED BY <1>3, <2>5, <2>6, <2>8, <2>9
  <1> QED BY <1>5, <1>6

------------------------------------------------------------------------------
(* The places of a queue *)

CursorBefore(i, S) == IF i = 1 THEN 0 ELSE S[i - 1] + Duration
SlotOf(i, S, q, room) ==
  IF CursorBefore(i, S) > Day THEN CursorBefore(i, S)
  ELSE FreeFrom(CursorBefore(i, S), room, people[q[i]])
AreSlots(S, n, q, room) == S = [i \in 1 .. n |-> SlotOf(i, S, q, room)]

LEMMA SlotsExist ==
  ASSUME NEW n \in Nat, NEW q, NEW room
  PROVE  \E S : AreSlots(S, n, q, room)
  <1> DEFINE Bad == {k \in 0 .. n : ~ \E S : AreSlots(S, k, q, room)}
  <1>1. SUFFICES ASSUME Bad # {} PROVE FALSE
    OBVIOUS
  <1>2. PICK m \in Bad : \A k \in Bad : m <= k
    <2>1. Bad \in SUBSET Nat
      OBVIOUS
    <2> HIDE DEF Bad
    <2> QED BY <1>1, <2>1, Least
  <1>3. CASE m = 0
    <2> DEFINE S == [i \in 1 .. 0 |-> 0]
    <2>1. AreSlots(S, 0, q, room)
      BY DEF AreSlots
    <2> QED BY <1>2, <1>3, <2>1
  <1>4. CASE m # 0
    <2>1. m - 1 \in 0 .. n /\ m \in Nat /\ m - 1 \notin Bad
      BY <1>2, <1>4
    <2>2. PICK f : AreSlots(f, m - 1, q, room)
      BY <2>1
    <2> DEFINE g == [i \in 1 .. m |-> IF i = m THEN SlotOf(m, f, q, room) ELSE f[i]]
    <2>3. ASSUME NEW i \in 1 .. m
          PROVE  g[i] = SlotOf(i, g, q, room)
      <3>1. CursorBefore(i, g) = CursorBefore(i, f)
        <4>1. CASE i = 1
          BY <4>1 DEF CursorBefore
        <4>2. CASE i # 1
          <5>1. i - 1 \in 1 .. m /\ i - 1 # m
            BY <2>1, <4>2
          <5> QED BY <5>1 DEF CursorBefore
        <4> QED BY <4>1, <4>2
      <3>2. SlotOf(i, g, q, room) = SlotOf(i, f, q, room)
        BY <3>1 DEF SlotOf
      <3>3. CASE i = m
        BY <3>2, <3>3
      <3>4. CASE i # m
        <4>1. i \in 1 .. m - 1
          BY <2>1, <3>4
        <4>2. f[i] = SlotOf(i, f, q, room)
          BY <2>2, <4>1 DEF AreSlots
        <4> QED BY <3>2, <3>4, <4>2
      <3> QED BY <3>3, <3>4
    <2>4. g = [i \in 1 .. m |-> g[i]]
      OBVIOUS
    <2> HIDE DEF g
    <2>5. AreSlots(g, m, q, room)
      BY <2>3, <2>4 DEF AreSlots
    <2> QED BY <1>2, <2>5
  <1> QED BY <1>3, <1>4

LEMMA SlotsAre ==
  ASSUME NEW n \in Nat, NEW q \in [1 .. n -> Team], NEW room
  PROVE  /\ DOMAIN Slots(q, room) = 1 .. n
         /\ \A i \in 1 .. n : Slots(q, room)[i] = SlotOf(i, Slots(q, room), q, room)
  <1>1. Len(q) = n
    OBVIOUS
  <1>2. Slots(q, room) = CHOOSE S : AreSlots(S, n, q, room)
    BY <1>1 DEF Slots, AreSlots, SlotOf, CursorBefore
  <1>3. AreSlots(Slots(q, room), n, q, room)
    BY <1>2, SlotsExist
  <1> QED BY <1>3 DEF AreSlots

\* The i-th team starts at the first place after the previous one that nothing
\* reserved blocks, or past the last place of the window.
SlotGood(i, S, q, room) ==
  /\ S[i] \in Nat /\ CursorBefore(i, S) \in Nat /\ S[i] >= CursorBefore(i, S)
  /\ S[i] + Duration <= Day => BlockingAt(S[i], room, people[q[i]]) = {}
  /\ \A s \in CursorBefore(i, S) .. S[i] - 1 : BlockingAt(s, room, people[q[i]]) # {}

LEMMA SlotsTyped ==
  ASSUME TypeOK, NEW n \in Nat, NEW q \in [1 .. n -> Team], NEW room, NEW i \in 1 .. n
  PROVE  SlotGood(i, Slots(q, room), q, room)
  <1> DEFINE S == Slots(q, room)
             Bad == {k \in 1 .. n : S[k] \notin Nat}
  <1>1. ASSUME NEW k \in 1 .. n, CursorBefore(k, S) \in Nat
        PROVE  SlotGood(k, S, q, room)
    <2> DEFINE c == CursorBefore(k, S)
    <2>1. S[k] = SlotOf(k, S, q, room)
      BY SlotsAre
    <2>2. CASE c > Day
      <3>1. S[k] = c
        BY <2>1, <2>2 DEF SlotOf
      <3> HIDE DEF S
      <3> QED BY <1>1, <2>2, <3>1, StartFacts DEF SlotGood
    <2>3. CASE ~(c > Day)
      <3>1. S[k] = FreeFrom(c, room, people[q[k]])
        BY <2>1, <2>3 DEF SlotOf
      <3>2. c \in 0 .. Day
        BY <1>1, <2>3, StartFacts
      <3> HIDE DEF S, c
      <3>3. /\ S[k] \in c .. Day
            /\ Stops(S[k], room, people[q[k]])
            /\ \A s \in c .. S[k] - 1 : BlockingAt(s, room, people[q[k]]) # {}
        BY <3>1, <3>2, FreeFromEarliest
      <3>4. S[k] + Duration <= Day => BlockingAt(S[k], room, people[q[k]]) = {}
        BY <3>2, <3>3, StartFacts DEF Stops
      <3>5. S[k] \in Nat /\ S[k] >= c
        BY <3>2, <3>3
      <3> QED BY <1>1, <3>3, <3>4, <3>5 DEF c, SlotGood
    <2> QED BY <2>2, <2>3
  <1>2. Bad = {}
    <2> SUFFICES ASSUME Bad # {} PROVE FALSE
      OBVIOUS
    <2>1. PICK k \in Bad : \A j \in Bad : k <= j
      <3>1. Bad \in SUBSET Nat
        OBVIOUS
      <3> HIDE DEF Bad
      <3> QED BY <3>1, Least
    <2>2. CursorBefore(k, S) \in Nat
      <3>1. CASE k = 1
        BY <3>1 DEF CursorBefore
      <3>2. CASE k # 1
        <4>1. k - 1 \in 1 .. n /\ k - 1 \notin Bad
          BY <2>1, <3>2
        <4>2. S[k - 1] \in Nat
          BY <4>1
        <4> HIDE DEF S
        <4> QED BY <3>2, <4>2, StartFacts DEF CursorBefore
      <3> QED BY <3>1, <3>2
    <2>3. S[k] \in Nat
      BY <1>1, <2>1, <2>2 DEF SlotGood
    <2> QED BY <2>1, <2>3
  <1>3. CursorBefore(i, S) \in Nat
    <2>1. CASE i = 1
      BY <2>1 DEF CursorBefore
    <2>2. CASE i # 1
      <3>1. S[i - 1] \in Nat
        BY <1>2, <2>2
      <3> HIDE DEF S
      <3> QED BY <2>2, <3>1, StartFacts DEF CursorBefore
    <2> QED BY <2>1, <2>2
  <1> QED BY <1>1, <1>3

\* Later teams of a queue start after the earlier ones have ended.
LEMMA SlotsSpread ==
  ASSUME TypeOK, NEW n \in Nat, NEW q \in [1 .. n -> Team], NEW room,
         NEW i \in 1 .. n, NEW j \in 1 .. n, i < j
  PROVE  Slots(q, room)[j] >= Slots(q, room)[i] + Duration
  <1> DEFINE S == Slots(q, room)
             Bad == {k \in i + 1 .. n : ~(S[k] >= S[i] + Duration)}
  <1>1. SUFFICES ASSUME Bad # {} PROVE FALSE
    OBVIOUS
  <1>2. PICK k \in Bad : \A l \in Bad : k <= l
    <2>1. Bad \in SUBSET Nat
      OBVIOUS
    <2> HIDE DEF Bad
    <2> QED BY <1>1, <2>1, Least
  <1>3. k \in 1 .. n /\ k # 1 /\ k - 1 \in 1 .. n /\ k > i
    BY <1>2
  <1>4. S[k] \in Nat /\ S[k - 1] \in Nat /\ S[i] \in Nat /\ S[k] >= S[k - 1] + Duration
    <2>1. S[k] >= CursorBefore(k, S) /\ S[k] \in Nat /\ S[k - 1] \in Nat /\ S[i] \in Nat
      BY <1>3, SlotsTyped DEF SlotGood
    <2> QED BY <1>3, <2>1 DEF CursorBefore
  <1>5. k - 1 = i \/ S[k - 1] >= S[i] + Duration
    BY <1>2, <1>3
  <1> HIDE DEF S
  <1>6. S[k] >= S[i] + Duration
    BY <1>4, <1>5, StartFacts
  <1> QED BY <1>2, <1>6

LEMMA MinutesOverlap ==
  ASSUME NEW a \in Nat, NEW b \in Nat
  PROVE  ((a .. a + Duration - 1) \cap (b .. b + Duration - 1) = {}) <=> ~Overlap(a, b)
  <1>1. ASSUME Overlap(a, b)
        PROVE  (a .. a + Duration - 1) \cap (b .. b + Duration - 1) # {}
    <2>1. CASE a <= b
      <3>1. b \in (a .. a + Duration - 1) \cap (b .. b + Duration - 1)
        BY <1>1, <2>1, StartFacts DEF Overlap
      <3> QED BY <3>1
    <2>2. CASE b <= a
      <3>1. a \in (a .. a + Duration - 1) \cap (b .. b + Duration - 1)
        BY <1>1, <2>2, StartFacts DEF Overlap
      <3> QED BY <3>1
    <2> QED BY <2>1, <2>2
  <1>2. ASSUME NEW x \in (a .. a + Duration - 1) \cap (b .. b + Duration - 1)
        PROVE  Overlap(a, b)
    BY StartFacts DEF Overlap
  <1> QED BY <1>1, <1>2

LEMMA QueueIs ==
  ASSUME NEW q \in Queues
  PROVE  \E n \in Nat : q \in [1 .. n -> Team] /\ DOMAIN q = 1 .. n /\ Len(q) = n
  <1>1. PICK n \in 1 .. Cardinality(Team) : q \in [1 .. n -> Team]
    BY DEF Queues
  <1>2. n \in Nat
    OBVIOUS
  <1>3. DOMAIN q = 1 .. n /\ Len(q) = n
    BY <1>1, <1>2
  <1> QED BY <1>1, <1>2, <1>3

\* On every calendar, every start the plan gives is the first one after the
\* previous team that no reservation blocks (allocate).
LEMMA PlanEarliest == TypeOK => PlanTakesEarliest
  <1> SUFFICES ASSUME TypeOK, NEW q \in Queues, NEW m \in Room, NEW i \in DOMAIN q
               PROVE  LET S == Slots(q, m)
                          Free(s) == \A j \in Ids :
                            LET h == hearings[j]
                            IN  \/ h.status \in {"cancelled", "archived"}
                                \/ (s .. s + Duration - 1) \cap Minutes(h) = {}
                                \/ h.room # m /\ Staff(h) \cap Staff(people[q[i]]) = {}
                          c == IF i = 1 THEN 0 ELSE S[i - 1] + Duration
                      IN  /\ S[i] >= c
                          /\ S[i] + Duration <= Day => Free(S[i])
                          /\ \A s \in c .. S[i] - 1 : s + Duration <= Day => ~ Free(s)
    BY DEF PlanTakesEarliest
  <1> DEFINE S == Slots(q, m)
             crew == people[q[i]]
             Free(s) == \A j \in Ids :
                            LET h == hearings[j]
                            IN  \/ h.status \in {"cancelled", "archived"}
                                \/ (s .. s + Duration - 1) \cap Minutes(h) = {}
                                \/ h.room # m /\ Staff(h) \cap Staff(crew) = {}
             c == IF i = 1 THEN 0 ELSE S[i - 1] + Duration
  <1>1. ASSUME NEW s \in Nat
        PROVE  Free(s) <=> BlockingAt(s, m, crew) = {}
    <2>1. ASSUME NEW j \in Ids
          PROVE  (hearings[j] \in BlockingAt(s, m, crew)) <=>
                    ~ LET h == hearings[j]
                      IN  \/ h.status \in {"cancelled", "archived"}
                          \/ (s .. s + Duration - 1) \cap Minutes(h) = {}
                          \/ h.room # m /\ Staff(h) \cap Staff(crew) = {}
      <3> DEFINE h == hearings[j]
      <3>1. h \in Hearing /\ h.start \in Nat
        BY StartFacts DEF TypeOK, Hearing
      <3>2. (s .. s + Duration - 1) \cap Minutes(h) = {} <=> ~Overlap(s, h.start)
        BY <3>1, MinutesOverlap DEF Minutes
      <3>3. h.status \notin {"cancelled", "archived"} <=> h.status \in {"scheduled", "done"}
        BY <3>1 DEF Hearing
      <3>4. h.status \in {"scheduled", "done"} => h \in Reserved
        BY DEF Reserved
      <3>5. h \in Reserved => h.status \in {"scheduled", "done"}
        BY DEF Reserved
      <3> QED BY <3>2, <3>3, <3>4, <3>5 DEF BlockingAt
    <2>2. \A h \in BlockingAt(s, m, crew) : \E j \in Ids : h = hearings[j]
      BY DEF BlockingAt, Reserved
    <2> QED BY <2>1, <2>2
  <1>2. PICK n \in Nat : q \in [1 .. n -> Team] /\ DOMAIN q = 1 .. n
    BY QueueIs
  <1>3. c = CursorBefore(i, S)
    BY DEF CursorBefore
  <1>4. /\ S[i] \in Nat /\ c \in Nat /\ S[i] >= c
        /\ S[i] + Duration <= Day => BlockingAt(S[i], m, crew) = {}
        /\ \A s \in c .. S[i] - 1 : BlockingAt(s, m, crew) # {}
    <2>1. i \in 1 .. n /\ q \in [1 .. n -> Team]
      BY <1>2
    <2>2. SlotGood(i, S, q, m)
      BY <2>1, SlotsTyped
    <2> HIDE DEF S, c, Free
    <2> QED BY <1>3, <2>2 DEF SlotGood
  <1> HIDE DEF S, crew, Free
  <1>5. \A s \in c .. S[i] - 1 : s \in Nat
    BY <1>4
  <1>6. S[i] + Duration <= Day => Free(S[i])
    BY <1>1, <1>4
  <1>7. \A s \in c .. S[i] - 1 : s + Duration <= Day => ~ Free(s)
    BY <1>1, <1>4, <1>5
  <1> QED BY <1>4, <1>6, <1>7 DEF S, crew, Free

------------------------------------------------------------------------------
(* New hearings *)

Placed(c) == /\ c.team \in Team /\ c.start \in Start /\ c.room \in Room
             /\ c.panel \in SUBSET Person /\ c.documenter \in Person \cup {Nobody}

LEMMA NewTyped ==
  ASSUME NEW c, Placed(c), NEW k \in Key \cup {None}
  PROVE  /\ NewHearing(c, k) \in Hearing
         /\ NewHearing(c, k).team = c.team /\ NewHearing(c, k).start = c.start
         /\ NewHearing(c, k).room = c.room /\ NewHearing(c, k).panel = c.panel
         /\ NewHearing(c, k).documenter = c.documenter /\ NewHearing(c, k).batch = k
         /\ NewHearing(c, k).status = "scheduled" /\ NewHearing(c, k).origin = "created"
         /\ NewHearing(c, k).submitted = {}
  BY DEF NewHearing, Hearing, Placed

LEMMA Added ==
  ASSUME TypeOK, NEW n \in Nat, NEW cs, Len(cs) = n, \A i \in 1 .. n : Placed(cs[i]),
         NEW k \in Key \cup {None}, AddHearings(cs, k)
  PROVE  /\ created' = created + n /\ created' \in 0 .. MaxHearing
         /\ Ids' = Ids \cup (created + 1 .. created + n) /\ Ids' \subseteq 1 .. created'
         /\ hearings' \in [Ids' -> Hearing]
         /\ \A i \in Ids : hearings'[i] = hearings[i] /\ i <= created
         /\ \A i \in Ids' \ Ids : /\ i - created \in 1 .. n
                                  /\ hearings'[i] = NewHearing(cs[i - created], k)
         /\ \A i \in Ids' : hearings'[i].submitted \subseteq hearings'[i].panel
  <1>1. created \in Nat /\ Ids \subseteq 1 .. created
    BY SizesAssumption DEF TypeOK
  <1>2. created' = created + n /\ created' \in 0 .. MaxHearing
    BY <1>1, SizesAssumption DEF AddHearings
  <1>3. hearings' = [i \in Ids \cup (created + 1 .. created + n) |->
                       IF i <= created THEN hearings[i] ELSE NewHearing(cs[i - created], k)]
    BY DEF AddHearings
  <1>4. Ids' = Ids \cup (created + 1 .. created + n)
    BY <1>3 DEF Ids
  <1>5. \A i \in Ids : hearings'[i] = hearings[i] /\ i <= created
    BY <1>1, <1>3
  <1>6. \A i \in Ids' \ Ids : /\ i - created \in 1 .. n
                              /\ hearings'[i] = NewHearing(cs[i - created], k)
    BY <1>1, <1>3, <1>4
  <1>7. ASSUME NEW i \in Ids'
        PROVE  hearings'[i] \in Hearing /\ hearings'[i].submitted \subseteq hearings'[i].panel
    <2>1. CASE i \in Ids
      BY <1>5, <2>1 DEF TypeOK
    <2>2. CASE i \notin Ids
      <3>1. i - created \in 1 .. n /\ hearings'[i] = NewHearing(cs[i - created], k)
        BY <1>6, <2>2
      <3> DEFINE c == cs[i - created]
      <3>2. Placed(c)
        BY <3>1
      <3> HIDE DEF c
      <3>3. NewHearing(c, k) \in Hearing /\ NewHearing(c, k).submitted = {}
        BY <3>2, NewTyped
      <3> QED BY <3>1, <3>3 DEF c
    <2> QED BY <2>1, <2>2
  <1>8. hearings' \in [Ids' -> Hearing]
    BY <1>3, <1>4, <1>7
  <1>10. Ids' \subseteq 1 .. created'
    BY <1>1, <1>2, <1>4
  <1> QED BY <1>2, <1>4, <1>5, <1>6, <1>7, <1>8, <1>10

------------------------------------------------------------------------------
(* Types *)

\* A token is the plan of a queue of teams in one room.
TokenPlanned == token # None => token.teams \in Queues /\ token.room \in Room

TypeInv == TypeOK /\ TokenPlanned

\* The hearings of a plan that still holds: the members of its queue, at the
\* places that the calendar of now gives them, with the rosters of now.
Planned == [i \in DOMAIN token.teams |->
              [team |-> token.teams[i], start |-> token.starts[i], room |-> token.room,
               panel |-> token.people[i].panel, documenter |-> token.people[i].documenter]]

LEMMA PlannedNow ==
  ASSUME TypeInv, token # None, StillCurrent(token), Complete(token)
  PROVE  \E n \in Nat :
           /\ token.teams \in [1 .. n -> Team] /\ DOMAIN token.teams = 1 .. n /\ Len(Planned) = n
           /\ \A i \in 1 .. n :
                /\ Placed(Planned[i])
                /\ Planned[i].team = token.teams[i] /\ Planned[i].room = token.room
                /\ Planned[i].start = Slots(token.teams, token.room)[i]
                /\ Planned[i].panel = people[token.teams[i]].panel
                /\ Planned[i].documenter = people[token.teams[i]].documenter
                /\ Planned[i].start + Duration <= Day
  <1> DEFINE q == token.teams
             room == token.room
  <1>1. q \in Queues /\ room \in Room
    BY DEF TypeInv, TokenPlanned
  <1>2. PICK n \in Nat : q \in [1 .. n -> Team] /\ DOMAIN q = 1 .. n
    BY <1>1, QueueIs
  <1>3. Plan(q, room) = token
    BY DEF StillCurrent
  <1>4. /\ Plan(q, room).starts = Slots(q, room)
        /\ Plan(q, room).people = [i \in DOMAIN q |-> people[q[i]]]
    BY DEF Plan
  <1>5. /\ token.starts = Slots(q, room)
        /\ token.people = [i \in DOMAIN q |-> people[q[i]]]
    <2> HIDE DEF q, room
    <2> QED BY <1>3, <1>4
  <1>6. ASSUME NEW i \in 1 .. n
        PROVE  /\ Planned[i].team = q[i] /\ Planned[i].room = room
               /\ Planned[i].start = Slots(q, room)[i]
               /\ Planned[i].panel = people[q[i]].panel
               /\ Planned[i].documenter = people[q[i]].documenter
    BY <1>2, <1>5 DEF Planned
  <1>7. ASSUME NEW i \in 1 .. n
        PROVE  Planned[i].start + Duration <= Day /\ Planned[i].start \in Start
    <2>1. Planned[i].start + Duration <= Day
      BY <1>2, <1>5, <1>6 DEF Complete
    <2>2. Planned[i].start \in Nat
      <3>1. SlotGood(i, Slots(q, room), q, room)
        BY <1>2, SlotsTyped DEF TypeInv
      <3> QED BY <1>6, <3>1 DEF SlotGood
    <2> QED BY <2>1, <2>2, StartFacts DEF Start
  <1>8. ASSUME NEW i \in 1 .. n PROVE Placed(Planned[i])
    <2>1. q[i] \in Team
      BY <1>2
    <2>2. people[q[i]] \in People
      BY <2>1 DEF TypeInv, TypeOK
    <2> QED BY <1>1, <1>6, <1>7, <2>1, <2>2 DEF Placed, People
  <1>9. Len(Planned) = n
    BY <1>2 DEF Planned
  <1> QED BY <1>2, <1>6, <1>7, <1>8, <1>9

\* What an operation may ask for.
Requests == [start : Start, room : Room] \cup [panel : SUBSET Person]
              \cup [documenter : Person \cup {Nobody}] \cup [status : {"scheduled", "cancelled"}]
PeopleRequests == [panel : SUBSET Person] \cup [documenter : Person \cup {Nobody}]

LEMMA WithHearing ==
  ASSUME NEW h \in Hearing, NEW request \in Requests
  PROVE  /\ With(h, request) \in Hearing
         /\ With(h, request).team = h.team /\ With(h, request).submitted = h.submitted
         /\ With(h, request).batch = h.batch /\ With(h, request).revision = h.revision
         /\ With(h, request).origin = h.origin
  <1>1. CASE request \in [start : Start, room : Room]
    BY <1>1 DEF With, Hearing
  <1>2. CASE request \in [panel : SUBSET Person]
    BY <1>2 DEF With, Hearing
  <1>3. CASE request \in [documenter : Person \cup {Nobody}]
    BY <1>3 DEF With, Hearing
  <1>4. CASE request \in [status : {"scheduled", "cancelled"}]
    BY <1>4 DEF With, Hearing
  <1> QED BY <1>1, <1>2, <1>3, <1>4 DEF Requests

LEMMA WithPeople ==
  ASSUME NEW r \in People, NEW request \in PeopleRequests
  PROVE  With(r, request) \in People /\ With(r, request).revision = r.revision
  <1>1. CASE request \in [panel : SUBSET Person]
    BY <1>1 DEF With, People
  <1>2. CASE request \in [documenter : Person \cup {Nobody}]
    BY <1>2 DEF With, People
  <1> QED BY <1>1, <1>2 DEF PeopleRequests

\* A saved hearing: what was asked for, and where its place comes from.
LEMMA SavedShape ==
  ASSUME NEW old \in Hearing, NEW h \in Hearing, h.team = old.team, h.batch = old.batch,
         h.submitted = old.submitted, h.revision = old.revision, h.origin = old.origin
  PROVE  LET x == Saved(old, h)
         IN  /\ x \in Hearing
             /\ x.status = h.status /\ x.start = h.start /\ x.room = h.room
             /\ x.panel = h.panel /\ x.documenter = h.documenter
             /\ x.team = old.team /\ x.batch = old.batch /\ x.submitted = old.submitted
             /\ x.origin = "board" => x = old
             /\ x.origin = "created" /\ x.status = "scheduled" =>
                  old.origin = "created" /\ (old.status = "cancelled" => x = old)
  <1> DEFINE x == Saved(old, h)
  <1>1. CASE Content(h) = Content(old)
    BY <1>1 DEF Saved, Content, Hearing
  <1>2. CASE Content(h) # Content(old)
    <2> DEFINE o == IF old.origin = "board" \/ (old.status = "cancelled" /\ h.status = "scheduled")
                    THEN "restored" ELSE old.origin
    <2>1. x = [h EXCEPT !.revision = old.revision + 1, !.origin = o]
      BY <1>2 DEF Saved
    <2>2. old.revision + 1 \in Nat /\ o \in {"created", "restored", "board"} /\ o # "board"
      BY DEF Hearing
    <2>3. o = "created" => old.origin = "created"
                            /\ ~(old.status = "cancelled" /\ h.status = "scheduled")
      OBVIOUS
    <2> HIDE DEF o, x
    <2>4. /\ x \in Hearing /\ x.origin = o
          /\ x.status = h.status /\ x.start = h.start /\ x.room = h.room
          /\ x.panel = h.panel /\ x.documenter = h.documenter
          /\ x.team = h.team /\ x.batch = h.batch /\ x.submitted = h.submitted
      BY <2>1, <2>2 DEF Hearing
    <2> QED BY <2>2, <2>3, <2>4 DEF x
  <1> QED BY <1>1, <1>2

------------------------------------------------------------------------------
(* What a step does to the hearings that were there *)

Operation == \E request \in Requests, continuing \in BOOLEAN :
               /\ continuing => request \in PeopleRequests
               /\ Operate(request, continuing)

\* The hearing h became x by a write other than an operation: it keeps its place,
\* it is only scheduled again by the board, and its revision covers every change
\* but that of an evaluation or a settlement.
Relaxed(x, h) ==
  /\ x \in Hearing /\ x.submitted \subseteq x.panel
  /\ x.team = h.team /\ x.start = h.start /\ x.room = h.room /\ x.panel = h.panel
  /\ x.documenter = h.documenter /\ x.batch = h.batch
  /\ x.status = "scheduled" => x.origin = "board" \/ (h.status = "scheduled" /\ x.origin = h.origin)
  /\ \/ x.revision > h.revision
     \/ x.revision = h.revision /\ (Content(x) = Content(h) \/ x.status = "done")

RelaxingStep == \E i \in Ids :
  \/ BoardCancel(i) \/ BoardRestore(i) \/ BoardArchive(i) \/ Delete(i) \/ Settle(i)
  \/ \E p \in Person : Evaluate(i, p)

LEMMA RelaxedSame ==
  ASSUME TypeOK, NEW i \in Ids
  PROVE  Relaxed(hearings[i], hearings[i])
  BY DEF TypeOK, Relaxed

LEMMA RelaxedForms ==
  ASSUME NEW h \in Hearing, h.submitted \subseteq h.panel
  PROVE  /\ \A st \in {"cancelled", "archived", "done"} : Relaxed(Transitioned(h, st), h)
         /\ Relaxed([Transitioned(h, "scheduled") EXCEPT !.origin = "board"], h)
         /\ Relaxed([h EXCEPT !.status = "done"], h)
         /\ \A p \in h.panel : Relaxed([h EXCEPT !.submitted = @ \cup {p}], h)
  <1>1. h.revision + 1 \in Nat /\ h.revision + 1 > h.revision
    BY DEF Hearing
  <1> DEFINE more == h.revision + 1
  <1>2. more \in Nat /\ more > h.revision
    BY <1>1
  <1> HIDE DEF more
  <1>3. ASSUME NEW st \in {"scheduled", "done", "cancelled", "archived"},
               NEW o \in {"created", "restored", "board"}
        PROVE  LET x == [h EXCEPT !.status = st, !.revision = more, !.origin = o]
               IN  /\ x \in Hearing /\ x.status = st /\ x.revision = more /\ x.origin = o
                   /\ x.team = h.team /\ x.start = h.start /\ x.room = h.room
                   /\ x.panel = h.panel /\ x.documenter = h.documenter
                   /\ x.batch = h.batch /\ x.submitted = h.submitted
    BY <1>2 DEF Hearing
  <1>4. ASSUME NEW st \in {"cancelled", "archived", "done"}
        PROVE  Relaxed(Transitioned(h, st), h)
    <2> DEFINE x == [h EXCEPT !.status = st, !.revision = more, !.origin = h.origin]
    <2>1. /\ h.origin \in {"created", "restored", "board"}
          /\ st \in {"scheduled", "done", "cancelled", "archived"}
      BY DEF Hearing
    <2>2. /\ x \in Hearing /\ x.status = st /\ x.revision = more /\ x.origin = h.origin
          /\ x.team = h.team /\ x.start = h.start /\ x.room = h.room
          /\ x.panel = h.panel /\ x.documenter = h.documenter
          /\ x.batch = h.batch /\ x.submitted = h.submitted
      BY <1>2, <2>1 DEF Hearing
    <2>3. x = Transitioned(h, st)
      <3>1. Transitioned(h, st) = [h EXCEPT !.status = st, !.revision = more]
        BY DEF Transitioned, more
      <3>2. [h EXCEPT !.status = st, !.revision = more].origin = h.origin
        BY DEF Hearing
      <3> QED BY <3>1, <3>2 DEF Hearing
    <2> HIDE DEF x
    <2>4. Relaxed(x, h)
      BY <1>2, <2>2 DEF Relaxed
    <2> QED BY <2>3, <2>4
  <1>5. Relaxed([Transitioned(h, "scheduled") EXCEPT !.origin = "board"], h)
    <2> DEFINE x == [h EXCEPT !.status = "scheduled", !.revision = more, !.origin = "board"]
    <2>1. /\ x \in Hearing /\ x.revision = more /\ x.origin = "board"
          /\ x.team = h.team /\ x.start = h.start /\ x.room = h.room
          /\ x.panel = h.panel /\ x.documenter = h.documenter
          /\ x.batch = h.batch /\ x.submitted = h.submitted
      BY <1>3
    <2>2. x = [Transitioned(h, "scheduled") EXCEPT !.origin = "board"]
      BY DEF Transitioned, Hearing, more
    <2> HIDE DEF x
    <2>3. Relaxed(x, h)
      BY <1>2, <2>1 DEF Relaxed
    <2> QED BY <2>2, <2>3
  <1>6. Relaxed([h EXCEPT !.status = "done"], h)
    <2> DEFINE x == [h EXCEPT !.status = "done"]
    <2>1. /\ x \in Hearing /\ x.status = "done" /\ x.revision = h.revision
          /\ x.team = h.team /\ x.start = h.start /\ x.room = h.room
          /\ x.panel = h.panel /\ x.documenter = h.documenter
          /\ x.batch = h.batch /\ x.submitted = h.submitted
      BY DEF Hearing
    <2> HIDE DEF x
    <2>2. Relaxed(x, h)
      BY <2>1 DEF Relaxed
    <2> QED BY <2>2 DEF x
  <1>7. ASSUME NEW p \in h.panel
        PROVE  Relaxed([h EXCEPT !.submitted = @ \cup {p}], h)
    <2> DEFINE x == [h EXCEPT !.submitted = @ \cup {p}]
    <2>1. /\ x \in Hearing /\ x.status = h.status /\ x.revision = h.revision
          /\ x.team = h.team /\ x.start = h.start /\ x.room = h.room
          /\ x.panel = h.panel /\ x.documenter = h.documenter
          /\ x.batch = h.batch /\ x.submitted = h.submitted \cup {p} /\ x.origin = h.origin
      BY DEF Hearing
    <2> HIDE DEF x
    <2>2. Content(x) = Content(h)
      BY <2>1 DEF Content
    <2>3. Relaxed(x, h)
      BY <2>1, <2>2 DEF Relaxed
    <2> QED BY <2>3 DEF x
  <1> QED BY <1>4, <1>5, <1>6, <1>7

LEMMA Relaxes ==
  ASSUME TypeOK, RelaxingStep
  PROVE  /\ Write /\ UNCHANGED <<created, adviser, people, screen, token, batches>>
         /\ Ids' \subseteq Ids /\ hearings' \in [Ids' -> Hearing]
         /\ \A i \in Ids' : Relaxed(hearings'[i], hearings[i])
  <1> DEFINE Shape == /\ Write /\ UNCHANGED <<created, adviser, people, screen, token, batches>>
                      /\ Ids' \subseteq Ids /\ hearings' \in [Ids' -> Hearing]
                      /\ \A i \in Ids' : Relaxed(hearings'[i], hearings[i])
  <1>1. ASSUME NEW i \in Ids, NEW x, Relaxed(x, hearings[i]),
               hearings' = [hearings EXCEPT ![i] = x],
               Write, UNCHANGED <<created, adviser, people, screen, token, batches>>
        PROVE  Shape
    <2>1. Ids' = Ids
      BY <1>1 DEF Ids
    <2>2. \A j \in Ids : Relaxed(hearings'[j], hearings[j])
      BY <1>1, RelaxedSame DEF Ids
    <2>3. hearings' \in [Ids -> Hearing]
      BY <1>1, <2>2 DEF Relaxed, TypeOK
    <2> QED BY <1>1, <2>1, <2>2, <2>3
  <1> PICK i \in Ids : \/ BoardCancel(i) \/ BoardRestore(i) \/ BoardArchive(i) \/ Delete(i)
                       \/ Settle(i) \/ \E p \in Person : Evaluate(i, p)
    BY DEF RelaxingStep
  <1> DEFINE h == hearings[i]
  <1>2. h \in Hearing /\ h.submitted \subseteq h.panel
    BY DEF TypeOK
  <1> HIDE DEF h
  <1>3. \A st \in {"cancelled", "archived", "done"} : Relaxed(Transitioned(h, st), h)
    BY <1>2, RelaxedForms
  <1>4. Relaxed([Transitioned(h, "scheduled") EXCEPT !.origin = "board"], h)
    BY <1>2, RelaxedForms
  <1>5. Relaxed([h EXCEPT !.status = "done"], h)
    BY <1>2, RelaxedForms
  <1>6. \A p \in h.panel : Relaxed([h EXCEPT !.submitted = @ \cup {p}], h)
    BY <1>2, RelaxedForms
  <1> SUFFICES Shape
    OBVIOUS
  <1> HIDE DEF Shape
  <1>7. CASE BoardCancel(i)
    BY <1>1, <1>3, <1>7 DEF BoardCancel, h
  <1>8. CASE BoardRestore(i)
    BY <1>1, <1>4, <1>8 DEF BoardRestore, h
  <1>9. CASE BoardArchive(i)
    BY <1>1, <1>3, <1>9 DEF BoardArchive, h
  <1>10. CASE Settle(i)
    <2>1. PICK x \in {Transitioned(h, "done"), [h EXCEPT !.status = "done"]} :
            hearings' = [hearings EXCEPT ![i] = x]
      BY <1>10 DEF Settle, h
    <2>2. Relaxed(x, h)
      BY <1>3, <1>5, <2>1
    <2> QED BY <1>1, <1>10, <2>1, <2>2 DEF Settle, h
  <1>11. ASSUME NEW p \in Person, Evaluate(i, p) PROVE Shape
    <2>1. p \in h.panel /\ hearings' = [hearings EXCEPT ![i] = [h EXCEPT !.submitted = @ \cup {p}]]
      BY <1>11 DEF Evaluate, h
    <2> QED BY <1>1, <1>6, <1>11, <2>1 DEF Evaluate, h
  <1>12. CASE Delete(i)
    <2>1. hearings' = [j \in Ids \ {i} |-> hearings[j]]
      BY <1>12 DEF Delete
    <2>2. Ids' = Ids \ {i}
      BY <2>1 DEF Ids
    <2>3. \A j \in Ids' : Relaxed(hearings'[j], hearings[j])
      BY <2>1, <2>2, RelaxedSame
    <2>4. hearings' \in [Ids' -> Hearing]
      BY <2>1, <2>2 DEF TypeOK
    <2> QED BY <1>12, <2>2, <2>3, <2>4 DEF Delete, Shape
  <1> QED BY <1>7, <1>8, <1>9, <1>10, <1>11, <1>12

\* What an operation makes of the hearings it selected.
Changed(request) == [i \in DOMAIN screen.seen |-> With(hearings[i], request)]

LEMMA Operates ==
  ASSUME TypeOK, NEW request \in Requests, NEW continuing \in BOOLEAN,
         continuing => request \in PeopleRequests, Operate(request, continuing)
  PROVE  /\ DOMAIN screen.seen \subseteq Ids /\ Ids' = Ids /\ hearings' \in [Ids -> Hearing]
         /\ people' \in [Team -> People]
         /\ UNCHANGED <<created, adviser, token, batches>> /\ Write
         /\ \A i \in Ids \ DOMAIN screen.seen : hearings'[i] = hearings[i]
         /\ \A i \in DOMAIN screen.seen :
              LET x == hearings'[i]
                  new == Changed(request)[i]
              IN  /\ Admissible(hearings[i], new)
                  /\ x.status = new.status /\ x.start = new.start /\ x.room = new.room
                  /\ x.panel = new.panel /\ x.documenter = new.documenter
                  /\ x.team = hearings[i].team /\ x.batch = hearings[i].batch
                  /\ new.team = hearings[i].team
                  /\ x.submitted = hearings[i].submitted /\ x.submitted \subseteq x.panel
                  /\ x.origin = "board" => x = hearings[i]
                  /\ x.origin = "created" /\ x.status = "scheduled" =>
                       /\ hearings[i].origin = "created"
                       /\ hearings[i].status = "cancelled" => x = hearings[i]
         /\ NoConflicts(Changed(request))
  <1> DEFINE S == DOMAIN screen.seen
             new == Changed(request)
  <1>1. S \subseteq Ids
    BY DEF Operate, RevisionsMatch
  <1>2. /\ \A i \in S : Admissible(hearings[i], new[i])
        /\ NoConflicts(new)
        /\ hearings' = [i \in Ids |-> IF i \in S THEN Saved(hearings[i], new[i]) ELSE hearings[i]]
        /\ people' = IF continuing THEN Continued(S, request) ELSE people
        /\ UNCHANGED <<created, adviser, token, batches>> /\ Write
    BY DEF Operate, Changed
  <1>3. DOMAIN new = S
    BY DEF Changed
  <1>4. ASSUME NEW i \in S
        PROVE  LET x == hearings'[i]
               IN  /\ x \in Hearing
                   /\ x.status = new[i].status /\ x.start = new[i].start /\ x.room = new[i].room
                   /\ x.panel = new[i].panel /\ x.documenter = new[i].documenter
                   /\ x.team = hearings[i].team /\ x.batch = hearings[i].batch
                   /\ x.submitted = hearings[i].submitted /\ new[i].team = hearings[i].team
                   /\ x.origin = "board" => x = hearings[i]
                   /\ x.origin = "created" /\ x.status = "scheduled" =>
                        /\ hearings[i].origin = "created"
                        /\ hearings[i].status = "cancelled" => x = hearings[i]
    <2>1. i \in Ids /\ hearings[i] \in Hearing
      BY <1>1 DEF TypeOK
    <2>2. new[i] = With(hearings[i], request)
      BY DEF Changed
    <2> DEFINE h == hearings[i]
               w == new[i]
    <2>3. /\ w \in Hearing /\ w.team = h.team /\ w.submitted = h.submitted
          /\ w.batch = h.batch /\ w.revision = h.revision /\ w.origin = h.origin
      BY <2>1, <2>2, WithHearing
    <2>4. hearings'[i] = Saved(h, w)
      BY <1>2, <2>1
    <2> HIDE DEF h, w
    <2>5. h \in Hearing
      BY <2>1 DEF h
    <2>6. LET x == Saved(h, w)
          IN  /\ x \in Hearing
              /\ x.status = w.status /\ x.start = w.start /\ x.room = w.room
              /\ x.panel = w.panel /\ x.documenter = w.documenter
              /\ x.team = h.team /\ x.batch = h.batch /\ x.submitted = h.submitted
              /\ x.origin = "board" => x = h
              /\ x.origin = "created" /\ x.status = "scheduled" =>
                   h.origin = "created" /\ (h.status = "cancelled" => x = h)
      BY <2>3, <2>5, SavedShape
    <2> QED BY <2>3, <2>4, <2>6 DEF h, w
  <1> HIDE DEF new
  <1>5. \A i \in Ids : hearings'[i] \in Hearing
    BY <1>2, <1>4 DEF TypeOK
  <1>6. Ids' = Ids /\ hearings' \in [Ids -> Hearing]
    <2>1. Ids' = Ids
      BY <1>2 DEF Ids
    <2> QED BY <1>2, <1>5, <2>1
  <1>7. \A i \in S : hearings'[i].submitted \subseteq hearings'[i].panel
    BY <1>2, <1>4 DEF Admissible
  <1>8. people' \in [Team -> People]
    <2>1. CASE ~continuing
      BY <1>2, <2>1 DEF TypeOK
    <2>2. CASE continuing
      <3>1. ASSUME NEW t \in Team
            PROVE  Continued(S, request)[t] \in People
        <4> DEFINE r == With(people[t], request)
        <4>1. r \in People /\ people[t] \in People /\ r.revision = people[t].revision
          BY <2>2, WithPeople DEF TypeOK
        <4> HIDE DEF r
        <4>2. [r EXCEPT !.revision = people[t].revision + 1] \in People
          BY <4>1 DEF People
        <4>3. Continued(S, request)[t]
                = IF t \in {hearings[i].team : i \in S} /\ r # people[t]
                  THEN [r EXCEPT !.revision = people[t].revision + 1] ELSE people[t]
          BY DEF Continued, r
        <4> QED BY <4>1, <4>2, <4>3
      <3> QED BY <1>2, <2>2, <3>1 DEF Continued
    <2> QED BY <2>1, <2>2
  <1>9. \A i \in Ids \ S : hearings'[i] = hearings[i]
    BY <1>2
  <1> QED BY <1>1, <1>2, <1>4, <1>6, <1>7, <1>8, <1>9 DEF new

------------------------------------------------------------------------------
(* The kinds of steps, and the invariance of the types *)

Creation == \E c : Placed(c) /\ Create(c)

LEMMA Kinds ==
  ASSUME Next
  PROVE  \/ Creation
         \/ \E q \in Queues, m \in Room : Preview(q, m)
         \/ \E k \in Key : Confirm(k)
         \/ \E S \in SUBSET Ids \ {{}} : Review(S)
         \/ CloseScreen \/ Operation \/ RelaxingStep
         \/ \E t \in Team, r \in Rosters : SavePeople(t, r)
         \/ \E t \in Team, a \in Person \cup {Nobody} : ChangeAdviser(t, a)
  <1> DEFINE Kind == \/ Creation
                     \/ \E q \in Queues, m \in Room : Preview(q, m)
                     \/ \E k \in Key : Confirm(k)
                     \/ \E S \in SUBSET Ids \ {{}} : Review(S)
                     \/ CloseScreen \/ Operation \/ RelaxingStep
                     \/ \E t \in Team, r \in Rosters : SavePeople(t, r)
                     \/ \E t \in Team, a \in Person \cup {Nobody} : ChangeAdviser(t, a)
  <1>1. ASSUME NEW t \in Team, NEW s \in Start, NEW m \in Room, NEW r \in Rosters,
               Create([team |-> t, start |-> s, room |-> m, panel |-> r.panel,
                       documenter |-> r.documenter])
        PROVE  Creation
    <2> DEFINE c == [team |-> t, start |-> s, room |-> m, panel |-> r.panel,
                     documenter |-> r.documenter]
    <2>1. Placed(c)
      BY DEF Placed, Rosters
    <2> QED BY <1>1, <2>1 DEF Creation
  <1>2. ASSUME NEW request \in Requests, NEW c \in BOOLEAN, c => request \in PeopleRequests,
               Operate(request, c)
        PROVE  Operation
    BY <1>2 DEF Operation
  <1>3. ASSUME NEW s \in Start, NEW m \in Room, Reschedule(s, m)
        PROVE  Operation
    BY <1>2, <1>3 DEF Reschedule, Requests
  <1>4. ASSUME NEW p \in SUBSET Person, NEW c \in BOOLEAN, ReplacePanel(p, c)
        PROVE  Operation
    BY <1>2, <1>4 DEF ReplacePanel, Requests, PeopleRequests
  <1>5. ASSUME NEW d \in Person \cup {Nobody}, NEW c \in BOOLEAN, ReplaceDocumenter(d, c)
        PROVE  Operation
    BY <1>2, <1>5 DEF ReplaceDocumenter, Requests, PeopleRequests
  <1>6. ASSUME NEW st \in {"scheduled", "cancelled"}, SetStatus(st)
        PROVE  Operation
    BY <1>2, <1>6 DEF SetStatus, Requests
  <1> SUFFICES Kind
    OBVIOUS
  <1>7. CASE \/ \E t \in Team, s \in Start, m \in Room, r \in Rosters :
                  Create([team |-> t, start |-> s, room |-> m, panel |-> r.panel,
                          documenter |-> r.documenter])
             \/ \E s \in Start, m \in Room : Reschedule(s, m)
             \/ \E p \in SUBSET Person \ {{}}, c \in BOOLEAN : ReplacePanel(p, c)
             \/ \E d \in Person \cup {Nobody}, c \in BOOLEAN : ReplaceDocumenter(d, c)
             \/ \E st \in {"scheduled", "cancelled"} : SetStatus(st)
    BY <1>1, <1>3, <1>4, <1>5, <1>6, <1>7
  <1>8. CASE \E i \in Ids : \/ BoardCancel(i) \/ BoardRestore(i) \/ BoardArchive(i)
                            \/ Delete(i) \/ Settle(i)
                            \/ \E p \in Person : Evaluate(i, p)
    BY <1>8 DEF RelaxingStep
  <1> QED BY <1>7, <1>8 DEF Next

LEMMA Writes ==
  ASSUME TypeOK, Write
  PROVE  changes' \in 0 .. MaxChanges /\ changes' # changes
  BY SizesAssumption DEF TypeOK, Write

\* The one hearing of a creation.
LEMMA OneAdded ==
  ASSUME TypeOK, NEW c, Placed(c), Create(c)
  PROVE  /\ created' = created + 1 /\ created' \in 0 .. MaxHearing
         /\ Ids' = Ids \cup {created + 1} /\ Ids' \subseteq 1 .. created'
         /\ created + 1 \notin Ids /\ hearings' \in [Ids' -> Hearing]
         /\ \A i \in Ids : hearings'[i] = hearings[i]
         /\ hearings'[created + 1] = NewHearing(c, None)
         /\ \A i \in Ids' : hearings'[i].submitted \subseteq hearings'[i].panel
  <1>1. AddHearings(<<c>>, None)
    BY DEF Create
  <1>2. Len(<<c>>) = 1 /\ \A i \in 1 .. 1 : <<c>>[i] = c
    OBVIOUS
  <1>3. created \in Nat /\ Ids \subseteq 1 .. created
    BY SizesAssumption DEF TypeOK
  <1>4. \A i \in 1 .. 1 : Placed(<<c>>[i])
    BY <1>2
  <1> DEFINE cs == <<c>>
  <1>5. AddHearings(cs, None) /\ Len(cs) = 1 /\ \A i \in 1 .. 1 : Placed(cs[i])
    BY <1>1, <1>2, <1>4
  <1>6. 1 - 0 = 1 /\ cs[1] = c
    OBVIOUS
  <1> HIDE DEF cs
  <1>7. /\ created' = created + 1 /\ created' \in 0 .. MaxHearing
        /\ Ids' = Ids \cup (created + 1 .. created + 1) /\ Ids' \subseteq 1 .. created'
        /\ hearings' \in [Ids' -> Hearing]
        /\ \A i \in Ids : hearings'[i] = hearings[i] /\ i <= created
        /\ \A i \in Ids' \ Ids : /\ i - created \in 1 .. 1
                                 /\ hearings'[i] = NewHearing(cs[i - created], None)
        /\ \A i \in Ids' : hearings'[i].submitted \subseteq hearings'[i].panel
    BY <1>5, Added
  <1>8. created + 1 .. created + 1 = {created + 1} /\ created + 1 \notin Ids
    BY <1>3
  <1>9. created + 1 \in Ids' \ Ids /\ created + 1 - created = 1
    BY <1>3, <1>7, <1>8
  <1>10. hearings'[created + 1] = NewHearing(c, None)
    BY <1>6, <1>7, <1>9
  <1> QED BY <1>7, <1>8, <1>10

\* The hearings of a confirmed plan.
LEMMA PlanAdded ==
  ASSUME TypeInv, NEW k \in Key, Confirm(k)
  PROVE  \E n \in Nat :
           /\ token.teams \in [1 .. n -> Team] /\ DOMAIN token.teams = 1 .. n
           /\ created' = created + n /\ created' \in 0 .. MaxHearing
           /\ Ids' = Ids \cup (created + 1 .. created + n) /\ Ids' \subseteq 1 .. created'
           /\ hearings' \in [Ids' -> Hearing]
           /\ \A i \in Ids : hearings'[i] = hearings[i] /\ i <= created
           /\ \A i \in Ids' \ Ids : /\ i - created \in 1 .. n
                                    /\ hearings'[i] = NewHearing(Planned[i - created], k)
           /\ \A i \in Ids' : hearings'[i].submitted \subseteq hearings'[i].panel
           /\ \A i \in 1 .. n :
                /\ Placed(Planned[i])
                /\ Planned[i].team = token.teams[i] /\ Planned[i].room = token.room
                /\ Planned[i].start = Slots(token.teams, token.room)[i]
                /\ Planned[i].panel = people[token.teams[i]].panel
                /\ Planned[i].documenter = people[token.teams[i]].documenter
                /\ Planned[i].start + Duration <= Day
  <1>1. token # None /\ StillCurrent(token) /\ Complete(token) /\ AddHearings(Planned, k)
    BY DEF Confirm, Planned
  <1>2. PICK n \in Nat :
           /\ token.teams \in [1 .. n -> Team] /\ DOMAIN token.teams = 1 .. n /\ Len(Planned) = n
           /\ \A i \in 1 .. n :
                /\ Placed(Planned[i])
                /\ Planned[i].team = token.teams[i] /\ Planned[i].room = token.room
                /\ Planned[i].start = Slots(token.teams, token.room)[i]
                /\ Planned[i].panel = people[token.teams[i]].panel
                /\ Planned[i].documenter = people[token.teams[i]].documenter
                /\ Planned[i].start + Duration <= Day
    BY <1>1, PlannedNow
  <1> DEFINE cs == Planned
  <1>3. Len(cs) = n /\ (\A i \in 1 .. n : Placed(cs[i])) /\ AddHearings(cs, k)
    BY <1>1, <1>2
  <1> HIDE DEF cs
  <1>4. /\ created' = created + n /\ created' \in 0 .. MaxHearing
        /\ Ids' = Ids \cup (created + 1 .. created + n) /\ Ids' \subseteq 1 .. created'
        /\ hearings' \in [Ids' -> Hearing]
        /\ \A i \in Ids : hearings'[i] = hearings[i] /\ i <= created
        /\ \A i \in Ids' \ Ids : /\ i - created \in 1 .. n
                                 /\ hearings'[i] = NewHearing(cs[i - created], k)
        /\ \A i \in Ids' : hearings'[i].submitted \subseteq hearings'[i].panel
    BY <1>3, Added DEF TypeInv
  <1> QED BY <1>2, <1>4 DEF cs

LEMMA TypeInit == Init => TypeInv
  <1> SUFFICES ASSUME Init PROVE TypeInv
    OBVIOUS
  <1>1. hearings = <<>> /\ Ids = {}
    BY DEF Init, Ids
  <1>2. hearings \in [Ids -> Hearing]
    BY <1>1
  <1>3. people \in [Team -> People]
    BY DEF Init, People
  <1>4. created \in 0 .. MaxHearing /\ changes \in 0 .. MaxChanges
    BY SizesAssumption DEF Init
  <1>5. Ids \subseteq 1 .. created /\ \A i \in Ids : hearings[i].submitted \subseteq hearings[i].panel
    BY <1>1
  <1>6. TypeOK
    <2>1. adviser \in [Team -> Person \cup {Nobody}]
      BY DEF Init
    <2> QED BY <1>2, <1>3, <1>4, <1>5, <2>1 DEF TypeOK
  <1> QED BY <1>6 DEF Init, TypeInv, TokenPlanned

LEMMA TypeNext ==
  ASSUME TypeInv, [Next]_vars
  PROVE  TypeInv'
  <1>1. TypeOK /\ TokenPlanned
    BY DEF TypeInv
  <1>2. CASE Creation
    <2>1. PICK c : Placed(c) /\ Create(c)
      BY <1>2 DEF Creation
    <2>2. /\ created' \in 0 .. MaxHearing /\ Ids' \subseteq 1 .. created'
          /\ hearings' \in [Ids' -> Hearing]
          /\ \A i \in Ids' : hearings'[i].submitted \subseteq hearings'[i].panel
      BY <1>1, <2>1, OneAdded
    <2>3. changes' \in 0 .. MaxChanges
      BY <1>1, <2>1, Writes DEF Create
    <2>4. UNCHANGED <<adviser, people, token>>
      BY <2>1 DEF Create
    <2> QED BY <1>1, <2>2, <2>3, <2>4 DEF TypeInv, TypeOK, TokenPlanned
  <1>3. ASSUME NEW q \in Queues, NEW m \in Room, Preview(q, m)
        PROVE  TypeInv'
    <2>1. token'.teams = q /\ token'.room = m
      BY <1>3 DEF Preview, Plan
    <2> QED BY <1>1, <1>3, <2>1 DEF Preview, TypeInv, TypeOK, TokenPlanned, Ids
  <1>4. ASSUME NEW k \in Key, Confirm(k)
        PROVE  TypeInv'
    <2>2. /\ created' \in 0 .. MaxHearing /\ Ids' \subseteq 1 .. created'
          /\ hearings' \in [Ids' -> Hearing]
          /\ \A i \in Ids' : hearings'[i].submitted \subseteq hearings'[i].panel
      BY <1>4, PlanAdded
    <2>3. changes' \in 0 .. MaxChanges
      BY <1>1, <1>4, Writes DEF Confirm
    <2>4. UNCHANGED <<adviser, people, token>>
      BY <1>4 DEF Confirm
    <2> QED BY <1>1, <2>2, <2>3, <2>4 DEF TypeInv, TypeOK, TokenPlanned
  <1>5. CASE \/ \E S \in SUBSET Ids \ {{}} : Review(S)
             \/ CloseScreen
             \/ UNCHANGED vars
    BY <1>1, <1>5 DEF Review, CloseScreen, vars, TypeInv, TypeOK, TokenPlanned, Ids
  <1>6. CASE Operation
    <2>1. PICK request \in Requests, continuing \in BOOLEAN :
            (continuing => request \in PeopleRequests) /\ Operate(request, continuing)
      BY <1>6 DEF Operation
    <2>2. /\ Ids' = Ids /\ hearings' \in [Ids -> Hearing] /\ people' \in [Team -> People]
          /\ UNCHANGED <<created, adviser, token>> /\ Write
          /\ \A i \in Ids \ DOMAIN screen.seen : hearings'[i] = hearings[i]
          /\ \A i \in DOMAIN screen.seen : hearings'[i].submitted \subseteq hearings'[i].panel
      BY <1>1, <2>1, Operates
    <2>3. changes' \in 0 .. MaxChanges
      BY <1>1, <2>2, Writes
    <2> QED BY <1>1, <2>2, <2>3 DEF TypeInv, TypeOK, TokenPlanned
  <1>7. CASE RelaxingStep
    <2>1. /\ Write /\ UNCHANGED <<created, adviser, people, token>>
          /\ Ids' \subseteq Ids /\ hearings' \in [Ids' -> Hearing]
          /\ \A i \in Ids' : Relaxed(hearings'[i], hearings[i])
      BY <1>1, <1>7, Relaxes
    <2>2. changes' \in 0 .. MaxChanges
      BY <1>1, <2>1, Writes
    <2>3. \A i \in Ids' : hearings'[i].submitted \subseteq hearings'[i].panel
      BY <2>1 DEF Relaxed
    <2> QED BY <1>1, <2>1, <2>2, <2>3 DEF TypeInv, TypeOK, TokenPlanned
  <1>8. ASSUME NEW t \in Team, NEW r \in Rosters, SavePeople(t, r)
        PROVE  TypeInv'
    <2>1. [panel |-> r.panel, documenter |-> r.documenter,
           revision |-> people[t].revision + 1] \in People
      BY <1>1 DEF People, Rosters, TypeOK
    <2>2. people' \in [Team -> People]
      BY <1>1, <1>8, <2>1 DEF SavePeople, TypeOK
    <2>3. changes' \in 0 .. MaxChanges
      BY <1>1, <1>8, Writes DEF SavePeople
    <2> QED BY <1>1, <1>8, <2>2, <2>3 DEF SavePeople, TypeInv, TypeOK, TokenPlanned, Ids
  <1>9. ASSUME NEW t \in Team, NEW a \in Person \cup {Nobody}, ChangeAdviser(t, a)
        PROVE  TypeInv'
    <2>1. adviser' \in [Team -> Person \cup {Nobody}]
      BY <1>1, <1>9 DEF ChangeAdviser, TypeOK
    <2>2. changes' \in 0 .. MaxChanges
      BY <1>1, <1>9, Writes DEF ChangeAdviser
    <2> QED BY <1>1, <1>9, <2>1, <2>2 DEF ChangeAdviser, TypeInv, TypeOK, TokenPlanned, Ids
  <1> QED BY <1>2, <1>3, <1>4, <1>5, <1>6, <1>7, <1>8, <1>9, Kinds

\* The hearings, rosters and the token keep their types, also through deletions,
\* confirmed plans and the operations of execute_operation, which never leave an
\* evaluation of someone who is not on the panel.
THEOREM TypeOKAlways == Spec => []TypeOK
  <1>1. TypeInv => TypeOK
    BY DEF TypeInv
  <1> QED BY <1>1, TypeInit, TypeNext, PTL DEF Spec

\* build_plan's cursor: whatever the calendar holds, each team of a queue gets
\* the earliest place after the previous one that no reservation blocks.
THEOREM PlanTakesEarliestAlways == Spec => []PlanTakesEarliest
  <1>1. TypeInv => PlanTakesEarliest
    BY PlanEarliest DEF TypeInv
  <1> QED BY <1>1, TypeInit, TypeNext, PTL DEF Spec

------------------------------------------------------------------------------
(* What a screen shows, and what changed since *)

\* A hearing changed since it was seen has a higher revision, or was settled.
Grew(old, h) ==
  /\ old.revision \in Nat
  /\ \/ h.revision > old.revision
     \/ h.revision = old.revision /\ (Content(h) = old \/ h.status \in {"done", "archived"})

PeopleGrew(old, r) ==
  /\ old.revision \in Nat
  /\ r.revision > old.revision \/ r = old

HearingsGrew == \A i \in DOMAIN screen.seen :
  i \in 1 .. created /\ (i \in Ids => Grew(screen.seen[i], hearings[i]))
RostersGrew == \A t \in DOMAIN screen.people :
  t \in Team /\ PeopleGrew(screen.people[t], people[t])

Unseen == screen # None => HearingsGrew /\ RostersGrew
SeenInv == TypeInv /\ Unseen

LEMMA GrewSince ==
  ASSUME NEW old, NEW h \in Hearing, NEW x \in Hearing, Grew(old, h), Relaxed(x, h)
  PROVE  Grew(old, x)
  <1>1. h.revision \in Nat /\ x.revision \in Nat /\ old.revision \in Nat
    BY DEF Hearing, Grew
  <1>2. CASE x.revision > h.revision
    BY <1>1, <1>2 DEF Grew
  <1>3. CASE x.revision = h.revision /\ Content(x) = Content(h)
    <2>1. x.status = h.status
      <3>1. Content(x).status = x.status /\ Content(h).status = h.status
        BY DEF Content
      <3> QED BY <1>3, <3>1
    <2> QED BY <1>1, <1>3, <2>1 DEF Grew
  <1>4. CASE x.revision = h.revision /\ x.status = "done"
    BY <1>1, <1>4 DEF Grew
  <1> QED BY <1>2, <1>3, <1>4 DEF Relaxed

LEMMA UnseenInit == Init => Unseen
  BY DEF Init, Unseen

LEMMA UnseenNext ==
  ASSUME SeenInv, [Next]_vars
  PROVE  Unseen'
  <1>1. TypeInv /\ TypeOK /\ Unseen
    BY DEF SeenInv, TypeInv
  <1>2. created \in Nat /\ Ids \subseteq 1 .. created
    BY <1>1, SizesAssumption DEF TypeOK
  \* Steps that add hearings.
  <1>3. ASSUME UNCHANGED <<screen, people>>, created' \in Nat, created' >= created,
               Ids' \subseteq Ids \cup (created + 1 .. created'),
               \A i \in Ids : hearings'[i] = hearings[i]
        PROVE  Unseen'
    <2> SUFFICES ASSUME screen # None
                 PROVE  HearingsGrew' /\ RostersGrew'
      BY <1>3 DEF Unseen
    <2>1. HearingsGrew /\ RostersGrew
      BY <1>1 DEF Unseen
    <2>2. ASSUME NEW i \in DOMAIN screen.seen
          PROVE  i \in 1 .. created' /\ (i \in Ids' => Grew(screen.seen[i], hearings'[i]))
      <3>1. i \in 1 .. created
        BY <2>1 DEF HearingsGrew
      <3>2. i \notin created + 1 .. created'
        BY <1>2, <3>1
      <3> QED BY <1>2, <1>3, <2>1, <3>1, <3>2 DEF HearingsGrew
    <2> QED BY <1>3, <2>1, <2>2 DEF HearingsGrew, RostersGrew
  \* Steps of the board.
  <1>4. CASE RelaxingStep
    <2>1. /\ UNCHANGED <<created, people, screen>>
          /\ Ids' \subseteq Ids /\ hearings' \in [Ids' -> Hearing]
          /\ \A i \in Ids' : Relaxed(hearings'[i], hearings[i])
      BY <1>1, <1>4, Relaxes
    <2> SUFFICES ASSUME screen # None
                 PROVE  HearingsGrew' /\ RostersGrew'
      BY <2>1 DEF Unseen
    <2>2. HearingsGrew /\ RostersGrew
      BY <1>1 DEF Unseen
    <2>3. ASSUME NEW i \in DOMAIN screen.seen, i \in Ids'
          PROVE  Grew(screen.seen[i], hearings'[i])
      <3>1. hearings[i] \in Hearing /\ hearings'[i] \in Hearing
        BY <1>1, <2>1, <2>3 DEF TypeOK
      <3>2. Grew(screen.seen[i], hearings[i]) /\ Relaxed(hearings'[i], hearings[i])
        BY <2>1, <2>2, <2>3 DEF HearingsGrew
      <3> QED BY <3>1, <3>2, GrewSince
    <2> QED BY <2>1, <2>2, <2>3 DEF HearingsGrew, RostersGrew
  <1>5. CASE Creation
    <2>1. PICK c : Placed(c) /\ Create(c)
      BY <1>5 DEF Creation
    <2>2. /\ created' = created + 1 /\ Ids' = Ids \cup {created + 1}
          /\ \A i \in Ids : hearings'[i] = hearings[i]
      BY <1>1, <2>1, OneAdded
    <2>3. UNCHANGED <<screen, people>>
      BY <2>1 DEF Create
    <2>4. created' \in Nat /\ created' >= created /\ created + 1 \in created + 1 .. created'
      BY <1>2, <2>2
    <2> QED BY <1>3, <2>2, <2>3, <2>4
  <1>6. ASSUME NEW k \in Key, Confirm(k)
        PROVE  Unseen'
    <2>1. PICK n \in Nat :
            /\ created' = created + n /\ Ids' = Ids \cup (created + 1 .. created + n)
            /\ \A i \in Ids : hearings'[i] = hearings[i]
      BY <1>1, <1>6, PlanAdded
    <2>2. UNCHANGED <<screen, people>>
      BY <1>6 DEF Confirm
    <2>3. created' \in Nat /\ created' >= created
      BY <1>2, <2>1
    <2> QED BY <1>3, <2>1, <2>2, <2>3
  <1>7. ASSUME NEW S \in SUBSET Ids, Review(S)
        PROVE  Unseen'
    <2>1. /\ screen' = [seen |-> [i \in S |-> Content(hearings[i])],
                        people |-> [t \in {hearings[i].team : i \in S} |-> people[t]]]
          /\ UNCHANGED <<hearings, created, people>>
      BY <1>7 DEF Review
    <2>2. /\ screen'.seen = [i \in S |-> Content(hearings[i])]
          /\ screen'.people = [t \in {hearings[i].team : i \in S} |-> people[t]]
      BY <2>1
    <2>3. ASSUME NEW i \in S
          PROVE  i \in 1 .. created /\ Grew(Content(hearings[i]), hearings[i])
      <3>1. hearings[i] \in Hearing
        BY <1>1 DEF TypeOK
      <3> QED BY <1>2, <3>1 DEF Grew, Content, Hearing
    <2>4. ASSUME NEW t \in {hearings[i].team : i \in S}
          PROVE  t \in Team /\ PeopleGrew(people[t], people[t])
      <3>1. t \in Team
        BY <1>1 DEF TypeOK, Hearing
      <3>2. people[t] \in People
        BY <1>1, <3>1 DEF TypeOK
      <3> QED BY <3>1, <3>2 DEF PeopleGrew, People
    <2>5. HearingsGrew' /\ RostersGrew'
      BY <2>1, <2>2, <2>3, <2>4 DEF HearingsGrew, RostersGrew, Ids
    <2> QED BY <2>5 DEF Unseen
  <1>8. CASE CloseScreen \/ Operation
    BY <1>8 DEF CloseScreen, Operation, Operate, Unseen
  <1>9. ASSUME NEW t \in Team, NEW r \in Rosters, SavePeople(t, r)
        PROVE  Unseen'
    <2>1. UNCHANGED <<hearings, created, screen>>
      BY <1>9 DEF SavePeople
    <2> SUFFICES ASSUME screen # None
                 PROVE  HearingsGrew' /\ RostersGrew'
      BY <2>1 DEF Unseen
    <2>2. HearingsGrew /\ RostersGrew
      BY <1>1 DEF Unseen
    <2>3. ASSUME NEW u \in DOMAIN screen.people
          PROVE  u \in Team /\ PeopleGrew(screen.people[u], people'[u])
      <3>1. u \in Team /\ PeopleGrew(screen.people[u], people[u])
        BY <2>2 DEF RostersGrew
      <3>2. people[u] \in People /\ people \in [Team -> People]
        BY <1>1, <3>1 DEF TypeOK
      <3>3. CASE u = t
        <4>1. people'[u].revision = people[u].revision + 1
          BY <1>9, <3>2, <3>3 DEF SavePeople
        <4>2. people[u].revision \in Nat
          BY <3>2 DEF People
        <4> QED BY <3>1, <4>1, <4>2 DEF PeopleGrew
      <3>4. CASE u # t
        BY <1>9, <3>1, <3>2, <3>4 DEF SavePeople
      <3> QED BY <3>1, <3>3, <3>4
    <2> QED BY <2>1, <2>2, <2>3 DEF HearingsGrew, RostersGrew, Ids
  <1>10. CASE \/ \E q \in Queues, m \in Room : Preview(q, m)
              \/ \E t \in Team, a \in Person \cup {Nobody} : ChangeAdviser(t, a)
              \/ UNCHANGED vars
    <2>1. UNCHANGED <<hearings, created, people, screen>>
      BY <1>10 DEF Preview, ChangeAdviser, vars
    <2> QED BY <1>1, <2>1 DEF Unseen, HearingsGrew, RostersGrew, Ids
  <1> QED BY <1>4, <1>5, <1>6, <1>7, <1>8, <1>9, <1>10, Kinds

LEMMA ActsOnSeen ==
  ASSUME SeenInv, [Next]_vars, screen # None, screen' = None, changes' # changes
  PROVE  /\ \A i \in DOMAIN screen.seen : i \in Ids /\ Content(hearings[i]) = screen.seen[i]
         /\ \A t \in DOMAIN screen.people : people'[t] # people[t] => people[t] = screen.people[t]
  <1>1. TypeInv /\ TypeOK /\ HearingsGrew /\ RostersGrew
    BY DEF SeenInv, TypeInv, Unseen
  <1>2. CASE Operation
    <2>1. PICK request \in Requests, continuing \in BOOLEAN :
            (continuing => request \in PeopleRequests) /\ Operate(request, continuing)
      BY <1>2 DEF Operation
    <2> DEFINE S == DOMAIN screen.seen
    <2>2. /\ RevisionsMatch(screen.seen)
          /\ \A i \in S : hearings[i].status \notin {"done", "archived"}
      BY <2>1 DEF Operate, Admissible
    <2>3. ASSUME NEW i \in S
          PROVE  i \in Ids /\ Content(hearings[i]) = screen.seen[i]
      <3>1. i \in Ids /\ hearings[i].revision = screen.seen[i].revision
        BY <2>2 DEF RevisionsMatch
      <3>2. Grew(screen.seen[i], hearings[i]) /\ hearings[i].revision \in Nat
        BY <1>1, <3>1 DEF HearingsGrew, TypeOK, Hearing
      <3>3. ~ (hearings[i].revision > screen.seen[i].revision)
        BY <3>1, <3>2
      <3> QED BY <2>2, <3>1, <3>2, <3>3 DEF Grew
    <2>4. ASSUME NEW t \in DOMAIN screen.people, people'[t] # people[t]
          PROVE  people[t] = screen.people[t]
      <3>1. t \in Team /\ PeopleGrew(screen.people[t], people[t])
        BY <1>1 DEF RostersGrew
      <3>2. /\ people' = IF continuing THEN Continued(S, request) ELSE people
            /\ continuing => MayContinue(S, request)
        BY <2>1 DEF Operate
      <3>3. continuing /\ people'[t] = Continued(S, request)[t]
        BY <2>4, <3>2
      <3>4. t \in {hearings[i].team : i \in S}
        BY <2>4, <3>1, <3>3 DEF Continued
      <3>5. people[t].revision = screen.people[t].revision
        BY <3>2, <3>3, <3>4 DEF MayContinue
      <3>6. people[t].revision \in Nat
        BY <1>1, <3>1 DEF TypeOK, People
      <3> QED BY <3>1, <3>5, <3>6 DEF PeopleGrew
    <2> QED BY <2>3, <2>4
  <1>3. CASE RelaxingStep
    <2>1. UNCHANGED screen
      BY <1>1, <1>3, Relaxes
    <2> QED BY <2>1
  <1>4. CASE \/ Creation
             \/ \E q \in Queues, m \in Room : Preview(q, m)
             \/ \E k \in Key : Confirm(k)
             \/ \E S \in SUBSET Ids \ {{}} : Review(S)
             \/ CloseScreen
             \/ \E t \in Team, r \in Rosters : SavePeople(t, r)
             \/ \E t \in Team, a \in Person \cup {Nobody} : ChangeAdviser(t, a)
             \/ UNCHANGED vars
    <2>1. UNCHANGED screen \/ UNCHANGED changes
      BY <1>4 DEF Creation, Create, Preview, Confirm, Review, CloseScreen, SavePeople,
                  ChangeAdviser, vars
    <2> QED BY <2>1
  <1> QED BY <1>2, <1>3, <1>4, Kinds

\* execute_operation compares only revisions, yet what it changes is what its
\* screen showed: evaluations never change a shown field, and a settlement
\* without a new revision makes a status that no operation accepts.  The same
\* for the continuing rosters.
THEOREM ActedOnWhatWasSeenAlways == Spec => ActedOnWhatWasSeen
  <1>1. Init => SeenInv
    BY TypeInit, UnseenInit DEF SeenInv
  <1>2. SeenInv /\ [Next]_vars => SeenInv'
    BY TypeNext, UnseenNext DEF SeenInv
  <1> DEFINE A == (screen # None /\ screen' = None /\ changes' # changes) =>
         /\ \A i \in DOMAIN screen.seen : i \in Ids /\ Content(hearings[i]) = screen.seen[i]
         /\ \A t \in DOMAIN screen.people : people'[t] # people[t] => people[t] = screen.people[t]
  <1>3. SeenInv /\ [Next]_vars => [A]_vars
    BY ActsOnSeen
  <1> HIDE DEF A
  <1>4. Spec => [][A]_vars
    BY <1>1, <1>2, <1>3, PTL DEF Spec
  <1> QED BY <1>4 DEF ActedOnWhatWasSeen, A

------------------------------------------------------------------------------
(* One hearing of a team, one batch of a key *)

\* A key that made hearings is used.
BatchesUsed ==
  /\ batches = [k \in Key |-> batches[k]]
  /\ \A i \in Ids : hearings[i].batch # None => batches[hearings[i].batch] # None

OnceInv == TypeInv /\ BatchesUsed /\ NobodyScheduledTwice

\* x, once h, keeps its team and batch, and was created as it is scheduled now.
Held(x, h) ==
  /\ x.team = h.team /\ x.batch = h.batch
  /\ x.status = "scheduled" /\ x.origin = "created" =>
       h.status = "scheduled" /\ h.origin = "created"

LEMMA Holding ==
  ASSUME OnceInv, Ids' \subseteq Ids, UNCHANGED batches,
         \A i \in Ids' : Held(hearings'[i], hearings[i])
  PROVE  (BatchesUsed /\ NobodyScheduledTwice)'
  <1>1. BatchesUsed'
    BY DEF OnceInv, BatchesUsed, Held
  <1>2. ASSUME NEW i \in Ids', NEW j \in Ids', i # j, hearings'[i].team = hearings'[j].team
        PROVE  /\ hearings'[i].status = "scheduled" /\ hearings'[j].status = "scheduled" =>
                    {hearings'[i].origin, hearings'[j].origin} # {"created"}
               /\ hearings'[i].batch # None => hearings'[i].batch # hearings'[j].batch
    <2>1. /\ i \in Ids /\ j \in Ids /\ Held(hearings'[i], hearings[i])
          /\ Held(hearings'[j], hearings[j])
      OBVIOUS
    <2>2. hearings[i].team = hearings[j].team
      BY <1>2, <2>1 DEF Held
    <2>3. /\ hearings[i].status = "scheduled" /\ hearings[j].status = "scheduled" =>
               {hearings[i].origin, hearings[j].origin} # {"created"}
          /\ hearings[i].batch # None => hearings[i].batch # hearings[j].batch
      BY <1>2, <2>1, <2>2 DEF OnceInv, NobodyScheduledTwice
    <2> QED BY <2>1, <2>3 DEF Held
  <1> QED BY <1>1, <1>2 DEF NobodyScheduledTwice

LEMMA OnceInit == Init => BatchesUsed /\ NobodyScheduledTwice
  BY DEF Init, BatchesUsed, NobodyScheduledTwice, Ids

LEMMA OnceCreate ==
  ASSUME OnceInv, NEW c, Placed(c), Create(c)
  PROVE  (BatchesUsed /\ NobodyScheduledTwice)'
  <1>1. TypeOK
    BY DEF OnceInv, TypeInv
  <1> DEFINE n == created + 1
             x == NewHearing(c, None)
  <1>2. /\ Ids' = Ids \cup {n} /\ n \notin Ids /\ hearings'[n] = x
        /\ \A i \in Ids : hearings'[i] = hearings[i]
    BY <1>1, OneAdded
  <1>3. x.team = c.team /\ x.batch = None
    BY NewTyped
  <1>4. UNCHANGED batches /\ ~ScheduledFor(c.team)
    BY DEF Create, StillFree
  <1> HIDE DEF n, x
  <1>5. BatchesUsed'
    BY <1>2, <1>3, <1>4 DEF OnceInv, BatchesUsed
  <1>6. ASSUME NEW i \in Ids, hearings[i].team = c.team
        PROVE  hearings[i].status # "scheduled"
    BY <1>4, <1>6 DEF ScheduledFor
  <1>7. ASSUME NEW i \in Ids', NEW j \in Ids', i # j, hearings'[i].team = hearings'[j].team
        PROVE  /\ hearings'[i].status = "scheduled" /\ hearings'[j].status = "scheduled" =>
                    {hearings'[i].origin, hearings'[j].origin} # {"created"}
               /\ hearings'[i].batch # None => hearings'[i].batch # hearings'[j].batch
    <2>1. CASE i \in Ids /\ j \in Ids
      <3>1. hearings'[i] = hearings[i] /\ hearings'[j] = hearings[j]
        BY <1>2, <2>1
      <3>2. hearings[i].team = hearings[j].team
        BY <1>7, <3>1
      <3>3. /\ hearings[i].status = "scheduled" /\ hearings[j].status = "scheduled" =>
                 {hearings[i].origin, hearings[j].origin} # {"created"}
            /\ hearings[i].batch # None => hearings[i].batch # hearings[j].batch
        BY <1>7, <2>1, <3>2 DEF OnceInv, NobodyScheduledTwice
      <3> QED BY <3>1, <3>3
    <2>2. CASE i = n
      <3>1. j \in Ids /\ hearings'[j] = hearings[j] /\ hearings'[i] = x
        BY <1>2, <1>7, <2>2
      <3>2. hearings[j].team = c.team
        BY <1>3, <1>7, <3>1
      <3> QED BY <1>3, <1>6, <3>1, <3>2
    <2>3. CASE j = n
      <3>1. i \in Ids /\ hearings'[i] = hearings[i] /\ hearings'[j] = x
        BY <1>2, <1>7, <2>3
      <3>2. hearings[i].team = c.team
        BY <1>3, <1>7, <3>1
      <3> QED BY <1>3, <1>6, <3>1, <3>2
    <2> QED BY <1>2, <1>7, <2>1, <2>2, <2>3
  <1>8. NobodyScheduledTwice'
    BY <1>7 DEF NobodyScheduledTwice
  <1> QED BY <1>5, <1>8

LEMMA OnceConfirm ==
  ASSUME OnceInv, NEW k \in Key, Confirm(k)
  PROVE  (BatchesUsed /\ NobodyScheduledTwice)'
  <1>1. TypeInv /\ TypeOK /\ BatchesUsed
    BY DEF OnceInv, TypeInv
  <1>2. /\ token # None /\ batches[k] = None /\ batches' = [batches EXCEPT ![k] = token]
        /\ Plannable(token.teams)
    BY DEF Confirm, Unused, StillCurrent
  <1> DEFINE q == token.teams
  <1>3. PICK n \in Nat :
          /\ q \in [1 .. n -> Team] /\ DOMAIN q = 1 .. n
          /\ Ids' = Ids \cup (created + 1 .. created + n)
          /\ \A i \in Ids : hearings'[i] = hearings[i] /\ i <= created
          /\ \A i \in Ids' \ Ids : /\ i - created \in 1 .. n
                                   /\ hearings'[i] = NewHearing(Planned[i - created], k)
          /\ \A i \in 1 .. n : Placed(Planned[i]) /\ Planned[i].team = q[i]
    BY <1>1, PlanAdded
  <1>4. q \in Queues
    BY <1>1, <1>2 DEF TypeInv, TokenPlanned
  <1>5. \A i, j \in 1 .. n : q[i] = q[j] => i = j
    BY <1>3, <1>4 DEF Queues, IsInjective
  <1>6. \A i \in 1 .. n : ~ScheduledFor(q[i])
    BY <1>2, <1>3 DEF Plannable, Range
  <1>7. ASSUME NEW i \in Ids' \ Ids
        PROVE  /\ i - created \in 1 .. n /\ hearings'[i].team = q[i - created]
               /\ hearings'[i].batch = k
    <2>1. i - created \in 1 .. n /\ hearings'[i] = NewHearing(Planned[i - created], k)
      BY <1>3
    <2>2. /\ NewHearing(Planned[i - created], k).team = Planned[i - created].team
          /\ NewHearing(Planned[i - created], k).batch = k
      BY <1>3, <2>1, NewTyped
    <2> QED BY <1>3, <2>1, <2>2
  <1> HIDE DEF q
  <1>8. BatchesUsed'
    <2>1. batches' = [x \in Key |-> batches'[x]]
      BY <1>1, <1>2 DEF BatchesUsed
    <2>2. batches'[k] # None /\ \A x \in Key : batches[x] # None => batches'[x] # None
      BY <1>1, <1>2 DEF BatchesUsed
    <2>3. ASSUME NEW i \in Ids', hearings'[i].batch # None
          PROVE  batches'[hearings'[i].batch] # None
      <3>1. CASE i \in Ids
        <4>1. hearings'[i] = hearings[i] /\ batches[hearings[i].batch] # None
          BY <1>1, <1>3, <2>3, <3>1 DEF BatchesUsed
        <4>2. hearings[i].batch \in Key
          BY <1>1, <2>3, <3>1, <4>1 DEF TypeOK, Hearing
        <4> QED BY <2>2, <4>1, <4>2
      <3>2. CASE i \notin Ids
        BY <1>7, <2>2, <3>2
      <3> QED BY <3>1, <3>2
    <2> QED BY <2>1, <2>3 DEF BatchesUsed
  <1>9. \A i \in Ids : hearings[i].batch # k
    <2>1. k # None
      BY SizesAssumption
    <2> QED BY <1>1, <1>2, <2>1 DEF BatchesUsed
  <1>10. ASSUME NEW i \in Ids, NEW j \in Ids' \ Ids, hearings'[i].team = hearings'[j].team
         PROVE  hearings'[i].status # "scheduled" /\ hearings'[i].batch # hearings'[j].batch
    <2>1. hearings'[i] = hearings[i] /\ j - created \in 1 .. n
          /\ hearings'[j].team = q[j - created] /\ hearings'[j].batch = k
      BY <1>3, <1>7
    <2>2. hearings[i].status # "scheduled"
      BY <1>6, <1>10, <2>1 DEF ScheduledFor
    <2> QED BY <1>9, <2>1, <2>2
  <1>11. ASSUME NEW i \in Ids' \ Ids, NEW j \in Ids' \ Ids, hearings'[i].team = hearings'[j].team
         PROVE  i = j
    <2>1. i - created = j - created
      BY <1>5, <1>7, <1>11
    <2>2. i \in created + 1 .. created + n /\ j \in created + 1 .. created + n /\ created \in Nat
      BY <1>1, <1>3, SizesAssumption DEF TypeOK
    <2> QED BY <2>1, <2>2
  <1>12. ASSUME NEW i \in Ids', NEW j \in Ids', i # j, hearings'[i].team = hearings'[j].team
         PROVE  /\ hearings'[i].status = "scheduled" /\ hearings'[j].status = "scheduled" =>
                     {hearings'[i].origin, hearings'[j].origin} # {"created"}
                /\ hearings'[i].batch # None => hearings'[i].batch # hearings'[j].batch
    <2>1. CASE i \in Ids /\ j \in Ids
      <3>1. hearings'[i] = hearings[i] /\ hearings'[j] = hearings[j]
        BY <1>3, <2>1
      <3>2. hearings[i].team = hearings[j].team
        BY <1>12, <3>1
      <3>3. /\ hearings[i].status = "scheduled" /\ hearings[j].status = "scheduled" =>
                 {hearings[i].origin, hearings[j].origin} # {"created"}
            /\ hearings[i].batch # None => hearings[i].batch # hearings[j].batch
        BY <1>12, <2>1, <3>2 DEF OnceInv, NobodyScheduledTwice
      <3> QED BY <3>1, <3>3
    <2>2. CASE i \in Ids /\ j \notin Ids
      BY <1>10, <1>12, <2>2
    <2>3. CASE i \notin Ids /\ j \in Ids
      BY <1>10, <1>12, <2>3
    <2>4. CASE i \notin Ids /\ j \notin Ids
      BY <1>11, <1>12, <2>4
    <2> QED BY <2>1, <2>2, <2>3, <2>4
  <1> QED BY <1>8, <1>12 DEF NobodyScheduledTwice

LEMMA OnceNext ==
  ASSUME OnceInv, [Next]_vars
  PROVE  (BatchesUsed /\ NobodyScheduledTwice)'
  <1>1. TypeInv /\ TypeOK
    BY DEF OnceInv, TypeInv
  <1> DEFINE Goal == BatchesUsed' /\ NobodyScheduledTwice'
  <1>2. CASE RelaxingStep
    <2>1. /\ UNCHANGED batches /\ Ids' \subseteq Ids
          /\ \A i \in Ids' : Relaxed(hearings'[i], hearings[i])
      BY <1>1, <1>2, Relaxes
    <2>2. \A i \in Ids' : Held(hearings'[i], hearings[i])
      BY <2>1 DEF Relaxed, Held
    <2> QED BY <2>1, <2>2, Holding
  <1>3. CASE Operation
    <2>1. PICK request \in Requests, continuing \in BOOLEAN :
            (continuing => request \in PeopleRequests) /\ Operate(request, continuing)
      BY <1>3 DEF Operation
    <2>2. /\ DOMAIN screen.seen \subseteq Ids /\ Ids' = Ids /\ UNCHANGED batches
          /\ \A i \in Ids \ DOMAIN screen.seen : hearings'[i] = hearings[i]
          /\ \A i \in DOMAIN screen.seen :
               /\ Admissible(hearings[i], Changed(request)[i])
               /\ hearings'[i].team = hearings[i].team /\ hearings'[i].batch = hearings[i].batch
               /\ hearings'[i].origin = "created" /\ hearings'[i].status = "scheduled" =>
                    /\ hearings[i].origin = "created"
                    /\ hearings[i].status = "cancelled" => hearings'[i] = hearings[i]
      BY <1>1, <2>1, Operates
    <2>3. ASSUME NEW i \in Ids'
          PROVE  Held(hearings'[i], hearings[i])
      <3>1. CASE i \in DOMAIN screen.seen
        <4>1. hearings[i].status \in {"scheduled", "cancelled"}
          BY <1>1, <2>2, <3>1 DEF Admissible, TypeOK, Hearing
        <4> QED BY <2>2, <3>1, <4>1 DEF Held
      <3>2. CASE i \notin DOMAIN screen.seen
        BY <2>2, <3>2 DEF Held
      <3> QED BY <3>1, <3>2
    <2> QED BY <2>2, <2>3, Holding
  <1>4. CASE Creation
    BY <1>4, OnceCreate DEF Creation
  <1>5. CASE \E k \in Key : Confirm(k)
    BY <1>5, OnceConfirm
  <1>6. CASE \/ \E q \in Queues, m \in Room : Preview(q, m)
             \/ \E S \in SUBSET Ids \ {{}} : Review(S)
             \/ CloseScreen
             \/ \E t \in Team, r \in Rosters : SavePeople(t, r)
             \/ \E t \in Team, a \in Person \cup {Nobody} : ChangeAdviser(t, a)
             \/ UNCHANGED vars
    <2>1. UNCHANGED <<hearings, batches>>
      BY <1>6 DEF Preview, Review, CloseScreen, SavePeople, ChangeAdviser, vars
    <2>2. Ids' = Ids /\ \A i \in Ids' : Held(hearings'[i], hearings[i])
      BY <2>1 DEF Ids, Held
    <2> QED BY <2>1, <2>2, Holding
  <1> QED BY <1>2, <1>3, <1>4, <1>5, <1>6, Kinds

\* create rechecks the team's hearings under its locks, confirm_plan replays the
\* plan under them and a used key makes no second batch, and an operation that
\* restores a hearing marks it: no team gets two hearings without a restoration.
THEOREM NobodyScheduledTwiceAlways == Spec => []NobodyScheduledTwice
  <1>1. Init => OnceInv
    BY TypeInit, OnceInit DEF OnceInv
  <1>2. OnceInv /\ [Next]_vars => OnceInv'
    BY TypeNext, OnceNext DEF OnceInv
  <1>3. OnceInv => NobodyScheduledTwice
    BY DEF OnceInv
  <1> QED BY <1>1, <1>2, <1>3, PTL DEF Spec

------------------------------------------------------------------------------
(* Conflicts *)

\* A scheduled hearing whose place a check under the locks has accepted.
Checked(h) == h.status = "scheduled" /\ h.origin # "board"

AdvisersOff == \A i \in Ids :
  Checked(hearings[i]) => adviser[hearings[i].team] \notin hearings[i].panel
Apart == \A i, j \in Ids :
  i # j /\ Checked(hearings[i]) /\ Checked(hearings[j]) => ~ Collide(hearings[i], hearings[j])

FitInv == TypeInv /\ AdvisersOff /\ Apart

SamePlace(a, b) == a.start = b.start /\ a.room = b.room /\ a.panel = b.panel
                   /\ a.documenter = b.documenter

LEMMA CollideSame ==
  ASSUME NEW a, NEW b, NEW c, NEW d, SamePlace(a, c), SamePlace(b, d)
  PROVE  Collide(a, b) <=> Collide(c, d)
  BY DEF SamePlace, Collide, Staff

LEMMA CollideBack ==
  ASSUME NEW a, NEW b
  PROVE  Collide(a, b) <=> Collide(b, a)
  BY DEF Collide, Overlap

LEMMA FitMeans ==
  ASSUME FitInv
  PROVE  ConflictsComeFromTheBoard
  <1> SUFFICES ASSUME NEW i \in Ids, NEW j \in Ids,
                      hearings[i].status = "scheduled", hearings[j].status = "scheduled",
                      "board" \notin {hearings[i].origin, hearings[j].origin}
               PROVE  /\ adviser[hearings[i].team] \notin hearings[i].panel
                      /\ i # j /\ Minutes(hearings[i]) \cap Minutes(hearings[j]) # {} =>
                            /\ hearings[i].room # hearings[j].room
                            /\ Staff(hearings[i]) \cap Staff(hearings[j]) = {}
    BY DEF ConflictsComeFromTheBoard
  <1>1. Checked(hearings[i]) /\ Checked(hearings[j])
    BY DEF Checked
  <1>2. adviser[hearings[i].team] \notin hearings[i].panel
    BY <1>1 DEF FitInv, AdvisersOff
  <1>3. i # j => ~ Collide(hearings[i], hearings[j])
    BY <1>1 DEF FitInv, Apart
  <1>4. hearings[i].start \in Nat /\ hearings[j].start \in Nat
    BY StartFacts DEF FitInv, TypeInv, TypeOK, Hearing
  <1>5. Minutes(hearings[i]) \cap Minutes(hearings[j]) # {} =>
          Overlap(hearings[i].start, hearings[j].start)
    BY <1>4, MinutesOverlap DEF Minutes
  <1> QED BY <1>2, <1>3, <1>5 DEF Collide

LEMMA FitInit == Init => AdvisersOff /\ Apart
  BY DEF Init, AdvisersOff, Apart, Ids

\* Where hearings keep their place and none is scheduled anew, nothing collides.
Stays(x, h) ==
  Checked(x) => Checked(h) /\ x.team = h.team /\ SamePlace(x, h)

LEMMA Staying ==
  ASSUME FitInv, Ids' \subseteq Ids, UNCHANGED adviser,
         \A i \in Ids' : Stays(hearings'[i], hearings[i])
  PROVE  (AdvisersOff /\ Apart)'
  <1>1. AdvisersOff'
    BY DEF FitInv, AdvisersOff, Stays, SamePlace
  <1>2. ASSUME NEW i \in Ids', NEW j \in Ids', i # j, Checked(hearings'[i]), Checked(hearings'[j])
        PROVE  ~ Collide(hearings'[i], hearings'[j])
    <2>1. /\ i \in Ids /\ j \in Ids /\ Checked(hearings[i]) /\ Checked(hearings[j])
          /\ SamePlace(hearings'[i], hearings[i]) /\ SamePlace(hearings'[j], hearings[j])
      BY <1>2 DEF Stays
    <2>2. ~ Collide(hearings[i], hearings[j])
      BY <1>2, <2>1 DEF FitInv, Apart
    <2> QED BY <2>1, <2>2, CollideSame
  <1>3. Apart'
    BY <1>2 DEF Apart
  <1> QED BY <1>1, <1>3

LEMMA FitCreate ==
  ASSUME FitInv, NEW c, Placed(c), Create(c)
  PROVE  (AdvisersOff /\ Apart)'
  <1>1. TypeOK
    BY DEF FitInv, TypeInv
  <1> DEFINE n == created + 1
             x == NewHearing(c, None)
  <1>2. /\ Ids' = Ids \cup {n} /\ n \notin Ids /\ hearings'[n] = x
        /\ \A i \in Ids : hearings'[i] = hearings[i]
    BY <1>1, OneAdded
  <1>3. x.team = c.team /\ x.panel = c.panel /\ SamePlace(x, c)
    BY NewTyped DEF SamePlace
  <1>4. /\ UNCHANGED adviser /\ adviser[c.team] \notin c.panel
        /\ \A h \in Reserved : ~ Collide(c, h)
    BY DEF Create, StillFree
  <1> HIDE DEF n, x
  <1>5. AdvisersOff'
    BY <1>2, <1>3, <1>4 DEF FitInv, AdvisersOff
  <1>6. ASSUME NEW i \in Ids, Checked(hearings[i])
        PROVE  ~ Collide(x, hearings[i]) /\ ~ Collide(hearings[i], x)
    <2>1. hearings[i] \in Reserved
      BY <1>6 DEF Checked, Reserved
    <2>2. ~ Collide(c, hearings[i]) /\ SamePlace(hearings[i], hearings[i])
      BY <1>4, <2>1 DEF SamePlace
    <2>3. ~ Collide(x, hearings[i])
      BY <1>3, <2>2, CollideSame
    <2> QED BY <2>3, CollideBack
  <1>7. ASSUME NEW i \in Ids', NEW j \in Ids', i # j, Checked(hearings'[i]), Checked(hearings'[j])
        PROVE  ~ Collide(hearings'[i], hearings'[j])
    <2>1. CASE i \in Ids /\ j \in Ids
      <3>1. hearings'[i] = hearings[i] /\ hearings'[j] = hearings[j]
        BY <1>2, <2>1
      <3> QED BY <1>7, <2>1, <3>1 DEF FitInv, Apart
    <2>2. CASE i = n
      BY <1>2, <1>6, <1>7, <2>2
    <2>3. CASE j = n
      BY <1>2, <1>6, <1>7, <2>3
    <2> QED BY <1>2, <2>1, <2>2, <2>3
  <1>8. Apart'
    BY <1>7 DEF Apart
  <1> QED BY <1>5, <1>8

LEMMA FitConfirm ==
  ASSUME FitInv, NEW k \in Key, Confirm(k)
  PROVE  (AdvisersOff /\ Apart)'
  <1>1. TypeInv /\ TypeOK
    BY DEF FitInv, TypeInv
  <1>2. token # None /\ Plannable(token.teams) /\ UNCHANGED adviser
    BY DEF Confirm, StillCurrent
  <1> DEFINE q == token.teams
             m == token.room
             S == Slots(q, m)
             P == Planned
  <1>3. PICK n \in Nat :
          /\ q \in [1 .. n -> Team] /\ DOMAIN q = 1 .. n
          /\ Ids' = Ids \cup (created + 1 .. created + n)
          /\ \A i \in Ids : hearings'[i] = hearings[i] /\ i <= created
          /\ \A i \in Ids' \ Ids : /\ i - created \in 1 .. n
                                   /\ hearings'[i] = NewHearing(P[i - created], k)
          /\ \A i \in 1 .. n : /\ Placed(P[i]) /\ P[i].team = q[i] /\ P[i].room = m
                               /\ P[i].start = S[i]
                               /\ P[i].panel = people[q[i]].panel
                               /\ P[i].documenter = people[q[i]].documenter
                               /\ P[i].start + Duration <= Day
    BY <1>1, PlanAdded
  <1>4. \A i \in 1 .. n : Eligible(q[i], people[q[i]])
    BY <1>2, <1>3 DEF Plannable, Range
  <1>5. \A i \in 1 .. n : SlotGood(i, S, q, m)
    BY <1>1, <1>3, SlotsTyped
  <1>6. \A i, j \in 1 .. n : i < j => S[j] >= S[i] + Duration
    BY <1>1, <1>3, SlotsSpread
  <1> HIDE DEF q, m, S, P
  <1>7. ASSUME NEW i \in 1 .. n, NEW h \in Reserved
        PROVE  ~ Collide(P[i], h)
    <2>1. BlockingAt(S[i], m, people[q[i]]) = {}
      BY <1>3, <1>5 DEF SlotGood
    <2>2. ~ (Overlap(S[i], h.start) /\ (h.room = m \/ Staff(h) \cap Staff(people[q[i]]) # {}))
      BY <2>1 DEF BlockingAt
    <2>3. Staff(P[i]) = Staff(people[q[i]]) /\ P[i].start = S[i] /\ P[i].room = m
      BY <1>3 DEF Staff
    <2> QED BY <2>2, <2>3 DEF Collide
  <1>8. ASSUME NEW i \in 1 .. n, NEW j \in 1 .. n, i # j
        PROVE  ~ Collide(P[i], P[j])
    <2>1. S[i] \in Nat /\ S[j] \in Nat /\ Duration \in Nat
      BY <1>5, StartFacts DEF SlotGood
    <2>2. S[j] >= S[i] + Duration \/ S[i] >= S[j] + Duration
      BY <1>6, <1>8
    <2>3. ~ Overlap(S[i], S[j])
      BY <2>1, <2>2 DEF Overlap
    <2> QED BY <1>3, <2>3 DEF Collide
  <1>9. ASSUME NEW i \in Ids' \ Ids
        PROVE  /\ i - created \in 1 .. n
               /\ hearings'[i].team = q[i - created] /\ hearings'[i].panel = P[i - created].panel
               /\ SamePlace(hearings'[i], P[i - created])
    <2>1. i - created \in 1 .. n /\ hearings'[i] = NewHearing(P[i - created], k)
      BY <1>3
    <2> DEFINE c == P[i - created]
    <2>2. Placed(c) /\ c.team = q[i - created]
      BY <1>3, <2>1
    <2> HIDE DEF c
    <2>3. /\ NewHearing(c, k).team = c.team /\ NewHearing(c, k).panel = c.panel
          /\ SamePlace(NewHearing(c, k), c)
      BY <2>2, NewTyped DEF SamePlace
    <2> QED BY <2>1, <2>2, <2>3 DEF c
  <1>10. ASSUME NEW i \in Ids', Checked(hearings'[i])
         PROVE  adviser'[hearings'[i].team] \notin hearings'[i].panel
    <2>1. CASE i \in Ids
      <3>1. hearings'[i] = hearings[i]
        BY <1>3, <2>1
      <3> QED BY <1>2, <1>10, <2>1, <3>1 DEF FitInv, AdvisersOff
    <2>2. CASE i \notin Ids
      BY <1>2, <1>3, <1>4, <1>9, <2>2 DEF Eligible
    <2> QED BY <2>1, <2>2
  <1>11. ASSUME NEW i \in Ids' \ Ids, NEW j \in Ids, Checked(hearings[j])
         PROVE  /\ ~ Collide(hearings'[i], hearings'[j])
                /\ ~ Collide(hearings'[j], hearings'[i])
    <2>1. hearings[j] \in Reserved /\ hearings'[j] = hearings[j]
      BY <1>3, <1>11 DEF Checked, Reserved
    <2>2. i - created \in 1 .. n /\ SamePlace(hearings'[i], P[i - created])
          /\ SamePlace(hearings[j], hearings[j])
      BY <1>9 DEF SamePlace
    <2>3. ~ Collide(P[i - created], hearings[j])
      BY <1>7, <2>1, <2>2
    <2>4. ~ Collide(hearings'[i], hearings[j])
      BY <2>2, <2>3, CollideSame
    <2> QED BY <2>1, <2>4, CollideBack
  <1>12. ASSUME NEW i \in Ids' \ Ids, NEW j \in Ids' \ Ids, i # j
         PROVE  ~ Collide(hearings'[i], hearings'[j])
    <2>1. i \in created + 1 .. created + n /\ j \in created + 1 .. created + n /\ created \in Nat
      BY <1>1, <1>3, SizesAssumption DEF TypeOK
    <2>2. i - created \in 1 .. n /\ j - created \in 1 .. n /\ i - created # j - created
      BY <1>9, <1>12, <2>1
    <2>3. ~ Collide(P[i - created], P[j - created])
      BY <1>8, <2>2
    <2> QED BY <1>9, <2>3, CollideSame
  <1>13. ASSUME NEW i \in Ids', NEW j \in Ids', i # j, Checked(hearings'[i]), Checked(hearings'[j])
         PROVE  ~ Collide(hearings'[i], hearings'[j])
    <2>1. CASE i \in Ids /\ j \in Ids
      <3>1. hearings'[i] = hearings[i] /\ hearings'[j] = hearings[j]
        BY <1>3, <2>1
      <3> QED BY <1>13, <2>1, <3>1 DEF FitInv, Apart
    <2>2. CASE i \in Ids /\ j \notin Ids
      <3>1. hearings'[i] = hearings[i]
        BY <1>3, <2>2
      <3> QED BY <1>11, <1>13, <2>2, <3>1
    <2>3. CASE i \notin Ids /\ j \in Ids
      <3>1. hearings'[j] = hearings[j]
        BY <1>3, <2>3
      <3> QED BY <1>11, <1>13, <2>3, <3>1
    <2>4. CASE i \notin Ids /\ j \notin Ids
      BY <1>12, <1>13, <2>4
    <2> QED BY <2>1, <2>2, <2>3, <2>4
  <1> QED BY <1>10, <1>13 DEF AdvisersOff, Apart

LEMMA FitOperation ==
  ASSUME FitInv, Operation
  PROVE  (AdvisersOff /\ Apart)'
  <1>1. TypeInv /\ TypeOK
    BY DEF FitInv, TypeInv
  <1>2. PICK request \in Requests, continuing \in BOOLEAN :
          (continuing => request \in PeopleRequests) /\ Operate(request, continuing)
    BY DEF Operation
  <1> DEFINE S == DOMAIN screen.seen
             new == Changed(request)
  <1>3. /\ S \subseteq Ids /\ Ids' = Ids /\ UNCHANGED adviser /\ NoConflicts(new)
        /\ \A i \in Ids \ S : hearings'[i] = hearings[i]
        /\ \A i \in S : /\ Admissible(hearings[i], new[i])
                        /\ hearings'[i].status = new[i].status
                        /\ hearings'[i].start = new[i].start /\ hearings'[i].room = new[i].room
                        /\ hearings'[i].panel = new[i].panel
                        /\ hearings'[i].documenter = new[i].documenter
                        /\ hearings'[i].team = hearings[i].team
                        /\ new[i].team = hearings[i].team
    BY <1>1, <1>2, Operates
  <1>4. DOMAIN new = S
    BY DEF Changed
  <1> HIDE DEF S, new
  <1>5. ASSUME NEW i \in Ids', Checked(hearings'[i])
        PROVE  adviser'[hearings'[i].team] \notin hearings'[i].panel
    <2>1. CASE i \in S
      BY <1>3, <2>1 DEF Admissible, Eligible
    <2>2. CASE i \notin S
      <3>1. hearings'[i] = hearings[i] /\ i \in Ids
        BY <1>3, <2>2
      <3> QED BY <1>3, <1>5, <3>1 DEF FitInv, AdvisersOff
    <2> QED BY <2>1, <2>2
  <1>6. ASSUME NEW i \in S, NEW j \in Ids, i # j, Checked(hearings'[i]), Checked(hearings'[j])
        PROVE  ~ Collide(hearings'[i], hearings'[j])
    <2> DEFINE After(k) == IF k \in DOMAIN new THEN new[k] ELSE hearings[k]
    <2>1. /\ After(i) = new[i] /\ SamePlace(hearings'[i], After(i))
          /\ After(i).status = "scheduled"
      BY <1>3, <1>4, <1>6 DEF SamePlace, Checked
    <2>2. SamePlace(hearings'[j], After(j)) /\ After(j).status = "scheduled"
      <3>1. CASE j \in S
        BY <1>3, <1>4, <1>6, <3>1 DEF SamePlace, Checked
      <3>2. CASE j \notin S
        BY <1>3, <1>4, <1>6, <3>2 DEF SamePlace, Checked
      <3> QED BY <3>1, <3>2
    <2>3. ~ Collide(After(i), After(j))
      BY <1>3, <1>4, <1>6, <2>1, <2>2 DEF NoConflicts
    <2> HIDE DEF After
    <2> QED BY <2>1, <2>2, <2>3, CollideSame
  <1>7. ASSUME NEW i \in Ids', NEW j \in Ids', i # j, Checked(hearings'[i]), Checked(hearings'[j])
        PROVE  ~ Collide(hearings'[i], hearings'[j])
    <2>1. CASE i \in S
      BY <1>3, <1>6, <1>7, <2>1
    <2>2. CASE j \in S
      BY <1>3, <1>6, <1>7, <2>2, CollideBack
    <2>3. CASE i \notin S /\ j \notin S
      <3>1. hearings'[i] = hearings[i] /\ hearings'[j] = hearings[j] /\ i \in Ids /\ j \in Ids
        BY <1>3, <2>3
      <3> QED BY <1>7, <3>1 DEF FitInv, Apart
    <2> QED BY <2>1, <2>2, <2>3
  <1> QED BY <1>5, <1>7 DEF AdvisersOff, Apart

LEMMA FitNext ==
  ASSUME FitInv, [Next]_vars
  PROVE  (AdvisersOff /\ Apart)'
  <1>1. TypeInv /\ TypeOK
    BY DEF FitInv, TypeInv
  <1>2. CASE RelaxingStep
    <2>1. /\ UNCHANGED adviser /\ Ids' \subseteq Ids
          /\ \A i \in Ids' : Relaxed(hearings'[i], hearings[i])
      BY <1>1, <1>2, Relaxes
    <2>2. \A i \in Ids' : Stays(hearings'[i], hearings[i])
      BY <2>1 DEF Relaxed, Stays, Checked, SamePlace
    <2> QED BY <2>1, <2>2, Staying
  <1>3. CASE Creation
    BY <1>3, FitCreate DEF Creation
  <1>4. CASE \E k \in Key : Confirm(k)
    BY <1>4, FitConfirm
  <1>5. CASE Operation
    BY <1>5, FitOperation
  <1>6. CASE \/ \E q \in Queues, m \in Room : Preview(q, m)
             \/ \E S \in SUBSET Ids \ {{}} : Review(S)
             \/ CloseScreen
             \/ \E t \in Team, r \in Rosters : SavePeople(t, r)
             \/ UNCHANGED vars
    <2>1. UNCHANGED <<hearings, adviser>>
      BY <1>6 DEF Preview, Review, CloseScreen, SavePeople, vars
    <2>2. Ids' = Ids /\ \A i \in Ids' : Stays(hearings'[i], hearings[i])
      BY <2>1 DEF Ids, Stays, SamePlace
    <2> QED BY <2>1, <2>2, Staying
  <1>7. ASSUME NEW t \in Team, NEW a \in Person \cup {Nobody}, ChangeAdviser(t, a)
        PROVE  (AdvisersOff /\ Apart)'
    <2>1. /\ UNCHANGED hearings /\ Ids' = Ids /\ ~ ServesOn(a, t)
          /\ adviser' = [adviser EXCEPT ![t] = a]
      BY <1>7 DEF ChangeAdviser, Ids
    <2>2. Apart'
      BY <2>1 DEF FitInv, Apart
    <2>3. ASSUME NEW i \in Ids, Checked(hearings[i])
          PROVE  adviser'[hearings[i].team] \notin hearings[i].panel
      <3>1. hearings[i].team \in Team /\ adviser \in [Team -> Person \cup {Nobody}]
        BY <1>1 DEF TypeOK, Hearing
      <3>2. CASE hearings[i].team = t
        BY <2>1, <2>3, <3>1, <3>2 DEF ServesOn, Checked
      <3>3. CASE hearings[i].team # t
        <4>1. adviser'[hearings[i].team] = adviser[hearings[i].team]
          BY <2>1, <3>1, <3>3
        <4> QED BY <2>3, <4>1 DEF FitInv, AdvisersOff
      <3> QED BY <3>2, <3>3
    <2> QED BY <2>1, <2>2, <2>3 DEF AdvisersOff
  <1> QED BY <1>2, <1>3, <1>4, <1>5, <1>6, <1>7, Kinds

\* Creation, the confirmed plan and execute_operation all check the calendar and
\* the adviser under the locks, and a change of adviser checks the panels of
\* scheduled hearings: only the board's transition brings a conflict about.
THEOREM ConflictsComeFromTheBoardAlways == Spec => []ConflictsComeFromTheBoard
  <1>1. Init => FitInv
    BY TypeInit, FitInit DEF FitInv
  <1>2. FitInv /\ [Next]_vars => FitInv'
    BY TypeNext, FitNext DEF FitInv
  <1>3. FitInv => ConflictsComeFromTheBoard
    BY FitMeans
  <1> QED BY <1>1, <1>2, <1>3, PTL DEF Spec
==============================================================================
