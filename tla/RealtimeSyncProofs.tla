-------------------------- MODULE RealtimeSyncProofs --------------------------
(***************************************************************************)
(* Proofs about RealtimeSync for any number of attempts that overlap, any   *)
(* number of sockets and any number of changes of the authentication state. *)
(***************************************************************************)
EXTENDS RealtimeSync, FiniteSetTheorems, TLAPS

\* Attempts and timer callbacks under way.
Busy == {a \in Attempt : attempt[a] # At("idle")}
Pending(due) == IF due THEN 1 ELSE 0

\* Listeners, attempts and the pending timer are strands that turn into one
\* another: only a change of the authentication state begins a new one.
StrandsBounded ==
  /\ IsFiniteSet(live) /\ IsFiniteSet(Busy)
  /\ Cardinality(live) + Cardinality(Busy) + Pending(timer) <= changes

IInv == TypeOK /\ StudentCovered /\ StrandsBounded

SocketState == {"none", "opening", "open", "closed"}

------------------------------------------------------------------------------
LEMMA AttemptTypes ==
  /\ \A p \in {"idle", "waking", "closing"} : At(p) \in AttemptState
  /\ \A s \in Socket : [phase |-> "handshake", socket |-> s] \in AttemptState
  /\ \A e \in AttemptState : /\ e.socket \in Socket \cup {NoSocket}
                             /\ e.phase = "handshake" <=> e.socket \in Socket
                             /\ e.phase = "handshake" => e # At("idle")
  /\ At("idle") # At("waking") /\ At("idle") # At("closing")
  /\ At("waking") # At("closing")
  BY SocketAssumption DEF AttemptState, At

\* What an update of the sockets leaves well formed.
LEMMA SocketsTyped ==
  ASSUME NEW states \in [Socket -> SocketState], NEW listened \in SUBSET Socket,
         live' \subseteq listened, Sockets(states, listened)
  PROVE  /\ socket' \in [Socket -> SocketState]
         /\ live' \subseteq used' /\ used' \subseteq Socket
  <1>1. live' \subseteq Known'
    BY DEF Known
  <1>2. socket' \in [Socket -> SocketState]
    BY DEF Sockets, SocketState
  <1> QED BY <1>1, <1>2 DEF Sockets

LEMMA ClosedTyped ==
  ASSUME TypeOK
  PROVE  /\ \A s \in Socket : Closed(s) \in [Socket -> SocketState]
         /\ ClosedChannel \in [Socket -> SocketState]
  BY DEF TypeOK, Closed, ClosedChannel, SocketState

\* The busy attempts after one attempt moved on.
LEMMA BusyAfter ==
  ASSUME TypeOK, NEW a \in Attempt, NEW e \in AttemptState,
         attempt' = [attempt EXCEPT ![a] = e]
  PROVE  /\ attempt' \in [Attempt -> AttemptState]
         /\ attempt'[a] = e
         /\ e # At("idle") => Busy' = Busy \cup {a}
         /\ e = At("idle") => Busy' = Busy \ {a}
  BY DEF TypeOK, Busy

LEMMA PendingTyped == \A due \in BOOLEAN : Pending(due) \in {0, 1}
  BY DEF Pending

\* The values of a function on a finite set are at most as many.
LEMMA FiniteImage ==
  ASSUME NEW S, IsFiniteSet(S), NEW f
  PROVE  /\ IsFiniteSet({f[x] : x \in S})
         /\ Cardinality({f[x] : x \in S}) \in Nat
         /\ Cardinality({f[x] : x \in S}) <= Cardinality(S)
  <1> DEFINE T == {f[x] : x \in S}
             g == [x \in S |-> f[x]]
  <1>1. g \in Surjection(S, T)
    BY DEF Surjection
  <1>2. IsFiniteSet(T) /\ Cardinality(T) <= Cardinality(S)
    <2> HIDE DEF g, T
    <2> QED BY <1>1, FS_Surjection
  <1> QED BY <1>2, FS_CardinalityType

\* While an attempt waits to connect, some socket is known to nobody.
LEMMA NewSocketFresh ==
  ASSUME IInv, NEW a \in Attempt, attempt[a] = At("closing")
  PROVE  NewSocket \in Socket /\ NewSocket \notin Known
  <1> DEFINE others == Busy \ {a}
             at == [b \in Attempt |-> attempt[b].socket]
             connecting == {at[b] : b \in others}
  <1>1. /\ IsFiniteSet(live) /\ Cardinality(live) \in Nat
        /\ IsFiniteSet(Busy) /\ Cardinality(Busy) \in Nat
        /\ Cardinality(live) + Cardinality(Busy) <= MaxChange
    <2>1. IsFiniteSet(live) /\ IsFiniteSet(Busy) /\ Pending(timer) \in {0, 1}
      BY PendingTyped DEF IInv, StrandsBounded, TypeOK
    <2>2. Cardinality(live) \in Nat /\ Cardinality(Busy) \in Nat
      BY <2>1, FS_CardinalityType
    <2> QED BY <2>1, <2>2, BoundAssumption DEF IInv, StrandsBounded, TypeOK
  <1>2. a \in Busy
    BY AttemptTypes DEF Busy
  <1>3. IsFiniteSet(others) /\ Cardinality(others) = Cardinality(Busy) - 1
    BY <1>1, <1>2, FS_RemoveElement
  <1>4. /\ IsFiniteSet(connecting) /\ Cardinality(connecting) \in Nat
        /\ Cardinality(connecting) <= Cardinality(Busy) - 1
    <2> HIDE DEF others, at
    <2> QED BY <1>3, FiniteImage
  <1>5. Known \subseteq ((live \cup connecting) \cup {channel}) \cup {NoSocket}
    <2>1. ASSUME NEW b \in Attempt
          PROVE  attempt[b].socket \in connecting \cup {NoSocket}
      <3>1. CASE b \in others
        BY <3>1
      <3>2. CASE b \notin others
        <4>1. attempt[b] = At("idle") \/ attempt[b] = At("closing")
          BY <3>2 DEF Busy
        <4> QED BY <4>1 DEF At
      <3> QED BY <3>1, <3>2
    <2> QED BY <2>1 DEF Known
  <1>6. /\ IsFiniteSet((live \cup connecting) \cup {channel})
        /\ Cardinality((live \cup connecting) \cup {channel}) \in Nat
        /\ Cardinality((live \cup connecting) \cup {channel}) <= MaxChange
    <2> HIDE DEF connecting
    <2>1. /\ IsFiniteSet(live \cup connecting) /\ IsFiniteSet(live \cap connecting)
          /\ Cardinality(live \cup connecting) =
               Cardinality(live) + Cardinality(connecting) - Cardinality(live \cap connecting)
      BY <1>1, <1>4, FS_Union, FS_Intersection
    <2>2. Cardinality(live \cap connecting) \in Nat
          /\ Cardinality(live \cup connecting) \in Nat
      BY <2>1, FS_CardinalityType
    <2>3. Cardinality(live \cup connecting) <= MaxChange - 1
      BY <1>1, <1>4, <2>1, <2>2, BoundAssumption
    <2>4. /\ IsFiniteSet((live \cup connecting) \cup {channel})
          /\ Cardinality((live \cup connecting) \cup {channel})
               <= Cardinality(live \cup connecting) + 1
      <3> DEFINE L == live \cup connecting
      <3>1. IsFiniteSet(L) /\ Cardinality(L) \in Nat
        BY <2>1, <2>2
      <3> HIDE DEF L
      <3>2. IsFiniteSet(L \cup {channel}) /\ Cardinality(L \cup {channel}) <= Cardinality(L) + 1
        BY <3>1, FS_AddElement
      <3> QED BY <3>2 DEF L
    <2>5. Cardinality((live \cup connecting) \cup {channel}) \in Nat
      BY <2>4, FS_CardinalityType
    <2> QED BY <2>2, <2>3, <2>4, <2>5, BoundAssumption
  <1>7. \E s \in Socket : s \notin Known
    <2> DEFINE K == (live \cup connecting) \cup {channel}
    <2> HIDE DEF K, connecting
    <2> SUFFICES ASSUME Socket \subseteq Known PROVE FALSE
      OBVIOUS
    <2>1. Socket \subseteq K
      BY <1>5, SocketAssumption DEF K
    <2>2. IsFiniteSet(K) /\ Cardinality(K) <= MaxChange /\ Cardinality(K) \in Nat
      BY <1>6 DEF K
    <2>3. IsFiniteSet(Socket) /\ Cardinality(Socket) <= Cardinality(K)
      BY <2>1, <2>2, FS_Subset
    <2>4. Cardinality(Socket) \in Nat
      BY <2>3, FS_CardinalityType
    <2> QED BY <2>2, <2>3, <2>4, EnoughSockets, BoundAssumption
  <1> QED BY <1>7 DEF NewSocket
------------------------------------------------------------------------------
LEMMA InitIInv == Init => IInv
  <1> SUFFICES ASSUME Init PROVE IInv
    OBVIOUS
  <1>1. TypeOK
    <2>1. attempt \in [Attempt -> AttemptState]
      BY AttemptTypes DEF Init
    <2>2. socket \in [Socket -> {"none", "opening", "open", "closed"}]
      BY DEF Init
    <2>3. changes \in 0 .. MaxChange /\ live \subseteq used /\ used \subseteq Socket
      BY BoundAssumption DEF Init
    <2>4. /\ since \in BOOLEAN /\ timer \in BOOLEAN /\ poll \in BOOLEAN /\ calm \in BOOLEAN
      BY Zenon DEF Init
    <2>5. /\ role \in Role /\ link \in {"disconnected", "connecting", "connected"}
          /\ channel \in Socket \cup {NoSocket} /\ subscription \in Socket \cup {NoSocket}
      BY DEF Init, Role
    <2> QED BY <2>1, <2>2, <2>3, <2>4, <2>5 DEF TypeOK
  <1>2. StudentCovered
    BY DEF Init, StudentCovered, AlreadyDown
  <1>3. Busy = {}
    BY DEF Init, Busy
  <1>4. StrandsBounded
    BY <1>3, FS_EmptySet DEF Init, StrandsBounded, Pending
  <1> QED BY <1>1, <1>2, <1>4 DEF IInv

\* How the strands may move in one step.
LEMMA StrandsMove ==
  ASSUME IInv, TypeOK', IsFiniteSet(live'), IsFiniteSet(Busy'),
         Cardinality(live') + Cardinality(Busy') + Pending(timer')
           <= Cardinality(live) + Cardinality(Busy) + Pending(timer) + (changes' - changes)
  PROVE  StrandsBounded'
  <1>1. /\ Cardinality(live) \in Nat /\ Cardinality(Busy) \in Nat
        /\ Cardinality(live') \in Nat /\ Cardinality(Busy') \in Nat
    BY FS_CardinalityType DEF IInv, StrandsBounded
  <1>2. Pending(timer) \in {0, 1} /\ Pending(timer') \in {0, 1}
        /\ changes \in Int /\ changes' \in Int
    BY PendingTyped, BoundAssumption DEF IInv, TypeOK
  <1> QED BY <1>1, <1>2 DEF IInv, StrandsBounded

\* The catch of an attempt, and the end of a listened stream.
LEMMA FailedTyped ==
  ASSUME TypeOK, Failed
  PROVE  /\ link' \in {"disconnected", "connecting", "connected"}
         /\ since' \in BOOLEAN /\ timer' \in BOOLEAN /\ poll' \in BOOLEAN
  BY DEF TypeOK, Failed, Scheduled

LEMMA FailedCovers ==
  ASSUME Failed, role' = role
  PROVE  StudentCovered'
  BY DEF Failed, Scheduled, StudentCovered

\* What one step does to the size of a set.
LEMMA SizeAdd ==
  ASSUME NEW S, NEW x, IsFiniteSet(S)
  PROVE  /\ IsFiniteSet(S \cup {x}) /\ Cardinality(S \cup {x}) \in Nat
         /\ Cardinality(S) \in Nat /\ Cardinality(S \cup {x}) <= Cardinality(S) + 1
  <1>1. Cardinality(S) \in Nat
    BY FS_CardinalityType
  <1>2. /\ IsFiniteSet(S \cup {x})
        /\ Cardinality(S \cup {x}) = IF x \in S THEN Cardinality(S) ELSE Cardinality(S) + 1
    BY FS_AddElement
  <1>3. Cardinality(S \cup {x}) \in Nat
    BY <1>2, FS_CardinalityType
  <1> QED BY <1>1, <1>2, <1>3

LEMMA SizeRemove ==
  ASSUME NEW S, NEW x, IsFiniteSet(S)
  PROVE  /\ IsFiniteSet(S \ {x}) /\ Cardinality(S \ {x}) \in Nat
         /\ Cardinality(S) \in Nat /\ Cardinality(S \ {x}) <= Cardinality(S)
         /\ x \in S => Cardinality(S \ {x}) = Cardinality(S) - 1
  <1>1. Cardinality(S) \in Nat
    BY FS_CardinalityType
  <1>2. /\ IsFiniteSet(S \ {x})
        /\ Cardinality(S \ {x}) = IF x \in S THEN Cardinality(S) - 1 ELSE Cardinality(S)
    BY FS_RemoveElement
  <1>3. Cardinality(S \ {x}) \in Nat
    BY <1>2, FS_CardinalityType
  <1> QED BY <1>1, <1>2, <1>3

------------------------------------------------------------------------------
LEMMA SyncIInv ==
  ASSUME IInv, NEW r \in Role, Sync(r)
  PROVE  IInv'
  <1> USE DEF IInv
  <1>1. IsFiniteSet(live) /\ IsFiniteSet(Busy)
    BY DEF StrandsBounded
  <1>2. changes' = changes + 1 /\ changes' \in 0 .. MaxChange /\ changes \in Nat
        /\ role' = r /\ timer' = FALSE /\ timer \in BOOLEAN
    BY BoundAssumption DEF Sync, Connect, Disconnect, TypeOK
  <1>3. live' = live \ {subscription} /\ Sockets(ClosedChannel, used)
    BY DEF Sync, Connect, Disconnect
  <1>4. socket' \in [Socket -> SocketState] /\ live' \subseteq used' /\ used' \subseteq Socket
    BY <1>3, ClosedTyped, SocketsTyped DEF TypeOK
  <1>7. /\ IsFiniteSet(live') /\ Cardinality(live') \in Nat /\ Cardinality(live) \in Nat
        /\ Cardinality(live') <= Cardinality(live) /\ Cardinality(Busy) \in Nat
        /\ Pending(timer') = 0 /\ Pending(timer) \in {0, 1}
    <2>1. IsFiniteSet(live \ {subscription}) /\ Cardinality(live \ {subscription}) \in Nat
          /\ Cardinality(live) \in Nat /\ Cardinality(live \ {subscription}) <= Cardinality(live)
      BY <1>1, SizeRemove
    <2>2. Cardinality(Busy) \in Nat
      BY <1>1, FS_CardinalityType
    <2>3. Pending(timer') = 0 /\ Pending(timer) \in {0, 1}
      BY <1>2, PendingTyped DEF Pending
    <2> QED BY <1>3, <2>1, <2>2, <2>3
  <1>5. CASE r = "none"
    <2>1. Disconnect
      BY <1>5 DEF Sync
    <2>2. Busy' = Busy
      BY <2>1 DEF Disconnect, Busy
    <2>3. TypeOK'
      BY <1>2, <1>4, <2>1 DEF TypeOK, Disconnect, SocketState, Role
    <2>4. StudentCovered'
      BY <1>2, <1>5 DEF StudentCovered
    <2>5. StrandsBounded'
      BY <1>1, <1>2, <1>7, <2>2, <2>3, StrandsMove
    <2> QED BY <2>3, <2>4, <2>5
  <1>6. CASE r # "none"
    <2>1. PICK a \in Attempt : attempt[a] = At("idle") /\ Connect(a)
      BY <1>6 DEF Sync
    <2>2. attempt' \in [Attempt -> AttemptState] /\ Busy' = Busy \cup {a}
      BY <2>1, BusyAfter, AttemptTypes DEF Connect
    <2>3. TypeOK'
      BY <1>2, <1>4, <2>1, <2>2 DEF TypeOK, Connect, SocketState
    <2>4. StudentCovered'
      BY <2>1 DEF StudentCovered, Connect, AlreadyDown
    <2>5. StrandsBounded'
      <3>1. IsFiniteSet(Busy') /\ Cardinality(Busy') \in Nat
            /\ Cardinality(Busy') <= Cardinality(Busy) + 1
        <4>1. IsFiniteSet(Busy \cup {a}) /\ Cardinality(Busy \cup {a}) \in Nat
              /\ Cardinality(Busy \cup {a}) <= Cardinality(Busy) + 1
          BY <1>1, SizeAdd
        <4> QED BY <2>2, <4>1
      <3> QED BY <1>2, <1>7, <2>3, <3>1, StrandsMove
    <2> QED BY <2>3, <2>4, <2>5
  <1> QED BY <1>5, <1>6

LEMMA OpenIInv ==
  ASSUME IInv, NEW a \in Attempt, Open(a)
  PROVE  IInv'
  <1> USE DEF IInv
  <1>1. NewSocket \in Socket
    BY NewSocketFresh DEF Open
  <1>2. /\ attempt' \in [Attempt -> AttemptState] /\ Busy' = Busy \cup {a}
        /\ a \in Busy /\ a \in Busy'
    BY <1>1, BusyAfter, AttemptTypes DEF Open, Busy
  <1>3. socket' \in [Socket -> SocketState] /\ live' \subseteq used' /\ used' \subseteq Socket
    <2>1. [socket EXCEPT ![NewSocket] = "opening"] \in [Socket -> SocketState]
      BY <1>1 DEF TypeOK, SocketState
    <2>2. live' \subseteq used /\ used \subseteq Socket
      BY DEF Open, TypeOK
    <2> QED BY <2>1, <2>2, SocketsTyped DEF Open
  <1>4. TypeOK'
    BY <1>1, <1>2, <1>3 DEF TypeOK, Open, SocketState
  <1>5. StudentCovered'
    BY <1>2 DEF StudentCovered, Open, AlreadyDown, Busy
  <1>6. Busy' = Busy
    BY <1>2
  <1>7. StrandsBounded'
    BY <1>6 DEF StrandsBounded, Open
  <1> QED BY <1>4, <1>5, <1>7

\* An attempt ends: one busy attempt less, and whatever the timer, no strand more.
LEMMA OverSizes ==
  ASSUME IInv, NEW a \in Attempt, attempt[a] # At("idle"), Over(a)
  PROVE  /\ attempt' \in [Attempt -> AttemptState]
         /\ IsFiniteSet(Busy) /\ IsFiniteSet(Busy') /\ IsFiniteSet(live)
         /\ Cardinality(live) \in Nat /\ Cardinality(Busy) \in Nat
         /\ Cardinality(Busy') = Cardinality(Busy) - 1
  <1>1. IsFiniteSet(Busy) /\ IsFiniteSet(live)
    BY DEF IInv, StrandsBounded
  <1>2. attempt' \in [Attempt -> AttemptState] /\ Busy' = Busy \ {a}
    BY BusyAfter, AttemptTypes DEF Over, IInv
  <1>3. a \in Busy
    BY DEF Busy
  <1>4. /\ IsFiniteSet(Busy \ {a}) /\ Cardinality(Busy) \in Nat
        /\ Cardinality(Busy \ {a}) = Cardinality(Busy) - 1
    BY <1>1, <1>3, SizeRemove
  <1>5. Cardinality(live) \in Nat
    BY <1>1, FS_CardinalityType
  <1> QED BY <1>1, <1>2, <1>4, <1>5

LEMMA AcceptIInv ==
  ASSUME IInv, NEW a \in Attempt, Accept(a)
  PROVE  IInv'
  <1> USE DEF IInv
  <1>1. attempt[a] \in AttemptState /\ attempt[a].phase = "handshake"
    BY DEF Accept, TypeOK
  <1>2. attempt[a].socket \in Socket /\ attempt[a] # At("idle")
    BY <1>1, AttemptTypes
  <1>3. [socket EXCEPT ![attempt[a].socket] = "open"] \in [Socket -> SocketState]
    BY <1>2 DEF TypeOK, SocketState
  <1>4. /\ attempt' \in [Attempt -> AttemptState]
        /\ IsFiniteSet(Busy) /\ IsFiniteSet(Busy') /\ IsFiniteSet(live)
        /\ Cardinality(live) \in Nat /\ Cardinality(Busy) \in Nat
        /\ Cardinality(Busy') = Cardinality(Busy) - 1
    BY <1>2, OverSizes DEF Accept
  <1>5. CASE Listens
    <2>1. channel \in Socket /\ live' = live \cup {channel}
      BY <1>5 DEF Accept, Listens, TypeOK
    <2>2. Sockets([socket EXCEPT ![attempt[a].socket] = "open"], used \cup {channel})
      BY <1>5 DEF Accept
    <2>3. socket' \in [Socket -> SocketState] /\ live' \subseteq used' /\ used' \subseteq Socket
      <3>1. used \cup {channel} \in SUBSET Socket /\ live' \subseteq used \cup {channel}
        BY <2>1 DEF TypeOK
      <3> QED BY <1>3, <2>2, <3>1, SocketsTyped
    <2>4. TypeOK'
      BY <1>4, <1>5, <2>1, <2>3 DEF TypeOK, Accept, SocketState
    <2>5. StudentCovered'
      BY <1>5 DEF StudentCovered, Accept, AlreadyDown
    <2>6. StrandsBounded'
      <3>1. IsFiniteSet(live \cup {channel}) /\ Cardinality(live \cup {channel}) \in Nat
            /\ Cardinality(live \cup {channel}) <= Cardinality(live) + 1
        BY <1>4, SizeAdd
      <3>2. timer' = timer /\ changes' = changes /\ changes \in Int
        BY <1>5, BoundAssumption DEF Accept, TypeOK
      <3>3. Pending(timer) \in {0, 1} /\ Pending(timer') = Pending(timer)
        BY <3>2, PendingTyped DEF TypeOK
      <3> QED BY <1>4, <2>1, <2>4, <3>1, <3>2, <3>3, StrandsMove
    <2> QED BY <2>4, <2>5, <2>6
  <1>6. CASE ~Listens
    <2>1. Failed /\ subscription' = subscription /\ live' = live
      BY <1>6 DEF Accept
    <2>2. Sockets([socket EXCEPT ![attempt[a].socket] = "open"], used)
      BY <1>6 DEF Accept
    <2>3. socket' \in [Socket -> SocketState] /\ live' \subseteq used' /\ used' \subseteq Socket
      BY <1>3, <2>1, <2>2, SocketsTyped DEF TypeOK
    <2>4. TypeOK'
      BY <1>4, <2>1, <2>3, FailedTyped DEF TypeOK, Accept, SocketState
    <2>5. StudentCovered'
      BY <2>1, FailedCovers DEF Accept
    <2>6. StrandsBounded'
      <3>1. changes' = changes /\ changes \in Int
        BY BoundAssumption DEF Accept, TypeOK
      <3>2. Pending(timer) \in {0, 1} /\ Pending(timer') \in {0, 1}
        BY <2>4, PendingTyped DEF TypeOK
      <3> QED BY <1>4, <2>1, <2>4, <3>1, <3>2, StrandsMove
    <2> QED BY <2>4, <2>5, <2>6
  <1> QED BY <1>5, <1>6

LEMMA RejectIInv ==
  ASSUME IInv, NEW a \in Attempt, Reject(a)
  PROVE  IInv'
  <1> USE DEF IInv
  <1>1. attempt[a] \in AttemptState /\ attempt[a].phase = "handshake"
    BY DEF Reject, TypeOK
  <1>2. attempt[a].socket \in Socket /\ attempt[a] # At("idle")
    BY <1>1, AttemptTypes
  <1>3. /\ attempt' \in [Attempt -> AttemptState]
        /\ IsFiniteSet(Busy) /\ IsFiniteSet(Busy') /\ IsFiniteSet(live)
        /\ Cardinality(live) \in Nat /\ Cardinality(Busy) \in Nat
        /\ Cardinality(Busy') = Cardinality(Busy) - 1
    BY <1>2, OverSizes DEF Reject
  <1>4. live' = live /\ Sockets(Closed(attempt[a].socket), used)
    BY DEF Reject
  <1>5. socket' \in [Socket -> SocketState] /\ live' \subseteq used' /\ used' \subseteq Socket
    BY <1>2, <1>4, ClosedTyped, SocketsTyped DEF TypeOK
  <1>6. TypeOK'
    BY <1>3, <1>5, FailedTyped DEF TypeOK, Reject, SocketState
  <1>7. StudentCovered'
    BY FailedCovers DEF Reject
  <1>8. StrandsBounded'
    <2>1. changes' = changes /\ changes \in Int
      BY BoundAssumption DEF Reject, TypeOK
    <2>2. Pending(timer) \in {0, 1} /\ Pending(timer') \in {0, 1}
      BY <1>6, PendingTyped DEF TypeOK
    <2> QED BY <1>3, <1>4, <1>6, <2>1, <2>2, StrandsMove
  <1> QED BY <1>6, <1>7, <1>8

LEMMA DropIInv ==
  ASSUME IInv, NEW s \in Socket, Drop(s)
  PROVE  IInv'
  <1> USE DEF IInv
  <1>1. live' = live /\ Sockets(Closed(s), used)
    BY DEF Drop
  <1>2. socket' \in [Socket -> SocketState] /\ live' \subseteq used' /\ used' \subseteq Socket
    BY <1>1, ClosedTyped, SocketsTyped DEF TypeOK
  <1>3. TypeOK'
    BY <1>2 DEF TypeOK, Drop, fields, SocketState
  <1>4. StudentCovered' /\ StrandsBounded'
    BY DEF StudentCovered, StrandsBounded, Drop, fields, AlreadyDown, Busy
  <1> QED BY <1>3, <1>4

LEMMA DoneIInv ==
  ASSUME IInv, NEW s \in Socket, Done(s)
  PROVE  IInv'
  <1> USE DEF IInv
  <1>1. s \in live /\ live' = live \ {s} /\ Sockets(socket, used) /\ attempt' = attempt
    BY DEF Done
  <1>2. socket' \in [Socket -> SocketState] /\ live' \subseteq used' /\ used' \subseteq Socket
    BY <1>1, SocketsTyped DEF TypeOK, SocketState
  <1>3. TypeOK'
    BY <1>2, FailedTyped DEF TypeOK, Done, SocketState
  <1>4. StudentCovered'
    <2>1. CASE AlreadyDown
      BY <1>1, <2>1 DEF StudentCovered, Done, AlreadyDown
    <2>2. CASE ~AlreadyDown
      BY <2>2, FailedCovers DEF Done
    <2> QED BY <2>1, <2>2
  <1>5. StrandsBounded'
    <2>1. IsFiniteSet(live) /\ IsFiniteSet(Busy) /\ Busy' = Busy
      BY <1>1 DEF StrandsBounded, Busy
    <2>2. /\ IsFiniteSet(live \ {s}) /\ Cardinality(live \ {s}) = Cardinality(live) - 1
          /\ Cardinality(live) \in Nat
      BY <1>1, <2>1, SizeRemove
    <2>3. changes' = changes /\ changes \in Int
      BY BoundAssumption DEF Done, TypeOK
    <2>4. Pending(timer) \in {0, 1} /\ Pending(timer') \in {0, 1}
      BY <1>3, PendingTyped DEF TypeOK
    <2>5. Cardinality(Busy) \in Nat
      BY <2>1, FS_CardinalityType
    <2> QED BY <1>1, <1>3, <2>1, <2>2, <2>3, <2>4, <2>5, StrandsMove
  <1> QED BY <1>3, <1>4, <1>5

LEMMA FireIInv ==
  ASSUME IInv, NEW a \in Attempt, Fire(a)
  PROVE  IInv'
  <1> USE DEF IInv
  <1>1. attempt' \in [Attempt -> AttemptState] /\ Busy' = Busy \cup {a} /\ a \in Busy'
    BY BusyAfter, AttemptTypes DEF Fire
  <1>2. TypeOK'
    BY <1>1 DEF TypeOK, Fire
  <1>3. StudentCovered'
    BY <1>1 DEF StudentCovered, Fire, AlreadyDown, Busy
  <1>4. StrandsBounded'
    <2>1. IsFiniteSet(live) /\ IsFiniteSet(Busy) /\ live' = live /\ changes' = changes
      BY DEF StrandsBounded, Fire
    <2>2. IsFiniteSet(Busy \cup {a}) /\ Cardinality(Busy \cup {a}) \in Nat
          /\ Cardinality(Busy) \in Nat /\ Cardinality(Busy \cup {a}) <= Cardinality(Busy) + 1
      BY <2>1, SizeAdd
    <2>3. Pending(timer) = 1 /\ Pending(timer') = 0
      BY DEF Fire, Pending
    <2>4. Cardinality(live) \in Nat /\ changes \in Int
      BY <2>1, FS_CardinalityType, BoundAssumption DEF TypeOK
    <2> QED BY <1>1, <1>2, <2>1, <2>2, <2>3, <2>4, StrandsMove
  <1> QED BY <1>2, <1>3, <1>4

LEMMA WakeIInv ==
  ASSUME IInv, NEW a \in Attempt, Wake(a)
  PROVE  IInv'
  <1> USE DEF IInv
  <1>1. attempt[a] # At("idle") /\ role' = role /\ changes' = changes
    BY AttemptTypes DEF Wake
  <1>2. IsFiniteSet(live) /\ IsFiniteSet(Busy) /\ Cardinality(live) \in Nat
        /\ Cardinality(Busy) \in Nat /\ changes \in Int /\ Pending(timer) \in {0, 1}
    BY FS_CardinalityType, BoundAssumption, PendingTyped DEF StrandsBounded, TypeOK
  <1>3. CASE role # "none"
    <2>1. Connect(a)
      BY <1>3 DEF Wake
    <2>2. /\ attempt' \in [Attempt -> AttemptState] /\ Busy' = Busy \cup {a}
          /\ a \in Busy
      BY <1>1, <2>1, BusyAfter, AttemptTypes DEF Connect, Busy
    <2>3. Busy' = Busy
      BY <2>2
    <2>4. live' = live \ {subscription} /\ Sockets(ClosedChannel, used) /\ timer' = FALSE
      BY <2>1 DEF Connect
    <2>5. socket' \in [Socket -> SocketState] /\ live' \subseteq used' /\ used' \subseteq Socket
      BY <2>4, ClosedTyped, SocketsTyped DEF TypeOK
    <2>6. TypeOK'
      BY <1>1, <2>1, <2>2, <2>5 DEF TypeOK, Connect, SocketState
    <2>7. StudentCovered'
      BY <2>1 DEF StudentCovered, Connect, AlreadyDown
    <2>8. StrandsBounded'
      <3>1. IsFiniteSet(live \ {subscription}) /\ Cardinality(live \ {subscription}) \in Nat
            /\ Cardinality(live \ {subscription}) <= Cardinality(live)
        BY <1>2, SizeRemove
      <3>2. Pending(timer') = 0
        BY <2>4 DEF Pending
      <3> QED BY <1>1, <1>2, <2>3, <2>4, <2>6, <3>1, <3>2, StrandsMove
    <2> QED BY <2>6, <2>7, <2>8
  <1>4. CASE role = "none"
    <2>1. Over(a) /\ UNCHANGED <<link, since, timer, poll, channel, subscription, socket,
                                 used, live, calm>>
      BY <1>4 DEF Wake
    <2>2. /\ attempt' \in [Attempt -> AttemptState] /\ IsFiniteSet(Busy')
          /\ Cardinality(Busy') = Cardinality(Busy) - 1
      BY <1>1, <2>1, OverSizes
    <2>3. TypeOK'
      BY <1>1, <2>1, <2>2 DEF TypeOK
    <2>4. StudentCovered'
      BY <1>1, <1>4 DEF StudentCovered
    <2>5. StrandsBounded'
      BY <1>1, <1>2, <2>1, <2>2, <2>3, StrandsMove
    <2> QED BY <2>3, <2>4, <2>5
  <1> QED BY <1>3, <1>4

LEMMA NextIInv == IInv /\ [Next]_vars => IInv'
  <1> SUFFICES ASSUME IInv, [Next]_vars PROVE IInv'
    OBVIOUS
  <1>1. CASE Settle
    BY <1>1 DEF Settle, fields, IInv, TypeOK, StudentCovered, StrandsBounded, AlreadyDown, Busy
  <1>2. CASE UNCHANGED vars
    BY <1>2 DEF vars, fields, IInv, TypeOK, StudentCovered, StrandsBounded, AlreadyDown, Busy
  <1> QED BY <1>1, <1>2, SyncIInv, OpenIInv, AcceptIInv, RejectIInv, WakeIInv, FireIInv,
             DropIInv, DoneIInv DEF Next, Proceeds

------------------------------------------------------------------------------
\* However attempts, timers and drops overlap, the fields, the listeners and the
\* attempts stay consistent, and every connection strand goes back to a change
\* of the authentication state (realtime_sync_service.dart).
THEOREM RealtimeInvariant == Spec => []IInv
  <1> QED BY InitIInv, NextIInv, PTL DEF Spec

\* Types, and: only a socket whose stream was listened to has a listener
\* (_connectInternal).
THEOREM TypeOKAlways == Spec => []TypeOK
  <1>1. IInv => TypeOK
    BY DEF IInv
  <1> QED BY <1>1, RealtimeInvariant, PTL

\* A student whose link is known to be down is polled for and about to reconnect
\* (_scheduleReconnect, _handleDisconnect, _startFallbackPolling).
THEOREM StudentCoveredAlways == Spec => []StudentCovered
  <1>1. IInv => StudentCovered
    BY DEF IInv
  <1> QED BY <1>1, RealtimeInvariant, PTL

\* Listeners that were never cancelled, attempts and a pending timer are together
\* at most as many as the changes of the authentication state: drops, timers and
\* overlapping attempts replace connections and never multiply them
\* (RealtimeSyncHost._sync, _connectInternal).
THEOREM StrandsBoundedAlways == Spec => []StrandsBounded
  <1>1. IInv => StrandsBounded
    BY DEF IInv
  <1> QED BY <1>1, RealtimeInvariant, PTL
==============================================================================
