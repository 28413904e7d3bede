------------------------- MODULE ClientSessionProofs -------------------------
(***************************************************************************)
(* Safety of ClientSession for any number of calls and timers.              *)
(***************************************************************************)
EXTENDS ClientSession, FiniteSetTheorems, TLAPS

------------------------------------------------------------------------------
(* The inductive invariant *)

\* Until the session is restored nobody but its start refreshes.
Quiet == restoring =>
  /\ \A f \in Refresher \ {Startup} : flight[f] = NoFlight
  /\ completer = NoCaller /\ logout = NoLogout
  /\ \A c \in Caller : call[c] \in {"idle", "preparing"}

StartupRestores == flight[Startup] # NoFlight => restoring

\* The single flight: the call that holds the completer is the one that refreshes.
OneLeader == \A c \in Caller : flight[c] # NoFlight => completer = c

\* A token is posted to be revoked from the session's own store, and the session
\* keeps that store until the logout clears it.
LogoutOpened == logout.phase = "posted" => opened

Shape == TypeOK /\ Quiet /\ StartupRestores /\ OneLeader /\ LogoutOpened
IInv == Shape /\ StoredTokenUsable

------------------------------------------------------------------------------
(* Refreshes under way *)

LEMMA Names ==
  /\ Startup \in Refresher /\ Startup \notin Caller /\ Startup \notin Timer
  /\ NoCaller \notin Caller /\ Caller \subseteq Refresher /\ Timer \subseteq Refresher
  /\ \A c \in Caller : c \notin Timer
  BY RefresherAssumption DEF Refresher

LEMMA FlightFields ==
  ASSUME NEW h \in Flight
  PROVE  /\ h.phase \in {"idle", "posted", "admitted", "granted", "profile", "failed"}
         /\ h.phase \in {"posted", "admitted", "granted"} => h.held \in Token
         /\ h.phase \in {"idle", "profile", "failed"} => h.held = NoToken
         /\ h.phase = "idle" <=> h = NoFlight
         /\ h.held \in Token \cup {NoToken}
         /\ h = [phase |-> h.phase, held |-> h.held]
  BY DEF Flight, NoFlight

LEMMA FlightForms ==
  /\ NoFlight \in Flight /\ NoFlight.phase = "idle" /\ NoFlight.held = NoToken
  /\ \A p \in {"posted", "admitted", "granted"}, t \in Token : [phase |-> p, held |-> t] \in Flight
  /\ \A p \in {"profile", "failed"} :
       /\ [NoFlight EXCEPT !.phase = p] = [phase |-> p, held |-> NoToken]
       /\ [phase |-> p, held |-> NoToken] \in Flight
  BY DEF Flight, NoFlight

LEMMA LogoutFields ==
  ASSUME NEW h \in LogoutStep
  PROVE  /\ h.phase \in {"off", "revoking", "answered", "posted"}
         /\ h.phase = "posted" => h.held \in Token
         /\ h.phase # "posted" => h.held = NoToken
         /\ h.held \in Token \cup {NoToken}
         /\ h = [phase |-> h.phase, held |-> h.held]
  BY DEF LogoutStep, NoLogout

LEMMA Returned ==
  ASSUME NEW f \in Refresher, NEW p \in {"profile", "failed"}
  PROVE  /\ Return(f, p) \in Flight /\ Return(f, p).held = NoToken
         /\ Return(f, p).phase # "granted"
         /\ f \in Timer => Return(f, p) = NoFlight
  <1>1. CASE f \in Timer
    BY <1>1, FlightForms DEF Return
  <1>2. CASE f \notin Timer
    <2>1. Return(f, p) = [phase |-> p, held |-> NoToken]
      BY <1>2, FlightForms DEF Return
    <2> QED BY <1>2, <2>1, FlightForms
  <1> QED BY <1>1, <1>2

LEMMA Begun ==
  ASSUME TypeOK, NEW f \in Refresher, Begin(f)
  PROVE  /\ opened' \in BOOLEAN /\ (opened => opened')
         /\ \E x \in Flight : x.phase # "granted" /\ flight' = [flight EXCEPT ![f] = x]
  <1>1. CASE store = NoToken
    <2>1. flight' = [flight EXCEPT ![f] = Return(f, "failed")]
      BY <1>1 DEF Begin
    <2>2. Return(f, "failed") \in Flight /\ Return(f, "failed").phase # "granted"
      BY Returned
    <2>3. opened' \in BOOLEAN /\ (opened => opened')
      BY DEF Begin, TypeOK
    <2> QED BY <2>1, <2>2, <2>3
  <1>2. CASE store # NoToken
    <2> DEFINE x == [phase |-> "posted", held |-> store]
    <2>1. flight' = [flight EXCEPT ![f] = x]
      BY <1>2 DEF Begin
    <2>2. x \in Flight /\ x.phase # "granted"
      BY <1>2, FlightForms DEF TypeOK
    <2>3. opened' \in BOOLEAN /\ (opened => opened')
      BY DEF Begin, TypeOK
    <2> HIDE DEF x
    <2> QED BY <2>1, <2>2, <2>3
  <1> QED BY <1>1, <1>2

------------------------------------------------------------------------------
(* Tokens *)

LEMMA Settled ==
  ASSUME NEW known, \A t \in Token : known[t] \in TokenState, Settle(known)
  PROVE  /\ token' \in [Token -> TokenState]
         /\ store' \in Token => token'[store'] = known[store']
  <1>1. \A t \in Token : token'[t] \in {"free", "gone", known[t]}
    BY DEF Settle
  <1>2. {"free", "gone"} \subseteq TokenState
    BY DEF TokenState
  <1>3. token' = [t \in Token |-> token'[t]]
    BY DEF Settle
  <1>4. store' \in Token => token'[store'] = known[store']
    BY DEF Settle
  <1> QED BY <1>1, <1>2, <1>3, <1>4

\* The values of a function on a finite set are at most as many.
LEMMA FiniteImage ==
  ASSUME NEW S, IsFiniteSet(S), NEW f
  PROVE  /\ IsFiniteSet({f[x] : x \in S})
         /\ Cardinality({f[x] : x \in S}) \in Nat
         /\ Cardinality({f[x] : x \in S}) <= Cardinality(S)
  <1> DEFINE T == {f[x] : x \in S}
             g == [x \in S |-> f[x]]
  <1>1. g \in Surjection(S, T)
    BY DEF Surjection
  <1>2. IsFiniteSet(T) /\ Cardinality(T) <= Cardinality(S)
    <2> HIDE DEF g, T
    <2> QED BY <1>1, FS_Surjection
  <1> QED BY <1>2, FS_CardinalityType

\* The tokens under way fit below the newest: the timers' own, that of the start
\* or of the single flight, and that of a logout.
LEMMA FewHeld ==
  ASSUME Shape
  PROVE  /\ Held \subseteq Token
         /\ IsFiniteSet(Held) /\ Cardinality(Held) \in Nat /\ Cardinality(Held) < MaxToken
  <1>1. TypeOK
    BY DEF Shape
  <1> DEFINE held == [f \in Refresher |-> flight[f].held]
             T == {held[f] : f \in Timer}
             leader == IF restoring THEN Startup ELSE completer
             x == flight[leader].held
             y == logout.held
  <1>2. IsFiniteSet(Timer) /\ Cardinality(Timer) \in Nat
    BY EnoughTokens, FS_CardinalityType
  <1>3. IsFiniteSet(T) /\ Cardinality(T) \in Nat /\ Cardinality(T) <= Cardinality(Timer)
    <2> HIDE DEF held
    <2> QED BY <1>2, FiniteImage
  <1>4. \A f \in Refresher : flight[f].held \in Token \cup {NoToken}
    BY <1>1, FlightFields DEF TypeOK
  <1>5. ASSUME NEW f \in Refresher, flight[f].held # NoToken
        PROVE  flight[f].held \in T \cup {x}
    <2>1. flight[f] # NoFlight
      BY <1>5, FlightForms
    <2>2. CASE f \in Timer
      BY <2>2, Names
    <2>3. CASE f \in Caller
      <3>1. completer = f /\ ~restoring
        BY <2>1, <2>3, Names DEF Shape, OneLeader, Quiet
      <3> QED BY <3>1
    <2>4. CASE f = Startup
      <3>1. restoring
        BY <2>1, <2>4 DEF Shape, StartupRestores
      <3> QED BY <2>4, <3>1
    <2> QED BY <2>2, <2>3, <2>4 DEF Refresher
  <1>6. Held \subseteq (T \cup {x}) \cup {y}
    BY <1>5 DEF Held
  <1>7. Held \subseteq Token
    BY <1>1, <1>4, LogoutFields DEF Held, TypeOK
  <1> HIDE DEF T, x, y
  <1> DEFINE U == T \cup {x}
  <1>8. IsFiniteSet(U) /\ Cardinality(U) \in Nat /\ Cardinality(U) <= Cardinality(Timer) + 1
    <2>1. IsFiniteSet(U) /\ Cardinality(U) <= Cardinality(T) + 1
      <3>1. IsFiniteSet(T) /\ Cardinality(T) \in Nat
        BY <1>3
      <3>2. /\ IsFiniteSet(T \cup {x})
            /\ Cardinality(T \cup {x}) = IF x \in T THEN Cardinality(T) ELSE Cardinality(T) + 1
        BY <3>1, FS_AddElement
      <3> QED BY <3>1, <3>2
    <2>2. Cardinality(U) \in Nat
      BY <2>1, FS_CardinalityType
    <2> HIDE DEF U
    <2> QED BY <1>2, <1>3, <2>1, <2>2
  <1> HIDE DEF U
  <1> DEFINE V == U \cup {y}
  <1>9. IsFiniteSet(V) /\ Cardinality(V) \in Nat /\ Cardinality(V) <= Cardinality(Timer) + 2
    <2>1. IsFiniteSet(V) /\ Cardinality(V) <= Cardinality(U) + 1
      BY <1>8, FS_AddElement
    <2>2. Cardinality(V) \in Nat
      BY <2>1, FS_CardinalityType
    <2> HIDE DEF V
    <2> QED BY <1>2, <1>8, <2>1, <2>2
  <1>10. Held \in SUBSET V
    BY <1>6 DEF U
  <1> HIDE DEF V
  <1>11. IsFiniteSet(Held) /\ Cardinality(Held) <= Cardinality(V)
    BY <1>9, <1>10, FS_Subset
  <1>12. Cardinality(Held) \in Nat
    BY <1>11, FS_CardinalityType
  <1>13. Cardinality(Held) < MaxToken
    BY <1>2, <1>9, <1>11, <1>12, EnoughTokens, TokenAssumption
  <1> QED BY <1>7, <1>11, <1>12, <1>13

\* A renumbered token is a token, and none is the newest.
LEMMA AgedTyped ==
  ASSUME Shape, NEW t \in Token \cup {NoToken}
  PROVE  /\ t = NoToken => Aged(t) = NoToken
         /\ t # NoToken => Aged(t) \in Token
         /\ t \in Held => Aged(t) # Newest
         /\ Newest \in Token
  <1> DEFINE D == {u \in Held : u <= t}
  <1>1. /\ Held \subseteq Token /\ IsFiniteSet(Held) /\ Cardinality(Held) \in Nat
        /\ Cardinality(Held) < MaxToken
    BY FewHeld
  <1>2. D \in SUBSET Held
    OBVIOUS
  <1>3. t # NoToken => Aged(t) = 1 + Cardinality(D)
    BY DEF Aged
  <1> HIDE DEF D
  <1>4. IsFiniteSet(D) /\ Cardinality(D) <= Cardinality(Held)
    BY <1>1, <1>2, FS_Subset
  <1>5. Cardinality(D) \in Nat
    BY <1>4, FS_CardinalityType
  <1>6. 1 + Cardinality(D) \in 1 .. MaxToken /\ 1 \in 1 .. MaxToken
    BY <1>1, <1>4, <1>5, TokenAssumption
  <1>7. ASSUME t \in Held
        PROVE  1 + Cardinality(D) # 1
    <2>1. t \in Nat
      BY <1>1, <1>7, TokenAssumption DEF Token
    <2>2. D # {}
      BY <1>7, <2>1, t <= t DEF D
    <2>3. Cardinality(D) # 0
      BY <1>4, <2>2, FS_EmptySet
    <2> QED BY <1>5, <2>3
  <1>8. t \in Held => t # NoToken
    BY DEF Held
  <1>9. 1 + Cardinality(D) \in Token /\ Newest \in Token
    BY <1>6 DEF Token, Newest
  <1> QED BY <1>3, <1>7, <1>8, <1>9 DEF Aged, Newest

LEMMA KnownTyped ==
  ASSUME Shape
  PROVE  /\ \A t \in Token : Known[t] \in TokenState
         /\ Known[Newest] = "valid" /\ Newest \in Token
  <1>1. Held \subseteq Token /\ token \in [Token -> TokenState]
    BY FewHeld DEF Shape, TypeOK
  <1>2. Newest \in Token
    BY AgedTyped
  <1>3. ASSUME NEW t \in Token, \E u \in Held : Aged(u) = t
        PROVE  token[CHOOSE u \in Held : Aged(u) = t] \in TokenState
    <2>1. (CHOOSE u \in Held : Aged(u) = t) \in Held
      BY <1>3
    <2> QED BY <1>1, <2>1
  <1>4. {"valid", "free"} \subseteq TokenState
    BY DEF TokenState
  <1>5. ASSUME NEW t \in Token
        PROVE  Known[t] \in TokenState
    BY <1>3, <1>4 DEF Known
  <1>6. ~ \E u \in Held : Aged(u) = Newest
    BY <1>1, AgedTyped
  <1>7. Known[Newest] = "valid"
    BY <1>2, <1>6 DEF Known
  <1> QED BY <1>2, <1>5, <1>7

LEMMA RenumberedFlight ==
  ASSUME Shape, NEW h \in Flight
  PROVE  /\ [h EXCEPT !.held = Aged(@)] \in Flight
         /\ h = NoFlight => [h EXCEPT !.held = Aged(@)] = NoFlight
  <1> DEFINE a == Aged(h.held)
             k == [h EXCEPT !.held = Aged(@)]
  <1>1. h.held \in Token \cup {NoToken} /\ h = [phase |-> h.phase, held |-> h.held]
    BY FlightFields
  <1>2. k = [phase |-> h.phase, held |-> a]
    <2> HIDE DEF a
    <2>1. k = [h EXCEPT !.held = a]
      BY DEF a
    <2> QED BY <1>1, <2>1
  <1>3. (h.held = NoToken => a = NoToken) /\ (h.held # NoToken => a \in Token)
    BY <1>1, AgedTyped
  <1> HIDE DEF a, k
  <1>4. CASE h.held = NoToken
    BY <1>1, <1>2, <1>3, <1>4 DEF k
  <1>5. CASE h.held # NoToken
    <2>1. h.phase \in {"posted", "admitted", "granted"}
      BY <1>5, FlightFields
    <2>2. h # NoFlight
      BY <1>5, FlightForms
    <2>3. k \in Flight
      BY <1>2, <1>3, <1>5, <2>1, FlightForms
    <2> QED BY <2>2, <2>3 DEF k
  <1> QED BY <1>4, <1>5

LEMMA RenumberedLogout ==
  ASSUME Shape, NEW h \in LogoutStep
  PROVE  /\ [h EXCEPT !.held = Aged(@)] \in LogoutStep
         /\ [h EXCEPT !.held = Aged(@)].phase = h.phase
         /\ h = NoLogout => [h EXCEPT !.held = Aged(@)] = NoLogout
  <1> DEFINE a == Aged(h.held)
             k == [h EXCEPT !.held = Aged(@)]
  <1>1. h.held \in Token \cup {NoToken} /\ h = [phase |-> h.phase, held |-> h.held]
    BY LogoutFields
  <1>2. k = [phase |-> h.phase, held |-> a]
    <2> HIDE DEF a
    <2>1. k = [h EXCEPT !.held = a]
      BY DEF a
    <2> QED BY <1>1, <2>1
  <1>3. (h.held = NoToken => a = NoToken) /\ (h.held # NoToken => a \in Token)
    BY <1>1, AgedTyped
  <1> HIDE DEF a, k
  <1>4. k.phase = h.phase
    BY <1>2
  <1>5. CASE h.held = NoToken
    BY <1>1, <1>2, <1>3, <1>4, <1>5 DEF k
  <1>6. CASE h.held # NoToken
    <2>1. h.phase = "posted"
      BY <1>6, LogoutFields
    <2>2. h # NoLogout
      BY <1>6 DEF NoLogout
    <2>3. k \in LogoutStep
      BY <1>2, <1>3, <1>6, <2>1 DEF LogoutStep
    <2> QED BY <1>4, <2>2, <2>3 DEF k
  <1> QED BY <1>5, <1>6

\* The newest token becomes the stored one, and the others grow older.
LEMMA Renumbered ==
  ASSUME Shape, NEW flights \in [Refresher -> Flight], Renumber(flights), store' = Newest
  PROVE  /\ token' \in [Token -> TokenState] /\ store' \in Token /\ token'[store'] = "valid"
         /\ flight' \in [Refresher -> Flight]
         /\ \A g \in Refresher : flights[g] = NoFlight => flight'[g] = NoFlight
         /\ logout' \in LogoutStep /\ logout'.phase = logout.phase
         /\ logout = NoLogout => logout' = NoLogout
  <1>1. /\ \A t \in Token : Known[t] \in TokenState
        /\ Known[Newest] = "valid" /\ Newest \in Token
    BY KnownTyped
  <1>2. Settle(Known)
    BY DEF Renumber
  <1>3. token' \in [Token -> TokenState] /\ token'[store'] = "valid"
    <2>1. store' \in Token => token'[store'] = Known[store']
      BY <1>1, <1>2, Settled
    <2>2. token' \in [Token -> TokenState]
      BY <1>1, <1>2, Settled
    <2> QED BY <1>1, <2>1, <2>2
  <1>4. /\ flight' = [f \in Refresher |-> [flights[f] EXCEPT !.held = Aged(@)]]
        /\ logout' = [logout EXCEPT !.held = Aged(@)]
    BY DEF Renumber
  <1>5. logout \in LogoutStep
    BY DEF Shape, TypeOK
  <1>6. /\ logout' \in LogoutStep /\ logout'.phase = logout.phase
        /\ logout = NoLogout => logout' = NoLogout
    BY <1>4, <1>5, RenumberedLogout
  <1>7. ASSUME NEW f \in Refresher
        PROVE  /\ flight'[f] \in Flight
               /\ flights[f] = NoFlight => flight'[f] = NoFlight
    <2>1. flights[f] \in Flight
      OBVIOUS
    <2>2. flight'[f] = [flights[f] EXCEPT !.held = Aged(@)]
      BY <1>4
    <2> QED BY <2>1, <2>2, RenumberedFlight
  <1>8. flight' = [f \in Refresher |-> flight'[f]]
    BY <1>4
  <1> QED BY <1>1, <1>3, <1>6, <1>7, <1>8

------------------------------------------------------------------------------
(* What a step may disturb *)

\* Where no refresh starts, the single flight and the restoration stay as they are.
LEMMA FlightsKept ==
  ASSUME Shape, UNCHANGED <<restoring, completer, call>>,
         \A g \in Refresher : flight[g] = NoFlight => flight'[g] = NoFlight,
         logout = NoLogout => logout' = NoLogout
  PROVE  Quiet' /\ StartupRestores' /\ OneLeader'
  <1>1. Quiet'
    BY DEF Shape, Quiet
  <1>2. StartupRestores'
    BY Names DEF Shape, StartupRestores
  <1>3. OneLeader'
    BY Names DEF Shape, OneLeader
  <1> QED BY <1>1, <1>2, <1>3

\* The stored token stays usable where it keeps its state, or is cleared, and the
\* refresh or the logout that put it out of use is still there.
LEMMA UsableKept ==
  ASSUME IInv, store' \in {store, NoToken},
         store' # NoToken => token'[store'] = token[store'],
         \A g \in Refresher : flight[g].phase = "granted" /\ flight[g].held = store
                                => flight'[g] = flight[g],
         logout.phase = "answered" /\ opened
           => store' = NoToken \/ (logout'.phase = "answered" /\ opened')
  PROVE  StoredTokenUsable'
  <1> SUFFICES ASSUME store' # NoToken
               PROVE  /\ token'[store'] = "rotated" =>
                           \E f \in Refresher : flight'[f].phase = "granted"
                                                /\ flight'[f].held = store'
                      /\ token'[store'] = "revoked" => logout'.phase = "answered" /\ opened'
    BY DEF StoredTokenUsable
  <1>1. store' = store /\ store # NoToken /\ token'[store'] = token[store]
    OBVIOUS
  <1>2. ASSUME token[store] = "rotated"
        PROVE  \E f \in Refresher : flight'[f].phase = "granted" /\ flight'[f].held = store'
    BY <1>1, <1>2 DEF IInv, StoredTokenUsable
  <1>3. ASSUME token[store] = "revoked"
        PROVE  logout'.phase = "answered" /\ opened'
    BY <1>1, <1>3 DEF IInv, StoredTokenUsable
  <1> QED BY <1>1, <1>2, <1>3

LEMMA UsableFresh ==
  ASSUME token'[store'] \notin {"rotated", "revoked"}
  PROVE  StoredTokenUsable'
  BY DEF StoredTokenUsable

LEMMA Replaced ==
  ASSUME TypeOK, NEW f \in Refresher, NEW x \in Flight, flight' = [flight EXCEPT ![f] = x]
  PROVE  /\ flight' \in [Refresher -> Flight]
         /\ flight'[f] = x
         /\ \A g \in Refresher : g # f => flight'[g] = flight[g]
  BY DEF TypeOK

------------------------------------------------------------------------------
(* The steps of a refresh *)

\* The server's steps and a lost answer: one flight under way goes on or returns.
LEMMA ServedStep ==
  ASSUME IInv, NEW f \in Refresher, flight[f] # NoFlight,
         NEW x \in Flight, flight' = [flight EXCEPT ![f] = x],
         UNCHANGED <<store, opened, access, restoring, completer, call, logout>>,
         token' \in [Token -> TokenState]
  PROVE  Shape'
  <1>1. TypeOK
    BY DEF IInv, Shape
  <1>2. /\ flight' \in [Refresher -> Flight]
        /\ \A g \in Refresher : g # f => flight'[g] = flight[g]
    BY <1>1, Replaced
  <1>3. \A g \in Refresher : flight[g] = NoFlight => flight'[g] = NoFlight
    BY <1>2
  <1>4. Quiet' /\ StartupRestores' /\ OneLeader'
    BY <1>3, FlightsKept DEF IInv
  <1>5. TypeOK'
    BY <1>1, <1>2 DEF TypeOK
  <1>6. LogoutOpened'
    BY DEF IInv, Shape, LogoutOpened
  <1> QED BY <1>4, <1>5, <1>6 DEF Shape

LEMMA AdmitKeeps ==
  ASSUME IInv, NEW f \in Refresher, Admit(f)
  PROVE  IInv'
  <1> USE DEF Admit
  <1>1. TypeOK
    BY DEF IInv, Shape
  <1>2. /\ \A t \in Token : token[t] \in TokenState
        /\ flight[f] \in Flight /\ flight[f] # NoFlight
    BY <1>1, FlightForms DEF TypeOK
  <1>3. PICK x \in Flight : flight' = [flight EXCEPT ![f] = x]
    <2>1. CASE token[flight[f].held] = "valid"
      <3> DEFINE x == [flight[f] EXCEPT !.phase = "admitted"]
      <3>1. flight' = [flight EXCEPT ![f] = x]
        BY <2>1
      <3>2. flight[f].held \in Token /\ flight[f] = [phase |-> flight[f].phase, held |-> flight[f].held]
        BY <1>2, FlightFields
      <3>3. x = [phase |-> "admitted", held |-> flight[f].held]
        BY <3>2
      <3>4. x \in Flight
        BY <3>2, <3>3, FlightForms
      <3> HIDE DEF x
      <3> QED BY <3>1, <3>4
    <2>2. CASE token[flight[f].held] # "valid"
      <3>1. flight' = [flight EXCEPT ![f] = Return(f, "failed")]
        BY <2>2
      <3> QED BY <3>1, Returned
    <2> QED BY <2>1, <2>2
  <1>4. /\ token' \in [Token -> TokenState]
        /\ store' \in Token => token'[store'] = token[store']
    BY <1>2, Settled
  <1>5. Shape'
    BY <1>2, <1>3, <1>4, ServedStep
  <1>6. \A g \in Refresher : g # f => flight'[g] = flight[g]
    BY <1>1, <1>3, Replaced
  <1>7. store \in Token \cup {NoToken}
    BY <1>1 DEF TypeOK
  <1>8. StoredTokenUsable'
    BY <1>4, <1>6, <1>7, UsableKept
  <1> QED BY <1>5, <1>8 DEF IInv

LEMMA RotateKeeps ==
  ASSUME IInv, NEW f \in Refresher, Rotate(f)
  PROVE  IInv'
  <1> USE DEF Rotate
  <1> DEFINE held == flight[f].held
             known == [token EXCEPT ![held] = "rotated"]
             x == [flight[f] EXCEPT !.phase = "granted"]
  <1>1. TypeOK /\ token \in [Token -> TokenState]
    BY DEF IInv, Shape, TypeOK
  <1>2. flight[f] \in Flight /\ flight[f] # NoFlight
    BY <1>1, FlightForms DEF TypeOK
  <1>3. held \in Token /\ flight[f] = [phase |-> flight[f].phase, held |-> held]
    BY <1>2, FlightFields
  <1>4. x = [phase |-> "granted", held |-> held] /\ x \in Flight
    <2>1. x = [phase |-> "granted", held |-> held]
      BY <1>3
    <2> QED BY <1>3, <2>1, FlightForms
  <1>5. flight' = [flight EXCEPT ![f] = x]
    OBVIOUS
  <1>6. /\ \A t \in Token : known[t] \in TokenState
        /\ \A t \in Token : t # held => known[t] = token[t]
        /\ known[held] = "rotated"
    <2>1. "rotated" \in TokenState
      BY DEF TokenState
    <2> QED BY <1>1, <1>3, <2>1
  <1>7. Settle(known)
    OBVIOUS
  <1> HIDE DEF x, known
  <1>8. /\ token' \in [Token -> TokenState]
        /\ store' \in Token => token'[store'] = known[store']
    BY <1>6, <1>7, Settled
  <1>9. Shape'
    BY <1>2, <1>4, <1>5, <1>8, ServedStep
  <1>10. /\ flight'[f] = x
         /\ \A g \in Refresher : g # f => flight'[g] = flight[g]
    BY <1>1, <1>4, <1>5, Replaced
  <1>11. store \in Token \cup {NoToken} /\ store' = store
    BY <1>1 DEF TypeOK
  <1>12. StoredTokenUsable'
    <2>1. CASE store = held
      <3>1. token'[store'] = "rotated"
        BY <1>3, <1>6, <1>8, <1>11, <2>1
      <3>2. flight'[f].phase = "granted" /\ flight'[f].held = store'
        BY <1>4, <1>10, <1>11, <2>1
      <3> QED BY <3>1, <3>2 DEF StoredTokenUsable
    <2>2. CASE store # held
      <3>1. store' # NoToken => token'[store'] = token[store]
        BY <1>6, <1>8, <1>11, <2>2
      <3>2. \A g \in Refresher : flight[g].phase = "granted" => flight'[g] = flight[g]
        BY <1>10
      <3> QED BY <1>11, <3>1, <3>2, UsableKept
    <2> QED BY <2>1, <2>2
  <1> QED BY <1>9, <1>12 DEF IInv

LEMMA LoseKeeps ==
  ASSUME IInv, NEW f \in Refresher, Lose(f)
  PROVE  IInv'
  <1> USE DEF Lose
  <1> DEFINE held == flight[f].held
             x == Return(f, "failed")
             known == IF flight[f].phase = "granted" THEN [token EXCEPT ![held] = "gone"] ELSE token
  <1>1. TypeOK /\ token \in [Token -> TokenState]
    BY DEF IInv, Shape, TypeOK
  <1>2. flight[f] \in Flight /\ flight[f] # NoFlight /\ held \in Token
    BY <1>1, FlightForms, FlightFields DEF TypeOK
  <1>3. x \in Flight
    BY Returned
  <1>4. flight' = [flight EXCEPT ![f] = x]
    OBVIOUS
  <1>5. /\ \A t \in Token : known[t] \in TokenState
        /\ \A t \in Token : t # held \/ flight[f].phase # "granted" => known[t] = token[t]
        /\ flight[f].phase = "granted" => known[held] = "gone"
    <2>1. "gone" \in TokenState
      BY DEF TokenState
    <2> QED BY <1>1, <1>2, <2>1
  <1>6. Settle(known)
    OBVIOUS
  <1> HIDE DEF x, known
  <1>7. /\ token' \in [Token -> TokenState]
        /\ store' \in Token => token'[store'] = known[store']
    BY <1>5, <1>6, Settled
  <1>8. Shape'
    BY <1>2, <1>3, <1>4, <1>7, ServedStep
  <1>9. \A g \in Refresher : g # f => flight'[g] = flight[g]
    BY <1>1, <1>3, <1>4, Replaced
  <1>10. store \in Token \cup {NoToken} /\ store' = store
    BY <1>1 DEF TypeOK
  <1>11. StoredTokenUsable'
    <2>1. CASE store = held /\ flight[f].phase = "granted"
      <3>1. token'[store'] = "gone"
        BY <1>2, <1>5, <1>7, <1>10, <2>1
      <3> QED BY <3>1, UsableFresh
    <2>2. CASE ~(store = held /\ flight[f].phase = "granted")
      <3>1. store' # NoToken => token'[store'] = token[store]
        BY <1>5, <1>7, <1>10, <2>2
      <3>2. \A g \in Refresher : flight[g].phase = "granted" /\ flight[g].held = store
                                   => flight'[g] = flight[g]
        BY <1>9, <2>2
      <3> QED BY <1>10, <3>1, <3>2, UsableKept
    <2> QED BY <2>1, <2>2
  <1> QED BY <1>8, <1>11 DEF IInv

\* The answer's token becomes the newest and the stored one.
LEMMA ApplyKeeps ==
  ASSUME IInv, NEW f \in Refresher, Apply(f)
  PROVE  IInv'
  <1> USE DEF Apply, WriteTokens
  <1> DEFINE x == Return(f, "profile")
             flights == [flight EXCEPT ![f] = x]
  <1>1. TypeOK /\ Shape
    BY DEF IInv, Shape
  <1>2. flight[f] # NoFlight /\ flight \in [Refresher -> Flight]
    BY <1>1, FlightForms DEF TypeOK
  <1>3. x \in Flight
    BY Returned
  <1>4. Renumber(flights)
    OBVIOUS
  <1> HIDE DEF x
  <1>5. /\ flights \in [Refresher -> Flight]
        /\ \A g \in Refresher : flight[g] = NoFlight => flights[g] = NoFlight
    BY <1>2, <1>3
  <1> HIDE DEF flights
  <1>6. /\ token' \in [Token -> TokenState] /\ store' \in Token /\ token'[store'] = "valid"
        /\ flight' \in [Refresher -> Flight]
        /\ \A g \in Refresher : flights[g] = NoFlight => flight'[g] = NoFlight
        /\ logout' \in LogoutStep /\ logout'.phase = logout.phase
        /\ logout = NoLogout => logout' = NoLogout
    BY <1>1, <1>4, <1>5, Renumbered
  <1>7. TypeOK'
    BY <1>1, <1>6 DEF TypeOK
  <1>8. Quiet' /\ StartupRestores' /\ OneLeader'
    BY <1>1, <1>5, <1>6, FlightsKept
  <1>9. LogoutOpened'
    BY <1>1, <1>6 DEF Shape, LogoutOpened
  <1>10. StoredTokenUsable'
    BY <1>6, UsableFresh
  <1> QED BY <1>7, <1>8, <1>9, <1>10 DEF IInv, Shape

LEMMA LoginKeeps ==
  ASSUME IInv, Login
  PROVE  IInv'
  <1> USE DEF Login
  <1>1. TypeOK /\ Shape /\ flight \in [Refresher -> Flight]
    BY DEF IInv, Shape, TypeOK
  <1>2. /\ token' \in [Token -> TokenState] /\ store' \in Token /\ token'[store'] = "valid"
        /\ flight' \in [Refresher -> Flight]
        /\ \A g \in Refresher : flight[g] = NoFlight => flight'[g] = NoFlight
        /\ logout' \in LogoutStep /\ logout'.phase = logout.phase
        /\ logout = NoLogout => logout' = NoLogout
    BY <1>1, Renumbered
  <1>3. TypeOK'
    BY <1>1, <1>2 DEF TypeOK
  <1>4. Quiet' /\ StartupRestores' /\ OneLeader'
    BY <1>1, <1>2, FlightsKept
  <1>5. LogoutOpened'
    BY <1>2 DEF LogoutOpened
  <1>6. StoredTokenUsable'
    BY <1>2, UsableFresh
  <1> QED BY <1>3, <1>4, <1>5, <1>6 DEF IInv, Shape

------------------------------------------------------------------------------
(* The steps that start a refresh *)

\* A refresh that starts leaves the stored token alone: nothing granted is lost.
LEMMA BegunUsable ==
  ASSUME IInv, NEW f \in Refresher, flight[f] = NoFlight, Begin(f),
         UNCHANGED <<token, store, logout>>
  PROVE  /\ flight' \in [Refresher -> Flight] /\ opened' \in BOOLEAN
         /\ \A g \in Refresher : g # f => flight'[g] = flight[g]
         /\ StoredTokenUsable' /\ LogoutOpened'
  <1>1. TypeOK
    BY DEF IInv, Shape
  <1>2. /\ opened' \in BOOLEAN /\ (opened => opened')
        /\ \E x \in Flight : x.phase # "granted" /\ flight' = [flight EXCEPT ![f] = x]
    BY <1>1, Begun
  <1>3. /\ flight' \in [Refresher -> Flight]
        /\ \A g \in Refresher : g # f => flight'[g] = flight[g]
    BY <1>1, <1>2, Replaced
  <1>4. \A g \in Refresher : flight[g].phase = "granted" => flight'[g] = flight[g]
    BY <1>3, FlightForms
  <1>5. StoredTokenUsable'
    BY <1>2, <1>4, UsableKept
  <1>6. LogoutOpened'
    BY <1>2 DEF IInv, Shape, LogoutOpened
  <1> QED BY <1>2, <1>3, <1>5, <1>6

LEMMA TimerRefreshKeeps ==
  ASSUME IInv, NEW f \in Refresher, TimerRefresh(f)
  PROVE  IInv'
  <1> USE DEF TimerRefresh
  <1>1. /\ flight' \in [Refresher -> Flight] /\ opened' \in BOOLEAN
        /\ \A g \in Refresher : g # f => flight'[g] = flight[g]
        /\ StoredTokenUsable' /\ LogoutOpened'
    BY BegunUsable
  <1>2. TypeOK'
    BY <1>1 DEF IInv, Shape, TypeOK
  <1>3. Quiet'
    BY DEF Quiet
  <1>4. f # Startup /\ f \notin Caller
    BY Names
  <1>5. StartupRestores'
    BY <1>1, <1>4, Names DEF IInv, Shape, StartupRestores
  <1>6. OneLeader'
    BY <1>1, <1>4, Names DEF IInv, Shape, OneLeader
  <1> QED BY <1>1, <1>2, <1>3, <1>5, <1>6 DEF IInv, Shape

\* A call goes on without touching the session.
LEMMA MoveKeeps ==
  ASSUME IInv, NEW c \in Caller, NEW at \in CallState, Move(c, at),
         restoring => at \in {"idle", "preparing"}
  PROVE  IInv'
  <1> USE DEF Move
  <1>1. TypeOK'
    BY DEF IInv, Shape, TypeOK
  <1>2. Quiet'
    BY DEF IInv, Shape, Quiet, TypeOK
  <1>3. StartupRestores' /\ OneLeader' /\ LogoutOpened'
    BY DEF IInv, Shape, StartupRestores, OneLeader, LogoutOpened
  <1>4. StoredTokenUsable'
    BY DEF IInv, StoredTokenUsable
  <1> QED BY <1>1, <1>2, <1>3, <1>4 DEF IInv, Shape

\* A call joins the single flight, or leads it when nobody does.
LEMMA JoinRefreshKeeps ==
  ASSUME IInv, NEW c \in Caller, NEW at \in CallState, JoinRefresh(c, at), ~restoring
  PROVE  IInv'
  <1> USE DEF JoinRefresh
  <1>1. c \in Refresher /\ c # Startup
    BY Names
  <1>2. call' \in [Caller -> CallState]
    BY DEF IInv, Shape, TypeOK
  <1>3. Quiet'
    BY DEF Quiet
  <1>4. CASE MayLead
    <2>1. completer = NoCaller /\ completer' = c /\ Begin(c)
      BY <1>4 DEF MayLead
    <2>2. \A d \in Caller : flight[d] = NoFlight
      BY <2>1, Names DEF IInv, Shape, OneLeader
    <2>3. /\ flight' \in [Refresher -> Flight] /\ opened' \in BOOLEAN
          /\ \A g \in Refresher : g # c => flight'[g] = flight[g]
          /\ StoredTokenUsable' /\ LogoutOpened'
      BY <1>1, <2>1, <2>2, BegunUsable
    <2>4. TypeOK'
      BY <1>2, <2>1, <2>3 DEF IInv, Shape, TypeOK
    <2>5. StartupRestores'
      BY <1>1, <2>3, Names DEF IInv, Shape, StartupRestores
    <2>6. OneLeader'
      BY <2>1, <2>2, <2>3, Names DEF OneLeader
    <2> QED BY <1>3, <2>3, <2>4, <2>5, <2>6 DEF IInv, Shape
  <1>5. CASE ~MayLead
    <2>1. UNCHANGED <<completer, flight, opened>>
      BY <1>5
    <2>2. TypeOK'
      BY <1>2, <2>1 DEF IInv, Shape, TypeOK
    <2>3. StartupRestores' /\ OneLeader' /\ LogoutOpened'
      BY <2>1 DEF IInv, Shape, StartupRestores, OneLeader, LogoutOpened
    <2>4. StoredTokenUsable'
      BY <2>1 DEF IInv, StoredTokenUsable
    <2> QED BY <1>3, <2>2, <2>3, <2>4 DEF IInv, Shape
  <1> QED BY <1>4, <1>5

LEMMA CallSteps ==
  ASSUME IInv, NEW c \in Caller, Start(c) \/ Ready(c) \/ Answer(c)
  PROVE  IInv'
  <1>1. {"idle", "preparing", "sent", "renewing"} \subseteq CallState
    BY DEF CallState
  <1>2. ASSUME Prepare(c)
        PROVE  IInv'
    <2>1. ~restoring
      BY <1>2 DEF Prepare
    <2>2. Move(c, "sent") \/ JoinRefresh(c, "renewing")
      BY <1>2 DEF Prepare
    <2> QED BY <1>1, <2>1, <2>2, MoveKeeps, JoinRefreshKeeps
  <1>3. ASSUME Move(c, "idle") \/ Move(c, "preparing")
        PROVE  IInv'
    BY <1>1, <1>3, MoveKeeps
  <1> QED BY <1>2, <1>3 DEF Start, Ready, Answer

LEMMA BootstrapKeeps ==
  ASSUME IInv, Bootstrap
  PROVE  IInv'
  <1> USE DEF Bootstrap
  <1>1. TypeOK /\ Startup \in Refresher /\ Startup \notin Caller
    BY Names DEF IInv, Shape
  <1>2. CASE Begin(Startup) /\ UNCHANGED <<access, restoring>>
    <2>1. /\ flight' \in [Refresher -> Flight] /\ opened' \in BOOLEAN
          /\ \A g \in Refresher : g # Startup => flight'[g] = flight[g]
          /\ StoredTokenUsable' /\ LogoutOpened'
      BY <1>1, <1>2, BegunUsable
    <2>2. TypeOK'
      BY <1>1, <1>2, <2>1 DEF TypeOK
    <2>3. Quiet'
      BY <1>2, <2>1 DEF IInv, Shape, Quiet
    <2>4. StartupRestores'
      BY <1>2 DEF StartupRestores
    <2>5. OneLeader'
      BY <2>1, Names DEF IInv, Shape, OneLeader
    <2> QED BY <2>1, <2>2, <2>3, <2>4, <2>5 DEF IInv, Shape
  <1>3. CASE restoring' = FALSE /\ UNCHANGED flight
    <2>1. opened' \in BOOLEAN /\ (opened => opened') /\ access' \in BOOLEAN
      BY <1>1, <1>3 DEF TypeOK
    <2>2. TypeOK'
      BY <1>1, <1>3, <2>1 DEF TypeOK
    <2>3. Quiet'
      BY <1>3 DEF Quiet
    <2>4. StartupRestores'
      BY <1>3 DEF StartupRestores
    <2>5. OneLeader'
      BY <1>3 DEF IInv, Shape, OneLeader
    <2>6. LogoutOpened'
      BY <2>1 DEF IInv, Shape, LogoutOpened
    <2>7. StoredTokenUsable'
      BY <1>3, <2>1, UsableKept
    <2> QED BY <2>2, <2>3, <2>4, <2>5, <2>6, <2>7 DEF IInv, Shape
  <1> QED BY <1>2, <1>3 DEF Restored

------------------------------------------------------------------------------
(* The steps that end a refresh, and the session *)

\* The expiry of the session clears the stored token or leaves it as it is; the
\* expiry is for the logout to bring about when one is under way.
LEMMA AuthFailureEnds ==
  ASSUME IInv, AuthFailure, UNCHANGED logout,
         \A g \in Refresher : flight[g].phase = "granted" => flight'[g] = flight[g]
  PROVE  /\ token' \in [Token -> TokenState] /\ store' \in Token \cup {NoToken}
         /\ opened' \in BOOLEAN /\ access' \in BOOLEAN
         /\ LogoutOpened' /\ StoredTokenUsable'
  <1>1. TypeOK
    BY DEF IInv, Shape
  <1>2. CASE logout.phase = "off"
    <2>1. SignOut /\ Settle(token)
      BY <1>2 DEF AuthFailure
    <2>2. store' \in {store, NoToken} /\ opened' = FALSE /\ access' = FALSE
      BY <2>1 DEF SignOut
    <2>3. store' \in Token \cup {NoToken}
      BY <1>1, <2>2 DEF TypeOK
    <2>4. /\ token' \in [Token -> TokenState]
          /\ store' \in Token => token'[store'] = token[store']
      <3>1. \A t \in Token : token[t] \in TokenState
        BY <1>1 DEF TypeOK
      <3> QED BY <2>1, <3>1, Settled
    <2>5. StoredTokenUsable'
      BY <1>2, <2>2, <2>3, <2>4, UsableKept
    <2>6. LogoutOpened'
      BY <1>2 DEF LogoutOpened
    <2> QED BY <2>2, <2>3, <2>4, <2>5, <2>6
  <1>3. CASE logout.phase # "off"
    <2>1. UNCHANGED <<token, store, opened, access>>
      BY <1>3 DEF AuthFailure
    <2>2. StoredTokenUsable'
      BY <2>1, UsableKept
    <2>3. LogoutOpened'
      BY <2>1 DEF IInv, Shape, LogoutOpened
    <2> QED BY <1>1, <2>1, <2>2, <2>3 DEF TypeOK
  <1> QED BY <1>2, <1>3

\* A flight that is over leaves its place.
LEMMA Landed ==
  ASSUME TypeOK, NEW f \in Refresher, Over(f), Land(f)
  PROVE  /\ flight' \in [Refresher -> Flight] /\ flight'[f] = NoFlight
         /\ \A g \in Refresher : g # f => flight'[g] = flight[g]
         /\ \A g \in Refresher : flight[g].phase = "granted" => flight'[g] = flight[g]
  <1>1. flight' = [flight EXCEPT ![f] = NoFlight]
    BY DEF Land
  <1>2. /\ flight' \in [Refresher -> Flight] /\ flight'[f] = NoFlight
        /\ \A g \in Refresher : g # f => flight'[g] = flight[g]
    BY <1>1, FlightForms, Replaced
  <1> QED BY <1>2 DEF Over

LEMMA CompleteKeeps ==
  ASSUME IInv, NEW f \in Refresher, Complete(f)
  PROVE  IInv'
  <1> USE DEF Complete
  <1>1. TypeOK
    BY DEF IInv, Shape
  <1>2. /\ flight' \in [Refresher -> Flight] /\ flight'[f] = NoFlight
        /\ \A g \in Refresher : g # f => flight'[g] = flight[g]
        /\ \A g \in Refresher : flight[g].phase = "granted" => flight'[g] = flight[g]
    BY <1>1, Landed
  <1>3. f \in Caller /\ f # Startup
    BY <1>1, Names, RefresherAssumption DEF TypeOK
  <1>4. ~restoring
    BY <1>3, Names DEF IInv, Shape, Quiet
  <1>5. call' \in [Caller -> CallState]
    <2>1. \A c \in Caller : call[c] \in CallState
      BY <1>1 DEF TypeOK
    <2>2. call' = [c \in Caller |-> call'[c]]
      BY DEF Released
    <2>3. \A c \in Caller : call'[c] \in {call[c], "idle", "sent", "resent"}
      BY DEF Released
    <2> QED BY <2>1, <2>2, <2>3 DEF CallState
  <1>6. /\ token' \in [Token -> TokenState] /\ store' \in Token \cup {NoToken}
        /\ opened' \in BOOLEAN /\ access' \in BOOLEAN
        /\ LogoutOpened' /\ StoredTokenUsable'
    <2>1. CASE Renewed(f)
      <3>1. UNCHANGED <<token, store, opened, access>>
        BY <2>1
      <3>2. StoredTokenUsable'
        BY <1>2, <3>1, UsableKept
      <3>3. LogoutOpened'
        BY <3>1 DEF IInv, Shape, LogoutOpened
      <3> QED BY <1>1, <3>1, <3>2, <3>3 DEF TypeOK
    <2>2. CASE ~Renewed(f)
      BY <1>2, <2>2, AuthFailureEnds
    <2> QED BY <2>1, <2>2
  <1>7. TypeOK'
    BY <1>1, <1>2, <1>5, <1>6 DEF TypeOK
  <1>8. Quiet'
    BY <1>4 DEF Quiet
  <1>9. StartupRestores'
    BY <1>2, <1>3, Names DEF IInv, Shape, StartupRestores
  <1>10. OneLeader'
    BY <1>2, Names DEF IInv, Shape, OneLeader
  <1> QED BY <1>6, <1>7, <1>8, <1>9, <1>10 DEF IInv, Shape

LEMMA UnauthorizedKeeps ==
  ASSUME IInv, NEW c \in Caller, Unauthorized(c)
  PROVE  IInv'
  <1>1. CASE call[c] = "sent" /\ JoinRefresh(c, "again")
    <2>1. ~restoring
      BY <1>1 DEF IInv, Shape, Quiet
    <2>2. "again" \in CallState
      BY DEF CallState
    <2> QED BY <1>1, <2>1, <2>2, JoinRefreshKeeps
  <1>2. CASE /\ call[c] = "resent" /\ call' = [call EXCEPT ![c] = "idle"]
             /\ UNCHANGED <<restoring, completer, flight, logout>>
             /\ AuthFailure
    <2>1. /\ token' \in [Token -> TokenState] /\ store' \in Token \cup {NoToken}
          /\ opened' \in BOOLEAN /\ access' \in BOOLEAN
          /\ LogoutOpened' /\ StoredTokenUsable'
      BY <1>2, AuthFailureEnds
    <2>2. call' \in [Caller -> CallState]
      BY <1>2 DEF IInv, Shape, TypeOK, CallState
    <2>3. TypeOK'
      BY <1>2, <2>1, <2>2 DEF IInv, Shape, TypeOK
    <2>4. Quiet'
      BY <1>2 DEF IInv, Shape, Quiet, TypeOK
    <2>5. StartupRestores' /\ OneLeader'
      BY <1>2 DEF IInv, Shape, StartupRestores, OneLeader
    <2> QED BY <2>1, <2>3, <2>4, <2>5 DEF IInv, Shape
  <1> QED BY <1>1, <1>2 DEF Unauthorized

LEMMA BootstrapDoneKeeps ==
  ASSUME IInv, BootstrapDone
  PROVE  IInv'
  <1> USE DEF BootstrapDone
  <1>1. TypeOK /\ Startup \in Refresher /\ Startup \notin Caller
    BY Names DEF IInv, Shape
  <1>2. /\ flight' \in [Refresher -> Flight] /\ flight'[Startup] = NoFlight
        /\ \A g \in Refresher : g # Startup => flight'[g] = flight[g]
        /\ \A g \in Refresher : flight[g].phase = "granted" => flight'[g] = flight[g]
    BY <1>1, Landed
  <1>3. TypeOK'
    BY <1>1, <1>2 DEF TypeOK, Restored
  <1>4. Quiet'
    BY DEF Quiet, Restored
  <1>5. StartupRestores'
    BY <1>2 DEF StartupRestores
  <1>6. OneLeader'
    BY <1>2, Names DEF IInv, Shape, OneLeader
  <1>7. LogoutOpened'
    BY DEF IInv, Shape, LogoutOpened
  <1>8. StoredTokenUsable'
    BY <1>2, UsableKept
  <1> QED BY <1>3, <1>4, <1>5, <1>6, <1>7, <1>8 DEF IInv, Shape

LEMMA LogoutSteps ==
  ASSUME IInv, StartLogout \/ Logout
  PROVE  IInv'
  <1>1. TypeOK /\ Shape /\ store \in Token \cup {NoToken}
    BY DEF IInv, Shape, TypeOK
  <1>2. UNCHANGED <<restoring, completer, call, flight>>
    BY DEF StartLogout, Logout, LogoutPosts, LogoutMoves, LogoutAnswered, LogoutClears
  <1>3. ~restoring
    <2>1. logout.phase = "off" => NoLogout.phase = "off"
      BY DEF NoLogout
    <2>2. ~restoring \/ logout.phase # "off"
      BY DEF StartLogout, Logout, LogoutPosts, LogoutMoves, LogoutAnswered, LogoutClears
    <2> QED BY <2>2 DEF IInv, Shape, Quiet, NoLogout
  <1>4. Quiet' /\ StartupRestores' /\ OneLeader'
    BY <1>1, <1>2, <1>3 DEF Shape, Quiet, StartupRestores, OneLeader
  <1>5. \A t \in Token : token[t] \in TokenState
    BY <1>1 DEF TypeOK
  <1>6. ASSUME /\ token' \in [Token -> TokenState] /\ store' \in {store, NoToken}
               /\ opened' \in BOOLEAN /\ access' \in BOOLEAN /\ logout' \in LogoutStep
               /\ LogoutOpened' /\ StoredTokenUsable'
        PROVE  IInv'
    BY <1>1, <1>2, <1>4, <1>6 DEF IInv, Shape, TypeOK
  <1>7. CASE StartLogout
    <2>1. UNCHANGED <<token, store, opened, access>> /\ logout.phase = "off"
      BY <1>7 DEF StartLogout
    <2>2. logout' \in LogoutStep /\ logout'.phase = "revoking"
      BY <1>7 DEF StartLogout, LogoutStep
    <2>3. StoredTokenUsable'
      BY <1>2, <2>1, UsableKept
    <2>4. LogoutOpened'
      BY <2>2 DEF LogoutOpened
    <2> QED BY <1>1, <1>6, <2>1, <2>2, <2>3, <2>4 DEF TypeOK
  <1>8. CASE LogoutPosts
    <2>1. UNCHANGED <<token, store, opened, access>> /\ logout.phase = "revoking"
      BY <1>8 DEF LogoutPosts, LogoutMoves
    <2>2. logout' \in LogoutStep /\ LogoutOpened'
      <3>1. CASE TokenToRevoke = NoToken
        <4>1. logout' = [phase |-> "answered", held |-> NoToken]
          BY <1>8, <3>1 DEF LogoutPosts, LogoutMoves
        <4> QED BY <4>1 DEF LogoutStep, LogoutOpened
      <3>2. CASE TokenToRevoke # NoToken
        <4>1. logout' = [phase |-> "posted", held |-> TokenToRevoke]
          BY <1>8, <3>2 DEF LogoutPosts, LogoutMoves
        <4>2. TokenToRevoke \in Token /\ opened
          BY <1>1, <3>2 DEF TokenToRevoke
        <4> QED BY <2>1, <4>1, <4>2 DEF LogoutStep, LogoutOpened
      <3> QED BY <3>1, <3>2
    <2>3. StoredTokenUsable'
      BY <1>2, <2>1, UsableKept
    <2> QED BY <1>1, <1>6, <2>1, <2>2, <2>3 DEF TypeOK
  <1>9. CASE LogoutAnswered
    <2> DEFINE held == logout.held
               known == [token EXCEPT ![held] = "revoked"]
    <2>1. /\ UNCHANGED <<store, opened, access>> /\ logout.phase = "posted"
          /\ logout' = [phase |-> "answered", held |-> NoToken]
      BY <1>9 DEF LogoutAnswered
    <2>2. logout' \in LogoutStep /\ logout'.phase = "answered"
      BY <2>1 DEF LogoutStep
    <2>3. LogoutOpened'
      BY <2>2 DEF LogoutOpened
    <2>4. held \in Token /\ opened
      BY <1>1, <2>1, LogoutFields DEF TypeOK, Shape, LogoutOpened
    <2>5. CASE Settle(token)
      <3>1. /\ token' \in [Token -> TokenState]
            /\ store' \in Token => token'[store'] = token[store']
        BY <1>5, <2>5, Settled
      <3>2. StoredTokenUsable'
        BY <1>1, <1>2, <2>1, <3>1, UsableKept
      <3> QED BY <1>1, <1>6, <2>1, <2>2, <2>3, <3>1, <3>2 DEF TypeOK
    <2>6. CASE Settle(known)
      <3>1. /\ \A t \in Token : known[t] \in TokenState
            /\ \A t \in Token : t # held => known[t] = token[t]
            /\ known[held] = "revoked"
        <4>1. "revoked" \in TokenState
          BY DEF TokenState
        <4> QED BY <1>1, <1>5, <2>4, <4>1 DEF TypeOK
      <3> HIDE DEF known
      <3>2. /\ token' \in [Token -> TokenState]
            /\ store' \in Token => token'[store'] = known[store']
        BY <2>6, <3>1, Settled
      <3>3. StoredTokenUsable'
        <4>1. CASE store = held
          <5>1. token'[store'] = "revoked"
            BY <2>1, <2>4, <3>1, <3>2, <4>1
          <5> QED BY <2>1, <2>2, <2>4, <5>1 DEF StoredTokenUsable
        <4>2. CASE store # held
          <5>1. store' # NoToken => token'[store'] = token[store']
            BY <1>1, <2>1, <3>1, <3>2, <4>2
          <5> QED BY <1>2, <2>1, <5>1, UsableKept
        <4> QED BY <4>1, <4>2
      <3> QED BY <1>1, <1>6, <2>1, <2>2, <2>3, <3>2, <3>3 DEF TypeOK
    <2> QED BY <1>9, <2>5, <2>6 DEF LogoutAnswered
  <1>10. CASE LogoutClears
    <2>1. /\ store' = (IF opened THEN NoToken ELSE store)
          /\ opened' = FALSE /\ access' = FALSE /\ logout' = NoLogout /\ Settle(token)
      BY <1>10 DEF LogoutClears, SignOut
    <2>2. logout' \in LogoutStep
      BY <2>1 DEF LogoutStep
    <2>3. LogoutOpened'
      BY <2>1 DEF LogoutOpened, NoLogout
    <2>4. /\ token' \in [Token -> TokenState]
          /\ store' \in Token => token'[store'] = token[store']
      BY <1>5, <2>1, Settled
    <2>5. StoredTokenUsable'
      BY <1>1, <1>2, <2>1, <2>4, UsableKept
    <2> QED BY <1>6, <2>1, <2>2, <2>3, <2>4, <2>5
  <1> QED BY <1>7, <1>8, <1>9, <1>10 DEF Logout

\* A reload forgets what was under way, and a token it may have used up is gone.
LEMMA ReloadKeeps ==
  ASSUME IInv, Reload
  PROVE  IInv'
  <1> USE DEF Reload
  <1>1. TypeOK
    BY DEF IInv, Shape
  <1>2. PICK served :
          Settle([t \in Token |-> IF t \in served \/ token[t] # "valid" THEN "gone"
                                  ELSE "valid"])
    OBVIOUS
  <1> DEFINE known == [t \in Token |-> IF t \in served \/ token[t] # "valid" THEN "gone"
                                       ELSE "valid"]
  <1>3. \A t \in Token : known[t] \in {"gone", "valid"}
    OBVIOUS
  <1>4. Settle(known)
    BY <1>2
  <1> HIDE DEF known
  <1>5. /\ token' \in [Token -> TokenState]
        /\ store' \in Token => token'[store'] = known[store']
    BY <1>3, <1>4, Settled DEF TokenState
  <1>6. StoredTokenUsable'
    <2>1. store' \in Token \cup {NoToken}
      BY <1>1 DEF TypeOK
    <2>2. store' \in Token => token'[store'] \in {"gone", "valid"}
      BY <1>3, <1>5
    <2> QED BY <2>1, <2>2 DEF StoredTokenUsable
  <1>7. \A f \in Refresher : flight'[f] = NoFlight
    OBVIOUS
  <1>8. TypeOK'
    BY <1>1, <1>5, FlightForms DEF TypeOK, CallState, LogoutStep
  <1>9. Quiet'
    BY <1>7 DEF Quiet
  <1>10. StartupRestores' /\ OneLeader'
    BY <1>7, Names DEF StartupRestores, OneLeader
  <1>11. LogoutOpened'
    BY DEF LogoutOpened, NoLogout
  <1> QED BY <1>6, <1>8, <1>9, <1>10, <1>11 DEF IInv, Shape

------------------------------------------------------------------------------
(* The invariant *)

LEMMA InitOk == Init => IInv
  <1> SUFFICES ASSUME Init PROVE IInv
    OBVIOUS
  <1> USE DEF Init
  <1>1. 1 \in Token /\ NoToken \notin Token
    <2>1. MaxToken \in Nat /\ MaxToken >= 1
      <3>1. Cardinality(Timer) \in Nat
        BY EnoughTokens, FS_CardinalityType
      <3> QED BY <3>1, EnoughTokens, TokenAssumption
    <2> QED BY <2>1 DEF Token, NoToken
  <1>2. PICK stored \in BOOLEAN :
          /\ token = [t \in Token |-> IF stored /\ t = 1 THEN "valid" ELSE "free"]
          /\ store = IF stored THEN 1 ELSE NoToken
    OBVIOUS
  <1>3. token \in [Token -> TokenState] /\ store \in Token \cup {NoToken}
    BY <1>1, <1>2 DEF TokenState
  <1>4. TypeOK
    BY <1>3, FlightForms DEF TypeOK, CallState, LogoutStep
  <1>5. Quiet /\ StartupRestores /\ OneLeader
    BY Names DEF Quiet, StartupRestores, OneLeader
  <1>6. LogoutOpened
    BY DEF LogoutOpened, NoLogout
  <1>7. StoredTokenUsable
    BY <1>1, <1>2 DEF StoredTokenUsable
  <1> QED BY <1>4, <1>5, <1>6, <1>7 DEF IInv, Shape

LEMMA NextKeeps == IInv /\ [Next]_vars => IInv'
  <1> SUFFICES ASSUME IInv, [Next]_vars PROVE IInv'
    OBVIOUS
  <1>1. ASSUME NEW f \in Refresher, Refreshes(f) \/ TimerRefresh(f)
        PROVE  IInv'
    BY <1>1, AdmitKeeps, RotateKeeps, LoseKeeps, ApplyKeeps, CompleteKeeps, BootstrapKeeps,
       BootstrapDoneKeeps, TimerRefreshKeeps DEF Refreshes
  <1>2. ASSUME NEW c \in Caller, Start(c) \/ Calls(c)
        PROVE  IInv'
    BY <1>2, CallSteps, UnauthorizedKeeps DEF Calls
  <1>3. ASSUME Login \/ StartLogout \/ Logout \/ Reload
        PROVE  IInv'
    BY <1>3, LoginKeeps, LogoutSteps, ReloadKeeps
  <1>4. CASE UNCHANGED vars
    <2> USE <1>4 DEF vars
    <2>1. TypeOK'
      BY DEF IInv, Shape, TypeOK
    <2>2. Quiet' /\ StartupRestores' /\ OneLeader' /\ LogoutOpened'
      BY DEF IInv, Shape, Quiet, StartupRestores, OneLeader, LogoutOpened
    <2>3. StoredTokenUsable'
      BY DEF IInv, StoredTokenUsable
    <2> QED BY <2>1, <2>2, <2>3 DEF IInv, Shape
  <1> QED BY <1>1, <1>2, <1>3, <1>4 DEF Next

\* The invariant the two theorems below read off.
THEOREM SessionInvariant == Spec => []IInv
  BY InitOk, NextKeeps, PTL DEF Spec

\* Calls, refreshes, logouts and reloads, however many and in any order, keep the
\* session's state well typed; the numbers of the tokens never run out, because
\* few tokens are under way at once (AuthNotifier and the HTTP client's session).
THEOREM TypeOKAlways == Spec => []TypeOK
  <1>1. IInv => TypeOK
    BY DEF IInv, Shape
  <1> QED BY <1>1, SessionInvariant, PTL

\* The refresh token the client has stored is never one the server rotated or
\* revoked, except while the refresh that replaces it or the logout that clears it
\* has still to finish: refreshTokens, logout and the reload of the page, against
\* the server's rotation and blacklist, for any number of calls and timers.
THEOREM StoredTokenUsableAlways == Spec => []StoredTokenUsable
  <1>1. IInv => StoredTokenUsable
    BY DEF IInv
  <1> QED BY <1>1, SessionInvariant, PTL
==============================================================================
