---------------------------- MODULE ClientSession ----------------------------
(***************************************************************************)
(* One signed-in client: HTTP calls that renew the session when the access  *)
(* token is old or refused and share one refresh between them               *)
(* (network/authenticated_client.dart), refreshes that bypass that sharing  *)
(* (the keep-alive and the realtime reconnection), login, logout, expiry    *)
(* and the restoration at start (auth/auth_provider.dart), against a server *)
(* that rotates refresh tokens (authentication_access_control).             *)
(*                                                                          *)
(* Dart runs one callback at a time: a step below runs from one await to    *)
(* the next.  Awaits of the local stores alone are not interleaved; answers *)
(* of the server are.  Requests and answers may be lost, and the page may   *)
(* be reloaded at any moment, which keeps the store and loses the rest.     *)
(***************************************************************************)
EXTENDS Naturals, FiniteSets

CONSTANTS Caller,     \* HTTP calls of the screens
          Timer,      \* refreshers outside the single flight
          Startup,    \* the refresh of _bootstrap
          NoCaller,
          MaxToken    \* refresh tokens told apart at once

Refresher == Caller \cup Timer \cup {Startup}
NoToken == 0
Token == 1 .. MaxToken

ASSUME RefresherAssumption == /\ Startup \notin Caller \cup Timer
                              /\ Caller \cap Timer = {}
                              /\ NoCaller \notin Refresher
ASSUME TokenAssumption == MaxToken \in Nat
\* Tokens under way are those of the timers, of one other refresh and of a logout.
ASSUME EnoughTokens == IsFiniteSet(Timer) /\ MaxToken >= Cardinality(Timer) + 3

VARIABLES token,      \* what the server knows of each refresh token
          store,      \* the refresh token in the browser's or phone's store
          opened,     \* AuthNotifier._sessionStorage is set
          access,     \* AuthState.token is set
          restoring,  \* AuthState.isRestoring
          completer,  \* the call that holds _refreshCompleter
          call,       \* where a call is
          flight,     \* refreshTokens() under way
          logout      \* logout() under way; _isLoggingOut when not "off"
vars == <<token, store, opened, access, restoring, completer, call, flight, logout>>

\* The stored token is out of use because it was rotated, revoked by a logout, or
\* gone: used up by a request whose answer never reached the client.  Any other
\* token is free, valid or gone.
TokenState == {"free", "valid", "rotated", "revoked", "gone"}
CallState == {"idle", "preparing", "renewing", "sent", "again", "resent"}
NoFlight == [phase |-> "idle", held |-> NoToken]
Flight == {NoFlight} \cup [phase : {"posted", "admitted", "granted"}, held : Token]
            \cup [phase : {"profile", "failed"}, held : {NoToken}]
NoLogout == [phase |-> "off", held |-> NoToken]
LogoutStep == {NoLogout} \cup [phase : {"revoking", "answered"}, held : {NoToken}]
                \cup [phase : {"posted"}, held : Token]

TypeOK == /\ token \in [Token -> TokenState]
          /\ store \in Token \cup {NoToken}
          /\ opened \in BOOLEAN /\ access \in BOOLEAN /\ restoring \in BOOLEAN
          /\ completer \in Caller \cup {NoCaller}
          /\ call \in [Caller -> CallState]
          /\ flight \in [Refresher -> Flight]
          /\ logout \in LogoutStep

Init == /\ \E stored \in BOOLEAN :
             /\ token = [t \in Token |-> IF stored /\ t = 1 THEN "valid" ELSE "free"]
             /\ store = IF stored THEN 1 ELSE NoToken
        /\ opened = FALSE /\ access = FALSE /\ restoring = TRUE
        /\ completer = NoCaller
        /\ call = [c \in Caller |-> "idle"]
        /\ flight = [f \in Refresher |-> NoFlight]
        /\ logout = NoLogout

-----------------------------------------------------------------------------
(* Refresh tokens.  They are numbered by age, the newest first, and one that *)
(* nobody holds any more is forgotten: a finite set of numbers is enough for  *)
(* any number of rotations.                                                   *)

Held == ({logout.held} \cup {flight[f].held : f \in Refresher}) \ {NoToken}
Settle(known) == token' = [t \in Token |->
  CASE t # store' /\ t \notin Held'          -> "free"
    [] t = store' \/ known[t] = "valid"      -> known[t]
    [] OTHER                                 -> "gone"]

\* A new token reaches the client: every token somebody holds is one older.
Newest == 1
Aged(t) == IF t = NoToken THEN NoToken ELSE 1 + Cardinality({u \in Held : u <= t})
Known == [t \in Token |->
  CASE t = Newest                   -> "valid"
    [] \E u \in Held : Aged(u) = t -> token[CHOOSE u \in Held : Aged(u) = t]
    [] OTHER                        -> "free"]
Renumber(flights) ==
  /\ flight' = [f \in Refresher |-> [flights[f] EXCEPT !.held = Aged(@)]]
  /\ logout' = [logout EXCEPT !.held = Aged(@)]
  /\ Settle(Known)

\* AuthState and the store after _clearLocalAuth: the store is cleared through
\* _sessionStorage, so not at all when that is not set.
SignOut == /\ store' = IF opened THEN NoToken ELSE store
           /\ opened' = FALSE
           /\ access' = FALSE

-----------------------------------------------------------------------------
(* refreshTokens() *)

\* A timer does not look at what its refresh returns: it ends with the answer.
Return(f, phase) == IF f \in Timer THEN NoFlight ELSE [NoFlight EXCEPT !.phase = phase]

Begin(f) ==
  /\ flight' = [flight EXCEPT ![f] =
       IF store = NoToken THEN Return(f, "failed")
       ELSE [phase |-> "posted", held |-> store]]
  /\ opened' = (opened \/ store # NoToken)

\* CustomTokenRefreshSerializer.validate: the blacklist is read, and the token
\* put on it by a later statement.  The new token is numbered when the client
\* learns of it: nobody else can use it before.
Admit(f) ==
  /\ flight[f].phase = "posted"
  /\ flight' = [flight EXCEPT ![f] =
       IF token[@.held] = "valid" THEN [@ EXCEPT !.phase = "admitted"]
       ELSE Return(f, "failed")]
  /\ UNCHANGED <<store, opened, access, restoring, completer, call, logout>>
  /\ Settle(token)

Rotate(f) ==
  /\ flight[f].phase = "admitted"
  /\ flight' = [flight EXCEPT ![f].phase = "granted"]
  /\ UNCHANGED <<store, opened, access, restoring, completer, call, logout>>
  /\ Settle([token EXCEPT ![flight[f].held] = "rotated"])

\* The request or its answer is lost, the server fails before it looks, or the
\* token has expired, which refreshTokens does not tell apart.
Lose(f) ==
  /\ flight[f].phase \in {"posted", "granted"}
  /\ flight' = [flight EXCEPT ![f] = Return(f, "failed")]
  /\ UNCHANGED <<store, opened, access, restoring, completer, call, logout>>
  /\ Settle(IF flight[f].phase = "granted"
            THEN [token EXCEPT ![flight[f].held] = "gone"] ELSE token)

\* Mutant: the rotated token of the answer is not stored.
WriteTokensKept(f) == store' = Aged(flight[f].held)

\* The answer is written to the store the refresh started with, whatever
\* happened to the session meanwhile.
WriteTokens(f) == store' = Newest
Apply(f) ==
  /\ flight[f].phase = "granted"
  /\ WriteTokens(f)
  /\ access' = TRUE
  /\ UNCHANGED <<opened, restoring, completer, call>>
  /\ Renumber([flight EXCEPT ![f] = Return(f, "profile")])

\* The refresh returns, whether the profile then answers or not.
Over(f) == flight[f].phase \in {"profile", "failed"}
Land(f) == flight' = [flight EXCEPT ![f] = NoFlight]

\* _maybeRefresh and the reconnection timer.
TimerRefresh(f) ==
  /\ f \in Timer /\ flight[f] = NoFlight
  /\ ~restoring /\ access
  /\ Begin(f)
  /\ UNCHANGED <<token, store, access, restoring, completer, call, logout>>

-----------------------------------------------------------------------------
(* One HTTP call, _send *)

\* Join the refresh under way, or start it.
MayLead == completer = NoCaller
JoinRefresh(c, at) ==
  /\ call' = [call EXCEPT ![c] = at]
  /\ IF MayLead THEN completer' = c /\ Begin(c)
                ELSE UNCHANGED <<completer, flight, opened>>
  /\ UNCHANGED <<token, store, access, restoring, logout>>

Move(c, at) ==
  /\ call' = [call EXCEPT ![c] = at]
  /\ UNCHANGED <<token, store, opened, access, restoring, completer, flight, logout>>

\* _accessToken, once the session is restored: the access token still serves,
\* or it is missing or too old.
Prepare(c) == /\ ~restoring
              /\ \/ access /\ Move(c, "sent")
                 \/ JoinRefresh(c, "renewing")

Start(c) ==
  /\ call[c] = "idle"
  /\ \/ Prepare(c)
     \/ restoring /\ Move(c, "preparing")

\* _ensureReady: it polls, and gives up on a restoration that takes too long.
Ready(c) ==
  /\ call[c] = "preparing"
  /\ \/ Prepare(c)
     \/ restoring /\ Move(c, "idle")

\* _onAuthFailure: the session ends, unless a logout is ending it.
AuthFailure ==
  IF logout.phase = "off" THEN SignOut /\ Settle(token)
                          ELSE UNCHANGED <<token, store, opened, access>>

\* _refreshSingleFlight ends.  Whoever waited on it is told, success or not, and
\* goes on in the same turn of the event loop: with a new request, or not at all.
Waiting == {c \in Caller : call[c] \in {"renewing", "again"}}
Renewed(f) == flight[f].phase = "profile" /\ access
\* Mutant: only the call that started the refresh learns how it ended.
ReleasedLeader(f) == [call EXCEPT ![f] =
  IF ~Renewed(f) THEN "idle" ELSE IF @ = "renewing" THEN "sent" ELSE "resent"]

Released(f) == [c \in Caller |->
  CASE c \notin Waiting     -> call[c]
    [] ~Renewed(f)          -> "idle"
    [] call[c] = "renewing" -> "sent"
    [] OTHER                -> "resent"]
Complete(f) ==
  /\ completer = f /\ Over(f) /\ Land(f)
  /\ call' = Released(f)
  /\ completer' = NoCaller
  /\ UNCHANGED <<restoring, logout>>
  /\ IF Renewed(f) THEN UNCHANGED <<token, store, opened, access>> ELSE AuthFailure

\* An answer other than 401, an answer to a call that does not retry, or none.
Answer(c) == call[c] \in {"sent", "resent"} /\ Move(c, "idle")

Unauthorized(c) ==
  \/ call[c] = "sent" /\ JoinRefresh(c, "again")
  \/ /\ call[c] = "resent"
     /\ call' = [call EXCEPT ![c] = "idle"]
     /\ UNCHANGED <<restoring, completer, flight, logout>>
     /\ AuthFailure

-----------------------------------------------------------------------------
(* The session *)

Restored == restoring' = FALSE

\* _bootstrap: nothing to restore, a stored access token that still serves, or a
\* refresh.
Bootstrap ==
  /\ restoring /\ flight[Startup] = NoFlight
  /\ \/ /\ store = NoToken
        /\ Restored
        /\ UNCHANGED <<opened, access, flight>>
     \/ /\ store # NoToken
        /\ opened' = TRUE /\ access' = TRUE /\ Restored
        /\ UNCHANGED flight
     \/ /\ store # NoToken
        /\ Begin(Startup)
        /\ UNCHANGED <<access, restoring>>
  /\ UNCHANGED <<token, store, completer, call, logout>>

\* Mutant: a refused refresh leaves isRestoring set.
BootstrapDoneGranted ==
  /\ flight[Startup].phase = "profile" /\ Land(Startup)
  /\ Restored
  /\ UNCHANGED <<token, store, opened, access, completer, call, logout>>

BootstrapDone ==
  /\ Over(Startup) /\ Land(Startup)
  /\ Restored
  /\ UNCHANGED <<token, store, opened, access, completer, call, logout>>

\* login succeeded; the login screen shows while nobody is signed in.
Login ==
  /\ ~restoring /\ ~access /\ logout.phase = "off"
  /\ store' = Newest
  /\ opened' = TRUE /\ access' = TRUE
  /\ UNCHANGED <<restoring, completer, call>>
  /\ Renumber(flight)

StartLogout ==
  /\ ~restoring /\ access /\ logout.phase = "off"
  /\ logout' = [phase |-> "revoking", held |-> NoToken]
  /\ UNCHANGED <<token, store, opened, access, restoring, completer, call, flight>>

\* The media grant is revoked, or that fails or takes five seconds; then the
\* stored token is sent, when there is one.
TokenToRevoke == IF opened THEN store ELSE NoToken
LogoutMoves(phase) ==
  /\ logout.phase = "revoking"
  /\ logout' = [phase |-> phase, held |-> TokenToRevoke]
  /\ UNCHANGED <<token, store, opened, access, restoring, completer, call, flight>>
\* Mutants: without a token logout returns, _isLoggingOut still set; the request
\* is posted without a token.
LogoutPostsReturns == TokenToRevoke # NoToken /\ LogoutMoves("posted")
LogoutPostsBlind == LogoutMoves("posted")

LogoutPosts == LogoutMoves(IF TokenToRevoke = NoToken THEN "answered" ELSE "posted")

\* LogoutView blacklists the token, or the request is lost.
LogoutAnswered ==
  /\ logout.phase = "posted"
  /\ logout' = [phase |-> "answered", held |-> NoToken]
  /\ UNCHANGED <<store, opened, access, restoring, completer, call, flight>>
  /\ \/ token[logout.held] = "valid" /\ Settle([token EXCEPT ![logout.held] = "revoked"])
     \/ Settle(token)

LogoutClears ==
  /\ logout.phase = "answered"
  /\ SignOut
  /\ logout' = NoLogout
  /\ UNCHANGED <<restoring, completer, call, flight>>
  /\ Settle(token)

-----------------------------------------------------------------------------
(* The reload of the page *)

\* A request that was under way may still be served, and nobody will know.
Reload ==
  /\ opened' = FALSE /\ access' = FALSE /\ restoring' = TRUE
  /\ completer' = NoCaller
  /\ call' = [c \in Caller |-> "idle"]
  /\ flight' = [f \in Refresher |-> NoFlight]
  /\ logout' = NoLogout
  /\ UNCHANGED store
  /\ LET pending == {logout.held} \cup {flight[f].held : f \in
                      {g \in Refresher : flight[g].phase \in {"posted", "admitted"}}}
     IN \E served \in SUBSET pending :
          Settle([t \in Token |-> IF t \in served \/ token[t] # "valid" THEN "gone"
                                  ELSE "valid"])

-----------------------------------------------------------------------------
Refreshes(f) == \/ Admit(f) \/ Rotate(f) \/ Lose(f) \/ Apply(f)
                \/ Complete(f)
                \/ f = Startup /\ (Bootstrap \/ BootstrapDone)
Calls(c) == Ready(c) \/ Answer(c) \/ Unauthorized(c)
Logout == LogoutPosts \/ LogoutAnswered \/ LogoutClears

Next == \/ \E f \in Refresher : Refreshes(f) \/ TimerRefresh(f)
        \/ \E c \in Caller : Start(c) \/ Calls(c)
        \/ Login \/ StartLogout \/ Logout \/ Reload

\* Every request is answered or fails, and the event loop runs every callback
\* that is due.  Users and clocks owe nothing.
Fairness == /\ \A f \in Refresher : WF_vars(Refreshes(f))
            /\ \A c \in Caller : WF_vars(Calls(c))
            /\ WF_vars(Logout)

Spec == Init /\ [][Next]_vars /\ Fairness

-----------------------------------------------------------------------------
(* What must hold *)

\* Refreshes, a logout and reloads in any order never leave the client with a
\* stored refresh token that the server has put out of use: whoever used it up
\* is about to replace or clear it, unless an answer was lost on the way.
StoredTokenUsable ==
  store # NoToken =>
    /\ token[store] = "rotated" =>
         \E f \in Refresher : flight[f].phase = "granted" /\ flight[f].held = store
    /\ token[store] = "revoked" => logout.phase = "answered" /\ opened

\* Every call ends: no caller waits for ever on a refresh that was refused,
\* lost or overtaken by a logout, and none renews and retries without end.
CallsEnd == \A c \in Caller : call[c] # "idle" ~> call[c] = "idle"

\* The splash screen ends whatever the server answers, unless the user keeps
\* reloading the page.
RestorationEnds == (restoring ~> ~restoring) \/ []<><<Reload>>_vars

\* A logout ends although its two requests may fail and refreshes run on, so
\* that a later logout and the expiry of a session work again.
LogoutEnds == logout.phase # "off" ~> logout.phase = "off"
=============================================================================
