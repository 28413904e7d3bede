---------------------------- MODULE RealtimeSync ----------------------------
(***************************************************************************)
(* The client's websocket for grading flags                                 *)
(* (services/realtime/realtime_sync_service.dart).  Every change of the     *)
(* authentication state connects anew, and a lost connection of a student   *)
(* is retried by a timer; nothing keeps one attempt from overlapping        *)
(* another.  An attempt is suspended while it closes what it replaces and   *)
(* while its handshake runs, and goes on with whatever the fields hold by   *)
(* then.                                                                    *)
(*                                                                          *)
(* A socket that neither the field _channel, nor a listener, nor an attempt *)
(* knows any more is forgotten, open or not.                                *)
(***************************************************************************)
EXTENDS Naturals, FiniteSets

CONSTANTS Attempt,    \* bound: timer callbacks and attempts that overlap
          Socket,     \* bound: sockets told apart at once
          NoSocket,
          MaxChange   \* bound: changes of the authentication state

ASSUME SocketAssumption == NoSocket \notin Socket
ASSUME BoundAssumption == MaxChange \in Nat
\* The program may open any number of sockets: there is always one to choose.
ASSUME EnoughSockets == IsFiniteSet(Socket) => Cardinality(Socket) > MaxChange

VARIABLES role,         \* _activeRole
          link,         \* the notifier's state
          since,        \* _disconnectedSince is set
          timer,        \* _reconnectTimer is pending
          poll,         \* _fallbackPollTimer is set
          channel,      \* _channel
          subscription, \* the socket _subscription listens to
          socket,       \* state of each socket
          used,         \* sockets whose stream was listened to: it cannot be again
          live,         \* sockets with a listener that was not cancelled
          attempt,      \* where each _connectInternal() or timer callback is
          changes,      \* changes of the authentication state so far
          calm          \* from here on only the client itself acts
fields == <<role, link, since, timer, poll, channel, subscription>>
vars == <<fields, socket, used, live, attempt, changes, calm>>

Role == {"none", "student", "other"}
At(phase) == [phase |-> phase, socket |-> NoSocket]
AttemptState == [phase : {"idle", "waking", "closing"}, socket : {NoSocket}]
                  \cup [phase : {"handshake"}, socket : Socket]

TypeOK == /\ role \in Role
          /\ link \in {"disconnected", "connecting", "connected"}
          /\ since \in BOOLEAN /\ timer \in BOOLEAN /\ poll \in BOOLEAN
          /\ channel \in Socket \cup {NoSocket}
          /\ subscription \in Socket \cup {NoSocket}
          /\ socket \in [Socket -> {"none", "opening", "open", "closed"}]
          /\ live \subseteq used /\ used \subseteq Socket
          /\ attempt \in [Attempt -> AttemptState]
          /\ changes \in 0 .. MaxChange /\ calm \in BOOLEAN

Init == /\ role = "none" /\ link = "disconnected"
        /\ since = FALSE /\ timer = FALSE /\ poll = FALSE
        /\ channel = NoSocket /\ subscription = NoSocket
        /\ socket = [s \in Socket |-> "none"] /\ used = {} /\ live = {}
        /\ attempt = [a \in Attempt |-> At("idle")]
        /\ changes = 0 /\ calm = FALSE

-----------------------------------------------------------------------------
\* What the fields, the listeners and the attempts still know.
Known == {channel} \cup live \cup {attempt[a].socket : a \in Attempt}
Sockets(states, listened) ==
  /\ socket' = [s \in Socket |-> IF s \in Known' THEN states[s] ELSE "none"]
  /\ used' = listened \cap Known'
Closed(s) == [socket EXCEPT ![s] = "closed"]
ClosedChannel == IF channel = NoSocket THEN socket ELSE Closed(channel)

\* Mutant: a pending timer is cancelled, and taken as a reason to set no other.
ScheduledOnce == role = "student" /\ ~timer

\* _scheduleReconnect cancels the pending timer, and sets one for a student.
Scheduled == role = "student"
\* Mutant: the catch only polls.
FailedUnscheduled == /\ link' = "disconnected" /\ since' = TRUE
                     /\ timer' = FALSE
                     /\ poll' = (poll \/ role = "student")

\* The catch of _connectInternal: reconnect, and poll meanwhile.
Failed == /\ link' = "disconnected" /\ since' = TRUE
          /\ timer' = Scheduled
          /\ poll' = (poll \/ role = "student")

\* _connectInternal up to the await of the close: the current subscription is
\* cancelled and the current channel closed.
Connect(a) ==
  /\ attempt' = [attempt EXCEPT ![a] = At("closing")]
  /\ link' = "connecting" /\ timer' = FALSE
  /\ live' = live \ {subscription}
  /\ UNCHANGED <<since, poll, channel, subscription, calm>>
  /\ Sockets(ClosedChannel, used)

\* _disconnect: attempts that are suspended are not told.
Disconnect ==
  /\ link' = "disconnected" /\ since' = FALSE
  /\ timer' = FALSE /\ poll' = FALSE
  /\ live' = live \ {subscription}
  /\ channel' = NoSocket /\ subscription' = NoSocket
  /\ UNCHANGED <<attempt, calm>>
  /\ Sockets(ClosedChannel, used)

\* RealtimeSyncHost._sync after a change of the authentication state: signed in
\* or out, tokens rotated, profile read.
Sync(r) ==
  /\ ~calm /\ changes < MaxChange /\ changes' = changes + 1
  /\ role' = r
  /\ IF r = "none" THEN Disconnect
     ELSE \E a \in Attempt : attempt[a] = At("idle") /\ Connect(a)

NewSocket == CHOOSE s \in Socket : s \notin Known
\* The closed channel is done: connect the next one.
Open(a) ==
  /\ attempt[a] = At("closing")
  /\ channel' = NewSocket
  /\ attempt' = [attempt EXCEPT ![a] = [phase |-> "handshake", socket |-> NewSocket]]
  /\ UNCHANGED <<role, link, since, timer, poll, subscription, live, changes, calm>>
  /\ Sockets([socket EXCEPT ![NewSocket] = "opening"], used)

\* Mutant: a finished attempt keeps its socket.
OverKept(a) == attempt' = [attempt EXCEPT ![a].phase = "idle"]

Over(a) == attempt' = [attempt EXCEPT ![a] = At("idle")]

\* The handshake is done: listen to _channel, whichever socket that is by now.
\* There may be none, and a stream takes one listener only: both throw.
Listens == channel # NoSocket /\ channel \notin used
Accept(a) ==
  /\ attempt[a].phase = "handshake" /\ socket[attempt[a].socket] = "opening"
  /\ Over(a)
  /\ UNCHANGED <<role, channel, changes, calm>>
  /\ IF Listens
     THEN /\ link' = "connected" /\ since' = FALSE /\ poll' = FALSE
          /\ subscription' = channel /\ live' = live \cup {channel}
          /\ UNCHANGED timer
     ELSE Failed /\ UNCHANGED <<subscription, live>>
  /\ Sockets([socket EXCEPT ![attempt[a].socket] = "open"],
             IF Listens THEN used \cup {channel} ELSE used)

\* The handshake fails, or the client itself closed the socket meanwhile: the
\* field is cleared even when it holds another attempt's socket.
Reject(a) ==
  /\ attempt[a].phase = "handshake"
  /\ calm => socket[attempt[a].socket] = "closed"
  /\ Over(a) /\ Failed
  /\ channel' = NoSocket
  /\ UNCHANGED <<role, subscription, live, changes, calm>>
  /\ Sockets(Closed(attempt[a].socket), used)

\* The server closes a socket or the network loses it.
Drop(s) ==
  /\ ~calm /\ socket[s] = "open"
  /\ UNCHANGED <<fields, live, attempt, changes, calm>>
  /\ Sockets(Closed(s), used)

\* _handleDisconnect: onDone of a listened stream.
AlreadyDown == link = "disconnected" /\ since
Done(s) ==
  /\ s \in live /\ socket[s] = "closed"
  /\ live' = live \ {s}
  /\ UNCHANGED <<role, channel, subscription, attempt, changes, calm>>
  /\ IF AlreadyDown THEN UNCHANGED <<link, since, timer, poll>> ELSE Failed
  /\ Sockets(socket, used)

\* The timer's callback refreshes the tokens when they are old, then connects
\* unless the user has left.  The delay is at least a second: longer than a
\* handshake once the network is calm.
Fire(a) ==
  /\ timer /\ attempt[a] = At("idle")
  /\ calm => \A b \in Attempt : attempt[b] = At("idle")
  /\ timer' = FALSE
  /\ attempt' = [attempt EXCEPT ![a] = At("waking")]
  /\ UNCHANGED <<role, link, since, poll, channel, subscription, socket, used, live,
                 changes, calm>>

Wake(a) ==
  /\ attempt[a] = At("waking")
  /\ UNCHANGED <<role, changes>>
  /\ IF role # "none" THEN Connect(a)
     ELSE /\ Over(a)
          /\ UNCHANGED <<link, since, timer, poll, channel, subscription, socket,
                         used, live, calm>>

\* The authentication, the server and the network settle: no more changes, drops
\* or refusals, and handshakes quicker than the shortest delay of the timer.
Settle == /\ ~calm /\ calm' = TRUE
          /\ UNCHANGED <<fields, socket, used, live, attempt, changes>>

Proceeds(a) == Open(a) \/ Accept(a) \/ Reject(a) \/ Wake(a)
Next == \/ \E r \in Role : Sync(r)
        \/ \E a \in Attempt : Proceeds(a) \/ Fire(a)
        \/ \E s \in Socket : Drop(s) \/ Done(s)
        \/ Settle

\* Closes and handshakes come to an end, timers fire, callbacks run.
Fairness == /\ \A a \in Attempt : WF_vars(Proceeds(a))
            /\ WF_vars(\E a \in Attempt : Fire(a))
            /\ \A s \in Socket : WF_vars(Done(s))

Spec == Init /\ [][Next]_vars /\ Fairness

-----------------------------------------------------------------------------
(* What must hold *)

\* While a student's link is known to be down, a reconnection is pending or under
\* way and the dashboard is polled: no order of overlapping attempts, drops and
\* timers loses the retry.
StudentCovered ==
  role = "student" /\ AlreadyDown => poll /\ (timer \/ \E a \in Attempt : attempt[a] # At("idle"))

\* Once nothing disturbs it (Settle), the client of a student ends up, and stays, with an
\* open socket that it listens to, however many attempts got into each other's
\* way before.
Connected == /\ link = "connected" /\ channel = subscription
             /\ channel \in live /\ socket[channel] = "open"
StudentReconnects == calm ~> [](role = "student" => Connected)
=============================================================================
