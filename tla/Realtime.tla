------------------------------ MODULE Realtime ------------------------------
(***************************************************************************)
(* The WebSocket server of packages/realtime/src/plugin.ts: the handshake, *)
(* the registration of a client, the heartbeat that verifies the sessions, *)
(* and destroy.  Who authenticates is fixed when the plugin is made:       *)
(*   "sessions"   an auth service of the kernel that can verify a session; *)
(*   "validator"  the option auth.validator, which no heartbeat asks again;*)
(*   "plugin"     the service of packages/auth: its verify answers with    *)
(*                the user id inside `session', where the handshake does   *)
(*                not look, and it has no verifySession;                   *)
(*   "off"        auth.required = false: no handshake and no heartbeat.    *)
(*                                                                         *)
(* The handshake awaits the validator or the service before it registers   *)
(* the client and listens to its close event; the heartbeat awaits the     *)
(* service for each client in turn, and the next heartbeat does not wait   *)
(* for it.  A client is one connection, and one user's session.            *)
(***************************************************************************)
EXTENDS Integers, Sequences, SequencesExt, FiniteSets

CONSTANTS
    Clients,       \* connections that clients may open
    Auths,         \* who may authenticate the clients of a server
    MaxHeartbeats  \* bound: heartbeats under way at once

ASSUME RealtimeAssumption ==
    /\ MaxHeartbeats \in Nat
    /\ Auths \subseteq {"sessions", "validator", "plugin", "off"}

VARIABLES
    auth,         \* who authenticates: set when the plugin is made
    wss,          \* "none", "listening" or "closed" after destroy
    ready,        \* client -> "none", "open", "closing" or "closed" (readyState)
    handshake,    \* client -> the connection handler: "none", "awaits", "done"
    listening,    \* clients whose message and close listeners are attached
    clientStates, \* the clients of the Map clientStates, in its order
    session,      \* client -> its session is valid at the auth service
    heartbeats,   \* heartbeat runs: the clients they have passed, and the one
                  \* they await, if any
    interval,     \* heartbeatInterval is set
    early         \* history: clients whose socket closed during the handshake

realtimeVars == <<auth, wss, ready, handshake, listening, clientStates,
                  session, heartbeats, interval, early>>

connection == <<ready, handshake, listening, early>>
server == <<auth, wss, interval, heartbeats, session>>

NoClient == "none"
Has(c) == c \in ToSet(clientStates)
Without(c) == RemoveFirst(clientStates, c)

-----------------------------------------------------------------------------
(* Connections *)

ServerStart ==
    /\ wss = "none"
    /\ wss' = "listening"
    /\ interval' = (auth # "off")
    /\ UNCHANGED <<auth, connection, clientStates, heartbeats, session>>

\* Without authentication a connection is registered at once.
ConnectOpen(c) ==
    /\ wss = "listening" /\ ready[c] = "none" /\ auth = "off"
    /\ ready' = [ready EXCEPT ![c] = "open"]
    /\ handshake' = [handshake EXCEPT ![c] = "done"]
    /\ clientStates' = Append(clientStates, c)
    /\ listening' = listening \union {c}
    /\ UNCHANGED <<early, server>>

\* A connection with a token: the handler awaits the validator or verify.
Connect(c) ==
    /\ wss = "listening" /\ ready[c] = "none" /\ auth # "off"
    /\ ready' = [ready EXCEPT ![c] = "open"]
    /\ handshake' = [handshake EXCEPT ![c] = "awaits"]
    /\ UNCHANGED <<listening, early, clientStates, server>>

\* A connection without a token is closed.
ConnectNoToken(c) ==
    /\ wss = "listening" /\ ready[c] = "none" /\ auth # "off"
    /\ ready' = [ready EXCEPT ![c] = "closing"]
    /\ handshake' = [handshake EXCEPT ![c] = "done"]
    /\ UNCHANGED <<listening, early, clientStates, server>>

\* The answer has a user id: the client is registered and its listeners
\* attached, whatever became of the socket.
Authenticated(c) ==
    /\ handshake[c] = "awaits" /\ auth # "plugin"
    /\ handshake' = [handshake EXCEPT ![c] = "done"]
    /\ clientStates' = Append(clientStates, c)
    /\ listening' = listening \union {c}
    /\ UNCHANGED <<ready, early, server>>

\* ws.close of the server: the closing handshake starts.
Closed(c) == IF ready[c] = "open" THEN "closing" ELSE ready[c]

\* The answer has no user id, or the call threw.
Rejected(c) ==
    /\ handshake[c] = "awaits"
    /\ handshake' = [handshake EXCEPT ![c] = "done"]
    /\ ready' = [ready EXCEPT ![c] = Closed(c)]
    /\ UNCHANGED <<listening, early, clientStates, server>>

\* Mutant: the close listener does not delete the client.
SocketClosesKept(c) ==
    /\ ready[c] \in {"open", "closing"}
    /\ ready' = [ready EXCEPT ![c] = "closed"]
    /\ early' = IF handshake[c] = "awaits" THEN early \union {c} ELSE early
    /\ UNCHANGED <<handshake, listening, clientStates, server>>

\* The close event: the client went away, or answered the server's close.
SocketCloses(c) ==
    /\ ready[c] \in {"open", "closing"}
    /\ ready' = [ready EXCEPT ![c] = "closed"]
    /\ clientStates' = IF c \in listening THEN Without(c) ELSE clientStates
    /\ early' = IF handshake[c] = "awaits" THEN early \union {c} ELSE early
    /\ UNCHANGED <<handshake, listening, server>>

-----------------------------------------------------------------------------
(* Sessions and the heartbeat *)

\* External: the session ends at the auth service.
SessionExpires(c) ==
    /\ session[c]
    /\ session' = [session EXCEPT ![c] = FALSE]
    /\ UNCHANGED <<auth, connection, clientStates, wss, interval, heartbeats>>

\* The clients a run of the heartbeat has yet to visit, in the Map's order;
\* those whose socket is not open are passed over.  Under a validator each
\* client is skipped, as it is when the service has no verifySession.
ToVisit(h) ==
    SelectSeq(clientStates, LAMBDA c : c \notin h.passed /\ ready[c] = "open"
                                                        /\ auth = "sessions")

\* The run goes on to its next client, or ends.
GoOn(i) ==
    LET h == heartbeats[i]
        todo == ToVisit(h)
    IN  /\ h.awaits = NoClient
        /\ heartbeats' = IF todo = <<>> THEN RemoveAt(heartbeats, i)
                         ELSE [heartbeats EXCEPT ![i] = [passed |-> h.passed \union {Head(todo)},
                                                         awaits |-> Head(todo)]]
        /\ UNCHANGED <<auth, connection, clientStates, wss, interval, session>>

HeartbeatFires ==
    /\ interval
    /\ Len(heartbeats) < MaxHeartbeats
    /\ heartbeats' = Append(heartbeats, [passed |-> {}, awaits |-> NoClient])
    /\ UNCHANGED <<auth, connection, clientStates, wss, interval, session>>

\* Mutant: a client without a session is forgotten, its socket stays open.
SessionVerifiedOpen(i) ==
    LET c == heartbeats[i].awaits
    IN  /\ c # NoClient
        /\ heartbeats' = [heartbeats EXCEPT ![i].awaits = NoClient]
        /\ clientStates' = IF session[c] THEN clientStates ELSE Without(c)
        /\ UNCHANGED <<connection, auth, wss, interval, session>>

\* verifySession answers. A client without a session is closed and forgotten.
SessionVerified(i) ==
    LET c == heartbeats[i].awaits
    IN  /\ c # NoClient
        /\ heartbeats' = [heartbeats EXCEPT ![i].awaits = NoClient]
        /\ IF session[c]
           THEN UNCHANGED <<ready, clientStates>>
           ELSE /\ ready' = [ready EXCEPT ![c] = Closed(c)]
                /\ clientStates' = Without(c)
        /\ UNCHANGED <<handshake, listening, early, auth, wss, interval, session>>

\* verifySession throws: the connection is kept.
VerifyFails(i) ==
    /\ heartbeats[i].awaits # NoClient
    /\ heartbeats' = [heartbeats EXCEPT ![i].awaits = NoClient]
    /\ UNCHANGED <<auth, connection, clientStates, wss, interval, session>>

\* destroy: the interval is cleared and every socket closed; a run of the
\* heartbeat and a handshake that await go on.
ServerDestroy ==
    /\ wss = "listening"
    /\ wss' = "closed"
    /\ interval' = FALSE
    /\ ready' = [c \in Clients |-> Closed(c)]
    /\ UNCHANGED <<auth, handshake, listening, early, clientStates, heartbeats, session>>

-----------------------------------------------------------------------------
RealtimeInit ==
    /\ auth \in Auths
    /\ wss = "none" /\ interval = FALSE
    /\ ready = [c \in Clients |-> "none"]
    /\ handshake = [c \in Clients |-> "none"]
    /\ listening = {} /\ clientStates = <<>> /\ early = {}
    /\ session = [c \in Clients |-> TRUE]
    /\ heartbeats = <<>>

ClientStep(c) ==
    \/ ConnectOpen(c) \/ Connect(c) \/ ConnectNoToken(c)
    \/ Authenticated(c) \/ Rejected(c)
    \/ SocketCloses(c) \/ SessionExpires(c)

RealtimeNext ==
    \/ ServerStart \/ ServerDestroy
    \/ \E c \in Clients : ClientStep(c)
    \/ HeartbeatFires
    \/ \E i \in DOMAIN heartbeats : GoOn(i) \/ SessionVerified(i) \/ VerifyFails(i)

RealtimeSpec == RealtimeInit /\ [][RealtimeNext]_realtimeVars

\* The interval fires, runs go on, and the auth service does not fail a client
\* forever: asked again and again it answers.
Verifies(c) == \E i \in DOMAIN heartbeats : heartbeats[i].awaits = c /\ SessionVerified(i)

RealtimeFairness ==
    /\ WF_realtimeVars(HeartbeatFires)
    /\ \A i \in 1..MaxHeartbeats : WF_realtimeVars(i \in DOMAIN heartbeats /\ GoOn(i))
    /\ \A i \in 1..MaxHeartbeats :
          WF_realtimeVars(i \in DOMAIN heartbeats /\ (SessionVerified(i) \/ VerifyFails(i)))
    /\ \A c \in Clients : SF_realtimeVars(Verifies(c))

RealtimeFairSpec == RealtimeSpec /\ RealtimeFairness

-----------------------------------------------------------------------------
\* clientStates holds no socket twice, and of the closed sockets only those
\* that closed while their handshake awaited the auth service: the listener
\* that deletes a client is attached after that await.
StatesFollowSockets ==
    /\ \A i, j \in DOMAIN clientStates : i # j => clientStates[i] # clientStates[j]
    /\ \A c \in ToSet(clientStates) : ready[c] = "closed" => c \in early
    /\ \A c \in Clients : ready[c] = "open" /\ c \in listening => Has(c)

\* Where the kernel's auth service can verify a session, a client whose
\* session has ended is not connected for good: a heartbeat closes its socket,
\* though heartbeats overlap, the Map changes under them and some of their
\* calls fail.  It says nothing of a server with a validator, whose heartbeat
\* skips every client, and nothing of one with the service of packages/auth,
\* which has no verifySession (and lets no client in).
ExpiredIsClosed ==
    \A c \in Clients :
        (auth = "sessions" /\ ready[c] = "open" /\ handshake[c] = "done" /\ ~session[c])
            ~> ready[c] # "open"

=============================================================================
