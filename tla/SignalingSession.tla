-------------------------- MODULE SignalingSession --------------------------
(***************************************************************************)
(* The gateway's session with the signaling server: the supervisor thread  *)
(* that opens it, the Socket.IO library that keeps and reopens it, the     *)
(* callbacks it runs, and the stream_register messages by which the server *)
(* learns of the cameras.                                                  *)
(*                                                                         *)
(* Three threads meet here.  The supervisor connects, and only then stores *)
(* the client every emit goes through.  The library's thread runs the      *)
(* callbacks one after the other, and reopens a lost connection when none  *)
(* is running.  The runtime adds cameras.                                  *)
(*                                                                         *)
(* External: the network and the server, which acknowledges or rejects a   *)
(* registration and refuses the kinds of tokens it does not take; the      *)
(* library's reconnection, configured by max_reconnect_attempts and the    *)
(* builder's header.                                                       *)
(***************************************************************************)
EXTENDS Naturals

CONSTANTS
    Rooms,         \* room names of the camera streams
    JwtConfigs,    \* values of jwt_config to look at
    Refusals,      \* servers to look at, each by the tokens it refuses
    MaxAttempts    \* max_reconnect_attempts

ASSUME SessionConfigured ==
    /\ JwtConfigs \subseteq {"none", "self-signed", "pre-built"}
    /\ Refusals \subseteq SUBSET {"none", "wrong", "expired"}
    /\ MaxAttempts \in Nat \ {0}

VARIABLES
    supervisor,    \* "ready", "connecting", "connected", "alive", "waiting"
    link,          \* the library's connection: "down", "up", "dead" (gave up)
    attempts,      \* failed attempts of the library to reopen it
    jwtConfig,     \* SignalingSocketIOClient::jwt_config
    refuses,       \* the tokens the server refuses
    token,         \* "none", "valid", "expired" or "wrong" (not the server's secret):
                   \* the one of GATEWAY_JWT, or the one in the builder
    lapsed,        \* history: it expired during the attempt it was minted for
    authStatus,    \* SignalingSocketIOClient::auth_status
    client,        \* is AppState::socketio_signaling_client set
    stage,         \* how far the registration on this connection is, see Stages
    todo,          \* rooms register_existing_streams has still to emit
    cameras,       \* AppState::cameras
    adding,        \* rooms add_camera has inserted and not registered yet
    sent,          \* rooms registered on this connection, after sfu_register
    reachable,     \* environment: does the server take connections
    clientAtAck    \* history: was the client set when the last ack was handled

registry == <<cameras, adding>>
jwt == <<jwtConfig, refuses, token, lapsed>>
auth == <<jwt, authStatus>>
vars == <<supervisor, link, attempts, auth, client, stage, todo, registry, sent,
          reachable, clientAtAck>>

\* No connection; Connect event waiting; sfu_register sent; ack waiting; ack
\* handler running; ack handler done; registration rejected.
Stages == {"none", "connect", "registering", "ack", "handling", "served", "rejected"}

\* stream_register messages reach the server's registration of this gateway.
CanRegister == client /\ link = "up" /\ stage \notin {"none", "connect"}

\* The server takes the connection with the token in the builder.
Accepted == reachable /\ token \notin refuses

\* The tokens generate_token may come up with: a pre-built one stays the one it
\* is; a new one is signed with the secret the server shares, or another one, or
\* signing fails and the connection is tried without a token.
Minted ==
    CASE jwtConfig = "none"        -> {"none"}
      [] jwtConfig = "pre-built"   -> {token}
      [] jwtConfig = "self-signed" -> {"valid", "wrong", "none"}

-----------------------------------------------------------------------------

\* Restored cameras are in the registry before the signaling thread starts.
Init ==
    /\ supervisor = "ready"
    /\ link = "down"
    /\ attempts = 0
    /\ jwtConfig \in JwtConfigs
    /\ refuses \in Refusals
    /\ token \in IF jwtConfig = "pre-built" THEN {"valid", "expired", "wrong"} ELSE {"none"}
    /\ lapsed = FALSE
    /\ authStatus = IF jwtConfig = "none" THEN "Disabled" ELSE "Pending"
    /\ client = FALSE
    /\ stage = "none"
    /\ todo = {}
    /\ cameras \in SUBSET Rooms
    /\ adding = {}
    /\ sent = {}
    /\ reachable \in BOOLEAN
    /\ clientAtAck = FALSE

-----------------------------------------------------------------------------
(* The supervisor: connect_and_run in a loop.                              *)

\* Mutant: a token is minted once and kept.
Attempt_KeepsToken ==
    /\ supervisor = "ready"
    /\ supervisor' = "connecting"
    /\ authStatus' = IF authStatus = "Disabled" THEN "Disabled" ELSE "Pending"
    /\ token' \in IF token = "none" THEN Minted ELSE {token}
    /\ lapsed' = FALSE
    /\ UNCHANGED <<jwtConfig, refuses, link, attempts, client, stage, todo, registry, sent,
                   reachable, clientAtAck>>

\* The status is reset and the builder gets its token.
Attempt ==
    /\ supervisor = "ready"
    /\ supervisor' = "connecting"
    /\ authStatus' = IF authStatus = "Disabled" THEN "Disabled" ELSE "Pending"
    /\ token' \in Minted
    /\ lapsed' = FALSE
    /\ UNCHANGED <<jwtConfig, refuses, link, attempts, client, stage, todo, registry, sent,
                   reachable, clientAtAck>>

ConnectSucceeds ==
    /\ supervisor = "connecting"
    /\ Accepted
    /\ supervisor' = "connected"
    /\ link' = "up"
    /\ stage' = "connect"
    /\ UNCHANGED <<attempts, auth, client, todo, registry, sent, reachable, clientAtAck>>

\* connect() returns an error, and the supervisor sleeps before the next try.
ConnectFails ==
    /\ supervisor = "connecting"
    /\ ~Accepted
    /\ supervisor' = "waiting"
    /\ UNCHANGED <<link, attempts, auth, client, stage, todo, registry, sent, reachable,
                   clientAtAck>>

WakesUp ==
    /\ supervisor = "waiting"
    /\ supervisor' = "ready"
    /\ UNCHANGED <<link, attempts, auth, client, stage, todo, registry, sent, reachable,
                   clientAtAck>>

\* connect() has returned, with the library's thread running already.  After
\* this keep_connection_alive never returns.
StoreClient ==
    /\ supervisor = "connected"
    /\ supervisor' = "alive"
    /\ client' = TRUE
    /\ UNCHANGED <<link, attempts, auth, stage, todo, registry, sent, reachable, clientAtAck>>

-----------------------------------------------------------------------------
(* The callbacks.                                                          *)

\* Event::Connect sends sfu_register.
OnConnect ==
    /\ stage = "connect"
    /\ stage' = "registering"
    /\ UNCHANGED <<supervisor, link, attempts, auth, client, todo, registry, sent, reachable,
                   clientAtAck>>

\* The server answers it.
ServerAcks ==
    /\ stage = "registering"
    /\ stage' = "ack"
    /\ UNCHANGED <<supervisor, link, attempts, auth, client, todo, registry, sent, reachable,
                   clientAtAck>>

\* auth_error, or an Error event that reads like one.
OnAuthError ==
    /\ stage = "registering"
    /\ stage' = "rejected"
    /\ authStatus' = "Failed"
    /\ UNCHANGED <<supervisor, link, attempts, jwt, client, todo, registry, sent, reachable,
                   clientAtAck>>

\* sfu_register_ack: register_existing_streams takes the list of cameras.
OnAck ==
    /\ stage = "ack"
    /\ stage' = "handling"
    /\ authStatus' = IF authStatus = "Disabled" THEN "Disabled" ELSE "Verified"
    /\ todo' = cameras
    /\ clientAtAck' = client
    /\ UNCHANGED <<supervisor, link, attempts, jwt, client, registry, sent, reachable>>

\* It registers them one by one, each only if the client is set by then.
RegisterNext(room) ==
    /\ stage = "handling"
    /\ room \in todo
    /\ todo' = todo \ {room}
    /\ sent' = IF CanRegister THEN sent \cup {room} ELSE sent
    /\ UNCHANGED <<supervisor, link, attempts, auth, client, stage, registry, reachable,
                   clientAtAck>>

AckDone ==
    /\ stage = "handling"
    /\ todo = {}
    /\ stage' = IF link = "up" THEN "served" ELSE "none"
    /\ UNCHANGED <<supervisor, link, attempts, auth, client, todo, registry, sent, reachable,
                   clientAtAck>>

-----------------------------------------------------------------------------
(* The library and the network.                                            *)

\* What was registered on a connection ends with it.  A callback under way goes
\* on.
LinkLost ==
    /\ link = "up"
    /\ link' = "down"
    /\ attempts' = 0
    /\ stage' = IF stage = "handling" THEN "handling" ELSE "none"
    /\ sent' = {}
    /\ UNCHANGED <<supervisor, auth, client, todo, registry, reachable, clientAtAck>>

\* Mutant: only until connect() has returned.
Reopens_BeforeAlive == link = "down" /\ stage = "none" /\ supervisor = "connected"

\* The library reopens a lost connection with the builder's header, and so the
\* token, of the first one.
Reopens == link = "down" /\ stage = "none" /\ supervisor \in {"connected", "alive"}

LibraryReconnects ==
    /\ Reopens
    /\ Accepted
    /\ link' = "up"
    /\ stage' = "connect"
    /\ UNCHANGED <<supervisor, attempts, auth, client, todo, registry, sent, reachable,
                   clientAtAck>>

\* Mutant: the number of attempts is not compared with the maximum.
LibraryFails_Unlimited ==
    /\ Reopens
    /\ ~Accepted
    /\ attempts' = attempts + 1
    /\ UNCHANGED <<supervisor, link, auth, client, stage, todo, registry, sent, reachable,
                   clientAtAck>>

LibraryFails ==
    /\ Reopens
    /\ ~Accepted
    /\ attempts' = attempts + 1
    /\ link' = IF attempts' = MaxAttempts THEN "dead" ELSE "down"
    /\ UNCHANGED <<supervisor, auth, client, stage, todo, registry, sent, reachable,
                   clientAtAck>>

ReachabilityChanges ==
    /\ reachable' = ~reachable
    /\ UNCHANGED <<supervisor, link, attempts, auth, client, stage, todo, registry, sent,
                   clientAtAck>>

\* It may do so at any time, and a token that was not minted anew stays expired.
TokenExpires ==
    /\ token = "valid"
    /\ token' = "expired"
    /\ lapsed' = (supervisor = "connecting")
    /\ UNCHANGED <<supervisor, link, attempts, jwtConfig, refuses, authStatus, client, stage,
                   todo, registry, sent, reachable, clientAtAck>>

-----------------------------------------------------------------------------
(* The runtime.                                                            *)

\* add_camera, up to the insertion into the registry.
InsertCamera(room) ==
    /\ room \notin cameras
    /\ cameras' = cameras \cup {room}
    /\ adding' = adding \cup {room}
    /\ UNCHANGED <<supervisor, link, attempts, auth, client, stage, todo, sent, reachable,
                   clientAtAck>>

\* Mutant: it is left to the ack handler when that one is running.
RegisterAdded_LeftToAck(room) ==
    /\ room \in adding
    /\ adding' = adding \ {room}
    /\ sent' = IF CanRegister /\ stage # "handling" THEN sent \cup {room} ELSE sent
    /\ UNCHANGED <<supervisor, link, attempts, auth, client, stage, todo, cameras, reachable,
                   clientAtAck>>

\* add_camera goes on and registers the stream; a failed emit is logged.
RegisterAdded(room) ==
    /\ room \in adding
    /\ adding' = adding \ {room}
    /\ sent' = IF CanRegister THEN sent \cup {room} ELSE sent
    /\ UNCHANGED <<supervisor, link, attempts, auth, client, stage, todo, cameras, reachable,
                   clientAtAck>>

-----------------------------------------------------------------------------

Supervisor == Attempt \/ ConnectSucceeds \/ ConnectFails \/ WakesUp \/ StoreClient

Callback ==
    OnConnect \/ OnAuthError \/ OnAck \/ AckDone \/ \E room \in Rooms : RegisterNext(room)

Library == LibraryReconnects \/ LibraryFails

Next ==
    \/ Supervisor
    \/ Callback
    \/ Library
    \/ ServerAcks
    \/ LinkLost
    \/ ReachabilityChanges
    \/ TokenExpires
    \/ \E room \in Rooms : InsertCamera(room) \/ RegisterAdded(room)

\* Every thread runs on, and the library keeps trying while it may.  Neither
\* the server nor the network is trusted to do anything.
Fairness == WF_vars(Supervisor) /\ WF_vars(Callback) /\ WF_vars(Library)

Spec == Init /\ [][Next]_vars /\ Fairness

-----------------------------------------------------------------------------
(* Properties.                                                             *)

\* Every variable keeps its type: the attempts of the library stay within its
\* limit.
TypeOK ==
    /\ supervisor \in {"ready", "connecting", "connected", "alive", "waiting"}
    /\ link \in {"down", "up", "dead"}
    /\ attempts \in 0..MaxAttempts
    /\ jwtConfig \in JwtConfigs
    /\ refuses \in Refusals
    /\ token \in {"none", "valid", "wrong", "expired"}
    /\ lapsed \in BOOLEAN
    /\ authStatus \in {"Disabled", "Pending", "Verified", "Failed"}
    /\ client \in BOOLEAN
    /\ stage \in Stages
    /\ todo \subseteq Rooms
    /\ cameras \subseteq Rooms
    /\ adding \subseteq Rooms
    /\ sent \subseteq Rooms
    /\ reachable \in BOOLEAN
    /\ clientAtAck \in BOOLEAN

\* No camera falls between add_camera, which inserts and then registers, and the
\* ack handler, which registers the list it took: once an ack was handled with
\* the client set, every camera that add_camera is done with is registered on
\* the connection, whatever connections were lost in between.
NoStreamForgotten ==
    stage = "served" /\ clientAtAck => cameras \ adding \subseteq sent

\* An attempt of the supervisor is refused for its token although it is the best
\* one the gateway could have: none for want of a config or of a signature, one
\* with a secret the server does not share, the one of GATEWAY_JWT when that has
\* expired, or a new one that expired on the way.
RefusedAttempt ==
    /\ supervisor = "connecting"
    /\ token \in refuses
    /\ token = "expired" => jwtConfig = "pre-built" \/ lapsed

\* If the server takes connections from some time on, the supervisor gets its
\* first one, unless it is refused again and again for a token it cannot better:
\* whatever expired before an attempt does not count for a gateway that signs.
FirstConnectionMade == <>[]reachable => <>client \/ []<>RefusedAttempt

\* If the server takes connections from some time on, the gateway does not stay
\* offline, except in two ways: the supervisor is refused as above, or the
\* library has used up its attempts, on a server that was away or on a token that
\* the server refuses, and the supervisor, inside keep_connection_alive, never
\* learns of it.
OfflineOnlyGivenUp ==
    <>[]reachable =>
        \/ []<>(link = "up")
        \/ <>[](link = "dead" /\ supervisor = "alive")
        \/ []<>RefusedAttempt

=============================================================================
