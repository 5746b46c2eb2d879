----------------------- MODULE SignalingSession_proofs -----------------------
(***************************************************************************)
(* Proofs about SignalingSession, for any set of rooms, any configuration  *)
(* of tokens and server that refuses some of them, and any number of       *)
(* reconnection attempts.                                                  *)
(***************************************************************************)
EXTENDS SignalingSession, TLAPS

-----------------------------------------------------------------------------
(* Which connection a registration belongs to.                             *)

\* Without a connection there is no registration, except for an ack handler that
\* has not noticed yet; the supervisor connects only before the first one; the
\* client stays set, so the handler that started with it ends with it.
LinkInv ==
    /\ link # "up" => stage \in {"none", "handling"}
    /\ supervisor \in {"ready", "connecting", "waiting"} =>
          link = "down" /\ stage = "none"
    /\ stage \in {"handling", "served"} /\ clientAtAck => client

LEMMA LinkInit == Init => LinkInv
BY DEF Init, LinkInv

LEMMA LinkNext == LinkInv /\ [Next]_vars => LinkInv'
<1> SUFFICES ASSUME LinkInv, [Next]_vars PROVE LinkInv'
  OBVIOUS
<1> USE DEF LinkInv
<1>1. CASE Supervisor
  BY <1>1 DEF Supervisor, Attempt, ConnectSucceeds, ConnectFails, WakesUp, StoreClient
<1>2. CASE OnConnect \/ OnAuthError \/ OnAck \/ AckDone
  BY <1>2 DEF OnConnect, OnAuthError, OnAck, AckDone
<1>3. ASSUME NEW room \in Rooms,
             RegisterNext(room) \/ InsertCamera(room) \/ RegisterAdded(room)
      PROVE  LinkInv'
  BY <1>3 DEF RegisterNext, InsertCamera, RegisterAdded
<1>4. CASE Library \/ LinkLost
  BY <1>4 DEF Library, LibraryReconnects, LibraryFails, Reopens, LinkLost
<1>5. CASE ServerAcks \/ ReachabilityChanges \/ TokenExpires
  BY <1>5 DEF ServerAcks, ReachabilityChanges, TokenExpires
<1>6. CASE UNCHANGED vars
  BY <1>6 DEF vars, auth, registry
<1>7. QED
  BY <1>1, <1>2, <1>3, <1>4, <1>5, <1>6 DEF Next, Callback

-----------------------------------------------------------------------------
(* Registration.                                                           *)

\* While the ack handler runs on a live connection, a camera that add_camera is
\* done with is registered or still on the handler's list; afterwards it is
\* registered.
SentInv ==
    clientAtAck =>
        /\ stage = "served" => cameras \ adding \subseteq sent
        /\ stage = "handling" /\ link = "up" =>
              cameras \ adding \subseteq sent \cup todo

LEMMA SentNext ==
  ASSUME LinkInv, SentInv, [Next]_vars
  PROVE  SentInv'
<1> USE DEF LinkInv, SentInv
<1>1. CASE Supervisor
  BY <1>1 DEF Supervisor, Attempt, ConnectSucceeds, ConnectFails, WakesUp, StoreClient,
              registry
<1>2. CASE OnConnect \/ OnAuthError \/ ServerAcks
  BY <1>2 DEF OnConnect, OnAuthError, ServerAcks, registry
<1>3. CASE OnAck
  BY <1>3 DEF OnAck, registry
<1>4. CASE AckDone
  BY <1>4 DEF AckDone, registry
<1>5. ASSUME NEW room \in Rooms, RegisterNext(room) PROVE SentInv'
  BY <1>5 DEF RegisterNext, CanRegister, registry
<1>6. ASSUME NEW room \in Rooms, InsertCamera(room) PROVE SentInv'
  BY <1>6 DEF InsertCamera
<1>7. ASSUME NEW room \in Rooms, RegisterAdded(room) PROVE SentInv'
  BY <1>7 DEF RegisterAdded, CanRegister
<1>8. CASE Library \/ LinkLost
  BY <1>8 DEF Library, LibraryReconnects, LibraryFails, Reopens, LinkLost, registry
<1>9. CASE ReachabilityChanges \/ TokenExpires
  BY <1>9 DEF ReachabilityChanges, TokenExpires, registry
<1>10. CASE UNCHANGED vars
  BY <1>10 DEF vars, registry
<1>11. QED
  BY <1>1, <1>2, <1>3, <1>4, <1>5, <1>6, <1>7, <1>8, <1>9, <1>10 DEF Next, Callback

\* However add_camera, the ack handler, lost connections and the library's
\* reconnections interleave, no camera is left unregistered on a connection whose
\* ack was handled with the client set.
THEOREM NoneForgotten == Spec => []NoStreamForgotten
<1>1. Init => SentInv
  BY DEF Init, SentInv
<1>2. LinkInv /\ SentInv /\ [Next]_vars => SentInv'
  BY SentNext
<1>3. SentInv => NoStreamForgotten
  BY DEF SentInv, NoStreamForgotten
<1>4. QED
  BY <1>1, <1>2, <1>3, LinkInit, LinkNext, PTL DEF Spec

-----------------------------------------------------------------------------
(* Types.                                                                  *)

\* A library that still tries has attempts left.
AttemptsLeft == link = "down" => attempts < MaxAttempts

LEMMA TypeNext ==
  ASSUME TypeOK, AttemptsLeft, [Next]_vars
  PROVE  TypeOK' /\ AttemptsLeft'
<1> USE DEF TypeOK, AttemptsLeft
<1>1. CASE Supervisor
  <2>1. CASE Attempt
    <3>1. token' \in {"none", "valid", "wrong", "expired"}
      BY <2>1, SessionConfigured DEF Attempt, Minted
    <3>2. QED
      BY <2>1, <3>1 DEF Attempt, registry
  <2>2. CASE ConnectSucceeds
    BY <2>2 DEF ConnectSucceeds, Stages, registry, auth, jwt
  <2>3. CASE ConnectFails \/ WakesUp \/ StoreClient
    BY <2>3 DEF ConnectFails, WakesUp, StoreClient, registry, auth, jwt
  <2>4. QED
    BY <1>1, <2>1, <2>2, <2>3 DEF Supervisor
<1>2. CASE OnConnect \/ OnAuthError \/ ServerAcks
  BY <1>2 DEF OnConnect, OnAuthError, ServerAcks, Stages, registry, auth, jwt
<1>3. CASE OnAck \/ AckDone
  BY <1>3 DEF OnAck, AckDone, Stages, registry, auth, jwt
<1>4. ASSUME NEW room \in Rooms, RegisterNext(room)
      PROVE  TypeOK' /\ AttemptsLeft'
  BY <1>4 DEF RegisterNext, registry, auth, jwt
<1>5. ASSUME NEW room \in Rooms, InsertCamera(room) \/ RegisterAdded(room)
      PROVE  TypeOK' /\ AttemptsLeft'
  BY <1>5 DEF InsertCamera, RegisterAdded, auth, jwt
<1>6. CASE LinkLost
  BY <1>6, SessionConfigured DEF LinkLost, Stages, registry, auth, jwt
<1>7. CASE LibraryReconnects
  BY <1>7 DEF LibraryReconnects, Stages, registry, auth, jwt
<1>8. CASE LibraryFails
  <2>1. link = "down" /\ attempts < MaxAttempts /\ attempts' = attempts + 1
    BY <1>8 DEF LibraryFails, Reopens
  <2>2. attempts' \in 0..MaxAttempts
    BY <2>1, SessionConfigured
  <2>3. link' = "down" => attempts' < MaxAttempts
    BY <1>8, <2>2, SessionConfigured DEF LibraryFails
  <2>4. link' \in {"down", "dead"}
    BY <1>8 DEF LibraryFails
  <2>5. QED
    BY <1>8, <2>2, <2>3, <2>4 DEF LibraryFails, registry, auth, jwt
<1>9. CASE ReachabilityChanges \/ TokenExpires
  BY <1>9 DEF ReachabilityChanges, TokenExpires, registry, auth, jwt
<1>10. CASE UNCHANGED vars
  BY <1>10 DEF vars, registry, auth, jwt
<1>11. QED
  BY <1>1, <1>2, <1>3, <1>4, <1>5, <1>6, <1>7, <1>8, <1>9, <1>10
     DEF Next, Callback, Library

\* Every variable keeps its type; the attempts of the library stay within its
\* limit because it gives up, for good, when it has used them up.
THEOREM SessionTypes == Spec => []TypeOK
<1>1. Init => TypeOK /\ AttemptsLeft
  <2> SUFFICES ASSUME Init PROVE TypeOK /\ AttemptsLeft
    OBVIOUS
  <2>1. attempts \in 0..MaxAttempts /\ AttemptsLeft
    BY SessionConfigured DEF Init, AttemptsLeft
  <2>2. clientAtAck \in BOOLEAN /\ client \in BOOLEAN /\ reachable \in BOOLEAN
    BY DEF Init
  <2>3. authStatus \in {"Disabled", "Pending", "Verified", "Failed"}
    BY DEF Init
  <2>4. /\ token \in {"none", "valid", "wrong", "expired"} /\ lapsed \in BOOLEAN
        /\ jwtConfig \in JwtConfigs /\ refuses \in Refusals
    BY DEF Init
  <2>5. QED
    BY <2>1, <2>2, <2>3, <2>4 DEF Init, TypeOK, Stages
<1>2. TypeOK /\ AttemptsLeft /\ [Next]_vars => TypeOK' /\ AttemptsLeft'
  BY TypeNext
<1>3. QED
  BY <1>1, <1>2, PTL DEF Spec

-----------------------------------------------------------------------------
(* The first connection.                                                   *)

\* The weak fairness of the supervisor, with ENABLED written out: its steps are
\* enabled in every state but the one inside keep_connection_alive.
SupervisorRuns == []<>(supervisor = "alive") \/ []<><<Supervisor>>_vars

\* An expired token the supervisor connects with is a pre-built one, or expired
\* since it was minted; the supervisor is inside keep_connection_alive only after
\* it has stored the client.
ConnectInv ==
    /\ supervisor \in {"ready", "connecting", "connected", "alive", "waiting"}
    /\ supervisor = "connecting" /\ token = "expired" => jwtConfig = "pre-built" \/ lapsed
    /\ jwtConfig \in {"none", "self-signed", "pre-built"}
    /\ supervisor = "alive" => client

LEMMA ConnectNext == ConnectInv /\ [Next]_vars => ConnectInv'
<1> SUFFICES ASSUME ConnectInv, [Next]_vars PROVE ConnectInv'
  OBVIOUS
<1> USE DEF ConnectInv
<1>1. CASE Supervisor
  BY <1>1 DEF Supervisor, Attempt, ConnectSucceeds, ConnectFails, WakesUp, StoreClient,
              Minted, auth, jwt
<1>2. CASE OnConnect \/ OnAuthError \/ OnAck \/ AckDone \/ ServerAcks
  BY <1>2 DEF OnConnect, OnAuthError, OnAck, AckDone, ServerAcks, auth, jwt
<1>3. ASSUME NEW room \in Rooms,
             RegisterNext(room) \/ InsertCamera(room) \/ RegisterAdded(room)
      PROVE  ConnectInv'
  BY <1>3 DEF RegisterNext, InsertCamera, RegisterAdded, auth, jwt
<1>4. CASE Library \/ LinkLost
  BY <1>4 DEF Library, LibraryReconnects, LibraryFails, LinkLost, auth, jwt
<1>5. CASE ReachabilityChanges \/ TokenExpires
  BY <1>5 DEF ReachabilityChanges, TokenExpires, auth, jwt
<1>6. CASE UNCHANGED vars
  BY <1>6 DEF vars, auth, jwt
<1>7. QED
  BY <1>1, <1>2, <1>3, <1>4, <1>5, <1>6 DEF Next, Callback

\* Where a step of anybody, and a step of its own, can take the supervisor: it
\* leaves "connecting" for "connected" only, if the server takes connections and
\* has no reason to refuse the token.
LEMMA SupervisorMoves ==
  ASSUME ConnectInv, [Next]_vars
  PROVE  /\ supervisor = "waiting" => supervisor' \in {"waiting", "ready"}
         /\ supervisor = "ready" => supervisor' \in {"ready", "connecting"}
         /\ supervisor = "connecting" /\ reachable /\ ~RefusedAttempt =>
               supervisor' \in {"connecting", "connected"}
         /\ supervisor = "connected" => supervisor' \in {"connected", "alive"}
<1>1. CASE Supervisor
  BY <1>1 DEF ConnectInv, Supervisor, Attempt, ConnectSucceeds, ConnectFails, Accepted,
              RefusedAttempt, WakesUp, StoreClient
<1>2. CASE ~Supervisor
  <2>1. UNCHANGED supervisor
    BY <1>2 DEF Next, vars, Callback, OnConnect, OnAuthError, OnAck, AckDone, RegisterNext,
       ServerAcks, Library, LibraryReconnects, LibraryFails, LinkLost, ReachabilityChanges,
       TokenExpires, InsertCamera, RegisterAdded
  <2>2. QED
    BY <2>1
<1>3. QED
  BY <1>1, <1>2

LEMMA SupervisorLeaves ==
  ASSUME ConnectInv, Supervisor
  PROVE  /\ supervisor = "waiting" => supervisor' = "ready"
         /\ supervisor = "ready" => supervisor' = "connecting"
         /\ supervisor = "connecting" /\ reachable /\ ~RefusedAttempt =>
               supervisor' = "connected"
         /\ supervisor = "connected" => supervisor' = "alive"
BY DEF ConnectInv, Supervisor, Attempt, ConnectSucceeds, ConnectFails, Accepted,
       RefusedAttempt, WakesUp, StoreClient

\* If the server takes connections from some time on, the supervisor gets its
\* first one, however often it failed before and whatever the library and the
\* callbacks do, as long as it runs on and is not refused again and again for a
\* token it cannot better; with any configuration of tokens and any server.
THEOREM FirstConnected == Init /\ [][Next]_vars /\ SupervisorRuns => FirstConnectionMade
<1> DEFINE Waiting == supervisor = "waiting"
           Ready == supervisor = "ready"
           Connecting == supervisor = "connecting"
           Connected == supervisor = "connected"
           Alive == supervisor = "alive"
<1>1. Init => ConnectInv
  BY SessionConfigured DEF Init, ConnectInv
<1>2. ConnectInv =>
         /\ Waiting \/ Ready \/ Connecting \/ Connected \/ Alive
         /\ Alive => client
  BY DEF ConnectInv
<1>3. ConnectInv /\ [Next]_vars =>
         /\ Waiting => Waiting' \/ Ready'
         /\ Ready => Ready' \/ Connecting'
         /\ Connecting /\ reachable /\ ~RefusedAttempt => Connecting' \/ Connected'
         /\ Connected => Connected' \/ Alive'
  BY SupervisorMoves
<1>4. ConnectInv /\ <<Supervisor>>_vars =>
         /\ Waiting => Ready'
         /\ Ready => Connecting'
         /\ Connecting /\ reachable /\ ~RefusedAttempt => Connected'
         /\ Connected => Alive'
  BY SupervisorLeaves
<1>5. Alive <=> supervisor = "alive"
  OBVIOUS
<1>6. ~(Alive /\ Waiting) /\ ~(Alive /\ Ready) /\ ~(Alive /\ Connecting) /\ ~(Alive /\ Connected)
  OBVIOUS
<1> HIDE DEF Waiting, Ready, Connecting, Connected, Alive
<1> QED
  BY <1>1, <1>2, <1>3, <1>4, <1>5, <1>6, ConnectNext, PTL
     DEF SupervisorRuns, FirstConnectionMade

=============================================================================
