--------------------------- MODULE ViewerSessions ---------------------------
(***************************************************************************)
(* Viewer sessions of the gateway: what a viewer_request and a             *)
(* viewer_disconnect do to AppState, to the CameraStream of a room and to  *)
(* the signaling client's viewer-to-stream mapping.                        *)
(*                                                                         *)
(* The Socket.IO client runs its handlers one after the other on one       *)
(* thread and a handler that changes viewers holds the write lock of       *)
(* AppState::cameras, so a handler is one action here.  A request may fail *)
(* at every stage of the pipeline construction; each stage leaves          *)
(* different elements behind.  A viewer may request again without having   *)
(* disconnected (the viewer agent does so on every reconnect), may request *)
(* another room, and the disconnect of an old session may arrive at any    *)
(* later time.                                                             *)
(***************************************************************************)
EXTENDS Naturals, FiniteSets

CONSTANTS
    Rooms,                 \* room names of the camera streams
    ViewerIds,             \* viewer_id values of the signaling server
    Branches,              \* identities for send branches, one per request
    MaxViewersPerCamera,   \* MAX_VIEWERS_PER_CAMERA
    MaxViewersPerGateway,  \* MAX_VIEWERS_PER_GATEWAY
    NoPeer,                \* no entry in CameraStream::viewers
    NoBranch,              \* an entry whose webrtcbin is None
    NoRoom,                \* no entry in viewer_streams
    NoSlot                 \* a branch identity not used yet

ASSUME FiniteRooms == IsFiniteSet(Rooms)
ASSUME FiniteViewers == IsFiniteSet(ViewerIds)
ASSUME LimitConfigured ==
    /\ MaxViewersPerCamera \in Nat
    /\ MaxViewersPerGateway \in Nat
ASSUME DistinctMarkers ==
    /\ NoPeer \notin Branches
    /\ NoBranch \notin Branches
    /\ NoPeer # NoBranch
    /\ NoRoom \notin Rooms
    /\ NoSlot \notin Rooms \X ViewerIds

VARIABLES
    viewerLimitMode,  \* VIEWER_LIMIT_MODE of this process: "camera" or "gateway"
    cameras,        \* AppState::cameras: the registered rooms
    viewers,        \* CameraStream::viewers of every room, with the webrtcbin
    viewerStreams,  \* SignalingSocketIOClient::viewer_streams
    zmqConsuming,   \* CameraStream::zmq_consuming of every room
    home,           \* the slot a branch was built for
    webrtcbins,     \* branches whose webrtcbin is in the pipeline
    teePads,        \* branches linked to the tee
    chains,         \* branches whose queue .. capsfilter are in the pipeline
    requested       \* slots some viewer_request asked for (server side)

pipeline == <<home, webrtcbins, teePads, chains>>
vars == <<viewerLimitMode, cameras, viewers, viewerStreams, zmqConsuming,
          pipeline, requested>>

Slots == Rooms \X ViewerIds

-----------------------------------------------------------------------------
(* Reading the state.                                                      *)

Occupied == {slot \in Slots : viewers[slot] # NoPeer}

ViewersOf(room) == {slot \in Occupied : slot[1] = room}

\* Mutant: the cap compared with ">".
LimitReached_OffByOne(room) ==
    \/ /\ viewerLimitMode = "camera"
       /\ Cardinality(ViewersOf(room)) > MaxViewersPerCamera
    \/ /\ viewerLimitMode = "gateway"
       /\ Cardinality(Occupied) > MaxViewersPerGateway

\* The check at the head of create_signaling_webrtc_pipeline.  It counts the
\* entries of the map, so a viewer that is already in counts against itself.
LimitReached(room) ==
    \/ /\ viewerLimitMode = "camera"
       /\ Cardinality(ViewersOf(room)) >= MaxViewersPerCamera
    \/ /\ viewerLimitMode = "gateway"
       /\ Cardinality(Occupied) >= MaxViewersPerGateway

Unused == {b \in Branches : home[b] = NoSlot}

-----------------------------------------------------------------------------
(* The effects the handlers are made of.                                   *)

\* Only the first viewer of a room starts consumption, and a failed start is
\* logged and not reported: the request goes on.
StartFeedForFirst(room) ==
    IF ViewersOf(room) = {} /\ ~zmqConsuming[room]
    THEN \E started \in BOOLEAN :
            zmqConsuming' = [zmqConsuming EXCEPT ![room] = started]
    ELSE UNCHANGED zmqConsuming

\* Mutant: consumption stops when the map was empty before the removal.
StopFeedAfterLast_CountedBefore(room, viewer) ==
    zmqConsuming' = [zmqConsuming EXCEPT ![room] = @ /\ ViewersOf(room) # {}]

\* The last viewer to go stops consumption.
StopFeedAfterLast(room, viewer) ==
    zmqConsuming' = [zmqConsuming EXCEPT
        ![room] = @ /\ ViewersOf(room) \ {<<room, viewer>>} # {}]

\* How far the construction of a branch got before a step failed: nothing was
\* added, the elements were added but not linked to the tee, or a step after
\* the link failed.
FailedAt == {"elements", "links", "sync"}

\* Mutant: the tee is linked before the elements are in the pipeline.
BuildBranch_LinkedFirst(slot, b, reached) ==
    /\ home' = [home EXCEPT ![b] = slot]
    /\ webrtcbins' = IF reached = "elements" THEN webrtcbins ELSE webrtcbins \cup {b}
    /\ chains' = IF reached \in {"elements", "links"} THEN chains ELSE chains \cup {b}
    /\ teePads' = IF reached = "elements" THEN teePads ELSE teePads \cup {b}

\* The elements are added, then linked to the tee; what was done stays.
BuildBranch(slot, b, reached) ==
    /\ home' = [home EXCEPT ![b] = slot]
    /\ webrtcbins' = IF reached = "elements" THEN webrtcbins ELSE webrtcbins \cup {b}
    /\ chains' = IF reached = "elements" THEN chains ELSE chains \cup {b}
    /\ teePads' = IF reached \in {"elements", "links"} THEN teePads ELSE teePads \cup {b}

\* Mutant: the tee pad is not released.
TearDown_KeepsTeePad(slot) ==
    /\ webrtcbins' = webrtcbins \ {viewers[slot]}
    /\ UNCHANGED <<home, chains, teePads>>

\* remove_viewer_internal takes the webrtcbin out of the pipeline and releases
\* the tee pad of the entry it removes; the other four elements stay.
TearDown(slot) ==
    /\ webrtcbins' = webrtcbins \ {viewers[slot]}
    /\ teePads' = teePads \ {viewers[slot]}
    /\ UNCHANGED <<home, chains>>

-----------------------------------------------------------------------------

Init ==
    /\ viewerLimitMode \in {"camera", "gateway"}
    /\ cameras = {}
    /\ viewers = [slot \in Slots |-> NoPeer]
    /\ viewerStreams = [v \in ViewerIds |-> NoRoom]
    /\ zmqConsuming = [r \in Rooms |-> FALSE]
    /\ home = [b \in Branches |-> NoSlot]
    /\ webrtcbins = {}
    /\ teePads = {}
    /\ chains = {}
    /\ requested = {}

\* A restored camera or the test stream enters the registry.  The test stream
\* does so after the signaling thread was started, so requests may come first.
AddCamera(room) ==
    /\ room \notin cameras
    /\ cameras' = cameras \cup {room}
    /\ UNCHANGED <<viewers, viewerStreams, zmqConsuming, pipeline, requested>>

\* viewer_request for a room that is not registered: logged, no answer.
RequestUnknown(room, viewer) ==
    /\ room \notin cameras
    /\ requested' = requested \cup {<<room, viewer>>}
    /\ UNCHANGED <<cameras, viewers, viewerStreams, zmqConsuming, pipeline>>

\* viewer_request over the cap: the mapping written on entry is removed again.
RequestRefused(room, viewer) ==
    /\ room \in cameras
    /\ LimitReached(room)
    /\ viewerStreams' = [viewerStreams EXCEPT ![viewer] = NoRoom]
    /\ requested' = requested \cup {<<room, viewer>>}
    /\ UNCHANGED <<cameras, viewers, zmqConsuming, pipeline>>

\* viewer_request under the cap whose branch is built: add_viewer replaces any
\* entry of the same viewer, without tearing that entry's branch down.
RequestServed(room, viewer, b) ==
    /\ room \in cameras
    /\ ~LimitReached(room)
    /\ b \in Unused
    /\ StartFeedForFirst(room)
    /\ BuildBranch(<<room, viewer>>, b, "done")
    /\ viewers' = [viewers EXCEPT ![<<room, viewer>>] = b]
    /\ viewerStreams' = [viewerStreams EXCEPT ![viewer] = room]
    /\ requested' = requested \cup {<<room, viewer>>}
    /\ UNCHANGED cameras

\* Mutant: the mapping written on entry is kept when construction fails.
RequestFailed_KeepsMapping(room, viewer, b, stage) ==
    /\ room \in cameras
    /\ ~LimitReached(room)
    /\ b \in Unused
    /\ StartFeedForFirst(room)
    /\ BuildBranch(<<room, viewer>>, b, stage)
    /\ viewers' = [viewers EXCEPT ![<<room, viewer>>] = NoBranch]
    /\ viewerStreams' = [viewerStreams EXCEPT ![viewer] = room]
    /\ requested' = requested \cup {<<room, viewer>>}
    /\ UNCHANGED cameras

\* Mutant: the webrtcbin is recorded in the entry before the steps that fail.
RequestFailed_RecordsEarly(room, viewer, b, stage) ==
    /\ room \in cameras
    /\ ~LimitReached(room)
    /\ b \in Unused
    /\ StartFeedForFirst(room)
    /\ BuildBranch(<<room, viewer>>, b, stage)
    /\ viewers' = [viewers EXCEPT ![<<room, viewer>>] = b]
    /\ viewerStreams' = [viewerStreams EXCEPT ![viewer] = NoRoom]
    /\ requested' = requested \cup {<<room, viewer>>}
    /\ UNCHANGED cameras

\* The same request when a construction step fails: the entry add_viewer made
\* stays in the map without a webrtcbin, the mapping is removed.
RequestFailed(room, viewer, b, stage) ==
    /\ room \in cameras
    /\ ~LimitReached(room)
    /\ b \in Unused
    /\ StartFeedForFirst(room)
    /\ BuildBranch(<<room, viewer>>, b, stage)
    /\ viewers' = [viewers EXCEPT ![<<room, viewer>>] = NoBranch]
    /\ viewerStreams' = [viewerStreams EXCEPT ![viewer] = NoRoom]
    /\ requested' = requested \cup {<<room, viewer>>}
    /\ UNCHANGED cameras

\* Mutant: the viewer is removed from every room it holds a slot in.
Disconnect_EveryRoom(room, viewer) ==
    /\ <<room, viewer>> \in requested
    /\ viewerStreams' = [viewerStreams EXCEPT ![viewer] = NoRoom]
    /\ viewers' = [slot \in Slots |->
                      IF slot[2] = viewer THEN NoPeer ELSE viewers[slot]]
    /\ StopFeedAfterLast(room, viewer)
    /\ TearDown(<<room, viewer>>)
    /\ UNCHANGED <<cameras, requested>>

\* viewer_disconnect names a viewer and a room; its session_id is not looked
\* at.  The mapping goes whatever room it points to.
Disconnect(room, viewer) ==
    /\ <<room, viewer>> \in requested
    /\ viewerStreams' = [viewerStreams EXCEPT ![viewer] = NoRoom]
    /\ IF room \in cameras
       THEN /\ viewers' = [viewers EXCEPT ![<<room, viewer>>] = NoPeer]
            /\ StopFeedAfterLast(room, viewer)
            /\ TearDown(<<room, viewer>>)
       ELSE UNCHANGED <<viewers, zmqConsuming, pipeline>>
    /\ UNCHANGED <<cameras, requested>>

Operation ==
    \/ \E room \in Rooms : AddCamera(room)
    \/ \E room \in Rooms, viewer \in ViewerIds :
          \/ RequestUnknown(room, viewer)
          \/ RequestRefused(room, viewer)
          \/ \E b \in Branches : RequestServed(room, viewer, b)
          \/ \E b \in Branches, stage \in FailedAt :
                RequestFailed(room, viewer, b, stage)
          \/ Disconnect(room, viewer)

\* The mode is read from the environment once.
Next == Operation /\ UNCHANGED viewerLimitMode

Spec == Init /\ [][Next]_vars

-----------------------------------------------------------------------------
(* Properties.                                                             *)

\* Every variable keeps its type: entries, branches and mappings name existing
\* rooms and viewers, and a linked tee pad feeds elements that are there.
TypeOK ==
    /\ viewerLimitMode \in {"camera", "gateway"}
    /\ cameras \subseteq Rooms
    /\ viewers \in [Slots -> Branches \cup {NoPeer, NoBranch}]
    /\ viewerStreams \in [ViewerIds -> Rooms \cup {NoRoom}]
    /\ zmqConsuming \in [Rooms -> BOOLEAN]
    /\ home \in [Branches -> Slots \cup {NoSlot}]
    /\ webrtcbins \subseteq Branches
    /\ teePads \subseteq Branches
    /\ chains \subseteq Branches
    /\ teePads \subseteq chains
    /\ requested \subseteq Slots

\* The entries of the selected scope never exceed the configured cap, whatever
\* mix of repeated, failed, refused and late requests produced them.
WithinLimit ==
    /\ viewerLimitMode = "camera" =>
          \A room \in Rooms : Cardinality(ViewersOf(room)) <= MaxViewersPerCamera
    /\ viewerLimitMode = "gateway" => Cardinality(Occupied) <= MaxViewersPerGateway

\* An answer, a candidate or telemetry that viewer_streams routes to a room
\* finds an entry with a webrtcbin there: handle_viewer_sdp_answer and
\* handle_viewer_ice_candidate never fail on a routed message.
RoutedToLiveBranch ==
    \A v \in ViewerIds :
        viewerStreams[v] # NoRoom => viewers[<<viewerStreams[v], v>>] \in Branches

\* Frames are consumed only while the room has a viewer.
NoIdleConsumption ==
    \A room \in Rooms : zmqConsuming[room] => ViewersOf(room) # {}

\* An entry that holds a webrtcbin holds one built for it, still in the
\* pipeline and still fed by the tee.
EntryIsFed ==
    \A slot \in Slots : viewers[slot] \in Branches =>
        /\ home[viewers[slot]] = slot
        /\ viewers[slot] \in webrtcbins \cap teePads

\* The branches in the pipeline that no entry owns.
Orphans == (webrtcbins \cup teePads) \ {viewers[slot] : slot \in Slots}

\* A disconnect releases the webrtcbin and the tee pad of the entry it removes
\* and of no other: it neither creates nor removes an orphan.
DisconnectLeavesNoOrphan ==
    [][\A room \in Rooms, viewer \in ViewerIds :
          Disconnect(room, viewer) => Orphans' = Orphans]_vars

\* The sessions implement the slot pool: every step grants at most one slot and
\* only under the cap, or gives back exactly one, or leaves the slots alone.
Admission == INSTANCE ViewerAdmission WITH admitted <- Occupied
AdmissionSpec == Admission!Spec

=============================================================================
