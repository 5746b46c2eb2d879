------------------------ MODULE ViewerSessions_proofs ------------------------
(***************************************************************************)
(* Proofs about ViewerSessions, for any finite sets of rooms and viewers,  *)
(* any caps and any supply of branch identities.                           *)
(***************************************************************************)
EXTENDS ViewerSessions, FiniteSetTheorems, TLAPS

-----------------------------------------------------------------------------
(* Type correctness.                                                       *)

LEMMA TypeInit == Init => TypeOK
BY DEF Init, TypeOK, Slots

LEMMA StartFeedType ==
  ASSUME zmqConsuming \in [Rooms -> BOOLEAN],
         NEW room \in Rooms, StartFeedForFirst(room)
  PROVE  zmqConsuming' \in [Rooms -> BOOLEAN]
<1>1. CASE ViewersOf(room) = {} /\ ~zmqConsuming[room]
  <2>1. PICK started \in BOOLEAN :
           zmqConsuming' = [zmqConsuming EXCEPT ![room] = started]
    BY <1>1 DEF StartFeedForFirst
  <2>2. QED
    BY <2>1, Zenon
<1>2. CASE ~(ViewersOf(room) = {} /\ ~zmqConsuming[room])
  BY <1>2 DEF StartFeedForFirst
<1>3. QED
  BY <1>1, <1>2

LEMMA BuildBranchType ==
  ASSUME TypeOK, NEW slot \in Slots, NEW b \in Branches, NEW reached,
         BuildBranch(slot, b, reached)
  PROVE  /\ home' \in [Branches -> Slots \cup {NoSlot}]
         /\ webrtcbins' \subseteq Branches
         /\ teePads' \subseteq Branches
         /\ chains' \subseteq Branches
         /\ teePads' \subseteq chains'
BY DEF TypeOK, BuildBranch

LEMMA TypeNext == TypeOK /\ [Next]_vars => TypeOK'
<1> SUFFICES ASSUME TypeOK, [Next]_vars PROVE TypeOK'
  OBVIOUS
<1> USE DEF TypeOK, Slots
<1>m. viewerLimitMode' = viewerLimitMode
  BY DEF Next, vars
<1>1. ASSUME NEW room \in Rooms, AddCamera(room) PROVE TypeOK'
  BY <1>m, <1>1 DEF AddCamera, pipeline
<1>2. ASSUME NEW room \in Rooms, NEW viewer \in ViewerIds,
             RequestUnknown(room, viewer)
      PROVE TypeOK'
  BY <1>m, <1>2 DEF RequestUnknown, pipeline
<1>3. ASSUME NEW room \in Rooms, NEW viewer \in ViewerIds,
             RequestRefused(room, viewer)
      PROVE TypeOK'
  BY <1>m, <1>3 DEF RequestRefused, pipeline
<1>4. ASSUME NEW room \in Rooms, NEW viewer \in ViewerIds, NEW b \in Branches,
             RequestServed(room, viewer, b)
      PROVE TypeOK'
  <2>1. zmqConsuming' \in [Rooms -> BOOLEAN]
    BY <1>m, <1>4, StartFeedType DEF RequestServed
  <2>2. QED
    BY <1>m, <1>4, <2>1, BuildBranchType DEF RequestServed
<1>5. ASSUME NEW room \in Rooms, NEW viewer \in ViewerIds, NEW b \in Branches,
             NEW stage \in FailedAt, RequestFailed(room, viewer, b, stage)
      PROVE TypeOK'
  <2>1. zmqConsuming' \in [Rooms -> BOOLEAN]
    BY <1>m, <1>5, StartFeedType DEF RequestFailed
  <2>2. QED
    BY <1>m, <1>5, <2>1, BuildBranchType DEF RequestFailed
<1>6. ASSUME NEW room \in Rooms, NEW viewer \in ViewerIds,
             Disconnect(room, viewer)
      PROVE TypeOK'
  BY <1>m, <1>6 DEF Disconnect, StopFeedAfterLast, TearDown, pipeline
<1>7. CASE UNCHANGED vars
  BY <1>7 DEF vars, pipeline
<1>8. QED
  BY <1>1, <1>2, <1>3, <1>4, <1>5, <1>6, <1>7 DEF Next, Operation

\* Every variable keeps its type.
THEOREM TypeCorrect == Spec => []TypeOK
BY TypeInit, TypeNext, PTL DEF Spec

-----------------------------------------------------------------------------
(* How the actions change the set of occupied slots.                       *)

LEMMA OccupiedFinite == IsFiniteSet(Occupied)
<1>1. IsFiniteSet(Slots)
  BY FiniteRooms, FiniteViewers, FS_Product DEF Slots
<1>2. QED
  BY <1>1, FS_Subset DEF Occupied

LEMMA AddOne ==
  ASSUME NEW S, IsFiniteSet(S), NEW x
  PROVE  /\ Cardinality(S) \in Nat
         /\ Cardinality(S \cup {x}) \in Nat
         /\ Cardinality(S \cup {x}) <= Cardinality(S) + 1
<1>1. /\ IsFiniteSet(S \cup {x})
      /\ Cardinality(S \cup {x}) =
            IF x \in S THEN Cardinality(S) ELSE Cardinality(S) + 1
  BY FS_AddElement, Zenon
<1>2. Cardinality(S) \in Nat
  BY FS_CardinalityType
<1>3. QED
  BY <1>1, <1>2

\* A request that passes the cap occupies its slot, whatever its outcome.
LEMMA RequestOccupies ==
  ASSUME TypeOK, NEW room \in Rooms, NEW viewer \in ViewerIds,
         NEW entry \in Branches \cup {NoBranch},
         viewers' = [viewers EXCEPT ![<<room, viewer>>] = entry]
  PROVE  Occupied' = Occupied \cup {<<room, viewer>>}
BY DistinctMarkers DEF TypeOK, Occupied, Slots

\* A disconnect frees its slot and no other.
LEMMA DisconnectFrees ==
  ASSUME TypeOK, NEW room \in Rooms, NEW viewer \in ViewerIds,
         viewers' = [viewers EXCEPT ![<<room, viewer>>] = NoPeer]
  PROVE  Occupied' = Occupied \ {<<room, viewer>>}
BY DEF TypeOK, Occupied, Slots

-----------------------------------------------------------------------------
(* The cap.                                                                *)

\* One more slot keeps the cap when the cap was not reached before.
LEMMA AdmissionKeepsLimit ==
  ASSUME TypeOK, WithinLimit, UNCHANGED viewerLimitMode,
         NEW room \in Rooms, NEW viewer \in ViewerIds,
         ~LimitReached(room),
         Occupied' = Occupied \cup {<<room, viewer>>}
  PROVE  WithinLimit'
<1> DEFINE slot == <<room, viewer>>
<1>1. CASE viewerLimitMode = "camera"
  <2>1. SUFFICES ASSUME NEW r \in Rooms
                 PROVE  Cardinality(ViewersOf(r)') <= MaxViewersPerCamera
    BY <1>1 DEF WithinLimit
  <2>2. IsFiniteSet(ViewersOf(r))
    BY OccupiedFinite, FS_Subset DEF ViewersOf
  <2>3. CASE r = room
    <3>1. ViewersOf(r)' = ViewersOf(r) \cup {slot}
      BY <2>3 DEF ViewersOf
    <3>2. Cardinality(ViewersOf(r)) < MaxViewersPerCamera
      BY <1>1, <2>2, <2>3, FS_CardinalityType, LimitConfigured DEF LimitReached
    <3>3. /\ Cardinality(ViewersOf(r)) \in Nat
          /\ Cardinality(ViewersOf(r) \cup {slot}) \in Nat
          /\ Cardinality(ViewersOf(r) \cup {slot}) <= Cardinality(ViewersOf(r)) + 1
      BY <2>2, AddOne
    <3>4. QED
      BY <3>1, <3>2, <3>3, LimitConfigured
  <2>4. CASE r # room
    <3>1. ViewersOf(r)' = ViewersOf(r)
      BY <2>4 DEF ViewersOf
    <3>2. QED
      BY <1>1, <3>1 DEF WithinLimit
  <2>5. QED
    BY <2>3, <2>4
<1>2. CASE viewerLimitMode = "gateway"
  <2>1. Cardinality(Occupied) < MaxViewersPerGateway
    BY <1>2, OccupiedFinite, FS_CardinalityType, LimitConfigured DEF LimitReached
  <2>2. /\ Cardinality(Occupied) \in Nat
        /\ Cardinality(Occupied \cup {slot}) \in Nat
        /\ Cardinality(Occupied \cup {slot}) <= Cardinality(Occupied) + 1
    BY OccupiedFinite, AddOne
  <2>3. Cardinality(Occupied') <= MaxViewersPerGateway
    BY <2>1, <2>2, LimitConfigured
  <2>4. QED
    BY <1>2, <2>3 DEF WithinLimit
<1>3. QED
  BY <1>1, <1>2 DEF TypeOK

\* Fewer slots keep the cap.
LEMMA ReleaseKeepsLimit ==
  ASSUME WithinLimit, UNCHANGED viewerLimitMode, Occupied' \subseteq Occupied
  PROVE  WithinLimit'
<1>1. ASSUME NEW r \in Rooms
      PROVE  Cardinality(ViewersOf(r)') <= Cardinality(ViewersOf(r))
  <2>1. /\ ViewersOf(r)' \subseteq ViewersOf(r)
        /\ IsFiniteSet(ViewersOf(r))
    BY OccupiedFinite, FS_Subset DEF ViewersOf
  <2>2. QED
    BY <2>1, FS_Subset
<1>2. Cardinality(Occupied') <= Cardinality(Occupied)
  BY OccupiedFinite, FS_Subset
<1>3. ASSUME NEW r \in Rooms
      PROVE  /\ Cardinality(ViewersOf(r)) \in Nat
             /\ Cardinality(ViewersOf(r)') \in Nat
  <2>1. /\ ViewersOf(r)' \subseteq Occupied
        /\ ViewersOf(r) \subseteq Occupied
    BY DEF ViewersOf
  <2>2. QED
    BY <2>1, OccupiedFinite, FS_Subset, FS_CardinalityType
<1>4. /\ Cardinality(Occupied) \in Nat
      /\ Cardinality(Occupied') \in Nat
  BY OccupiedFinite, FS_Subset, FS_CardinalityType
<1>5. QED
  BY <1>1, <1>2, <1>3, <1>4, LimitConfigured DEF WithinLimit
-----------------------------------------------------------------------------
(* The inductive invariant.  RoutedToLiveBranch and NoIdleConsumption are   *)
(* inductive given the types; EntryIsFed needs that a branch identity has   *)
(* one home, which is its first conjunct.                                   *)

SessionInv ==
    /\ TypeOK
    /\ WithinLimit
    /\ RoutedToLiveBranch
    /\ NoIdleConsumption
    /\ EntryIsFed

LEMMA InvInit == Init => SessionInv
<1> SUFFICES ASSUME Init PROVE SessionInv
  OBVIOUS
<1>1. TypeOK
  BY TypeInit
<1>2. Occupied = {} /\ \A r \in Rooms : ViewersOf(r) = {}
  BY DEF Init, Occupied, ViewersOf
<1>3. WithinLimit
  BY <1>2, FS_EmptySet, LimitConfigured DEF WithinLimit
<1>4. RoutedToLiveBranch /\ NoIdleConsumption
  BY DEF Init, RoutedToLiveBranch, NoIdleConsumption
<1>5. EntryIsFed
  BY DistinctMarkers DEF Init, EntryIsFed
<1>6. QED
  BY <1>1, <1>3, <1>4, <1>5 DEF SessionInv

\* A step that leaves the sessions alone keeps what is said of them.
LEMMA InvUnchanged ==
  ASSUME SessionInv, TypeOK',
         UNCHANGED <<viewerLimitMode, viewers, viewerStreams, zmqConsuming, pipeline>>
  PROVE  SessionInv'
BY DEF SessionInv, WithinLimit, RoutedToLiveBranch, NoIdleConsumption,
       EntryIsFed, Occupied, ViewersOf, pipeline

LEMMA InvRefused ==
  ASSUME SessionInv, TypeOK', UNCHANGED viewerLimitMode,
         NEW room \in Rooms, NEW viewer \in ViewerIds,
         RequestRefused(room, viewer)
  PROVE  SessionInv'
<1>1. UNCHANGED <<viewers, zmqConsuming, pipeline>>
  BY DEF RequestRefused
<1>2. WithinLimit' /\ NoIdleConsumption' /\ EntryIsFed'
  BY <1>1 DEF SessionInv, WithinLimit, NoIdleConsumption, EntryIsFed,
              Occupied, ViewersOf, pipeline
<1>3. RoutedToLiveBranch'
  BY <1>1 DEF SessionInv, TypeOK, RoutedToLiveBranch, RequestRefused
<1>4. QED
  BY <1>2, <1>3 DEF SessionInv

\* What a served and a failed request have in common: a fresh branch, an entry
\* that holds that branch if it was completed, and a mapping only then.
LEMMA InvRequest ==
  ASSUME SessionInv, TypeOK', UNCHANGED viewerLimitMode,
         NEW room \in Rooms, NEW viewer \in ViewerIds,
         NEW b \in Unused, NEW reached, NEW entry \in {b, NoBranch},
         ~LimitReached(room), StartFeedForFirst(room),
         BuildBranch(<<room, viewer>>, b, reached),
         viewers' = [viewers EXCEPT ![<<room, viewer>>] = entry],
         entry = b => /\ reached = "done"
                      /\ viewerStreams' = [viewerStreams EXCEPT ![viewer] = room],
         entry = NoBranch => viewerStreams' = [viewerStreams EXCEPT ![viewer] = NoRoom]
  PROVE  SessionInv'
<1> DEFINE slot == <<room, viewer>>
<1>a. slot \in Slots /\ b \in Branches /\ home[b] = NoSlot
  BY DEF Slots, Unused
<1>b. entry \in Branches \cup {NoBranch} /\ entry # NoPeer
  BY <1>a, DistinctMarkers
<1>1. Occupied' = Occupied \cup {slot}
  BY <1>b, RequestOccupies DEF SessionInv
<1>2. WithinLimit'
  BY <1>1, AdmissionKeepsLimit DEF SessionInv
<1>3. RoutedToLiveBranch'
  <2> SUFFICES ASSUME NEW v \in ViewerIds, viewerStreams'[v] # NoRoom
               PROVE  viewers'[<<viewerStreams'[v], v>>] \in Branches
    BY DEF RoutedToLiveBranch
  <2>1. CASE v = viewer
    <3>1. entry = b
      BY <2>1 DEF SessionInv, TypeOK
    <3>2. viewerStreams'[v] = room
      BY <2>1, <3>1 DEF SessionInv, TypeOK
    <3>3. QED
      BY <1>a, <2>1, <3>1, <3>2 DEF SessionInv, TypeOK
  <2>2. CASE v # viewer
    <3>1. viewerStreams'[v] = viewerStreams[v]
      BY <2>2 DEF SessionInv, TypeOK
    <3>2. viewerStreams[v] \in Rooms
      BY <3>1 DEF SessionInv, TypeOK
    <3>3. viewers'[<<viewerStreams[v], v>>] = viewers[<<viewerStreams[v], v>>]
      BY <2>2, <3>2 DEF SessionInv, TypeOK, Slots
    <3>4. QED
      BY <3>1, <3>3 DEF SessionInv, RoutedToLiveBranch
  <2>3. QED
    BY <2>1, <2>2
<1>4. NoIdleConsumption'
  <2> SUFFICES ASSUME NEW r \in Rooms, zmqConsuming'[r]
               PROVE  ViewersOf(r)' # {}
    BY DEF NoIdleConsumption
  <2>1. CASE r = room
    <3>1. slot \in ViewersOf(r)'
      BY <1>1, <2>1 DEF ViewersOf
    <3>2. QED
      BY <3>1
  <2>2. CASE r # room
    <3>1. zmqConsuming'[r] = zmqConsuming[r]
      BY <2>2 DEF StartFeedForFirst, SessionInv, TypeOK
    <3>2. ViewersOf(r)' = ViewersOf(r)
      BY <1>1, <2>2 DEF ViewersOf
    <3>3. QED
      BY <3>1, <3>2 DEF SessionInv, NoIdleConsumption
  <2>3. QED
    BY <2>1, <2>2
<1>5. EntryIsFed'
  <2> SUFFICES ASSUME NEW s \in Slots, viewers'[s] \in Branches
               PROVE  /\ home'[viewers'[s]] = s
                      /\ viewers'[s] \in webrtcbins' \cap teePads'
    BY DEF EntryIsFed
  <2>1. CASE s = slot
    <3>1. viewers'[s] = entry
      BY <1>a, <2>1 DEF SessionInv, TypeOK
    <3>2. entry = b /\ reached = "done"
      BY <3>1, DistinctMarkers
    <3>3. QED
      BY <1>a, <2>1, <3>1, <3>2 DEF BuildBranch, SessionInv, TypeOK
  <2>2. CASE s # slot
    <3>1. viewers'[s] = viewers[s]
      BY <2>2 DEF SessionInv, TypeOK
    <3>2. /\ home[viewers[s]] = s
          /\ viewers[s] \in webrtcbins \cap teePads
      BY <3>1 DEF SessionInv, EntryIsFed
    <3>3. viewers[s] # b
      BY <1>a, <3>2, DistinctMarkers DEF Slots
    <3>4. home'[viewers[s]] = home[viewers[s]]
      BY <3>1, <3>3 DEF BuildBranch, SessionInv, TypeOK
    <3>5. viewers[s] \in webrtcbins' \cap teePads'
      BY <3>2 DEF BuildBranch
    <3>6. QED
      BY <3>1, <3>2, <3>4, <3>5
  <2>3. QED
    BY <2>1, <2>2
<1>6. QED
  BY <1>2, <1>3, <1>4, <1>5 DEF SessionInv

LEMMA InvDisconnect ==
  ASSUME SessionInv, TypeOK', UNCHANGED viewerLimitMode,
         NEW room \in Rooms, NEW viewer \in ViewerIds,
         Disconnect(room, viewer)
  PROVE  SessionInv'
<1> DEFINE slot == <<room, viewer>>
<1>a. slot \in Slots
  BY DEF Slots
<1>b. \A v \in ViewerIds : viewerStreams'[v] # NoRoom =>
         v # viewer /\ viewerStreams'[v] = viewerStreams[v]
  BY DEF Disconnect, SessionInv, TypeOK
<1>1. CASE room \notin cameras
  <2>1. UNCHANGED <<viewers, zmqConsuming, pipeline>>
    BY <1>1 DEF Disconnect
  <2>2. WithinLimit' /\ NoIdleConsumption' /\ EntryIsFed'
    BY <2>1 DEF SessionInv, WithinLimit, NoIdleConsumption, EntryIsFed,
                Occupied, ViewersOf, pipeline
  <2>3. RoutedToLiveBranch'
    BY <1>b, <2>1 DEF SessionInv, RoutedToLiveBranch
  <2>4. QED
    BY <2>2, <2>3 DEF SessionInv
<1>2. CASE room \in cameras
  <2>1. /\ viewers' = [viewers EXCEPT ![slot] = NoPeer]
        /\ StopFeedAfterLast(room, viewer)
        /\ TearDown(slot)
    BY <1>2 DEF Disconnect
  <2>2. Occupied' = Occupied \ {slot}
    BY <2>1, DisconnectFrees DEF SessionInv
  <2>3. WithinLimit'
    BY <2>2, ReleaseKeepsLimit DEF SessionInv
  <2>4. RoutedToLiveBranch'
    <3> SUFFICES ASSUME NEW v \in ViewerIds, viewerStreams'[v] # NoRoom
                 PROVE  viewers'[<<viewerStreams'[v], v>>] \in Branches
      BY DEF RoutedToLiveBranch
    <3>1. v # viewer /\ viewerStreams'[v] = viewerStreams[v]
      BY <1>b
    <3>2. viewerStreams[v] \in Rooms /\ viewers[<<viewerStreams[v], v>>] \in Branches
      BY <3>1 DEF SessionInv, TypeOK, RoutedToLiveBranch
    <3>3. viewers'[<<viewerStreams[v], v>>] = viewers[<<viewerStreams[v], v>>]
      BY <2>1, <3>1, <3>2 DEF SessionInv, TypeOK, Slots
    <3>4. QED
      BY <3>1, <3>2, <3>3
  <2>5. NoIdleConsumption'
    <3> SUFFICES ASSUME NEW r \in Rooms, zmqConsuming'[r]
                 PROVE  ViewersOf(r)' # {}
      BY DEF NoIdleConsumption
    <3>1. CASE r = room
      <4>1. ViewersOf(room) \ {slot} # {}
        BY <2>1, <3>1 DEF StopFeedAfterLast, SessionInv, TypeOK
      <4>2. ViewersOf(room)' = ViewersOf(room) \ {slot}
        BY <2>2 DEF ViewersOf
      <4>3. QED
        BY <3>1, <4>1, <4>2
    <3>2. CASE r # room
      <4>1. zmqConsuming'[r] = zmqConsuming[r]
        BY <2>1, <3>2 DEF StopFeedAfterLast, SessionInv, TypeOK
      <4>2. ViewersOf(r)' = ViewersOf(r)
        BY <2>2, <3>2 DEF ViewersOf
      <4>3. QED
        BY <4>1, <4>2 DEF SessionInv, NoIdleConsumption
    <3>3. QED
      BY <3>1, <3>2
  <2>6. EntryIsFed'
    <3> SUFFICES ASSUME NEW s \in Slots, viewers'[s] \in Branches
                 PROVE  /\ home'[viewers'[s]] = s
                        /\ viewers'[s] \in webrtcbins' \cap teePads'
      BY DEF EntryIsFed
    <3>1. s # slot /\ viewers'[s] = viewers[s]
      BY <1>a, <2>1, DistinctMarkers DEF SessionInv, TypeOK
    <3>2. /\ home[viewers[s]] = s
          /\ viewers[s] \in webrtcbins \cap teePads
      BY <3>1 DEF SessionInv, EntryIsFed
    <3>3. viewers[s] # viewers[slot]
      BY <1>a, <3>1, <3>2 DEF SessionInv, EntryIsFed
    <3>4. QED
      BY <2>1, <3>1, <3>2, <3>3 DEF TearDown
  <2>7. QED
    BY <2>3, <2>4, <2>5, <2>6 DEF SessionInv
<1>3. QED
  BY <1>1, <1>2

LEMMA InvNext == SessionInv /\ [Next]_vars => SessionInv'
<1> SUFFICES ASSUME SessionInv, [Next]_vars PROVE SessionInv'
  OBVIOUS
<1>m. viewerLimitMode' = viewerLimitMode
  BY DEF Next, vars
<1>a. TypeOK'
  BY TypeNext DEF SessionInv
<1>1. ASSUME NEW room \in Rooms, AddCamera(room) PROVE SessionInv'
  BY <1>a, <1>m, <1>1, InvUnchanged DEF AddCamera
<1>2. ASSUME NEW room \in Rooms, NEW viewer \in ViewerIds,
             RequestUnknown(room, viewer)
      PROVE SessionInv'
  BY <1>a, <1>m, <1>2, InvUnchanged DEF RequestUnknown
<1>3. ASSUME NEW room \in Rooms, NEW viewer \in ViewerIds,
             RequestRefused(room, viewer)
      PROVE SessionInv'
  BY <1>a, <1>m, <1>3, InvRefused
<1>4. ASSUME NEW room \in Rooms, NEW viewer \in ViewerIds, NEW b \in Branches,
             RequestServed(room, viewer, b)
      PROVE SessionInv'
  <2>1. b \in Unused /\ b # NoBranch
    BY <1>4, DistinctMarkers DEF RequestServed
  <2>2. QED
    BY <1>a, <1>m, <1>4, <2>1, InvRequest DEF RequestServed
<1>5. ASSUME NEW room \in Rooms, NEW viewer \in ViewerIds, NEW b \in Branches,
             NEW stage \in FailedAt, RequestFailed(room, viewer, b, stage)
      PROVE SessionInv'
  <2>1. b \in Unused /\ b # NoBranch
    BY <1>5, DistinctMarkers DEF RequestFailed
  <2>2. QED
    BY <1>a, <1>m, <1>5, <2>1, InvRequest DEF RequestFailed
<1>6. ASSUME NEW room \in Rooms, NEW viewer \in ViewerIds,
             Disconnect(room, viewer)
      PROVE SessionInv'
  BY <1>a, <1>m, <1>6, InvDisconnect
<1>7. CASE UNCHANGED vars
  BY <1>a, <1>m, <1>7, InvUnchanged DEF vars
<1>8. QED
  BY <1>1, <1>2, <1>3, <1>4, <1>5, <1>6, <1>7 DEF Next, Operation

LEMMA SessionsInvariant == Spec => []SessionInv
BY InvInit, InvNext, PTL DEF Spec

\* However requests are repeated, refused, failed or answered late, the viewers
\* of the selected scope never exceed the configured cap.
THEOREM LimitNeverExceeded == Spec => []WithinLimit
<1>1. SessionInv => WithinLimit
  BY DEF SessionInv
<1>2. QED
  BY <1>1, SessionsInvariant, PTL

\* A message routed by viewer_streams always finds a live branch.
THEOREM RoutingCorrect == Spec => []RoutedToLiveBranch
<1>1. SessionInv => RoutedToLiveBranch
  BY DEF SessionInv
<1>2. QED
  BY <1>1, SessionsInvariant, PTL

\* A room without viewers consumes no frames.
THEOREM ConsumptionNeeded == Spec => []NoIdleConsumption
<1>1. SessionInv => NoIdleConsumption
  BY DEF SessionInv
<1>2. QED
  BY <1>1, SessionsInvariant, PTL

\* The branch an entry holds was built for it and is fed by the tee.
THEOREM EntriesAreFed == Spec => []EntryIsFed
<1>1. SessionInv => EntryIsFed
  BY DEF SessionInv
<1>2. QED
  BY <1>1, SessionsInvariant, PTL

-----------------------------------------------------------------------------
(* The refinement.  Every step grants one slot, frees one, or stutters.     *)

LEMMA InitRefines == Init => Admission!Init
BY DEF Init, Occupied, Admission!Init

LEMMA GrantRefines ==
  ASSUME TypeOK, NEW room \in Rooms, NEW viewer \in ViewerIds,
         NEW entry \in Branches \cup {NoBranch},
         ~LimitReached(room), UNCHANGED viewerLimitMode,
         viewers' = [viewers EXCEPT ![<<room, viewer>>] = entry]
  PROVE  Admission!Next
<1>1. Occupied' = Occupied \cup {<<room, viewer>>}
  BY RequestOccupies
<1>2. IsFiniteSet(ViewersOf(room))
  BY OccupiedFinite, FS_Subset DEF ViewersOf
<1>3. Cardinality(ViewersOf(room)) \in Nat /\ Cardinality(Occupied) \in Nat
  BY <1>2, OccupiedFinite, FS_CardinalityType
<1>c. \A S : Admission!Cardinality(S) = Cardinality(S)
  BY DEF Cardinality, Admission!Cardinality
<1>4. Admission!HasFreeSlot(room)
  BY <1>3, <1>c, LimitConfigured
  DEF TypeOK, LimitReached, ViewersOf, Admission!HasFreeSlot, Admission!InRoom
<1>5. QED
  BY <1>1, <1>4 DEF Admission!Next, Admission!Admit

LEMMA StepRefines == TypeOK /\ [Next]_vars => [Admission!Next]_Admission!vars
<1> SUFFICES ASSUME TypeOK, [Next]_vars PROVE [Admission!Next]_Admission!vars
  OBVIOUS
<1>m. viewerLimitMode' = viewerLimitMode
  BY DEF Next, vars
<1>0. ASSUME UNCHANGED viewers PROVE UNCHANGED Admission!vars
  BY <1>m, <1>0 DEF Occupied, Admission!vars
<1>1. ASSUME NEW room \in Rooms, AddCamera(room)
      PROVE [Admission!Next]_Admission!vars
  BY <1>0, <1>1 DEF AddCamera
<1>2. ASSUME NEW room \in Rooms, NEW viewer \in ViewerIds,
             RequestUnknown(room, viewer) \/ RequestRefused(room, viewer)
      PROVE [Admission!Next]_Admission!vars
  BY <1>0, <1>2 DEF RequestUnknown, RequestRefused
<1>3. ASSUME NEW room \in Rooms, NEW viewer \in ViewerIds, NEW b \in Branches,
             RequestServed(room, viewer, b)
      PROVE [Admission!Next]_Admission!vars
  BY <1>3, <1>m, GrantRefines DEF RequestServed
<1>4. ASSUME NEW room \in Rooms, NEW viewer \in ViewerIds, NEW b \in Branches,
             NEW stage \in FailedAt, RequestFailed(room, viewer, b, stage)
      PROVE [Admission!Next]_Admission!vars
  BY <1>4, <1>m, GrantRefines DEF RequestFailed
<1>5. ASSUME NEW room \in Rooms, NEW viewer \in ViewerIds,
             Disconnect(room, viewer)
      PROVE [Admission!Next]_Admission!vars
  <2>1. CASE room \in cameras
    <3>1. Occupied' = Occupied \ {<<room, viewer>>}
      BY <1>5, <2>1, DisconnectFrees DEF Disconnect
    <3>2. QED
      BY <3>1, <1>m DEF Admission!Next, Admission!Release
  <2>2. CASE room \notin cameras
    BY <1>0, <1>5, <2>2 DEF Disconnect
  <2>3. QED
    BY <2>1, <2>2
<1>6. CASE UNCHANGED vars
  BY <1>0, <1>6 DEF vars
<1>7. QED
  BY <1>1, <1>2, <1>3, <1>4, <1>5, <1>6 DEF Next, Operation

\* The sessions implement the slot pool: slots are granted one at a time and
\* only under the cap, and given back one at a time.
THEOREM SessionsImplementAdmission == Spec => AdmissionSpec
BY TypeCorrect, InitRefines, StepRefines, PTL
DEF Spec, AdmissionSpec, Admission!Spec

-----------------------------------------------------------------------------
(* What a disconnect leaves behind.                                        *)

\* The branch a disconnect takes out of the pipeline is no orphan before, because
\* an entry names it, and not after; what it leaves is named by the same entries.
LEMMA DisconnectKeepsOrphans ==
  ASSUME TypeOK, NEW room \in Rooms, NEW viewer \in ViewerIds,
         Disconnect(room, viewer)
  PROVE  Orphans' = Orphans
<1> DEFINE slot == <<room, viewer>>
<1>1. CASE room \in cameras
  <2>1. /\ webrtcbins' = webrtcbins \ {viewers[slot]}
        /\ teePads' = teePads \ {viewers[slot]}
        /\ viewers' = [viewers EXCEPT ![slot] = NoPeer]
    BY <1>1 DEF Disconnect, TearDown
  <2>2. slot \in Slots /\ viewers \in [Slots -> Branches \cup {NoPeer, NoBranch}]
    BY DEF TypeOK, Slots
  <2>3. /\ viewers'[slot] = NoPeer
        /\ \A s \in Slots \ {slot} : viewers'[s] = viewers[s]
    BY <2>1, <2>2
  <2>4. NoPeer \notin webrtcbins \cup teePads
    BY DistinctMarkers DEF TypeOK
  <2>5. QED
    BY <2>1, <2>2, <2>3, <2>4 DEF Orphans
<1>2. CASE room \notin cameras
  BY <1>2 DEF Disconnect, pipeline, Orphans
<1>3. QED
  BY <1>1, <1>2

\* A disconnect neither leaves a webrtcbin or a tee pad behind that no entry
\* names nor takes one away, for any rooms, viewers and branches.
THEOREM NoOrphanOnDisconnect == Spec => DisconnectLeavesNoOrphan
<1> DEFINE Kept == \A room \in Rooms, viewer \in ViewerIds :
                      Disconnect(room, viewer) => Orphans' = Orphans
<1>1. TypeOK /\ [Next]_vars => [Kept]_vars
  BY DisconnectKeepsOrphans
<1>2. QED
  BY <1>1, TypeCorrect, PTL DEF Spec, DisconnectLeavesNoOrphan

=============================================================================
