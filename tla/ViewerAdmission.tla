-------------------------- MODULE ViewerAdmission --------------------------
(***************************************************************************)
(* What the gateway promises about viewer slots, with nothing of how it    *)
(* keeps the promise: a set of admitted <<room, viewer>> slots that grows  *)
(* one slot at a time while the selected cap leaves room, and shrinks one  *)
(* slot at a time.  VIEWER_LIMIT_MODE selects which cap is in force.       *)
(* ViewerSessions is shown to implement this specification.                *)
(***************************************************************************)
EXTENDS Naturals, FiniteSets

CONSTANTS
    Rooms,                 \* room names of the camera streams
    ViewerIds,             \* viewer_id values of the signaling server
    MaxViewersPerCamera,   \* cap of one room, enforced in "camera" mode
    MaxViewersPerGateway   \* cap of all rooms, enforced in "gateway" mode

VARIABLES
    viewerLimitMode,       \* "camera" or "gateway", fixed for a process
    admitted               \* the slots in use, a set of <<room, viewer>>

vars == <<viewerLimitMode, admitted>>

Slots == Rooms \X ViewerIds

\* The slots of one room.
InRoom(slots, room) == {slot \in slots : slot[1] = room}

HasFreeSlot(room) ==
    \/ /\ viewerLimitMode = "camera"
       /\ Cardinality(InRoom(admitted, room)) < MaxViewersPerCamera
    \/ /\ viewerLimitMode = "gateway"
       /\ Cardinality(admitted) < MaxViewersPerGateway

-----------------------------------------------------------------------------

Init ==
    /\ viewerLimitMode \in {"camera", "gateway"}
    /\ admitted = {}

\* A slot is granted only under the cap.
Admit(room, viewer) ==
    /\ HasFreeSlot(room)
    /\ admitted' = admitted \cup {<<room, viewer>>}

\* Exactly one slot is given back.
Release(room, viewer) ==
    admitted' = admitted \ {<<room, viewer>>}

Next ==
    /\ UNCHANGED viewerLimitMode
    /\ \E room \in Rooms, viewer \in ViewerIds :
          Admit(room, viewer) \/ Release(room, viewer)

Spec == Init /\ [][Next]_vars

=============================================================================
