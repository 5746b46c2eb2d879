-------------------------- MODULE MCViewerSessions --------------------------
(* Instances of ViewerSessions for TLC. *)
EXTENDS ViewerSessions, TLC

\* Rooms, viewers and branch identities are interchangeable.
Symmetry == Permutations(Rooms) \cup Permutations(ViewerIds) \cup Permutations(Branches)

=============================================================================
