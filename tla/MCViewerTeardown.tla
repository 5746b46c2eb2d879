-------------------------- MODULE MCViewerTeardown --------------------------
(* Instances of ViewerTeardown for TLC. *)
EXTENDS ViewerTeardown, TLC

\* Sessions are interchangeable, and so are viewers.
Symmetry == Permutations(Sessions) \cup Permutations(Viewers)

=============================================================================
