------------------------- MODULE MCStatePersistence -------------------------
(* Instances of StatePersistence for TLC. *)
EXTENDS StatePersistence, TLC

\* Rooms are interchangeable.
Symmetry == Permutations(Rooms)

=============================================================================
