-------------------------- MODULE MCStallDetection --------------------------
(* Instances of StallDetection for TLC. *)
EXTENDS StallDetection
=============================================================================
