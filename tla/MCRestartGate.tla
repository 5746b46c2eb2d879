---------------------------- MODULE MCRestartGate ----------------------------
(* Instances of RestartGate for TLC. *)
EXTENDS RestartGate
=============================================================================
