------------------------ MODULE MCSignalingSession ------------------------
(* Instances of SignalingSession for TLC. *)
EXTENDS SignalingSession
=============================================================================
