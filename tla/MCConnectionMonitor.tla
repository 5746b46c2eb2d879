------------------------- MODULE MCConnectionMonitor -------------------------
(* The monitor has no constants: the whole state space of one session. *)
EXTENDS ConnectionMonitor

=============================================================================
