-------------------------- MODULE MCZmqConsumption --------------------------
(* Instances of ZmqConsumption for TLC. *)
EXTENDS ZmqConsumption
=============================================================================
