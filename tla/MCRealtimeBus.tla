---------------------------- MODULE MCRealtimeBus ----------------------------
(* Instances of RealtimeBus for TLC. *)
EXTENDS RealtimeBus
=============================================================================
