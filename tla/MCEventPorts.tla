---------------------------- MODULE MCEventPorts ----------------------------
(* A small instance of EventPorts for TLC: the constants are given in the .cfg
   file. *)
EXTENDS EventPorts
=============================================================================
