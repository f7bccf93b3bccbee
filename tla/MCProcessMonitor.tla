------------------------- MODULE MCProcessMonitor -------------------------
(* A small instance of ProcessMonitor for TLC: the constants are given in
   MCProcessMonitor.cfg. *)
EXTENDS ProcessMonitor
=============================================================================
