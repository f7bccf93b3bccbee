---------------------------- MODULE MCSpscQueue ----------------------------
(* Small instances of SpscQueue for TLC: the constants are given in the .cfg
   files. *)
EXTENDS SpscQueue
=============================================================================
