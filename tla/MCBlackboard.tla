--------------------------- MODULE MCBlackboard ---------------------------
(* Small instances of Blackboard for TLC: the constants are given in the .cfg
   files. *)
EXTENDS Blackboard
=============================================================================
