----------------------------- MODULE MCSegments -----------------------------
(* A small instance of Segments for TLC: the constants are given in the .cfg
   file. *)
EXTENDS Segments, TLC

(* No action depends on which process or object it is about. *)
Interchangeable == Permutations(Process) \union Permutations(Object)
=============================================================================
