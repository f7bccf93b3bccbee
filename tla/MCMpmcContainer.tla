-------------------------- MODULE MCMpmcContainer --------------------------
(* A small instance of MpmcContainer for TLC: the constants are given in the
   .cfg file. *)
EXTENDS MpmcContainer, TLC

(* No action depends on which thread or value it is about. *)
Interchangeable == Permutations(Thread) \union Permutations(Value)
=============================================================================
