------------------------- MODULE MCServiceRegistry -------------------------
(* A small instance of ServiceRegistry for TLC: the constants are given in the
   .cfg file. *)
EXTENDS ServiceRegistry, TLC

(* Slashed and Underscored stand for "a/b" and "a_b", which have the same file. *)
SharedPath == [n \in Name |-> "a_b.ron"]

(* No action depends on which process or layout it is about, nor on which of the
   names, since all have one path. *)
Interchangeable == Permutations(Process) \union Permutations(Layout) \union Permutations(Name)
=============================================================================
