-------------------------- MODULE MCUniqueIndexSet --------------------------
(* Small instances of UniqueIndexSet for TLC: the constants are given in the
   .cfg files. *)
EXTENDS UniqueIndexSet
=============================================================================
