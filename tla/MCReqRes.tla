----------------------------- MODULE MCReqRes -----------------------------
(* A small instance of ReqRes for TLC: the constants are given in the .cfg
   file. *)
EXTENDS ReqRes, TLC

(* Chunks are interchangeable and so are clients: no action depends on which
   one it is about, and the run checks no liveness property. *)
Interchangeable == Permutations(Chunk) \union Permutations(Client)
=============================================================================
