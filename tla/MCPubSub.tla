------------------------------ MODULE MCPubSub ------------------------------
(* Small instances of PubSub for TLC: the constants are given in the .cfg files. *)
EXTENDS PubSub
=============================================================================
