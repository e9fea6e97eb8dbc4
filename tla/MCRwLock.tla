------------------------------ MODULE MCRwLock ------------------------------
(* RwLock.tla for TLC. *)
EXTENDS RwLock
=============================================================================
