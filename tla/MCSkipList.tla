----------------------------- MODULE MCSkipList -----------------------------
(* SkipList.tla for TLC. *)
EXTENDS SkipList, TLC

Perms == Permutations(Threads)
=============================================================================
