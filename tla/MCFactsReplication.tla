------------------------- MODULE MCFactsReplication -------------------------
(* FactsReplication.tla for TLC. *)
EXTENDS FactsReplication, TLC

Symmetry == Permutations(Replicas) \cup Permutations(Triples)
=============================================================================
