--------------------------- MODULE MCFactsOpened ---------------------------
(* FactsOpened.tla for TLC. *)
EXTENDS FactsOpened, TLC

Perms == Permutations(Threads) \cup Permutations(Objects)
           \cup Permutations(Cells) \cup Permutations(Slots)
           \cup Permutations(Paths)
=============================================================================
