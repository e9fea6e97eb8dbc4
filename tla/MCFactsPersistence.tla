------------------------ MODULE MCFactsPersistence ------------------------
(* FactsPersistence.tla for TLC. *)
EXTENDS FactsPersistence

CONSTANTS fact1, fact2, fact3
=============================================================================
