------------------------------ MODULE MCFacts ------------------------------
(* Facts.tla and FactsReplay.tla for TLC. *)
EXTENDS FactsReplay

CONSTANTS tag1, tag2

(* Facts that share tags: two that facts_replace_tags treats as one entry, *)
(* and one with a tag in all three places.                                 *)
TwoTriples == {<<tag1, tag2, tag1>>, <<tag1, tag2, tag2>>}
ThreeTriples == TwoTriples \cup {<<tag1, tag1, tag1>>}
=============================================================================
