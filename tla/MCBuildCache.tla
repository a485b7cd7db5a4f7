---------------------------- MODULE MCBuildCache ----------------------------
(* Two tables of which the second reads the first. *)
EXTENDS BuildCache

Pair == [n \in 1 .. 2 |-> IF n = 1 THEN {} ELSE {1}]
=============================================================================
