------------------------------- MODULE MCNode -------------------------------
(* Values of the constants of Node that a cfg cannot write: two providers  *)
(* of the same rank after a better one, and two vectors of equal score.    *)
EXTENDS Node

MCRank == [p \in {"pa", "pb", "pc"} |-> IF p = "pa" THEN 1 ELSE 2]
MCScore == [e \in {"e1", "e2"} |-> 1]
=============================================================================
