------------------------------ MODULE MC_Schema ------------------------------
(* Schema.tla with two tables, go_t and goxt; the first matches the second  *)
(* when its name is taken as a pattern.                                     *)
EXTENDS Schema

MCSiblings == [t \in Tables |-> IF t = "go_t" THEN Tables ELSE {t}]
=============================================================================
