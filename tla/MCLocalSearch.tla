--------------------------- MODULE MCLocalSearch ---------------------------
(* Instances of LocalSearch for TLC: "a" and "alias" compile to the same   *)
(* source; "a" is a compiler seed.                                         *)
EXTENDS LocalSearch

TwoSources == [c \in Configs |-> IF c = "other" THEN "s2" ELSE "s1"]
=============================================================================
