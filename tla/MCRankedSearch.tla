--------------------------- MODULE MCRankedSearch ---------------------------
(* Instances of RankedSearch for TLC: the cfg gives the constants.         *)
EXTENDS RankedSearch
=============================================================================
