-------------------------- MODULE MCPrecompilePool --------------------------
(* Instances of PrecompilePool for TLC: the cfg gives the constants.       *)
(* "warn" and "debug" differ only in what is logged; an unreadable result  *)
(* is reported as "warn" in any case.                                      *)
EXTENDS PrecompilePool
=============================================================================
