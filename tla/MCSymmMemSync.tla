---------------------------- MODULE MCSymmMemSync ----------------------------
(* Instances of SymmMemSync for TLC.  Calls 1, 2, 3 follow the three       *)
(* documented patterns: 1 opens a kernel (pattern 0), 2 is in its middle   *)
(* (pattern 1), 3 ends it (pattern 2).                                     *)
EXTENDS SymmMemSync

ThreePatterns_Previous == {2, 3} \cap 1..MaxRounds
ThreePatterns_Subsequent == {1, 2} \cap 1..MaxRounds
ThreePatterns_Launches == {1} \cap 1..MaxRounds
=============================================================================
