-------------------------- MODULE MCAutotuneCache --------------------------
(* Instances of AutotuneCache for TLC: c1 and c2 share a directory, c3 is  *)
(* on another host.                                                        *)
EXTENDS AutotuneCache

CONSTANTS c1, c2, c3, here, there

TwoHosts == [c \in Calls |-> IF c = c3 THEN there ELSE here]
=============================================================================
