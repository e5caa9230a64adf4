--------------------------- MODULE SourceVerdicts ---------------------------
(***************************************************************************)
(* What the tables of effective sources promise a search: each generated   *)
(* source has one verdict, a timing is never replaced by a failure to run, *)
(* a rejection is final, and the config that is returned has a source      *)
(* which was measured and not rejected.  Which configs share a source,     *)
(* which of them was run and when the others hear of it is the             *)
(* implementation's business.                                              *)
(***************************************************************************)
CONSTANT Sources

VARIABLES
  verdict,  \* of each source
  chosen,   \* the source of the config returned, as a set of at most one
  closed    \* the search is over

vars == <<verdict, chosen, closed>>

Verdicts == {"unknown", "failing", "measured", "rejected"}

Init ==
  /\ verdict = [s \in Sources |-> "unknown"]
  /\ chosen = {} /\ closed = FALSE

Becomes(S, v) ==
  /\ ~closed /\ chosen = {}
  /\ verdict' = [s \in Sources |-> IF s \in S THEN v ELSE verdict[s]]
  /\ UNCHANGED <<chosen, closed>>

\* A source failed to run; it may be tried again under another config.
Fail(s) == verdict[s] \in {"unknown", "failing"} /\ Becomes({s}, "failing")

Measure(s) == verdict[s] \in {"unknown", "failing"} /\ Becomes({s}, "measured")

Reject(S) == S # {} /\ Becomes(S, "rejected")

Choose(s) ==
  /\ ~closed /\ chosen = {} /\ verdict[s] = "measured"
  /\ chosen' = {s}
  /\ UNCHANGED <<verdict, closed>>

\* The tables are dropped.
Close ==
  /\ ~closed /\ closed' = TRUE
  /\ verdict' = [s \in Sources |-> "unknown"]
  /\ UNCHANGED chosen

Next ==
  \/ \E s \in Sources : Fail(s) \/ Measure(s) \/ Choose(s)
  \/ \E S \in SUBSET Sources : Reject(S)
  \/ Close

Spec == Init /\ [][Next]_vars
=============================================================================
