---------------------------- MODULE IsolatedCall ----------------------------
(***************************************************************************)
(* What BenchmarkWorker promises its caller: jobs are answered one at a    *)
(* time and in order; an answer is the job's own result or a failure; and  *)
(* once the object is disabled every further job is refused.  Processes,   *)
(* pipes, timers and locks are the implementation's business.              *)
(***************************************************************************)
EXTENDS Naturals

CONSTANTS MaxCalls, Failures

Calls == 1..MaxCalls
None == 0

VARIABLES
  asked,     \* number of jobs submitted
  waiting,   \* the last one has not been answered
  refused,   \* it can only be answered "unkillable"
  disabled,  \* every later job is refused
  closed,    \* no more jobs are submitted
  answer     \* the answer to each job

vars == <<asked, waiting, refused, disabled, closed, answer>>

Answers == [kind : {"result"}, job : Calls] \cup [kind : Failures, job : {None}]

Init ==
  /\ asked = 0 /\ ~waiting /\ ~refused /\ ~disabled /\ ~closed
  /\ answer = [n \in Calls |-> [kind |-> "none", job |-> None]]

Submit ==
  /\ ~closed /\ ~waiting /\ asked < MaxCalls
  /\ asked' = asked + 1 /\ waiting' = TRUE /\ refused' = disabled
  /\ UNCHANGED <<disabled, closed, answer>>

Disable ==
  /\ ~disabled /\ disabled' = TRUE
  /\ refused' \in {refused, waiting}
  /\ UNCHANGED <<asked, waiting, closed, answer>>

Refuse ==
  /\ waiting /\ disabled /\ ~refused /\ refused' = TRUE
  /\ UNCHANGED <<asked, waiting, disabled, closed, answer>>

Reply ==
  /\ waiting /\ ~waiting' /\ ~refused'
  /\ \E a \in Answers :
       /\ a.kind = "result" => a.job = asked
       /\ (a.kind = "unkillable") = refused
       /\ answer' = [answer EXCEPT ![asked] = a]
  /\ UNCHANGED <<asked, disabled, closed>>

Close ==
  /\ ~waiting /\ ~closed /\ closed' = TRUE
  /\ UNCHANGED <<asked, waiting, refused, disabled, answer>>

Next == Submit \/ Disable \/ Refuse \/ Reply \/ Close

Spec == Init /\ [][Next]_vars
=============================================================================
