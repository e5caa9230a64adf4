------------------------ MODULE BenchmarkWorkerProofs ------------------------
(***************************************************************************)
(* Machine-checked facts about BenchmarkWorker, for any number of calls,   *)
(* any kinds of results (the unreadable ones included) and with or without *)
(* KeyboardInterrupts.                                                     *)
(***************************************************************************)
EXTENDS BenchmarkWorker, FiniteSetTheorems, TLAPS

USE MaxCallsAssumption, ResultKindsAssumption, MayInterruptAssumption
USE DEF vars, object, thread, timers, pipes, procs, Goto, PCs, Verdicts

-----------------------------------------------------------------------------
(* The inductive invariant behind ResultIsForThisJob: what may be in the   *)
(* pipe of the worker in use at each point of run().                       *)

\* Nothing asked of w is unanswered, and no answer of w is unread.
Quiet(w) == inbox[w] = <<>> /\ doing[w] = None /\ outbox[w] = <<>>

\* At most the job of this call is under way at w.
OnlyThisJob(w) ==
  \/ Quiet(w)
  \/ inbox[w] = <<call>> /\ doing[w] = None /\ outbox[w] = <<>>
  \/ inbox[w] = <<>> /\ doing[w] = call /\ outbox[w] = <<>>
  \/ /\ inbox[w] = <<>> /\ doing[w] = None
     /\ \E k \in Kinds : outbox[w] = << [job |-> call, kind |-> k] >>

Bound == {"send", "poll", "recv", "kill", "killing", "check"}

\* From Bind on the fields hold this call's worker or nothing.
BoundInv ==
  /\ pc \notin {"idle", "closed", "joining", "closing", "reaping"} => call # None
  /\ pc \in Bound => mine # None /\ current \in {mine, None}
  /\ pc = "finally" /\ verdict \in {"none", "result", "garbled"}
       => mine # None /\ current \in {mine, None}

\* A result in hand answers this call and was the only one.
HasResult == Quiet(mine) /\ got \in Result /\ got.job = call

ResultInv ==
  /\ pc \in {"enter", "start", "bind", "send", "poll", "recv", "check"}
       => verdict = "none"
  /\ pc \in {"kill", "killing"} => verdict \in {"timeout", "died", "result"}
  /\ pc = "check" => HasResult
  /\ pc \in {"kill", "killing"} /\ verdict = "result" => HasResult
  /\ pc = "finally" /\ verdict \in {"none", "result"} => HasResult
  /\ pc = "finally" /\ verdict = "garbled" => Quiet(mine)
  /\ pc = "finally" /\ verdict \in {"timeout", "died", "assertion", "unkillable"}
       => fatal \/ current = None

Interrupted == \E n \in Calls : outcome[n].kind = "interrupted"

PipeInv ==
  /\ pc \in {"enter", "start", "bind"} /\ current # None => Quiet(current)
  /\ pc = "send" => Quiet(mine)
  /\ pc \in {"poll", "recv"} => OnlyThisJob(mine)
  /\ pc = "idle" => Interrupted \/ fatal \/ current = None \/ Quiet(current)

IInv == TypeOK /\ BoundInv /\ ResultInv /\ PipeInv /\ ResultIsForThisJob

-----------------------------------------------------------------------------
(* Arrays of queues.                                                       *)

\* The empty queue is a queue of anything.
LEMMA EmptyQueue == ASSUME NEW S PROVE <<>> \in Seq(S)
OBVIOUS

\* A queue stays one when something is put in ...
LEMMA AppendQueue ==
  ASSUME NEW S, NEW s \in Seq(S), NEW x \in S PROVE Append(s, x) \in Seq(S)
OBVIOUS

\* ... and when its head is taken out.
LEMMA TailQueue ==
  ASSUME NEW S, NEW s \in Seq(S), s # <<>> PROVE Tail(s) \in Seq(S)
OBVIOUS

\* Changing one place of an array to a value of its type keeps the type.
LEMMA ExceptType ==
  ASSUME NEW S, NEW T, NEW f \in [T -> S], NEW w, NEW x, w \in T => x \in S
  PROVE  [f EXCEPT ![w] = x] \in [T -> S]
OBVIOUS

\* So does putting something into one queue of an array of queues ...
LEMMA AppendType ==
  ASSUME NEW S, NEW T, NEW f \in [T -> Seq(S)], NEW w, NEW x \in S
  PROVE  [f EXCEPT ![w] = Append(@, x)] \in [T -> Seq(S)]
<1>1. w \in T => Append(f[w], x) \in Seq(S)
  BY AppendQueue
<1> QED
  BY <1>1, ExceptType

\* ... taking the head of one ...
LEMMA TailType ==
  ASSUME NEW S, NEW T, NEW f \in [T -> Seq(S)], NEW w, f[w] # <<>>
  PROVE  [f EXCEPT ![w] = Tail(@)] \in [T -> Seq(S)]
<1>1. w \in T => Tail(f[w]) \in Seq(S)
  BY TailQueue
<1> QED
  BY <1>1, ExceptType

\* ... and emptying one.
LEMMA EmptyType ==
  ASSUME NEW S, NEW T, NEW f \in [T -> Seq(S)], NEW w
  PROVE  [f EXCEPT ![w] = <<>>] \in [T -> Seq(S)]
<1>1. <<>> \in Seq(S)
  BY EmptyQueue
<1> QED
  BY <1>1, ExceptType

-----------------------------------------------------------------------------
(* Type correctness.                                                       *)

\* After _kill the object is disabled or has forgotten its worker.
LEMMA ReapType ==
  ASSUME TypeOK, NEW w, Reap(w)
  PROVE  /\ current' \in {current, None} /\ fatal' \in BOOLEAN
         /\ open' \in [Calls -> BOOLEAN]
         /\ fatal => fatal'
         /\ fatal' \/ current' = None
<1>1. CASE IsAlive(w)
  BY <1>1 DEF TypeOK, Reap
<1>2. CASE ~IsAlive(w)
  BY <1>2 DEF TypeOK, Reap
<1> QED
  BY <1>1, <1>2

\* A signal keeps the types.
LEMMA SigkillType ==
  ASSUME TypeOK, NEW w, Sigkill(w)
  PROVE  proc' \in [Calls -> {"unborn", "running", "killed", "exited"}]
BY DEF TypeOK, Sigkill

\* Leaving run() records an outcome and forgets the worker of the call.
LEMMA ReturnType ==
  ASSUME TypeOK, ResultInv, pc \in {"finally", "check"}, Return,
         pc = "finally" => verdict # "none"
  PROVE  /\ outcome' \in [Calls -> Outcomes] /\ open' \in [Calls -> BOOLEAN]
         /\ mine' = None /\ pc' = "idle"
<1>1. verdict \in {"none", "result"} => got.job \in Calls
  BY DEF TypeOK, ResultInv, HasResult, Result
<1>2. \A a \in Outcomes : [outcome EXCEPT ![call] = a] \in [Calls -> Outcomes]
  BY ExceptType DEF TypeOK
<1>3. (IF verdict \in {"none", "result"}
         THEN [kind |-> "result", job |-> got.job]
         ELSE [kind |-> verdict, job |-> None]) \in Outcomes
  BY <1>1 DEF TypeOK, Outcomes
<1> QED
  BY <1>2, <1>3 DEF TypeOK, Return

\* Inboxes and outboxes are queues.
LEMMA TypeQueues ==
  TypeOK => /\ inbox \in [Calls -> Seq(Calls \cup {Stop})]
            /\ outbox \in [Calls -> Seq(Result)]
BY DEF TypeOK

\* Every step of run() keeps the types.
LEMMA RunTypeOK ==
  ASSUME TypeOK, BoundInv, ResultInv, RunEnter \/ RunStep
  PROVE  TypeOK'
<1>1. CASE RunEnter
  <2>1. call' \in Calls
    BY <1>1 DEF TypeOK, RunEnter, Calls, None
  <2> QED
    BY <1>1, <2>1 DEF TypeOK, RunEnter, Raise
<1>2. CASE RunTestAlive
  BY <1>2 DEF TypeOK, RunTestAlive
<1>3. CASE Start
  <2>1. CASE fatal
    BY <1>3, <2>1 DEF TypeOK, Start, Raise
  <2>2. CASE ~fatal
    <3>1. /\ inbox' = [inbox EXCEPT ![call] = <<>>]
          /\ outbox' = [outbox EXCEPT ![call] = <<>>]
      BY <1>3, <2>2 DEF Start
    <3>2. inbox' \in [Calls -> Seq(Calls \cup {Stop})]
      BY <3>1, TypeQueues, EmptyType
    <3>3. outbox' \in [Calls -> Seq(Result)]
      BY <3>1, TypeQueues, EmptyType
    <3> QED
      BY <1>3, <2>2, <3>2, <3>3 DEF TypeOK, Start
  <2> QED
    BY <2>1, <2>2
<1>4. CASE Bind
  <2>1. CASE current = None
    BY <1>4, <2>1 DEF TypeOK, Bind, Raise
  <2>2. CASE current # None
    <3>1. /\ target' = [target EXCEPT ![call] = current]
          /\ timer' = [timer EXCEPT ![call] = "armed"]
          /\ pc' = "send" /\ mine' = current /\ UNCHANGED <<timedOut, verdict>>
      BY <1>4, <2>2 DEF Bind
    <3>2. target' \in [Calls -> Calls \cup {None}]
      BY <3>1, ExceptType DEF TypeOK
    <3>3. timer' \in [Calls -> {"off", "armed", "fired", "killing", "over"}]
      BY <3>1, ExceptType DEF TypeOK
    <3> QED
      BY <1>4, <3>1, <3>2, <3>3 DEF TypeOK, Bind
  <2> QED
    BY <2>1, <2>2
<1>5. CASE Send
  <2>1. CASE open[mine] /\ proc[mine] # "exited"
    <3>1. inbox' = [inbox EXCEPT ![mine] = Append(@, call)]
      BY <1>5, <2>1 DEF Send
    <3>2. call \in Calls \cup {Stop}
      BY DEF TypeOK, None, Stop
    <3>3. inbox' \in [Calls -> Seq(Calls \cup {Stop})]
      BY <3>1, <3>2, TypeQueues, AppendType
    <3> QED
      BY <1>5, <2>1, <3>3 DEF TypeOK, Send
  <2>2. CASE ~(open[mine] /\ proc[mine] # "exited")
    BY <1>5, <2>2 DEF TypeOK, Send, ConnectionError, KillThenRaise
  <2> QED
    BY <2>1, <2>2
<1>6. CASE PollReady
  BY <1>6 DEF TypeOK, PollReady, ConnectionError, KillThenRaise
<1>7. CASE PollTimeout
  BY <1>7 DEF TypeOK, PollTimeout, KillThenRaise
<1>8. CASE Interrupt
  BY <1>8 DEF TypeOK, Interrupt, Raise
<1>9. CASE Recv
  <2>1. CASE open[mine] /\ outbox[mine] # <<>>
    <3>1. /\ outbox' = [outbox EXCEPT ![mine] = Tail(@)]
          /\ got' = Head(outbox[mine])
      BY <1>9, <2>1 DEF Recv
    <3>2. outbox' \in [Calls -> Seq(Result)]
      BY <2>1, <3>1, TypeQueues, TailType
    <3>3. got' \in Result
      <4>1. mine \in Calls
        BY <1>9 DEF TypeOK, Recv, BoundInv, Bound
      <4>2. outbox[mine] \in Seq(Result)
        BY <4>1, TypeQueues
      <4> QED
        BY <2>1, <3>1, <4>2
    <3> QED
      BY <1>9, <2>1, <3>2, <3>3 DEF TypeOK, Recv, Raise
  <2>2. CASE ~(open[mine] /\ outbox[mine] # <<>>)
    BY <1>9, <2>2 DEF TypeOK, Recv, ConnectionError, KillThenRaise
  <2> QED
    BY <2>1, <2>2
<1>10. CASE Kill
  BY <1>10, SigkillType DEF TypeOK, Kill, Raise
<1>11. CASE KillDone
  BY <1>11, ReapType DEF TypeOK, KillDone, Raise
<1>12. CASE Finally
  <2>1. timer' \in [Calls -> {"off", "armed", "fired", "killing", "over"}]
    BY <1>12 DEF TypeOK, Finally
  <2>2. CASE verdict = "none"
    BY <1>12, <2>1, <2>2 DEF TypeOK, Finally
  <2>3. CASE verdict # "none"
    <3>1. /\ outcome' \in [Calls -> Outcomes] /\ open' \in [Calls -> BOOLEAN]
          /\ mine' = None /\ pc' = "idle"
      BY <1>12, <2>3, ReturnType DEF Finally
    <3> QED
      BY <1>12, <2>1, <3>1 DEF TypeOK, Finally
  <2> QED
    BY <2>2, <2>3
<1>13. CASE Check
  BY <1>13, ReturnType DEF TypeOK, Check, KillThenRaise
<1> QED
  BY <1>1, <1>2, <1>3, <1>4, <1>5, <1>6, <1>7, <1>8, <1>9, <1>10, <1>11,
     <1>12, <1>13 DEF RunStep

\* Every step of shutdown() keeps the types.
LEMMA ShutdownTypeOK ==
  ASSUME TypeOK, ShutdownBegin \/ ShutdownStep
  PROVE  TypeOK'
<1>1. CASE ShutdownBegin
  <2>1. CASE IsAlive(current) /\ open[current]
    <3>1. inbox' = [inbox EXCEPT ![current] = Append(@, Stop)]
      BY <1>1, <2>1 DEF ShutdownBegin
    <3>2. inbox' \in [Calls -> Seq(Calls \cup {Stop})]
      BY <3>1, TypeQueues, AppendType
    <3> QED
      BY <1>1, <2>1, <3>2 DEF TypeOK, ShutdownBegin
  <2>2. CASE ~(IsAlive(current) /\ open[current])
    BY <1>1, <2>2 DEF TypeOK, ShutdownBegin
  <2> QED
    BY <2>1, <2>2
<1>2. CASE ShutdownJoin
  BY <1>2 DEF TypeOK, ShutdownJoin
<1>3. CASE ShutdownKill
  BY <1>3, SigkillType DEF TypeOK, ShutdownKill
<1>4. CASE ShutdownReap
  BY <1>4, ReapType DEF TypeOK, ShutdownReap
<1> QED
  BY <1>1, <1>2, <1>3, <1>4 DEF ShutdownStep

\* A timer thread touches the fields, its process and its own state only.
LEMMA TimerFrame ==
  ASSUME TypeOK, NEW n \in Calls, TimerStep(n)
  PROVE  /\ UNCHANGED <<thread, outcome, target, doing, inbox, outbox>>
         /\ current' \in {current, None}
         /\ fatal => fatal'
BY ReapType DEF TimerStep, TimerFire, TimerKill, TimerKillDone

\* Every step of a timer keeps the types.
LEMMA TimerTypeOK ==
  ASSUME TypeOK, NEW n \in Calls, TimerStep(n)
  PROVE  TypeOK'
<1>1. CASE TimerFire(n)
  BY <1>1 DEF TypeOK, TimerFire
<1>2. CASE TimerKill(n)
  <2>1. proc' \in [Calls -> {"unborn", "running", "killed", "exited"}]
    BY <1>2, SigkillType DEF TimerKill, TypeOK
  <2>2. timer' \in [Calls -> {"off", "armed", "fired", "killing", "over"}]
    <3>1. timer' \in {[timer EXCEPT ![n] = "killing"], [timer EXCEPT ![n] = "over"]}
      BY <1>2 DEF TimerKill
    <3> QED
      BY <3>1 DEF TypeOK
  <2>3. lock' \in {"free", "run", "timer"} /\ UNCHANGED <<fatal, timedOut, open>>
    BY <1>2 DEF TimerKill, TypeOK
  <2> QED
    BY <2>1, <2>2, <2>3, TimerFrame DEF TypeOK
<1>3. CASE TimerKillDone(n)
  BY <1>3, ReapType DEF TypeOK, TimerKillDone
<1> QED
  BY <1>1, <1>2, <1>3 DEF TimerStep

\* A worker process touches its own state and its end of the pipe only.
LEMMA WorkerFrame ==
  ASSUME NEW w \in Calls, WorkerStep(w)
  PROVE  UNCHANGED <<object, thread, outcome, timers, open>>
BY DEF WorkerStep, WorkerRecv, WorkerRecvEOF, WorkerFinish, WorkerCrash, ProcExit

\* Every step of a worker keeps the types.
LEMMA WorkerTypeOK ==
  ASSUME TypeOK, NEW w \in Calls, WorkerStep(w)
  PROVE  TypeOK'
<1>1. proc' \in [Calls -> {"unborn", "running", "killed", "exited"}]
  BY DEF TypeOK, WorkerStep, WorkerRecv, WorkerRecvEOF, WorkerFinish,
         WorkerCrash, ProcExit
<1>2. CASE WorkerRecv(w)
  <2>1. /\ inbox' = [inbox EXCEPT ![w] = Tail(@)] /\ inbox[w] # <<>>
        /\ doing' \in {doing, [doing EXCEPT ![w] = Head(inbox[w])]}
        /\ Head(inbox[w]) = Stop => doing' = doing
        /\ UNCHANGED outbox
    BY <1>2 DEF WorkerRecv
  <2>2. Head(inbox[w]) \in Calls \cup {Stop}
    BY <2>1, TypeQueues
  <2>3. inbox' \in [Calls -> Seq(Calls \cup {Stop})]
    BY <2>1, TypeQueues, TailType
  <2>4. doing' \in [Calls -> Calls \cup {None}]
    BY <2>1, <2>2 DEF TypeOK
  <2> QED
    <3>1. UNCHANGED <<object, thread, outcome, timers, open, outbox>>
      BY <2>1, WorkerFrame
    <3> QED
      BY <1>1, <3>1, <2>3, <2>4 DEF TypeOK
<1>3. CASE WorkerFinish(w)
  <2>1. UNCHANGED inbox /\ doing' \in [Calls -> Calls \cup {None}]
    BY <1>3 DEF TypeOK, WorkerFinish
  <2>2. outbox' \in [Calls -> Seq(Result)]
    <3>1. CASE open[w]
      <4>1. PICK k \in ResultKinds :
              outbox' = [outbox EXCEPT
                           ![w] = Append(@, [job |-> doing[w], kind |-> k])]
        BY <1>3, <3>1 DEF WorkerFinish
      <4>2. [job |-> doing[w], kind |-> k] \in Result
        BY <1>3 DEF TypeOK, WorkerFinish, Result
      <4> QED
        BY <4>1, <4>2, TypeQueues, AppendType
    <3>2. CASE ~open[w]
      BY <1>3, <3>2 DEF TypeOK, WorkerFinish
    <3> QED
      BY <3>1, <3>2
  <2> QED
    <3>1. UNCHANGED <<object, thread, outcome, timers, open>>
      BY WorkerFrame
    <3> QED
      BY <1>1, <2>1, <2>2, <3>1 DEF TypeOK
<1>4. CASE WorkerRecvEOF(w) \/ WorkerCrash(w) \/ ProcExit(w)
  <2>1. UNCHANGED <<doing, inbox, outbox>>
    BY <1>4 DEF WorkerRecvEOF, WorkerCrash, ProcExit
  <2> QED
    BY <1>1, <2>1, WorkerFrame DEF TypeOK
<1> QED
  BY <1>2, <1>3, <1>4 DEF WorkerStep

-----------------------------------------------------------------------------
(* The pipe invariant is inductive.                                        *)

\* A fresh object satisfies the invariant.
LEMMA InitIInv == Init => IInv
<1> SUFFICES ASSUME Init PROVE IInv
  OBVIOUS
<1>1. TypeOK
  <2>1. Pending \in Outcomes
    BY DEF Pending, Outcomes
  <2>2. /\ inbox \in [Calls -> Seq(Calls \cup {Stop})]
        /\ outbox \in [Calls -> Seq(Result)]
    BY EmptyQueue DEF Init
  <2> QED
    BY <2>1, <2>2 DEF Init, TypeOK
<1>2. BoundInv /\ ResultInv /\ PipeInv
  BY DEF Init, BoundInv, Bound, ResultInv, PipeInv
<1>3. ResultIsForThisJob
  BY DEF Init, Pending, ResultIsForThisJob
<1> QED
  BY <1>1, <1>2, <1>3 DEF IInv

\* Timers take workers away but put nothing into a pipe.
LEMMA TimerIInv ==
  ASSUME IInv, NEW n \in Calls, TimerStep(n)
  PROVE  IInv'
<1>1. TypeOK'
  BY TimerTypeOK DEF IInv
<1>2. BoundInv'
  BY TimerFrame DEF IInv, BoundInv
<1>3. ResultInv'
  BY TimerFrame DEF IInv, ResultInv, HasResult, Quiet
<1>4. PipeInv'
  BY TimerFrame DEF IInv, PipeInv, Quiet, OnlyThisJob, Interrupted
<1>5. ResultIsForThisJob'
  BY TimerFrame DEF IInv, ResultIsForThisJob
<1> QED
  BY <1>1, <1>2, <1>3, <1>4, <1>5 DEF IInv

\* A quiet worker stays quiet, and one that has this call's job can only
\* pass it on.
LEMMA WorkerPipe ==
  ASSUME TypeOK, NEW w \in Calls, WorkerStep(w), NEW x \in Calls
  PROVE  /\ Quiet(x) => Quiet(x)'
         /\ OnlyThisJob(x) /\ call # None => OnlyThisJob(x)'
<1>1. CASE x # w
  <2>1. /\ inbox'[x] = inbox[x] /\ doing'[x] = doing[x]
        /\ outbox'[x] = outbox[x] /\ call' = call
    BY <1>1 DEF TypeOK, WorkerStep, WorkerRecv, WorkerRecvEOF, WorkerFinish,
                WorkerCrash, ProcExit
  <2> QED
    BY <2>1 DEF Quiet, OnlyThisJob
<1>2. CASE x = w /\ WorkerRecv(w)
  <2>1. /\ doing[w] = None /\ inbox[w] # <<>>
        /\ inbox'[w] = Tail(inbox[w]) /\ outbox'[w] = outbox[w] /\ call' = call
        /\ Head(inbox[w]) # Stop => doing'[w] = Head(inbox[w])
    BY <1>2 DEF TypeOK, WorkerRecv
  <2>2. Head(<<call>>) = call /\ Tail(<<call>>) = <<>>
    OBVIOUS
  <2> QED
    BY <1>2, <2>1, <2>2 DEF Quiet, OnlyThisJob, Stop, None
<1>3. CASE x = w /\ WorkerFinish(w)
  <2>1. /\ doing[w] # None /\ doing'[w] = None
        /\ inbox'[w] = inbox[w] /\ call' = call
        /\ \/ outbox'[w] = outbox[w]
           \/ \E k \in Kinds :
                outbox'[w] = Append(outbox[w], [job |-> doing[w], kind |-> k])
    <3>1. /\ doing' = [doing EXCEPT ![w] = None] /\ doing[w] # None
          /\ UNCHANGED <<inbox, call>>
      BY <1>3 DEF WorkerFinish
    <3>2. w \in DOMAIN doing /\ w \in DOMAIN outbox
      BY DEF TypeOK
    <3>3. doing'[w] = None
      BY <3>1, <3>2
    <3>4. CASE open[w]
      <4>1. PICK k \in ResultKinds :
              outbox' = [outbox EXCEPT
                           ![w] = Append(@, [job |-> doing[w], kind |-> k])]
        BY <1>3, <3>4 DEF WorkerFinish
      <4>2. outbox'[w] = Append(outbox[w], [job |-> doing[w], kind |-> k])
        BY <3>2, <4>1
      <4> QED
        BY <3>1, <3>3, <4>2
    <3>5. CASE ~open[w]
      BY <1>3, <3>1, <3>3, <3>5 DEF WorkerFinish
    <3> QED
      BY <3>4, <3>5
  <2>2. \A r : Append(<<>>, r) = <<r>>
    OBVIOUS
  <2> QED
    BY <1>3, <2>1, <2>2 DEF Quiet, OnlyThisJob
<1>4. CASE WorkerRecvEOF(w) \/ WorkerCrash(w) \/ ProcExit(w)
  BY <1>4 DEF WorkerRecvEOF, WorkerCrash, ProcExit, Quiet, OnlyThisJob
<1> QED
  BY <1>1, <1>2, <1>3, <1>4 DEF WorkerStep

\* Every step of a worker keeps the invariant: the job of the call moves on.
LEMMA WorkerIInv ==
  ASSUME IInv, NEW w \in Calls, WorkerStep(w)
  PROVE  IInv'
<1>1. TypeOK /\ TypeOK'
  BY WorkerTypeOK DEF IInv
<1>2. current \in Calls \cup {None} /\ mine \in Calls \cup {None}
  BY <1>1 DEF TypeOK
<1>3. BoundInv'
  BY WorkerFrame DEF IInv, BoundInv
<1>4. ResultInv'
  BY <1>1, <1>2, WorkerFrame, WorkerPipe
     DEF IInv, BoundInv, Bound, ResultInv, HasResult
<1>5. PipeInv'
  BY <1>1, <1>2, WorkerFrame, WorkerPipe
     DEF IInv, BoundInv, Bound, PipeInv, Interrupted
<1>6. ResultIsForThisJob'
  BY WorkerFrame DEF IInv, ResultIsForThisJob
<1> QED
  BY <1>1, <1>3, <1>4, <1>5, <1>6 DEF IInv

\* Every step of run() keeps the fields bound to the worker of the call.
LEMMA RunBoundInv ==
  ASSUME IInv, RunEnter \/ RunStep
  PROVE  BoundInv'
<1> USE DEF IInv, BoundInv, Bound
<1>1. CASE RunEnter
  BY <1>1 DEF RunEnter, Raise, TypeOK, Calls, None
<1>2. CASE RunTestAlive
  BY <1>2 DEF RunTestAlive
<1>3. CASE Start
  BY <1>3 DEF Start, Raise
<1>4. CASE Bind
  BY <1>4 DEF Bind, Raise, PipeInv
<1>5. CASE Send
  BY <1>5 DEF Send, ConnectionError, KillThenRaise
<1>6. CASE PollReady
  BY <1>6 DEF PollReady, ConnectionError, KillThenRaise
<1>7. CASE PollTimeout
  BY <1>7 DEF PollTimeout, KillThenRaise
<1>8. CASE Interrupt
  BY <1>8 DEF Interrupt, Raise
<1>9. CASE Recv
  BY <1>9 DEF Recv, Raise, ConnectionError, KillThenRaise
<1>10. CASE Kill
  BY <1>10 DEF Kill, Raise
<1>11. CASE KillDone
  BY <1>11, ReapType DEF KillDone, Raise
<1>12. CASE Finally
  BY <1>12 DEF Finally, Return
<1>13. CASE Check
  BY <1>13 DEF Check, Return, KillThenRaise
<1> QED
  BY <1>1, <1>2, <1>3, <1>4, <1>5, <1>6, <1>7, <1>8, <1>9, <1>10, <1>11,
     <1>12, <1>13 DEF RunStep

\* Every step of run() keeps what is known of a result and of a failure.
LEMMA RunResultInv ==
  ASSUME IInv, RunEnter \/ RunStep
  PROVE  ResultInv'
<1> USE DEF IInv, ResultInv, HasResult
<1>1. CASE RunEnter
  BY <1>1 DEF RunEnter, Raise
<1>2. CASE RunTestAlive
  BY <1>2 DEF RunTestAlive
<1>3. CASE Start
  BY <1>3 DEF Start, Raise
<1>4. CASE Bind
  BY <1>4 DEF Bind, Raise
<1>5. CASE Send
  BY <1>5 DEF Send, ConnectionError, KillThenRaise
<1>6. CASE PollReady
  BY <1>6 DEF PollReady, ConnectionError, KillThenRaise
<1>7. CASE PollTimeout
  BY <1>7 DEF PollTimeout, KillThenRaise
<1>8. CASE Interrupt
  BY <1>8 DEF Interrupt, Raise
<1>9. CASE Recv
  <2>1. CASE open[mine] /\ outbox[mine] # <<>>
    <3>1. PICK k \in Kinds : outbox[mine] = << [job |-> call, kind |-> k] >>
      BY <1>9, <2>1 DEF Recv, PipeInv, OnlyThisJob, Quiet
    <3>2. inbox[mine] = <<>> /\ doing[mine] = None
      BY <1>9, <2>1 DEF Recv, PipeInv, OnlyThisJob, Quiet
    <3>3. /\ mine \in Calls /\ call \in Calls
          /\ [job |-> call, kind |-> k] \in Result
      BY <1>9 DEF Recv, BoundInv, Bound, TypeOK, Result
    <3>4. /\ got' = [job |-> call, kind |-> k]
          /\ outbox'[mine] = <<>>
      BY <1>9, <2>1, <3>1, <3>3 DEF Recv, TypeOK
    <3> QED
      BY <1>9, <2>1, <3>2, <3>3, <3>4 DEF Recv, Raise, Quiet
  <2>2. CASE ~(open[mine] /\ outbox[mine] # <<>>)
    BY <1>9, <2>2 DEF Recv, ConnectionError, KillThenRaise
  <2> QED
    BY <2>1, <2>2
<1>10. CASE Kill
  BY <1>10 DEF Kill, Raise, IsCurrent, BoundInv, Bound, Quiet
<1>11. CASE KillDone
  BY <1>11, ReapType DEF KillDone, Raise, Quiet
<1>12. CASE Finally
  BY <1>12 DEF Finally, Return, Quiet
<1>13. CASE Check
  BY <1>13 DEF Check, Return, KillThenRaise, Quiet
<1> QED
  BY <1>1, <1>2, <1>3, <1>4, <1>5, <1>6, <1>7, <1>8, <1>9, <1>10, <1>11,
     <1>12, <1>13 DEF RunStep

\* Every step of run() keeps what may be in the pipe.
LEMMA RunPipeInv ==
  ASSUME IInv, RunEnter \/ RunStep
  PROVE  PipeInv'
<1> USE DEF IInv, PipeInv
<1>1. CASE RunEnter
  BY <1>1 DEF RunEnter, Raise, Interrupted, Quiet
<1>2. CASE RunTestAlive
  BY <1>2 DEF RunTestAlive, Quiet
<1>3. CASE Start
  <2>1. CASE fatal
    BY <1>3, <2>1 DEF Start, Raise
  <2>2. CASE ~fatal
    <3>1. call \in Calls
      BY <1>3 DEF Start, TypeOK, BoundInv
    <3>2. inbox'[call] = <<>> /\ doing'[call] = None /\ outbox'[call] = <<>>
      BY <1>3, <2>2, <3>1 DEF Start, TypeOK
    <3> QED
      BY <1>3, <2>2, <3>2 DEF Start, Quiet
  <2> QED
    BY <2>1, <2>2
<1>4. CASE Bind
  BY <1>4 DEF Bind, Raise, Quiet
<1>5. CASE Send
  <2>1. CASE open[mine] /\ proc[mine] # "exited"
    <3>1. mine \in Calls /\ call \in Calls
      BY <1>5 DEF Send, TypeOK, BoundInv, Bound
    <3>2. inbox'[mine] = <<call>>
      BY <1>5, <2>1, <3>1 DEF Send, TypeOK, Quiet
    <3> QED
      BY <1>5, <2>1, <3>2 DEF Send, Quiet, OnlyThisJob
  <2>2. CASE ~(open[mine] /\ proc[mine] # "exited")
    BY <1>5, <2>2 DEF Send, ConnectionError, KillThenRaise
  <2> QED
    BY <2>1, <2>2
<1>6. CASE PollReady
  BY <1>6 DEF PollReady, ConnectionError, KillThenRaise, OnlyThisJob, Quiet
<1>7. CASE PollTimeout
  BY <1>7 DEF PollTimeout, KillThenRaise
<1>8. CASE Interrupt
  BY <1>8 DEF Interrupt, Raise
<1>9. CASE Recv
  BY <1>9 DEF Recv, Raise, ConnectionError, KillThenRaise
<1>10. CASE Kill
  BY <1>10 DEF Kill, Raise
<1>11. CASE KillDone
  BY <1>11 DEF KillDone, Raise
<1>12. CASE Finally
  <2>1. CASE verdict = "none"
    BY <1>12, <2>1 DEF Finally
  <2>2. CASE verdict = "interrupted"
    <3>1. outcome'[call].kind = "interrupted" /\ call \in Calls /\ pc' = "idle"
      BY <1>12, <2>2 DEF Finally, Return, TypeOK, BoundInv
    <3> QED
      BY <3>1 DEF Interrupted
  <2>3. CASE verdict \notin {"none", "interrupted"}
    BY <1>12, <2>3 DEF Finally, Return, TypeOK, BoundInv, ResultInv, HasResult,
                       Quiet
  <2> QED
    BY <2>1, <2>2, <2>3
<1>13. CASE Check
  BY <1>13 DEF Check, Return, KillThenRaise, BoundInv, Bound, ResultInv,
               HasResult, Quiet
<1> QED
  BY <1>1, <1>2, <1>3, <1>4, <1>5, <1>6, <1>7, <1>8, <1>9, <1>10, <1>11,
     <1>12, <1>13 DEF RunStep

\* Only Return changes an outcome, to the result in hand or to a failure.
LEMMA RunAnswer ==
  ASSUME IInv, RunEnter \/ RunStep
  PROVE  ResultIsForThisJob'
<1>1. CASE UNCHANGED outcome
  BY <1>1 DEF IInv, ResultIsForThisJob
<1>2. CASE Finally /\ verdict # "none"
  <2>1. outcome'[call].kind = "result" => outcome'[call].job = call
    BY <1>2 DEF IInv, TypeOK, BoundInv, ResultInv, HasResult, Finally, Return
  <2> QED
    BY <1>2, <2>1 DEF IInv, TypeOK, ResultIsForThisJob, Finally, Return
<1>3. CASE Check /\ ~UNCHANGED outcome
  <2>1. Return /\ got.job = call
    BY <1>3 DEF IInv, ResultInv, HasResult, Check
  <2>2. outcome'[call].kind = "result" => outcome'[call].job = call
    BY <1>3, <2>1 DEF IInv, TypeOK, BoundInv, Bound, Check, Return
  <2> QED
    BY <2>1, <2>2 DEF IInv, TypeOK, ResultIsForThisJob, Return
<1>4. CASE Finally /\ verdict = "none"
  BY <1>1, <1>4 DEF Finally
<1>5. CASE RunEnter
  BY <1>1, <1>5 DEF RunEnter
<1>6. CASE RunStep /\ ~Finally /\ ~Check
  BY <1>1, <1>6 DEF RunStep, RunTestAlive, Start, Bind, Send, PollReady,
                    PollTimeout, Interrupt, Recv, Kill, KillDone
<1> QED
  BY <1>1, <1>2, <1>3, <1>4, <1>5, <1>6

\* Shutdown ends the use of the pipe.
LEMMA ShutdownIInv ==
  ASSUME IInv, ShutdownBegin \/ ShutdownStep
  PROVE  IInv'
<1>1. TypeOK'
  BY ShutdownTypeOK DEF IInv
<1>2. /\ pc' \in {"joining", "closing", "reaping", "closed"}
      /\ UNCHANGED outcome
  BY DEF ShutdownBegin, ShutdownStep, ShutdownJoin, ShutdownKill, ShutdownReap
<1>3. BoundInv' /\ ResultInv' /\ PipeInv'
  BY <1>2 DEF BoundInv, Bound, ResultInv, PipeInv
<1>4. ResultIsForThisJob'
  BY <1>2 DEF IInv, ResultIsForThisJob
<1> QED
  BY <1>1, <1>3, <1>4 DEF IInv

\* Every step of the object keeps the invariant.
LEMMA NextIInv == IInv /\ [Next]_vars => IInv'
<1> SUFFICES ASSUME IInv, [Next]_vars PROVE IInv'
  OBVIOUS
<1>1. CASE RunEnter \/ RunStep
  BY <1>1, RunTypeOK, RunBoundInv, RunResultInv, RunPipeInv, RunAnswer DEF IInv
<1>2. CASE ShutdownBegin \/ ShutdownStep
  BY <1>2, ShutdownIInv
<1>3. CASE \E n \in Calls : TimerStep(n) \/ WorkerStep(n)
  BY <1>3, TimerIInv, WorkerIInv
<1>4. CASE UNCHANGED vars
  <2>1. TypeOK'
    BY <1>4 DEF IInv, TypeOK
  <2>2. BoundInv' /\ ResultInv'
    BY <1>4 DEF IInv, BoundInv, ResultInv, HasResult, Quiet
  <2>3. PipeInv' /\ ResultIsForThisJob'
    BY <1>4 DEF IInv, PipeInv, Quiet, OnlyThisJob, Interrupted,
                ResultIsForThisJob
  <2> QED
    BY <2>1, <2>2, <2>3 DEF IInv
<1> QED
  BY <1>1, <1>2, <1>3, <1>4 DEF Next, Terminated

\* The inductive invariant holds at all times.
THEOREM InductiveInvariant == Spec => []IInv
BY InitIInv, NextIInv, PTL DEF Spec

-----------------------------------------------------------------------------
(* The theorems.                                                           *)

\* Every variable keeps its type, and a recorded result names a job.
THEOREM TypeCorrectness == Spec => []TypeOK
<1>1. IInv => TypeOK
  BY DEF IInv
<1> QED
  BY <1>1, InductiveInvariant, PTL

\* However timers, crashes and unreadable results interleave, run() returns
\* a result only for the job of that call.
THEOREM AnswersDoNotCross == Spec => []ResultIsForThisJob
<1>1. IInv => ResultIsForThisJob
  BY DEF IInv
<1> QED
  BY <1>1, InductiveInvariant, PTL

\* An object disabled by a worker that survived SIGKILL spawns nothing and
\* refuses every later call.
THEOREM DisabledObjectStaysDisabled == Spec => DisabledForGood
<1> DEFINE D == fatal => /\ fatal'
                         /\ \A w \in Calls : proc[w] = "unborn" => proc'[w] = "unborn"
                         /\ pc = "idle" /\ call' # call => verdict' = "unkillable"
<1>1. ASSUME IInv, Next PROVE D
  <2> SUFFICES ASSUME fatal PROVE D
    OBVIOUS
  <2>1. CASE RunEnter
    BY <1>1, <2>1 DEF RunEnter, Raise
  <2>2. CASE RunStep
    <3>1. UNCHANGED call
      BY <2>2 DEF RunStep, RunTestAlive, Start, Bind, Send, PollReady,
                  PollTimeout, Interrupt, Recv, Kill, KillDone, Finally, Check
    <3>2. fatal'
      BY <1>1, <2>2, ReapType
         DEF IInv, RunStep, RunTestAlive, Start, Bind, Send, PollReady,
             PollTimeout, Interrupt, Recv, Kill, KillDone, Finally, Check
    <3>3. UNCHANGED proc
      BY <2>2 DEF RunStep, RunTestAlive, Start, Bind, Send, PollReady,
                  PollTimeout, Interrupt, Recv, Kill, KillDone, Finally, Check,
                  IsCurrent
    <3> QED
      BY <3>1, <3>2, <3>3
  <2>3. CASE ShutdownBegin \/ ShutdownStep
    <3>1. fatal' /\ UNCHANGED call
      BY <1>1, <2>3, ReapType
         DEF IInv, ShutdownBegin, ShutdownStep, ShutdownJoin, ShutdownKill,
             ShutdownReap
    <3>2. \A w \in Calls : proc[w] = "unborn" => proc'[w] = "unborn"
      BY <1>1, <2>3
         DEF IInv, TypeOK, ShutdownBegin, ShutdownStep, ShutdownJoin,
             ShutdownKill, ShutdownReap, Sigkill
    <3> QED
      BY <3>1, <3>2
  <2>4. ASSUME NEW n \in Calls, TimerStep(n) PROVE D
    <3>1. UNCHANGED proc
      BY <2>4 DEF TimerStep, TimerFire, TimerKill, TimerKillDone, IsCurrent
    <3> QED
      BY <1>1, <2>4, <3>1, TimerFrame DEF IInv
  <2>5. ASSUME NEW n \in Calls, WorkerStep(n) PROVE D
    <3>1. \A w \in Calls : proc[w] = "unborn" => proc'[w] = "unborn"
      BY <1>1, <2>5 DEF IInv, TypeOK, WorkerStep, WorkerRecv, WorkerRecvEOF,
                        WorkerFinish, WorkerCrash, ProcExit
    <3> QED
      BY <2>5, <3>1, WorkerFrame
  <2>6. CASE Terminated
    BY <2>6 DEF Terminated
  <2> QED
    BY <1>1, <2>1, <2>2, <2>3, <2>4, <2>5, <2>6 DEF Next
<1>2. IInv /\ [Next]_vars => [D]_vars
  BY <1>1
<1> QED
  BY <1>2, InductiveInvariant, PTL DEF Spec, DisabledForGood

-----------------------------------------------------------------------------
(* Which process lives and which timer may still take it down.             *)

\* An answer, once recorded, stays: only the call at hand writes its own.
RecordInv ==
  /\ InRun => outcome[call] = Pending /\ ~Interrupted
  /\ \A n \in Calls : n > call => outcome[n] = Pending
  /\ verdict = "garbled" => pc = "finally" \/ \E n \in Calls : outcome[n].kind = "garbled"

\* _lock is held by the one thread that is killing.
LockInv ==
  /\ pc = "killing" => lock = "run"
  /\ \A n \in Calls : timer[n] = "killing" =>
       lock = "timer" /\ \A m \in Calls : timer[m] = "killing" => m = n

\* A timer belongs to the process its call was bound to; it is armed while the
\* call is in its try block and has set timed_out once it fired.
TimerInv ==
  /\ current <= call
  /\ pc \in {"enter", "start", "bind"} => timer[call] = "off"
  /\ pc \in Bound \/ (pc = "finally" /\ verdict = "none") => target[call] = mine
  /\ \A n \in Calls :
       /\ timer[n] # "off" => n <= call /\ target[n] \in 1..n
       /\ timer[n] = "armed" =>
            n = call /\ pc \in {"send", "poll", "recv", "kill", "killing", "finally"}
       /\ timer[n] \in {"fired", "killing", "over"} => timedOut[n]

\* The timer of call n can no longer take the current process down.
Spent(n) == timer[n] # "killing" /\ (timer[n] = "fired" => target[n] # current)

\* Only the process the fields hold is alive.
OnlyCurrentLives == \A w \in Calls : IsAlive(w) => w = current

\* A timer that kills, kills that one.
KillersInv == \A n \in Calls : timer[n] = "killing" => current \in {target[n], None}

\* Between two calls all timers are spent, in a call those of the earlier ones.
SpentInv ==
  ~fatal /\ ~Interrupted =>
    \A n \in Calls : n # call \/ pc \in {"idle", "enter", "start", "bind"} => Spent(n)

\* What a call finds before it is bound to a process.
BindInv ==
  /\ pc \in {"enter", "start", "bind"} => ~fatal
  /\ pc = "start" => ~IsAlive(current)
  /\ pc = "bind" => current # None
  /\ verdict # "assertion"

\* A call that failed, and shutdown(), have taken the process away.
TakenInv ==
  /\ pc = "finally" /\ verdict \in {"timeout", "died", "result", "unkillable"} /\ ~fatal =>
       current = None /\ \A n \in Calls : timer[n] # "killing"
  /\ pc = "reaping" => mine # None /\ current \in {mine, None}
  /\ pc = "closed" /\ ~fatal => current = None

\* All this as long as every result could be unpickled.
TidyInv == OnlyCurrentLives /\ KillersInv /\ SpentInv /\ BindInv /\ TakenInv

LifeInv == RecordInv /\ LockInv /\ TimerInv /\ (Tidy => TidyInv)

\* The invariants hold initially.
LEMMA InitLifeInv == Init => LifeInv
<1> SUFFICES ASSUME Init PROVE LifeInv
  OBVIOUS
<1>1. RecordInv
  BY DEF Init, RecordInv, InRun, ShuttingDown, Interrupted
<1>2. LockInv /\ TimerInv
  BY DEF Init, LockInv, TimerInv, Bound, None
<1>3. TidyInv
  BY DEF Init, TidyInv, OnlyCurrentLives, KillersInv, SpentInv, BindInv, TakenInv, Spent, IsAlive
<1> QED
  BY <1>1, <1>2, <1>3 DEF LifeInv

\* A call that returns records its own outcome and no other.
LEMMA ReturnRecords ==
  ASSUME TypeOK, call \in Calls, Return
  PROVE  /\ pc' = "idle"
         /\ \A n \in Calls \ {call} : outcome'[n] = outcome[n]
         /\ verdict \notin {"none", "result"} => outcome'[call].kind = verdict
         /\ verdict \in {"none", "result"} => outcome'[call].kind = "result"
BY DEF TypeOK, Return

\* Run and shutdown keep the record.
LEMMA CallRecordInv ==
  ASSUME IInv, RecordInv, RunEnter \/ RunStep \/ ShutdownBegin \/ ShutdownStep
  PROVE  RecordInv'
<1> USE DEF InRun, ShuttingDown
<1>0. TypeOK /\ (InRun => call \in Calls)
  BY DEF IInv, TypeOK, BoundInv, None
<1>1. CASE RunEnter
  <2>1. /\ call' = call + 1 /\ call' \in Calls /\ outcome' = outcome /\ ~Interrupted
        /\ verdict' # "garbled" /\ pc' \in {"enter", "finally"}
    BY <1>1, <1>0 DEF RunEnter, Raise, TypeOK, Calls, None, Interrupted
  <2>2. \A n \in Calls : n > call' => n > call
    BY <1>0, <2>1 DEF TypeOK, Calls, None
  <2>3. outcome[call'] = Pending
    BY <1>0, <2>1 DEF RecordInv, TypeOK, Calls, None
  <2> QED
    BY <2>1, <2>2, <2>3 DEF RecordInv, Interrupted
<1>2. CASE (Finally /\ verdict # "none") \/ (Check /\ Return)
  <2>1. Return /\ call' = call /\ verdict' = verdict /\ InRun /\ pc' = "idle"
    BY <1>2 DEF Finally, Check, Return, KillThenRaise
  <2>2. \A n \in Calls : n > call => n # call
    BY <1>0, <2>1 DEF Calls
  <2>3. verdict = "garbled" => outcome'[call].kind = "garbled"
    BY <1>0, <2>1, ReturnRecords
  <2>4. \A n \in Calls : n > call' => outcome'[n] = Pending
    BY <1>0, <2>1, <2>2, ReturnRecords DEF RecordInv
  <2> QED
    BY <1>0, <2>1, <2>3, <2>4 DEF RecordInv
<1>3. CASE RunStep /\ ~(Finally /\ verdict # "none") /\ ~(Check /\ Return)
  <2>1. outcome' = outcome /\ call' = call /\ InRun
    BY <1>3 DEF RunStep, RunTestAlive, Start, Bind, Send, PollReady, PollTimeout, Interrupt, Recv,
                Kill, KillDone, Finally, Check
  <2>2. verdict' = "garbled" => pc' = "finally" \/ verdict = "garbled"
    BY <1>3 DEF RunStep, RunTestAlive, Start, Bind, Send, PollReady, PollTimeout, Interrupt, Recv,
                Kill, KillDone, Finally, Check, Raise, KillThenRaise, ConnectionError
  <2>3. pc = "finally" /\ verdict = "garbled" => FALSE
    BY <1>3 DEF RunStep, RunTestAlive, Start, Bind, Send, PollReady, PollTimeout, Interrupt, Recv,
                Kill, KillDone, Finally, Check
  <2> QED
    BY <2>1, <2>2, <2>3 DEF RecordInv, Interrupted
<1>4. CASE ShutdownBegin \/ ShutdownStep
  <2>1. /\ pc' \in {"joining", "closing", "reaping", "closed"} /\ pc # "finally"
        /\ UNCHANGED <<outcome, call, verdict>>
    BY <1>4 DEF ShutdownBegin, ShutdownStep, ShutdownJoin, ShutdownKill, ShutdownReap
  <2> QED
    BY <2>1 DEF RecordInv
<1> QED
  BY <1>1, <1>2, <1>3, <1>4

\* Run and shutdown keep the lock.
LEMMA CallLockInv ==
  ASSUME IInv, LockInv, RunEnter \/ RunStep \/ ShutdownBegin \/ ShutdownStep
  PROVE  LockInv'
<1>1. \A n \in Calls : timer'[n] = "killing" => timer[n] = "killing"
  BY DEF IInv, TypeOK, RunEnter, RunStep, RunTestAlive, Start, Bind, Send, PollReady, PollTimeout,
         Interrupt, Recv, Kill, KillDone, Finally, Check, ShutdownBegin, ShutdownStep,
         ShutdownJoin, ShutdownKill, ShutdownReap
<1>2. CASE Kill \/ KillDone
  BY <1>1, <1>2 DEF LockInv, Kill, KillDone, Raise
<1>3. CASE ~Kill /\ ~KillDone
  <2>1. lock' = lock /\ pc' # "killing"
    BY <1>3 DEF RunEnter, RunStep, RunTestAlive, Start, Bind, Send, PollReady, PollTimeout,
                Interrupt, Recv, Finally, Check, ShutdownBegin, ShutdownStep, ShutdownJoin,
                ShutdownKill, ShutdownReap, Raise, KillThenRaise, ConnectionError, Return
  <2> QED
    BY <1>1, <2>1 DEF LockInv
<1> QED
  BY <1>2, <1>3

\* Run and shutdown keep the timers in order.
LEMMA CallTimerInv ==
  ASSUME IInv, TimerInv, RunEnter \/ RunStep \/ ShutdownBegin \/ ShutdownStep
  PROVE  TimerInv'
<1>0. /\ TypeOK /\ TypeOK'
      /\ pc \notin {"idle", "joining", "closing", "reaping", "closed"} => call \in Calls
  BY RunTypeOK, ShutdownTypeOK DEF IInv, TypeOK, BoundInv, None
<1> USE DEF TimerInv, Bound
<1>1. CASE RunEnter
  <2>1. /\ call' = call + 1 /\ call' \in Calls /\ call \in Nat
        /\ UNCHANGED <<current, timer, target, timedOut>>
        /\ pc = "idle" /\ pc' \in {"enter", "finally"} /\ (pc' = "finally" => verdict' # "none")
    BY <1>0, <1>1 DEF RunEnter, Raise, TypeOK, Calls, None
  <2>2. timer'[call'] = "off"
    BY <2>1 DEF Calls
  <2>3. current' <= call'
    BY <1>0, <2>1 DEF TypeOK, Calls, None
  <2>4. \A n \in Calls : n <= call => n <= call'
    BY <2>1 DEF Calls
  <2> QED
    BY <2>1, <2>2, <2>3, <2>4
<1>2. CASE RunTestAlive
  BY <1>2 DEF RunTestAlive
<1>3. CASE Start
  <2>1. call' = call /\ current' \in {current, call} /\ UNCHANGED <<timer, target, timedOut>>
        /\ pc = "start" /\ (pc' = "bind" \/ (pc' = "finally" /\ verdict' = "unkillable"))
    BY <1>3 DEF Start, Raise
  <2>2. current' <= call'
    BY <1>0, <2>1 DEF TypeOK, Calls, None
  <2> QED
    BY <2>1, <2>2
<1>4. CASE Bind
  <2>1. call' = call /\ call \in Calls /\ current' = current /\ mine' = current /\ pc = "bind"
    BY <1>0, <1>4 DEF Bind
  <2>2. CASE current = None
    BY <1>4, <2>1, <2>2 DEF Bind, Raise
  <2>3. CASE current # None
    <3>1. /\ timer' = [timer EXCEPT ![call] = "armed"]
          /\ target' = [target EXCEPT ![call] = current]
          /\ timedOut' = timedOut /\ pc' = "send"
      BY <1>4, <2>3 DEF Bind
    <3>2. current \in 1..call
      BY <1>0, <2>1, <2>3 DEF TypeOK, Calls, None
    <3>3. /\ timer'[call] = "armed" /\ target'[call] = current
          /\ \A n \in Calls \ {call} : timer'[n] = timer[n] /\ target'[n] = target[n]
      BY <1>0, <2>1, <3>1 DEF TypeOK
    <3>4. call <= call
      BY <2>1 DEF Calls
    <3> QED
      BY <2>1, <3>1, <3>2, <3>3, <3>4
  <2> QED
    BY <2>2, <2>3
<1>5. CASE Send \/ PollReady \/ Interrupt \/ Recv \/ Kill
  <2>1. /\ UNCHANGED <<current, call, mine, timer, target, timedOut>>
        /\ pc \in {"send", "poll", "recv", "kill"}
        /\ pc' \in {"poll", "recv", "kill", "killing", "finally"}
    BY <1>5 DEF Send, PollReady, Interrupt, Recv, Kill, Raise, KillThenRaise, ConnectionError
  <2> QED
    BY <2>1
<1>6. CASE PollTimeout
  <2>1. /\ UNCHANGED <<current, call, mine, timer, target>> /\ pc = "poll" /\ pc' = "kill"
        /\ \A n \in Calls : timedOut[n] => timedOut'[n]
    BY <1>0, <1>6 DEF PollTimeout, KillThenRaise, TypeOK
  <2> QED
    BY <2>1
<1>7. CASE KillDone
  <2>1. /\ UNCHANGED <<call, mine, timer, target, timedOut>> /\ pc = "killing" /\ pc' = "finally"
        /\ current' \in {current, None}
    BY <1>0, <1>7, ReapType DEF KillDone, Raise
  <2>2. current' <= call'
    BY <1>0, <2>1 DEF TypeOK, Calls, None
  <2> QED
    BY <2>1, <2>2
<1>8. CASE Finally
  <2>1. /\ UNCHANGED <<current, call, target, timedOut>> /\ pc = "finally"
        /\ \/ pc' = "check" /\ mine' = mine /\ verdict = "none"
           \/ pc' = "idle"
        /\ timer' = [timer EXCEPT ![call] = IF @ = "armed" THEN "off" ELSE @]
    BY <1>8 DEF Finally, Return
  <2>2. /\ timer'[call] # "armed"
        /\ \A n \in Calls : timer'[n] # "off" => timer'[n] = timer[n]
        /\ \A n \in Calls \ {call} : timer'[n] = timer[n]
    BY <1>0, <2>1 DEF TypeOK
  <2> QED
    BY <2>1, <2>2
<1>9. CASE Check
  <2>1. /\ UNCHANGED <<current, call, timer, target, timedOut>> /\ pc = "check"
        /\ \/ pc' = "kill" /\ mine' = mine
           \/ pc' = "idle"
    BY <1>9 DEF Check, Return, KillThenRaise
  <2> QED
    BY <2>1
<1>10. CASE ShutdownBegin \/ ShutdownStep
  <2>1. /\ UNCHANGED <<call, timer, target, timedOut>> /\ current' \in {current, None}
        /\ pc \in {"idle", "joining", "closing", "reaping"}
        /\ pc' \in {"joining", "closing", "reaping", "closed"}
    BY <1>0, <1>10, ReapType
       DEF ShutdownBegin, ShutdownStep, ShutdownJoin, ShutdownKill, ShutdownReap
  <2>2. current' <= call'
    BY <1>0, <2>1 DEF TypeOK, Calls, None
  <2> QED
    BY <2>1, <2>2
<1> QED
  BY <1>1, <1>2, <1>3, <1>4, <1>5, <1>6, <1>7, <1>8, <1>9, <1>10 DEF RunStep

\* The timers keep record, lock and order.
LEMMA TimerOrders ==
  ASSUME IInv, RecordInv, LockInv, TimerInv, NEW n \in Calls, TimerStep(n)
  PROVE  RecordInv' /\ LockInv' /\ TimerInv'
<1>0. TypeOK
  BY DEF IInv
<1>1. RecordInv'
  BY TimerFrame, <1>0 DEF RecordInv, Interrupted, InRun, ShuttingDown
<1>2. /\ UNCHANGED <<pc, call, mine, verdict, target>> /\ current' \in {current, None}
      /\ \A m \in Calls : timedOut[m] => timedOut'[m]
      /\ \A m \in Calls \ {n} : timer'[m] = timer[m]
      /\ timer'[n] # "off"
  BY <1>0, ReapType DEF TypeOK, TimerStep, TimerFire, TimerKill, TimerKillDone
<1>3. LockInv'
  <2>1. CASE TimerFire(n)
    <3>1. lock' = lock /\ timer'[n] # "killing"
      BY <1>0, <2>1 DEF TimerFire, TypeOK
    <3> QED
      BY <1>2, <3>1 DEF LockInv
  <2>2. CASE TimerKill(n)
    <3>1. /\ \A m \in Calls : timer[m] # "killing"
          /\ pc # "killing"
          /\ timer'[n] = "killing" => lock' = "timer"
      BY <1>0, <2>2 DEF LockInv, TimerKill, TypeOK
    <3> QED
      BY <1>2, <3>1 DEF LockInv
  <2>3. CASE TimerKillDone(n)
    <3>1. /\ \A m \in Calls \ {n} : timer[m] # "killing"
          /\ pc # "killing" /\ timer'[n] = "over"
      BY <1>0, <2>3 DEF LockInv, TimerKillDone, TypeOK
    <3> QED
      BY <1>2, <3>1 DEF LockInv
  <2> QED
    BY <2>1, <2>2, <2>3 DEF TimerStep
<1>4. TimerInv'
  <2>1. current' <= call'
    BY <1>0, <1>2 DEF TimerInv, TypeOK, Calls, None
  <2>2. timer[n] # "off" /\ timer'[n] # "armed"
    BY <1>0 DEF TypeOK, TimerStep, TimerFire, TimerKill, TimerKillDone
  <2>3. timedOut'[n]
    BY <1>0, <1>2 DEF TypeOK, TimerStep, TimerFire, TimerKill, TimerKillDone, TimerInv
  <2>4. pc' \in {"enter", "start", "bind"} => timer'[call'] = "off"
    BY <1>0, <1>2, <2>2 DEF TimerInv, IInv, BoundInv, TypeOK, None
  <2>5. ASSUME NEW m \in Calls
        PROVE  /\ timer'[m] # "off" => m <= call' /\ target'[m] \in 1..m
               /\ timer'[m] = "armed" =>
                    /\ m = call'
                    /\ pc' \in {"send", "poll", "recv", "kill", "killing", "finally"}
               /\ timer'[m] \in {"fired", "killing", "over"} => timedOut'[m]
    <3>1. CASE m = n
      BY <1>2, <2>2, <2>3, <3>1 DEF TimerInv
    <3>2. CASE m # n
      BY <1>2, <3>2 DEF TimerInv
    <3> QED
      BY <3>1, <3>2
  <2> QED
    BY <1>2, <2>1, <2>4, <2>5 DEF TimerInv, Bound
<1> QED
  BY <1>1, <1>3, <1>4

\* A worker touches none of them.
LEMMA WorkerOrders ==
  ASSUME RecordInv, LockInv, TimerInv, NEW w \in Calls, WorkerStep(w)
  PROVE  RecordInv' /\ LockInv' /\ TimerInv'
BY WorkerFrame DEF RecordInv, LockInv, TimerInv, Interrupted, InRun, ShuttingDown

\* Once a result could not be unpickled, the record shows it.
LEMMA TidyBefore ==
  ASSUME IInv, RecordInv, Next, Tidy'
  PROVE  Tidy
<1> SUFFICES ASSUME ~Tidy PROVE ~Tidy'
  OBVIOUS
<1>0. /\ TypeOK
      /\ pc \in {"finally", "check"} =>
           call \in Calls /\ outcome[call] = Pending
  BY DEF IInv, TypeOK, BoundInv, RecordInv, InRun, ShuttingDown, None
<1>1. CASE (Finally /\ verdict # "none") \/ (Check /\ Return)
  <2>1. Return /\ verdict' = verdict /\ pc \in {"finally", "check"}
    BY <1>1 DEF Finally, Check, KillThenRaise, Return
  <2>2. CASE verdict = "garbled"
    BY <2>1, <2>2 DEF Tidy
  <2>3. CASE verdict # "garbled"
    <3>1. PICK n \in Calls : outcome[n].kind = "garbled"
      BY <2>3 DEF Tidy
    <3>2. n # call
      BY <1>0, <2>1, <3>1 DEF Pending
    <3>3. outcome'[n] = outcome[n]
      BY <1>0, <2>1, <3>2, ReturnRecords
    <3> QED
      BY <3>1, <3>3 DEF Tidy
  <2> QED
    BY <2>2, <2>3
<1>2. CASE RunEnter \/ (RunStep /\ ~(Finally /\ verdict # "none") /\ ~(Check /\ Return))
  <2>1. outcome' = outcome
    BY <1>2 DEF RunEnter, RunStep, RunTestAlive, Start, Bind, Send, PollReady, PollTimeout,
                Interrupt, Recv, Kill, KillDone, Finally, Check
  <2>2. pc = "finally" /\ verdict = "garbled" => FALSE
    BY <1>2 DEF RunEnter, RunStep, RunTestAlive, Start, Bind, Send, PollReady, PollTimeout,
                Interrupt, Recv, Kill, KillDone, Finally, Check
  <2> QED
    BY <2>1, <2>2 DEF RecordInv, Tidy
<1>3. CASE ShutdownBegin \/ ShutdownStep
  BY <1>3 DEF ShutdownBegin, ShutdownStep, ShutdownJoin, ShutdownKill, ShutdownReap, Tidy
<1>4. CASE \E n \in Calls : TimerStep(n) \/ WorkerStep(n)
  BY <1>0, <1>4, TimerFrame, WorkerFrame DEF Tidy
<1>5. CASE Terminated
  BY <1>5 DEF Terminated, Tidy
<1> QED
  BY <1>1, <1>2, <1>3, <1>4, <1>5 DEF Next

\* Reaping the current process, or one after which nothing lives, leaves no
\* other one alive.
LEMMA ReapTidies ==
  ASSUME TypeOK, NEW w, current \in {w, None}, OnlyCurrentLives, Reap(w), proc' = proc
  PROVE  OnlyCurrentLives' /\ current' \in {current, None} /\ (fatal => fatal')
<1>1. CASE IsAlive(w)
  BY <1>1 DEF Reap, OnlyCurrentLives, IsAlive
<1>2. CASE ~IsAlive(w)
  <2>1. \A x \in Calls : ~IsAlive(x)
    BY <1>2 DEF OnlyCurrentLives, IsAlive
  <2> QED
    BY <1>2, <2>1 DEF Reap, OnlyCurrentLives, IsAlive
<1> QED
  BY <1>1, <1>2

\* A process that was sent SIGKILL is alive as before.
LEMMA SigkillTidies ==
  ASSUME TypeOK, NEW w, Sigkill(w), current' = current
  PROVE  /\ \A x \in Calls : IsAlive(x)' <=> IsAlive(x)
         /\ OnlyCurrentLives => OnlyCurrentLives'
<1>1. \A x \in Calls : IsAlive(x)' <=> IsAlive(x)
  BY DEF TypeOK, Sigkill, IsAlive
<1> QED
  BY <1>1 DEF OnlyCurrentLives

\* What the timers may do depends on them and on the fields.
LEMMA SpentStays ==
  ASSUME TypeOK, TimerInv, NEW n \in Calls, Spent(n), target'[n] = target[n],
         timer'[n] \in {timer[n], "off", "over"}, current' \in {current, None}
  PROVE  Spent(n)'
BY DEF TimerInv, Spent, None

\* Steps of run() that touch neither the fields nor a process nor a timer's
\* target keep what is tidy, given where they lead.
LEMMA QuietStep ==
  ASSUME TypeOK, TimerInv, TidyInv,
         UNCHANGED <<current, fatal, proc, target, call>>,
         \A n \in Calls : timer'[n] \in {timer[n], "off"},
         Interrupted => Interrupted',
         pc' \in {"idle", "enter", "start", "bind"} =>
           pc \in {"idle", "enter", "start", "bind"} \/ fatal \/ Interrupted' \/ Spent(call)
  PROVE  OnlyCurrentLives' /\ KillersInv' /\ SpentInv'
<1>1. OnlyCurrentLives'
  BY DEF TidyInv, OnlyCurrentLives, IsAlive
<1>2. KillersInv'
  BY DEF TidyInv, KillersInv
<1>3. SpentInv'
  <2> SUFFICES ASSUME NEW n \in Calls, ~fatal, ~Interrupted',
                      n # call \/ pc' \in {"idle", "enter", "start", "bind"}
               PROVE  Spent(n)'
    BY DEF SpentInv
  <2>1. Spent(n)
    BY DEF TidyInv, SpentInv
  <2> QED
    BY <2>1, SpentStays
<1> QED
  BY <1>1, <1>2, <1>3

\* Run and shutdown stay tidy.
LEMMA CallTidyInv ==
  ASSUME IInv, LifeInv, Tidy, Tidy', RunEnter \/ RunStep \/ ShutdownBegin \/ ShutdownStep
  PROVE  TidyInv'
<1>0. /\ TypeOK /\ TypeOK' /\ RecordInv /\ RecordInv' /\ LockInv /\ TimerInv /\ TidyInv
      /\ pc \notin {"idle", "joining", "closing", "reaping", "closed"} =>
           call \in Calls /\ ~Interrupted
  BY RunTypeOK, ShutdownTypeOK, CallRecordInv
     DEF IInv, LifeInv, TypeOK, BoundInv, RecordInv, InRun, ShuttingDown, None
<1> USE <1>0
<1>1. CASE RunEnter
  <2>1. /\ UNCHANGED <<current, fatal, proc, timer, target, outcome>> /\ pc = "idle"
        /\ \/ fatal /\ pc' = "finally" /\ verdict' = "unkillable"
           \/ ~fatal /\ pc' = "enter" /\ verdict' = "none"
        /\ ~Interrupted
    BY <1>1 DEF RunEnter, Raise, Interrupted
  <2>2. OnlyCurrentLives' /\ KillersInv'
    BY <2>1 DEF TidyInv, OnlyCurrentLives, KillersInv, IsAlive
  <2>3. SpentInv'
    BY <2>1 DEF TidyInv, SpentInv, Spent
  <2>4. BindInv' /\ TakenInv'
    BY <2>1 DEF BindInv, TakenInv
  <2> QED
    BY <2>2, <2>3, <2>4 DEF TidyInv
<1>2. CASE RunTestAlive
  <2>1. /\ UNCHANGED <<current, fatal, proc, timer, target, call, outcome, verdict>>
        /\ pc = "enter"
        /\ IF IsAlive(current) THEN pc' = "bind" ELSE pc' = "start"
    BY <1>2 DEF RunTestAlive
  <2>2. OnlyCurrentLives' /\ KillersInv' /\ SpentInv'
    BY <2>1, QuietStep DEF Interrupted
  <2>3. BindInv' /\ TakenInv'
    BY <2>1 DEF TidyInv, BindInv, TakenInv, IsAlive
  <2> QED
    BY <2>2, <2>3 DEF TidyInv
<1>3. CASE Start
  <2>1. /\ ~fatal /\ pc = "start" /\ call \in Calls /\ ~IsAlive(current)
        /\ \A n \in Calls : Spent(n)
    BY <1>3 DEF Start, TidyInv, BindInv, SpentInv
  <2>2. /\ UNCHANGED <<fatal, timer, target, call, outcome, verdict>>
        /\ current' = call /\ pc' = "bind"
        /\ proc' = [proc EXCEPT ![call] = "running"]
    BY <1>3, <2>1 DEF Start
  <2>3. OnlyCurrentLives'
    <3>1. \A x \in Calls : ~IsAlive(x)
      BY <2>1 DEF TidyInv, OnlyCurrentLives
    <3> QED
      BY <2>2, <3>1 DEF OnlyCurrentLives, IsAlive
  <2>4. \A n \in Calls : timer[n] # "off" => target[n] # call
    <3>1. timer[call] = "off"
      BY <2>1 DEF TimerInv
    <3> QED
      BY <2>1, <3>1 DEF TimerInv, Calls
  <2>5. KillersInv' /\ SpentInv'
    BY <2>1, <2>2, <2>4 DEF KillersInv, SpentInv, Spent
  <2>6. BindInv' /\ TakenInv'
    BY <2>1, <2>2 DEF TidyInv, BindInv, TakenInv, Calls, None
  <2> QED
    BY <2>3, <2>5, <2>6 DEF TidyInv
<1>4. CASE Bind
  <2>1. pc = "bind" /\ current # None /\ call \in Calls
    BY <1>4 DEF Bind, TidyInv, BindInv
  <2>2. /\ UNCHANGED <<current, fatal, proc, call, outcome, verdict>> /\ pc' = "send"
        /\ \A n \in Calls \ {call} : timer'[n] = timer[n] /\ target'[n] = target[n]
        /\ timer'[call] = "armed"
    BY <1>4, <2>1 DEF Bind, TypeOK
  <2>3. OnlyCurrentLives' /\ KillersInv'
    BY <2>2 DEF TidyInv, OnlyCurrentLives, KillersInv, IsAlive
  <2>4. SpentInv'
    BY <2>1, <2>2 DEF TidyInv, SpentInv, Spent, Interrupted
  <2>5. BindInv' /\ TakenInv'
    BY <2>2 DEF TidyInv, BindInv, TakenInv
  <2> QED
    BY <2>3, <2>4, <2>5 DEF TidyInv
<1>5. CASE Send \/ PollReady \/ PollTimeout \/ Interrupt \/ Recv
  <2>1. /\ UNCHANGED <<current, fatal, proc, timer, target, call, outcome>>
        /\ pc' \in {"poll", "recv", "kill", "finally"} /\ pc \in {"send", "poll", "recv"}
        /\ pc' = "finally" => verdict' \in {"none", "garbled", "interrupted"}
        /\ verdict' # "assertion"
    BY <1>5 DEF Send, PollReady, PollTimeout, Interrupt, Recv, Raise, KillThenRaise,
                ConnectionError, IInv, ResultInv
  <2>2. OnlyCurrentLives' /\ KillersInv' /\ SpentInv'
    BY <2>1, QuietStep DEF Interrupted
  <2>3. BindInv' /\ TakenInv'
    BY <2>1 DEF BindInv, TakenInv
  <2> QED
    BY <2>2, <2>3 DEF TidyInv
<1>6. CASE Kill
  <2>1. /\ UNCHANGED <<current, fatal, timer, target, call, outcome>> /\ pc = "kill"
        /\ mine # None /\ current \in {mine, None} /\ verdict # "assertion"
        /\ \A n \in Calls : timer[n] # "killing"
    BY <1>6 DEF Kill, IInv, BoundInv, Bound, LockInv, ResultInv
  <2>2. CASE IsCurrent(mine)
    <3>1. Sigkill(mine) /\ pc' = "killing" /\ verdict' = verdict
      BY <1>6, <2>2 DEF Kill
    <3>2. OnlyCurrentLives'
      BY <2>1, <3>1, SigkillTidies DEF TidyInv
    <3>3. KillersInv' /\ SpentInv'
      BY <2>1, <3>1 DEF TidyInv, KillersInv, SpentInv, Spent, Interrupted
    <3>4. BindInv' /\ TakenInv'
      BY <2>1, <3>1 DEF BindInv, TakenInv
    <3> QED
      BY <3>2, <3>3, <3>4 DEF TidyInv
  <2>3. CASE ~IsCurrent(mine)
    <3>1. /\ proc' = proc /\ pc' = "finally" /\ verdict' # "assertion"
          /\ ~fatal => current = None
      BY <1>6, <2>1, <2>3 DEF Kill, Raise, IsCurrent
    <3>2. OnlyCurrentLives' /\ KillersInv' /\ SpentInv'
      BY <2>1, <3>1, QuietStep DEF Interrupted
    <3>3. BindInv' /\ TakenInv'
      BY <2>1, <3>1 DEF BindInv, TakenInv
    <3> QED
      BY <3>2, <3>3 DEF TidyInv
  <2> QED
    BY <2>2, <2>3
<1>7. CASE KillDone
  <2>1. /\ UNCHANGED <<timer, target, call, outcome, proc>> /\ pc = "killing" /\ pc' = "finally"
        /\ mine # None /\ current \in {mine, None} /\ verdict' # "assertion" /\ Reap(mine)
        /\ \A n \in Calls : timer[n] # "killing"
    BY <1>7 DEF KillDone, Raise, IInv, BoundInv, Bound, LockInv, ResultInv
  <2>2. OnlyCurrentLives' /\ current' \in {current, None} /\ (fatal => fatal')
    BY <2>1, ReapTidies DEF TidyInv
  <2>3. KillersInv'
    BY <2>1 DEF KillersInv
  <2>4. SpentInv'
    <3> SUFFICES ASSUME NEW n \in Calls, ~fatal, ~Interrupted, n # call PROVE Spent(n)'
      BY <2>1, <2>2 DEF SpentInv, Interrupted
    <3>1. Spent(n)
      BY DEF TidyInv, SpentInv
    <3> QED
      BY <2>1, <2>2, <3>1, SpentStays
  <2>5. fatal' \/ current' = None
    BY <2>1, ReapType
  <2>6. BindInv' /\ TakenInv'
    BY <2>1, <2>5 DEF BindInv, TakenInv
  <2> QED
    BY <2>2, <2>3, <2>4, <2>6 DEF TidyInv
<1>8. CASE Finally
  <2>1. /\ UNCHANGED <<current, fatal, proc, target, call, verdict>> /\ pc = "finally"
        /\ \A n \in Calls : timer'[n] \in {timer[n], "off"}
        /\ pc' \in {"check", "idle"} /\ (pc' = "check" => outcome' = outcome)
        /\ pc' = "idle" => Return /\ verdict # "none"
        /\ ~Interrupted /\ call \in Calls
    BY <1>8 DEF Finally, Return, TypeOK
  <2>2. pc' = "idle" => fatal \/ Interrupted' \/ Spent(call)
    <3>1. CASE verdict = "interrupted"
      BY <2>1, <3>1, ReturnRecords DEF Interrupted
    <3>2. CASE verdict \in {"timeout", "died", "result", "unkillable"}
      BY <2>1, <3>2 DEF TidyInv, TakenInv, Spent, TimerInv, None
    <3>3. verdict \notin {"garbled", "assertion"}
      BY DEF Tidy, TidyInv, BindInv
    <3> QED
      BY <2>1, <3>1, <3>2, <3>3 DEF TypeOK
  <2>3. OnlyCurrentLives' /\ KillersInv' /\ SpentInv'
    BY <2>1, <2>2, QuietStep
  <2>4. BindInv' /\ TakenInv'
    BY <2>1 DEF TidyInv, BindInv, TakenInv
  <2> QED
    BY <2>3, <2>4 DEF TidyInv
<1>9. CASE Check
  <2>1. /\ UNCHANGED <<current, fatal, proc, timer, target, call>> /\ pc = "check"
        /\ ~Interrupted /\ verdict = "none" /\ verdict' # "assertion" /\ pc' \in {"kill", "idle"}
        /\ pc' = "idle" => ~timedOut[call]
    BY <1>9 DEF Check, Return, KillThenRaise, IInv, ResultInv
  <2>2. pc' = "idle" => Spent(call)
    BY <2>1 DEF Spent, TimerInv
  <2>3. OnlyCurrentLives' /\ KillersInv' /\ SpentInv'
    BY <2>1, <2>2, QuietStep
  <2>4. BindInv' /\ TakenInv'
    BY <2>1 DEF BindInv, TakenInv
  <2> QED
    BY <2>3, <2>4 DEF TidyInv
<1>10. CASE ShutdownBegin \/ ShutdownJoin
  <2>1. /\ UNCHANGED <<current, fatal, proc, timer, target, call, outcome, verdict>>
        /\ pc' \in {"joining", "closing"}
    BY <1>10 DEF ShutdownBegin, ShutdownJoin
  <2>2. OnlyCurrentLives' /\ KillersInv' /\ SpentInv'
    BY <2>1, QuietStep DEF Interrupted
  <2>3. BindInv' /\ TakenInv'
    BY <2>1 DEF TidyInv, BindInv, TakenInv
  <2> QED
    BY <2>2, <2>3 DEF TidyInv
<1>11. CASE ShutdownKill
  <2>1. /\ UNCHANGED <<current, fatal, timer, target, call, outcome, verdict>>
        /\ mine' = current
        /\ \/ current = None /\ pc' = "closed" /\ proc' = proc
           \/ current # None /\ pc' = "reaping" /\ Sigkill(current)
    BY <1>11 DEF ShutdownKill
  <2>2. OnlyCurrentLives'
    BY <2>1, SigkillTidies DEF TidyInv, OnlyCurrentLives, IsAlive
  <2>3. KillersInv' /\ SpentInv'
    BY <2>1 DEF TidyInv, KillersInv, SpentInv, Spent, Interrupted
  <2>4. BindInv' /\ TakenInv'
    BY <2>1 DEF TidyInv, BindInv, TakenInv
  <2> QED
    BY <2>2, <2>3, <2>4 DEF TidyInv
<1>12. CASE ShutdownReap
  <2>1. /\ UNCHANGED <<timer, target, call, outcome, proc, verdict>> /\ pc = "reaping"
        /\ pc' = "closed" /\ mine # None /\ current \in {mine, None} /\ Reap(mine)
    BY <1>12 DEF ShutdownReap, TidyInv, TakenInv
  <2>2. OnlyCurrentLives' /\ current' \in {current, None} /\ (fatal => fatal')
    BY <2>1, ReapTidies DEF TidyInv
  <2>3. KillersInv'
    BY <2>1, <2>2 DEF TidyInv, KillersInv
  <2>4. SpentInv'
    <3> SUFFICES ASSUME NEW n \in Calls, ~fatal, ~Interrupted, n # call PROVE Spent(n)'
      BY <2>1, <2>2 DEF SpentInv, Interrupted
    <3>1. Spent(n)
      BY DEF TidyInv, SpentInv
    <3> QED
      BY <2>1, <2>2, <3>1, SpentStays
  <2>5. fatal' \/ current' = None
    BY <2>1, ReapType
  <2>6. BindInv' /\ TakenInv'
    BY <2>1, <2>5 DEF TidyInv, BindInv, TakenInv
  <2> QED
    BY <2>2, <2>3, <2>4, <2>6 DEF TidyInv
<1> QED
  BY <1>1, <1>2, <1>3, <1>4, <1>5, <1>6, <1>7, <1>8, <1>9, <1>10, <1>11, <1>12
     DEF RunStep, ShutdownStep

\* Timers stay tidy.
LEMMA TimerTidyInv ==
  ASSUME IInv, LifeInv, Tidy, NEW n \in Calls, TimerStep(n)
  PROVE  TidyInv'
<1>0. /\ TypeOK /\ LockInv /\ TimerInv /\ TidyInv
      /\ UNCHANGED <<pc, call, mine, verdict, outcome, target>>
      /\ \A m \in Calls \ {n} : timer'[m] = timer[m]
  BY TimerFrame DEF IInv, LifeInv, TypeOK, TimerStep, TimerFire, TimerKill, TimerKillDone
<1> USE <1>0
<1>1. CASE TimerFire(n)
  <2>1. /\ UNCHANGED <<current, fatal, proc>> /\ timer'[n] = "fired"
        /\ n = call /\ pc \notin {"idle", "enter", "start", "bind"}
    BY <1>1 DEF TimerFire, TimerInv, TypeOK
  <2>2. OnlyCurrentLives' /\ KillersInv'
    BY <2>1 DEF TidyInv, OnlyCurrentLives, KillersInv, IsAlive
  <2>3. SpentInv'
    BY <2>1 DEF TidyInv, SpentInv, Spent, Interrupted
  <2>4. BindInv' /\ TakenInv'
    BY <2>1 DEF TidyInv, BindInv, TakenInv, IsAlive
  <2> QED
    BY <2>2, <2>3, <2>4 DEF TidyInv
<1>2. CASE TimerKill(n) /\ ~IsCurrent(target[n])
  <2>1. UNCHANGED <<current, fatal, proc>> /\ timer'[n] = "over"
    BY <1>2 DEF TimerKill, TypeOK
  <2>2. OnlyCurrentLives' /\ KillersInv'
    BY <2>1 DEF TidyInv, OnlyCurrentLives, KillersInv, IsAlive
  <2>3. SpentInv'
    BY <2>1 DEF TidyInv, SpentInv, Spent, Interrupted
  <2>4. BindInv' /\ TakenInv'
    BY <2>1 DEF TidyInv, BindInv, TakenInv, IsAlive
  <2> QED
    BY <2>2, <2>3, <2>4 DEF TidyInv
<1>3. CASE TimerKill(n) /\ IsCurrent(target[n])
  <2>1. /\ UNCHANGED <<current, fatal>> /\ timer'[n] = "killing" /\ timer[n] = "fired"
        /\ ~fatal /\ target[n] = current /\ current # None /\ Sigkill(current)
    <3>1. /\ UNCHANGED <<current, fatal>> /\ timer'[n] = "killing" /\ timer[n] = "fired"
          /\ Sigkill(target[n])
      BY <1>3 DEF TimerKill, TypeOK
    <3>2. ~fatal /\ target[n] = current
      BY <1>3 DEF IsCurrent
    <3>3. target[n] \in 1..n
      BY <3>1 DEF TimerInv
    <3>4. current # None
      BY <3>2, <3>3 DEF None, Calls
    <3> QED
      BY <3>1, <3>2, <3>4
  <2>2. /\ OnlyCurrentLives' /\ (IsAlive(current)' <=> IsAlive(current))
    BY <2>1, SigkillTidies DEF TidyInv, TypeOK, IsAlive
  <2>3. KillersInv'
    BY <2>1 DEF TidyInv, KillersInv
  <2>4. ~Interrupted => n = call /\ pc \notin {"idle", "enter", "start", "bind"}
    BY <2>1 DEF TidyInv, SpentInv, Spent
  <2>5. SpentInv'
    BY <2>1, <2>4 DEF TidyInv, SpentInv, Spent, Interrupted
  <2>6. BindInv' /\ TakenInv'
    BY <2>1, <2>2 DEF TidyInv, BindInv, TakenInv
  <2> QED
    BY <2>2, <2>3, <2>5, <2>6 DEF TidyInv
<1>4. CASE TimerKillDone(n)
  <2>1. /\ proc' = proc /\ timer[n] = "killing" /\ timer'[n] = "over"
        /\ Reap(target[n]) /\ current \in {target[n], None}
    BY <1>4 DEF TimerKillDone, TypeOK, TidyInv, KillersInv
  <2>2. OnlyCurrentLives' /\ current' \in {current, None} /\ (fatal => fatal')
    BY <2>1, ReapTidies DEF TidyInv
  <2>3. \A m \in Calls : timer'[m] # "killing"
    BY <2>1 DEF LockInv
  <2>4. KillersInv'
    BY <2>3 DEF KillersInv
  <2>5. SpentInv'
    <3> SUFFICES ASSUME NEW m \in Calls, ~fatal, ~Interrupted,
                        m # call \/ pc \in {"idle", "enter", "start", "bind"}
                 PROVE  Spent(m)'
      BY <2>2 DEF SpentInv, Interrupted
    <3>1. Spent(m)
      BY DEF TidyInv, SpentInv
    <3>2. timer'[m] \in {timer[m], "off", "over"}
      BY <2>1
    <3> QED
      BY <2>2, <3>1, <3>2, SpentStays
  <2>6. pc \in {"enter", "start", "bind"} => FALSE
    <3>1. pc \in {"enter", "start", "bind"} => ~fatal /\ ~Interrupted
      BY DEF TidyInv, BindInv, LifeInv, RecordInv, InRun, ShuttingDown
    <3> QED
      BY <2>1, <3>1 DEF TidyInv, SpentInv, Spent
  <2>7. BindInv'
    BY <2>6 DEF TidyInv, BindInv
  <2>8. TakenInv'
    BY <2>1, <2>2, <2>3 DEF TidyInv, TakenInv
  <2> QED
    BY <2>2, <2>4, <2>5, <2>7, <2>8 DEF TidyInv
<1> QED
  BY <1>1, <1>2, <1>3, <1>4 DEF TimerStep

\* So do workers, who only die.
LEMMA WorkerTidyInv ==
  ASSUME IInv, TidyInv, NEW w \in Calls, WorkerStep(w)
  PROVE  TidyInv'
<1>1. UNCHANGED <<object, thread, outcome, timers>>
  BY WorkerFrame
<1>2. \A x \in Calls \cup {None} : IsAlive(x)' => IsAlive(x)
  BY DEF IInv, TypeOK, IsAlive, WorkerStep, WorkerRecv, WorkerRecvEOF, WorkerFinish,
         WorkerCrash, ProcExit
<1>3. OnlyCurrentLives' /\ BindInv'
  <2>1. current' = current /\ current \in Calls \cup {None} /\ pc' = pc
        /\ fatal' = fatal /\ verdict' = verdict
    BY <1>1 DEF object, thread, IInv, TypeOK
  <2>2. OnlyCurrentLives'
    BY <1>2, <2>1 DEF TidyInv, OnlyCurrentLives
  <2>3. IsAlive(current)' => IsAlive(current)
    BY <1>2, <2>1 DEF IsAlive
  <2>4. BindInv'
    BY <2>1, <2>3 DEF TidyInv, BindInv
  <2> QED
    BY <2>2, <2>4
<1>4. KillersInv' /\ SpentInv' /\ TakenInv'
  BY <1>1 DEF TidyInv, KillersInv, SpentInv, Spent, TakenInv, Interrupted
<1> QED
  BY <1>3, <1>4 DEF TidyInv

\* Every step keeps the invariants.
LEMMA NextLifeInv == IInv /\ LifeInv /\ [Next]_vars => LifeInv'
<1> SUFFICES ASSUME IInv, LifeInv, [Next]_vars PROVE LifeInv'
  OBVIOUS
<1>1. CASE RunEnter \/ RunStep \/ ShutdownBegin \/ ShutdownStep
  <2>1. RecordInv' /\ LockInv' /\ TimerInv'
    BY <1>1, CallRecordInv, CallLockInv, CallTimerInv DEF LifeInv
  <2>2. Tidy' => TidyInv'
    BY <1>1, CallTidyInv, TidyBefore DEF LifeInv, Next
  <2> QED
    BY <2>1, <2>2 DEF LifeInv
<1>2. CASE \E n \in Calls : TimerStep(n)
  <2>1. PICK n \in Calls : TimerStep(n)
    BY <1>2
  <2>2. RecordInv' /\ LockInv' /\ TimerInv'
    BY <2>1, TimerOrders DEF LifeInv
  <2>3. Tidy' => TidyInv'
    BY <2>1, TimerTidyInv, TidyBefore DEF LifeInv, Next
  <2> QED
    BY <2>2, <2>3 DEF LifeInv
<1>3. CASE \E n \in Calls : WorkerStep(n)
  <2>1. PICK n \in Calls : WorkerStep(n)
    BY <1>3
  <2>2. RecordInv' /\ LockInv' /\ TimerInv'
    BY <2>1, WorkerOrders DEF LifeInv
  <2>3. Tidy' => TidyInv'
    BY <2>1, WorkerTidyInv, TidyBefore DEF LifeInv, Next
  <2> QED
    BY <2>2, <2>3 DEF LifeInv
<1>4. CASE UNCHANGED vars
  <2>1. RecordInv' /\ LockInv' /\ TimerInv' /\ (Tidy' => Tidy)
    BY <1>4 DEF LifeInv, RecordInv, LockInv, TimerInv, Tidy, Interrupted, InRun, ShuttingDown
  <2>2. TidyInv => TidyInv'
    BY <1>4 DEF TidyInv, OnlyCurrentLives, KillersInv, SpentInv, BindInv, TakenInv, Spent,
                IsAlive, Interrupted
  <2> QED
    BY <2>1, <2>2 DEF LifeInv
<1> QED
  BY <1>1, <1>2, <1>3, <1>4 DEF Next, Terminated

\* They hold at all times.
LEMMA LifeInvariant == Spec => []LifeInv
BY InitLifeInv, NextLifeInv, InductiveInvariant, PTL DEF Spec

\* At most one worker process is alive, and run() finds the one it tested or
\* started where it left it, however timers, failures and shutdown() interleave
\* with it, until a result cannot be unpickled: "Single spawn subprocess".
THEOREM OneWorkerAtATime == Spec => []SingleWorker
<1>1. LifeInv => SingleWorker
  <2> SUFFICES ASSUME LifeInv, Tidy PROVE Cardinality(Live) <= 1 /\ BindAssertionsHold
    BY DEF SingleWorker
  <2>1. Live \subseteq {current}
    BY DEF LifeInv, TidyInv, OnlyCurrentLives, Live
  <2>2. IsFiniteSet({current}) /\ Cardinality({current}) = 1
    BY FS_Singleton
  <2>3. Cardinality(Live) <= 1
    BY <2>1, <2>2, FS_Subset
  <2>4. BindAssertionsHold
    BY DEF LifeInv, TidyInv, BindInv, BindAssertionsHold
  <2> QED
    BY <2>3, <2>4
<1> QED
  BY <1>1, LifeInvariant, PTL

\* When shutdown() has returned without disabling the object, no worker is left
\* running, whatever timers did meanwhile: it takes no lock.
THEOREM NobodyLeftRunning == Spec => []NoOrphan
<1>1. LifeInv => NoOrphan
  <2> SUFFICES ASSUME LifeInv, Tidy, pc = "closed", ~fatal PROVE Live = {}
    BY DEF NoOrphan
  <2>1. current = None
    BY DEF LifeInv, TidyInv, TakenInv
  <2> QED
    BY <2>1 DEF LifeInv, TidyInv, OnlyCurrentLives, Live, IsAlive
<1> QED
  BY <1>1, LifeInvariant, PTL

\* A worker is killed under a call that waits for it only when that call has
\* timed out: on_timeout of an earlier call never takes it down.
THEOREM OnlyItsOwnTimerKills == Spec => InnocentWorkerIsSpared
<1> DEFINE A == \A w \in Calls :
                  /\ Tidy /\ proc[w] = "running" /\ proc'[w] = "killed"
                  /\ Waiting /\ mine = w
                  => timedOut[call]
<1>1. IInv /\ LifeInv /\ [Next]_vars => A
  <2> SUFFICES ASSUME IInv, LifeInv, Next, NEW w \in Calls, Tidy, proc[w] = "running",
                      proc'[w] = "killed", Waiting, mine = w
               PROVE  timedOut[call]
    OBVIOUS
  <2>1. PICK n \in Calls : TimerKill(n) /\ IsCurrent(target[n]) /\ target[n] = w
    <3>1. ~RunEnter /\ ~RunStep /\ ~ShutdownBegin /\ ~ShutdownStep /\ ~Terminated
      BY DEF Waiting, RunEnter, RunStep, RunTestAlive, Start, Bind, Send, PollReady, PollTimeout,
             Interrupt, Recv, Kill, KillDone, Finally, Check, ShutdownBegin, ShutdownStep,
             ShutdownJoin, ShutdownKill, ShutdownReap, Terminated
    <3>2. ASSUME NEW n \in Calls, WorkerStep(n) PROVE FALSE
      BY <3>2 DEF IInv, TypeOK, WorkerStep, WorkerRecv, WorkerRecvEOF, WorkerFinish,
                  WorkerCrash, ProcExit
    <3>3. PICK n \in Calls : TimerStep(n)
      BY <3>1, <3>2 DEF Next
    <3>4. TimerKill(n) /\ IsCurrent(target[n]) /\ Sigkill(target[n])
      BY <3>3 DEF TimerStep, TimerFire, TimerKill, TimerKillDone
    <3>5. target[n] = w
      BY <3>4 DEF IInv, TypeOK, Sigkill
    <3> QED
      BY <3>4, <3>5
  <2>2. timer[n] = "fired" /\ target[n] = current /\ ~fatal
    BY <2>1 DEF TimerKill, IsCurrent
  <2>3. ~Interrupted
    BY DEF LifeInv, RecordInv, InRun, ShuttingDown, Waiting
  <2>4. n = call
    BY <2>2, <2>3 DEF LifeInv, TidyInv, SpentInv, Spent
  <2> QED
    BY <2>2, <2>4 DEF LifeInv, TimerInv
<1>2. IInv /\ LifeInv /\ [Next]_vars => [A]_vars
  BY <1>1
<1> QED
  BY <1>2, LifeInvariant, InductiveInvariant, PTL DEF Spec, InnocentWorkerIsSpared

-----------------------------------------------------------------------------
(* The refinement of IsolatedCall.                                         *)

Refused == InRun /\ verdict = "unkillable"

\* A step the caller cannot tell is a stutter of the abstract object.
LEMMA UnseenStutters ==
  ASSUME call' = call, InRun' <=> InRun, Refused' <=> Refused, fatal' = fatal,
         ShuttingDown' <=> ShuttingDown, outcome' = outcome
  PROVE  UNCHANGED Promise!vars
<1>1. InRun' = InRun
  OBVIOUS
<1>2. (InRun /\ verdict = "unkillable")' = (InRun /\ verdict = "unkillable")
  BY DEF Refused
<1>3. ShuttingDown' = ShuttingDown
  OBVIOUS
<1> QED
  BY <1>1, <1>2, <1>3 DEF Promise!vars

\* A killer that gave up disables the object, or refuses the call at hand.
LEMMA GivingUp ==
  ASSUME IInv, call' = call, InRun' <=> InRun, ShuttingDown' <=> ShuttingDown,
         outcome' = outcome, fatal' \in {fatal, TRUE},
         Refused' <=> Refused \/ (InRun /\ fatal' /\ Refused')
  PROVE  Promise!Next \/ UNCHANGED Promise!vars
<1>0. fatal \in BOOLEAN
  BY DEF IInv, TypeOK
<1>1. CASE fatal' = fatal /\ (Refused' <=> Refused)
  BY <1>1, UnseenStutters
<1>2. CASE fatal' = fatal /\ ~(Refused' <=> Refused)
  <2>1. InRun /\ fatal /\ ~Refused /\ Refused'
    BY <1>2
  <2>2. Promise!Refuse
    <3>1. /\ InRun' = InRun /\ ShuttingDown' = ShuttingDown
          /\ InRun /\ fatal = TRUE
          /\ ~(InRun /\ verdict = "unkillable")
          /\ (InRun /\ verdict = "unkillable")' = TRUE
      BY <1>0, <2>1 DEF Refused
    <3> QED
      BY <1>2, <3>1 DEF Promise!Refuse
  <2> QED
    BY <2>2 DEF Promise!Next
<1>3. CASE fatal' # fatal
  <2>1. ~fatal /\ fatal' = TRUE
    BY <1>0, <1>3
  <2>2. (InRun /\ verdict = "unkillable")' \in {(InRun /\ verdict = "unkillable"), InRun}
    <3>1. CASE Refused' <=> Refused
      <4>1. (InRun /\ verdict = "unkillable")' = (InRun /\ verdict = "unkillable")
        BY <3>1 DEF Refused
      <4> QED
        BY <4>1
    <3>2. CASE ~(Refused' <=> Refused)
      <4>1. (InRun /\ verdict = "unkillable")' = InRun
        BY <3>2 DEF Refused
      <4> QED
        BY <4>1
    <3> QED
      BY <3>1, <3>2
  <2>3. InRun' = InRun /\ ShuttingDown' = ShuttingDown
    OBVIOUS
  <2>4. Promise!Disable
    BY <2>1, <2>2, <2>3 DEF Promise!Disable
  <2> QED
    BY <2>4 DEF Promise!Next
<1> QED
  BY <1>1, <1>2, <1>3

\* Return is the one answer of this call.
LEMMA ReturnReplies ==
  ASSUME IInv, Return, call' = call, fatal' = fatal, verdict' = verdict,
         (pc = "finally" /\ verdict # "none") \/ pc = "check"
  PROVE  Promise!Reply
<1>0. TypeOK /\ InRun /\ pc' = "idle" /\ ~InRun' /\ ~ShuttingDown /\ ~ShuttingDown'
  BY DEF IInv, InRun, ShuttingDown, Return
<1>1. call \in Calls
  BY <1>0 DEF IInv, TypeOK, BoundInv, None
<1> DEFINE a == IF verdict \in {"none", "result"}
                  THEN [kind |-> "result", job |-> got.job]
                  ELSE [kind |-> verdict, job |-> None]
<1>2. verdict \in {"none", "result"} => HasResult
  BY DEF IInv, ResultInv
<1>3. a \in Promise!Answers
  <2>1. CASE verdict \in {"none", "result"}
    BY <1>1, <1>2, <2>1 DEF HasResult, Promise!Answers, Promise!Calls, Calls
  <2>2. CASE verdict \notin {"none", "result"}
    BY <1>0, <2>2 DEF TypeOK, Promise!Answers, Promise!None, None
  <2> QED
    BY <2>1, <2>2
<1>4. a.kind = "result" => a.job = call
  BY <1>0, <1>2 DEF TypeOK, HasResult
<1>5. (a.kind = "unkillable") = (InRun /\ verdict = "unkillable")
  BY <1>0
<1>6. outcome' = [outcome EXCEPT ![call] = a]
  BY DEF Return
<1>7. ~(InRun /\ verdict = "unkillable")'
  BY <1>0
<1>8. ShuttingDown' = ShuttingDown
  BY <1>0 DEF ShuttingDown
<1> QED
  BY <1>0, <1>3, <1>4, <1>5, <1>6, <1>7, <1>8 DEF Promise!Reply

\* Every step of run() maps to an abstract one, or cannot be seen.
LEMMA RunRefines ==
  ASSUME IInv, RunEnter \/ RunStep
  PROVE  Promise!Next \/ UNCHANGED Promise!vars
<1>0. TypeOK
  BY DEF IInv
<1>1. CASE RunEnter
  <2>1. /\ ~InRun /\ InRun' = TRUE /\ ~ShuttingDown /\ ShuttingDown' = ShuttingDown
        /\ call < MaxCalls /\ call' = call + 1 /\ UNCHANGED <<fatal, outcome>>
    BY <1>1 DEF RunEnter, Raise, InRun, ShuttingDown
  <2>2. (InRun /\ verdict = "unkillable")' = fatal
    BY <1>0, <1>1, <2>1 DEF RunEnter, Raise, TypeOK
  <2>3. Promise!Submit
    BY <2>1, <2>2 DEF Promise!Submit
  <2> QED
    BY <2>3 DEF Promise!Next
<1>2. CASE \/ RunTestAlive \/ Bind \/ Send \/ PollReady \/ PollTimeout \/ Interrupt \/ Recv
           \/ (Kill /\ ~(fatal /\ ~IsCurrent(mine))) \/ (Finally /\ verdict = "none")
           \/ (Check /\ ~Return)
  <2>1. /\ pc' \in PCs \ {"idle", "joining", "closing", "reaping", "closed"}
        /\ pc \in PCs \ {"idle", "joining", "closing", "reaping", "closed"}
        /\ call' = call /\ fatal' = fatal /\ outcome' = outcome
        /\ verdict # "unkillable" /\ verdict' # "unkillable"
    <3>1. CASE RunTestAlive \/ Bind \/ Send \/ PollReady \/ PollTimeout \/ Interrupt \/ Recv
      BY <1>0, <3>1 DEF IInv, ResultInv, RunTestAlive, Bind, Send, PollReady, PollTimeout,
                        Interrupt, Recv, Raise, KillThenRaise, ConnectionError
    <3>2. CASE (Kill /\ ~(fatal /\ ~IsCurrent(mine))) \/ (Finally /\ verdict = "none")
               \/ (Check /\ ~Return)
      BY <1>0, <3>2 DEF IInv, ResultInv, Kill, Finally, Check, Raise, KillThenRaise, IsCurrent
    <3> QED
      BY <1>2, <3>1, <3>2
  <2>2. InRun /\ InRun' /\ ~Refused /\ ~Refused' /\ ~ShuttingDown /\ ~ShuttingDown'
    BY <2>1 DEF InRun, ShuttingDown, Refused
  <2> QED
    BY <2>1, <2>2, UnseenStutters
<1>3. CASE Start \/ KillDone \/ (Kill /\ fatal /\ ~IsCurrent(mine))
  <2>1. /\ pc' \in PCs \ {"idle", "joining", "closing", "reaping", "closed"}
        /\ pc \in PCs \ {"idle", "joining", "closing", "reaping", "closed"}
        /\ call' = call /\ outcome' = outcome
        /\ fatal' \in {fatal, TRUE}
        /\ verdict # "unkillable" /\ (verdict' = "unkillable" => fatal')
    <3>1. CASE Start
      BY <1>0, <3>1 DEF IInv, ResultInv, Start, Raise
    <3>2. CASE KillDone
      <4>1. fatal' \in {fatal, TRUE}
        BY <3>2 DEF KillDone, Reap
      <4>2. verdict \in {"timeout", "died", "result"}
        BY <3>2 DEF IInv, ResultInv, KillDone
      <4>3. verdict' = IF fatal' THEN "unkillable" ELSE verdict
        BY <3>2 DEF KillDone, Raise
      <4> QED
        BY <3>2, <4>1, <4>2, <4>3 DEF KillDone, Raise
    <3>3. CASE Kill /\ fatal /\ ~IsCurrent(mine)
      BY <1>0, <3>3 DEF IInv, ResultInv, Kill, Raise, TypeOK
    <3> QED
      BY <1>3, <3>1, <3>2, <3>3
  <2>2. /\ InRun /\ InRun' /\ ~ShuttingDown /\ ~ShuttingDown'
        /\ ~Refused /\ (Refused' => fatal')
    BY <2>1 DEF InRun, ShuttingDown, Refused
  <2> QED
    BY <2>1, <2>2, GivingUp
<1>4. CASE (Finally /\ verdict # "none") \/ (Check /\ Return)
  <2>1. /\ Return /\ call' = call /\ fatal' = fatal /\ verdict' = verdict
        /\ (pc = "finally" /\ verdict # "none") \/ pc = "check"
    BY <1>4 DEF Finally, Check, Return, KillThenRaise
  <2>2. Promise!Reply
    BY <2>1, ReturnReplies
  <2> QED
    BY <2>2 DEF Promise!Next
<1> QED
  BY <1>1, <1>2, <1>3, <1>4 DEF RunStep

\* So does every step of shutdown(), of a timer and of a worker.
LEMMA OthersRefine ==
  ASSUME IInv, \/ ShutdownBegin \/ ShutdownStep
               \/ \E n \in Calls : TimerStep(n) \/ WorkerStep(n)
  PROVE  Promise!Next \/ UNCHANGED Promise!vars
<1>0. TypeOK
  BY DEF IInv
<1>1. CASE ShutdownBegin
  <2>1. /\ InRun = FALSE /\ InRun' = InRun /\ ShuttingDown = FALSE /\ ShuttingDown' = TRUE
        /\ UNCHANGED <<call, fatal, outcome>>
    BY <1>1 DEF ShutdownBegin, InRun, ShuttingDown
  <2>2. (InRun /\ verdict = "unkillable")' = (InRun /\ verdict = "unkillable")
    BY <2>1
  <2>3. Promise!Close
    BY <2>1, <2>2 DEF Promise!Close
  <2> QED
    BY <2>3 DEF Promise!Next
<1>2. CASE ShutdownStep
  <2>1. /\ pc \in {"joining", "closing", "reaping"} /\ pc' \in {"closing", "reaping", "closed"}
        /\ call' = call /\ outcome' = outcome /\ fatal' \in {fatal, TRUE}
    BY <1>2 DEF ShutdownStep, ShutdownJoin, ShutdownKill, ShutdownReap, Reap
  <2>2. ~InRun /\ ~InRun' /\ ShuttingDown /\ ShuttingDown' /\ ~Refused /\ ~Refused'
    BY <2>1 DEF InRun, ShuttingDown, Refused
  <2> QED
    BY <2>1, <2>2, GivingUp
<1>3. CASE \E n \in Calls : TimerStep(n) \/ WorkerStep(n)
  <2>1. UNCHANGED <<pc, call, verdict, outcome>> /\ fatal' \in {fatal, TRUE}
    BY <1>3, WorkerFrame DEF TimerStep, TimerFire, TimerKill, TimerKillDone, Reap
  <2>2. (InRun' <=> InRun) /\ (ShuttingDown' <=> ShuttingDown) /\ (Refused' <=> Refused)
    BY <2>1 DEF InRun, ShuttingDown, Refused
  <2> QED
    BY <2>1, <2>2, GivingUp
<1> QED
  BY <1>1, <1>2, <1>3

\* run() and shutdown() implement IsolatedCall: each job is answered once, with
\* its own result or a failure, and refused exactly when a worker survived
\* SIGKILL.
THEOREM WorkerImplementsIsolatedCall == Spec => ImplementsIsolatedCall
<1>1. Init => Promise!Init
  BY DEF Init, Promise!Init, InRun, ShuttingDown, Pending, None, Promise!None, Calls,
         Promise!Calls
<1>2. IInv /\ [Next]_vars => [Promise!Next]_(Promise!vars)
  <2> SUFFICES ASSUME IInv, [Next]_vars PROVE Promise!Next \/ UNCHANGED Promise!vars
    OBVIOUS
  <2>1. CASE UNCHANGED vars
    <3>1. (InRun' <=> InRun) /\ (ShuttingDown' <=> ShuttingDown) /\ (Refused' <=> Refused)
      BY <2>1 DEF InRun, ShuttingDown, Refused
    <3> QED
      BY <2>1, <3>1, UnseenStutters
  <2> QED
    BY <2>1, RunRefines, OthersRefine DEF Next, Terminated
<1> QED
  BY <1>1, <1>2, InductiveInvariant, PTL DEF Spec, ImplementsIsolatedCall, Promise!Spec

=============================================================================
