--------------------------- MODULE BenchmarkWorker ---------------------------
(***************************************************************************)
(* One BenchmarkWorker object (helion/autotuner/benchmark_worker.py): the  *)
(* thread that calls run() and shutdown(), the threading.Timer each run()  *)
(* arms, the spawned worker processes, and the duplex pipe to each.        *)
(*                                                                         *)
(* Calls of run() are numbered; call n submits job n.  A call spawns at    *)
(* most one process, so a process is named after the call that spawned it  *)
(* and "None" is the number 0.  Time is abstract: a timeout may expire     *)
(* whenever what it waits for has not happened.                            *)
(***************************************************************************)
EXTENDS Naturals, Sequences, FiniteSets

CONSTANTS
  MaxCalls,      \* bound on the number of run() calls
  ResultKinds,   \* what a job may send back: see Kinds
  MayInterrupt   \* whether a KeyboardInterrupt may reach a waiting run()

(* "value" and "error" leave the worker usable; "sticky" is an error that  *)
(* matches _UNRECOVERABLE_RUNTIME_ERROR_RE; "garbled" is a result whose    *)
(* unpickling raises in the parent.  A result that cannot be pickled kills *)
(* the worker loop and is a WorkerCrash.                                   *)
Kinds == {"value", "error", "sticky", "garbled"}

ASSUME MaxCallsAssumption == MaxCalls \in Nat \ {0}
ASSUME ResultKindsAssumption == ResultKinds \subseteq Kinds
ASSUME MayInterruptAssumption == MayInterrupt \in BOOLEAN

Calls == 1..MaxCalls
None == 0
Stop == 0        \* the None message that asks the worker loop to return

VARIABLES
  \* --- fields of the BenchmarkWorker object
  current,   \* the pair _process, _parent_connection
  fatal,     \* _fatal_error is set
  lock,      \* who holds _lock
  \* --- the thread inside run() or shutdown()
  pc, call, mine, got, verdict,
  \* --- what each call of run() returned or raised
  outcome,
  \* --- the timer of each call, and its timed_out event
  timer, target, timedOut,
  \* --- the worker processes and their pipes
  proc, doing, inbox, outbox, open

object == <<current, fatal, lock>>
thread == <<pc, call, mine, got, verdict>>
timers == <<timer, target, timedOut>>
pipes  == <<inbox, outbox, open>>
procs  == <<proc, doing>>
vars   == <<object, thread, outcome, timers, procs, pipes>>

Result == [job : Calls, kind : Kinds]
NoResult == [job |-> None, kind |-> "value"]

PCs == {"idle", "enter", "start", "bind", "send", "poll", "recv", "kill",
        "killing", "finally", "check",
        "joining", "closing", "reaping", "closed"}
Verdicts == {"none", "timeout", "died", "result", "garbled", "interrupted",
             "unkillable", "assertion"}
Pending == [kind |-> "none", job |-> None]
Outcomes == [kind : {"result"}, job : Calls]
            \cup [kind : Verdicts \ {"result"}, job : {None}]

TypeOK ==
  /\ current \in Calls \cup {None}
  /\ fatal \in BOOLEAN
  /\ lock \in {"free", "run", "timer"}
  /\ pc \in PCs
  /\ call \in Calls \cup {None}
  /\ mine \in Calls \cup {None}
  /\ got \in Result \cup {NoResult}
  /\ verdict \in Verdicts
  /\ outcome \in [Calls -> Outcomes]
  /\ timer \in [Calls -> {"off", "armed", "fired", "killing", "over"}]
  /\ target \in [Calls -> Calls \cup {None}]
  /\ timedOut \in [Calls -> BOOLEAN]
  /\ proc \in [Calls -> {"unborn", "running", "killed", "exited"}]
  /\ doing \in [Calls -> Calls \cup {None}]
  /\ inbox \in [Calls -> Seq(Calls \cup {Stop})]
  /\ outbox \in [Calls -> Seq(Result)]
  /\ open \in [Calls -> BOOLEAN]

Init ==
  /\ current = None /\ fatal = FALSE /\ lock = "free"
  /\ pc = "idle" /\ call = None /\ mine = None
  /\ got = NoResult /\ verdict = "none"
  /\ outcome = [n \in Calls |-> Pending]
  /\ timer = [n \in Calls |-> "off"]
  /\ target = [n \in Calls |-> None]
  /\ timedOut = [n \in Calls |-> FALSE]
  /\ proc = [w \in Calls |-> "unborn"]
  /\ doing = [w \in Calls |-> None]
  /\ inbox = [w \in Calls |-> <<>>]
  /\ outbox = [w \in Calls |-> <<>>]
  /\ open = [w \in Calls |-> FALSE]

-----------------------------------------------------------------------------
(* Helpers shared by the threads.                                          *)

\* Process.is_alive(): a process sent SIGKILL is alive until it exits.
IsAlive(w) == w # None /\ proc[w] \in {"running", "killed"}

\* Mutant: only the fatal error is looked at, not which process it is.
IsCurrent_AnyProcess(w) == ~fatal

\* The condition _kill_if_current checks under _lock.
IsCurrent(w) == w = current /\ ~fatal

\* signal_process_tree(process, SIGKILL): no effect on an exited process.
Sigkill(w) ==
  proc' = [proc EXCEPT ![w] = IF @ = "running" THEN "killed" ELSE @]

\* Mutant: a process seen to be gone makes a disabled object usable again.
Reap_Reenables(w) ==
  /\ fatal' = IsAlive(w)
  /\ current' = IF IsAlive(w) THEN current ELSE None
  /\ open' = [open EXCEPT ![w] = FALSE]

\* The rest of _kill, after the bounded join: close the connection, then
\* either disable the object for good or clear both fields, whatever they
\* hold by then; a connection that only the fields referred to is closed.
Reap(w) ==
  IF IsAlive(w)
    THEN /\ fatal' = TRUE /\ open' = [open EXCEPT ![w] = FALSE]
         /\ UNCHANGED current
    ELSE /\ current' = None
         /\ open' = [x \in Calls |-> open[x] /\ x = mine /\ x # w]
         /\ UNCHANGED fatal

Goto(p) == pc' = p

\* run() leaves its try block with exception v and enters finally.
Raise(v) == Goto("finally") /\ verdict' = v

\* Mutant: the worker is left running with the job unanswered.
KillThenRaise_LeavesWorker(v) == Raise(v)

\* An except or timeout branch of run(): kill, then raise v.
KillThenRaise(v) == Goto("kill") /\ verdict' = v

-----------------------------------------------------------------------------
(* The thread in run().                                                    *)

\* Mutant: run() does not call _raise_if_unusable.
RunEnter_Unchecked ==
  /\ pc = "idle" /\ call < MaxCalls
  /\ \A n \in Calls : outcome[n].kind # "interrupted"
  /\ call' = call + 1 /\ got' = NoResult
  /\ Goto("enter") /\ verdict' = "none"
  /\ UNCHANGED <<object, mine, outcome, timers, procs, pipes>>

RunEnter ==
  /\ pc = "idle" /\ call < MaxCalls
  /\ \A n \in Calls : outcome[n].kind # "interrupted"
  /\ call' = call + 1
  /\ got' = NoResult
  /\ IF fatal
       THEN Raise("unkillable")
       ELSE Goto("enter") /\ verdict' = "none"
  /\ UNCHANGED <<object, mine, outcome, timers, procs, pipes>>

\* if not self.alive(): self._start()
RunTestAlive ==
  /\ pc = "enter"
  /\ Goto(IF IsAlive(current) THEN "bind" ELSE "start")
  /\ UNCHANGED <<object, call, mine, got, verdict, outcome, timers, procs, pipes>>

\* A new pipe and a new process, idle at its first recv().
Start ==
  /\ pc = "start"
  /\ IF fatal
       THEN Raise("unkillable") /\ UNCHANGED <<current, procs, pipes>>
       ELSE /\ proc' = [proc EXCEPT ![call] = "running"]
            /\ doing' = [doing EXCEPT ![call] = None]
            /\ inbox' = [inbox EXCEPT ![call] = <<>>]
            /\ outbox' = [outbox EXCEPT ![call] = <<>>]
            /\ open' = [open EXCEPT ![call] = TRUE]
            /\ current' = call
            /\ Goto("bind") /\ UNCHANGED verdict
  /\ UNCHANGED <<fatal, lock, call, mine, got, outcome, timers>>

\* The two asserts, then the timer is armed for this process.
Bind ==
  /\ pc = "bind"
  /\ mine' = current
  /\ IF current = None
       THEN Raise("assertion") /\ UNCHANGED timers
       ELSE /\ timer' = [timer EXCEPT ![call] = "armed"]
            /\ target' = [target EXCEPT ![call] = current]
            /\ Goto("send") /\ UNCHANGED <<timedOut, verdict>>
  /\ UNCHANGED <<object, call, got, outcome, procs, pipes>>

\* Mutant: the exception is swallowed.
ConnectionError_Swallowed == Goto("finally") /\ UNCHANGED verdict

\* The except clauses around send, poll and recv.
ConnectionError ==
  KillThenRaise(IF timedOut[call] THEN "timeout" ELSE "died")

Send ==
  /\ pc = "send"
  /\ IF open[mine] /\ proc[mine] # "exited"
       THEN /\ inbox' = [inbox EXCEPT ![mine] = Append(@, call)]
            /\ Goto("poll") /\ UNCHANGED verdict
       ELSE ConnectionError /\ UNCHANGED inbox
  /\ UNCHANGED <<object, call, mine, got, outcome, timers, procs, outbox, open>>

Readable(w) == outbox[w] # <<>> \/ proc[w] = "exited"

PollReady ==
  /\ pc = "poll"
  /\ IF open[mine]
       THEN Readable(mine) /\ Goto("recv") /\ UNCHANGED verdict
       ELSE ConnectionError
  /\ UNCHANGED <<object, call, mine, got, outcome, timers, procs, pipes>>

PollTimeout ==
  /\ pc = "poll" /\ open[mine] /\ ~Readable(mine)
  /\ timedOut' = [timedOut EXCEPT ![call] = TRUE]
  /\ KillThenRaise("timeout")
  /\ UNCHANGED <<object, call, mine, got, outcome, timer, target, procs, pipes>>

Interrupt ==
  /\ MayInterrupt /\ pc = "poll"
  /\ Raise("interrupted")
  /\ UNCHANGED <<object, call, mine, got, outcome, timers, procs, pipes>>

Recv ==
  /\ pc = "recv"
  /\ IF open[mine] /\ outbox[mine] # <<>>
       THEN /\ outbox' = [outbox EXCEPT ![mine] = Tail(@)]
            /\ got' = Head(outbox[mine])
            /\ IF got'.kind = "garbled"
                 THEN Raise("garbled")
                 ELSE Goto("finally") /\ UNCHANGED verdict
       ELSE ConnectionError /\ UNCHANGED <<outbox, got>>
  /\ UNCHANGED <<object, call, mine, outcome, timers, procs, inbox, open>>

\* _kill_if_current: take _lock, compare, and signal the process; or find
\* another process (or a disabled object) and leave at once.
Kill ==
  /\ pc = "kill" /\ lock = "free"
  /\ IF IsCurrent(mine)
       THEN /\ Sigkill(mine) /\ lock' = "run"
            /\ Goto("killing") /\ UNCHANGED verdict
       ELSE /\ Raise(IF fatal THEN "unkillable" ELSE verdict)
            /\ UNCHANGED <<proc, lock>>
  /\ UNCHANGED <<current, fatal, call, mine, got, outcome, timers, doing, pipes>>

\* Mutant: join() without a timeout.
KillDone_Unbounded ==
  /\ pc = "killing" /\ ~IsAlive(mine)
  /\ Reap(mine) /\ lock' = "free"
  /\ Raise(verdict)
  /\ UNCHANGED <<call, mine, got, outcome, timers, procs, inbox, outbox>>

\* The join(timeout=5) has returned, whether or not the process exited.
KillDone ==
  /\ pc = "killing"
  /\ Reap(mine) /\ lock' = "free"
  /\ Raise(IF fatal' THEN "unkillable" ELSE verdict)
  /\ UNCHANGED <<call, mine, got, outcome, timers, procs, inbox, outbox>>

\* run() returns or raises; its frame's reference to the connection goes.
Return ==
  /\ Goto("idle") /\ mine' = None
  /\ open' = [x \in Calls |-> open[x] /\ x = current]
  /\ outcome' = [outcome EXCEPT ![call] =
       IF verdict \in {"none", "result"}
         THEN [kind |-> "result", job |-> got.job]
         ELSE [kind |-> verdict, job |-> None]]

\* Under completion_lock done is set, then the timer is cancelled.
Finally ==
  /\ pc = "finally"
  /\ timer' = [timer EXCEPT ![call] = IF @ = "armed" THEN "off" ELSE @]
  /\ IF verdict = "none"
       THEN Goto("check") /\ UNCHANGED <<mine, open, outcome>>
       ELSE Return
  /\ UNCHANGED <<object, call, got, verdict, target, timedOut, procs,
                 inbox, outbox>>

\* A result was received: was it too late, is it a sticky error?
Check ==
  /\ pc = "check"
  /\ IF timedOut[call] \/ got.kind = "sticky"
       THEN /\ KillThenRaise(IF timedOut[call] THEN "timeout" ELSE "result")
            /\ UNCHANGED <<mine, open, outcome>>
       ELSE Return /\ UNCHANGED verdict
  /\ UNCHANGED <<object, call, got, timers, procs, inbox, outbox>>

-----------------------------------------------------------------------------
(* on_timeout, in the timer thread of call n.                              *)

\* Mutant: on_timeout does not look at done.
TimerFire_IgnoresDone(n) ==
  /\ timer[n] \in {"armed", "off"} /\ target[n] # None
  /\ timer' = [timer EXCEPT ![n] = "fired"]
  /\ timedOut' = [timedOut EXCEPT ![n] = TRUE]
  /\ UNCHANGED <<object, thread, outcome, target, procs, pipes>>

TimerFire(n) ==
  /\ timer[n] = "armed"
  /\ timer' = [timer EXCEPT ![n] = "fired"]
  /\ timedOut' = [timedOut EXCEPT ![n] = TRUE]
  /\ UNCHANGED <<object, thread, outcome, target, procs, pipes>>

TimerKill(n) ==
  /\ timer[n] = "fired" /\ lock = "free"
  /\ IF IsCurrent(target[n])
       THEN /\ Sigkill(target[n]) /\ lock' = "timer"
            /\ timer' = [timer EXCEPT ![n] = "killing"]
       ELSE /\ timer' = [timer EXCEPT ![n] = "over"]
            /\ UNCHANGED <<proc, lock>>
  /\ UNCHANGED <<current, fatal, thread, outcome, target, timedOut, doing, pipes>>

TimerKillDone(n) ==
  /\ timer[n] = "killing"
  /\ Reap(target[n]) /\ lock' = "free"
  /\ timer' = [timer EXCEPT ![n] = "over"]
  /\ UNCHANGED <<thread, outcome, target, timedOut, procs, inbox, outbox>>

-----------------------------------------------------------------------------
(* _worker_loop in process w.                                              *)

WorkerRecv(w) ==
  /\ proc[w] = "running" /\ doing[w] = None /\ inbox[w] # <<>>
  /\ inbox' = [inbox EXCEPT ![w] = Tail(@)]
  /\ IF Head(inbox[w]) = Stop
       THEN proc' = [proc EXCEPT ![w] = "exited"] /\ UNCHANGED doing
       ELSE doing' = [doing EXCEPT ![w] = Head(inbox[w])] /\ UNCHANGED proc
  /\ UNCHANGED <<object, thread, outcome, timers, outbox, open>>

WorkerRecvEOF(w) ==
  /\ proc[w] = "running" /\ doing[w] = None /\ inbox[w] = <<>> /\ ~open[w]
  /\ proc' = [proc EXCEPT ![w] = "exited"]
  /\ UNCHANGED <<object, thread, outcome, timers, doing, pipes>>

\* The job returns or raises and the result is sent back.
WorkerFinish(w) ==
  /\ proc[w] = "running" /\ doing[w] # None
  /\ doing' = [doing EXCEPT ![w] = None]
  /\ IF open[w]
       THEN /\ \E k \in ResultKinds :
                 outbox' = [outbox EXCEPT
                              ![w] = Append(@, [job |-> doing[w], kind |-> k])]
            /\ UNCHANGED proc
       ELSE proc' = [proc EXCEPT ![w] = "exited"] /\ UNCHANGED outbox
  /\ UNCHANGED <<object, thread, outcome, timers, inbox, open>>

\* The job brings the process down (a segfault, the OOM killer), or its
\* value cannot be pickled.
WorkerCrash(w) ==
  /\ proc[w] = "running"
  /\ proc' = [proc EXCEPT ![w] = "exited"]
  /\ UNCHANGED <<object, thread, outcome, timers, doing, pipes>>

\* A process that was sent SIGKILL exits; one stuck in the driver never does.
ProcExit(w) ==
  /\ proc[w] = "killed"
  /\ proc' = [proc EXCEPT ![w] = "exited"]
  /\ UNCHANGED <<object, thread, outcome, timers, doing, pipes>>

-----------------------------------------------------------------------------
(* shutdown(): it takes no lock.                                           *)

ShutdownBegin ==
  /\ pc = "idle"
  /\ mine' = current
  /\ IF IsAlive(current) /\ open[current]
       THEN /\ inbox' = [inbox EXCEPT ![current] = Append(@, Stop)]
            /\ Goto("joining")
       ELSE Goto("closing") /\ UNCHANGED inbox
  /\ UNCHANGED <<object, call, got, verdict, outcome, timers, procs,
                 outbox, open>>

\* Mutant: a worker that was asked to stop is trusted to do so.
ShutdownJoin_Trusting ==
  /\ pc = "joining" /\ Goto("closed")
  /\ UNCHANGED <<object, call, mine, got, verdict, outcome, timers, procs, pipes>>

\* process.join(timeout=5)
ShutdownJoin ==
  /\ pc = "joining" /\ Goto("closing")
  /\ UNCHANGED <<object, call, mine, got, verdict, outcome, timers, procs, pipes>>

\* _kill reads the fields again; with no process there is nothing to do.
ShutdownKill ==
  /\ pc = "closing"
  /\ mine' = current
  /\ IF current = None
       THEN Goto("closed") /\ UNCHANGED proc
       ELSE Goto("reaping") /\ Sigkill(current)
  /\ UNCHANGED <<object, call, got, verdict, outcome, timers, doing, pipes>>

ShutdownReap ==
  /\ pc = "reaping"
  /\ Reap(mine) /\ Goto("closed")
  /\ UNCHANGED <<lock, call, mine, got, verdict, outcome, timers, procs,
                 inbox, outbox>>

-----------------------------------------------------------------------------
RunStep ==
  \/ RunTestAlive \/ Start \/ Bind \/ Send
  \/ PollReady \/ PollTimeout \/ Interrupt \/ Recv
  \/ Kill \/ KillDone \/ Finally \/ Check

ShutdownStep == ShutdownJoin \/ ShutdownKill \/ ShutdownReap

TimerStep(n) == TimerFire(n) \/ TimerKill(n) \/ TimerKillDone(n)

WorkerStep(w) ==
  \/ WorkerRecv(w) \/ WorkerRecvEOF(w) \/ WorkerFinish(w)
  \/ WorkerCrash(w) \/ ProcExit(w)

Terminated == pc = "closed" /\ UNCHANGED vars

Next ==
  \/ RunEnter \/ RunStep
  \/ ShutdownBegin \/ ShutdownStep
  \/ \E n \in Calls : TimerStep(n) \/ WorkerStep(n)
  \/ Terminated

\* The parent's threads are scheduled and its timeouts expire.  Nothing is
\* assumed of a worker: its job may hang, and it may survive SIGKILL.
Fairness ==
  /\ WF_vars(RunStep) /\ WF_vars(ShutdownStep)
  /\ \A n \in Calls : WF_vars(TimerStep(n))

Spec == Init /\ [][Next]_vars
FairSpec == Spec /\ Fairness

-----------------------------------------------------------------------------
(* What a caller relies on.                                                *)

\* A result that run() returns is the answer to the job of that very call,
\* never a late answer to an earlier job on the same pipe: run() kills the
\* worker on every path that leaves a job unanswered.
ResultIsForThisJob ==
  \A n \in Calls : outcome[n].kind = "result" => outcome[n].job = n

Live == {w \in Calls : IsAlive(w)}

\* "assert connection is not None" in run(): after alive() or _start() the
\* fields hold a process.
BindAssertionsHold == verdict # "assertion"

\* Every result so far could be unpickled.  After one that could not, a timer
\* may outlive its call and meet a later one.
Tidy == verdict # "garbled" /\ \A n \in Calls : outcome[n].kind # "garbled"

\* The class docstring: "Single spawn subprocess".  Two processes would
\* benchmark on one device at the same time.  run() finds the one it tested or
\* started where it left it.
SingleWorker == Tidy => Cardinality(Live) <= 1 /\ BindAssertionsHold

\* When shutdown() has returned without raising, no worker is left running.
NoOrphan == Tidy /\ pc = "closed" /\ ~fatal => Live = {}

Waiting == pc \in {"send", "poll", "recv"}

\* A worker is killed under a call that waits for it only when that call
\* itself has timed out: on_timeout of an earlier call never takes it down.
InnocentWorkerIsSpared ==
  [][\A w \in Calls :
       /\ Tidy /\ proc[w] = "running" /\ proc'[w] = "killed"
       /\ Waiting /\ mine = w
       => timedOut[call]]_vars

\* "permanently disables this instance": once a worker survived SIGKILL no
\* process is spawned again and every later call is refused.
DisabledForGood ==
  [][fatal => /\ fatal'
              /\ \A w \in Calls : proc[w] = "unborn" => proc'[w] = "unborn"
              /\ pc = "idle" /\ call' # call => verdict' = "unkillable"]_vars

\* run() and shutdown() return whatever the worker does, even one that never
\* answers and survives SIGKILL.
RunAndShutdownReturn == pc \notin {"idle", "closed"} ~> pc \in {"idle", "closed"}

-----------------------------------------------------------------------------
(* run() and shutdown() implement IsolatedCall.                            *)

ShuttingDown == pc \in {"joining", "closing", "reaping", "closed"}
InRun == pc # "idle" /\ ~ShuttingDown

Promise == INSTANCE IsolatedCall WITH
  Failures <- {"timeout", "died", "interrupted", "unkillable", "garbled", "assertion"},
  asked <- call, waiting <- InRun,
  refused <- InRun /\ verdict = "unkillable",
  disabled <- fatal, closed <- ShuttingDown, answer <- outcome

\* Each job is answered once, with its own result or a failure (among them
\* what unpickling raises, and the assertion that may follow it), and with
\* BenchmarkWorkerUnkillable exactly when the object was disabled.
ImplementsIsolatedCall == Promise!Spec
=============================================================================
