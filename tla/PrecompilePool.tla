--------------------------- MODULE PrecompilePool ---------------------------
(***************************************************************************)
(* PrecompileFuture.wait_for_all (helion/autotuner/precompile_future.py):  *)
(* the parent starts at most Jobs child processes at a time, waits for     *)
(* each to exit or to overrun its timeout, and turns what it left into a   *)
(* verdict; an exception cancels whatever is still undecided.              *)
(*                                                                         *)
(* The futures are numbered in list order.  Time is abstract: the deadline *)
(* of a running child may pass at any moment.  A child leads its own       *)
(* process group, in which a compiler it started may outlive it.           *)
(***************************************************************************)
EXTENDS Integers, FiniteSets

CONSTANTS
  N,             \* len(futures)
  Jobs,          \* ctx.jobs
  Classes,       \* the classifications a child may report: see AllClasses
  IgnoreErrors,  \* settings.autotune_ignore_errors
  MayInterrupt,  \* whether a KeyboardInterrupt may reach a waiting parent
  MayFailToStart,\* whether Process.start() may raise
  MayUnwind      \* whether a child may meet an exception outside Exception

AllClasses == {"debug", "warn", "raise"}

ASSUME NAssumption == N \in Nat
ASSUME JobsAssumption == Jobs \in Nat \ {0}
ASSUME ClassesAssumption == Classes \subseteq AllClasses
ASSUME FlagsAssumption ==
  /\ IgnoreErrors \in BOOLEAN /\ MayInterrupt \in BOOLEAN
  /\ MayFailToStart \in BOOLEAN /\ MayUnwind \in BOOLEAN

Futures == 1..N
None == 0

VARIABLES
  \* --- the parent in wait_for_all
  pc,
  todo,     \* the list "remaining"
  slots,    \* the list "running" of this step
  left,     \* what the loop at hand has still to visit
  cur,      \* the future being started or settled
  \* --- the fields of each future
  started, ok, reason, error,
  \* --- the child of each future
  life, code, signal,
  work,     \* what became of the compilation
  helper,   \* a compiler process of its group is running
  file,     \* what is at result_path
  expired   \* seconds_left() <= 0

parent == <<pc, todo, slots, left, cur>>
fields == <<ok, reason, error>>
child  == <<life, code, signal, work, helper, file>>
vars == <<parent, started, fields, child, expired>>

TypeOK ==
  /\ pc \in {"top", "fill", "started", "wait", "sweep", "mark", "grace",
             "reap", "killall", "cancel", "returned", "raised"}
  /\ todo \subseteq Futures /\ slots \subseteq Futures /\ left \subseteq Futures
  /\ cur \in Futures \cup {None}
  /\ started \in [Futures -> BOOLEAN]
  /\ ok \in [Futures -> {"none", "yes", "no"}]
  /\ reason \in [Futures -> {"none", "ok", "error", "timeout"}]
  /\ error \in [Futures -> AllClasses \cup {"none"}]
  /\ life \in [Futures -> {"unborn", "running", "ending", "gone"}]
  /\ code \in [Futures -> {"none", "zero", "nonzero"}]
  /\ signal \in [Futures -> {"none", "term", "kill"}]
  /\ work \in [Futures -> {"none", "compiled", "failed", "unwound"}]
  /\ helper \in [Futures -> BOOLEAN]
  /\ file \in [Futures -> AllClasses \cup {"none", "ok", "garbled"}]
  /\ expired \in [Futures -> BOOLEAN]

\* A future is created undecided, or by skip() with its verdict.
Init ==
  /\ pc = "top" /\ slots = {} /\ left = {} /\ cur = None
  /\ ok \in [Futures -> {"none", "yes", "no"}]
  /\ started = [f \in Futures |-> ok[f] # "none"]
  /\ reason = [f \in Futures |-> CASE ok[f] = "none" -> "none"
                                   [] ok[f] = "yes" -> "ok"
                                   [] ok[f] = "no" -> "error"]
  /\ todo = {f \in Futures : ok[f] = "none"}
  /\ error = [f \in Futures |-> "none"]
  /\ life = [f \in Futures |-> "unborn"]
  /\ code = [f \in Futures |-> "none"]
  /\ signal = [f \in Futures |-> "none"]
  /\ work = [f \in Futures |-> "none"]
  /\ helper = [f \in Futures |-> FALSE]
  /\ file = [f \in Futures |-> "none"]
  /\ expired = [f \in Futures |-> FALSE]

-----------------------------------------------------------------------------
(* Helpers.                                                                *)

Alive(f) == life[f] \in {"running", "ending"}

First(S) == CHOOSE f \in S : \A g \in S : f <= g

Queued == {f \in todo : ~started[f]}

Active == {f \in Futures : ok[f] = "none"}

Goto(p) == pc' = p

\* signal_process_tree(process, SIGKILL) for the futures of S.
KillGroups(S) ==
  /\ signal' = [f \in Futures |-> IF f \in S /\ Alive(f) THEN "kill" ELSE signal[f]]
  /\ helper' = [f \in Futures |-> helper[f] /\ f \notin S]

\* Mutant: the status of a result is taken for its classification.
Reported_Status(f, why) == file[f]

\* The remote_error that reading result_path leaves: after a timeout a
\* missing or unreadable result is no error of its own.
Reported(f, why) ==
  IF file[f] \in AllClasses THEN file[f]
  ELSE IF file[f] = "ok" \/ why = "timeout" THEN "none"
  ELSE IF file[f] = "garbled" THEN "warn" ELSE "debug"

\* _consume_result: read and remove the result, then fix verdict and reason.
Decide(f, verdict, why) ==
  /\ error' = [error EXCEPT ![f] = Reported(f, why)]
  /\ ok' = [ok EXCEPT ![f] = IF file[f] \in AllClasses THEN "no" ELSE verdict]
  /\ reason' = [reason EXCEPT ![f] = IF ok'[f] = "yes" THEN "ok" ELSE why]
  /\ file' = [file EXCEPT ![f] = "none"]

\* Mutant: the second _consume_result does not raise.
Raises_Never(f) == FALSE

\* _consume_result(raise_on_raise=True) raises a TritonError.
Raises(f) == error'[f] = "raise" /\ ~IgnoreErrors

\* The sweep goes on after future f, or the exception leaves it.
Continue(f) ==
  /\ todo' = todo \ {f} /\ left' = left \ {f} /\ cur' = None
  /\ Goto(IF Raises(f) THEN "killall" ELSE "sweep")
  /\ UNCHANGED slots

-----------------------------------------------------------------------------
(* The parent: wait_for_all and _wait_for_all_step.                        *)

\* while remaining: a step begins with a look at who is running.
Begin ==
  /\ pc = "top"
  /\ IF todo = {}
       THEN Goto("returned") /\ UNCHANGED slots
       ELSE Goto("fill") /\ slots' = {f \in todo : started[f] /\ Alive(f)}
  /\ UNCHANGED <<todo, left, cur, started, fields, child, expired>>

\* Mutant: one too many.
HasRoom_OffByOne == Cardinality(slots) <= Jobs /\ Queued # {}

HasRoom == Cardinality(slots) < Jobs /\ Queued # {}

\* job = queued.popleft(); job.start()
Start ==
  /\ pc = "fill" /\ HasRoom
  /\ LET f == First(Queued) IN
       /\ cur' = f
       /\ started' = [started EXCEPT ![f] = TRUE]
       /\ life' = [life EXCEPT ![f] = "running"]
  /\ Goto("started")
  /\ UNCHANGED <<todo, slots, left, fields, code, signal, work, helper, file,
                 expired>>

\* start_time is set before Process.start() raises.
StartFails ==
  /\ MayFailToStart /\ pc = "fill" /\ HasRoom
  /\ started' = [started EXCEPT ![First(Queued)] = TRUE]
  /\ Goto("killall")
  /\ UNCHANGED <<todo, slots, left, cur, fields, child, expired>>

\* if job.is_alive(): running.append(job)
CountStarted ==
  /\ pc = "started"
  /\ slots' = IF Alive(cur) THEN slots \cup {cur} ELSE slots
  /\ cur' = None /\ Goto("fill")
  /\ UNCHANGED <<todo, left, started, fields, child, expired>>

FillDone ==
  /\ pc = "fill" /\ ~HasRoom /\ Goto("wait")
  /\ UNCHANGED <<todo, slots, left, cur, started, fields, child, expired>>

\* Mutant: connection.wait has no timeout.
WaitAny_NoTimeout ==
  /\ pc = "wait" /\ (slots = {} \/ \E f \in slots : ~Alive(f))
  /\ left' = todo /\ Goto("sweep")
  /\ UNCHANGED <<todo, slots, cur, started, fields, child, expired>>

\* connection.wait: some child exits, or the nearest deadline passes.
WaitAny ==
  /\ pc = "wait" /\ (slots = {} \/ \E f \in slots : ~Alive(f) \/ expired[f])
  /\ left' = todo /\ Goto("sweep")
  /\ UNCHANGED <<todo, slots, cur, started, fields, child, expired>>

Sweep ==
  /\ pc = "sweep" /\ left # {}
  /\ LET f == First(left) IN
       IF started[f] /\ (~Alive(f) \/ expired[f])
         THEN cur' = f /\ Goto("mark") /\ UNCHANGED left
         ELSE left' = left \ {f} /\ UNCHANGED <<cur, pc>>
  /\ UNCHANGED <<todo, slots, started, fields, child, expired>>

SweepDone ==
  /\ pc = "sweep" /\ left = {} /\ Goto("top")
  /\ UNCHANGED <<todo, slots, left, cur, started, fields, child, expired>>

\* Mutant: every future that is marked after its deadline is a timeout.
MarkExited_LateIsTimeout ==
  /\ pc = "mark" /\ ~Alive(cur)
  /\ IF code[cur] = "zero" /\ ~expired[cur]
       THEN UNCHANGED <<signal, helper>> /\ Decide(cur, "yes", "error")
       ELSE KillGroups({cur}) /\ Decide(cur, "no", "timeout")
  /\ Continue(cur)
  /\ UNCHANGED <<started, life, code, work, expired>>

\* _mark_complete of a child that has exited.
MarkExited ==
  /\ pc = "mark" /\ ~Alive(cur)
  /\ IF code[cur] = "zero"
       THEN UNCHANGED <<signal, helper>> /\ Decide(cur, "yes", "error")
       ELSE KillGroups({cur}) /\ Decide(cur, "no", "error")
  /\ Continue(cur)
  /\ UNCHANGED <<started, life, code, work, expired>>

\* _mark_complete of a child that overran: SIGTERM, which it may outlive.
MarkOverrun ==
  /\ pc = "mark" /\ Alive(cur)
  /\ signal' = [signal EXCEPT ![cur] = "term"]
  /\ helper' \in {helper, [helper EXCEPT ![cur] = FALSE]}
  /\ Goto("grace")
  /\ UNCHANGED <<todo, slots, left, cur, started, fields, life, code, work,
                 file, expired>>

\* Mutant: SIGKILL only if the child outlived the grace period.
GraceOver_IfAlive ==
  /\ pc = "grace" /\ Goto("reap")
  /\ IF Alive(cur) THEN KillGroups({cur}) ELSE UNCHANGED <<signal, helper>>
  /\ UNCHANGED <<todo, slots, left, cur, started, fields, life, code, work,
                 file, expired>>

\* join(10) is over; SIGKILL for the whole group in any case.
GraceOver ==
  /\ pc = "grace" /\ Goto("reap")
  /\ KillGroups({cur})
  /\ UNCHANGED <<todo, slots, left, cur, started, fields, life, code, work,
                 file, expired>>

\* The join() after SIGKILL, then the verdict.
ReapOverrun ==
  /\ pc = "reap" /\ ~Alive(cur)
  /\ Decide(cur, "no", "timeout")
  /\ Continue(cur)
  /\ UNCHANGED <<started, life, code, signal, work, helper, expired>>

\* A KeyboardInterrupt where the parent blocks.
Interrupt ==
  /\ MayInterrupt /\ pc \in {"wait", "grace", "reap"}
  /\ Goto("killall")
  /\ UNCHANGED <<todo, slots, left, cur, started, fields, child, expired>>

-----------------------------------------------------------------------------
(* _cancel_all.                                                            *)

KillAll ==
  /\ pc = "killall" /\ Goto("cancel")
  /\ left' = Active /\ cur' = None
  /\ KillGroups({f \in Active : started[f]})
  /\ UNCHANGED <<todo, slots, started, fields, life, code, work, file, expired>>

\* cancel(): join the child, which was killed, and take its result away.
Cancel ==
  /\ pc = "cancel" /\ left # {}
  /\ LET f == First(left) IN
       /\ ~Alive(f)
       /\ Decide(f, "no", "error")
       /\ left' = left \ {f}
  /\ UNCHANGED <<pc, todo, slots, cur, started, life, code, signal, work,
                 helper, expired>>

CancelDone ==
  /\ pc = "cancel" /\ left = {} /\ Goto("raised")
  /\ UNCHANGED <<todo, slots, left, cur, started, fields, child, expired>>

-----------------------------------------------------------------------------
(* The child of future f: _run_kernel_in_subprocess_spawn or _fork.        *)

Runs(f) == life[f] = "running" /\ signal[f] # "kill"

\* The compilation runs a compiler, which takes its time or finishes.
ChildCallsCompiler(f) ==
  /\ Runs(f) /\ ~helper[f]
  /\ helper' = [helper EXCEPT ![f] = TRUE]
  /\ UNCHANGED <<parent, started, fields, life, code, signal, work, file, expired>>

CompilerExits(f) ==
  /\ helper[f] /\ helper' = [helper EXCEPT ![f] = FALSE]
  /\ UNCHANGED <<parent, started, fields, life, code, signal, work, file, expired>>

ChildSucceeds(f) ==
  /\ Runs(f) /\ ~helper[f]
  /\ work' = [work EXCEPT ![f] = "compiled"]
  /\ file' = [file EXCEPT ![f] = "ok"]
  /\ life' = [life EXCEPT ![f] = "ending"]
  /\ UNCHANGED <<parent, started, fields, code, signal, helper, expired>>

\* How the child's work may fail, and what it then reports.
Failures == IF MayUnwind THEN {"failed", "unwound"} ELSE {"failed"}
Reports(w) == IF w = "failed" THEN Classes \cup {"none", "garbled"} ELSE {"none"}

\* except Exception: the report may not be writable, or not readable again.
\* Any other exception, which ends the compiler it passes, goes straight to
\* os._exit(status).
ChildFails(f) ==
  \E w \in Failures : \E c \in Reports(w) :
    /\ Runs(f) /\ (helper[f] => w = "failed")
    /\ work' = [work EXCEPT ![f] = w]
    /\ file' = [file EXCEPT ![f] = c]
    /\ life' = [life EXCEPT ![f] = "ending"]
    /\ UNCHANGED <<parent, started, fields, code, signal, helper, expired>>

ExitStatus(f) == IF work[f] = "failed" THEN "nonzero" ELSE "zero"

\* finally: os._exit(status)
ChildExits(f) ==
  /\ life[f] = "ending" /\ signal[f] # "kill"
  /\ life' = [life EXCEPT ![f] = "gone"]
  /\ code' = [code EXCEPT ![f] = ExitStatus(f)]
  /\ UNCHANGED <<parent, started, fields, signal, work, helper, file, expired>>

\* A signal ends the child: one of the parent's, a segfault, the OOM killer.
ChildDies(f) ==
  /\ Alive(f)
  /\ life' = [life EXCEPT ![f] = "gone"]
  /\ code' = [code EXCEPT ![f] = "nonzero"]
  /\ UNCHANGED <<parent, started, fields, signal, work, helper, file, expired>>

Expire(f) ==
  /\ Alive(f) /\ ~expired[f]
  /\ expired' = [expired EXCEPT ![f] = TRUE]
  /\ UNCHANGED <<parent, started, fields, child>>

-----------------------------------------------------------------------------
Parent ==
  \/ Begin \/ Start \/ StartFails \/ CountStarted \/ FillDone \/ WaitAny
  \/ Sweep \/ SweepDone \/ MarkExited \/ MarkOverrun \/ GraceOver \/ ReapOverrun
  \/ KillAll \/ Cancel \/ CancelDone

Child(f) ==
  \/ ChildCallsCompiler(f) \/ CompilerExits(f) \/ ChildSucceeds(f)
  \/ ChildFails(f) \/ ChildExits(f) \/ ChildDies(f)

Over == pc \in {"returned", "raised"}

Next ==
  \/ Parent \/ Interrupt
  \/ \E f \in Futures : Child(f) \/ Expire(f)
  \/ Over /\ UNCHANGED vars

\* The parent runs, clocks advance, and SIGKILL ends a child.  A child that
\* is not killed may hang for ever.
Fairness ==
  /\ WF_vars(Parent)
  /\ \A f \in Futures : WF_vars(Expire(f))
                        /\ WF_vars(signal[f] = "kill" /\ ChildDies(f))

Spec == Init /\ [][Next]_vars
FairSpec == Spec /\ Fairness

-----------------------------------------------------------------------------
\* "Start up to the concurrency cap": never more than ctx.jobs children at
\* once, although "running" is a snapshot that children leave at any time.
CapIsRespected == Cardinality({f \in Futures : Alive(f)}) <= Jobs

\* "Keep compiler grandchildren killable": when wait_for_all is over, by
\* return or by exception, every future is decided and no child, no compiler
\* of a child and no result file is left.
NothingLeftBehind ==
  Over => \A f \in Futures :
    /\ ok[f] # "none"
    /\ ~Alive(f) /\ ~helper[f] /\ file[f] = "none"

\* What wait_for_all returns is what became of the children: a success
\* compiled, and a child that compiled and exited by itself is a success
\* unless its deadline had passed and it was being killed for that.
VerdictMatchesChild ==
  pc = "returned" => \A f \in Futures : started[f] /\ life[f] # "unborn" =>
    /\ ok[f] = "yes" => work[f] = "compiled" /\ reason[f] = "ok"
    /\ reason[f] = "timeout" => expired[f]
    /\ work[f] = "compiled" /\ code[f] = "zero" =>
         ok[f] = "yes" \/ (reason[f] = "timeout" /\ signal[f] # "none")

\* An error classified "raise" in a child is raised by wait_for_all unless
\* errors are ignored; no later step of the batch hides it.
NoErrorSwallowed ==
  pc = "returned" /\ ~IgnoreErrors => \A f \in Futures : error[f] # "raise"

\* "ok: The result of the precompilation (True if successful, False
\* otherwise)".
SuccessMeansCompiled ==
  \A f \in Futures : ok[f] = "yes" /\ life[f] # "unborn" => work[f] = "compiled"

\* wait_for_all comes to an end, whatever the children do.
WaitForAllEnds == <>Over
=============================================================================
