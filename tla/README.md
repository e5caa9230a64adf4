# TLA+ models of the Helion autotuner and runtime

Helion compiles kernels written in Python to GPU code and picks a configuration
for each by timing many of them. Compiling a configuration can hang, crash or
fork compilers of its own; running one can corrupt the GPU context, never
return, or survive `SIGKILL` inside the driver; and on several GPUs every rank
runs the search, while the kernels themselves synchronise across devices. The
models here are of the parts that have to stay correct through that: child
processes and their timers, pools and their cancellation, the tables by which a
search knows what it has measured, the cross-GPU barrier, the collectives of a
distributed search, the files that share its result, and the caches that decide
which compiled kernel a call runs.

Contents: [parts of the system](#parts-of-the-system) ·
[modules](#modules) · [runs](#runs) · [findings](#findings) ·
[proofs](#proofs) · [only model-checked](#what-is-only-model-checked) ·
[not modelled](#what-is-not-modelled) · [plan](#plan)

To check a run: `tlc -config BenchmarkWorkerSafety.cfg MCBenchmarkWorker.tla`;
to check the proofs of a module: `tlapm BenchmarkWorkerProofs.tla`. Paths below
are relative to `helion/` unless they say otherwise.

## Parts of the system

How a kernel gets its configuration, from the outside in:

    Kernel.__call__ / bind             runtime/kernel.py
      BoundKernel.autotune
        autotune cache                 autotuner/{base,local,remote}_cache.py
          search (generation loop)     autotuner/{base_search,pattern_search,...}.py
            benchmark provider         autotuner/benchmark_provider.py
              precompile pool          autotuner/precompile_future.py   (child processes)
              benchmark worker         autotuner/benchmark_worker.py    (child process, pipe, timers)
                job, timer             autotuner/{benchmark_job,benchmarking}.py
              collectives              _dist_utils.py                   (torch.distributed)
                generated kernel       runtime/triton/dist_utils.py     (signals between GPUs)

| Part | State it keeps | Operations | What makes it hard | What makes it correct | Module |
|---|---|---|---|---|---|
| Benchmark worker | one process and one pipe, a lock, the fatal error; a timer per call | `run`, `shutdown`, `on_timeout`, `_kill`, `_worker_loop` | a timer thread against the caller, crashes at any point, a result that comes while the worker is being killed, a worker that cannot be killed | an answer belongs to its job; one process; an innocent worker is not killed; a disabled object refuses; calls return | `BenchmarkWorker`, `IsolatedCall` |
| Precompile pool | the futures, who is queued, running, overdue | `wait_for_all`, `_wait_for_all_step`, `_mark_complete`, `_consume_result`, `_cancel_all`; the child's entry points | children that exit between two looks, deadlines, compilers that outlive the child, a failing `start`, `KeyboardInterrupt` | the cap, a verdict for every child, no process or file left, errors raised | `PrecompilePool` |
| Cross-GPU barrier | one word per pair of ranks and block | `symm_mem_sync` (CUDA, ROCm) | one word reused by every call, lanes in different calls, release and acquire only where flags ask | nobody leaves early, data is visible, words end at zero, calls return | `SymmMemSync` |
| Distributed search | population, results, a clock, on every rank | `benchmark`, `_benchmark_function`, `_budgeted_range`, rebenchmark, final verification | collectives pair by order, not by purpose; outcomes and clocks differ between ranks | the ranks make the same collectives, hold the same results, and end | `RankedSearch` |
| Single-process provider | tables per effective source: results, pending failures, repairs, invalid hashes, retries; the worker | deduplicate, repair, invalidate, retry a timed-out seed, isolated rebenchmark, fall back to in-process timing, `setup`, `cleanup` | three tables that must agree over a long search; what survives a worker that cannot be killed | a source found wrong never runs again and never wins; a failure is repaired by any alias | `LocalSearch`, `SourceVerdicts` |
| Search teardown and selection | population, snapshots, best config, configs that made the worker unkillable | `_autotune_with_logging`, `_record_unkillable`, `_finalize`, `final_rebenchmark_best`, `run_finishing_phase` | one of several nested exits failing, verdicts that arrive after a config was ranked | the best config is kept unless it is the culprit, and it was measured and not rejected | `LocalSearch`, `SourceVerdicts` |
| Autotune cache | files in a local directory, a remote store | `get`, `put`, `autotune`, best-of-K trials | several processes, a death between write and rename, a remote that fails | whole entries only; the configuration returned is one that was tuned for the key; no entry is missed | `AutotuneCache` |
| Kernel binding | bound kernels by key, specialisation schema, generation numbers, prepared calls | `bind`, `reset`, late specialisation, prepared calls | threads, extractors run without the lock, retries | a call runs a kernel specialised for its arguments under the current schema; `reset` forgets; a kernel is compiled once | `KernelBind` |
| Handoff session | batches, candidates, stop request | observe, confirm, stop | every rank must stop or none | the search ends the same way everywhere | none |
| Counted signals and epochs | epoch counters in symmetric memory | `_publish_signal`, `_wait_and_consume_signal`, `_hold_after_fallback` | kernels in flight on two devices | a buffer is not overwritten while it is read | none |
| Search algorithms, config spaces, ahead-of-time tuning, compiler, launchers, logging | | | sequential or numeric | | out of scope |

**Interactions.** A search calls `benchmark(configs)` on its provider, once per
generation. The provider compiles every config (in this process), hands the
compiled functions to a precompile pool, and then times each config that works,
in a benchmark worker or in this process. The worker and the pool's children
talk to their parent by a pipe, by an exit status and by a result file. When
`torch.distributed` is initialised, every rank runs all this and every
decision that changes what is called next goes through `all_gather_object` or
`sync_object`; the worker process is not used then
(`autotuner/benchmark_provider.py:1213`). A kernel that communicates calls
`symm_mem_sync` on the device, so launching it on one rank without its peers
never returns.

`PROJECT.json` has the same list as `components`, and under `hazards` the lines
where each of these difficulties bites, with the property that would catch it
or the reason why there is none.

## Modules

Every action is one handler or one step of a function between two points where
another actor can run; its name is the function's or the comment above it names
the statement. `PROJECT.json` `map` gives the lines of each definition.

### BenchmarkWorker and IsolatedCall

`BenchmarkWorker` is one object of that class: the thread that calls `run()`
and `shutdown()` (`pc`, `call`, `mine`, `got`, `verdict`), the `threading.Timer`
of each call (`timer`, `target`, `timedOut`), the fields it shares (`current`,
`fatal`, `lock`) and the worker processes with their pipes (`proc`, `doing`,
`inbox`, `outbox`, `open`).

| Code (`autotuner/benchmark_worker.py`) | Model |
|---|---|
| `_process`, `_parent_connection` | `current`, as a pair: number of the call that spawned them, or None |
| `_fatal_error`, `_lock` | `fatal`, `lock` |
| locals `process`, `connection` of `run` | `mine` |
| `run`: usable? alive? start, assert and arm the timer, send, poll, recv, finally, late or sticky? | `RunEnter`, `RunTestAlive`, `Start`, `Bind`, `Send`, `PollReady`/`PollTimeout`/`Interrupt`, `Recv`, `Finally`, `Check` |
| `_kill_if_current`, `_kill` | `Kill` (compare and signal under the lock), `KillDone` (the bounded join is over), `Reap` |
| `on_timeout` | `TimerFire` (under `completion_lock`), `TimerKill`, `TimerKillDone` |
| `shutdown`, which takes no lock | `ShutdownBegin`, `ShutdownJoin`, `ShutdownKill`, `ShutdownReap` |
| `_worker_loop` | `WorkerRecv`, `WorkerRecvEOF`, `WorkerFinish`; `WorkerCrash` and `ProcExit` are the operating system's |

Abstractions. Each `Connection` call is atomic, and `send` does not block (the
timer, which is armed before it, would end one that does). Timeouts
expire at any moment at which what they wait for has not happened. A connection
is closed when the last reference to it goes (`Reap`, `Return`), which is when
the worker reads EOF. Results are of four kinds: a value, an error that leaves
the worker usable, a "sticky" one matching `_UNRECOVERABLE_RUNTIME_ERROR_RE`,
and one whose unpickling raises in the parent. A `KeyboardInterrupt` reaches
`run()` only while it polls; nothing but `shutdown()` follows it, because the
exception leaves the search through the exit stack that calls
`provider.cleanup` (`autotuner/base_search.py:1078`). Races inside `waitpid` are
left out, and so are `CUDA_VISIBLE_DEVICES` and the parent-death signal.

`IsolatedCall` is what the object promises: jobs are answered in order, each by
its own result or a failure, and after `Disable` every further job is refused.
`BenchmarkWorker` implements it (`ImplementsIsolatedCall`, a refinement mapping
from `call`, `pc`, `fatal` and `outcome`).

### PrecompilePool

`wait_for_all` over futures `1..N`: the parent (`pc`, the lists `todo`, `slots`,
`left`, and `cur`), each future's fields (`started`, `ok`, `reason`, `error`)
and each child (`life`, `code`, `signal`, `work`, `helper`, `file`, `expired`).

| Code (`autotuner/precompile_future.py`) | Model |
|---|---|
| `_wait_for_all_step`: snapshot, fill up to the cap, `connection.wait`, sweep | `Begin`, `Start`/`StartFails`/`CountStarted`/`FillDone`, `WaitAny`, `Sweep`/`SweepDone` |
| `_mark_complete`: exited; overrun: SIGTERM, `join(10)`, SIGKILL, `join()` | `MarkExited`; `MarkOverrun`, `GraceOver`, `ReapOverrun` |
| `_consume_result` | `Reported`, `Decide`, `Raises` |
| `_cancel_all`, `cancel` | `KillAll`, `Cancel`, `CancelDone` |
| `_run_kernel_in_subprocess_spawn`, `_fork` | `ChildSucceeds`, `ChildFails`, `ChildExits` |
| `signal_process_tree` (`autotuner/process_utils.py`) | `KillGroups`, the SIGTERM of `MarkOverrun` |

Abstractions. A deadline may pass whenever the child is alive. The child has
called `setsid` before the first signal is sent to it. One compiler per child
(`helper`) stands for its process group; a child that succeeded has none left. A
single `KeyboardInterrupt`, where the parent blocks. Classifications "warn" and
"debug" differ only in what is logged. Temporary result files a killed child
leaves are removed with the provider's temporary directory. `__call__` of
`PrecompileFuture` is called nowhere and left out.

### SymmMemSync

The barrier of the blocks with one `block_id` on `World` ranks. `round[r][s]`
and `at[r][s]` say where lane `s` of rank `r` is, `pad[s][r]` is the word rank
`r` sets on rank `s`. What a rank shares in call `k` is the number `k`;
`note` is the data a word vouches for and `seen` the data a lane has acquired, so
that release and acquire are visible to the properties: a signal vouches for
the writes before it if it is a release (`hasPreviousMemAccess`) or a kernel
boundary has already published them (`Vouched`), and a wait takes that over if
it is an acquire (`hasSubsequentMemAccess`).

`Enter` is a call with its leading `tl.debug_barrier` and what separates it
from the previous one (`Meet`); `Send` is `_send_signal`, `Wait` is
`_wait_signal`, `Spin` a compare-and-swap that fails. `sequential`, chosen at
the start of a behaviour, tells the ROCm version, one loop over the ranks in
program order, from the CUDA version, one lane for each rank: every run and every
theorem is about both.
The flags are `tl.constexpr`, hence the same on every rank; blocks are
resident, as a grid barrier requires.

### RankedSearch

One generational search run by every rank: `at` names the collective a rank is
in or the local point it is at, `vote` what it gave, `heard` what came back. A
collective completes when every rank is in one of the same sort (`Gather`,
`Broadcast`), whatever each of them meant by it: this is what makes a missed or
an additional collective on one rank an error the model can show. A launch of a
kernel completes alone, or, with `KernelWaits`, when all ranks are launching
the same config.

| Code | Model |
|---|---|
| `LocalBenchmarkProvider.benchmark`: compile loop with the budget question | `Begin`, `StopCompiling`, `Compile` |
| `PrecompileFuture.wait_for_all` | `Precompile` |
| its benchmark loop | `Continue`, `StopBenchmarking`, `AskWorking`, `NotWorking`, `EndBatch` |
| `_benchmark_function`: Triton compile, first run, accuracy, timing | `TritonCompile`, `NotBuilt`, `FirstRun`/`FirstRunFails`/`FirstRunRaises`, `Validate`, `NotAccurate`, `Time`/`TimeFails` |
| `do_bench` and `_estimate_runtime_and_warmup` | `Estimate`, `Repeat`, `Resize`, `RunOften`, `Sample`, `Report`, `Measured` |
| `_budgeted_range`, `_autotune_budget_exceeded_across_ranks` | `AskBudget`, `BudgetSays`, `RangeEnds`, `NextGeneration`, `RangeIsOver` |
| `final_rebenchmark_best`, single pass | `Finalize`, `FinalHeard`, `Verify`, `Verified` |
| `all_gather_object`, `sync_object` (`_dist_utils.py`) | `Gather`, `Broadcast`, `AnyRank`, `EveryRank`, `FromRoot` |

Abstractions. What a config does is chosen when it is first built (`Fates`) and
is the same on all ranks, except that the outcome of the precompile pool, of
the Triton compile and of the accuracy check may differ freely, and that code
generation or a run may fail on some ranks only where `CompileMayDiffer` or
`RunMayDiffer` say so. Performance is fast, slow or infinite. Each rank's clock
is its own and monotone (`late`). Gathers carry one boolean. Counts of launches
are abstracted to whether the broadcast estimate asks for more. Sources are not
deduplicated when `torch.distributed` is initialised. A rebenchmark is one
broadcast, made when two or more configs have a finite time. Neighbour
generation, the random fallback of an empty population, the adaptive
compile timeout and the multi-round final selection are left out.

### LocalSearch and SourceVerdicts

`LocalSearch` is a search on one device from `setup` to `cleanup`: the
generations, the provider they call, and the tail all searches share. Its parts
are the provider's tables (`measured`, `invalid`, `pending`, `repairs`,
`seedSources`, `claims`), its worker (`worker`, `parentOnly`), the batch under
way (`todo`, `got`), the population and the snapshots the search keeps of it
(`pop`, `member`, `history`), and what the final phases decide (`cand`, `best`,
`unkillable`, `selected`). A config compiles to a source, and several configs to
the same one (`SourceOf`); `flash`, a CuTe flash search, is the mode in which the
code makes use of that. The two other modes are whether there is a finishing
phase (`finishing`) and which final verification there is (`shootout` for the
final selection, the default at full effort). All three are chosen in `Init`, so
one run covers them.

| Code | Model |
|---|---|
| `_effective_source_results`, `_invalid_effective_source_hashes`, `_pending_effective_source_failures`, `_effective_source_repairs` | `measured`, `invalid`, `pending`, `repairs` |
| `benchmark`: compile loop; per config: budget, reject or reuse, run | `CompileBatch`; `StopBenchmarking`, `Skip`, `Launch` |
| `_benchmark_function_subprocess`: the job, its retry, the accuracy check, a worker that cannot take the job | `Timed`, `Retry`, `Accept`/`Reject`, `FailToRun`, `FallBack` |
| `_benchmark_function` in this process | pc `"parent"`: `Accept`, `Reject`, `FailToRun`, `Poisoned` |
| `BenchmarkWorkerUnkillable`, wherever it comes from | `HangInBatch`, `RetimingHangs`, `FinalHangs`, `RoundsHang`, `TeardownHangs` |
| `_resolve_...`, `_remember_effective_source_failure`, `invalidate_effective_source_hash` | `Resolve`, `Remember`, `Ban` and `Invalidate` |
| `benchmark_population` with `_apply_effective_source_repairs` | `EndBatch`, `Outcome` |
| `rebenchmark`, `benchmark_isolated`, `_apply_rebenchmark_timings` | `Verify`/`VerifyInProcess`, `LoadFails`, `Disqualify` |
| `final_rebenchmark_best`: history, fallback, single pass, final selection | `Finalists`, `KeepBest`, `FinalInProcess`/`FinalIsolated`, `Rounds`/`RoundsInProcess` |
| `run_finishing_phase` | `FinishingRound`, `FinishingMeasured`, `Reverify`, `Judge`, `Combine`, `JudgeCombined`, `Select` |
| `_finalize` on `BenchmarkWorkerUnkillable` | `Salvage` |
| the exit stack of `_autotune_with_logging`, `cleanup` | `Exit`, `Teardown` |

`SourceVerdicts` is what the tables promise: a source is unknown, failing,
measured or rejected; a timing is not replaced by a failure to run; a rejection
is final; and only a source that is measured can be chosen. `LocalSearch`
implements it (`ImplementsVerdicts`; the verdict of a source is read off the
tables).

Abstractions. Timings are arbitrary, so "the fastest" is any config with a finite
one; of `perfs` the model keeps whether the last is finite and whether an earlier
one was. `StartGeneration` stands for the initial population, its random fallback
and every later generation, and keeps any part of the old population with its
best; the initial population without a finite member ends like `Finalize` and
`KeepBest`. The precompile pool only appears as a config that does not run
(`Skip`). Whether the accuracy check is on is left open in `Reject`. The
final selection is reduced to which finalists it keeps, which fail in it and who
wins; its windows and plans are not modelled. A finishing phase is only combined with the
single-pass verification, and its local best is a snapshot apart from the
population. Pinned members, pruning to the top k, `_confirm_suspicious`,
terminal refinement, the final pick (Pallas only), minimization of the winner and
several shapes are left out. A run in this process has no timeout, hence no
liveness is claimed.

### AutotuneCache

Calls of `AutotuneCacheBase.autotune` for one key, each a process of its own,
over the file in its cache directory, temporary files and a remote store. A
configuration is named by the call and trial that found it, and an entry is
`whole` or still being written.

| Code | Model |
|---|---|
| `autotune` (`autotuner/base_cache.py`): whether to read and write | `Begin` (`Modes`: normal, assert a hit, force, skip) |
| `RemoteAutotuneCache.get`, `_remote_get` | `RemoteGet`, `RemoteGetFails` |
| `LocalAutotuneCache.get`, the asserted hit | `LocalGet` |
| `_run_autotune_trials` | `Tune`, `Winners` |
| `LocalAutotuneCache.put`: temporary file, text, rename | `Write`, `Fill`, `Rename`; `WriteFails` for an `OSError` |
| `RemoteAutotuneCache.put`, `_remote_put` | `Ship`, `Send` (before or after a failure the store may have the entry or not) |
| a death of the process, anywhere | `Dies` |

Abstractions. Keys are not computed: all calls have the same one. A trial
succeeds, finds nothing or raises, and the last benchmark of the trials' configs
has any finite part; `tolerant` is chosen in `Init`. The store answers with the last
entry put or fails; its entries parse. The warm-start listing of other entries,
validation of structural policies, and the restoration of settings between
trials are left out.

### KernelBind

One `Kernel` and its `BoundKernel`s, called, bound and reset by several threads.
What a compiled program may depend on is a set of *facts* about the arguments (a
dimension of size 1, the tail of a grouped size, the bucket of an extent); an
argument list is the set of the facts that hold of it, and a key is that set cut
down to the facts the published schema asks for. A program records the facts it
`needs` and what it was generated for (`holds`); `Fits` says whether it may
run for given arguments, and `misused` remembers by which path one ran that did
not fit.

| Code (`runtime/kernel.py`) | Model |
|---|---|
| `Kernel`: `_specialize_extra`, `_specialization_generation`, `_reset_generation`, `_bound_kernels`, `_dispatch_cache`, `_prepared_call` | `schema`, `sgen`, `rgen`, `table`, `dispatch`, `prepared` |
| `BoundKernel`: `_reset_generation`, bind-time arguments, `_run`, `_direct_prepared_call`, `_first_compile_lock` | `bgen`, `hint`, `run`, `direct`, `held` |
| `Kernel.__call__`: prepared call, dispatch cache, check under the lock, `bind`, new fast entry, publication | `TryPrepared`, `Dispatch`, `Check`, `BindSlow`, `TakeEntry`, `Publish` |
| `Kernel._bind` under `_bind_lock`, `_publish_guard_facts` | `Bind`, `PublishGuardFacts` |
| `bind` called by itself, `reset` | `OnlyBind`, `Reset` |
| `BoundKernel.__call__`: generation and direct call, extras, bind again, `_run is None`, the first-compile lock and what is repeated under it | `Called`, `CheckExtras`, `Rebind`, `Test`, `Lock`, `Relock`, `Compile` |
| `set_config`: code generation, guard facts, the two late specialisations, `_run` | `Compile`, `PublishGuards`, `KeyTail`, `KeyExtents`, `SetRun` |
| `_extend_bound_kernel_specializations` | `Extend` |
| the call of `_run`, `_prepare_direct_call` | `Exec`, `Offer` |

Abstractions. A block under `_bind_lock` is one step, because everything that
changes what it reads is under it too; what is read outside of it is a step of its
own. The one exception is `_fast_dispatch_key_and_guards`, which reads the
generation first and the extractors after it: a change in between makes the
entry's generation old, and `Publishable` rejects it, so the model reads them
together. All calls have one base signature, the one whose schema is at stake; the
configuration is given, so the first call compiles without a search; no fact is
a reusable storage property, hence no bound is retired. Left out are `key`
functions, argument aliases, `torch` capture, reference mode, distributed
kernels, compiler seeds, and a compilation that raises.

## Runs

All twelve finish within five minutes on two workers. Deadlock is checked in all
of them but `ranked_run_failure`, where the ranks do end up waiting on each
other.

| Run | Instance | Shows |
|---|---|---|
| `worker_safety` | 3 calls, then `shutdown`; results that do not unpickle among others; interrupts; `FairSpec` | `TypeOK`, `ResultIsForThisJob`, `SingleWorker`, `NoOrphan`, `InnocentWorkerIsSpared`, `DisabledForGood`, `ImplementsIsolatedCall`, `RunAndShutdownReturn` |
| `worker_assertion` | 2 calls, results that do not unpickle | **violation** of `BindAssertionsHold` |
| `pool_batch` | 3 futures, 2 jobs, a failing start, an interrupt, errors that raise; `FairSpec` | `TypeOK`, `CapIsRespected`, `NothingLeftBehind`, `VerdictMatchesChild`, `NoErrorSwallowed`, `WaitForAllEnds` |
| `sync_calls` | both versions, 3 ranks, 3 calls following the documented patterns, `FairSpec` | `TypeOK`, `NobodyLeavesEarly`, `DataIsVisible`, `PadIsReset`, `SignalOfThisRound`, `EveryoneFinishes` |
| `ranked_agreed` | 2 ranks, 2 configs a batch, 2 generations, kernels that wait, `FairSpec` | `TypeOK`, `Lockstep`, `CutoffIsReal`, `NobodyRunsAlone`, `SamePerformance`, `SearchEnds` |
| `ranked_budget` | the same with one config and without agreement at the generation boundary | **violation** of `Lockstep` |
| `ranked_run_failure` | kernels that may fail on one rank | **violation** of `CutoffIsReal` |
| `kernel_calls` | 2 threads, 3 operations in all, at most one of them `reset`; a fact found while tracing and a late one that follows the call | `TypeOK`, `FastPathIsRight`, `CachesAnswerRight`, `NothingSurvivesReset`, `CompiledOnce` |
| `kernel_hint` | 1 thread, `bind` for a small extent, then a call for a large one | **violation** of `KernelCallsAreRight` |
| `search_local` | 3 configs over 2 sources, one of them a seed, batches of 2, at most one finishing round; all modes | `TypeOK`, `SourcesAgree`, `WinnerIsVouched`, `TeardownKeepsItsWord`, `NeverRunAgain`, `ImplementsVerdicts` |
| `search_finishing` | the same | **violation** of `InaccurateIsOut` |
| `cache_calls` | 3 calls, 2 of them in one directory, 2 trials each, with and without a remote store | `TypeOK`, `EntriesAreSound`, `NoNeedlessSearch` |

**Bounds and why they are enough.**
`MaxCalls = 3`: interference between calls goes from the timer of one call to
the next one that uses the object; with three calls a timer of the first can
meet a worker spawned by the second and used by the third. For all but
liveness the proofs remove the bound.
`N = 3, Jobs = 2`: one future waits while two run, and one of the two can leave
the snapshot before another is started; the third is started only because an
earlier one was disposed of, which is what liveness needs. The proofs remove
these bounds for all but liveness.
`World = 3` tells "one rank is late" from "all are", and 3 calls use every word
three times; the proofs remove both bounds.
In `RankedSearch` two ranks are enough to disagree: the values of a gather are
only used through `any` and `all`, and those of a broadcast come from the root,
so a third rank adds a copy of one of the two. (Three ranks with one config and
kernels that do not wait were also run: 81 000 states, the same properties
hold.) Two configs let a batch be cut before, between and after them; two
generations (`Generations = 1` after the initial population) have one boundary
of each sort, the one that goes on and the one that ends. For any number of
ranks, configs and generations there are the proofs.
In `KernelBind` a wrong key needs two operations that meet (a compilation that
finds a fact, or a `reset`, against a key computed before it) and a third that
uses what they left; `CachesAnswerRight` looks ahead by asking what the caches
would answer to any arguments, so it does not wait for that third. `MaxBounds = 4`
is never reached: the state count is the same with 6. (Four operations over the
argument lists `{}` and `{"tail"}` were also run, 3.6 million states, and the
same properties hold.) The two first-compile locks a thread can hold nest, and
deadlock is checked.
In `LocalSearch` two aliases of one source and a config of another are what a
verdict can be confused over: a repair, a rejection or a quarantine has one
config that caused it, one that shares its source and one that must not be
touched. A batch of two puts both aliases in one batch or in different ones; the
number of generations is bounded only by the configs, each of which is new once.
The second finishing round repeats the first from a state it can reach.
In `AutotuneCache` a race for a file needs two calls in one directory; the
third is on another host, so that what it reads has gone through the remote store.
Two trials can disagree on who has a timing.

**Fairness and why the code justifies it.**
`BenchmarkWorker`: weak fairness of the caller's steps and of each timer. They
are steps of Python threads whose blocking calls have timeouts (`poll(timeout)`,
`join(timeout=5)`); acquiring `_lock` is waiting for a holder that is inside a
bounded join. Nothing is assumed of a worker: jobs hang, and processes survive
`SIGKILL`.
`PrecompilePool`: weak fairness of the parent and of the deadlines, and that
`SIGKILL` ends a child. The last one is an assumption the code makes, since it
joins without a timeout after `SIGKILL` (`autotuner/precompile_future.py:781`
and 735); precompile children only compile, so unlike benchmark workers
they should not hang in the driver. `PROJECT.json` lists it as a hazard.
`SymmMemSync`: every resident thread is scheduled.
`KernelBind`, `LocalSearch`, `AutotuneCache`: none; only safety and deadlock are
checked.
`RankedSearch`: weak fairness of every rank's steps and of every collective or
launch that can complete; none of the clocks. A generation's work on a rank is
bounded by the worker's and the pool's own liveness.

## Findings

Five runs expect a violation. Each shows something the repository says of
itself and the code does not do; `PROJECT.json` `findings` quotes both.

1. `worker_assertion`. `run()` catches `EOFError` and `OSError` around `recv`. A
   result whose unpickling raises something else leaves through `finally`
   without the late-result test that follows. If `on_timeout` had already set
   `timed_out`, it goes on to kill the worker after `run()` has returned, while
   that worker is still the current one; `_kill` then clears
   `_process` and `_parent_connection` between the `alive()` of the next
   `run()` and its reading them, and `assert connection is not None` fails. It
   is the reason why `SingleWorker`, `NoOrphan` and `InnocentWorkerIsSpared` speak
   of behaviours in which every result so far could be unpickled (`Tidy`).
2. `search_finishing`. A finishing round benchmarks its candidates, with the
   accuracy check, and then times *all* of them again for a fair comparison,
   without one. A candidate whose output was wrong, or whose compile or run failed
   in a way that does not repeat, then has a finite last timing, passes
   `math.isfinite(c.perf) and c.perf <= current.perf` and can be returned. The
   settings promise that candidates are validated "before accepting them". The
   phase is off by default (`HELION_AUTOTUNE_FINISHING_ROUNDS=0`). It is the reason
   why `WinnerIsVouched` excepts it.
3. `ranked_budget`. The agreement at the generation boundary is used only by
   the CuTe flash search. In the others a rank whose clock is over leaves the
   loop, and its peers enter the next batch and wait for it in the budget
   gather.
4. `ranked_run_failure`. A kernel that compiled everywhere and fails to run on
   one rank lets that rank skip the accuracy gather. Its next gather is the
   budget question of the next config, which is paired with the peers' accuracy
   votes; their "accurate" reads as "exhausted".
5. `kernel_hint`. A persistent reduction is sized for the bind-time hint, and the
   bucket of that hint is what the program depends on. When the first call of
   a bound kernel compiles it, `_extend_bound_kernel_specializations` keys it by
   the bucket of the *call's* arguments. After `k.bind(small)`, which does not
   compile, `k(large)` finds the bound, compiles it for the small extent, publishes
   it under the key of the large one and runs it: the program raises the error
   that asks to "call the Kernel itself (not the compiled config) so it rebinds"
   (`_compiler/reduction_strategy.py:1613`), to a caller who did.

### Related behaviour without a run

*Compile failures that differ between ranks.* Nothing in the repository says
that code generation fails alike on all ranks. If it fails on
one rank only (`CompileMayDiffer = TRUE`, two configs, one generation,
`KernelWaits = FALSE`), the benchmark loop of that rank, which visits the configs
that compiled *here*, asks other budget questions than its peers. TLC finds a
violation of `Lockstep` in ten steps: config 1 fails on both ranks, config 2 on
one of them, which has nothing left and raises that error again; the other goes
through its precompile phase and waits for its peer in the first budget question
of the benchmark loop. It is the hazard at `autotuner/benchmark_provider.py:1375`.

*A child that ends with status 0.* The precompile child starts from `status = 0`
and sets 1 only in `except Exception`. `SystemExit`, or any other
`BaseException`, exits with status 0 and no result file, and the parent reads
status 0 as success, although `ok` is "True if successful". With `N = 1` and
`MayUnwind = TRUE` TLC finds `SuccessMeansCompiled` of `PrecompilePool` violated
in a few steps; `pool_batch` takes `MayUnwind = FALSE`.

*In `KernelBind`*, two more, which are why `kernel_calls` checks the fast
paths and the caches, but not `KernelCallsAreRight`. In `BoundKernel.__call__` a
thread reads `_has_specialization_extras` as false (`runtime/kernel.py:3882`) and
then tests `_run`; if another thread compiles the same bound in between and
finds a late fact, the first runs that program without binding again, whatever
its own arguments are (two calls, 18 steps). And with an early extractor whose
fact is not in the metadata of the fast key (`Early = {"value"}`,
`Metadata = {}`, four operations) a fast entry taken after `reset()` and before
the schema is published again has no guards, yet is accepted, since publishing
the first schema does not advance the generation; TLC then violates
`CachesAnswerRight`. `kernel_calls` therefore takes `Early = {}`. It takes
`CodeGuards = {}` because guard facts found by code generation for the bind-time
hint share the cause of finding 5.

*In `LocalSearch`*, which has all of these as steps:

- Outside a flash search a config that hit a sticky error in its worker keeps
  its earlier timings, and `_finalist_history_perf` ranks by the lowest. The
  final verification may run it again in the search's own process, although
  the provider says "that config is still unsafe, so remove it from contention"
  (`autotuner/benchmark_provider.py:2316`). It can win only with a new finite
  timing.
- After a hang, `_finalize` leaves out the config that hung and no other: an
  alias with the same source may be returned, and so may a config that hung while a
  finishing round benchmarked it, since only rebenchmarks record who hung.
- A finalist that fails in the screen of the final selection drops out by
  itself; only failures in the rounds are applied to the source and its aliases.
- What an isolated batch has found is lost when a later candidate of it makes the
  worker unkillable; the failures before it are not applied.
- In a finishing round timed in this process, a candidate that did not compile has a
  function that raises, which ends the search.
- `_shutdown_isolated_worker` forgets the worker even if it survived, so the
  teardown then has nothing to complain about.
- A `setup` that raises does so before `cleanup` is registered.

*In `AutotuneCache`*: what `put` ships is read back from the local file, where
another process may have put its own entry in the meantime; it is a whole entry
for the same key, but not "the exact bytes super().put() just atomically wrote"
(`autotuner/remote_cache.py:119`). A hit in the remote store overwrites a newer
local entry. An `OSError` in `put` takes the tuned config along. A remote record
that does not parse raises out of `get`; a store that fails does not. Where
failures of trials are not tolerated, best-of-K may return a config whose last
benchmark was not finite.

## Proofs

The proofs hold for every value of the constants that satisfies the named
`ASSUME`s: counts are natural numbers (positive where the code needs one), flags
are Boolean, and the sets of calls and kinds are subsets of the domains they
name. Three modules prove some theorems under a further hypothesis, written in the
theorem and explained below; where it is, a run or a counterexample shows that the
property fails without it. Every theorem is proved from an inductive invariant,
with one step per action or per group of actions that touch the same state. The
invariants were checked by TLC on the instances of the runs before they were
proved.

**BenchmarkWorkerProofs** (`TypeCorrectness`, `AnswersDoNotCross`,
`DisabledObjectStaysDisabled`, `OneWorkerAtATime`, `NobodyLeftRunning`,
`OnlyItsOwnTimerKills`, `WorkerImplementsIsolatedCall`).
`ResultIsForThisJob` is about values already
returned and says nothing about the pipe they come from, so it is not inductive.
`IInv` adds what may be in the pipe at each point of `run()`: while a call waits,
its own job is at exactly one place, inbox, worker or outbox, and nothing else is
(`OnlyThisJob`); whenever the object is idle and usable the pipe is empty
(`PipeInv`); and every path out of `run()` that leaves a job unanswered has
dropped or disabled the worker (`ResultInv`). The unreadable results of finding
1 are included: they break the other properties and not this one, because a
result that does not unpickle has been taken out of the pipe.

A second invariant, `LifeInv`, is about who is alive and who may still kill.
`LockInv` says that of `run()` and the timers at most one is between the test of
`_kill_if_current` and the end of `_kill`; `TimerInv` that a timer is armed only while its own call is
in the try block, and that it remembers a worker spawned no later than its call. A
timer is *spent* (`Spent`) when it has no kill under way and the worker it
remembers is not the current one. The argument is that in a tidy history (no
unreadable result) the timers of earlier calls are spent whenever a call is at
work, and all of them before it is bound (`SpentInv`): every path on which a timer
fired ends with the worker of that call gone, and a worker once gone is never
current again. It follows that only the current worker lives (`OnlyCurrentLives`),
that `run()` still finds the worker it tested, and that a waiting call loses its
worker only to its own timer. `TakenInv` adds that a failed call, and `shutdown()`,
leave with the fields empty or the object disabled.

`WorkerImplementsIsolatedCall` is the refinement: `RunEnter` is `Submit`, the
end of `run()` is `Reply`, `ShutdownBegin` is `Close`, a kill that gives up is
`Disable` or, when the object was disabled under the call, `Refuse`, and so are a
spawn or a kill that finds it disabled; all else is a stutter. It needs `IInv`
only.

**PrecompilePoolProofs** (`TypesHold`, `CapHolds`, `NothingIsLeft`,
`ErrorsAreRaised`, `VerdictsMatch`). `CapInv`: everyone alive is in the parent's
`running` list or is the child just started, so the stale list over-approximates
the living.
`Settled`: a decided future has no child, compiler or file. `ListInv`: the
futures still to be visited are those undecided. `KillInv`: who is awaited
without a timeout has been sent `SIGKILL`. `RaiseInv`: from the moment an error
to be raised is read, the parent is on its way to raising it. The proof of the
cap uses the facts about finite sets of `FiniteSetTheorems`.
For the verdicts, `WorkInv` ties what a child did to its exit status and its
report, `OverrunInv` says that only a child that overran is signalled before its
verdict, and `MatchInv` that verdicts given so far fit. The hypothesis is
`~MayUnwind`: a child that meets an exception outside `Exception` exits with
status 0 and breaks it (see "Related behaviour").

**SymmMemSyncProofs** (`BarrierTypes`, `BarrierIsSafe`, `BarrierPublishes`,
`BarrierProtectsReads`, `BarrierResetsThePad`, `SignalsDoNotCrossCalls`). The
invariant counts: with `Sent(r, s)` the signals rank `r` has sent to `s` and
`Consumed(s, r)` those `s` has taken, `WordInv` says that the word holds their
difference. As a word is 0 or 1, two ranks are never more than one call apart,
which gives the barrier, the reset and the identity of the signal. `NoteInv` and
`SeenInv` carry the data along with the signal; `MeetInv` keeps the lanes of a
block together where the flags ask for it, which `ReadsAreOver` needs.

**AutotuneCacheProofs** (`CacheTypes`, `CacheIsSound`, `CacheIsUsed`). A race
cannot leave half an entry where a reader finds it, because each call writes a
temporary file of its own (`TmpInv`: nobody else touches it, and when it is renamed
it is whole and holds what the call found); so everything published is sound
(`EntryInv`), whichever of two renames is the last. That an entry once there is
only ever replaced by another makes what a call has learnt of it stay true, and
with where a call looks first (`SearchInv`) no call searches for what was there. A skipping call reads and writes
nothing: it returns the config of its own search, which no entry may hold.

**KernelBindProofs** (`Types`, `ResetIsFinal`, `FirstProgramStays`, `FastPaths`,
`CacheAnswers`, `KernelCallsFit`, `LockedCalls`). `Base` has the types, the locks (the first-compile locks a
thread holds, and that the one who compiles holds the lock of that
`BoundKernel`), and the generations: a row, a dispatch entry or a prepared call
is of the current generation or is not used. It gives the first three theorems.
`Answer` is what a mapping from arguments to programs is worth at each step of its
making: the facts a program depends on are published before it can be found
(`SchemaInv`, `CompileInv`), rows and entries tell apart all arguments that
a right answer tells apart (`TableInv`, `FastInv`), and an entry a thread is about
to publish has the guards of its schema or is out of date (`EntryInv`).
`FastPaths` and `CacheAnswers` have
the hypothesis `Unhinted`: no late fact follows the hint, guards are not found by
code generation together with facts of the call, and early facts are in the
metadata of the fast key. Finding 5 and the second schedule under "Related
behaviour" are what happens without it.

`CacheAnswers` says what the caches *would answer* in any state; it does not say
what finished calls ran. A call takes a `BoundKernel` from the table before that has
a program, and under `Unhinted` alone it may run one that does not fit: that is
the first schedule under "Related behaviour", in which the test of `_run`
outside the lock (`runtime/kernel.py:3882`, `:3887`) finds what another call has just
compiled for other values. Two theorems say what does hold of calls:

- `KernelCallsFit`: under `Undisturbed`, every call of the Kernel that has run a
  program ran one that fits (`KernelCallsAreRight`). `Undisturbed` adds to `Unhinted`
  that code generation finds no guards, and that there are no late values or only one
  thread. Without the first, TLC finds a violation for one thread in 15 steps (`bind`
  for arguments without the guard fact, then a call of the Kernel for arguments that
  have it); without the second, the schedule just mentioned. The
  invariant, `CallInv`, is that a call agrees with its `BoundKernel` on what that was
  traced for and, once it is compiled, on the late values of its program. It holds
  when `bind` returns, because a row of the table has the key of the arguments, and
  lasts because only the call itself can give the bound a program.
- `LockedCalls` (the action property `LockedCallsFit`): with any number of threads and
  late values, a call that leaves the first-compile lock to run its `BoundKernel` has
  a program that fits it, provided that code generation finds no guards and that the
  kernel was not reset meanwhile. It is what binding again under the lock is for
  ("Another caller may have discovered a late specialization while this caller
  waited for the first compile"), and it makes the race above one of the calls that
  never take the lock. `WaitInv` says that a program which was there when the lock
  was taken has the late values of the call, and that nobody else can replace it.

**LocalSearchProofs** (`SearchTypes`, `SearchAgrees`, `SearchVouches`,
`SearchTearsDown`, `SearchRunsNothingAgain`, `SearchImplementsVerdicts`).
`SourcesAgree` is stated between batches. `Inv` says what holds inside one:
whatever competes has a source that was measured (`MeasuredInv`), a member that
failed although its source was not rejected is pending until a later alias
repairs it or rejects it (`MemberInv`), what is still to be run has neither a
result nor a verdict (`BatchInv`), and what was found inaccurate or broke a
worker is rejected for good (`TableInv`, `InaccurateInv`). The refinement of
`SourceVerdicts` maps the end of a candidate's benchmark to the verdict on its
source, a disqualification to a rejection and the teardown to the end; steps that
change no verdict are stutters, and outside a flash search all are. Two properties
are narrower than their names: `WinnerIsVouched` excepts the finishing phase
(finding 2), and `NeverRunAgain` is about what batches benchmark, for sources only in a
flash search, and does not count the retimings of the final phases.

**RankedSearchProofs** (`RankedTypes`, `RanksStayInLockstep`, `RanksStopInTime`,
`RanksRunTogether`, `RanksHoldTheSame`). Between two collectives ranks are at
different places, hold different results and have seen different clocks, so no
relation between their states is inductive as it stands. `Meeting(F, p)` computes,
from the state of rank `p` and the fates `F` of the configs of the batch, the next
collective of that rank and what it will hold there. A local step does not change
it; a collective is completed by all ranks with the same values heard; so the
meetings of all ranks are equal at all times (`Together`), which is `Lockstep` for
those who wait. `SameOrigin` and `ClockInv` say what ranks that come out of a
collective have in common and that a heard "exhausted" was some rank's clock;
`BuiltInv` that a rank runs a kernel only if all have built it. But for the types,
the hypothesis is `Agreed`: the budget is synchronised at the boundary of
generations, and compiling and running do not fail on some ranks only. The runs
`ranked_budget` and `ranked_run_failure` and the counterexample for
`CompileMayDiffer` show what goes wrong without each of the three.

## What is only model-checked

- Liveness: `RunAndShutdownReturn`, `WaitForAllEnds`, `EveryoneFinishes`,
  `SearchEnds`. Liveness under fairness is out of the proof system's reach.
- The five properties that are expected to fail.

All other properties of the runs are also proved, some under the hypotheses named
above. `ReadsAreOver` of `SymmMemSync` and `LockedCallsFit` of `KernelBindProofs` are
only proved, and `KernelCallsAreRight`, which fails in `kernel_hint`, is proved where
`Undisturbed` holds.

## What is not modelled

The handoff session (`autotuner/handoff.py`) is an opt-in API whose collectives,
few and sequential in each batch, belong over those of `RankedSearch`; that
module has no room for a second protocol in an instance TLC can finish. The
counted signals and the epoch protocol of `_scatter_cover`
(`runtime/triton/dist_utils.py`) are called only by code the Triton backend
emits, and what could go wrong is the order of the calls, which is not in the
file. The multi-round final selection is modelled for one process and without its
windows. What each module leaves out is said under its abstractions.

Out of scope are the search heuristics (numeric; which configs they
choose is not a matter of safety), config spaces and their normalisation (pure
functions over large data), the ahead-of-time runner (a sequential driver of
subprocesses), job bodies and timing statistics, the compiler and the launchers
(correctness of programs, not of states of a system), and logging. Examples,
benchmarks, documentation and tests were read as references.

## Plan

1. `BenchmarkWorker`, `IsolatedCall`: done, with proofs and the proof of the
   refinement.
2. `SymmMemSync`: done, with proofs.
3. `PrecompilePool`: done, with proofs.
4. `RankedSearch`, `KernelBind`, `LocalSearch` with `SourceVerdicts`, and
   `AutotuneCache`: done, with proofs, the refinement of `SourceVerdicts`
   included.
5. Left: weaker hypotheses. For `KernelBind`, what the caches and the calls still
   promise when code generation finds guards for the hint (`CodeGuards`); for
   `RankedSearch`, what survives when compile failures differ; for
   `BenchmarkWorker`, that after an unreadable result at most one stray timer is
   left. Each needs a statement of its own before it needs a proof.
