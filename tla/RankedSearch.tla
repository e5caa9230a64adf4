---------------------------- MODULE RankedSearch ----------------------------
(***************************************************************************)
(* A generational search run by every rank of a process group              *)
(* (helion/autotuner: pattern_search.py, base_search.py and                *)
(* LocalBenchmarkProvider.benchmark of benchmark_provider.py).  The ranks  *)
(* run the same program and meet in collectives: object gathers, object    *)
(* broadcasts from the first rank, and launches of a kernel whose copies   *)
(* wait for each other.  A process group pairs collectives in the order    *)
(* they are made, whatever they were made for: that every rank makes the   *)
(* same ones is the program's business.                                    *)
(*                                                                         *)
(* A batch is the list of configs 1..Configs of one generation.  Sources   *)
(* are not deduplicated and no worker subprocess is used when torch's      *)
(* process groups are initialised.  Performance is "fast", "slow" or inf.  *)
(***************************************************************************)
EXTENDS Integers, FiniteSets, FiniteSetsExt

CONSTANTS
  Ranks,
  Root,            \* group rank 0, the source of broadcasts
  Configs,         \* configs in a batch
  Generations,     \* generations after the initial population
  SyncedRounds,    \* config_spec.cute_flash_search_enabled
  KernelWaits,     \* whether a kernel waits on the device for its peers
  CompileMayDiffer,\* whether code generation may fail on some ranks only
  RunMayDiffer     \* whether a kernel may fail to run on some ranks only

ASSUME RanksAssumption == IsFiniteSet(Ranks) /\ Root \in Ranks
ASSUME SizesAssumption == Configs \in Nat \ {0} /\ Generations \in Nat
ASSUME FlagsAssumption ==
  /\ SyncedRounds \in BOOLEAN /\ KernelWaits \in BOOLEAN
  /\ CompileMayDiffer \in BOOLEAN /\ RunMayDiffer \in BOOLEAN

Batch == 1..Configs

\* What a rank meets when it builds and runs a config: code generation
\* fails; the kernel runs; its first run or a later one fails; or it fails
\* with an error the search does not survive.
Fates == {"nocode", "runs", "fails", "fails late", "raises"}

Perfs == {"fast", "slow", "inf"}

Gathers == {"cut", "trial", "working", "built", "accurate", "range", "final"}
Broadcasts == {"estimate", "resize", "report", "verify", "finalists"}
Launches == {"launch", "time", "repeat", "often", "sample"}
Ends == {"done", "raised"}
\* Where a rank is between two collectives.
Local == {"begin", "precompile", "boundary", "leave"}

VARIABLES
  at,       \* the collective a rank is in or has come from, or a local point
  waiting,  \* whether it is blocked in that collective
  vote,     \* what it contributed
  heard,    \* what the collective returned
  gen, cfg, \* the generation and the config of each rank
  fate,     \* what it has met so far in this batch, "?" if not built
  working,  \* configs its precompile phase found working
  result,   \* perf of each config of its batch
  late,     \* whether its clock says that the budget is exhausted
  \* --- history
  built,    \* configs of this batch whose binary it built
  cut       \* whether it left a loop because of the budget

call == <<at, waiting, vote, heard>>
vars == <<call, gen, cfg, fate, working, result, late, built, cut>>

TypeOK ==
  /\ at \in [Ranks -> Gathers \cup Broadcasts \cup Launches \cup Ends \cup Local]
  /\ waiting \in [Ranks -> BOOLEAN] /\ vote \in [Ranks -> BOOLEAN]
  /\ heard \in [Ranks -> SUBSET BOOLEAN]
  /\ gen \in [Ranks -> 0..Generations] /\ cfg \in [Ranks -> Batch]
  /\ fate \in [Ranks -> [Batch -> Fates \cup {"?"}]]
  /\ working \in [Ranks -> SUBSET Batch] /\ built \in [Ranks -> SUBSET Batch]
  /\ result \in [Ranks -> [Batch -> Perfs]]
  /\ late \in [Ranks -> BOOLEAN] /\ cut \in [Ranks -> BOOLEAN]

Init ==
  /\ at = [p \in Ranks |-> "begin"]
  /\ waiting = [p \in Ranks |-> FALSE] /\ vote = [p \in Ranks |-> FALSE]
  /\ heard = [p \in Ranks |-> {}]
  /\ gen = [p \in Ranks |-> 0] /\ cfg = [p \in Ranks |-> 1]
  /\ fate = [p \in Ranks |-> [c \in Batch |-> "?"]]
  /\ working = [p \in Ranks |-> {}] /\ built = [p \in Ranks |-> {}]
  /\ result = [p \in Ranks |-> [c \in Batch |-> "inf"]]
  /\ late = [p \in Ranks |-> FALSE] /\ cut = [p \in Ranks |-> FALSE]

-----------------------------------------------------------------------------
\* The collectives: external, as the code uses them.

\* Rank p enters a collective with its contribution v.
Call(p, place, v) ==
  /\ at' = [at EXCEPT ![p] = place]
  /\ waiting' = [waiting EXCEPT ![p] = TRUE]
  /\ vote' = [vote EXCEPT ![p] = v]
  /\ heard' = [heard EXCEPT ![p] = {}]

\* Rank p goes on without a collective.
Goto(p, place) ==
  /\ at' = [at EXCEPT ![p] = place]
  /\ UNCHANGED <<waiting, vote, heard>>

Back(p, place) == at[p] = place /\ ~waiting[p]

ReturnTo(S, votes) ==
  /\ waiting' = [p \in Ranks |-> waiting[p] /\ p \notin S]
  /\ heard' = [p \in Ranks |-> IF p \in S THEN votes ELSE heard[p]]
  /\ UNCHANGED <<at, vote, gen, cfg, fate, working, result, late, built, cut>>

AllIn(places) == \A p \in Ranks : waiting[p] /\ at[p] \in places

\* dist.all_gather_object: every rank gets what every rank gave.
Gather == AllIn(Gathers) /\ ReturnTo(Ranks, {vote[p] : p \in Ranks})

\* dist.broadcast_object_list: every rank gets what the first one gave.
Broadcast == AllIn(Broadcasts) /\ ReturnTo(Ranks, {vote[Root]})

\* A launch returns once the device is done, which for a kernel that
\* signals its peers takes the same kernel on all of them.
KernelReturns(p) ==
  /\ waiting[p] /\ at[p] \in Launches
  /\ KernelWaits => AllIn(Launches) /\ \A q \in Ranks : cfg[q] = cfg[p]
  /\ ReturnTo(IF KernelWaits THEN Ranks ELSE {p}, {})

\* The clock of a rank.
Tick(p) ==
  /\ ~late[p]
  /\ late' = [late EXCEPT ![p] = TRUE]
  /\ UNCHANGED <<call, gen, cfg, fate, working, result, built, cut>>

-----------------------------------------------------------------------------
\* Mutants: a decision on the local value instead of the gathered ones.
AnyRank_Local(p) == vote[p]
EveryRank_Local(p) == vote[p]
FromRoot_Local(p) == vote[p]

\* any(all_gather_object(...)) and all(all_gather_object(...)).
AnyRank(p) == TRUE \in heard[p]
EveryRank(p) == FALSE \notin heard[p]
\* sync_object(...)
FromRoot(p) == TRUE \in heard[p]

CompiledIn(row) == {c \in Batch : row[c] \notin {"?", "nocode"}}
Compiled(p) == CompiledIn(fate[p])

\* A rank meets on c what its peers met in this batch, except as allowed.
Consistent(p, c, f) ==
  \A q \in Ranks \ {p} : gen[q] = gen[p] /\ fate[q][c] # "?" =>
    LET g == fate[q][c] IN
    /\ ~CompileMayDiffer => (f = "nocode" <=> g = "nocode")
    /\ ~RunMayDiffer /\ f # "nocode" /\ g # "nocode" => f = g

CutShort(p) == cut' = [cut EXCEPT ![p] = TRUE]

\* for i, config in enumerate(all_configs): if self._budget_exceeded_synced()
Begin(p) ==
  /\ at[p] = "begin"
  /\ Call(p, "cut", late[p])
  /\ cfg' = [cfg EXCEPT ![p] = 1]
  /\ fate' = [fate EXCEPT ![p] = [c \in Batch |-> "?"]]
  /\ working' = [working EXCEPT ![p] = {}]
  /\ built' = [built EXCEPT ![p] = {}]
  /\ result' = [result EXCEPT ![p] = [c \in Batch |-> "inf"]]
  /\ UNCHANGED <<gen, late, cut>>

StopCompiling(p) ==
  /\ Back(p, "cut") /\ AnyRank(p)
  /\ CutShort(p)
  /\ Goto(p, "precompile")
  /\ UNCHANGED <<gen, cfg, fate, working, result, late, built>>

\* compile_config.  A failure of the last config of a batch is raised when
\* nothing compiled and no config of any generation was measured yet, which
\* from the second generation on is not so: see EndBatch.
Compile(p, f) ==
  /\ Back(p, "cut") /\ ~AnyRank(p) /\ Consistent(p, cfg[p], f)
  /\ fate' = [fate EXCEPT ![p][cfg[p]] = f]
  /\ IF cfg[p] < Configs
     THEN /\ cfg' = [cfg EXCEPT ![p] = @ + 1]
          /\ Call(p, "cut", late[p])
     ELSE /\ IF f = "nocode" /\ Compiled(p) = {} /\ gen[p] = 0
             THEN Goto(p, "raised") ELSE Goto(p, "precompile")
          /\ UNCHANGED cfg
  /\ UNCHANGED <<gen, working, result, late, built, cut>>

\* The batch is over.  Without a finite performance in the initial
\* population the search raises NoConfigFound; with two or more of them it
\* verifies: rebenchmark, whose timings are synchronised.
Finite(row) == {c \in Batch : row[c] # "inf"}
Contended(p) == Cardinality(Finite(result'[p])) >= 2

EndBatch(p) ==
  IF gen[p] = 0 /\ Finite(result'[p]) = {} THEN Goto(p, "raised")
  ELSE IF Contended(p) THEN Call(p, "verify", TRUE)
  ELSE Goto(p, "boundary")

\* The benchmark loop goes on to the next config after c that compiled here.
Later(row, c) == {d \in CompiledIn(row) : d > c}

Continue(p, c) ==
  IF Later(fate[p], c) = {}
  THEN EndBatch(p) /\ UNCHANGED cfg
  ELSE /\ cfg' = [cfg EXCEPT ![p] = Min(Later(fate[p], c))]
       /\ Call(p, "trial", late[p])

\* PrecompileFuture.wait_for_all, whose verdicts are each rank's own.
Precompile(p, good) ==
  /\ at[p] = "precompile" /\ good \subseteq Compiled(p)
  /\ working' = [working EXCEPT ![p] = good]
  /\ UNCHANGED result
  /\ Continue(p, 0)
  /\ UNCHANGED <<gen, fate, late, built, cut>>

\* if self._budget_exceeded_synced(): break
StopBenchmarking(p) ==
  /\ Back(p, "trial") /\ AnyRank(p)
  /\ CutShort(p)
  /\ UNCHANGED <<gen, cfg, fate, working, result, late, built>>
  /\ EndBatch(p)

AskWorking(p) ==
  /\ Back(p, "trial") /\ ~AnyRank(p)
  /\ Call(p, "working", cfg[p] \in working[p])
  /\ UNCHANGED <<gen, cfg, fate, working, result, late, built, cut>>

\* The config at hand is done with performance perf.
Settle(p, perf) ==
  /\ result' = [result EXCEPT ![p][cfg[p]] = perf]
  /\ Continue(p, cfg[p])
  /\ UNCHANGED <<gen, fate, working, late, built, cut>>

\* "error", "timeout" or, where it works, "peer_compilation_fail".
NotWorking(p) == Back(p, "working") /\ ~EveryRank(p) /\ Settle(p, "inf")

\* _triton_compile in _benchmark_function, which may succeed on some ranks
\* only.
TritonCompile(p, success) ==
  /\ Back(p, "working") /\ EveryRank(p)
  /\ Call(p, "built", success)
  /\ built' = [built EXCEPT ![p] = IF success THEN @ \cup {cfg[p]} ELSE @]
  /\ UNCHANGED <<gen, cfg, fate, working, result, late, cut>>

NotBuilt(p) == Back(p, "built") /\ ~EveryRank(p) /\ Settle(p, "inf")

\* output = fn(*working_args)
FirstRun(p) ==
  /\ Back(p, "built") /\ EveryRank(p)
  /\ fate[p][cfg[p]] \in {"runs", "fails late"}
  /\ Call(p, "launch", TRUE)
  /\ UNCHANGED <<gen, cfg, fate, working, result, late, built, cut>>

FirstRunFails(p) ==
  /\ Back(p, "built") /\ EveryRank(p)
  /\ fate[p][cfg[p]] = "fails"
  /\ Settle(p, "inf")

FirstRunRaises(p) ==
  /\ Back(p, "built") /\ EveryRank(p)
  /\ fate[p][cfg[p]] = "raises"
  /\ Goto(p, "raised")
  /\ UNCHANGED <<gen, cfg, fate, working, result, late, built, cut>>

\* Mutant: a rank whose output is wrong returns at once.
Validate_ReturnsEarly(p, pass) ==
  /\ Back(p, "launch")
  /\ IF pass
     THEN /\ Call(p, "accurate", pass)
          /\ UNCHANGED <<gen, cfg, fate, working, result, late, built, cut>>
     ELSE Settle(p, "inf")

\* _validate_against_baseline: each rank checks the part it computed.
Validate(p, pass) ==
  /\ Back(p, "launch")
  /\ Call(p, "accurate", pass)
  /\ UNCHANGED <<gen, cfg, fate, working, result, late, built, cut>>

NotAccurate(p) == Back(p, "accurate") /\ ~EveryRank(p) /\ Settle(p, "inf")

\* do_bench: one launch to estimate from.
Time(p) ==
  /\ Back(p, "accurate") /\ EveryRank(p) /\ fate[p][cfg[p]] = "runs"
  /\ Call(p, "time", TRUE)
  /\ UNCHANGED <<gen, cfg, fate, working, result, late, built, cut>>

TimeFails(p) ==
  /\ Back(p, "accurate") /\ EveryRank(p) /\ fate[p][cfg[p]] = "fails late"
  /\ Settle(p, "inf")

\* _estimate_runtime_and_warmup: the first rank's estimate decides on every
\* rank whether the probe is already the sample.
Estimate(p, long) ==
  /\ Back(p, "time")
  /\ Call(p, "estimate", long)
  /\ UNCHANGED <<gen, cfg, fate, working, result, late, built, cut>>

Repeat(p) ==
  /\ Back(p, "estimate") /\ ~FromRoot(p)
  /\ Call(p, "repeat", TRUE)
  /\ UNCHANGED <<gen, cfg, fate, working, result, late, built, cut>>

\* The first rank's second estimate gives the number of launches, which is
\* higher for a fast kernel than for a slow one.
Resize(p, slow) ==
  /\ Back(p, "repeat")
  /\ Call(p, "resize", slow)
  /\ UNCHANGED <<gen, cfg, fate, working, result, late, built, cut>>

RunOften(p) ==
  /\ Back(p, "resize") /\ ~FromRoot(p)
  /\ Call(p, "often", TRUE)
  /\ UNCHANGED <<gen, cfg, fate, working, result, late, built, cut>>

Sample(p) ==
  /\ Back(p, "often") \/ (Back(p, "resize") /\ FromRoot(p))
  /\ Call(p, "sample", TRUE)
  /\ UNCHANGED <<gen, cfg, fate, working, result, late, built, cut>>

\* res = sync_object(res, ...); each rank has timed its own device.
Report(p, fast) ==
  /\ Back(p, "sample") \/ (Back(p, "estimate") /\ FromRoot(p))
  /\ Call(p, "report", fast)
  /\ UNCHANGED <<gen, cfg, fate, working, result, late, built, cut>>

Measured(p) ==
  Back(p, "report") /\ Settle(p, IF FromRoot(p) THEN "fast" ELSE "slow")

-----------------------------------------------------------------------------
\* The search around the batches.

\* The generation boundary of _budgeted_range, once the batch is verified.
\* Only a CuTe flash search asks the other ranks.
AtBoundary(p) == Back(p, "verify") \/ at[p] = "boundary"

\* Mutant: one generation too many.
LastGeneration_OneMore(p) == gen[p] > Generations

LastGeneration(p) == gen[p] = Generations

AskBudget(p) ==
  /\ AtBoundary(p) /\ ~LastGeneration(p) /\ SyncedRounds
  /\ Call(p, "range", late[p])
  /\ UNCHANGED <<gen, cfg, fate, working, result, late, built, cut>>

\* What the rank does about the budget at the boundary: b is "exhausted".
BudgetSays(p, b) ==
  IF SyncedRounds
  THEN Back(p, "range") /\ AnyRank(p) = b
  ELSE AtBoundary(p) /\ ~LastGeneration(p) /\ late[p] = b

RangeEnds(p) ==
  /\ BudgetSays(p, TRUE)
  /\ CutShort(p)
  /\ Goto(p, "leave")
  /\ UNCHANGED <<gen, cfg, fate, working, result, late, built>>

NextGeneration(p) ==
  /\ BudgetSays(p, FALSE)
  /\ gen' = [gen EXCEPT ![p] = @ + 1]
  /\ Goto(p, "begin")
  /\ UNCHANGED <<cfg, fate, working, result, late, built, cut>>

RangeIsOver(p) ==
  /\ AtBoundary(p) /\ LastGeneration(p)
  /\ Goto(p, "leave")
  /\ UNCHANGED <<gen, cfg, fate, working, result, late, built, cut>>

\* final_rebenchmark_best: the single-pass verification of the finalists,
\* skipped once the budget is spent.
Verify(p) ==
  IF Contended(p) THEN Call(p, "finalists", TRUE) ELSE Goto(p, "done")

Finalize(p) ==
  /\ at[p] = "leave"
  /\ UNCHANGED <<gen, cfg, fate, working, result, late, built, cut>>
  /\ IF SyncedRounds THEN Call(p, "final", late[p])
     ELSE IF late[p] THEN Goto(p, "done")
     ELSE Verify(p)

FinalHeard(p) ==
  /\ Back(p, "final")
  /\ UNCHANGED <<gen, cfg, fate, working, result, late, built, cut>>
  /\ IF AnyRank(p) THEN Goto(p, "done") ELSE Verify(p)

Verified(p) ==
  /\ Back(p, "finalists")
  /\ Goto(p, "done")
  /\ UNCHANGED <<gen, cfg, fate, working, result, late, built, cut>>

-----------------------------------------------------------------------------
Rank(p) ==
  \/ Begin(p) \/ StopCompiling(p) \/ \E f \in Fates : Compile(p, f)
  \/ \E good \in SUBSET Batch : Precompile(p, good)
  \/ StopBenchmarking(p) \/ AskWorking(p) \/ NotWorking(p)
  \/ \E success \in BOOLEAN : TritonCompile(p, success)
  \/ NotBuilt(p) \/ FirstRun(p) \/ FirstRunFails(p) \/ FirstRunRaises(p)
  \/ \E pass \in BOOLEAN : Validate(p, pass)
  \/ NotAccurate(p) \/ Time(p) \/ TimeFails(p)
  \/ \E long \in BOOLEAN : Estimate(p, long)
  \/ Repeat(p) \/ \E slow \in BOOLEAN : Resize(p, slow)
  \/ RunOften(p) \/ Sample(p) \/ \E fast \in BOOLEAN : Report(p, fast)
  \/ Measured(p)
  \/ AskBudget(p) \/ RangeEnds(p) \/ NextGeneration(p) \/ RangeIsOver(p)
  \/ Finalize(p) \/ FinalHeard(p) \/ Verified(p)

Over(p) == at[p] \in Ends

Next ==
  \/ \E p \in Ranks : Rank(p) \/ KernelReturns(p) \/ Tick(p)
  \/ Gather \/ Broadcast
  \/ (\A p \in Ranks : Over(p)) /\ UNCHANGED vars

\* The ranks run, and the collectives that can complete do.
Fairness ==
  /\ \A p \in Ranks : WF_vars(Rank(p)) /\ WF_vars(KernelReturns(p))
  /\ WF_vars(Gather) /\ WF_vars(Broadcast)

Spec == Init /\ [][Next]_vars
FairSpec == Spec /\ Fairness

-----------------------------------------------------------------------------
\* "The cutoff decision must be agreed across the process group; otherwise
\* one rank breaks early while peers keep entering collectives and the group
\* deadlocks": when every rank is blocked or has ended, all are at the same
\* collective, of the same config of the same generation.
Blocked(p) == Over(p) \/ (waiting[p] /\ (at[p] \in Launches => KernelWaits))

Lockstep ==
  (\A p \in Ranks : Blocked(p)) =>
    \A p, q \in Ranks : <<gen[p], at[p], cfg[p]>> = <<gen[q], at[q], cfg[q]>>

\* "return whether any rank reports the autotune budget exhausted": no rank
\* drops configs or generations for the budget while the clocks of all ranks
\* say that there is time left.
CutoffIsReal == \A p \in Ranks : cut[p] => \E q \in Ranks : late[q]

\* Without it "some rank may fail and skip running the kernel while other
\* ranks waiting for its peers": a rank that runs a kernel knows that every
\* rank has a binary of it.
NobodyRunsAlone ==
  \A p, q \in Ranks :
    waiting[p] /\ at[p] \in Launches => cfg[p] \in built[q]

\* What check_population_consistency looks for: when two ranks are between
\* the same two batches, they hold the same performance of every config, so
\* the search goes on to the same configs on both.
BetweenBatches(p) ==
  at[p] \in {"verify", "boundary", "range", "leave", "final", "finalists", "done"}

SamePerformance ==
  \A p, q \in Ranks :
    BetweenBatches(p) /\ BetweenBatches(q) /\ gen[p] = gen[q] =>
      result[p] = result[q]

\* The search ends on every rank.
SearchEnds == <>(\A p \in Ranks : Over(p))
=============================================================================
