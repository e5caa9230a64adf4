----------------------------- MODULE LocalSearch -----------------------------
(***************************************************************************)
(* A search on one device: the generations of pattern_search.py and the    *)
(* shared tail of base_search.py over LocalBenchmarkProvider               *)
(* (benchmark_provider.py), from setup to cleanup.  Candidates run in a    *)
(* benchmark worker that may time out, fail, be unable to load the code or *)
(* survive SIGKILL, or else in the search's own process.                   *)
(*                                                                         *)
(* In a CuTe flash search configs with the same generated source share one *)
(* measurement; the provider's tables of "effective sources" say which     *)
(* sources were measured, failed to run or were rejected.                  *)
(*                                                                         *)
(* Timings are arbitrary: of a member's perfs only those that are finite   *)
(* matter, and "the fastest" is any one with a finite timing.              *)
(***************************************************************************)
EXTENDS Naturals, Sequences, FiniteSets

CONSTANTS
  Configs, Sources,
  SourceOf,   \* generated_source_hash of what a config compiles to
  Seeds,      \* compiler seeds, whose first timeout may be retried
  MaxBatch,   \* configs in one call of benchmark
  MaxRounds   \* rounds of the finishing phase

ASSUME ConfigsAssumption ==
  SourceOf \in [Configs -> Sources] /\ Seeds \subseteq Configs
ASSUME BoundsAssumption == MaxBatch \in Nat \ {0} /\ MaxRounds \in Nat

VARIABLES
  flash,      \* config_spec.cute_flash_search_enabled
  finishing,  \* finishing_rounds > 0
  shootout,   \* _final_selection_enabled()
  pc, stage,  \* where the search is, and for which phase it benchmarks
  late,       \* the autotune budget is exhausted
  \* --- the provider's tables
  measured,   \* sources in _effective_source_results
  invalid,    \* _invalid_effective_source_hashes
  pending,    \* source -> configs in _pending_effective_source_failures
  repairs,    \* configs in _effective_source_repairs
  seedSources,\* _compiler_seed_source_hashes
  claims,     \* _compiler_seed_timeout_retry_claims
  succeeded,  \* num_successful_candidate_measurements > 0
  \* --- the provider's resources
  worker,     \* "none", "live" or "stuck": the process of _benchmark_worker
  parentOnly, \* _subprocess_wrapper_unloadable or _args_unpicklable
  open,       \* the temporary directory exists and the hooks are in place
  \* --- the batch being benchmarked
  todo, got,  \* configs still to be run, and the results so far
  \* --- the search
  pop,        \* configs of self.population
  member,     \* state of a config's member of the population
  history,    \* state of its snapshot in _benchmarked_members
  cand,       \* state of a member local to the finishing phase
  best,       \* the local "best" of _finalize
  fit, rounds,\* good_candidates and the round of the finishing phase
  unkillable, \* _unkillable_configs
  selected,   \* what _autotune returned, as a set of at most one config
  \* --- history
  inaccurate, \* configs whose own accuracy check failed
  unsafe,     \* configs that poisoned a worker when they were timed again
  lingers,    \* a worker process survived SIGKILL
  hung        \* the config it was running, if the search was told

mode == <<flash, finishing, shootout>>
tables == <<measured, invalid, pending, repairs, seedSources>>
resources == <<worker, parentOnly, lingers, hung>>
batch == <<todo, got>>
members == <<pop, member, history>>
tail == <<cand, best, fit, rounds>>
notes == <<inaccurate, unsafe>>
vars == <<mode, pc, stage, late, tables, claims, succeeded, resources, open, batch,
          members, tail, unkillable, selected, notes>>

\* perfs is empty; ends in a finite timing; is inf and there is no function
\* (_unset_fn); is inf; ends in inf after a finite timing; and the member is
\* no longer in the population.
States == {"new", "live", "unbuilt", "failed", "lost", "gone"}

TypeOK ==
  /\ flash \in BOOLEAN /\ finishing \in BOOLEAN /\ shootout \in BOOLEAN /\ late \in BOOLEAN
  /\ pc \in {"setup", "search", "bench", "job", "retry", "accuracy", "parent",
             "verify", "final", "finish", "judge", "salvage", "teardown", "done", "raised"}
  /\ stage \in {"search", "finish", "combined"}
  /\ measured \subseteq Sources /\ invalid \subseteq Sources
  /\ pending \in [Sources -> SUBSET Configs] /\ repairs \subseteq Configs
  /\ seedSources \subseteq Sources /\ claims \subseteq Configs \cup Sources
  /\ succeeded \in BOOLEAN /\ worker \in {"none", "live", "stuck"}
  /\ parentOnly \in BOOLEAN /\ open \in BOOLEAN
  /\ todo \in Seq(Configs) /\ got \in [Configs -> {"none", "live", "unbuilt", "failed"}]
  /\ pop \subseteq Configs /\ member \in [Configs -> States]
  /\ history \in [Configs -> {"new", "live", "lost"}]
  /\ cand \in [Configs -> States \ {"gone"}]
  /\ best \subseteq Configs /\ fit \subseteq Configs /\ rounds \in 0..MaxRounds
  /\ unkillable \subseteq Configs /\ selected \subseteq Configs
  /\ inaccurate \subseteq Configs /\ unsafe \subseteq Configs
  /\ lingers \in BOOLEAN /\ hung \subseteq Configs

\* The CuTe flash search overrides the phases that reset attributes; elsewhere
\* they are modelled with the single-pass final verification.
Init ==
  /\ flash \in BOOLEAN /\ shootout \in BOOLEAN
  /\ finishing \in {FALSE, ~flash /\ ~shootout}
  /\ pc = "setup" /\ stage = "search" /\ late = FALSE
  /\ measured = {} /\ invalid = {} /\ pending = [s \in Sources |-> {}]
  /\ repairs = {} /\ seedSources = {} /\ claims = {} /\ succeeded = FALSE
  /\ worker = "none" /\ parentOnly = FALSE /\ open = FALSE
  /\ todo = <<>> /\ got = [c \in Configs |-> "none"]
  /\ pop = {} /\ member = [c \in Configs |-> "new"]
  /\ history = [c \in Configs |-> "new"] /\ cand = [c \in Configs |-> "new"]
  /\ best = {} /\ fit = {} /\ rounds = 0
  /\ unkillable = {} /\ selected = {} /\ inaccurate = {} /\ unsafe = {}
  /\ lingers = FALSE /\ hung = {}

Live(f) == {c \in Configs : f[c] = "live"}
SourcesOf(S) == {SourceOf[c] : c \in S}

-----------------------------------------------------------------------------
\* Exits, timer and setup.

\* provider.setup(), after which cleanup is registered.  Arguments that do not
\* pickle leave the worker unused; a directory or file that cannot be written
\* raises before the registration.
Setup ==
  /\ pc = "setup"
  /\ pc' \in {"search", "raised"}
  /\ open' = TRUE
  /\ parentOnly' \in BOOLEAN
  /\ UNCHANGED <<mode, stage, late, tables, claims, succeeded, worker, lingers, hung, batch,
                 members, tail, unkillable, selected, notes>>

Tick ==
  /\ pc \notin {"setup", "teardown", "done", "raised"} /\ ~late
  /\ late' = TRUE
  /\ UNCHANGED <<mode, pc, stage, tables, claims, succeeded, resources, open, batch,
                 members, tail, unkillable, selected, notes>>

\* Where BenchmarkWorkerUnkillable goes: only _finalize catches it.
Unwound == IF stage = "search" THEN "teardown" ELSE "salvage"

\* The worker's process survives SIGKILL while it runs c; with a fresh process
\* for every candidate the provider then forgets the object.
Hangs(c, fresh) ==
  /\ worker' = IF fresh THEN "none" ELSE "stuck"
  /\ lingers' = TRUE /\ hung' = hung \cup {c}

-----------------------------------------------------------------------------
\* What a failed accuracy check does to its source.
Ban(S) ==
  /\ invalid' = invalid \cup S
  /\ measured' = measured \ S
  /\ pending' = [s \in Sources |-> IF s \in S THEN {} ELSE pending[s]]
  /\ UNCHANGED seedSources

\* invalidate_effective_source_hash, for each source of S.
Invalidate(S) == Ban(S) /\ repairs' = {c \in repairs : SourceOf[c] \notin S}

\* A measurement is cached and _resolve_effective_source_failures repairs
\* whatever failed with the same source.
Resolve(s) ==
  /\ repairs' = repairs \cup pending[s]
  /\ pending' = [pending EXCEPT ![s] = {}]
  /\ measured' = measured \cup {s}
  /\ UNCHANGED <<invalid, seedSources>>

\* _remember_effective_source_failure
Remember(s, c) ==
  /\ pending' = [pending EXCEPT ![s] = @ \cup {c}]
  /\ UNCHANGED <<measured, invalid, repairs, seedSources>>

-----------------------------------------------------------------------------
\* LocalBenchmarkProvider.benchmark.

Batches(S) == {b \in SUBSET S : b # {} /\ Cardinality(b) <= MaxBatch}
In(o) == {o[i] : i \in DOMAIN o}
Orders(S) ==
  {o \in UNION {[1..n -> S] : n \in 0..MaxBatch} :
     In(o) = S /\ \A i, j \in DOMAIN o : o[i] = o[j] => i = j}

\* The compile loop, for a batch in any order: the configs of "reached" come
\* before the budget ends, those of "broken" fail to compile, and those whose
\* source was measured take its result.  When nothing was ever measured and
\* nothing compiles, the last error is raised or, if the caller has a fallback
\* population, kept.
CompileBatch(b, reached, broken) ==
  LET compiled == reached \ broken
      reused == {c \in compiled : flash /\ SourceOf[c] \in measured} IN
  /\ IF late THEN reached = {} ELSE reached # {}
  /\ late' = (late \/ reached # b)
  /\ todo' \in Orders(compiled \ reused)
  /\ got' = [c \in Configs |-> IF c \notin b THEN "none"
                               ELSE IF c \in reused THEN "live" ELSE "unbuilt"]
  /\ seedSources' = IF flash THEN seedSources \cup SourcesOf(compiled \cap Seeds)
                    ELSE seedSources
  /\ pc' \in IF compiled = {} /\ reached = b /\ ~succeeded THEN {"bench", "teardown"}
             ELSE {"bench"}
  /\ UNCHANGED <<mode, measured, invalid, pending, repairs, claims, succeeded, resources, open,
                 history, best, unkillable, selected, notes>>

AtBench == pc = "bench" /\ todo # <<>>
Config == Head(todo)
Source == SourceOf[Config]

\* The result of the config at hand.
Settle(r) ==
  /\ got' = [got EXCEPT ![Config] = r]
  /\ todo' = Tail(todo)
  /\ pc' = "bench"

StopBenchmarking ==
  /\ AtBench /\ late
  /\ todo' = <<>>
  /\ UNCHANGED <<mode, pc, stage, late, tables, claims, succeeded, resources, open, got,
                 members, tail, unkillable, selected, notes>>

\* source_rejected; deduplicated; or, where configs are precompiled, found not
\* to work.  None of these runs the config.
Skip ==
  /\ AtBench /\ ~late
  /\ IF flash THEN Source \in invalid \cup measured ELSE TRUE
  /\ Settle(IF flash /\ Source \in measured \ invalid THEN "live" ELSE "failed")
  /\ UNCHANGED <<mode, stage, late, tables, claims, succeeded, resources, open,
                 members, tail, unkillable, selected, notes>>

\* Mutant: the rejected sources are not looked up before a config is run.
Launch_EvenRejected ==
  /\ AtBench /\ ~late
  /\ flash => Source \notin measured
  /\ pc' = IF parentOnly THEN "parent" ELSE "job"
  /\ UNCHANGED <<mode, stage, late, tables, claims, succeeded, resources, open, batch,
                 members, tail, unkillable, selected, notes>>

\* _benchmark_function
Launch ==
  /\ AtBench /\ ~late
  /\ flash => Source \notin invalid \cup measured
  /\ pc' = IF parentOnly THEN "parent" ELSE "job"
  /\ UNCHANGED <<mode, stage, late, tables, claims, succeeded, resources, open, batch,
                 members, tail, unkillable, selected, notes>>

InWorker == pc \in {"job", "retry", "accuracy"}

\* The job returned: a time, which the accuracy check follows, or its verdict.
Timed ==
  /\ pc \in {"job", "retry"}
  /\ pc' = "accuracy" /\ worker' = "live"
  /\ UNCHANGED <<mode, stage, late, tables, claims, succeeded, parentOnly, lingers, hung, open,
                 batch, members, tail, unkillable, selected, notes>>

\* The timing is accepted: "ok".
Accept ==
  /\ pc \in {"accuracy", "parent"}
  /\ worker' = IF pc = "parent" THEN worker ELSE "live"
  /\ Settle("live")
  /\ succeeded' = TRUE
  /\ IF flash THEN Resolve(Source) ELSE UNCHANGED tables
  /\ UNCHANGED <<mode, stage, late, claims, parentOnly, lingers, hung, open,
                 members, tail, unkillable, selected, notes>>

\* "accuracy_error"
Reject ==
  /\ pc \in {"accuracy", "parent"}
  /\ worker' = IF pc = "parent" THEN worker ELSE "live"
  /\ Settle("failed")
  /\ inaccurate' = inaccurate \cup {Config}
  /\ IF flash THEN Ban({Source}) /\ UNCHANGED repairs ELSE UNCHANGED tables
  /\ UNCHANGED <<mode, stage, late, claims, succeeded, parentOnly, lingers, hung, open,
                 members, tail, unkillable, selected, unsafe>>

\* _claim_compiler_seed_timeout_retry
Claim == IF flash THEN Source ELSE Config
MayRetry ==
  /\ pc = "job" /\ ~late /\ Claim \notin claims
  /\ Config \in Seeds \/ (flash /\ Source \in seedSources)

Retry ==
  /\ MayRetry
  /\ claims' = claims \cup {Claim}
  /\ pc' = "retry" /\ worker' = "none"
  /\ UNCHANGED <<mode, stage, late, tables, succeeded, parentOnly, lingers, hung, open,
                 batch, members, tail, unkillable, selected, notes>>

\* A timeout, a worker that died, or an error of the kernel.
FailToRun ==
  /\ InWorker \/ pc = "parent"
  /\ worker' \in IF pc = "parent" THEN {worker} ELSE {"live", "none"}
  /\ Settle("failed")
  /\ IF flash THEN Remember(Source, Config) ELSE UNCHANGED tables
  /\ UNCHANGED <<mode, stage, late, claims, succeeded, parentOnly, lingers, hung, open,
                 members, tail, unkillable, selected, notes>>

\* BenchmarkWorkerUnkillable: from the job, or from shutting the worker down
\* because it could not load the code.
HangInBatch ==
  /\ InWorker
  /\ Hangs(Config, FALSE)
  /\ parentOnly' \in {parentOnly, TRUE}
  /\ pc' = Unwound
  /\ UNCHANGED <<mode, stage, late, tables, claims, succeeded, open, batch,
                 members, tail, unkillable, selected, notes>>

\* The worker cannot take the job: this one, or (unloadable) all later ones too.
FallBack ==
  /\ InWorker
  /\ parentOnly' \in BOOLEAN
  /\ worker' = IF parentOnly' THEN "none" ELSE worker
  /\ pc' = "parent"
  /\ UNCHANGED <<mode, stage, late, tables, claims, succeeded, lingers, hung, open, batch,
                 members, tail, unkillable, selected, notes>>

\* An error the search does not survive: raised by the kernel in this process.
Poisoned ==
  /\ pc = "parent"
  /\ pc' = "teardown"
  /\ UNCHANGED <<mode, stage, late, tables, claims, succeeded, resources, open, batch,
                 members, tail, unkillable, selected, notes>>

-----------------------------------------------------------------------------
\* The generations.

\* The next population: what the search keeps of the last one, its best member
\* included, and new members, which are benchmarked.  The first one and its
\* random fallback do not ask for the budget.
StartGeneration ==
  /\ pc = "search"
  /\ late => Live(member) \cap pop = {}
  /\ \E keep \in SUBSET pop, b \in Batches({c \in Configs : member[c] = "new"}) :
       /\ keep \cap Live(member) = {} => pop \cap Live(member) = {}
       /\ pop' = keep \cup b
       /\ member' = [c \in Configs |-> IF c \in pop \ keep THEN "gone" ELSE member[c]]
       /\ \E reached \in SUBSET b : \E broken \in SUBSET reached :
            CompileBatch(b, reached, broken)
  /\ UNCHANGED <<stage, tail>>

\* Mutant: a repair reaches the batch that found it and no earlier member.
Outcome_OfBatch(c) ==
  IF got[c] = "none" THEN member[c] ELSE IF c \in repairs THEN "live" ELSE got[c]

\* What the batch and its repairs, which the search takes from the provider,
\* make of a member.
Outcome(c) ==
  IF c \in repairs THEN "live" ELSE IF got[c] = "none" THEN member[c] ELSE got[c]

\* benchmark_population: results, _apply_effective_source_repairs and
\* _record_benchmarked_member.  Members of compiler seeds are kept and repaired
\* after they have left the population.
EndBatch ==
  /\ pc = "bench" /\ todo = <<>> /\ stage = "search"
  /\ member' = [c \in Configs |-> IF c \in pop THEN Outcome(c) ELSE member[c]]
  /\ history' = [c \in Configs |->
       IF (c \in pop /\ Outcome(c) = "live") \/ c \in repairs \cap Seeds THEN "live"
       ELSE history[c]]
  /\ repairs' = {}
  /\ got' = [c \in Configs |-> "none"]
  /\ pc' = "verify"
  /\ UNCHANGED <<mode, stage, late, measured, invalid, pending, seedSources, claims, succeeded,
                 resources, open, todo, pop, tail, unkillable, selected, notes>>

\* Mutant: only the members that failed are quarantined, not their aliases.
Disqualify_Alone(bad) ==
  /\ unsafe' = unsafe \cup bad
  /\ IF flash
     THEN /\ Invalidate(SourcesOf(bad))
          /\ member' = [c \in Configs |-> IF c \in pop \cap bad THEN "failed" ELSE member[c]]
          /\ history' = [c \in Configs |-> IF c \in bad THEN "new" ELSE history[c]]
     ELSE /\ member' = [c \in Configs |-> IF c \in pop \cap bad THEN "lost" ELSE member[c]]
          /\ history' = [c \in Configs |->
               IF c \in bad /\ history[c] = "live" THEN "lost" ELSE history[c]]
          /\ UNCHANGED tables

\* _apply_rebenchmark_timings for members whose isolated run failed.  In a
\* flash search their sources are rejected, with every listed member that has
\* one of them; in others a sticky error leaves inf as the last timing.
Disqualify(bad) ==
  /\ unsafe' = unsafe \cup bad
  /\ IF flash
     THEN LET S == SourcesOf(bad)
              listed(c) == member[c] # "unbuilt" /\ SourceOf[c] \in S IN
          /\ Invalidate(S)
          /\ member' = [c \in Configs |-> IF c \in pop /\ listed(c) THEN "failed" ELSE member[c]]
          /\ history' = [c \in Configs |-> IF SourceOf[c] \in S THEN "new" ELSE history[c]]
     ELSE /\ member' = [c \in Configs |-> IF c \in pop \cap bad THEN "lost" ELSE member[c]]
          /\ history' = [c \in Configs |->
               IF c \in bad /\ history[c] = "live" THEN "lost" ELSE history[c]]
          /\ UNCHANGED tables

\* rebenchmark_population: of the fastest members, two or more, each in the
\* worker.  Fewer are left alone, and so are timings that time out outside a
\* flash search; no member need fail.
Verify ==
  /\ pc = "verify" /\ stage = "search" /\ ~parentOnly
  /\ \E bad \in SUBSET (pop \cap Live(member)) :
       /\ bad # {} => Cardinality(pop \cap Live(member)) > 1
       /\ Disqualify(bad)
       /\ worker' \in IF Cardinality(pop \cap Live(member)) > 1 THEN {"live", "none"} ELSE {worker}
  /\ pc' = "search"
  /\ UNCHANGED <<mode, stage, late, claims, succeeded, parentOnly, lingers, hung, open, batch,
                 pop, tail, unkillable, selected, inaccurate>>

\* The same in this process, where an error of a kernel ends the search.
VerifyInProcess ==
  /\ pc = "verify" /\ stage = "search" /\ parentOnly
  /\ pc' \in {"search", "teardown"}
  /\ UNCHANGED <<mode, stage, late, tables, claims, succeeded, resources, open, batch,
                 members, tail, unkillable, selected, notes>>

\* The candidates that are timed again: in the finishing phase all of them.
Retimed ==
  IF stage = "search" THEN pop \cap Live(member) ELSE {c \in Configs : cand[c] # "new"}

\* BenchmarkWorkerUnkillable out of benchmark_isolated, recorded by
\* _record_unkillable; what the batch had found until then is lost.
RetimingHangs ==
  /\ pc = "verify" /\ ~parentOnly /\ Cardinality(Retimed) > 1
  /\ \E c \in Retimed :
       /\ stage = "search" \/ cand[c] # "unbuilt"
       /\ Hangs(c, FALSE)
       /\ unkillable' = unkillable \cup {c}
  /\ parentOnly' \in BOOLEAN
  /\ pc' = Unwound
  /\ UNCHANGED <<mode, stage, late, tables, claims, succeeded, open, batch,
                 members, tail, selected, notes>>

\* The worker cannot load the code: the whole batch is timed in this process.
LoadFails ==
  /\ pc = "verify" \/ (pc = "final" /\ flash /\ ~shootout)
  /\ ~parentOnly /\ parentOnly' = TRUE
  /\ worker' = "none"
  /\ UNCHANGED <<mode, pc, stage, late, tables, claims, succeeded, lingers, hung, open, batch,
                 members, tail, unkillable, selected, notes>>

-----------------------------------------------------------------------------
\* The shared tail: _finalize.

Finalize ==
  /\ pc = "search" /\ pop # {}
  /\ pc' = "final" /\ stage' = "finish"
  /\ UNCHANGED <<mode, late, tables, claims, succeeded, resources, open, batch,
                 members, tail, unkillable, selected, notes>>

\* Members and snapshots with a finite last timing, and those with a finite
\* _finalist_history_perf: outside a flash search any finite timing counts.
LiveNow == (pop \cap Live(member)) \cup Live(history)
Finalists ==
  IF flash THEN LiveNow
  ELSE LiveNow \cup {c \in Configs : (c \in pop /\ member[c] = "lost") \/ history[c] = "lost"}

\* c becomes the local "best", whose last timing is finite.
Leads(c) ==
  /\ best' = {c}
  /\ cand' = [cand EXCEPT ![c] = "live"]
  /\ pc' = "finish"
  /\ UNCHANGED <<fit, rounds>>

\* final_rebenchmark_best when there is nothing to time or no time for it (the
\* final selection asks for the time its smallest plan takes): the best member,
\* or the fastest snapshot, or NoConfigFound.
KeepBest ==
  /\ pc = "final"
  /\ late \/ shootout \/ LiveNow = {} \/ Cardinality(Finalists) < 2
  /\ LET live == IF pop \cap Live(member) # {} THEN pop \cap Live(member) ELSE LiveNow IN
     IF live = {} THEN pc' = "teardown" /\ UNCHANGED tail
     ELSE \E c \in live : Leads(c)
  /\ UNCHANGED <<mode, stage, late, tables, claims, succeeded, resources, open, batch,
                 members, unkillable, selected, notes>>

Contested == pc = "final" /\ LiveNow # {} /\ Cardinality(Finalists) > 1
InFinal == Contested /\ ~shootout /\ ~late

\* The finalists are timed in this process, which an error of one ends.
FinalInProcess ==
  /\ InFinal /\ (flash => parentOnly)
  /\ \/ pc' = "teardown" /\ UNCHANGED tail
     \/ \E c \in Finalists : Leads(c)
  /\ UNCHANGED <<mode, stage, late, tables, claims, succeeded, resources, open, batch,
                 members, unkillable, selected, notes>>

\* In a flash search each finalist has a fresh worker.
FinalIsolated ==
  /\ InFinal /\ flash /\ ~parentOnly
  /\ \E bad \in SUBSET Finalists :
       LET left == {c \in Finalists : SourceOf[c] \notin SourcesOf(bad)} IN
       /\ Disqualify(bad)
       /\ IF left = {} THEN pc' = "teardown" /\ UNCHANGED tail
          ELSE \E c \in left : Leads(c)
  /\ worker' = "none"
  /\ UNCHANGED <<mode, stage, late, claims, succeeded, parentOnly, lingers, hung, open, batch,
                 pop, unkillable, selected, inaccurate>>

\* A finalist's worker survives SIGKILL; or the search's own worker, found idle
\* before the first finalist, does, and then no candidate is named.
FinalHangs ==
  /\ InFinal /\ flash /\ ~parentOnly
  /\ lingers' = TRUE /\ pc' = "salvage"
  /\ \E culprit \in {{c} : c \in Finalists} \cup IF worker = "live" THEN {{}} ELSE {} :
       /\ hung' = hung \cup culprit
       /\ unkillable' = unkillable \cup culprit
  /\ worker' = "none"
  /\ UNCHANGED <<mode, stage, late, tables, claims, succeeded, parentOnly, open, batch,
                 members, tail, selected, notes>>

\* _run_final_selection in the worker: a screen and some rounds of windows.
\* Finalists that fail the screen or are slow in it drop out; of the others,
\* "kept", those of "bad" fail in a round.  A window that is missing costs the
\* finalist its place only if another one has all of its own: without any, the
\* winner is whichever was live before.
Rounds ==
  /\ Contested /\ shootout /\ ~parentOnly
  /\ \E kept \in SUBSET Finalists : \E bad \in SUBSET kept :
       LET left == {c \in kept \ bad : flash => SourceOf[c] \notin SourcesOf(bad)} IN
       /\ Disqualify(bad)
       /\ \/ left \cap LiveNow = {} /\ pc' = "teardown" /\ UNCHANGED tail
          \/ \E c \in left : Leads(c)
  /\ parentOnly' \in BOOLEAN
  /\ worker' \in IF parentOnly' THEN {"none"} ELSE {"live", "none"}
  /\ UNCHANGED <<mode, stage, late, claims, succeeded, lingers, hung, open, batch,
                 pop, unkillable, selected, inaccurate>>

\* The same in this process, which an error ends.
RoundsInProcess ==
  /\ Contested /\ shootout /\ parentOnly
  /\ \/ pc' = "teardown" /\ UNCHANGED tail
     \/ \E c \in Finalists : Leads(c)
  /\ UNCHANGED <<mode, stage, late, tables, claims, succeeded, resources, open, batch,
                 members, unkillable, selected, notes>>

\* The worker survives SIGKILL under a finalist's window (also one that only
\* warms the device up), or when it is to release the finalists' arguments.
RoundsHang ==
  /\ Contested /\ shootout /\ ~parentOnly
  /\ worker' = "stuck" /\ lingers' = TRUE /\ pc' = "salvage"
  /\ \E culprit \in {{}} \cup {{c} : c \in Finalists} :
       /\ hung' = hung \cup culprit
       /\ unkillable' = unkillable \cup culprit
  /\ parentOnly' \in BOOLEAN
  /\ UNCHANGED <<mode, stage, late, tables, claims, succeeded, open, batch,
                 members, tail, selected, notes>>

\* Mutant: one round more than asked for.
RoundsLeft_OneMore == rounds <= MaxRounds
RoundsLeft == rounds < MaxRounds

\* run_finishing_phase: candidates with one attribute reset to its default.
FinishingRound ==
  /\ pc = "finish" /\ finishing /\ ~late /\ RoundsLeft
  /\ rounds' = rounds + 1
  /\ cand' = [c \in Configs |-> IF c \in best THEN cand[c] ELSE "new"]
  /\ \E b \in Batches(Configs \ best) : \E reached \in SUBSET b : \E broken \in SUBSET reached :
       CompileBatch(b, reached, broken)
  /\ stage' = "finish" /\ fit' = {}
  /\ UNCHANGED <<pop, member>>

FinishingMeasured ==
  /\ pc = "bench" /\ todo = <<>> /\ stage # "search"
  /\ cand' = [c \in Configs |-> IF got[c] = "none" THEN cand[c] ELSE got[c]]
  /\ got' = [c \in Configs |-> "none"]
  /\ pc' = "verify"
  /\ UNCHANGED <<mode, stage, late, tables, claims, succeeded, resources, open, todo,
                 members, best, fit, rounds, unkillable, selected, notes>>

\* All candidates are timed again, whatever became of them the first time.
\* One that has no function yields nothing in a worker.
Reverify ==
  /\ pc = "verify" /\ stage # "search" /\ ~parentOnly
  /\ \E bad, timed \in SUBSET {c \in Retimed : cand[c] # "unbuilt"} :
       /\ bad \cap timed = {}
       /\ cand' = [c \in Configs |-> IF c \in bad THEN "lost"
                                     ELSE IF c \in timed THEN "live" ELSE cand[c]]
       /\ unsafe' = unsafe \cup bad
  /\ worker' \in {"live", "none"}
  /\ pc' = "judge"
  /\ UNCHANGED <<mode, stage, late, tables, claims, succeeded, parentOnly, lingers, hung, open,
                 batch, members, best, fit, rounds, unkillable, selected, inaccurate>>

\* In this process an error ends the search, and _unset_fn is one.
ReverifyInProcess ==
  /\ pc = "verify" /\ stage # "search" /\ parentOnly
  /\ cand' = [c \in Configs |-> IF c \in Retimed THEN "live" ELSE cand[c]]
  /\ pc' \in IF \E c \in Retimed : cand[c] = "unbuilt" THEN {"teardown"} ELSE {"judge", "teardown"}
  /\ UNCHANGED <<mode, stage, late, tables, claims, succeeded, resources, open, batch,
                 members, best, fit, rounds, unkillable, selected, notes>>

\* Candidates not slower than the best one.
Judge ==
  /\ pc = "judge" /\ stage = "finish"
  /\ \E good \in SUBSET (Live(cand) \ best) :
       /\ best \cap Live(cand) = {} => good = Live(cand) \ best
       /\ IF good = {} THEN best' = best /\ rounds' = MaxRounds
          ELSE rounds' = rounds /\ \E c \in good : best' = {c}
  /\ pc' = "finish"
  /\ UNCHANGED <<mode, stage, late, tables, claims, succeeded, resources, open, batch,
                 members, cand, fit, unkillable, selected, notes>>

\* Several resets at once, as a config of its own.
Combine ==
  /\ pc = "judge" /\ stage = "finish"
  /\ \E good \in SUBSET (Live(cand) \ best), c \in Configs \ best :
       /\ Cardinality(good) > 1
       /\ fit' = good
       /\ \E reached \in SUBSET {c} : \E broken \in SUBSET reached :
            CompileBatch({c}, reached, broken)
  /\ stage' = "combined"
  /\ cand' = [d \in Configs |-> IF d \in best THEN cand[d] ELSE "new"]
  /\ UNCHANGED <<pop, member, rounds>>

JudgeCombined ==
  /\ pc = "judge" /\ stage = "combined"
  /\ \E c \in fit \cup (Live(cand) \ best) :
       /\ best' = {c}
       /\ cand' = [cand EXCEPT ![c] = "live"]
  /\ pc' = "finish" /\ stage' = "finish"
  /\ UNCHANGED <<mode, late, tables, claims, succeeded, resources, open, batch,
                 members, fit, rounds, unkillable, selected, notes>>

\* Nothing more to reset, or no time for it.
Select ==
  /\ pc = "finish"
  /\ selected' = best
  /\ pc' = "teardown"
  /\ UNCHANGED <<mode, stage, late, tables, claims, succeeded, resources, open, batch,
                 members, tail, unkillable, notes>>

\* Mutant: the culprit is a candidate like the others.
Salvageable_Culprit == (best \cap Live(cand)) \cup (pop \cap Live(member))

Salvageable == ((best \cap Live(cand)) \cup (pop \cap Live(member))) \ unkillable

\* BenchmarkWorkerUnkillable in _finalize: the best config that was measured, or
\* the error again.
Salvage ==
  /\ pc = "salvage"
  /\ IF Salvageable = {} THEN selected' = {} ELSE \E c \in Salvageable : selected' = {c}
  /\ pc' = "teardown"
  /\ UNCHANGED <<mode, stage, late, tables, claims, succeeded, resources, open, batch,
                 members, tail, unkillable, notes>>

-----------------------------------------------------------------------------
\* The exit stack of _autotune_with_logging and provider.cleanup().

Ended == pc \in {"done", "raised"}

\* Mutant: an error of the teardown is an error of the search.
Exit_AnyError(stuck) == pc' = IF selected = {} \/ stuck THEN "raised" ELSE "done"

\* A selected config outlives an error of the teardown, unless it caused it.
Exit(stuck) ==
  pc' = IF selected = {} \/ (stuck /\ selected \subseteq unkillable) THEN "raised" ELSE "done"

\* The worker is shut down first; what follows is only done if it went.
Teardown ==
  /\ pc = "teardown" /\ worker # "stuck"
  /\ worker' = "none" /\ open' = FALSE
  /\ measured' = {} /\ invalid' = {} /\ pending' = [s \in Sources |-> {}]
  /\ repairs' = {} /\ seedSources' = {} /\ claims' = {}
  /\ Exit(FALSE)
  /\ UNCHANGED <<mode, stage, late, succeeded, parentOnly, lingers, hung, batch,
                 members, tail, unkillable, selected, notes>>

\* It survives SIGKILL, now or since it was last used.
TeardownHangs ==
  /\ pc = "teardown" /\ worker # "none"
  /\ worker' = "stuck" /\ lingers' = TRUE
  /\ Exit(TRUE)
  /\ UNCHANGED <<mode, stage, late, tables, claims, succeeded, parentOnly, hung, open, batch,
                 members, tail, unkillable, selected, notes>>

Terminated == Ended /\ UNCHANGED vars

Next ==
  \/ Setup \/ Tick \/ StartGeneration
  \/ StopBenchmarking \/ Skip \/ Launch \/ Timed \/ Accept \/ Reject
  \/ Retry \/ FailToRun \/ HangInBatch \/ FallBack \/ Poisoned
  \/ EndBatch \/ Verify \/ VerifyInProcess \/ RetimingHangs \/ LoadFails
  \/ Finalize \/ KeepBest \/ FinalInProcess \/ FinalIsolated \/ FinalHangs
  \/ Rounds \/ RoundsInProcess \/ RoundsHang
  \/ FinishingRound \/ FinishingMeasured \/ Reverify \/ ReverifyInProcess
  \/ Judge \/ Combine \/ JudgeCombined
  \/ Select \/ Salvage \/ Teardown \/ TeardownHangs \/ Terminated

Spec == Init /\ [][Next]_vars

-----------------------------------------------------------------------------
\* Properties.

AtRest == pc \in {"search", "verify", "final", "salvage"}

\* The tables of effective sources and the search agree whenever no batch is
\* being benchmarked: a source has one verdict; no listed member or snapshot of
\* a rejected source competes; and every member that was run under a source
\* which some alias proved good has that alias's result, however many batches
\* ago its own run failed (_resolve_effective_source_failures, EndBatch).
SourcesAgree ==
  flash =>
    /\ invalid \cap measured = {}
    /\ \A s \in Sources : pending[s] # {} => s \notin measured \cup invalid
    /\ AtRest => \A c \in Configs :
         /\ SourceOf[c] \in invalid => c \notin LiveNow
         /\ SourceOf[c] \in measured /\ c \in pop =>
              member[c] \in {"live", "unbuilt"} \cup IF pc = "search" THEN {"new"} ELSE {}

\* The config that is returned was measured, its source was not rejected after
\* that, it was not found inaccurate and it is not the one that a worker was
\* running when it could not be killed (_finalize).  The finishing phase is
\* excepted: InaccurateIsOut is about it.
WinnerIsVouched ==
  \A c \in selected :
    /\ flash /\ pc = "teardown" => SourceOf[c] \in measured \ invalid
    /\ flash => SourceOf[c] \notin SourcesOf(inaccurate \cup unsafe)
    /\ ~finishing => c \notin inaccurate \cup hung

\* A config whose own output did not match the baseline is never returned
\* ("validate candidate configs against the baseline kernel output before
\* accepting them", settings.py).
InaccurateIsOut == selected \cap inaccurate = {}

Running == pc \in {"job", "parent"}

\* No batch of a flash search benchmarks a generated source that failed the
\* accuracy check or broke a worker, under any config, and once a worker has
\* survived SIGKILL no batch of any search benchmarks anything.  The retimings
\* of the final phases are not counted.
NeverRunAgain ==
  [][~Running /\ Running' =>
       /\ ~lingers
       /\ flash => Source \notin SourcesOf(inaccurate \cup unsafe)]_vars

\* However the search ends, a config it has selected is not lost to the
\* teardown, and the provider's directory and tables are gone unless a worker
\* that cannot be killed may still use them or setup itself failed.
TeardownKeepsItsWord ==
  Ended =>
    /\ pc = "done" <=> selected # {}
    /\ open => lingers \/ pop = {}
    /\ ~open => worker = "none" /\ measured \cup invalid = {} /\ claims = {}

\* The tables implement SourceVerdicts: a source measured is never demoted by a
\* failure to run, a rejected one never comes back, and what is selected has a
\* measured source.  Outside a flash search they stay empty.
Verdict(s) ==
  IF ~flash THEN "unknown"
  ELSE IF s \in invalid THEN "rejected"
  ELSE IF s \in measured THEN "measured"
  ELSE IF pending[s] # {} THEN "failing" ELSE "unknown"

Verdicts == INSTANCE SourceVerdicts WITH
  verdict <- [s \in Sources |-> Verdict(s)],
  chosen <- IF flash THEN SourcesOf(selected) ELSE {},
  closed <- flash /\ Ended /\ ~open
ImplementsVerdicts == Verdicts!Spec
=============================================================================
