------------------------- MODULE LocalSearchProofs -------------------------
(***************************************************************************)
(* Theorems about LocalSearch, for all configs, sources and bounds: the    *)
(* tables of effective sources agree with the search and implement         *)
(* SourceVerdicts, the config that is returned is vouched for, a rejected  *)
(* source is not run again, and the teardown keeps what was selected.      *)
(*                                                                         *)
(* The invariant is Inv: types; where in the search what may be set; what  *)
(* the batch at hand has yet to do to its members; and, for a flash        *)
(* search, how members and tables agree also inside a batch.               *)
(***************************************************************************)
EXTENDS LocalSearch, TLAPS

AtJob == pc \in {"job", "retry", "accuracy", "parent"}
InBatch == pc = "bench" \/ AtJob
Closing == pc = "teardown" \/ Ended

\* What the search can set where: phases follow stages, flash searches have no
\* finishing phase, and a config is selected only on the way out.
PhaseInv ==
  /\ flash => ~finishing
  /\ pc = "setup" => pop = {} /\ worker = "none"
  /\ pc \in {"setup", "search"} => stage = "search"
  /\ pc \in {"final", "finish", "judge", "salvage"} => stage # "search"
  /\ ~finishing /\ stage # "search" => pc \in {"final", "finish", "salvage"} \/ Closing
  /\ stage = "search" \/ pc = "final" => best = {}
  /\ stage # "search" /\ pc \notin {"final", "salvage"} /\ ~Closing =>
       \E c \in Configs : best = {c}
  /\ selected = {} \/ (Closing /\ \E c \in Configs : selected = {c})

\* A worker that survived SIGKILL ends the search; the config it was running is
\* not selected.
KillInv ==
  /\ lingers \/ unkillable # {} \/ hung # {} => pc = "salvage" \/ Closing
  /\ selected \cap unkillable = {}
  /\ ~finishing => hung \subseteq unkillable \/ (Closing /\ selected = {})

\* The provider is open from setup to the end of the teardown.
OpenInv ==
  /\ pc # "setup" /\ ~Ended => open
  /\ TeardownKeepsItsWord

\* The batch: what is still to be run has no result and was never run before;
\* between batches there are no results and no repairs.
BatchInv ==
  /\ AtJob => todo # <<>>
  /\ AtJob /\ flash => Source \notin invalid \cup measured
  /\ \A i, j \in DOMAIN todo : todo[i] = todo[j] => i = j
  /\ InBatch /\ stage = "search" => \A i \in DOMAIN todo :
       todo[i] \in pop /\ member[todo[i]] = "new" /\ got[todo[i]] = "unbuilt"
  /\ InBatch /\ stage = "search" => \A c \in Configs : got[c] # "none" => c \in pop
  /\ pc \in {"setup", "search", "verify", "final"} \/ (pc = "salvage" /\ ~finishing) =>
       \A c \in Configs : got[c] = "none"
  /\ ~Closing /\ ~InBatch => repairs = {}
  /\ ~flash => repairs = {} /\ pending = [s \in Sources |-> {}]

\* A config that is new was not run, and a member of the population that is new
\* is one of the batch.
NewInv ==
  \A c \in Configs : member[c] = "new" =>
    /\ history[c] = "new"
    /\ c \notin pop => c \notin repairs /\ (\A s \in Sources : c \notin pending[s])
    /\ c \notin pop /\ ~finishing => c \notin inaccurate
    /\ c \in pop /\ stage = "search" /\ ~Closing => InBatch /\ got[c] # "none"

\* Without a finishing phase an inaccurate config is out for good.
InaccurateInv ==
  ~finishing =>
    /\ best \cap inaccurate = {}
    /\ selected \cap inaccurate = {}
    /\ ~Closing => \A c \in inaccurate :
         /\ history[c] = "new" /\ c \notin In(todo)
         /\ Outcome(c) \in {"failed", "gone"}

\* A source has one verdict, and what broke is rejected.
TableInv ==
  /\ invalid \cap measured = {}
  /\ \A s \in Sources : pending[s] # {} => s \notin measured \cup invalid
  /\ \A s \in Sources : \A c \in pending[s] : SourceOf[c] = s
  /\ ~Ended => SourcesOf(inaccurate \cup unsafe) \subseteq invalid
  /\ selected # {} => SourcesOf(selected) \cap SourcesOf(inaccurate \cup unsafe) = {}

\* In a flash search whatever competes has a measured source.
MeasuredInv ==
  ~Ended => \A c \in Configs :
    /\ c \in repairs \/ history[c] = "live" \/ c \in best \cup selected =>
         SourceOf[c] \in measured
    /\ c \in pop /\ member[c] = "live" => SourceOf[c] \in measured
    /\ InBatch /\ got[c] = "live" => SourceOf[c] \in measured
    /\ history[c] # "lost"

\* In a flash search a member whose source is measured has its result once the
\* batch is over, since one that failed is pending until then.
MemberInv ==
  ~Closing => \A c \in pop :
    /\ Outcome(c) \in {"live", "unbuilt", "failed"}
    /\ SourceOf[c] \in measured => Outcome(c) # "failed"
    /\ Outcome(c) = "failed" =>
         SourceOf[c] \in invalid \/ c \in pending[SourceOf[c]]

SourceInv == flash => TableInv /\ MeasuredInv /\ MemberInv

\* A batch to be run is a sequence of its configs without repetition.
LEMMA OrdersAreSequences ==
  ASSUME NEW S \in SUBSET Configs, NEW o \in Orders(S)
  PROVE  /\ o \in Seq(Configs)
         /\ DOMAIN o = 1..Len(o)
         /\ \A i \in DOMAIN o : o[i] \in S
         /\ \A i, j \in DOMAIN o : o[i] = o[j] => i = j
  BY BoundsAssumption DEF Orders, In

\* While something is to be run there is a config at hand.
LEMMA HeadIsConfig ==
  ASSUME TypeOK, todo # <<>>
  PROVE  /\ Config \in Configs /\ Source \in Sources
         /\ Tail(todo) \in Seq(Configs)
  BY ConfigsAssumption DEF TypeOK, Config, Source

\* What is disqualified leaves tables and members in their types.
LEMMA DisqualifyTypes ==
  ASSUME TypeOK, NEW bad \in SUBSET Configs, Disqualify(bad)
  PROVE  /\ unsafe' \subseteq Configs
         /\ measured' \subseteq Sources /\ invalid' \subseteq Sources
         /\ pending' \in [Sources -> SUBSET Configs] /\ repairs' \subseteq Configs
         /\ seedSources' \subseteq Sources
         /\ member' \in [Configs -> States] /\ history' \in [Configs -> {"new", "live", "lost"}]
  BY ConfigsAssumption
  DEF TypeOK, States, Disqualify, Invalidate, Ban, SourcesOf, tables

\* Every step keeps the types.
LEMMA TypesKept == TypeOK /\ BatchInv /\ Next => TypeOK'
<1> SUFFICES ASSUME TypeOK, AtJob => todo # <<>> PROVE Next => TypeOK'
  BY DEF BatchInv
<1> USE ConfigsAssumption, BoundsAssumption DEF TypeOK, States, mode, tables, resources,
        batch, members, tail, notes
<1>1. Setup => TypeOK'
  BY DEF Setup
<1>2. Tick => TypeOK'
  BY DEF Tick
<1>3. StartGeneration => TypeOK'
  BY OrdersAreSequences DEF StartGeneration, CompileBatch, Batches, SourcesOf
<1>4. StopBenchmarking => TypeOK'
  BY DEF StopBenchmarking, AtBench
<1>5. Skip => TypeOK'
  BY HeadIsConfig DEF Skip, AtBench, Settle
<1>6. Launch => TypeOK'
  BY DEF Launch, AtBench
<1>7. Timed => TypeOK'
  BY DEF Timed
<1>8. Accept => TypeOK'
  BY HeadIsConfig DEF Accept, AtJob, Settle, Resolve
<1>9. Reject => TypeOK'
  BY HeadIsConfig DEF Reject, AtJob, Settle, Ban, InWorker
<1>10. Retry => TypeOK'
  BY HeadIsConfig DEF Retry, MayRetry, Claim, AtJob
<1>11. FailToRun => TypeOK'
  BY HeadIsConfig DEF FailToRun, InWorker, AtJob, Settle, Remember
<1>12. HangInBatch => TypeOK'
  <2> SUFFICES ASSUME HangInBatch PROVE TypeOK'
    OBVIOUS
  <2>1. hung' \subseteq Configs /\ worker' = "stuck" /\ lingers' = TRUE /\ pc' = Unwound
    BY HeadIsConfig DEF HangInBatch, InWorker, AtJob, Hangs
  <2> QED
    BY <2>1 DEF HangInBatch, Unwound
<1>13. FallBack => TypeOK'
  BY DEF FallBack, InWorker
<1>14. Poisoned => TypeOK'
  BY DEF Poisoned
<1>15. EndBatch => TypeOK'
  BY DEF EndBatch, Outcome
<1>16. Verify => TypeOK'
  BY DisqualifyTypes DEF Verify, Live
<1>17. VerifyInProcess => TypeOK'
  BY DEF VerifyInProcess
<1>18. RetimingHangs => TypeOK'
  BY DEF RetimingHangs, Hangs, Unwound, Retimed
<1>19. LoadFails => TypeOK'
  BY DEF LoadFails
<1>20. Finalize => TypeOK'
  BY DEF Finalize
<1>21. KeepBest => TypeOK'
  BY DEF KeepBest, Leads, LiveNow, Live, Finalists
<1>22. FinalInProcess => TypeOK'
  BY DEF FinalInProcess, Leads, InFinal, Contested, Finalists, LiveNow, Live
<1>23. FinalIsolated => TypeOK'
  BY DisqualifyTypes DEF FinalIsolated, Leads, InFinal, Contested, Finalists, LiveNow, Live
<1>24. FinalHangs => TypeOK'
  BY DEF FinalHangs, InFinal, Contested, Finalists, LiveNow, Live
<1>25. Rounds => TypeOK'
  BY DisqualifyTypes DEF Rounds, Leads, Contested, Finalists, LiveNow, Live
<1>26. RoundsInProcess => TypeOK'
  BY DEF RoundsInProcess, Leads, Contested, Finalists, LiveNow, Live
<1>27. RoundsHang => TypeOK'
  BY DEF RoundsHang, Contested, Finalists, LiveNow, Live
<1>28. FinishingRound => TypeOK'
  <2> SUFFICES ASSUME FinishingRound PROVE TypeOK'
    OBVIOUS
  <2>1. rounds' \in 0..MaxRounds /\ cand' \in [Configs -> States \ {"gone"}]
    BY DEF FinishingRound, RoundsLeft
  <2>2. PICK b \in Batches(Configs \ best) :
          \E reached \in SUBSET b : \E broken \in SUBSET reached :
            CompileBatch(b, reached, broken)
    BY DEF FinishingRound
  <2>3. todo' \in Seq(Configs)
    BY <2>2, OrdersAreSequences DEF CompileBatch, Batches
  <2>4. /\ got' \in [Configs -> {"none", "live", "unbuilt", "failed"}]
        /\ seedSources' \subseteq Sources /\ late' \in BOOLEAN /\ pc' \in {"bench", "teardown"}
    BY <2>2 DEF CompileBatch, Batches, SourcesOf
  <2>5. UNCHANGED <<mode, measured, invalid, pending, repairs, claims, succeeded, resources, open,
                    history, best, unkillable, selected, notes>>
    BY <2>2 DEF CompileBatch
  <2>6. stage' = "finish" /\ fit' = {} /\ UNCHANGED <<pop, member>>
    BY DEF FinishingRound
  <2> QED
    BY <2>1, <2>3, <2>4, <2>5, <2>6
<1>29. FinishingMeasured => TypeOK'
  BY DEF FinishingMeasured
<1>30. Reverify => TypeOK'
  BY DEF Reverify, Retimed
<1>31. ReverifyInProcess => TypeOK'
  BY DEF ReverifyInProcess, Retimed
<1>32. Judge => TypeOK'
  BY DEF Judge, Live
<1>33. Combine => TypeOK'
  BY OrdersAreSequences DEF Combine, CompileBatch, SourcesOf, Live
<1>34. JudgeCombined => TypeOK'
  BY DEF JudgeCombined, Live
<1>35. Select => TypeOK'
  BY DEF Select
<1>36. Salvage => TypeOK'
  BY DEF Salvage, Salvageable, Live
<1>37. Teardown => TypeOK'
  BY DEF Teardown, Exit
<1>38. TeardownHangs => TypeOK'
  BY DEF TeardownHangs, Exit
<1>39. Terminated => TypeOK'
  BY DEF Terminated, vars, Ended
<1> QED
  BY <1>1, <1>2, <1>3, <1>4, <1>5, <1>6, <1>7, <1>8, <1>9, <1>10, <1>11, <1>12, <1>13, <1>14,
     <1>15, <1>16, <1>17, <1>18, <1>19, <1>20, <1>21, <1>22, <1>23, <1>24, <1>25, <1>26, <1>27,
     <1>28, <1>29, <1>30, <1>31, <1>32, <1>33, <1>34, <1>35, <1>36, <1>37, <1>38, <1>39 DEF Next

\* Every step keeps the phases.
LEMMA PhaseKept == TypeOK /\ PhaseInv /\ Next => PhaseInv'
<1> SUFFICES ASSUME TypeOK, PhaseInv PROVE Next => PhaseInv'
  OBVIOUS
<1> USE DEF TypeOK, PhaseInv, Closing, Ended, mode, tables, resources, batch, members, tail, notes
<1>1. Setup => PhaseInv'
  BY DEF Setup
<1>2. Tick => PhaseInv'
  BY DEF Tick
<1>3. StartGeneration => PhaseInv'
  BY DEF StartGeneration, CompileBatch
<1>4. StopBenchmarking => PhaseInv'
  BY DEF StopBenchmarking, AtBench
<1>5. Skip => PhaseInv'
  BY DEF Skip, Settle, AtBench
<1>6. Launch => PhaseInv'
  BY DEF Launch, AtBench
<1>7. Timed => PhaseInv'
  BY DEF Timed
<1>8. Accept => PhaseInv'
  BY DEF Accept, Settle
<1>9. Reject => PhaseInv'
  BY DEF Reject, Settle
<1>10. Retry => PhaseInv'
  BY DEF Retry, MayRetry
<1>11. FailToRun => PhaseInv'
  BY DEF FailToRun, Settle, InWorker
<1>12. HangInBatch => PhaseInv'
  BY DEF HangInBatch, InWorker, Hangs, Unwound
<1>13. FallBack => PhaseInv'
  BY DEF FallBack, InWorker
<1>14. Poisoned => PhaseInv'
  BY DEF Poisoned
<1>15. EndBatch => PhaseInv'
  BY DEF EndBatch
<1>16. Verify => PhaseInv'
  BY DEF Verify
<1>17. VerifyInProcess => PhaseInv'
  BY DEF VerifyInProcess
<1>18. RetimingHangs => PhaseInv'
  BY DEF RetimingHangs, Hangs, Unwound
<1>19. LoadFails => PhaseInv'
  BY DEF LoadFails
<1>20. Finalize => PhaseInv'
  BY DEF Finalize
<1>21. KeepBest => PhaseInv'
  BY DEF KeepBest, Leads, Finalists, LiveNow, Live
<1>22. FinalInProcess => PhaseInv'
  BY DEF FinalInProcess, Leads, InFinal, Contested, Finalists, LiveNow, Live
<1>23. FinalIsolated => PhaseInv'
  BY DEF FinalIsolated, Leads, InFinal, Contested, Finalists, LiveNow, Live
<1>24. FinalHangs => PhaseInv'
  BY DEF FinalHangs, InFinal, Contested
<1>25. Rounds => PhaseInv'
  BY DEF Rounds, Leads, Contested, Finalists, LiveNow, Live
<1>26. RoundsInProcess => PhaseInv'
  BY DEF RoundsInProcess, Leads, Contested, Finalists, LiveNow, Live
<1>27. RoundsHang => PhaseInv'
  BY DEF RoundsHang, Contested
<1>28. FinishingRound => PhaseInv'
  BY DEF FinishingRound, CompileBatch
<1>29. FinishingMeasured => PhaseInv'
  BY DEF FinishingMeasured
<1>30. Reverify => PhaseInv'
  BY DEF Reverify
<1>31. ReverifyInProcess => PhaseInv'
  BY DEF ReverifyInProcess
<1>32. Judge => PhaseInv'
  BY DEF Judge, Live
<1>33. Combine => PhaseInv'
  BY DEF Combine, CompileBatch
<1>34. JudgeCombined => PhaseInv'
  BY DEF JudgeCombined, Live
<1>35. Select => PhaseInv'
  BY DEF Select
<1>36. Salvage => PhaseInv'
  BY DEF Salvage, Salvageable, Live
<1>37. Teardown => PhaseInv'
  BY DEF Teardown, Exit
<1>38. TeardownHangs => PhaseInv'
  BY DEF TeardownHangs, Exit
<1>39. Terminated => PhaseInv'
  BY DEF Terminated, vars, Ended
<1> QED
  BY <1>1, <1>2, <1>3, <1>4, <1>5, <1>6, <1>7, <1>8, <1>9, <1>10, <1>11, <1>12, <1>13, <1>14,
     <1>15, <1>16, <1>17, <1>18, <1>19, <1>20, <1>21, <1>22, <1>23, <1>24, <1>25, <1>26, <1>27,
     <1>28, <1>29, <1>30, <1>31, <1>32, <1>33, <1>34, <1>35, <1>36, <1>37, <1>38, <1>39 DEF Next

\* Every step keeps what a worker that survives SIGKILL leaves.
LEMMA KillKept == TypeOK /\ PhaseInv /\ KillInv /\ Next => KillInv'
<1> SUFFICES ASSUME TypeOK, PhaseInv, KillInv PROVE Next => KillInv'
  OBVIOUS
<1> USE DEF TypeOK, PhaseInv, Closing, Ended, mode, tables, resources, batch, members, tail,
        notes, KillInv
<1>1. Setup => KillInv'
  BY DEF Setup
<1>2. Tick => KillInv'
  BY DEF Tick
<1>3. StartGeneration => KillInv'
  BY DEF StartGeneration, CompileBatch
<1>4. StopBenchmarking => KillInv'
  BY DEF StopBenchmarking, AtBench
<1>5. Skip => KillInv'
  BY DEF Skip, Settle, AtBench
<1>6. Launch => KillInv'
  BY DEF Launch, AtBench
<1>7. Timed => KillInv'
  BY DEF Timed
<1>8. Accept => KillInv'
  BY DEF Accept, Settle
<1>9. Reject => KillInv'
  BY DEF Reject, Settle
<1>10. Retry => KillInv'
  BY DEF Retry, MayRetry
<1>11. FailToRun => KillInv'
  BY DEF FailToRun, Settle, InWorker
<1>12. HangInBatch => KillInv'
  BY DEF HangInBatch, InWorker, Hangs, Unwound
<1>13. FallBack => KillInv'
  BY DEF FallBack, InWorker
<1>14. Poisoned => KillInv'
  BY DEF Poisoned
<1>15. EndBatch => KillInv'
  BY DEF EndBatch
<1>16. Verify => KillInv'
  BY DEF Verify
<1>17. VerifyInProcess => KillInv'
  BY DEF VerifyInProcess
<1>18. RetimingHangs => KillInv'
  BY DEF RetimingHangs, Hangs, Unwound
<1>19. LoadFails => KillInv'
  BY DEF LoadFails
<1>20. Finalize => KillInv'
  BY DEF Finalize
<1>21. KeepBest => KillInv'
  BY DEF KeepBest, Leads, Finalists, LiveNow, Live
<1>22. FinalInProcess => KillInv'
  BY DEF FinalInProcess, Leads, InFinal, Contested, Finalists, LiveNow, Live
<1>23. FinalIsolated => KillInv'
  BY DEF FinalIsolated, Leads, InFinal, Contested, Finalists, LiveNow, Live
<1>24. FinalHangs => KillInv'
  BY DEF FinalHangs, InFinal, Contested
<1>25. Rounds => KillInv'
  BY DEF Rounds, Leads, Contested, Finalists, LiveNow, Live
<1>26. RoundsInProcess => KillInv'
  BY DEF RoundsInProcess, Leads, Contested, Finalists, LiveNow, Live
<1>27. RoundsHang => KillInv'
  BY DEF RoundsHang, Contested
<1>28. FinishingRound => KillInv'
  BY DEF FinishingRound, CompileBatch
<1>29. FinishingMeasured => KillInv'
  BY DEF FinishingMeasured
<1>30. Reverify => KillInv'
  BY DEF Reverify
<1>31. ReverifyInProcess => KillInv'
  BY DEF ReverifyInProcess
<1>32. Judge => KillInv'
  BY DEF Judge, Live
<1>33. Combine => KillInv'
  BY DEF Combine, CompileBatch
<1>34. JudgeCombined => KillInv'
  BY DEF JudgeCombined, Live
<1>35. Select => KillInv'
  BY DEF Select
<1>36. Salvage => KillInv'
  BY DEF Salvage, Salvageable, Live
<1>37. Teardown => KillInv'
  BY DEF Teardown, Exit
<1>38. TeardownHangs => KillInv'
  BY DEF TeardownHangs, Exit
<1>39. Terminated => KillInv'
  BY DEF Terminated, vars, Ended
<1> QED
  BY <1>1, <1>2, <1>3, <1>4, <1>5, <1>6, <1>7, <1>8, <1>9, <1>10, <1>11, <1>12, <1>13, <1>14,
     <1>15, <1>16, <1>17, <1>18, <1>19, <1>20, <1>21, <1>22, <1>23, <1>24, <1>25, <1>26, <1>27,
     <1>28, <1>29, <1>30, <1>31, <1>32, <1>33, <1>34, <1>35, <1>36, <1>37, <1>38, <1>39 DEF Next

\* Every step keeps the provider's resources and the teardown's promise.
LEMMA OpenKept == TypeOK /\ PhaseInv /\ KillInv /\ OpenInv /\ Next => OpenInv'
<1> SUFFICES ASSUME TypeOK, PhaseInv, KillInv, OpenInv PROVE Next => OpenInv'
  OBVIOUS
<1> USE DEF TypeOK, PhaseInv, Closing, Ended, mode, tables, resources, batch, members, tail,
        notes, KillInv, OpenInv, TeardownKeepsItsWord
<1>1. Setup => OpenInv'
  BY DEF Setup
<1>2. Tick => OpenInv'
  BY DEF Tick
<1>3. StartGeneration => OpenInv'
  BY DEF StartGeneration, CompileBatch
<1>4. StopBenchmarking => OpenInv'
  BY DEF StopBenchmarking, AtBench
<1>5. Skip => OpenInv'
  BY DEF Skip, Settle, AtBench
<1>6. Launch => OpenInv'
  BY DEF Launch, AtBench
<1>7. Timed => OpenInv'
  BY DEF Timed
<1>8. Accept => OpenInv'
  BY DEF Accept, Settle
<1>9. Reject => OpenInv'
  BY DEF Reject, Settle
<1>10. Retry => OpenInv'
  BY DEF Retry, MayRetry
<1>11. FailToRun => OpenInv'
  BY DEF FailToRun, Settle, InWorker
<1>12. HangInBatch => OpenInv'
  BY DEF HangInBatch, InWorker, Hangs, Unwound
<1>13. FallBack => OpenInv'
  BY DEF FallBack, InWorker
<1>14. Poisoned => OpenInv'
  BY DEF Poisoned
<1>15. EndBatch => OpenInv'
  BY DEF EndBatch
<1>16. Verify => OpenInv'
  BY DEF Verify
<1>17. VerifyInProcess => OpenInv'
  BY DEF VerifyInProcess
<1>18. RetimingHangs => OpenInv'
  BY DEF RetimingHangs, Hangs, Unwound
<1>19. LoadFails => OpenInv'
  BY DEF LoadFails
<1>20. Finalize => OpenInv'
  BY DEF Finalize
<1>21. KeepBest => OpenInv'
  BY DEF KeepBest, Leads, Finalists, LiveNow, Live
<1>22. FinalInProcess => OpenInv'
  BY DEF FinalInProcess, Leads, InFinal, Contested, Finalists, LiveNow, Live
<1>23. FinalIsolated => OpenInv'
  BY DEF FinalIsolated, Leads, InFinal, Contested, Finalists, LiveNow, Live
<1>24. FinalHangs => OpenInv'
  BY DEF FinalHangs, InFinal, Contested
<1>25. Rounds => OpenInv'
  BY DEF Rounds, Leads, Contested, Finalists, LiveNow, Live
<1>26. RoundsInProcess => OpenInv'
  BY DEF RoundsInProcess, Leads, Contested, Finalists, LiveNow, Live
<1>27. RoundsHang => OpenInv'
  BY DEF RoundsHang, Contested
<1>28. FinishingRound => OpenInv'
  BY DEF FinishingRound, CompileBatch
<1>29. FinishingMeasured => OpenInv'
  BY DEF FinishingMeasured
<1>30. Reverify => OpenInv'
  BY DEF Reverify
<1>31. ReverifyInProcess => OpenInv'
  BY DEF ReverifyInProcess
<1>32. Judge => OpenInv'
  BY DEF Judge, Live
<1>33. Combine => OpenInv'
  BY DEF Combine, CompileBatch
<1>34. JudgeCombined => OpenInv'
  BY DEF JudgeCombined, Live
<1>35. Select => OpenInv'
  BY DEF Select
<1>36. Salvage => OpenInv'
  BY DEF Salvage, Salvageable, Live
<1>37. Teardown => OpenInv'
  BY DEF Teardown, Exit
<1>38. TeardownHangs => OpenInv'
  BY DEF TeardownHangs, Exit
<1>39. Terminated => OpenInv'
  BY DEF Terminated, vars, Ended
<1> QED
  BY <1>1, <1>2, <1>3, <1>4, <1>5, <1>6, <1>7, <1>8, <1>9, <1>10, <1>11, <1>12, <1>13, <1>14,
     <1>15, <1>16, <1>17, <1>18, <1>19, <1>20, <1>21, <1>22, <1>23, <1>24, <1>25, <1>26, <1>27,
     <1>28, <1>29, <1>30, <1>31, <1>32, <1>33, <1>34, <1>35, <1>36, <1>37, <1>38, <1>39 DEF Next

\* The config at hand is the first one to be run and does not come back.
LEMMA RestOfBatch ==
  ASSUME TypeOK, todo # <<>>, \A i, j \in DOMAIN todo : todo[i] = todo[j] => i = j
  PROVE  /\ 1 \in DOMAIN todo /\ Config = todo[1]
         /\ \A i \in DOMAIN Tail(todo) :
              i + 1 \in DOMAIN todo /\ Tail(todo)[i] = todo[i + 1] /\ Tail(todo)[i] # Config
         /\ \A i, j \in DOMAIN Tail(todo) : Tail(todo)[i] = Tail(todo)[j] => i = j
<1>1. DOMAIN todo = 1..Len(todo) /\ Len(todo) \in Nat \ {0} /\ Config = todo[1]
  BY DEF TypeOK, Config
<1>2. /\ DOMAIN Tail(todo) = 1..(Len(todo) - 1)
      /\ \A i \in 1..(Len(todo) - 1) : Tail(todo)[i] = todo[i + 1]
  BY <1>1 DEF TypeOK
<1> QED
  BY <1>1, <1>2

\* Every step keeps the bookkeeping of the batch.
LEMMA BatchKept == TypeOK /\ PhaseInv /\ BatchInv /\ NewInv /\ Next => BatchInv'
<1> SUFFICES ASSUME TypeOK, PhaseInv, BatchInv, NewInv PROVE Next => BatchInv'
  OBVIOUS
<1> USE DEF TypeOK, PhaseInv, BatchInv, NewInv, InBatch, AtJob, Closing, Ended, mode, tables,
        resources, batch, members, tail, notes
<1>1. Setup => BatchInv'
  BY DEF Setup
<1>2. Tick => BatchInv'
  BY DEF Tick, Config, Source
<1>3. StartGeneration => BatchInv'
  BY OrdersAreSequences DEF StartGeneration, CompileBatch, Batches
<1>4. StopBenchmarking => BatchInv'
  BY DEF StopBenchmarking, AtBench
<1>5. Skip => BatchInv'
  BY RestOfBatch DEF Skip, Settle, AtBench
<1>6. Launch => BatchInv'
  BY DEF Launch, AtBench, Config, Source
<1>7. Timed => BatchInv'
  BY DEF Timed, Config, Source
<1>8. Accept => BatchInv'
  BY RestOfBatch DEF Accept, Settle, Resolve, Source
<1>9. Reject => BatchInv'
  BY RestOfBatch DEF Reject, Settle, Ban, Source
<1>10. Retry => BatchInv'
  BY DEF Retry, MayRetry, Config, Source
<1>11. FailToRun => BatchInv'
  BY RestOfBatch DEF FailToRun, Settle, InWorker, Remember, Source
<1>12. HangInBatch => BatchInv'
  BY DEF HangInBatch, InWorker, Hangs, Unwound, Config, Source
<1>13. FallBack => BatchInv'
  BY DEF FallBack, InWorker, Config, Source
<1>14. Poisoned => BatchInv'
  BY DEF Poisoned, Config, Source
<1>15. EndBatch => BatchInv'
  BY DEF EndBatch
<1>16. Verify => BatchInv'
  BY DEF Verify, Disqualify, Invalidate, Ban
<1>17. VerifyInProcess => BatchInv'
  BY DEF VerifyInProcess
<1>18. RetimingHangs => BatchInv'
  BY DEF RetimingHangs, Hangs, Unwound
<1>19. LoadFails => BatchInv'
  BY DEF LoadFails
<1>20. Finalize => BatchInv'
  BY DEF Finalize
<1>21. KeepBest => BatchInv'
  BY DEF KeepBest, Leads
<1>22. FinalInProcess => BatchInv'
  BY DEF FinalInProcess, Leads, InFinal, Contested
<1>23. FinalIsolated => BatchInv'
  BY DEF FinalIsolated, Leads, InFinal, Contested, Disqualify, Invalidate, Ban
<1>24. FinalHangs => BatchInv'
  BY DEF FinalHangs, InFinal, Contested
<1>25. Rounds => BatchInv'
  BY DEF Rounds, Leads, Contested, Disqualify, Invalidate, Ban
<1>26. RoundsInProcess => BatchInv'
  BY DEF RoundsInProcess, Leads, Contested
<1>27. RoundsHang => BatchInv'
  BY DEF RoundsHang, Contested
<1>28. FinishingRound => BatchInv'
  BY OrdersAreSequences DEF FinishingRound, CompileBatch, Batches
<1>29. FinishingMeasured => BatchInv'
  BY DEF FinishingMeasured
<1>30. Reverify => BatchInv'
  BY DEF Reverify
<1>31. ReverifyInProcess => BatchInv'
  BY DEF ReverifyInProcess
<1>32. Judge => BatchInv'
  BY DEF Judge
<1>33. Combine => BatchInv'
  <2> SUFFICES ASSUME Combine PROVE BatchInv'
    OBVIOUS
  <2>1. PICK c \in Configs \ best : \E reached \in SUBSET {c} : \E broken \in SUBSET reached :
          CompileBatch({c}, reached, broken)
    BY DEF Combine
  <2>2. PICK reached \in SUBSET {c} : \E broken \in SUBSET reached :
          CompileBatch({c}, reached, broken)
    BY <2>1
  <2>3. \A i, j \in DOMAIN todo' : todo'[i] = todo'[j] => i = j
    BY <2>2, OrdersAreSequences DEF CompileBatch
  <2>4. pc' \in {"bench", "teardown"} /\ UNCHANGED <<flash, repairs, pending>>
    BY <2>2 DEF CompileBatch
  <2>5. stage' = "combined"
    BY DEF Combine
  <2> QED
    BY <2>3, <2>4, <2>5
<1>34. JudgeCombined => BatchInv'
  BY DEF JudgeCombined
<1>35. Select => BatchInv'
  BY DEF Select
<1>36. Salvage => BatchInv'
  BY DEF Salvage, Salvageable
<1>37. Teardown => BatchInv'
  BY DEF Teardown, Exit
<1>38. TeardownHangs => BatchInv'
  BY DEF TeardownHangs, Exit
<1>39. Terminated => BatchInv'
  BY DEF Terminated, vars, Ended
<1> QED
  BY <1>1, <1>2, <1>3, <1>4, <1>5, <1>6, <1>7, <1>8, <1>9, <1>10, <1>11, <1>12, <1>13, <1>14,
     <1>15, <1>16, <1>17, <1>18, <1>19, <1>20, <1>21, <1>22, <1>23, <1>24, <1>25, <1>26, <1>27,
     <1>28, <1>29, <1>30, <1>31, <1>32, <1>33, <1>34, <1>35, <1>36, <1>37, <1>38, <1>39 DEF Next

\* Every step keeps what is said of configs that are new.
LEMMA NewKept == TypeOK /\ PhaseInv /\ BatchInv /\ NewInv /\ Next => NewInv'
<1> SUFFICES ASSUME TypeOK, PhaseInv, BatchInv, NewInv PROVE Next => NewInv'
  OBVIOUS
<1> USE DEF TypeOK, PhaseInv, BatchInv, NewInv, InBatch, AtJob, Closing, Ended, mode, tables,
        resources, batch, members, tail, notes
<1>1. Setup => NewInv'
  BY DEF Setup
<1>2. Tick => NewInv'
  BY DEF Tick, Config, Source
<1>3. StartGeneration => NewInv'
  BY DEF StartGeneration, CompileBatch, Batches
<1>4. StopBenchmarking => NewInv'
  BY DEF StopBenchmarking, AtBench
<1>5. Skip => NewInv'
  BY RestOfBatch DEF Skip, Settle, AtBench
<1>6. Launch => NewInv'
  BY DEF Launch, AtBench, Config, Source
<1>7. Timed => NewInv'
  BY DEF Timed, Config, Source
<1>8. Accept => NewInv'
  <2> SUFFICES ASSUME Accept PROVE NewInv'
    OBVIOUS
  <2>1. /\ todo # <<>> /\ pc' = "bench" /\ got' = [got EXCEPT ![Config] = "live"]
        /\ UNCHANGED <<history, member, pop, finishing, stage, inaccurate>>
    BY DEF Accept, Settle
  <2>2. Config \in Configs /\ Source \in Sources
    BY <2>1, HeadIsConfig
  <2>3. /\ repairs' \subseteq repairs \cup pending[Source]
        /\ \A s \in Sources : pending'[s] \subseteq pending[s]
    BY <2>2 DEF Accept, Resolve
  <2>4. ~Closing /\ got \in [Configs -> {"none", "live", "unbuilt", "failed"}]
    BY DEF Accept
  <2>5. ASSUME NEW c \in Configs, member[c] = "new"
        PROVE  /\ history[c] = "new"
               /\ c \notin pop => c \notin repairs /\ (\A s \in Sources : c \notin pending[s])
               /\ c \notin pop /\ ~finishing => c \notin inaccurate
               /\ c \in pop /\ stage = "search" => got[c] # "none"
    BY <2>4, <2>5
  <2> HIDE DEF TypeOK, PhaseInv, BatchInv, NewInv
  <2> QED
    BY <2>1, <2>2, <2>3, <2>4, <2>5 DEF NewInv
<1>9. Reject => NewInv'
  BY RestOfBatch DEF Reject, Settle, Ban, Source
<1>10. Retry => NewInv'
  BY DEF Retry, MayRetry, Config, Source
<1>11. FailToRun => NewInv'
  BY RestOfBatch DEF FailToRun, Settle, InWorker, Remember, Source
<1>12. HangInBatch => NewInv'
  BY DEF HangInBatch, InWorker, Hangs, Unwound, Config, Source
<1>13. FallBack => NewInv'
  BY DEF FallBack, InWorker, Config, Source
<1>14. Poisoned => NewInv'
  BY DEF Poisoned, Config, Source
<1>15. EndBatch => NewInv'
  BY DEF EndBatch, Outcome
<1>16. Verify => NewInv'
  BY DEF Verify, Disqualify, Invalidate, Ban
<1>17. VerifyInProcess => NewInv'
  BY DEF VerifyInProcess
<1>18. RetimingHangs => NewInv'
  BY DEF RetimingHangs, Hangs, Unwound
<1>19. LoadFails => NewInv'
  BY DEF LoadFails
<1>20. Finalize => NewInv'
  BY DEF Finalize
<1>21. KeepBest => NewInv'
  BY DEF KeepBest, Leads
<1>22. FinalInProcess => NewInv'
  BY DEF FinalInProcess, Leads, InFinal, Contested
<1>23. FinalIsolated => NewInv'
  BY DEF FinalIsolated, Leads, InFinal, Contested, Disqualify, Invalidate, Ban
<1>24. FinalHangs => NewInv'
  BY DEF FinalHangs, InFinal, Contested
<1>25. Rounds => NewInv'
  BY DEF Rounds, Leads, Contested, Disqualify, Invalidate, Ban
<1>26. RoundsInProcess => NewInv'
  BY DEF RoundsInProcess, Leads, Contested
<1>27. RoundsHang => NewInv'
  BY DEF RoundsHang, Contested
<1>28. FinishingRound => NewInv'
  BY DEF FinishingRound, CompileBatch, Batches
<1>29. FinishingMeasured => NewInv'
  BY DEF FinishingMeasured
<1>30. Reverify => NewInv'
  BY DEF Reverify
<1>31. ReverifyInProcess => NewInv'
  BY DEF ReverifyInProcess
<1>32. Judge => NewInv'
  BY DEF Judge
<1>33. Combine => NewInv'
  BY DEF Combine, CompileBatch
<1>34. JudgeCombined => NewInv'
  BY DEF JudgeCombined
<1>35. Select => NewInv'
  BY DEF Select
<1>36. Salvage => NewInv'
  BY DEF Salvage, Salvageable
<1>37. Teardown => NewInv'
  BY DEF Teardown, Exit
<1>38. TeardownHangs => NewInv'
  BY DEF TeardownHangs, Exit
<1>39. Terminated => NewInv'
  BY DEF Terminated, vars, Ended
<1> QED
  BY <1>1, <1>2, <1>3, <1>4, <1>5, <1>6, <1>7, <1>8, <1>9, <1>10, <1>11, <1>12, <1>13, <1>14,
     <1>15, <1>16, <1>17, <1>18, <1>19, <1>20, <1>21, <1>22, <1>23, <1>24, <1>25, <1>26, <1>27,
     <1>28, <1>29, <1>30, <1>31, <1>32, <1>33, <1>34, <1>35, <1>36, <1>37, <1>38, <1>39 DEF Next

\* Every step keeps inaccurate configs out.
LEMMA InaccurateKept ==
  TypeOK /\ PhaseInv /\ BatchInv /\ NewInv /\ InaccurateInv /\ SourceInv /\ Next => InaccurateInv'
<1> SUFFICES ASSUME TypeOK, PhaseInv, BatchInv, NewInv, InaccurateInv, SourceInv
             PROVE  Next => InaccurateInv'
  OBVIOUS
<1> USE DEF TypeOK, PhaseInv, BatchInv, NewInv, InaccurateInv, InBatch, AtJob, Closing, Ended,
        mode, tables, resources, batch, members, tail, notes, In, Outcome
<1>1. Setup => InaccurateInv'
  BY DEF Setup
<1>2. Tick => InaccurateInv'
  BY DEF Tick, Config, Source
<1>3. StartGeneration => InaccurateInv'
  BY OrdersAreSequences DEF StartGeneration, CompileBatch, Batches
<1>4. StopBenchmarking => InaccurateInv'
  BY DEF StopBenchmarking, AtBench
<1>5. Skip => InaccurateInv'
  BY RestOfBatch, HeadIsConfig DEF Skip, Settle, AtBench, SourceInv, TableInv, MeasuredInv,
     SourcesOf
<1>6. Launch => InaccurateInv'
  BY DEF Launch, AtBench, Config, Source
<1>7. Timed => InaccurateInv'
  BY DEF Timed, Config, Source
<1>8. Accept => InaccurateInv'
  <2> SUFFICES ASSUME Accept, ~finishing, ~Closing, NEW c \in inaccurate
               PROVE  /\ history'[c] = "new" /\ c \notin In(todo')
                      /\ Outcome(c)' \in {"failed", "gone"}
    BY DEF Accept, Settle
  <2>1. c \in Configs /\ todo # <<>> /\ AtJob
    BY DEF Accept
  <2>2. c \notin In(todo) /\ c \notin repairs /\ Outcome(c) \in {"failed", "gone"}
    BY DEF Outcome
  <2>3. c # Config /\ c \notin In(Tail(todo))
    BY <2>1, <2>2, RestOfBatch
  <2>4. c \notin repairs'
    <3>1. CASE flash
      <4>1. SourceOf[c] \in invalid /\ Source \notin invalid
        BY <2>1, <3>1 DEF SourceInv, TableInv, SourcesOf, Ended
      <4>2. c \notin pending[Source]
        BY <2>1, <3>1, <4>1, HeadIsConfig DEF SourceInv, TableInv
      <4> QED
        BY <2>2, <3>1, <4>2 DEF Accept, Resolve
    <3>2. CASE ~flash
      BY <2>2, <3>2 DEF Accept
    <3> QED
      BY <3>1, <3>2
  <2>5. got'[c] = got[c] /\ UNCHANGED <<history, member>> /\ todo' = Tail(todo)
    BY <2>1, <2>3 DEF Accept, Settle
  <2> QED
    BY <2>1, <2>2, <2>3, <2>4, <2>5
<1>9. Reject => InaccurateInv'
  BY RestOfBatch, HeadIsConfig DEF Reject, Settle, Ban, Source, SourceInv, TableInv, MeasuredInv,
     SourcesOf
<1>10. Retry => InaccurateInv'
  BY DEF Retry, MayRetry, Config, Source
<1>11. FailToRun => InaccurateInv'
  BY RestOfBatch, HeadIsConfig DEF FailToRun, Settle, InWorker, Remember, Source
<1>12. HangInBatch => InaccurateInv'
  BY DEF HangInBatch, InWorker, Hangs, Unwound, Config, Source
<1>13. FallBack => InaccurateInv'
  BY DEF FallBack, InWorker, Config, Source
<1>14. Poisoned => InaccurateInv'
  BY DEF Poisoned, Config, Source
<1>15. EndBatch => InaccurateInv'
  BY DEF EndBatch
<1>16. Verify => InaccurateInv'
  BY DEF Verify, Disqualify, Invalidate, Ban, Live
<1>17. VerifyInProcess => InaccurateInv'
  BY DEF VerifyInProcess
<1>18. RetimingHangs => InaccurateInv'
  BY DEF RetimingHangs, Hangs, Unwound
<1>19. LoadFails => InaccurateInv'
  BY DEF LoadFails
<1>20. Finalize => InaccurateInv'
  BY DEF Finalize
<1>21. KeepBest => InaccurateInv'
  BY DEF KeepBest, Leads, Finalists, LiveNow, Live
<1>22. FinalInProcess => InaccurateInv'
  BY DEF FinalInProcess, Leads, InFinal, Contested, Finalists, LiveNow, Live
<1>23. FinalIsolated => InaccurateInv'
  BY DEF FinalIsolated, Leads, InFinal, Contested, Disqualify, Invalidate, Ban, Finalists,
     LiveNow, Live
<1>24. FinalHangs => InaccurateInv'
  BY DEF FinalHangs, InFinal, Contested
<1>25. Rounds => InaccurateInv'
  BY DEF Rounds, Leads, Contested, Disqualify, Invalidate, Ban, Finalists, LiveNow, Live
<1>26. RoundsInProcess => InaccurateInv'
  BY DEF RoundsInProcess, Leads, Contested, Finalists, LiveNow, Live
<1>27. RoundsHang => InaccurateInv'
  BY DEF RoundsHang, Contested
<1>28. FinishingRound => InaccurateInv'
  BY DEF FinishingRound, CompileBatch, Batches
<1>29. FinishingMeasured => InaccurateInv'
  BY DEF FinishingMeasured
<1>30. Reverify => InaccurateInv'
  BY DEF Reverify
<1>31. ReverifyInProcess => InaccurateInv'
  BY DEF ReverifyInProcess
<1>32. Judge => InaccurateInv'
  BY DEF Judge
<1>33. Combine => InaccurateInv'
  BY DEF Combine, CompileBatch
<1>34. JudgeCombined => InaccurateInv'
  BY DEF JudgeCombined
<1>35. Select => InaccurateInv'
  BY DEF Select, Finalists, LiveNow, Live
<1>36. Salvage => InaccurateInv'
  BY DEF Salvage, Salvageable, Finalists, LiveNow, Live
<1>37. Teardown => InaccurateInv'
  BY DEF Teardown, Exit
<1>38. TeardownHangs => InaccurateInv'
  BY DEF TeardownHangs, Exit
<1>39. Terminated => InaccurateInv'
  BY DEF Terminated, vars, Ended
<1> QED
  BY <1>1, <1>2, <1>3, <1>4, <1>5, <1>6, <1>7, <1>8, <1>9, <1>10, <1>11, <1>12, <1>13, <1>14,
     <1>15, <1>16, <1>17, <1>18, <1>19, <1>20, <1>21, <1>22, <1>23, <1>24, <1>25, <1>26, <1>27,
     <1>28, <1>29, <1>30, <1>31, <1>32, <1>33, <1>34, <1>35, <1>36, <1>37, <1>38, <1>39 DEF Next

\* What is disqualified in a flash search leaves tables that agree.
LEMMA DisqualifiedTables ==
  ASSUME TypeOK, flash, TableInv, ~Ended, NEW bad \in SUBSET Configs, Disqualify(bad),
         UNCHANGED inaccurate
  PROVE  /\ measured' = measured \ SourcesOf(bad)
         /\ invalid' \cap measured' = {}
         /\ \A s \in Sources : pending'[s] # {} => s \notin measured' \cup invalid'
         /\ \A s \in Sources : pending'[s] \subseteq pending[s]
         /\ SourcesOf(inaccurate' \cup unsafe') \subseteq invalid'
         /\ invalid \subseteq invalid'
<1>1. /\ invalid' = invalid \cup SourcesOf(bad) /\ measured' = measured \ SourcesOf(bad)
      /\ pending' = [s \in Sources |-> IF s \in SourcesOf(bad) THEN {} ELSE pending[s]]
      /\ unsafe' = unsafe \cup bad
  BY DEF Disqualify, Invalidate, Ban
<1>2. SourcesOf(inaccurate' \cup unsafe')
        \subseteq SourcesOf(inaccurate \cup unsafe) \cup SourcesOf(bad)
  BY <1>1 DEF SourcesOf
<1> QED
  BY <1>1, <1>2 DEF TableInv

\* A member of a source that is disqualified becomes "failed", if it was built;
\* the others keep their state.
LEMMA DisqualifiedMembers ==
  ASSUME TypeOK, flash, SourceInv, BatchInv, NewInv, PhaseInv, ~Closing,
         pc \in {"verify", "final"}, NEW bad \in SUBSET Configs, Disqualify(bad),
         UNCHANGED <<flash, pop, got, inaccurate>>, ~InBatch'
  PROVE  /\ \A c \in Configs : history'[c] = "live" => SourceOf[c] \in measured'
         /\ \A c \in Configs : history'[c] # "lost"
         /\ \A c \in pop : member'[c] = "live" => SourceOf[c] \in measured'
         /\ repairs' = {}
         /\ MemberInv'
<1>1. /\ measured' = measured \ SourcesOf(bad) /\ invalid' = invalid \cup SourcesOf(bad)
      /\ pending' = [s \in Sources |-> IF s \in SourcesOf(bad) THEN {} ELSE pending[s]]
      /\ member' = [c \in Configs |->
           IF c \in pop /\ member[c] # "unbuilt" /\ SourceOf[c] \in SourcesOf(bad)
           THEN "failed" ELSE member[c]]
      /\ history' = [c \in Configs |-> IF SourceOf[c] \in SourcesOf(bad) THEN "new" ELSE history[c]]
  BY DEF Disqualify, Invalidate, Ban
<1>2. repairs = {} /\ \A c \in Configs : got[c] = "none"
  BY DEF BatchInv, PhaseInv, InBatch, AtJob, Closing, Ended
<1>3. repairs' = {}
  BY <1>2 DEF Disqualify, Invalidate
<1>4. \A c \in Configs : Outcome(c) = member[c] /\ Outcome(c)' = member'[c]
  BY <1>2, <1>3 DEF Outcome
<1>5. /\ \A c \in Configs : history[c] = "live" => SourceOf[c] \in measured
      /\ \A c \in Configs : history[c] # "lost"
      /\ \A c \in pop : member[c] = "live" => SourceOf[c] \in measured
  BY DEF SourceInv, MeasuredInv, Closing, TypeOK
<1>6. \A c \in pop :
        /\ member[c] \in {"live", "unbuilt", "failed"}
        /\ SourceOf[c] \in measured => member[c] # "failed"
        /\ member[c] = "failed" => SourceOf[c] \in invalid \/ c \in pending[SourceOf[c]]
  BY <1>4 DEF SourceInv, MemberInv, TypeOK
<1>7. \A c \in pop : c \in Configs /\ SourceOf[c] \in Sources
  BY ConfigsAssumption DEF TypeOK
<1>8. /\ \A c \in Configs : history'[c] = "live" => SourceOf[c] \in measured'
      /\ \A c \in Configs : history'[c] # "lost"
      /\ \A c \in pop : member'[c] = "live" => SourceOf[c] \in measured'
  BY <1>1, <1>5, <1>6, <1>7
<1>9. \A c \in pop :
        /\ member'[c] \in {"live", "unbuilt", "failed"}
        /\ SourceOf[c] \in measured' => member'[c] # "failed"
        /\ member'[c] = "failed" => SourceOf[c] \in invalid' \/ c \in pending'[SourceOf[c]]
  BY <1>1, <1>6, <1>7
<1> QED
  BY <1>3, <1>4, <1>7, <1>8, <1>9 DEF MemberInv

\* In a flash search every step keeps the tables in agreement with one another.
LEMMA TablesKept ==
  TypeOK /\ flash /\ PhaseInv /\ BatchInv /\ NewInv /\ SourceInv /\ Next => TableInv'
<1> SUFFICES ASSUME TypeOK, flash, PhaseInv, BatchInv, NewInv, SourceInv PROVE Next => TableInv'
  OBVIOUS
<1> USE DEF TypeOK, PhaseInv, BatchInv, NewInv, SourceInv, TableInv, MeasuredInv, MemberInv,
        InBatch, AtJob, Closing, Ended, mode, tables, resources, batch, members, tail, notes
<1>1. Setup => TableInv'
  BY DEF Setup
<1>2. Tick => TableInv'
  BY DEF Tick, Config, Source
<1>3. StartGeneration => TableInv'
  BY ZenonT(40) DEF StartGeneration, CompileBatch, Batches
<1>4. StopBenchmarking => TableInv'
  BY DEF StopBenchmarking, AtBench
<1>5. Skip => TableInv'
  BY RestOfBatch, HeadIsConfig DEF Skip, Settle, AtBench
<1>6. Launch => TableInv'
  BY DEF Launch, AtBench, Config, Source
<1>7. Timed => TableInv'
  BY DEF Timed, Config, Source
<1>8. Accept => TableInv'
  BY RestOfBatch, HeadIsConfig DEF Accept, Settle, Resolve, Source, SourcesOf
<1>9. Reject => TableInv'
  <2> SUFFICES ASSUME Reject PROVE TableInv'
    OBVIOUS
  <2>1. AtJob /\ todo # <<>> /\ selected = {} /\ selected' = {}
    BY DEF Reject
  <2>2. Source \in Sources /\ Config \in Configs /\ SourceOf[Config] = Source
    BY <2>1, HeadIsConfig DEF Source
  <2>3. /\ invalid' = invalid \cup {Source} /\ measured' = measured \ {Source}
        /\ pending' = [s \in Sources |-> IF s \in {Source} THEN {} ELSE pending[s]]
        /\ inaccurate' = inaccurate \cup {Config} /\ unsafe' = unsafe
    BY DEF Reject, Ban
  <2>4. SourcesOf(inaccurate' \cup unsafe')
          \subseteq SourcesOf(inaccurate \cup unsafe) \cup {Source}
    BY <2>2, <2>3 DEF SourcesOf
  <2>5. SourcesOf(inaccurate \cup unsafe) \subseteq invalid
    BY <2>1 DEF AtJob
  <2>6. /\ invalid \cap measured = {}
        /\ \A s \in Sources : pending[s] # {} => s \notin measured \cup invalid
        /\ \A s \in Sources : \A c \in pending[s] : SourceOf[c] = s
    OBVIOUS
  <2> HIDE DEF TypeOK, PhaseInv, BatchInv, NewInv, SourceInv, TableInv, MeasuredInv, MemberInv
  <2> QED
    BY <2>1, <2>2, <2>3, <2>4, <2>5, <2>6 DEF TableInv
<1>10. Retry => TableInv'
  BY DEF Retry, MayRetry, Config, Source
<1>11. FailToRun => TableInv'
  <2> SUFFICES ASSUME FailToRun PROVE TableInv'
    OBVIOUS
  <2>1. AtJob /\ todo # <<>> /\ selected = {} /\ UNCHANGED <<selected, inaccurate, unsafe>>
    BY DEF FailToRun, InWorker
  <2>2. Source \in Sources /\ SourceOf[Config] = Source /\ Source \notin invalid \cup measured
    BY <2>1, HeadIsConfig DEF Source
  <2>3. /\ pending' = [pending EXCEPT ![Source] = @ \cup {Config}]
        /\ UNCHANGED <<measured, invalid>>
    BY DEF FailToRun, Remember
  <2>4. /\ invalid \cap measured = {}
        /\ \A s \in Sources : pending[s] # {} => s \notin measured \cup invalid
        /\ \A s \in Sources : \A c \in pending[s] : SourceOf[c] = s
        /\ pending \in [Sources -> SUBSET Configs]
        /\ SourcesOf(inaccurate \cup unsafe) \subseteq invalid
    BY <2>1 DEF AtJob
  <2> HIDE DEF TypeOK, PhaseInv, BatchInv, NewInv, SourceInv, TableInv, MeasuredInv, MemberInv
  <2> QED
    BY <2>1, <2>2, <2>3, <2>4 DEF TableInv
<1>12. HangInBatch => TableInv'
  BY DEF HangInBatch, InWorker, Hangs, Unwound, Config, Source
<1>13. FallBack => TableInv'
  BY DEF FallBack, InWorker, Config, Source
<1>14. Poisoned => TableInv'
  BY DEF Poisoned, Config, Source
<1>15. EndBatch => TableInv'
  BY DEF EndBatch
<1>16. Verify => TableInv'
  <2> SUFFICES ASSUME Verify PROVE TableInv'
    OBVIOUS
  <2>1. ~Closing /\ selected = {} /\ selected' = {} /\ UNCHANGED inaccurate
    BY DEF Verify
  <2>2. PICK bad \in SUBSET Configs : Disqualify(bad)
    BY DEF Verify, Live
  <2> QED
    BY <2>1, <2>2, DisqualifiedTables
<1>17. VerifyInProcess => TableInv'
  BY DEF VerifyInProcess
<1>18. RetimingHangs => TableInv'
  BY DEF RetimingHangs, Hangs, Unwound
<1>19. LoadFails => TableInv'
  BY DEF LoadFails
<1>20. Finalize => TableInv'
  BY DEF Finalize
<1>21. KeepBest => TableInv'
  BY DEF KeepBest, Leads, Finalists, LiveNow, Live
<1>22. FinalInProcess => TableInv'
  BY DEF FinalInProcess, Leads, InFinal, Contested, Finalists, LiveNow, Live
<1>23. FinalIsolated => TableInv'
  <2> SUFFICES ASSUME FinalIsolated PROVE TableInv'
    OBVIOUS
  <2>1. ~Closing /\ selected = {} /\ selected' = {} /\ UNCHANGED inaccurate
    BY DEF FinalIsolated, InFinal, Contested
  <2>2. PICK bad \in SUBSET Configs : Disqualify(bad)
    BY DEF FinalIsolated, Finalists, LiveNow, Live
  <2> QED
    BY <2>1, <2>2, DisqualifiedTables
<1>24. FinalHangs => TableInv'
  BY DEF FinalHangs, InFinal, Contested, Finalists, LiveNow, Live
<1>25. Rounds => TableInv'
  <2> SUFFICES ASSUME Rounds PROVE TableInv'
    OBVIOUS
  <2>1. ~Closing /\ selected = {} /\ selected' = {} /\ UNCHANGED inaccurate
    BY DEF Rounds, Contested
  <2>2. PICK bad \in SUBSET Configs : Disqualify(bad)
    BY DEF Rounds, Finalists, LiveNow, Live
  <2> QED
    BY <2>1, <2>2, DisqualifiedTables
<1>26. RoundsInProcess => TableInv'
  BY DEF RoundsInProcess, Leads, Contested, Finalists, LiveNow, Live
<1>27. RoundsHang => TableInv'
  BY DEF RoundsHang, Contested, Finalists, LiveNow, Live
<1>28. FinishingRound => TableInv'
  BY DEF FinishingRound, CompileBatch, Batches
<1>29. FinishingMeasured => TableInv'
  BY DEF FinishingMeasured
<1>30. Reverify => TableInv'
  BY DEF Reverify
<1>31. ReverifyInProcess => TableInv'
  BY DEF ReverifyInProcess
<1>32. Judge => TableInv'
  BY DEF Judge
<1>33. Combine => TableInv'
  BY DEF Combine, CompileBatch
<1>34. JudgeCombined => TableInv'
  BY DEF JudgeCombined
<1>35. Select => TableInv'
  BY DEF Select, Finalists, LiveNow, Live, SourcesOf
<1>36. Salvage => TableInv'
  BY DEF Salvage, Salvageable, Finalists, LiveNow, Live, SourcesOf
<1>37. Teardown => TableInv'
  BY DEF Teardown, Exit
<1>38. TeardownHangs => TableInv'
  BY DEF TeardownHangs, Exit
<1>39. Terminated => TableInv'
  BY DEF Terminated, vars, Ended
<1> QED
  BY <1>1, <1>2, <1>3, <1>4, <1>5, <1>6, <1>7, <1>8, <1>9, <1>10, <1>11, <1>12, <1>13, <1>14,
     <1>15, <1>16, <1>17, <1>18, <1>19, <1>20, <1>21, <1>22, <1>23, <1>24, <1>25, <1>26, <1>27,
     <1>28, <1>29, <1>30, <1>31, <1>32, <1>33, <1>34, <1>35, <1>36, <1>37, <1>38, <1>39 DEF Next

\* In a flash search what competes keeps a measured source.
LEMMA MeasuredKept ==
  TypeOK /\ flash /\ PhaseInv /\ BatchInv /\ NewInv /\ SourceInv /\ Next => MeasuredInv'
<1> SUFFICES ASSUME TypeOK, flash, PhaseInv, BatchInv, NewInv, SourceInv PROVE Next => MeasuredInv'
  OBVIOUS
<1> USE DEF TypeOK, PhaseInv, BatchInv, NewInv, SourceInv, TableInv, MeasuredInv, MemberInv,
        InBatch, AtJob, Closing, Ended, mode, tables, resources, batch, members, tail, notes
<1>1. Setup => MeasuredInv'
  BY DEF Setup
<1>2. Tick => MeasuredInv'
  BY DEF Tick, Config, Source
<1>3. StartGeneration => MeasuredInv'
  BY OrdersAreSequences DEF StartGeneration, CompileBatch, Batches
<1>4. StopBenchmarking => MeasuredInv'
  BY DEF StopBenchmarking, AtBench
<1>5. Skip => MeasuredInv'
  BY RestOfBatch, HeadIsConfig DEF Skip, Settle, AtBench, Source
<1>6. Launch => MeasuredInv'
  BY DEF Launch, AtBench, Config, Source
<1>7. Timed => MeasuredInv'
  BY DEF Timed, Config, Source
<1>8. Accept => MeasuredInv'
  BY RestOfBatch, HeadIsConfig DEF Accept, Settle, Resolve, Source
<1>9. Reject => MeasuredInv'
  BY RestOfBatch, HeadIsConfig DEF Reject, Settle, Ban, Source
<1>10. Retry => MeasuredInv'
  BY DEF Retry, MayRetry, Config, Source
<1>11. FailToRun => MeasuredInv'
  BY RestOfBatch, HeadIsConfig DEF FailToRun, Settle, InWorker, Remember, Source
<1>12. HangInBatch => MeasuredInv'
  BY DEF HangInBatch, InWorker, Hangs, Unwound, Config, Source
<1>13. FallBack => MeasuredInv'
  BY DEF FallBack, InWorker, Config, Source
<1>14. Poisoned => MeasuredInv'
  BY DEF Poisoned, Config, Source
<1>15. EndBatch => MeasuredInv'
  BY DEF EndBatch, Outcome
<1>16. Verify => MeasuredInv'
  BY DEF Verify, Disqualify, Invalidate, Ban, SourcesOf, Finalists, LiveNow, Live
<1>17. VerifyInProcess => MeasuredInv'
  BY DEF VerifyInProcess
<1>18. RetimingHangs => MeasuredInv'
  BY DEF RetimingHangs, Hangs, Unwound
<1>19. LoadFails => MeasuredInv'
  BY DEF LoadFails
<1>20. Finalize => MeasuredInv'
  BY DEF Finalize
<1>21. KeepBest => MeasuredInv'
  BY DEF KeepBest, Leads, Finalists, LiveNow, Live
<1>22. FinalInProcess => MeasuredInv'
  BY DEF FinalInProcess, Leads, InFinal, Contested, Finalists, LiveNow, Live
<1>23. FinalIsolated => MeasuredInv'
  BY DEF FinalIsolated, Leads, InFinal, Contested, Disqualify, Invalidate, Ban, SourcesOf,
     Finalists, LiveNow, Live
<1>24. FinalHangs => MeasuredInv'
  BY DEF FinalHangs, InFinal, Contested, Finalists, LiveNow, Live
<1>25. Rounds => MeasuredInv'
  BY DEF Rounds, Leads, Contested, Disqualify, Invalidate, Ban, SourcesOf, Finalists, LiveNow,
     Live
<1>26. RoundsInProcess => MeasuredInv'
  BY DEF RoundsInProcess, Leads, Contested, Finalists, LiveNow, Live
<1>27. RoundsHang => MeasuredInv'
  BY DEF RoundsHang, Contested, Finalists, LiveNow, Live
<1>28. FinishingRound => MeasuredInv'
  BY DEF FinishingRound, CompileBatch, Batches
<1>29. FinishingMeasured => MeasuredInv'
  BY DEF FinishingMeasured
<1>30. Reverify => MeasuredInv'
  BY DEF Reverify
<1>31. ReverifyInProcess => MeasuredInv'
  BY DEF ReverifyInProcess
<1>32. Judge => MeasuredInv'
  BY DEF Judge
<1>33. Combine => MeasuredInv'
  BY DEF Combine, CompileBatch
<1>34. JudgeCombined => MeasuredInv'
  BY DEF JudgeCombined
<1>35. Select => MeasuredInv'
  BY DEF Select, Finalists, LiveNow, Live
<1>36. Salvage => MeasuredInv'
  BY DEF Salvage, Salvageable, Finalists, LiveNow, Live
<1>37. Teardown => MeasuredInv'
  BY DEF Teardown, Exit
<1>38. TeardownHangs => MeasuredInv'
  BY DEF TeardownHangs, Exit
<1>39. Terminated => MeasuredInv'
  BY DEF Terminated, vars, Ended
<1> QED
  BY <1>1, <1>2, <1>3, <1>4, <1>5, <1>6, <1>7, <1>8, <1>9, <1>10, <1>11, <1>12, <1>13, <1>14,
     <1>15, <1>16, <1>17, <1>18, <1>19, <1>20, <1>21, <1>22, <1>23, <1>24, <1>25, <1>26, <1>27,
     <1>28, <1>29, <1>30, <1>31, <1>32, <1>33, <1>34, <1>35, <1>36, <1>37, <1>38, <1>39 DEF Next

\* In a flash search every step keeps members and tables in agreement.
LEMMA MembersKept ==
  TypeOK /\ flash /\ PhaseInv /\ BatchInv /\ NewInv /\ SourceInv /\ Next => MemberInv'
<1> SUFFICES ASSUME TypeOK, flash, PhaseInv, BatchInv, NewInv, SourceInv PROVE Next => MemberInv'
  OBVIOUS
<1> USE DEF TypeOK, PhaseInv, BatchInv, NewInv, SourceInv, TableInv, MeasuredInv, MemberInv,
        InBatch, AtJob, Closing, Ended, mode, tables, resources, batch, members, tail, notes,
        Outcome
<1>1. Setup => MemberInv'
  BY DEF Setup
<1>2. Tick => MemberInv'
  BY DEF Tick, Config, Source
<1>3. StartGeneration => MemberInv'
  BY OrdersAreSequences DEF StartGeneration, CompileBatch, Batches
<1>4. StopBenchmarking => MemberInv'
  BY DEF StopBenchmarking, AtBench
<1>5. Skip => MemberInv'
  <2> SUFFICES ASSUME Skip, NEW c \in pop
               PROVE  /\ Outcome(c)' \in {"live", "unbuilt", "failed"}
                      /\ SourceOf[c] \in measured' => Outcome(c)' # "failed"
                      /\ Outcome(c)' = "failed" =>
                           SourceOf[c] \in invalid' \/ c \in pending'[SourceOf[c]]
    BY DEF Skip, Settle
  <2>1. pc = "bench" /\ todo # <<>> /\ ~Closing /\ stage = "search"
    BY DEF Skip, AtBench
  <2>2. /\ Config \in Configs /\ Source \in Sources /\ SourceOf[Config] = Source
        /\ Config \in pop /\ member[Config] = "new"
    BY <2>1, HeadIsConfig, RestOfBatch DEF Source
  <2>3. /\ got' = [got EXCEPT ![Config] =
                    IF Source \in measured \ invalid THEN "live" ELSE "failed"]
        /\ Source \in invalid \cup measured
        /\ UNCHANGED <<invalid, measured, pending, repairs, member>>
    BY DEF Skip, Settle
  <2>4. c \in Configs /\ SourceOf[c] \in Sources
    BY ConfigsAssumption
  <2>5. /\ Outcome(c) \in {"live", "unbuilt", "failed"}
        /\ SourceOf[c] \in measured => Outcome(c) # "failed"
        /\ Outcome(c) = "failed" => SourceOf[c] \in invalid \/ c \in pending[SourceOf[c]]
        /\ invalid \cap measured = {}
    BY <2>1 DEF Outcome
  <2> HIDE DEF TypeOK, PhaseInv, BatchInv, NewInv, SourceInv, TableInv, MeasuredInv, MemberInv
  <2>6. got \in [Configs -> {"none", "live", "unbuilt", "failed"}]
    BY DEF TypeOK
  <2>7. CASE c = Config
    BY <2>2, <2>3, <2>5, <2>6, <2>7 DEF Outcome
  <2>8. CASE c # Config
    BY <2>2, <2>3, <2>4, <2>5, <2>6, <2>8 DEF Outcome
  <2> QED
    BY <2>7, <2>8
<1>6. Launch => MemberInv'
  BY DEF Launch, AtBench, Config, Source
<1>7. Timed => MemberInv'
  BY DEF Timed, Config, Source
<1>8. Accept => MemberInv'
  <2> SUFFICES ASSUME Accept, NEW c \in pop
               PROVE  /\ Outcome(c)' \in {"live", "unbuilt", "failed"}
                      /\ SourceOf[c] \in measured' => Outcome(c)' # "failed"
                      /\ Outcome(c)' = "failed" =>
                           SourceOf[c] \in invalid' \/ c \in pending'[SourceOf[c]]
    BY DEF Accept, Settle
  <2>1. AtJob /\ todo # <<>> /\ ~Closing /\ stage = "search"
    BY DEF Accept
  <2>2. /\ Config \in Configs /\ Source \in Sources /\ SourceOf[Config] = Source
        /\ Config \in pop /\ member[Config] = "new"
    BY <2>1, HeadIsConfig, RestOfBatch DEF Source
  <2>3. /\ repairs' = repairs \cup pending[Source] /\ measured' = measured \cup {Source}
        /\ pending' = [pending EXCEPT ![Source] = {}]
        /\ got' = [got EXCEPT ![Config] = "live"]
        /\ UNCHANGED <<invalid, member>>
    BY DEF Accept, Resolve, Settle
  <2>4. c \in Configs /\ SourceOf[c] \in Sources
    BY ConfigsAssumption
  <2>5. /\ Outcome(c) \in {"live", "unbuilt", "failed"}
        /\ SourceOf[c] \in measured => Outcome(c) # "failed"
        /\ Outcome(c) = "failed" => SourceOf[c] \in invalid \/ c \in pending[SourceOf[c]]
        /\ Source \notin invalid \cup measured
    BY <2>1 DEF Outcome
  <2> HIDE DEF TypeOK, PhaseInv, BatchInv, NewInv, SourceInv, TableInv, MeasuredInv, MemberInv
  <2>6. /\ got \in [Configs -> {"none", "live", "unbuilt", "failed"}]
        /\ pending \in [Sources -> SUBSET Configs]
    BY DEF TypeOK
  <2>7. CASE c = Config
    BY <2>2, <2>3, <2>5, <2>6, <2>7 DEF Outcome
  <2>8. CASE c # Config
    BY <2>2, <2>3, <2>4, <2>5, <2>6, <2>8 DEF Outcome
  <2> QED
    BY <2>7, <2>8
<1>9. Reject => MemberInv'
  <2> SUFFICES ASSUME Reject, NEW c \in pop
               PROVE  /\ Outcome(c)' \in {"live", "unbuilt", "failed"}
                      /\ SourceOf[c] \in measured' => Outcome(c)' # "failed"
                      /\ Outcome(c)' = "failed" =>
                           SourceOf[c] \in invalid' \/ c \in pending'[SourceOf[c]]
    BY DEF Reject, Settle
  <2>1. AtJob /\ todo # <<>> /\ ~Closing /\ stage = "search"
    BY DEF Reject
  <2>2. /\ Config \in Configs /\ Source \in Sources /\ SourceOf[Config] = Source
        /\ Config \in pop /\ member[Config] = "new"
    BY <2>1, HeadIsConfig, RestOfBatch DEF Source
  <2>3. /\ invalid' = invalid \cup {Source} /\ measured' = measured \ {Source}
        /\ pending' = [s \in Sources |-> IF s \in {Source} THEN {} ELSE pending[s]]
        /\ got' = [got EXCEPT ![Config] = "failed"]
        /\ UNCHANGED <<repairs, member>>
    BY DEF Reject, Ban, Settle
  <2>4. c \in Configs /\ SourceOf[c] \in Sources
    BY ConfigsAssumption
  <2>5. /\ Outcome(c) \in {"live", "unbuilt", "failed"}
        /\ SourceOf[c] \in measured => Outcome(c) # "failed"
        /\ Outcome(c) = "failed" => SourceOf[c] \in invalid \/ c \in pending[SourceOf[c]]
        /\ Source \notin invalid \cup measured
    BY <2>1 DEF Outcome
  <2> HIDE DEF TypeOK, PhaseInv, BatchInv, NewInv, SourceInv, TableInv, MeasuredInv, MemberInv
  <2>6. got \in [Configs -> {"none", "live", "unbuilt", "failed"}]
    BY DEF TypeOK
  <2>7. CASE c = Config
    BY <2>2, <2>3, <2>5, <2>6, <2>7 DEF Outcome
  <2>8. CASE c # Config
    BY <2>2, <2>3, <2>4, <2>5, <2>6, <2>8 DEF Outcome
  <2> QED
    BY <2>7, <2>8
<1>10. Retry => MemberInv'
  BY DEF Retry, MayRetry, Config, Source
<1>11. FailToRun => MemberInv'
  <2> SUFFICES ASSUME FailToRun, NEW c \in pop
               PROVE  /\ Outcome(c)' \in {"live", "unbuilt", "failed"}
                      /\ SourceOf[c] \in measured' => Outcome(c)' # "failed"
                      /\ Outcome(c)' = "failed" =>
                           SourceOf[c] \in invalid' \/ c \in pending'[SourceOf[c]]
    BY DEF FailToRun, Settle
  <2>1. AtJob /\ todo # <<>> /\ ~Closing /\ stage = "search"
    BY DEF FailToRun, InWorker
  <2>2. /\ Config \in Configs /\ Source \in Sources /\ SourceOf[Config] = Source
        /\ Config \in pop /\ member[Config] = "new"
    BY <2>1, HeadIsConfig, RestOfBatch DEF Source
  <2>3. /\ pending' = [pending EXCEPT ![Source] = @ \cup {Config}]
        /\ got' = [got EXCEPT ![Config] = "failed"]
        /\ UNCHANGED <<invalid, measured, repairs, member>>
    BY DEF FailToRun, Remember, Settle
  <2>4. c \in Configs /\ SourceOf[c] \in Sources
    BY ConfigsAssumption
  <2>5. /\ Outcome(c) \in {"live", "unbuilt", "failed"}
        /\ SourceOf[c] \in measured => Outcome(c) # "failed"
        /\ Outcome(c) = "failed" => SourceOf[c] \in invalid \/ c \in pending[SourceOf[c]]
        /\ Source \notin invalid \cup measured
    BY <2>1 DEF Outcome
  <2> HIDE DEF TypeOK, PhaseInv, BatchInv, NewInv, SourceInv, TableInv, MeasuredInv, MemberInv
  <2>6. /\ got \in [Configs -> {"none", "live", "unbuilt", "failed"}]
        /\ pending \in [Sources -> SUBSET Configs]
    BY DEF TypeOK
  <2>7. CASE c = Config
    BY <2>2, <2>3, <2>5, <2>6, <2>7 DEF Outcome
  <2>8. CASE c # Config
    BY <2>2, <2>3, <2>4, <2>5, <2>6, <2>8 DEF Outcome
  <2> QED
    BY <2>7, <2>8
<1>12. HangInBatch => MemberInv'
  BY DEF HangInBatch, InWorker, Hangs, Unwound, Config, Source
<1>13. FallBack => MemberInv'
  BY DEF FallBack, InWorker, Config, Source
<1>14. Poisoned => MemberInv'
  BY DEF Poisoned, Config, Source
<1>15. EndBatch => MemberInv'
  BY DEF EndBatch
<1>16. Verify => MemberInv'
  <2> SUFFICES ASSUME Verify PROVE MemberInv'
    OBVIOUS
  <2>1. /\ ~Closing /\ pc \in {"verify", "final"} /\ ~InBatch'
        /\ UNCHANGED <<flash, pop, got, inaccurate, selected>>
    BY DEF Verify, Leads, Live
  <2>2. PICK bad \in SUBSET Configs : Disqualify(bad)
    BY DEF Verify, Finalists, LiveNow, Live
  <2> QED
    BY <2>1, <2>2, DisqualifiedMembers
<1>17. VerifyInProcess => MemberInv'
  BY DEF VerifyInProcess
<1>18. RetimingHangs => MemberInv'
  BY DEF RetimingHangs, Hangs, Unwound
<1>19. LoadFails => MemberInv'
  BY DEF LoadFails
<1>20. Finalize => MemberInv'
  BY DEF Finalize
<1>21. KeepBest => MemberInv'
  BY DEF KeepBest, Leads, Finalists, LiveNow, Live
<1>22. FinalInProcess => MemberInv'
  BY DEF FinalInProcess, Leads, InFinal, Contested, Finalists, LiveNow, Live
<1>23. FinalIsolated => MemberInv'
  <2> SUFFICES ASSUME FinalIsolated PROVE MemberInv'
    OBVIOUS
  <2>1. /\ ~Closing /\ pc \in {"verify", "final"} /\ ~InBatch'
        /\ UNCHANGED <<flash, pop, got, inaccurate, selected>>
    BY DEF FinalIsolated, Leads, InFinal, Contested
  <2>2. PICK bad \in SUBSET Configs : Disqualify(bad)
    BY DEF FinalIsolated, Finalists, LiveNow, Live
  <2> QED
    BY <2>1, <2>2, DisqualifiedMembers
<1>24. FinalHangs => MemberInv'
  BY DEF FinalHangs, InFinal, Contested, Finalists, LiveNow, Live
<1>25. Rounds => MemberInv'
  <2> SUFFICES ASSUME Rounds PROVE MemberInv'
    OBVIOUS
  <2>1. /\ ~Closing /\ pc \in {"verify", "final"} /\ ~InBatch'
        /\ UNCHANGED <<flash, pop, got, inaccurate, selected>>
    BY DEF Rounds, Leads, Contested
  <2>2. PICK bad \in SUBSET Configs : Disqualify(bad)
    BY DEF Rounds, Finalists, LiveNow, Live
  <2> QED
    BY <2>1, <2>2, DisqualifiedMembers
<1>26. RoundsInProcess => MemberInv'
  BY DEF RoundsInProcess, Leads, Contested, Finalists, LiveNow, Live
<1>27. RoundsHang => MemberInv'
  BY DEF RoundsHang, Contested, Finalists, LiveNow, Live
<1>28. FinishingRound => MemberInv'
  BY DEF FinishingRound, CompileBatch, Batches
<1>29. FinishingMeasured => MemberInv'
  BY DEF FinishingMeasured
<1>30. Reverify => MemberInv'
  BY DEF Reverify
<1>31. ReverifyInProcess => MemberInv'
  BY DEF ReverifyInProcess
<1>32. Judge => MemberInv'
  BY DEF Judge
<1>33. Combine => MemberInv'
  BY DEF Combine, CompileBatch
<1>34. JudgeCombined => MemberInv'
  BY DEF JudgeCombined
<1>35. Select => MemberInv'
  BY DEF Select, Finalists, LiveNow, Live
<1>36. Salvage => MemberInv'
  BY DEF Salvage, Salvageable, Finalists, LiveNow, Live
<1>37. Teardown => MemberInv'
  BY DEF Teardown, Exit
<1>38. TeardownHangs => MemberInv'
  BY DEF TeardownHangs, Exit
<1>39. Terminated => MemberInv'
  BY DEF Terminated, vars, Ended
<1> QED
  BY <1>1, <1>2, <1>3, <1>4, <1>5, <1>6, <1>7, <1>8, <1>9, <1>10, <1>11, <1>12, <1>13, <1>14,
     <1>15, <1>16, <1>17, <1>18, <1>19, <1>20, <1>21, <1>22, <1>23, <1>24, <1>25, <1>26, <1>27,
     <1>28, <1>29, <1>30, <1>31, <1>32, <1>33, <1>34, <1>35, <1>36, <1>37, <1>38, <1>39 DEF Next

\* The inductive invariant.
Inv ==
  TypeOK /\ PhaseInv /\ KillInv /\ OpenInv /\ BatchInv /\ NewInv /\ InaccurateInv /\ SourceInv

\* It holds at the start.
LEMMA InvInit == Init => Inv
<1> SUFFICES ASSUME Init PROVE Inv
  OBVIOUS
<1>1. TypeOK
  <2>1. todo \in Seq(Configs) /\ rounds \in 0..MaxRounds
    BY BoundsAssumption DEF Init
  <2>2. /\ member \in [Configs -> States] /\ history \in [Configs -> {"new", "live", "lost"}]
        /\ cand \in [Configs -> States \ {"gone"}]
        /\ got \in [Configs -> {"none", "live", "unbuilt", "failed"}]
        /\ pending \in [Sources -> SUBSET Configs]
    BY DEF Init, States
  <2> QED
    BY <2>1, <2>2 DEF Init, TypeOK
<1>2. PhaseInv /\ KillInv /\ OpenInv
  BY DEF Init, PhaseInv, KillInv, OpenInv, TeardownKeepsItsWord, Ended, Closing
<1>3. BatchInv /\ NewInv /\ InaccurateInv
  BY DEF Init, BatchInv, InBatch, AtJob, NewInv, InaccurateInv, Closing, Ended
<1>4. SourceInv
  BY DEF Init, SourceInv, TableInv, MeasuredInv, MemberInv, SourcesOf, InBatch, AtJob, Ended
<1> QED
  BY <1>1, <1>2, <1>3, <1>4 DEF Inv

\* Whether a search is a flash search is settled before it starts.
LEMMA FlashIsConstant == Next => flash' = flash
  BY ZenonT(40) DEF Next, Setup, Tick, StartGeneration, CompileBatch, StopBenchmarking, Skip, Launch,
     Timed, Accept, Reject, Retry, FailToRun, HangInBatch, FallBack, Poisoned, EndBatch, Verify,
     VerifyInProcess, RetimingHangs, LoadFails, Finalize, KeepBest, FinalInProcess,
     FinalIsolated, FinalHangs, Rounds, RoundsInProcess, RoundsHang, FinishingRound,
     FinishingMeasured, Reverify, ReverifyInProcess, Judge, Combine, JudgeCombined, Select,
     Salvage, Teardown, TeardownHangs, Terminated, vars, mode

\* Every step keeps the invariant.
LEMMA InvKept == Inv /\ [Next]_vars => Inv'
<1>1. Inv /\ Next => Inv'
  <2> SUFFICES ASSUME Inv, Next PROVE Inv'
    OBVIOUS
  <2>1. flash' = flash
    BY FlashIsConstant
  <2>2. TypeOK' /\ PhaseInv' /\ KillInv' /\ OpenInv' /\ BatchInv' /\ NewInv' /\ InaccurateInv'
    BY TypesKept, PhaseKept, KillKept, OpenKept, BatchKept, NewKept, InaccurateKept DEF Inv
  <2>3. SourceInv'
    BY <2>1, TablesKept, MeasuredKept, MembersKept DEF Inv, SourceInv
  <2> QED
    BY <2>2, <2>3 DEF Inv
<1>2. Inv /\ UNCHANGED vars => Inv'
  <2> SUFFICES ASSUME Inv, UNCHANGED vars PROVE Inv'
    OBVIOUS
  <2> USE DEF vars, mode, tables, resources, batch, members, tail, notes,
          Closing, Ended, InBatch, AtJob
  <2>1. TypeOK' /\ PhaseInv' /\ KillInv' /\ OpenInv'
    BY DEF Inv, TypeOK, PhaseInv, KillInv, OpenInv, TeardownKeepsItsWord
  <2>2. BatchInv' /\ NewInv' /\ InaccurateInv'
    BY DEF Inv, BatchInv, NewInv, InaccurateInv, Outcome, In, Source, Config
  <2>3. SourceInv'
    BY DEF Inv, SourceInv, TableInv, MeasuredInv, MemberInv, Outcome, SourcesOf
  <2> QED
    BY <2>1, <2>2, <2>3 DEF Inv
<1> QED
  BY <1>1, <1>2

\* It holds throughout.
LEMMA Invariant == Spec => []Inv
  BY InvInit, InvKept, PTL DEF Spec

\* TypeOK holds of every search.
THEOREM SearchTypes == Spec => []TypeOK
<1>1. Inv => TypeOK
  BY DEF Inv
<1> QED
  BY <1>1, Invariant, PTL

\* SourcesAgree: whenever no batch is being benchmarked the tables of effective
\* sources have one verdict for a source, and every member that competes, or
\* shares a source that was measured, agrees with it.
THEOREM SearchAgrees == Spec => []SourcesAgree
<1>1. ASSUME Inv, flash PROVE SourcesAgree
  <2>1. TypeOK /\ PhaseInv /\ BatchInv /\ TableInv /\ MeasuredInv /\ MemberInv
    BY <1>1 DEF Inv, SourceInv
  <2>2. SUFFICES ASSUME AtRest, NEW c \in Configs
                 PROVE  /\ SourceOf[c] \in invalid => c \notin LiveNow
                        /\ SourceOf[c] \in measured /\ c \in pop =>
                             member[c] \in {"live", "unbuilt"}
    BY <2>1 DEF TableInv, SourcesAgree
  <2>3. ~Closing /\ ~InBatch /\ ~finishing
    BY <1>1, <2>1, <2>2 DEF AtRest, Closing, Ended, InBatch, AtJob, PhaseInv
  <2>4. got[c] = "none" /\ c \notin repairs
    BY <2>1, <2>2, <2>3 DEF BatchInv, AtRest
  <2>5. SourceOf[c] \in measured /\ c \in pop => member[c] \in {"live", "unbuilt"}
    BY <2>1, <2>3, <2>4 DEF MemberInv, Outcome
  <2>6. c \in LiveNow => SourceOf[c] \in measured
    BY <2>1, <2>3 DEF LiveNow, Live, MeasuredInv, Closing
  <2> QED
    BY <2>1, <2>5, <2>6 DEF TableInv
<1>2. Inv => SourcesAgree
  BY <1>1 DEF SourcesAgree
<1> QED
  BY <1>2, Invariant, PTL

\* WinnerIsVouched: in a flash search the source of the config that is returned
\* was measured and nothing rejected it; without a finishing phase the config did
\* not fail its own accuracy check and is not one that a worker could not be
\* stopped from running.
THEOREM SearchVouches == Spec => []WinnerIsVouched
<1>1. ASSUME Inv, NEW c \in selected
      PROVE  /\ flash /\ pc = "teardown" => SourceOf[c] \in measured \ invalid
             /\ flash => SourceOf[c] \notin SourcesOf(inaccurate \cup unsafe)
             /\ ~finishing => c \notin inaccurate \cup hung
  <2>1. c \in Configs
    BY <1>1 DEF Inv, TypeOK
  <2>2. flash /\ pc = "teardown" => SourceOf[c] \in measured \ invalid
    BY <1>1, <2>1 DEF Inv, SourceInv, TableInv, MeasuredInv, Ended
  <2>3. SourceOf[c] \in SourcesOf(selected)
    BY <2>1 DEF SourcesOf, Inv, TypeOK
  <2>4. flash => SourceOf[c] \notin SourcesOf(inaccurate \cup unsafe)
    BY <1>1, <2>3 DEF Inv, SourceInv, TableInv
  <2>5. ~finishing => c \notin inaccurate \cup hung
    BY <1>1 DEF Inv, InaccurateInv, KillInv
  <2> QED
    BY <2>2, <2>4, <2>5
<1>2. Inv => WinnerIsVouched
  BY <1>1 DEF WinnerIsVouched
<1> QED
  BY <1>2, Invariant, PTL

\* TeardownKeepsItsWord: an error of the teardown loses no selected config, and
\* the provider is closed unless a worker survived SIGKILL or setup failed.
THEOREM SearchTearsDown == Spec => []TeardownKeepsItsWord
<1>1. Inv => TeardownKeepsItsWord
  BY DEF Inv, OpenInv
<1> QED
  BY <1>1, Invariant, PTL

\* NeverRunAgain: no batch of a flash search runs a source that was found
\* inaccurate or broke a worker, under any config, and once a worker survived
\* SIGKILL no batch runs anything.
THEOREM SearchRunsNothingAgain == Spec => NeverRunAgain
<1>1. Next /\ ~Running /\ Running' => Launch \/ FallBack
  BY ZenonT(40)
  DEF Running, Next, Setup, Tick, StartGeneration, CompileBatch, StopBenchmarking, Skip, Settle,
     Timed, Accept, Reject, Retry, FailToRun, HangInBatch, Unwound, Poisoned, EndBatch,
     Verify, VerifyInProcess, RetimingHangs, LoadFails, Finalize, KeepBest, Leads, FinalInProcess,
     FinalIsolated, FinalHangs, Rounds, RoundsInProcess, RoundsHang, FinishingRound,
     FinishingMeasured, Reverify, ReverifyInProcess, Judge, Combine, JudgeCombined, Select,
     Salvage, Teardown, TeardownHangs, Exit, Terminated, vars
<1>2. Inv /\ (Launch \/ FallBack) => ~lingers /\ (flash => Source \notin invalid)
  BY DEF Inv, KillInv, BatchInv, AtJob, Launch, AtBench, FallBack, InWorker, Closing, Ended
<1>3. Inv /\ (Launch \/ FallBack) /\ flash => SourcesOf(inaccurate \cup unsafe) \subseteq invalid
  BY DEF Inv, SourceInv, TableInv, Launch, AtBench, FallBack, InWorker, Ended
<1>4. Inv /\ [Next]_vars =>
        [~Running /\ Running' =>
           /\ ~lingers
           /\ flash => Source \notin SourcesOf(inaccurate \cup unsafe)]_vars
  BY <1>1, <1>2, <1>3
<1> QED
  BY <1>4, Invariant, PTL DEF Spec, NeverRunAgain

\* What SourceVerdicts sees stays as it is.
Unseen ==
  /\ \A s \in Sources : Verdict(s)' = Verdict(s)
  /\ UNCHANGED selected
  /\ (Ended /\ ~open)' = (Ended /\ ~open)

\* Then its variables stay as they are.
LEMMA UnseenIsStutter ==
  ASSUME flash' = flash, Unseen
  PROVE  UNCHANGED Verdicts!vars
<1>1. [s \in Sources |-> Verdict(s)]' = [s \in Sources |-> Verdict(s)]
  BY DEF Unseen
<1>2. (IF flash THEN SourcesOf(selected) ELSE {})' = (IF flash THEN SourcesOf(selected) ELSE {})
  BY DEF Unseen, SourcesOf
<1>3. (flash /\ Ended /\ ~open)' = (flash /\ Ended /\ ~open)
  BY DEF Unseen
<1> QED
  BY <1>1, <1>2, <1>3 DEF Verdicts!vars

\* When the sources of S get the verdict v and nothing else is seen to change,
\* that is Becomes.
LEMMA TablesBecome ==
  ASSUME flash, flash', ~Ended, ~Ended', selected = {}, selected' = {},
         NEW S, NEW v, \A s \in Sources : Verdict(s)' = IF s \in S THEN v ELSE Verdict(s)
  PROVE  Verdicts!Becomes(S, v)
<1>1. [s \in Sources |-> Verdict(s)]' = [s \in Sources |-> IF s \in S THEN v
                                           ELSE [t \in Sources |-> Verdict(t)][s]]
  OBVIOUS
<1>2. /\ (IF flash THEN SourcesOf(selected) ELSE {}) = {}
      /\ (IF flash THEN SourcesOf(selected) ELSE {})' = {}
  BY DEF SourcesOf
<1>3. ~(flash /\ Ended /\ ~open) /\ ~(flash /\ Ended /\ ~open)'
  OBVIOUS
<1> QED
  BY <1>1, <1>2, <1>3 DEF Verdicts!Becomes

\* A timing that is accepted, one that is rejected, and a run that failed are
\* one step of SourceVerdicts.
LEMMA BatchRefines ==
  ASSUME Inv, flash, Accept \/ Reject \/ FailToRun
  PROVE  Verdicts!Next
<1>1. /\ flash' /\ ~Ended /\ ~Ended' /\ selected = {} /\ selected' = {}
      /\ AtJob /\ todo # <<>> /\ Source \in Sources /\ Source \notin invalid \cup measured
  <2>1. AtJob /\ ~Closing
    BY DEF Accept, Reject, FailToRun, InWorker, AtJob, Closing, Ended
  <2>2. todo # <<>> /\ Source \notin invalid \cup measured /\ selected = {} /\ Source \in Sources
    BY <2>1, HeadIsConfig DEF Inv, BatchInv, PhaseInv
  <2> QED
    BY <2>1, <2>2 DEF Accept, Reject, FailToRun, Settle, Closing, Ended, mode
<1>2. Verdict(Source) \in {"unknown", "failing"}
  BY <1>1 DEF Verdict
<1>3. [s \in Sources |-> Verdict(s)][Source] = Verdict(Source)
  BY <1>1
<1>4. pending \in [Sources -> SUBSET Configs] /\ Config \in Configs
  BY <1>1, HeadIsConfig DEF Inv, TypeOK
<1>5. CASE Accept
  <2>1. \A s \in Sources : Verdict(s)' = IF s \in {Source} THEN "measured" ELSE Verdict(s)
    BY <1>1, <1>4, <1>5 DEF Accept, Resolve, Verdict
  <2>2. Verdicts!Becomes({Source}, "measured")
    BY <1>1, <2>1, TablesBecome
  <2> QED
    BY <1>1, <1>2, <1>3, <2>2 DEF Verdicts!Next, Verdicts!Measure
<1>6. CASE Reject
  <2>1. \A s \in Sources : Verdict(s)' = IF s \in {Source} THEN "rejected" ELSE Verdict(s)
    BY <1>1, <1>4, <1>6 DEF Reject, Ban, Verdict
  <2>2. Verdicts!Becomes({Source}, "rejected")
    BY <1>1, <2>1, TablesBecome
  <2> QED
    BY <1>1, <2>2 DEF Verdicts!Next, Verdicts!Reject
<1>7. CASE FailToRun
  <2>1. \A s \in Sources : Verdict(s)' = IF s \in {Source} THEN "failing" ELSE Verdict(s)
    BY <1>1, <1>4, <1>7 DEF FailToRun, Remember, Verdict
  <2>2. Verdicts!Becomes({Source}, "failing")
    BY <1>1, <2>1, TablesBecome
  <2> QED
    BY <1>1, <1>2, <1>3, <2>2 DEF Verdicts!Next, Verdicts!Fail
<1> QED
  BY <1>5, <1>6, <1>7

\* So are members that are disqualified: their sources are rejected at once.
LEMMA DisqualifyRefines ==
  ASSUME Inv, flash, Verify \/ FinalIsolated \/ Rounds
  PROVE  Verdicts!Next \/ UNCHANGED Verdicts!vars
<1>1. flash' /\ ~Ended /\ ~Ended' /\ selected = {} /\ selected' = {}
  BY DEF Inv, PhaseInv, Closing, Verify, FinalIsolated, InFinal, Rounds, Contested, Leads,
     Ended, mode
<1>2. PICK bad \in SUBSET Configs : Disqualify(bad)
  BY DEF Verify, FinalIsolated, Rounds, Finalists, LiveNow, Live, Inv, TypeOK
<1>3. SourcesOf(bad) \subseteq Sources
  BY ConfigsAssumption DEF SourcesOf
<1>4. /\ invalid' = invalid \cup SourcesOf(bad) /\ measured' = measured \ SourcesOf(bad)
      /\ pending' = [s \in Sources |-> IF s \in SourcesOf(bad) THEN {} ELSE pending[s]]
  BY <1>2 DEF Disqualify, Invalidate, Ban
<1>5. \A s \in Sources : Verdict(s)' = IF s \in SourcesOf(bad) THEN "rejected" ELSE Verdict(s)
  BY <1>1, <1>4 DEF Verdict
<1>6. CASE SourcesOf(bad) = {}
  <2>1. Unseen
    BY <1>1, <1>5, <1>6 DEF Unseen
  <2> QED
    BY <1>1, <2>1, UnseenIsStutter
<1>7. CASE SourcesOf(bad) # {}
  <2>1. Verdicts!Becomes(SourcesOf(bad), "rejected")
    BY <1>1, <1>5, TablesBecome
  <2> QED
    BY <1>3, <1>7, <2>1 DEF Verdicts!Next, Verdicts!Reject
<1> QED
  BY <1>6, <1>7

\* What the search returns is chosen by SourceVerdicts.
LEMMA SelectRefines ==
  ASSUME Inv, flash, Select \/ Salvage
  PROVE  Verdicts!Next \/ UNCHANGED Verdicts!vars
<1>1. /\ flash' /\ ~Ended /\ ~Ended' /\ selected = {}
      /\ UNCHANGED <<invalid, measured, pending>>
  BY DEF Inv, PhaseInv, Closing, Select, Salvage, Ended, mode, tables
<1>2. selected' = {} \/ \E c \in Configs : selected' = {c} /\ SourceOf[c] \in measured
  <2>1. CASE Select
    <3>1. PICK c \in Configs : best = {c}
      BY <1>1, <2>1 DEF Inv, PhaseInv, Select, Closing, Ended
    <3> QED
      BY <1>1, <2>1, <3>1 DEF Inv, SourceInv, MeasuredInv, Select
  <2>2. CASE Salvage
    BY <1>1, <2>2 DEF Inv, TypeOK, SourceInv, MeasuredInv, Salvage, Salvageable, Live
  <2> QED
    BY <2>1, <2>2
<1>3. \A s \in Sources : Verdict(s)' = Verdict(s)
  BY <1>1 DEF Verdict
<1>4. CASE selected' = {}
  <2>1. Unseen
    BY <1>1, <1>3, <1>4 DEF Unseen
  <2> QED
    BY <1>1, <2>1, UnseenIsStutter
<1>5. CASE selected' # {}
  <2>1. PICK c \in Configs : selected' = {c} /\ SourceOf[c] \in measured
    BY <1>2, <1>5
  <2>2. SourceOf[c] \in Sources /\ Verdict(SourceOf[c]) = "measured"
    BY <2>1, ConfigsAssumption DEF Verdict, Inv, SourceInv, TableInv
  <2>3. /\ (IF flash THEN SourcesOf(selected) ELSE {}) = {}
        /\ (IF flash THEN SourcesOf(selected) ELSE {})' = {SourceOf[c]}
    BY <1>1, <2>1 DEF SourcesOf
  <2>4. [s \in Sources |-> Verdict(s)]' = [s \in Sources |-> Verdict(s)]
    BY <1>3
  <2>5. ~(flash /\ Ended /\ ~open) /\ ~(flash /\ Ended /\ ~open)'
    BY <1>1
  <2>6. Verdicts!Choose(SourceOf[c])
    BY <2>2, <2>3, <2>4, <2>5 DEF Verdicts!Choose
  <2> QED
    BY <2>2, <2>6 DEF Verdicts!Next
<1> QED
  BY <1>4, <1>5

\* The teardown drops the tables.
LEMMA TeardownRefines ==
  ASSUME Inv, flash, Teardown
  PROVE  Verdicts!Next
<1>1. flash' /\ ~Ended /\ Ended' /\ ~open' /\ selected' = selected
  BY DEF Teardown, Exit, Ended, mode
<1>2. \A s \in Sources : Verdict(s)' = "unknown"
  BY <1>1 DEF Teardown, Verdict
<1>3. [s \in Sources |-> Verdict(s)]' = [s \in Sources |-> "unknown"]
  BY <1>2
<1>4. (IF flash THEN SourcesOf(selected) ELSE {})' = IF flash THEN SourcesOf(selected) ELSE {}
  BY <1>1 DEF SourcesOf
<1> QED
  BY <1>1, <1>3, <1>4 DEF Verdicts!Next, Verdicts!Close

\* No other step changes what SourceVerdicts sees.
LEMMA OthersStutter ==
  ASSUME Inv, flash, Next,
         ~(\/ Accept \/ Reject \/ FailToRun \/ Verify \/ FinalIsolated \/ Rounds
           \/ Select \/ Salvage \/ Teardown)
  PROVE  UNCHANGED Verdicts!vars
<1>1. UNCHANGED <<flash, invalid, measured, pending, selected>>
  <2>1. ~finishing /\ pc # "judge"
    BY DEF Inv, PhaseInv, Closing, Ended
  <2> QED
    BY <2>1 DEF Next, Setup, Tick, StartGeneration, CompileBatch, StopBenchmarking, Skip, Settle,
       Launch, Timed, Retry, HangInBatch, FallBack, Poisoned, EndBatch,
       VerifyInProcess, RetimingHangs, LoadFails, Finalize, KeepBest, Leads, FinalInProcess,
       FinalHangs, RoundsInProcess, RoundsHang, FinishingRound,
       FinishingMeasured, Reverify, ReverifyInProcess, Judge, Combine, JudgeCombined,
       TeardownHangs, Terminated, vars, mode, tables
<1>2. (Ended /\ ~open)' = (Ended /\ ~open)
  <2>1. (Ended /\ ~open)' \in BOOLEAN /\ (Ended /\ ~open) \in BOOLEAN
    OBVIOUS
  <2>2. CASE Terminated
    BY <2>2 DEF Terminated, vars, Ended
  <2>3. CASE Setup
    BY <2>3 DEF Setup, Ended
  <2>4. CASE TeardownHangs
    BY <2>4 DEF TeardownHangs, Exit, Ended, Inv, OpenInv
  <2>5. CASE ~Terminated /\ ~Setup /\ ~TeardownHangs
    <3>1. ~Ended /\ ~Ended'
      BY <2>5, ZenonT(40)
      DEF Ended, Next, Tick, StartGeneration, CompileBatch, StopBenchmarking, AtBench, Skip,
         Settle, Launch, Timed, Retry, MayRetry, HangInBatch, InWorker, Unwound, FallBack, Poisoned,
         EndBatch, VerifyInProcess, RetimingHangs, LoadFails, Finalize, KeepBest, Leads, Contested,
         InFinal, FinalInProcess, FinalHangs, RoundsInProcess, RoundsHang, FinishingRound,
         FinishingMeasured, Reverify, ReverifyInProcess, Judge, Combine, JudgeCombined
    <3> QED
      BY <3>1
  <2> QED
    BY <2>2, <2>3, <2>4, <2>5
<1>3. Unseen
  BY <1>1, <1>2 DEF Unseen, Verdict
<1> QED
  BY <1>1, <1>3, UnseenIsStutter

\* ImplementsVerdicts: the tables of a flash search implement SourceVerdicts,
\* and outside a flash search they stay empty.
THEOREM SearchImplementsVerdicts == Spec => ImplementsVerdicts
<1>1. Init => Verdicts!Init
  <2> SUFFICES ASSUME Init PROVE Verdicts!Init
    OBVIOUS
  <2>1. [s \in Sources |-> Verdict(s)] = [s \in Sources |-> "unknown"]
    BY DEF Init, Verdict
  <2>2. (IF flash THEN SourcesOf(selected) ELSE {}) = {} /\ (flash /\ Ended /\ ~open) = FALSE
    BY DEF Init, SourcesOf, Ended
  <2> QED
    BY <2>1, <2>2 DEF Verdicts!Init
<1>2. Inv /\ [Next]_vars => [Verdicts!Next]_(Verdicts!vars)
  <2> SUFFICES ASSUME Inv, [Next]_vars PROVE Verdicts!Next \/ UNCHANGED Verdicts!vars
    OBVIOUS
  <2>1. CASE UNCHANGED vars
    <3>1. Unseen /\ flash' = flash
      BY <2>1 DEF Unseen, Verdict, Ended, vars, mode, tables
    <3> QED
      BY <3>1, UnseenIsStutter
  <2>2. CASE Next /\ flash
    BY <2>2, BatchRefines, DisqualifyRefines, SelectRefines, TeardownRefines, OthersStutter
  <2>3. CASE Next /\ ~flash
    <3>1. ~flash' /\ flash \in BOOLEAN /\ flash' \in BOOLEAN
      BY <2>3, FlashIsConstant DEF Inv, TypeOK
    <3>2. [s \in Sources |-> Verdict(s)]' = [s \in Sources |-> Verdict(s)]
      BY <2>3, <3>1 DEF Verdict
    <3> QED
      BY <2>3, <3>1, <3>2 DEF Verdicts!vars
  <2> QED
    BY <2>1, <2>2, <2>3
<1> QED
  BY <1>1, <1>2, Invariant, PTL DEF Spec, ImplementsVerdicts, Verdicts!Spec

=============================================================================
