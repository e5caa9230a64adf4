------------------------ MODULE RankedSearchProofs ------------------------
(***************************************************************************)
(* Theorems about RankedSearch, for any number of ranks, configs and       *)
(* generations: when the search asks its peers about the budget and the    *)
(* ranks meet the same fates (Agreed), every rank makes the same           *)
(* collectives with the same outcome.                                      *)
(*                                                                         *)
(* The idea is Meeting: from what a rank knows between two collectives     *)
(* follows at which collective, of which config of which generation, it    *)
(* will be next and what its results and fates will be then.  No step of a *)
(* rank changes its meeting, a collective moves those of all ranks at      *)
(* once, and so they are always the same.  The one thing a rank learns     *)
(* alone is the fate of the config it compiles; the first to learn it      *)
(* settles it for all.                                                     *)
(***************************************************************************)
EXTENDS RankedSearch, WellFoundedInduction, TLAPS

Agreed == SyncedRounds /\ ~CompileMayDiffer /\ ~RunMayDiffer

NoFates == [c \in Batch |-> "?"]
NoResults == [c \in Batch |-> "inf"]

\* A launch that waits for nobody is no meeting: the next one is.
Launched(a) == IF KernelWaits THEN a ELSE
  CASE a = "launch" -> "accurate"
    [] a = "time" -> "estimate"
    [] a = "repeat" -> "resize"
    [] a \in {"often", "sample"} -> "report"
    [] OTHER -> a

\* A collective or an end, and what a rank holds there.
Place(a, g, c, r, f) ==
  [at |-> Launched(a), gen |-> g, cfg |-> c, result |-> r, fate |-> f]

\* Where the boundary of generation g leads to.
AfterBoundary(g, c, r, f) == Place(IF g = Generations THEN "final" ELSE "range", g, c, r, f)

\* Where the end of a batch leads to.
AfterBatch(g, c, r, f) ==
  IF g = 0 /\ Finite(r) = {} THEN Place("raised", g, c, r, f)
  ELSE IF Cardinality(Finite(r)) >= 2 THEN Place("verify", g, c, r, f)
  ELSE AfterBoundary(g, c, r, f)

\* Where the benchmark loop leads to after config d.
Onward(d, g, c, r, f) ==
  IF Later(f, d) = {} THEN AfterBatch(g, c, r, f)
  ELSE Place("trial", g, Min(Later(f, d)), r, f)

\* Where a config that is settled with x leads to.
Settled(x, g, c, r, f) == Onward(c, g, c, [r EXCEPT ![c] = x], f)

\* Where the compile loop leads to if the config at hand has fate F[c].
AfterCompile(F, g, c, r, f) ==
  IF c < Configs THEN Place("cut", g, c + 1, r, [f EXCEPT ![c] = F[c]])
  ELSE IF F[c] = "nocode" /\ CompiledIn(f) = {} /\ g = 0
       THEN Place("raised", g, c, r, [f EXCEPT ![c] = F[c]])
       ELSE Onward(0, g, c, r, [f EXCEPT ![c] = F[c]])

AfterRun(a, g, c, r, f) ==
  CASE f[c] = "fails" -> Settled("inf", g, c, r, f)
    [] f[c] = "raises" -> Place("raised", g, c, r, f)
    [] OTHER -> Place(a, g, c, r, f)

\* Where a rank that has heard h in the collective a goes on to.
After(F, a, h, g, c, r, f) ==
  CASE a = "cut" -> IF TRUE \in h THEN Onward(0, g, c, r, f) ELSE AfterCompile(F, g, c, r, f)
    [] a = "trial" -> IF TRUE \in h THEN AfterBatch(g, c, r, f) ELSE Place("working", g, c, r, f)
    [] a = "working" ->
         IF FALSE \in h THEN Settled("inf", g, c, r, f) ELSE Place("built", g, c, r, f)
    [] a = "built" ->
         IF FALSE \in h THEN Settled("inf", g, c, r, f) ELSE AfterRun("launch", g, c, r, f)
    [] a = "launch" -> Place("accurate", g, c, r, f)
    [] a = "accurate" ->
         IF FALSE \in h \/ f[c] = "fails late" THEN Settled("inf", g, c, r, f)
         ELSE Place("time", g, c, r, f)
    [] a = "time" -> Place("estimate", g, c, r, f)
    [] a = "estimate" -> Place(IF TRUE \in h THEN "report" ELSE "repeat", g, c, r, f)
    [] a = "repeat" -> Place("resize", g, c, r, f)
    [] a = "resize" -> Place(IF TRUE \in h THEN "sample" ELSE "often", g, c, r, f)
    [] a = "often" -> Place("sample", g, c, r, f)
    [] a = "sample" -> Place("report", g, c, r, f)
    [] a = "report" -> Settled(IF TRUE \in h THEN "fast" ELSE "slow", g, c, r, f)
    [] a = "verify" -> AfterBoundary(g, c, r, f)
    [] a = "range" ->
         IF TRUE \in h THEN Place("final", g, c, r, f)
         ELSE Place("cut", g + 1, 1, NoResults, NoFates)
    [] a = "final" ->
         IF TRUE \notin h /\ Cardinality(Finite(r)) >= 2 THEN Place("finalists", g, c, r, f)
         ELSE Place("done", g, c, r, f)
    [] OTHER -> Place("done", g, c, r, f)

\* Where a rank that is not in a collective goes to from a local point.
FromLocal(a, g, c, r, f) ==
  CASE a = "begin" -> Place("cut", g, 1, NoResults, NoFates)
    [] a = "precompile" -> Onward(0, g, c, r, f)
    [] a = "boundary" -> AfterBoundary(g, c, r, f)
    [] OTHER -> Place("final", g, c, r, f)

Meet(F, a, w, h, g, c, r, f) ==
  IF w \/ a \in Ends THEN Place(a, g, c, r, f)
  ELSE IF a \in Local THEN FromLocal(a, g, c, r, f)
  ELSE After(F, a, h, g, c, r, f)

\* The collective rank p is in or goes to, or its end.
Meeting(F, p) == Meet(F, at[p], waiting[p], heard[p], gen[p], cfg[p], result[p], fate[p])

\* Rank p has come from a collective and done nothing since.
Fresh(p) == ~waiting[p] /\ at[p] \notin Ends \cup Local /\ (at[p] \in Launches => KernelWaits)

SameMeeting(F) == \A p, q \in Ranks : Meeting(F, p) = Meeting(F, q)

SameOrigin ==
  \A p, q \in Ranks : Fresh(p) /\ Fresh(q) =>
    /\ at[p] = at[q] /\ heard[p] = heard[q] /\ gen[p] = gen[q] /\ cfg[p] = cfg[q]
    /\ result[p] = result[q] /\ fate[p] = fate[q]

Together == (\E F \in [Batch -> Fates] : SameMeeting(F)) /\ SameOrigin

\* A vote about the budget is the clock of the rank, and what was heard of such
\* votes some clock still says.
Clocked == {"cut", "trial", "range", "final"}
ClockInv ==
  /\ \A p \in Ranks : waiting[p] /\ at[p] \in Clocked /\ vote[p] => late[p]
  /\ \A p \in Ranks : Fresh(p) /\ at[p] \in Clocked /\ TRUE \in heard[p] => \E q \in Ranks : late[q]
  /\ CutoffIsReal

\* What a rank says of its binary is so, and who goes on has heard it of all.
RunPlaces ==
  {"launch", "accurate", "time", "estimate", "repeat", "resize", "often", "sample", "report"}
BuiltInv ==
  /\ \A p \in Ranks : waiting[p] /\ at[p] = "built" /\ vote[p] => cfg[p] \in built[p]
  /\ \A p \in Ranks :
       at[p] \in RunPlaces \/ (Fresh(p) /\ at[p] = "built" /\ FALSE \notin heard[p]) =>
         \A q \in Ranks : cfg[p] \in built[q]

-----------------------------------------------------------------------------
\* A set of configs that is not empty has a least one.
LEMMA MinIsConfig ==
  ASSUME NEW S \in SUBSET Batch, S # {}
  PROVE  Min(S) \in S
<1>1. S \subseteq Nat
  BY SizesAssumption DEF Batch
<1>2. PICK x \in S : \A y \in S : ~ (<<y, x>> \in OpToRel(<, Nat))
  BY <1>1, NatLessThanWellFounded, WFMin
<1>3. \A y \in S : x <= y
  <2> TAKE y \in S
  <2>1. x \in Nat /\ y \in Nat /\ ~(y < x)
    BY <1>1, <1>2 DEF OpToRel
  <2> QED
    BY <2>1
<1> QED
  BY <1>2, <1>3 DEF Min

\* The next config to benchmark is one of the batch.
LEMMA LaterIsBatch ==
  ASSUME NEW row, NEW d, Later(row, d) # {}
  PROVE  Min(Later(row, d)) \in Batch
<1>1. Later(row, d) \in SUBSET Batch
  BY DEF Later, CompiledIn
<1> QED
  BY <1>1, MinIsConfig

Places == Gathers \cup Broadcasts \cup Launches \cup Ends \cup Local

\* The types of a rank's place and of what it says and hears.
CallOK ==
  /\ at \in [Ranks -> Places]
  /\ waiting \in [Ranks -> BOOLEAN] /\ vote \in [Ranks -> BOOLEAN]
  /\ heard \in [Ranks -> SUBSET BOOLEAN]

\* The types of its batch.
BatchOK ==
  /\ gen \in [Ranks -> 0..Generations] /\ cfg \in [Ranks -> Batch]
  /\ fate \in [Ranks -> [Batch -> Fates \cup {"?"}]]
  /\ working \in [Ranks -> SUBSET Batch] /\ built \in [Ranks -> SUBSET Batch]
  /\ result \in [Ranks -> [Batch -> Perfs]]
  /\ late \in [Ranks -> BOOLEAN] /\ cut \in [Ranks -> BOOLEAN]

\* The type invariant has these two parts.
LEMMA TypesParted == TypeOK <=> CallOK /\ BatchOK
BY DEF TypeOK, CallOK, BatchOK, Places

\* A rank asks about the budget only when a generation is left.
RangeInv == \A p \in Ranks : at[p] = "range" => gen[p] < Generations

\* Entering a collective and going on keep the types.
LEMMA CallTypes ==
  ASSUME NEW p \in Ranks, CallOK, NEW a \in Places, NEW v \in BOOLEAN, Call(p, a, v)
  PROVE  CallOK'
BY DEF CallOK, Call

\* Going on without a collective keeps the types of a place.
LEMMA GotoTypes ==
  ASSUME NEW p \in Ranks, CallOK, NEW a \in Places, Goto(p, a)
  PROVE  CallOK'
BY DEF CallOK, Goto

\* So does the end of a batch.
LEMMA EndBatchTypes ==
  ASSUME NEW p \in Ranks, CallOK, EndBatch(p)
  PROVE  CallOK'
<1>1. {"raised", "verify", "boundary"} \subseteq Places
  BY DEF Places, Gathers, Broadcasts, Launches, Ends, Local
<1> QED
  BY <1>1, CallTypes, GotoTypes DEF EndBatch

\* And the next turn of the benchmark loop.
LEMMA ContinueTypes ==
  ASSUME NEW p \in Ranks, CallOK, BatchOK, NEW c, Continue(p, c)
  PROVE  CallOK' /\ cfg' \in [Ranks -> Batch]
<1>1. CASE Later(fate[p], c) = {}
  BY <1>1, EndBatchTypes DEF Continue, BatchOK
<1>2. CASE Later(fate[p], c) # {}
  <2>1. "trial" \in Places /\ late[p] \in BOOLEAN
    BY DEF Places, Gathers, BatchOK
  <2>2. Min(Later(fate[p], c)) \in Batch
    BY <1>2, LaterIsBatch
  <2> QED
    BY <1>2, <2>1, <2>2, CallTypes DEF Continue, BatchOK
<1> QED
  BY <1>1, <1>2

\* Settling a config keeps all types.
LEMMA SettleTypes ==
  ASSUME NEW p \in Ranks, CallOK, BatchOK, NEW x \in Perfs, Settle(p, x)
  PROVE  CallOK' /\ BatchOK'
<1>1. CallOK' /\ cfg' \in [Ranks -> Batch]
  BY ContinueTypes DEF Settle
<1>2. result' \in [Ranks -> [Batch -> Perfs]]
  BY DEF Settle, BatchOK
<1> QED
  BY <1>1, <1>2 DEF Settle, BatchOK

\* The places that the actions name.
LEMMA PlaceNames ==
  {"cut", "precompile", "raised", "verify", "boundary", "trial", "working", "built", "launch",
   "accurate", "time", "estimate", "repeat", "resize", "often", "sample", "report", "range",
   "leave", "begin", "final", "finalists", "done"} \subseteq Places
BY DEF Places, Gathers, Broadcasts, Launches, Ends, Local

\* A step of a rank keeps the types.
LEMMA RankTypes ==
  ASSUME NEW p \in Ranks, CallOK, BatchOK, RangeInv, Rank(p)
  PROVE  CallOK' /\ BatchOK'
<1>1. CASE Begin(p)
  <2>1. CallOK'
    BY <1>1, PlaceNames, CallTypes DEF Begin, BatchOK
  <2>2. 1 \in Batch /\ "inf" \in Perfs
    BY SizesAssumption DEF Batch, Perfs
  <2>3. /\ cfg' \in [Ranks -> Batch] /\ fate' \in [Ranks -> [Batch -> Fates \cup {"?"}]]
        /\ result' \in [Ranks -> [Batch -> Perfs]]
    BY <1>1, <2>2 DEF Begin, BatchOK
  <2>4. working' \in [Ranks -> SUBSET Batch] /\ built' \in [Ranks -> SUBSET Batch]
    BY <1>1 DEF Begin, BatchOK
  <2> QED
    BY <1>1, <2>1, <2>3, <2>4 DEF Begin, BatchOK
<1>2. CASE StopCompiling(p)
  <2>1. CallOK'
    BY <1>2, PlaceNames, CallTypes, GotoTypes DEF StopCompiling, BatchOK
  <2>2. BatchOK'
    BY <1>2 DEF StopCompiling, CutShort, BatchOK
  <2> QED
    BY <2>1, <2>2
<1>3. CASE \E f \in Fates : Compile(p, f)
  <2> SUFFICES ASSUME NEW f \in Fates, Compile(p, f) PROVE CallOK' /\ BatchOK'
    BY <1>3
  <2>1. CallOK'
    BY PlaceNames, CallTypes, GotoTypes DEF Compile, BatchOK
  <2>2. cfg' \in [Ranks -> Batch]
    <3>1. cfg[p] < Configs => cfg[p] + 1 \in Batch
      BY SizesAssumption DEF BatchOK, Batch
    <3> QED
      BY <3>1 DEF Compile, BatchOK
  <2>3. fate' \in [Ranks -> [Batch -> Fates \cup {"?"}]]
    BY DEF Compile, BatchOK
  <2> QED
    BY <2>1, <2>2, <2>3 DEF Compile, BatchOK
<1>4. CASE \E good \in SUBSET Batch : Precompile(p, good)
  <2> SUFFICES ASSUME NEW good \in SUBSET Batch, Precompile(p, good) PROVE CallOK' /\ BatchOK'
    BY <1>4
  <2>1. CallOK' /\ cfg' \in [Ranks -> Batch]
    BY ContinueTypes DEF Precompile
  <2> QED
    BY <2>1 DEF Precompile, BatchOK
<1>5. CASE StopBenchmarking(p)
  <2>1. CallOK'
    BY <1>5, PlaceNames, EndBatchTypes DEF StopBenchmarking, BatchOK
  <2>2. BatchOK'
    BY <1>5 DEF StopBenchmarking, CutShort, BatchOK
  <2> QED
    BY <2>1, <2>2
<1>6. CASE AskWorking(p)
  <2>1. CallOK'
    <3>1. (cfg[p] \in working[p]) \in BOOLEAN
      OBVIOUS
    <3> QED
      BY <1>6, <3>1, PlaceNames, CallTypes DEF AskWorking
  <2>2. BatchOK'
    BY <1>6 DEF AskWorking, CutShort, BatchOK
  <2> QED
    BY <2>1, <2>2
<1>7. CASE NotWorking(p)
  BY <1>7, SettleTypes DEF NotWorking, Perfs
<1>8. CASE \E success \in BOOLEAN : TritonCompile(p, success)
  <2>1. CallOK'
    BY <1>8, PlaceNames, CallTypes, GotoTypes DEF TritonCompile, BatchOK
  <2>2. BatchOK'
    BY <1>8 DEF TritonCompile, CutShort, BatchOK
  <2> QED
    BY <2>1, <2>2
<1>9. CASE NotBuilt(p)
  BY <1>9, SettleTypes DEF NotBuilt, Perfs
<1>10. CASE FirstRun(p)
  <2>1. CallOK'
    BY <1>10, PlaceNames, CallTypes, GotoTypes DEF FirstRun, BatchOK
  <2>2. BatchOK'
    BY <1>10 DEF FirstRun, CutShort, BatchOK
  <2> QED
    BY <2>1, <2>2
<1>11. CASE FirstRunFails(p)
  BY <1>11, SettleTypes DEF FirstRunFails, Perfs
<1>12. CASE FirstRunRaises(p)
  <2>1. CallOK'
    BY <1>12, PlaceNames, CallTypes, GotoTypes DEF FirstRunRaises, BatchOK
  <2>2. BatchOK'
    BY <1>12 DEF FirstRunRaises, CutShort, BatchOK
  <2> QED
    BY <2>1, <2>2
<1>13. CASE \E pass \in BOOLEAN : Validate(p, pass)
  <2>1. CallOK'
    BY <1>13, PlaceNames, CallTypes, GotoTypes DEF Validate, BatchOK
  <2>2. BatchOK'
    BY <1>13 DEF Validate, CutShort, BatchOK
  <2> QED
    BY <2>1, <2>2
<1>14. CASE NotAccurate(p)
  BY <1>14, SettleTypes DEF NotAccurate, Perfs
<1>15. CASE Time(p)
  <2>1. CallOK'
    BY <1>15, PlaceNames, CallTypes, GotoTypes DEF Time, BatchOK
  <2>2. BatchOK'
    BY <1>15 DEF Time, CutShort, BatchOK
  <2> QED
    BY <2>1, <2>2
<1>16. CASE TimeFails(p)
  BY <1>16, SettleTypes DEF TimeFails, Perfs
<1>17. CASE \E long \in BOOLEAN : Estimate(p, long)
  <2>1. CallOK'
    BY <1>17, PlaceNames, CallTypes, GotoTypes DEF Estimate, BatchOK
  <2>2. BatchOK'
    BY <1>17 DEF Estimate, CutShort, BatchOK
  <2> QED
    BY <2>1, <2>2
<1>18. CASE Repeat(p)
  <2>1. CallOK'
    BY <1>18, PlaceNames, CallTypes, GotoTypes DEF Repeat, BatchOK
  <2>2. BatchOK'
    BY <1>18 DEF Repeat, CutShort, BatchOK
  <2> QED
    BY <2>1, <2>2
<1>19. CASE \E slow \in BOOLEAN : Resize(p, slow)
  <2>1. CallOK'
    BY <1>19, PlaceNames, CallTypes, GotoTypes DEF Resize, BatchOK
  <2>2. BatchOK'
    BY <1>19 DEF Resize, CutShort, BatchOK
  <2> QED
    BY <2>1, <2>2
<1>20. CASE RunOften(p)
  <2>1. CallOK'
    BY <1>20, PlaceNames, CallTypes, GotoTypes DEF RunOften, BatchOK
  <2>2. BatchOK'
    BY <1>20 DEF RunOften, CutShort, BatchOK
  <2> QED
    BY <2>1, <2>2
<1>21. CASE Sample(p)
  <2>1. CallOK'
    BY <1>21, PlaceNames, CallTypes, GotoTypes DEF Sample, BatchOK
  <2>2. BatchOK'
    BY <1>21 DEF Sample, CutShort, BatchOK
  <2> QED
    BY <2>1, <2>2
<1>22. CASE \E fast \in BOOLEAN : Report(p, fast)
  <2>1. CallOK'
    BY <1>22, PlaceNames, CallTypes, GotoTypes DEF Report, BatchOK
  <2>2. BatchOK'
    BY <1>22 DEF Report, CutShort, BatchOK
  <2> QED
    BY <2>1, <2>2
<1>23. CASE Measured(p)
  BY <1>23, SettleTypes DEF Measured, Perfs
<1>24. CASE AskBudget(p)
  <2>1. CallOK'
    BY <1>24, PlaceNames, CallTypes, GotoTypes DEF AskBudget, LastGeneration, BatchOK
  <2>2. BatchOK'
    BY <1>24 DEF AskBudget, LastGeneration, CutShort, BatchOK
  <2> QED
    BY <2>1, <2>2
<1>25. CASE RangeEnds(p)
  <2>1. CallOK'
    BY <1>25, PlaceNames, CallTypes, GotoTypes DEF RangeEnds, BatchOK
  <2>2. BatchOK'
    BY <1>25 DEF RangeEnds, CutShort, BatchOK
  <2> QED
    BY <2>1, <2>2
<1>26. CASE NextGeneration(p)
  <2>1. CallOK'
    BY <1>26, PlaceNames, GotoTypes DEF NextGeneration
  <2>2. gen[p] < Generations
    <3>1. gen[p] \in 0..Generations
      BY DEF BatchOK
    <3>2. at[p] = "range" \/ gen[p] # Generations
      BY <1>26 DEF NextGeneration, BudgetSays, Back, LastGeneration
    <3> QED
      BY <3>1, <3>2, SizesAssumption DEF RangeInv
  <2>3. gen[p] + 1 \in 0..Generations
    BY <2>2, SizesAssumption DEF BatchOK
  <2>4. BatchOK'
    BY <1>26, <2>3 DEF NextGeneration, BatchOK
  <2> QED
    BY <2>1, <2>4
<1>27. CASE RangeIsOver(p)
  <2>1. CallOK'
    BY <1>27, PlaceNames, CallTypes, GotoTypes DEF RangeIsOver, BatchOK
  <2>2. BatchOK'
    BY <1>27 DEF RangeIsOver, CutShort, BatchOK
  <2> QED
    BY <2>1, <2>2
<1>28. CASE Finalize(p)
  <2>1. CallOK'
    BY <1>28, PlaceNames, CallTypes, GotoTypes DEF Finalize, Verify, BatchOK
  <2>2. BatchOK'
    BY <1>28 DEF Finalize, Verify, CutShort, BatchOK
  <2> QED
    BY <2>1, <2>2
<1>29. CASE FinalHeard(p)
  <2>1. CallOK'
    BY <1>29, PlaceNames, CallTypes, GotoTypes DEF FinalHeard, Verify, BatchOK
  <2>2. BatchOK'
    BY <1>29 DEF FinalHeard, Verify, CutShort, BatchOK
  <2> QED
    BY <2>1, <2>2
<1>30. CASE Verified(p)
  <2>1. CallOK'
    BY <1>30, PlaceNames, CallTypes, GotoTypes DEF Verified, BatchOK
  <2>2. BatchOK'
    BY <1>30 DEF Verified, CutShort, BatchOK
  <2> QED
    BY <2>1, <2>2
<1> QED
  BY <1>1, <1>2, <1>3, <1>4, <1>5, <1>6, <1>7, <1>8, <1>9, <1>10, <1>11, <1>12, <1>13, <1>14,
     <1>15, <1>16, <1>17, <1>18, <1>19, <1>20, <1>21, <1>22, <1>23, <1>24, <1>25, <1>26, <1>27,
     <1>28, <1>29, <1>30 DEF Rank

\* The other ranks are where they were.
Others(p) ==
  \A q \in Ranks \ {p} :
    /\ at'[q] = at[q] /\ waiting'[q] = waiting[q] /\ vote'[q] = vote[q] /\ heard'[q] = heard[q]
    /\ gen'[q] = gen[q] /\ cfg'[q] = cfg[q] /\ fate'[q] = fate[q] /\ result'[q] = result[q]
    /\ built'[q] = built[q] /\ cut'[q] = cut[q]

\* Entering a collective or going on moves one rank.
LEMMA CallOthers ==
  ASSUME NEW p \in Ranks, CallOK, NEW a, NEW v, Call(p, a, v) \/ Goto(p, a)
  PROVE  \A q \in Ranks \ {p} :
           at'[q] = at[q] /\ waiting'[q] = waiting[q] /\ vote'[q] = vote[q] /\ heard'[q] = heard[q]
BY DEF CallOK, Call, Goto

\* So does the end of a batch.
LEMMA EndBatchOthers ==
  ASSUME NEW p \in Ranks, CallOK, EndBatch(p)
  PROVE  \A q \in Ranks \ {p} :
           at'[q] = at[q] /\ waiting'[q] = waiting[q] /\ vote'[q] = vote[q] /\ heard'[q] = heard[q]
BY CallOthers DEF EndBatch

\* And the next turn of the benchmark loop.
LEMMA ContinueOthers ==
  ASSUME NEW p \in Ranks, CallOK, BatchOK, NEW c, Continue(p, c)
  PROVE  \A q \in Ranks \ {p} :
           /\ at'[q] = at[q] /\ waiting'[q] = waiting[q] /\ vote'[q] = vote[q]
           /\ heard'[q] = heard[q] /\ cfg'[q] = cfg[q]
BY CallOthers, EndBatchOthers DEF Continue, BatchOK

\* A step of a rank moves no other one.
LEMMA RankOthers ==
  ASSUME NEW p \in Ranks, CallOK, BatchOK, Rank(p)
  PROVE  Others(p)
<1> USE DEF Others, BatchOK, CutShort
<1>1. CASE Begin(p)
  BY <1>1, CallOthers DEF Begin
<1>2. CASE StopCompiling(p)
  BY <1>2, CallOthers DEF StopCompiling
<1>3. CASE \E f \in Fates : Compile(p, f)
  BY <1>3, CallOthers DEF Compile
<1>4. CASE \E good \in SUBSET Batch : Precompile(p, good)
  BY <1>4, ContinueOthers DEF Precompile
<1>5. CASE StopBenchmarking(p)
  BY <1>5, EndBatchOthers DEF StopBenchmarking
<1>6. CASE AskWorking(p)
  BY <1>6, CallOthers DEF AskWorking
<1>7. CASE NotWorking(p)
  BY <1>7, ContinueOthers DEF NotWorking, Settle
<1>8. CASE \E success \in BOOLEAN : TritonCompile(p, success)
  BY <1>8, CallOthers DEF TritonCompile
<1>9. CASE NotBuilt(p)
  BY <1>9, ContinueOthers DEF NotBuilt, Settle
<1>10. CASE FirstRun(p)
  BY <1>10, CallOthers DEF FirstRun
<1>11. CASE FirstRunFails(p)
  BY <1>11, ContinueOthers DEF FirstRunFails, Settle
<1>12. CASE FirstRunRaises(p)
  BY <1>12, CallOthers DEF FirstRunRaises
<1>13. CASE \E pass \in BOOLEAN : Validate(p, pass)
  BY <1>13, CallOthers DEF Validate
<1>14. CASE NotAccurate(p)
  BY <1>14, ContinueOthers DEF NotAccurate, Settle
<1>15. CASE Time(p)
  BY <1>15, CallOthers DEF Time
<1>16. CASE TimeFails(p)
  BY <1>16, ContinueOthers DEF TimeFails, Settle
<1>17. CASE \E long \in BOOLEAN : Estimate(p, long)
  BY <1>17, CallOthers DEF Estimate
<1>18. CASE Repeat(p)
  BY <1>18, CallOthers DEF Repeat
<1>19. CASE \E slow \in BOOLEAN : Resize(p, slow)
  BY <1>19, CallOthers DEF Resize
<1>20. CASE RunOften(p)
  BY <1>20, CallOthers DEF RunOften
<1>21. CASE Sample(p)
  BY <1>21, CallOthers DEF Sample
<1>22. CASE \E fast \in BOOLEAN : Report(p, fast)
  BY <1>22, CallOthers DEF Report
<1>23. CASE Measured(p)
  BY <1>23, ContinueOthers DEF Measured, Settle
<1>24. CASE AskBudget(p)
  BY <1>24, CallOthers DEF AskBudget
<1>25. CASE RangeEnds(p)
  BY <1>25, CallOthers DEF RangeEnds
<1>26. CASE NextGeneration(p)
  BY <1>26, CallOthers DEF NextGeneration
<1>27. CASE RangeIsOver(p)
  BY <1>27, CallOthers DEF RangeIsOver
<1>28. CASE Finalize(p)
  BY <1>28, CallOthers DEF Finalize, Verify
<1>29. CASE FinalHeard(p)
  BY <1>29, CallOthers DEF FinalHeard, Verify
<1>30. CASE Verified(p)
  BY <1>30, CallOthers DEF Verified
<1> QED
  BY <1>1, <1>2, <1>3, <1>4, <1>5, <1>6, <1>7, <1>8, <1>9, <1>10, <1>11, <1>12, <1>13, <1>14,
     <1>15, <1>16, <1>17, <1>18, <1>19, <1>20, <1>21, <1>22, <1>23, <1>24, <1>25, <1>26, <1>27,
     <1>28, <1>29, <1>30 DEF Rank

\* Only a collective keeps a rank waiting.
WaitInv == \A p \in Ranks : waiting[p] => at[p] \notin Local \cup Ends

\* What a call, going on, the end of a batch and the benchmark loop mean for
\* the meeting of a rank.
LEMMA CallMeets ==
  ASSUME NEW p \in Ranks, CallOK, NEW F, NEW a, NEW v, Call(p, a, v)
  PROVE  Meeting(F, p)' = Place(a, gen'[p], cfg'[p], result'[p], fate'[p])
BY DEF CallOK, Call, Meeting, Meet

\* Going on leads to the meeting of the local point or to an end.
LEMMA GotoMeets ==
  ASSUME NEW p \in Ranks, CallOK, ~waiting[p], NEW F, NEW a \in Local \cup Ends, Goto(p, a)
  PROVE  Meeting(F, p)' = IF a \in Ends THEN Place(a, gen'[p], cfg'[p], result'[p], fate'[p])
                          ELSE FromLocal(a, gen'[p], cfg'[p], result'[p], fate'[p])
BY DEF CallOK, Goto, Meeting, Meet

\* The end of a batch.
LEMMA EndBatchMeets ==
  ASSUME NEW p \in Ranks, CallOK, ~waiting[p], NEW F, EndBatch(p), gen' = gen
  PROVE  Meeting(F, p)' = AfterBatch(gen[p], cfg'[p], result'[p], fate'[p])
<1>1. CASE gen[p] = 0 /\ Finite(result'[p]) = {}
  <2>1. "raised" \in Ends /\ Goto(p, "raised")
    BY <1>1 DEF EndBatch, Ends
  <2> QED
    BY <1>1, <2>1, GotoMeets DEF AfterBatch
<1>2. CASE ~(gen[p] = 0 /\ Finite(result'[p]) = {}) /\ Contended(p)
  <2>1. Call(p, "verify", TRUE)
    BY <1>2 DEF EndBatch
  <2> QED
    BY <1>2, <2>1, CallMeets DEF AfterBatch, Contended
<1>3. CASE ~(gen[p] = 0 /\ Finite(result'[p]) = {}) /\ ~Contended(p)
  <2>1. "boundary" \in Local /\ "boundary" \notin Ends /\ Goto(p, "boundary")
    BY <1>3 DEF EndBatch, Local, Ends
  <2>2. Meeting(F, p)' = FromLocal("boundary", gen'[p], cfg'[p], result'[p], fate'[p])
    BY <2>1, GotoMeets
  <2> QED
    BY <1>3, <2>2 DEF AfterBatch, Contended, FromLocal
<1> QED
  BY <1>1, <1>2, <1>3

\* The next turn of the benchmark loop.
LEMMA ContinueMeets ==
  ASSUME NEW p \in Ranks, CallOK, BatchOK, ~waiting[p], NEW F, NEW d, Continue(p, d),
         gen' = gen, fate' = fate
  PROVE  Meeting(F, p)' = Onward(d, gen[p], cfg[p], result'[p], fate[p])
<1>1. CASE Later(fate[p], d) = {}
  <2>1. EndBatch(p) /\ cfg' = cfg
    BY <1>1 DEF Continue
  <2> QED
    BY <1>1, <2>1, EndBatchMeets DEF Onward
<1>2. CASE Later(fate[p], d) # {}
  <2>1. Call(p, "trial", late[p]) /\ cfg'[p] = Min(Later(fate[p], d))
    BY <1>2 DEF Continue, BatchOK
  <2>2. Meeting(F, p)' = Place("trial", gen'[p], cfg'[p], result'[p], fate'[p])
    BY <2>1, CallMeets
  <2> QED
    BY <1>2, <2>1, <2>2 DEF Onward
<1> QED
  BY <1>1, <1>2

\* A config that is settled.
LEMMA SettleMeets ==
  ASSUME NEW p \in Ranks, CallOK, BatchOK, ~waiting[p], NEW F, NEW x, Settle(p, x)
  PROVE  Meeting(F, p)' = Settled(x, gen[p], cfg[p], result[p], fate[p])
<1>1. result'[p] = [result[p] EXCEPT ![cfg[p]] = x]
  BY DEF Settle, BatchOK
<1>2. Continue(p, cfg[p]) /\ gen' = gen /\ fate' = fate
  BY DEF Settle
<1> QED
  BY <1>1, <1>2, ContinueMeets DEF Settled

\* What a rank's meeting is before it goes on.
LEMMA BackMeets ==
  ASSUME NEW p \in Ranks, NEW a, Back(p, a), a \notin Ends \cup Local, NEW F
  PROVE  Meeting(F, p) = After(F, a, heard[p], gen[p], cfg[p], result[p], fate[p])
BY DEF Back, Meeting, Meet

\* And before it leaves a local point.
LEMMA LocalMeets ==
  ASSUME NEW p \in Ranks, WaitInv, NEW a \in Local, at[p] = a, NEW F
  PROVE  /\ Meeting(F, p) = FromLocal(a, gen[p], cfg[p], result[p], fate[p])
         /\ ~waiting[p]
BY DEF WaitInv, Meeting, Meet, Local, Ends

-----------------------------------------------------------------------------
\* Where rank p has arrived is where it may be.
Arrived(p) ==
  /\ at[p] = "range" => gen[p] < Generations
  /\ waiting[p] <=> at[p] \notin Local \cup Ends

\* Where a call, going on, the end of a batch and the benchmark loop arrive.
LEMMA CallArrives ==
  ASSUME NEW p \in Ranks, CallOK, NEW a, NEW v \in BOOLEAN, Call(p, a, v)
  PROVE  at'[p] = a /\ waiting'[p]
BY DEF CallOK, Call

\* What a call says.
LEMMA CallSays ==
  ASSUME NEW p \in Ranks, CallOK, NEW a, NEW v \in BOOLEAN, Call(p, a, v)
  PROVE  vote'[p] = v
BY DEF CallOK, Call

\* Going on.
LEMMA GotoArrives ==
  ASSUME NEW p \in Ranks, CallOK, NEW a, Goto(p, a)
  PROVE  at'[p] = a /\ waiting'[p] = waiting[p]
BY DEF CallOK, Goto

\* The end of a batch.
LEMMA EndBatchArrives ==
  ASSUME NEW p \in Ranks, CallOK, ~waiting[p], EndBatch(p)
  PROVE  \/ at'[p] \in {"raised", "boundary"} /\ ~waiting'[p]
         \/ at'[p] = "verify" /\ waiting'[p]
<1>1. CASE Goto(p, "raised") \/ Goto(p, "boundary")
  BY <1>1, GotoArrives
<1>2. CASE Call(p, "verify", TRUE)
  BY <1>2 DEF Call, CallOK
<1> QED
  BY <1>1, <1>2 DEF EndBatch

\* The benchmark loop.
LEMMA ContinueArrives ==
  ASSUME NEW p \in Ranks, CallOK, ~waiting[p], NEW d, Continue(p, d)
  PROVE  \/ at'[p] \in {"raised", "boundary"} /\ ~waiting'[p]
         \/ at'[p] = "verify" /\ waiting'[p]
         \/ at'[p] = "trial" /\ waiting'[p]
BY GotoArrives, EndBatchArrives DEF Continue, Call, CallOK

\* A step of a rank takes it where it may be.
LEMMA RankArrives ==
  ASSUME NEW p \in Ranks, CallOK, BatchOK, WaitInv, Rank(p)
  PROVE  Arrived(p)'
<1> USE DEF Arrived
<1>1. CASE Begin(p)
  BY <1>1, GotoArrives DEF Begin, Local, Ends, Back, Call, CallOK
<1>2. CASE StopCompiling(p)
  BY <1>2, GotoArrives DEF StopCompiling, Local, Ends, Back, Call, CallOK, Goto
<1>3. CASE \E f \in Fates : Compile(p, f)
  BY <1>3, GotoArrives DEF Compile, Local, Ends, Back, Call, CallOK
<1>4. CASE \E good \in SUBSET Batch : Precompile(p, good)
  BY <1>4, ContinueArrives DEF Precompile, Local, Ends, Back, Call, CallOK, WaitInv
<1>5. CASE StopBenchmarking(p)
  BY <1>5, EndBatchArrives DEF StopBenchmarking, Local, Ends, Back, Call, CallOK
<1>6. CASE AskWorking(p)
  BY <1>6, GotoArrives DEF AskWorking, Local, Ends, Back, Call, CallOK
<1>7. CASE NotWorking(p)
  BY <1>7, ContinueArrives DEF NotWorking, Local, Ends, Back, Settle
<1>8. CASE \E success \in BOOLEAN : TritonCompile(p, success)
  BY <1>8, GotoArrives DEF TritonCompile, Local, Ends, Back, Call, CallOK
<1>9. CASE NotBuilt(p)
  BY <1>9, ContinueArrives DEF NotBuilt, Local, Ends, Back, Settle
<1>10. CASE FirstRun(p)
  BY <1>10, GotoArrives DEF FirstRun, Local, Ends, Back, Call, CallOK
<1>11. CASE FirstRunFails(p)
  BY <1>11, ContinueArrives DEF FirstRunFails, Local, Ends, Back, Settle
<1>12. CASE FirstRunRaises(p)
  BY <1>12, GotoArrives DEF FirstRunRaises, Local, Ends, Back, Call, CallOK
<1>13. CASE \E pass \in BOOLEAN : Validate(p, pass)
  BY <1>13, GotoArrives DEF Validate, Local, Ends, Back, Call, CallOK
<1>14. CASE NotAccurate(p)
  BY <1>14, ContinueArrives DEF NotAccurate, Local, Ends, Back, Settle
<1>15. CASE Time(p)
  BY <1>15, GotoArrives DEF Time, Local, Ends, Back, Call, CallOK
<1>16. CASE TimeFails(p)
  BY <1>16, ContinueArrives DEF TimeFails, Local, Ends, Back, Settle
<1>17. CASE \E long \in BOOLEAN : Estimate(p, long)
  BY <1>17, GotoArrives DEF Estimate, Local, Ends, Back, Call, CallOK
<1>18. CASE Repeat(p)
  BY <1>18, GotoArrives DEF Repeat, Local, Ends, Back, Call, CallOK
<1>19. CASE \E slow \in BOOLEAN : Resize(p, slow)
  BY <1>19, GotoArrives DEF Resize, Local, Ends, Back, Call, CallOK
<1>20. CASE RunOften(p)
  BY <1>20, GotoArrives DEF RunOften, Local, Ends, Back, Call, CallOK
<1>21. CASE Sample(p)
  BY <1>21, GotoArrives DEF Sample, Local, Ends, Back, Call, CallOK
<1>22. CASE \E fast \in BOOLEAN : Report(p, fast)
  BY <1>22, GotoArrives DEF Report, Local, Ends, Back, Call, CallOK
<1>23. CASE Measured(p)
  BY <1>23, ContinueArrives DEF Measured, Local, Ends, Back, Settle
<1>24. CASE AskBudget(p)
  <2>1. gen[p] \in 0..Generations /\ gen[p] # Generations /\ gen' = gen
    BY <1>24 DEF AskBudget, LastGeneration, BatchOK
  <2>2. gen'[p] < Generations
    BY <2>1, SizesAssumption
  <2>3. at'[p] = "range" /\ waiting'[p]
    BY <1>24 DEF AskBudget, Call, CallOK
  <2> QED
    BY <2>2, <2>3 DEF Local, Ends
<1>25. CASE RangeEnds(p)
  BY <1>25, GotoArrives DEF RangeEnds, Local, Ends, Back, Call, CallOK, BudgetSays, AtBoundary,
     WaitInv
<1>26. CASE NextGeneration(p)
  BY <1>26, GotoArrives DEF NextGeneration, Local, Ends, Back, Call, CallOK, BudgetSays,
     AtBoundary, WaitInv
<1>27. CASE RangeIsOver(p)
  BY <1>27, GotoArrives DEF RangeIsOver, Local, Ends, Back, Call, CallOK, AtBoundary, WaitInv
<1>28. CASE Finalize(p)
  BY <1>28, GotoArrives DEF Finalize, Local, Ends, Back, Call, CallOK, Verify, WaitInv
<1>29. CASE FinalHeard(p)
  BY <1>29, GotoArrives DEF FinalHeard, Local, Ends, Back, Call, CallOK, Verify
<1>30. CASE Verified(p)
  BY <1>30, GotoArrives DEF Verified, Local, Ends, Back, Call, CallOK
<1> QED
  BY <1>1, <1>2, <1>3, <1>4, <1>5, <1>6, <1>7, <1>8, <1>9, <1>10, <1>11, <1>12, <1>13, <1>14,
     <1>15, <1>16, <1>17, <1>18, <1>19, <1>20, <1>21, <1>22, <1>23, <1>24, <1>25, <1>26, <1>27,
     <1>28, <1>29, <1>30 DEF Rank

\* What holds of the places whatever the ranks meet.
TypeInv == CallOK /\ BatchOK /\ RangeInv /\ WaitInv

\* It holds initially.
LEMMA TypeInvInit == Init => TypeInv
<1> SUFFICES ASSUME Init PROVE TypeInv
  OBVIOUS
<1>1. "begin" \in Places
  BY PlaceNames
<1>2. CallOK
  BY <1>1 DEF Init, CallOK
<1>3. 1 \in Batch /\ 0 \in 0..Generations /\ "inf" \in Perfs
  BY SizesAssumption DEF Batch, Perfs
<1>4. /\ fate \in [Ranks -> [Batch -> Fates \cup {"?"}]]
      /\ result \in [Ranks -> [Batch -> Perfs]]
  BY <1>3 DEF Init
<1>5. /\ gen \in [Ranks -> 0..Generations] /\ cfg \in [Ranks -> Batch]
      /\ working \in [Ranks -> SUBSET Batch] /\ built \in [Ranks -> SUBSET Batch]
      /\ late \in [Ranks -> BOOLEAN] /\ cut \in [Ranks -> BOOLEAN]
  BY <1>3 DEF Init
<1>6. RangeInv /\ WaitInv
  BY DEF Init, RangeInv, WaitInv
<1> QED
  BY <1>2, <1>4, <1>5, <1>6 DEF TypeInv, BatchOK

\* A step of a rank keeps it.
LEMMA TypeInvRank ==
  ASSUME NEW p \in Ranks, TypeInv, Rank(p)
  PROVE  TypeInv'
<1>1. CallOK' /\ BatchOK'
  BY RankTypes DEF TypeInv
<1>2. Arrived(p)' /\ Others(p)
  BY RankArrives, RankOthers DEF TypeInv
<1>3. RangeInv' /\ WaitInv'
  BY <1>2 DEF TypeInv, RangeInv, WaitInv, Arrived, Others
<1> QED
  BY <1>1, <1>3 DEF TypeInv

\* A collective that returns keeps it.
LEMMA TypeInvReturn ==
  ASSUME TypeInv, NEW S \in SUBSET Ranks, NEW votes \in SUBSET BOOLEAN, ReturnTo(S, votes)
  PROVE  TypeInv'
<1>1. CallOK'
  <2>1. \A p \in Ranks : (waiting[p] /\ p \notin S) \in BOOLEAN
    OBVIOUS
  <2>2. waiting' \in [Ranks -> BOOLEAN]
    BY <2>1 DEF ReturnTo
  <2>3. heard' \in [Ranks -> SUBSET BOOLEAN] /\ at' = at /\ vote' = vote
    BY DEF ReturnTo, TypeInv, CallOK
  <2> QED
    BY <2>2, <2>3 DEF TypeInv, CallOK
<1>2. BatchOK'
  BY DEF ReturnTo, TypeInv, BatchOK
<1>3. RangeInv' /\ WaitInv'
  BY DEF ReturnTo, TypeInv, RangeInv, WaitInv
<1> QED
  BY <1>1, <1>2, <1>3 DEF TypeInv

\* And so does every step.
LEMMA TypeInvNext == TypeInv /\ [Next]_vars => TypeInv'
<1> SUFFICES ASSUME TypeInv, [Next]_vars PROVE TypeInv'
  OBVIOUS
<1>1. CASE \E p \in Ranks : Rank(p)
  BY <1>1, TypeInvRank
<1>2. CASE \E p \in Ranks : KernelReturns(p)
  BY <1>2, TypeInvReturn DEF KernelReturns
<1>3. CASE \E p \in Ranks : Tick(p)
  BY <1>3 DEF Tick, call, TypeInv, CallOK, BatchOK, RangeInv, WaitInv
<1>4. CASE Gather
  <2>1. {vote[p] : p \in Ranks} \in SUBSET BOOLEAN
    BY DEF TypeInv, CallOK
  <2> QED
    BY <1>4, <2>1, TypeInvReturn DEF Gather
<1>5. CASE Broadcast
  <2>1. {vote[Root]} \in SUBSET BOOLEAN
    BY RanksAssumption DEF TypeInv, CallOK
  <2> QED
    BY <1>5, <2>1, TypeInvReturn DEF Broadcast
<1>6. CASE UNCHANGED vars
  BY <1>6 DEF vars, call, TypeInv, CallOK, BatchOK, RangeInv, WaitInv
<1> QED
  BY <1>1, <1>2, <1>3, <1>4, <1>5, <1>6 DEF Next

\* A rank is always at a place the search knows, in a generation and at a
\* config that exist, whatever the ranks meet and however they interleave.
THEOREM RankedTypes == Spec => []TypeOK
<1>1. TypeInv => TypeOK
  BY TypesParted DEF TypeInv
<1> QED
  BY <1>1, TypeInvInit, TypeInvNext, PTL DEF Spec

\* What the meeting of a rank at the boundary of a generation is.
LEMMA BoundaryMeets ==
  ASSUME NEW p \in Ranks, WaitInv, AtBoundary(p), NEW F
  PROVE  /\ Meeting(F, p) = AfterBoundary(gen[p], cfg[p], result[p], fate[p])
         /\ ~waiting[p]
<1>1. CASE Back(p, "verify")
  <2>1. "verify" \notin Ends \cup Local
    BY DEF Ends, Local
  <2>2. Meeting(F, p) = After(F, "verify", heard[p], gen[p], cfg[p], result[p], fate[p])
    BY <1>1, <2>1, BackMeets
  <2> QED
    BY <1>1, <2>2 DEF After, Back
<1>2. CASE at[p] = "boundary"
  <2>1. "boundary" \in Local
    BY DEF Local
  <2>2. /\ Meeting(F, p) = FromLocal("boundary", gen[p], cfg[p], result[p], fate[p])
        /\ ~waiting[p]
    BY <1>2, <2>1, LocalMeets
  <2> QED
    BY <2>2 DEF FromLocal
<1> QED
  BY <1>1, <1>2 DEF AtBoundary

\* A step of a rank other than a compilation leads it on to its meeting.
LEMMA MeetingKept ==
  ASSUME NEW p \in Ranks, Agreed, TypeInv, NEW F, Rank(p),
         ~\E f \in Fates : Compile(p, f)
  PROVE  Meeting(F, p)' = Meeting(F, p)
<1>1. CASE Begin(p)
  <2>1. Meeting(F, p) = FromLocal("begin", gen[p], cfg[p], result[p], fate[p]) /\ ~waiting[p]
    <3>1. at[p] = "begin" /\ "begin" \in Local
      BY <1>1 DEF Begin, Local
    <3> QED
      BY <3>1, LocalMeets DEF TypeInv
  <2>2. gen'[p] = gen[p] /\ cfg'[p] = 1 /\ result'[p] = NoResults /\ fate'[p] = NoFates
    BY <1>1 DEF Begin, TypeInv, BatchOK, NoResults, NoFates
  <2>3. Meeting(F, p)' = Place("cut", gen'[p], cfg'[p], result'[p], fate'[p])
    <3>1. Call(p, "cut", late[p])
      BY <1>1 DEF Begin
    <3> QED
      BY <3>1, CallMeets DEF TypeInv
  <2> QED
    BY <1>1, <2>1, <2>2, <2>3 DEF FromLocal
<1>2. CASE StopCompiling(p)
  <2>1. Meeting(F, p) = After(F, "cut", heard[p], gen[p], cfg[p], result[p], fate[p]) /\ ~waiting[p]
    <3>1. Back(p, "cut") /\ "cut" \notin Ends \cup Local
      BY <1>2 DEF StopCompiling, Ends, Local
    <3> QED
      BY <3>1, BackMeets DEF Back
  <2>2. gen'[p] = gen[p] /\ cfg'[p] = cfg[p] /\ result'[p] = result[p] /\ fate'[p] = fate[p]
    BY <1>2 DEF StopCompiling, TypeInv, BatchOK
  <2>3. Meeting(F, p)' = FromLocal("precompile", gen'[p], cfg'[p], result'[p], fate'[p])
    <3>1. Goto(p, "precompile") /\ "precompile" \in Local /\ "precompile" \notin Ends
      BY <1>2 DEF StopCompiling, Ends, Local
    <3> QED
      BY <2>1, <3>1, GotoMeets DEF TypeInv
  <2> QED
    BY <1>2, <2>1, <2>2, <2>3 DEF After, FromLocal, AnyRank, StopCompiling
<1>3. CASE \E good \in SUBSET Batch : Precompile(p, good)
  <2>1. Meeting(F, p) = FromLocal("precompile", gen[p], cfg[p], result[p], fate[p]) /\ ~waiting[p]
    <3>1. at[p] = "precompile" /\ "precompile" \in Local
      BY <1>3 DEF Precompile, Local
    <3> QED
      BY <3>1, LocalMeets DEF TypeInv
  <2>2. Meeting(F, p)' = Onward(0, gen[p], cfg[p], result[p], fate[p])
    <3>1. Continue(p, 0) /\ gen' = gen /\ fate' = fate /\ result' = result
      BY <1>3 DEF Precompile
    <3> QED
      BY <2>1, <3>1, ContinueMeets DEF TypeInv
  <2> QED
    BY <2>1, <2>2 DEF FromLocal
<1>4. CASE StopBenchmarking(p)
  <2>1. Meeting(F, p) = After(F, "trial", heard[p], gen[p], cfg[p], result[p], fate[p])
        /\ ~waiting[p]
    <3>1. Back(p, "trial") /\ "trial" \notin Ends \cup Local
      BY <1>4 DEF StopBenchmarking, Ends, Local
    <3> QED
      BY <3>1, BackMeets DEF Back
  <2>2. gen'[p] = gen[p] /\ cfg'[p] = cfg[p] /\ result'[p] = result[p] /\ fate'[p] = fate[p]
    BY <1>4 DEF StopBenchmarking, TypeInv, BatchOK
  <2>3. Meeting(F, p)' = AfterBatch(gen[p], cfg'[p], result'[p], fate'[p])
    <3>1. EndBatch(p) /\ gen' = gen
      BY <1>4 DEF StopBenchmarking
    <3> QED
      BY <2>1, <3>1, EndBatchMeets DEF TypeInv
  <2> QED
    BY <1>4, <2>1, <2>2, <2>3 DEF After, AnyRank, StopBenchmarking
<1>5. CASE AskWorking(p)
  <2>1. Meeting(F, p) = After(F, "trial", heard[p], gen[p], cfg[p], result[p], fate[p])
        /\ ~waiting[p]
    <3>1. Back(p, "trial") /\ "trial" \notin Ends \cup Local
      BY <1>5 DEF AskWorking, Ends, Local
    <3> QED
      BY <3>1, BackMeets DEF Back
  <2>2. gen'[p] = gen[p] /\ cfg'[p] = cfg[p] /\ result'[p] = result[p] /\ fate'[p] = fate[p]
    BY <1>5 DEF AskWorking, TypeInv, BatchOK
  <2>3. Meeting(F, p)' = Place("working", gen'[p], cfg'[p], result'[p], fate'[p])
    <3>1. Call(p, "working", cfg[p] \in working[p])
      BY <1>5 DEF AskWorking
    <3> QED
      BY <3>1, CallMeets DEF TypeInv
  <2> QED
    BY <1>5, <2>1, <2>2, <2>3 DEF After, AskWorking, AnyRank
<1>6. CASE NotWorking(p)
  <2>1. Meeting(F, p) = After(F, "working", heard[p], gen[p], cfg[p], result[p], fate[p])
        /\ ~waiting[p]
    <3>1. Back(p, "working") /\ "working" \notin Ends \cup Local
      BY <1>6 DEF NotWorking, Ends, Local
    <3> QED
      BY <3>1, BackMeets DEF Back
  <2>2. Meeting(F, p)' = Settled("inf", gen[p], cfg[p], result[p], fate[p])
    <3>1. Settle(p, "inf")
      BY <1>6 DEF NotWorking
    <3> QED
      BY <2>1, <3>1, SettleMeets DEF TypeInv
  <2> QED
    BY <1>6, <2>1, <2>2 DEF After, NotWorking, EveryRank
<1>7. CASE \E success \in BOOLEAN : TritonCompile(p, success)
  <2>1. Meeting(F, p) = After(F, "working", heard[p], gen[p], cfg[p], result[p], fate[p])
        /\ ~waiting[p]
    <3>1. Back(p, "working") /\ "working" \notin Ends \cup Local
      BY <1>7 DEF TritonCompile, Ends, Local
    <3> QED
      BY <3>1, BackMeets DEF Back
  <2>2. gen'[p] = gen[p] /\ cfg'[p] = cfg[p] /\ result'[p] = result[p] /\ fate'[p] = fate[p]
    BY <1>7 DEF TritonCompile, TypeInv, BatchOK
  <2>3. Meeting(F, p)' = Place("built", gen'[p], cfg'[p], result'[p], fate'[p])
    <3>1. \E success \in BOOLEAN : Call(p, "built", success)
      BY <1>7 DEF TritonCompile
    <3> QED
      BY <3>1, CallMeets DEF TypeInv
  <2> QED
    BY <1>7, <2>1, <2>2, <2>3 DEF After, TritonCompile, EveryRank
<1>8. CASE NotBuilt(p)
  <2>1. Meeting(F, p) = After(F, "built", heard[p], gen[p], cfg[p], result[p], fate[p])
        /\ ~waiting[p]
    <3>1. Back(p, "built") /\ "built" \notin Ends \cup Local
      BY <1>8 DEF NotBuilt, Ends, Local
    <3> QED
      BY <3>1, BackMeets DEF Back
  <2>2. Meeting(F, p)' = Settled("inf", gen[p], cfg[p], result[p], fate[p])
    <3>1. Settle(p, "inf")
      BY <1>8 DEF NotBuilt
    <3> QED
      BY <2>1, <3>1, SettleMeets DEF TypeInv
  <2> QED
    BY <1>8, <2>1, <2>2 DEF After, NotBuilt, EveryRank
<1>9. CASE FirstRun(p)
  <2>1. Meeting(F, p) = After(F, "built", heard[p], gen[p], cfg[p], result[p], fate[p])
        /\ ~waiting[p]
    <3>1. Back(p, "built") /\ "built" \notin Ends \cup Local
      BY <1>9 DEF FirstRun, Ends, Local
    <3> QED
      BY <3>1, BackMeets DEF Back
  <2>2. gen'[p] = gen[p] /\ cfg'[p] = cfg[p] /\ result'[p] = result[p] /\ fate'[p] = fate[p]
    BY <1>9 DEF FirstRun, TypeInv, BatchOK
  <2>3. Meeting(F, p)' = Place("launch", gen'[p], cfg'[p], result'[p], fate'[p])
    <3>1. Call(p, "launch", TRUE)
      BY <1>9 DEF FirstRun
    <3> QED
      BY <3>1, CallMeets DEF TypeInv
  <2> QED
    BY <1>9, <2>1, <2>2, <2>3 DEF After, FirstRun, EveryRank, AfterRun
<1>10. CASE FirstRunFails(p)
  <2>1. Meeting(F, p) = After(F, "built", heard[p], gen[p], cfg[p], result[p], fate[p])
        /\ ~waiting[p]
    <3>1. Back(p, "built") /\ "built" \notin Ends \cup Local
      BY <1>10 DEF FirstRunFails, Ends, Local
    <3> QED
      BY <3>1, BackMeets DEF Back
  <2>2. Meeting(F, p)' = Settled("inf", gen[p], cfg[p], result[p], fate[p])
    <3>1. Settle(p, "inf")
      BY <1>10 DEF FirstRunFails
    <3> QED
      BY <2>1, <3>1, SettleMeets DEF TypeInv
  <2> QED
    BY <1>10, <2>1, <2>2 DEF After, FirstRunFails, EveryRank, AfterRun
<1>11. CASE FirstRunRaises(p)
  <2>1. Meeting(F, p) = After(F, "built", heard[p], gen[p], cfg[p], result[p], fate[p])
        /\ ~waiting[p]
    <3>1. Back(p, "built") /\ "built" \notin Ends \cup Local
      BY <1>11 DEF FirstRunRaises, Ends, Local
    <3> QED
      BY <3>1, BackMeets DEF Back
  <2>2. gen'[p] = gen[p] /\ cfg'[p] = cfg[p] /\ result'[p] = result[p] /\ fate'[p] = fate[p]
    BY <1>11 DEF FirstRunRaises, TypeInv, BatchOK
  <2>3. Meeting(F, p)' = Place("raised", gen'[p], cfg'[p], result'[p], fate'[p])
    <3>1. Goto(p, "raised") /\ "raised" \in Ends /\ "raised" \notin Local
      BY <1>11 DEF FirstRunRaises, Ends, Local
    <3> QED
      BY <2>1, <3>1, GotoMeets DEF TypeInv
  <2> QED
    BY <1>11, <2>1, <2>2, <2>3 DEF After, AfterRun, EveryRank, FirstRunRaises
<1>12. CASE \E pass \in BOOLEAN : Validate(p, pass)
  <2>1. Meeting(F, p) = After(F, "launch", heard[p], gen[p], cfg[p], result[p], fate[p])
        /\ ~waiting[p]
    <3>1. Back(p, "launch") /\ "launch" \notin Ends \cup Local
      BY <1>12 DEF Validate, Ends, Local
    <3> QED
      BY <3>1, BackMeets DEF Back
  <2>2. gen'[p] = gen[p] /\ cfg'[p] = cfg[p] /\ result'[p] = result[p] /\ fate'[p] = fate[p]
    BY <1>12 DEF Validate, TypeInv, BatchOK
  <2>3. Meeting(F, p)' = Place("accurate", gen'[p], cfg'[p], result'[p], fate'[p])
    <3>1. \E pass \in BOOLEAN : Call(p, "accurate", pass)
      BY <1>12 DEF Validate
    <3> QED
      BY <3>1, CallMeets DEF TypeInv
  <2> QED
    BY <1>12, <2>1, <2>2, <2>3 DEF After, Validate
<1>13. CASE NotAccurate(p)
  <2>1. Meeting(F, p) = After(F, "accurate", heard[p], gen[p], cfg[p], result[p], fate[p])
        /\ ~waiting[p]
    <3>1. Back(p, "accurate") /\ "accurate" \notin Ends \cup Local
      BY <1>13 DEF NotAccurate, Ends, Local
    <3> QED
      BY <3>1, BackMeets DEF Back
  <2>2. Meeting(F, p)' = Settled("inf", gen[p], cfg[p], result[p], fate[p])
    <3>1. Settle(p, "inf")
      BY <1>13 DEF NotAccurate
    <3> QED
      BY <2>1, <3>1, SettleMeets DEF TypeInv
  <2> QED
    BY <1>13, <2>1, <2>2 DEF After, NotAccurate, EveryRank
<1>14. CASE Time(p)
  <2>1. Meeting(F, p) = After(F, "accurate", heard[p], gen[p], cfg[p], result[p], fate[p])
        /\ ~waiting[p]
    <3>1. Back(p, "accurate") /\ "accurate" \notin Ends \cup Local
      BY <1>14 DEF Time, Ends, Local
    <3> QED
      BY <3>1, BackMeets DEF Back
  <2>2. gen'[p] = gen[p] /\ cfg'[p] = cfg[p] /\ result'[p] = result[p] /\ fate'[p] = fate[p]
    BY <1>14 DEF Time, TypeInv, BatchOK
  <2>3. Meeting(F, p)' = Place("time", gen'[p], cfg'[p], result'[p], fate'[p])
    <3>1. Call(p, "time", TRUE)
      BY <1>14 DEF Time
    <3> QED
      BY <3>1, CallMeets DEF TypeInv
  <2> QED
    BY <1>14, <2>1, <2>2, <2>3 DEF After, Time, EveryRank
<1>15. CASE TimeFails(p)
  <2>1. Meeting(F, p) = After(F, "accurate", heard[p], gen[p], cfg[p], result[p], fate[p])
        /\ ~waiting[p]
    <3>1. Back(p, "accurate") /\ "accurate" \notin Ends \cup Local
      BY <1>15 DEF TimeFails, Ends, Local
    <3> QED
      BY <3>1, BackMeets DEF Back
  <2>2. Meeting(F, p)' = Settled("inf", gen[p], cfg[p], result[p], fate[p])
    <3>1. Settle(p, "inf")
      BY <1>15 DEF TimeFails
    <3> QED
      BY <2>1, <3>1, SettleMeets DEF TypeInv
  <2> QED
    BY <1>15, <2>1, <2>2 DEF After, TimeFails, EveryRank
<1>16. CASE \E long \in BOOLEAN : Estimate(p, long)
  <2>1. Meeting(F, p) = After(F, "time", heard[p], gen[p], cfg[p], result[p], fate[p])
        /\ ~waiting[p]
    <3>1. Back(p, "time") /\ "time" \notin Ends \cup Local
      BY <1>16 DEF Estimate, Ends, Local
    <3> QED
      BY <3>1, BackMeets DEF Back
  <2>2. gen'[p] = gen[p] /\ cfg'[p] = cfg[p] /\ result'[p] = result[p] /\ fate'[p] = fate[p]
    BY <1>16 DEF Estimate, TypeInv, BatchOK
  <2>3. Meeting(F, p)' = Place("estimate", gen'[p], cfg'[p], result'[p], fate'[p])
    <3>1. \E long \in BOOLEAN : Call(p, "estimate", long)
      BY <1>16 DEF Estimate
    <3> QED
      BY <3>1, CallMeets DEF TypeInv
  <2> QED
    BY <1>16, <2>1, <2>2, <2>3 DEF After, Estimate
<1>17. CASE Repeat(p)
  <2>1. Meeting(F, p) = After(F, "estimate", heard[p], gen[p], cfg[p], result[p], fate[p])
        /\ ~waiting[p]
    <3>1. Back(p, "estimate") /\ "estimate" \notin Ends \cup Local
      BY <1>17 DEF Repeat, Ends, Local
    <3> QED
      BY <3>1, BackMeets DEF Back
  <2>2. gen'[p] = gen[p] /\ cfg'[p] = cfg[p] /\ result'[p] = result[p] /\ fate'[p] = fate[p]
    BY <1>17 DEF Repeat, TypeInv, BatchOK
  <2>3. Meeting(F, p)' = Place("repeat", gen'[p], cfg'[p], result'[p], fate'[p])
    <3>1. Call(p, "repeat", TRUE)
      BY <1>17 DEF Repeat
    <3> QED
      BY <3>1, CallMeets DEF TypeInv
  <2> QED
    BY <1>17, <2>1, <2>2, <2>3 DEF After, Repeat, FromRoot
<1>18. CASE \E slow \in BOOLEAN : Resize(p, slow)
  <2>1. Meeting(F, p) = After(F, "repeat", heard[p], gen[p], cfg[p], result[p], fate[p])
        /\ ~waiting[p]
    <3>1. Back(p, "repeat") /\ "repeat" \notin Ends \cup Local
      BY <1>18 DEF Resize, Ends, Local
    <3> QED
      BY <3>1, BackMeets DEF Back
  <2>2. gen'[p] = gen[p] /\ cfg'[p] = cfg[p] /\ result'[p] = result[p] /\ fate'[p] = fate[p]
    BY <1>18 DEF Resize, TypeInv, BatchOK
  <2>3. Meeting(F, p)' = Place("resize", gen'[p], cfg'[p], result'[p], fate'[p])
    <3>1. \E slow \in BOOLEAN : Call(p, "resize", slow)
      BY <1>18 DEF Resize
    <3> QED
      BY <3>1, CallMeets DEF TypeInv
  <2> QED
    BY <1>18, <2>1, <2>2, <2>3 DEF After, Resize
<1>19. CASE RunOften(p)
  <2>1. Meeting(F, p) = After(F, "resize", heard[p], gen[p], cfg[p], result[p], fate[p])
        /\ ~waiting[p]
    <3>1. Back(p, "resize") /\ "resize" \notin Ends \cup Local
      BY <1>19 DEF RunOften, Ends, Local
    <3> QED
      BY <3>1, BackMeets DEF Back
  <2>2. gen'[p] = gen[p] /\ cfg'[p] = cfg[p] /\ result'[p] = result[p] /\ fate'[p] = fate[p]
    BY <1>19 DEF RunOften, TypeInv, BatchOK
  <2>3. Meeting(F, p)' = Place("often", gen'[p], cfg'[p], result'[p], fate'[p])
    <3>1. Call(p, "often", TRUE)
      BY <1>19 DEF RunOften
    <3> QED
      BY <3>1, CallMeets DEF TypeInv
  <2> QED
    BY <1>19, <2>1, <2>2, <2>3 DEF After, RunOften, FromRoot
<1>20. CASE Sample(p)
  <2>1. PICK a \in {"often", "resize"} : Back(p, a) /\ (a = "resize" => FromRoot(p))
    BY <1>20 DEF Sample
  <2>2. a \notin Ends \cup Local /\ ~waiting[p]
    BY <2>1 DEF Ends, Local, Back
  <2>3. Meeting(F, p) = After(F, a, heard[p], gen[p], cfg[p], result[p], fate[p])
    BY <2>1, <2>2, BackMeets
  <2>4. gen'[p] = gen[p] /\ cfg'[p] = cfg[p] /\ result'[p] = result[p] /\ fate'[p] = fate[p]
    BY <1>20 DEF Sample, TypeInv, BatchOK
  <2>5. Meeting(F, p)' = Place("sample", gen'[p], cfg'[p], result'[p], fate'[p])
    <3>1. Call(p, "sample", TRUE)
      BY <1>20 DEF Sample
    <3> QED
      BY <3>1, CallMeets DEF TypeInv
  <2> QED
    BY <2>1, <2>3, <2>4, <2>5 DEF After, FromRoot
<1>21. CASE \E fast \in BOOLEAN : Report(p, fast)
  <2>1. PICK a \in {"sample", "estimate"} : Back(p, a) /\ (a = "estimate" => FromRoot(p))
    BY <1>21 DEF Report
  <2>2. a \notin Ends \cup Local /\ ~waiting[p]
    BY <2>1 DEF Ends, Local, Back
  <2>3. Meeting(F, p) = After(F, a, heard[p], gen[p], cfg[p], result[p], fate[p])
    BY <2>1, <2>2, BackMeets
  <2>4. gen'[p] = gen[p] /\ cfg'[p] = cfg[p] /\ result'[p] = result[p] /\ fate'[p] = fate[p]
    BY <1>21 DEF Report, TypeInv, BatchOK
  <2>5. Meeting(F, p)' = Place("report", gen'[p], cfg'[p], result'[p], fate'[p])
    <3>1. \E fast \in BOOLEAN : Call(p, "report", fast)
      BY <1>21 DEF Report
    <3> QED
      BY <3>1, CallMeets DEF TypeInv
  <2> QED
    BY <2>1, <2>3, <2>4, <2>5 DEF After, FromRoot
<1>22. CASE Measured(p)
  <2>1. Meeting(F, p) = After(F, "report", heard[p], gen[p], cfg[p], result[p], fate[p])
        /\ ~waiting[p]
    <3>1. Back(p, "report") /\ "report" \notin Ends \cup Local
      BY <1>22 DEF Measured, Ends, Local
    <3> QED
      BY <3>1, BackMeets DEF Back
  <2>2. Meeting(F, p)' = Settled(IF FromRoot(p) THEN "fast" ELSE "slow", gen[p], cfg[p],
        result[p], fate[p])
    <3>1. Settle(p, IF FromRoot(p) THEN "fast" ELSE "slow")
      BY <1>22 DEF Measured
    <3> QED
      BY <2>1, <3>1, SettleMeets DEF TypeInv
  <2> QED
    BY <1>22, <2>1, <2>2 DEF After, Measured, FromRoot
<1>23. CASE AskBudget(p)
  <2>1. Meeting(F, p) = AfterBoundary(gen[p], cfg[p], result[p], fate[p]) /\ ~waiting[p]
    <3>1. AtBoundary(p)
      BY <1>23 DEF AskBudget
    <3> QED
      BY <3>1, BoundaryMeets DEF TypeInv
  <2>2. gen'[p] = gen[p] /\ cfg'[p] = cfg[p] /\ result'[p] = result[p] /\ fate'[p] = fate[p]
    BY <1>23 DEF AskBudget, TypeInv, BatchOK
  <2>3. Meeting(F, p)' = Place("range", gen'[p], cfg'[p], result'[p], fate'[p])
    <3>1. Call(p, "range", late[p])
      BY <1>23 DEF AskBudget
    <3> QED
      BY <3>1, CallMeets DEF TypeInv
  <2> QED
    BY <1>23, <2>1, <2>2, <2>3 DEF AfterBoundary, AskBudget, LastGeneration
<1>24. CASE RangeEnds(p)
  <2>1. Meeting(F, p) = After(F, "range", heard[p], gen[p], cfg[p], result[p], fate[p])
        /\ ~waiting[p]
    <3>1. Back(p, "range") /\ "range" \notin Ends \cup Local
      BY <1>24 DEF RangeEnds, BudgetSays, Agreed, Ends, Local
    <3> QED
      BY <3>1, BackMeets DEF Back
  <2>2. gen'[p] = gen[p] /\ cfg'[p] = cfg[p] /\ result'[p] = result[p] /\ fate'[p] = fate[p]
    BY <1>24 DEF RangeEnds, TypeInv, BatchOK
  <2>3. Meeting(F, p)' = FromLocal("leave", gen'[p], cfg'[p], result'[p], fate'[p])
    <3>1. Goto(p, "leave") /\ "leave" \in Local /\ "leave" \notin Ends
      BY <1>24 DEF RangeEnds, Ends, Local
    <3> QED
      BY <2>1, <3>1, GotoMeets DEF TypeInv
  <2> QED
    BY <1>24, <2>1, <2>2, <2>3 DEF After, RangeEnds, BudgetSays, AnyRank, FromLocal, Agreed
<1>25. CASE NextGeneration(p)
  <2>1. Meeting(F, p) = After(F, "range", heard[p], gen[p], cfg[p], result[p], fate[p])
        /\ ~waiting[p]
    <3>1. Back(p, "range") /\ "range" \notin Ends \cup Local
      BY <1>25 DEF NextGeneration, BudgetSays, Agreed, Ends, Local
    <3> QED
      BY <3>1, BackMeets DEF Back
  <2>2. gen'[p] = gen[p] + 1
    BY <1>25 DEF NextGeneration, TypeInv, BatchOK
  <2>3. Meeting(F, p)' = FromLocal("begin", gen'[p], cfg'[p], result'[p], fate'[p])
    <3>1. Goto(p, "begin") /\ "begin" \in Local /\ "begin" \notin Ends
      BY <1>25 DEF NextGeneration, Ends, Local
    <3> QED
      BY <2>1, <3>1, GotoMeets DEF TypeInv
  <2> QED
    BY <1>25, <2>1, <2>2, <2>3 DEF After, NextGeneration, BudgetSays, AnyRank, FromLocal, Agreed
<1>26. CASE RangeIsOver(p)
  <2>1. Meeting(F, p) = AfterBoundary(gen[p], cfg[p], result[p], fate[p]) /\ ~waiting[p]
    <3>1. AtBoundary(p)
      BY <1>26 DEF RangeIsOver
    <3> QED
      BY <3>1, BoundaryMeets DEF TypeInv
  <2>2. gen'[p] = gen[p] /\ cfg'[p] = cfg[p] /\ result'[p] = result[p] /\ fate'[p] = fate[p]
    BY <1>26 DEF RangeIsOver, TypeInv, BatchOK
  <2>3. Meeting(F, p)' = FromLocal("leave", gen'[p], cfg'[p], result'[p], fate'[p])
    <3>1. Goto(p, "leave") /\ "leave" \in Local /\ "leave" \notin Ends
      BY <1>26 DEF RangeIsOver, Ends, Local
    <3> QED
      BY <2>1, <3>1, GotoMeets DEF TypeInv
  <2> QED
    BY <1>26, <2>1, <2>2, <2>3 DEF AfterBoundary, RangeIsOver, LastGeneration, FromLocal
<1>27. CASE Finalize(p)
  <2>1. Meeting(F, p) = FromLocal("leave", gen[p], cfg[p], result[p], fate[p]) /\ ~waiting[p]
    <3>1. at[p] = "leave" /\ "leave" \in Local
      BY <1>27 DEF Finalize, Local
    <3> QED
      BY <3>1, LocalMeets DEF TypeInv
  <2>2. gen'[p] = gen[p] /\ cfg'[p] = cfg[p] /\ result'[p] = result[p] /\ fate'[p] = fate[p]
    BY <1>27 DEF Finalize, TypeInv, BatchOK
  <2>3. Meeting(F, p)' = Place("final", gen'[p], cfg'[p], result'[p], fate'[p])
    <3>1. Call(p, "final", late[p])
      BY <1>27 DEF Finalize, Agreed
    <3> QED
      BY <3>1, CallMeets DEF TypeInv
  <2> QED
    BY <1>27, <2>1, <2>2, <2>3 DEF FromLocal
<1>28. CASE FinalHeard(p)
  <2>1. Meeting(F, p) = After(F, "final", heard[p], gen[p], cfg[p], result[p], fate[p])
        /\ ~waiting[p]
    <3>1. Back(p, "final") /\ "final" \notin Ends \cup Local
      BY <1>28 DEF FinalHeard, Ends, Local
    <3> QED
      BY <3>1, BackMeets DEF Back
  <2>2. gen'[p] = gen[p] /\ cfg'[p] = cfg[p] /\ result'[p] = result[p] /\ fate'[p] = fate[p]
    BY <1>28 DEF FinalHeard, TypeInv, BatchOK
  <2>3. AnyRank(p) \/ ~Contended(p) => Meeting(F, p)' = Place("done", gen'[p], cfg'[p],
        result'[p], fate'[p])
    <3>1. AnyRank(p) \/ ~Contended(p) => Goto(p, "done") /\ "done" \in Ends
      BY <1>28 DEF FinalHeard, Verify, Ends
    <3> QED
      BY <2>1, <3>1, GotoMeets DEF TypeInv
  <2>4. ~AnyRank(p) /\ Contended(p) =>
          Meeting(F, p)' = Place("finalists", gen'[p], cfg'[p], result'[p], fate'[p])
    <3>1. ~AnyRank(p) /\ Contended(p) => Call(p, "finalists", TRUE)
      BY <1>28 DEF FinalHeard, Verify
    <3> QED
      BY <3>1, CallMeets DEF TypeInv
  <2> QED
    BY <2>1, <2>2, <2>3, <2>4 DEF After, AnyRank, Contended
<1>29. CASE Verified(p)
  <2>1. Meeting(F, p) = After(F, "finalists", heard[p], gen[p], cfg[p], result[p], fate[p])
        /\ ~waiting[p]
    <3>1. Back(p, "finalists") /\ "finalists" \notin Ends \cup Local
      BY <1>29 DEF Verified, Ends, Local
    <3> QED
      BY <3>1, BackMeets DEF Back
  <2>2. gen'[p] = gen[p] /\ cfg'[p] = cfg[p] /\ result'[p] = result[p] /\ fate'[p] = fate[p]
    BY <1>29 DEF Verified, TypeInv, BatchOK
  <2>3. Meeting(F, p)' = Place("done", gen'[p], cfg'[p], result'[p], fate'[p])
    <3>1. Goto(p, "done") /\ "done" \in Ends /\ "done" \notin Local
      BY <1>29 DEF Verified, Ends, Local
    <3> QED
      BY <2>1, <3>1, GotoMeets DEF TypeInv
  <2> QED
    BY <1>29, <2>1, <2>2, <2>3 DEF After, Verified
<1> QED
  BY <1>1, <1>2, <1>3, <1>4, <1>5, <1>6, <1>7, <1>8, <1>9, <1>10, <1>11, <1>12, <1>13, <1>14,
     <1>15, <1>16, <1>17, <1>18, <1>19, <1>20, <1>21, <1>22, <1>23, <1>24, <1>25, <1>26, <1>27,
     <1>28, <1>29 DEF Rank

-----------------------------------------------------------------------------
\* What the meetings say of the generation and of the fates.
LEMMA OnwardIs ==
  ASSUME NEW d, NEW g, NEW c, NEW r, NEW f
  PROVE  /\ Onward(d, g, c, r, f).gen = g /\ Onward(d, g, c, r, f).fate = f
         /\ AfterBatch(g, c, r, f).gen = g /\ AfterBatch(g, c, r, f).fate = f
         /\ AfterBoundary(g, c, r, f).gen = g /\ AfterBoundary(g, c, r, f).fate = f
<1>1. AfterBoundary(g, c, r, f).gen = g /\ AfterBoundary(g, c, r, f).fate = f
  BY DEF AfterBoundary, Place
<1>2. AfterBatch(g, c, r, f).gen = g /\ AfterBatch(g, c, r, f).fate = f
  BY <1>1 DEF AfterBatch, Place
<1> QED
  BY <1>1, <1>2 DEF Onward, Place

\* A compilation leads a rank on to the meeting its outcome decides.
LEMMA CompileMeets ==
  ASSUME NEW p \in Ranks, TypeInv, NEW f \in Fates, Compile(p, f), NEW H,
         NEW G, G[cfg[p]] = f
  PROVE  Meeting(H, p)' = Meeting(G, p)
<1>1. /\ Meeting(G, p) = After(G, "cut", heard[p], gen[p], cfg[p], result[p], fate[p])
      /\ ~waiting[p]
  <2>1. Back(p, "cut") /\ "cut" \notin Ends \cup Local
    BY DEF Compile, Ends, Local
  <2> QED
    BY <2>1, BackMeets DEF Back
<1>2. Meeting(G, p) = AfterCompile(G, gen[p], cfg[p], result[p], fate[p])
  BY <1>1 DEF After, Compile, AnyRank
<1>3. /\ gen'[p] = gen[p] /\ result'[p] = result[p]
      /\ fate'[p] = [fate[p] EXCEPT ![cfg[p]] = f]
  BY DEF Compile, TypeInv, BatchOK
<1>4. CASE cfg[p] < Configs
  <2>1. Call(p, "cut", late[p]) /\ cfg'[p] = cfg[p] + 1
    BY <1>4 DEF Compile, TypeInv, BatchOK
  <2>2. Meeting(H, p)' = Place("cut", gen'[p], cfg'[p], result'[p], fate'[p])
    BY <2>1, CallMeets DEF TypeInv
  <2> QED
    BY <1>2, <1>3, <1>4, <2>1, <2>2 DEF AfterCompile
<1>5. CASE ~(cfg[p] < Configs) /\ f = "nocode" /\ Compiled(p) = {} /\ gen[p] = 0
  <2>1. Goto(p, "raised") /\ "raised" \in Ends /\ cfg' = cfg
    BY <1>5 DEF Compile, Ends
  <2>2. Meeting(H, p)' = Place("raised", gen'[p], cfg'[p], result'[p], fate'[p])
    BY <1>1, <2>1, GotoMeets DEF TypeInv
  <2> QED
    BY <1>2, <1>3, <1>5, <2>1, <2>2 DEF AfterCompile, Compiled
<1>6. CASE ~(cfg[p] < Configs) /\ ~(f = "nocode" /\ Compiled(p) = {} /\ gen[p] = 0)
  <2>1. /\ Goto(p, "precompile") /\ "precompile" \in Local /\ "precompile" \notin Ends
        /\ cfg' = cfg
    BY <1>6 DEF Compile, Local, Ends
  <2>2. Meeting(H, p)' = FromLocal("precompile", gen'[p], cfg'[p], result'[p], fate'[p])
    BY <1>1, <2>1, GotoMeets DEF TypeInv
  <2> QED
    BY <1>2, <1>3, <1>6, <2>1, <2>2 DEF AfterCompile, Compiled, FromLocal
<1> QED
  BY <1>4, <1>5, <1>6

\* A rank that has done something since its last collective is on the way to a
\* meeting of its generation, with the fates it has or, at the beginning of a
\* batch, with none.
LEMMA UnfreshMeets ==
  ASSUME NEW F, NEW q \in Ranks, TypeInv, ~Fresh(q)
  PROVE  /\ Meeting(F, q).gen = gen[q]
         /\ Meeting(F, q).fate \in {fate[q], NoFates}
<1>1. CASE waiting[q] \/ at[q] \in Ends
  BY <1>1 DEF Meeting, Meet, Place
<1>2. CASE ~waiting[q] /\ at[q] \notin Ends /\ at[q] \in Local
  <2>1. Meeting(F, q) = FromLocal(at[q], gen[q], cfg[q], result[q], fate[q])
    BY <1>2 DEF Meeting, Meet
  <2> QED
    BY <2>1, OnwardIs DEF FromLocal, Place
<1>3. CASE ~waiting[q] /\ at[q] \notin Ends /\ at[q] \notin Local
  <2>1. at[q] \in Launches
    BY <1>3 DEF Fresh
  <2>2. Meeting(F, q) = After(F, at[q], heard[q], gen[q], cfg[q], result[q], fate[q])
    BY <1>3 DEF Meeting, Meet
  <2>3. \E a : Meeting(F, q) = Place(a, gen[q], cfg[q], result[q], fate[q])
    BY <2>1, <2>2 DEF After, Launches
  <2> QED
    BY <2>3 DEF Place
<1> QED
  BY <1>1, <1>2, <1>3

\* The first rank that compiles a config settles its fate for all; the others
\* meet the same one.
LEMMA CompileTogether ==
  ASSUME NEW p \in Ranks, Agreed, TypeInv, NEW f \in Fates, Compile(p, f),
         NEW F \in [Batch -> Fates], SameMeeting(F), SameOrigin
  PROVE  SameMeeting([F EXCEPT ![cfg[p]] = f])
<1> DEFINE c == cfg[p]
           G == [F EXCEPT ![c] = f]
<1>1. c \in Batch /\ G \in [Batch -> Fates] /\ G[c] = f
  BY DEF TypeInv, BatchOK
<1>2. Fresh(p) /\ at[p] = "cut"
  BY DEF Compile, Back, Fresh, Ends, Local, Launches
<1>3. CASE \A q \in Ranks : Fresh(q)
  <2> SUFFICES ASSUME NEW q \in Ranks PROVE Meeting(G, q) = Meeting(G, p)
    BY DEF SameMeeting
  <2>1. /\ at[p] = at[q] /\ heard[p] = heard[q] /\ gen[p] = gen[q] /\ cfg[p] = cfg[q]
        /\ result[p] = result[q] /\ fate[p] = fate[q]
    BY <1>2, <1>3 DEF SameOrigin
  <2>2. ~waiting[p] /\ ~waiting[q]
    BY <1>2, <1>3 DEF Fresh
  <2> QED
    BY <2>1, <2>2 DEF Meeting, Meet
<1>4. CASE \E q \in Ranks : ~Fresh(q)
  <2>1. PICK q \in Ranks : ~Fresh(q)
    BY <1>4
  <2>2. q \in Ranks \ {p}
    BY <1>2, <2>1
  <2>3. Meeting(F, p) = AfterCompile(F, gen[p], c, result[p], fate[p])
    <3>1. Back(p, "cut") /\ "cut" \notin Ends \cup Local /\ ~AnyRank(p)
      BY DEF Compile, Ends, Local
    <3>2. Meeting(F, p) = After(F, "cut", heard[p], gen[p], cfg[p], result[p], fate[p])
      BY <3>1, BackMeets
    <3> QED
      BY <3>1, <3>2 DEF After, AnyRank
  <2>4. /\ Meeting(F, p).gen = gen[p]
        /\ Meeting(F, p).fate = [fate[p] EXCEPT ![c] = F[c]]
    BY <2>3, OnwardIs DEF AfterCompile, Place
  <2>5. Meeting(F, p).fate[c] = F[c]
    BY <1>1, <2>4 DEF TypeInv, BatchOK
  <2>6. Meeting(F, q) = Meeting(F, p)
    BY DEF SameMeeting
  <2>7. Meeting(F, q).gen = gen[q] /\ Meeting(F, q).fate \in {fate[q], NoFates}
    BY <2>1, UnfreshMeets
  <2>8. gen[q] = gen[p]
    BY <2>4, <2>6, <2>7
  <2>9. F[c] \in Fates /\ NoFates[c] = "?" /\ "?" \notin Fates
    BY <1>1 DEF NoFates, Fates
  <2>10. fate[q][c] = F[c]
    BY <2>5, <2>6, <2>7, <2>9
  <2>11. Consistent(p, c, f)
    BY DEF Compile
  <2>12. f = F[c]
    BY <2>2, <2>8, <2>9, <2>10, <2>11 DEF Consistent, Agreed
  <2>13. G = F
    BY <1>1, <2>12
  <2> QED
    BY <2>13
<1> QED
  BY <1>3, <1>4

\* A step of a rank keeps the ranks together.
LEMMA RankTogether ==
  ASSUME NEW p \in Ranks, Agreed, TypeInv, Together, Rank(p)
  PROVE  Together'
<1>1. PICK F \in [Batch -> Fates] : SameMeeting(F)
  BY DEF Together
<1>2. SameOrigin /\ Others(p) /\ Arrived(p)'
  BY RankOthers, RankArrives DEF Together, TypeInv
<1>3. \A q \in Ranks \ {p} : \A H : Meeting(H, q)' = Meeting(H, q)
  BY <1>2 DEF Others, Meeting, Meet
<1>4. \E G \in [Batch -> Fates] : SameMeeting(G)'
  <2>1. CASE \E f \in Fates : Compile(p, f)
    <3>1. PICK f \in Fates : Compile(p, f)
      BY <2>1
    <3>2. SameMeeting([F EXCEPT ![cfg[p]] = f])
      BY <1>1, <1>2, <3>1, CompileTogether
    <3>3. PICK G \in [Batch -> Fates] : SameMeeting(G) /\ G[cfg[p]] = f
      <4>1. cfg[p] \in Batch
        BY DEF TypeInv, BatchOK
      <4>2. /\ [F EXCEPT ![cfg[p]] = f] \in [Batch -> Fates]
            /\ [F EXCEPT ![cfg[p]] = f][cfg[p]] = f
        BY <4>1
      <4> QED
        BY <3>2, <4>2
    <3>4. Meeting(G, p)' = Meeting(G, p)
      BY <3>1, <3>3, CompileMeets
    <3>5. SameMeeting(G)'
      BY <1>3, <3>3, <3>4 DEF SameMeeting
    <3> QED
      BY <3>3, <3>5
  <2>2. CASE ~\E f \in Fates : Compile(p, f)
    <3>1. Meeting(F, p)' = Meeting(F, p)
      BY <2>2, MeetingKept
    <3>2. SameMeeting(F)'
      BY <1>1, <1>3, <3>1 DEF SameMeeting
    <3> QED
      BY <3>2
  <2> QED
    BY <2>1, <2>2
<1>5. SameOrigin'
  <2>1. ~Fresh(p)'
    BY <1>2 DEF Arrived, Fresh
  <2>2. \A q \in Ranks \ {p} : Fresh(q)' = Fresh(q)
    BY <1>2 DEF Others, Fresh
  <2> QED
    BY <1>2, <2>1, <2>2 DEF SameOrigin, Others
<1> QED
  BY <1>4, <1>5 DEF Together

\* Ranks that wait in a collective that takes all of them are at the same one.
LEMMA WaitTogether ==
  ASSUME Together, \A p \in Ranks : waiting[p] \/ at[p] \in Ends,
         \A p \in Ranks : at[p] \in Launches => KernelWaits
  PROVE  \A p, q \in Ranks :
           /\ at[p] = at[q] /\ gen[p] = gen[q] /\ cfg[p] = cfg[q] /\ result[p] = result[q]
           /\ fate[p] = fate[q]
<1> SUFFICES ASSUME NEW p \in Ranks, NEW q \in Ranks
             PROVE  /\ at[p] = at[q] /\ gen[p] = gen[q] /\ cfg[p] = cfg[q]
                    /\ result[p] = result[q] /\ fate[p] = fate[q]
  OBVIOUS
<1>1. PICK F \in [Batch -> Fates] : Meeting(F, p) = Meeting(F, q)
  BY DEF Together, SameMeeting
<1>2. /\ Meeting(F, p) = Place(at[p], gen[p], cfg[p], result[p], fate[p])
      /\ Meeting(F, q) = Place(at[q], gen[q], cfg[q], result[q], fate[q])
  BY DEF Meeting, Meet
<1>3. Launched(at[p]) = at[p] /\ Launched(at[q]) = at[q]
  BY DEF Launched, Launches
<1>4. /\ Place(at[p], gen[p], cfg[p], result[p], fate[p]).at = at[p]
      /\ Place(at[q], gen[q], cfg[q], result[q], fate[q]).at = at[q]
  BY <1>3 DEF Place
<1> QED
  <2>1. Place(at[p], gen[p], cfg[p], result[p], fate[p])
          = Place(at[q], gen[q], cfg[q], result[q], fate[q])
    BY <1>1, <1>2
  <2>2. at[p] = at[q]
    BY <1>4, <2>1
  <2> QED
    BY <2>1, <2>2 DEF Place

\* When a collective of all the ranks returns, they are still together.
LEMMA AllReturnTogether ==
  ASSUME TypeInv, Together, NEW votes, ReturnTo(Ranks, votes),
         \A p \in Ranks : waiting[p], \A p \in Ranks : at[p] \in Launches => KernelWaits
  PROVE  Together'
<1>1. \A p, q \in Ranks :
        /\ at'[p] = at'[q] /\ gen'[p] = gen'[q] /\ cfg'[p] = cfg'[q] /\ result'[p] = result'[q]
        /\ fate'[p] = fate'[q]
  BY WaitTogether DEF ReturnTo
<1>2. \A p \in Ranks : ~waiting'[p] /\ heard'[p] = votes
  BY DEF ReturnTo
<1>3. PICK F \in [Batch -> Fates] : TRUE
  BY DEF Together
<1>4. SameMeeting(F)'
  BY <1>1, <1>2 DEF SameMeeting, Meeting, Meet
<1>5. SameOrigin'
  BY <1>1, <1>2 DEF SameOrigin
<1> QED
  BY <1>4, <1>5 DEF Together

\* A launch that waits for nobody returns to the meeting it was on the way to.
LEMMA LaunchTogether ==
  ASSUME NEW p \in Ranks, TypeInv, Together, ~KernelWaits, waiting[p], at[p] \in Launches,
         ReturnTo({p}, {})
  PROVE  Together'
<1>1. PICK F \in [Batch -> Fates] : SameMeeting(F)
  BY DEF Together
<1>2. \A q \in Ranks \ {p} : waiting'[q] = waiting[q] /\ heard'[q] = heard[q]
  BY DEF ReturnTo, TypeInv, CallOK
<1>3. /\ at' = at /\ gen' = gen /\ cfg' = cfg /\ result' = result /\ fate' = fate
      /\ ~waiting'[p]
  BY DEF ReturnTo
<1>4. \A q \in Ranks \ {p} : Meeting(F, q)' = Meeting(F, q) /\ Fresh(q)' = Fresh(q)
  BY <1>2, <1>3 DEF Meeting, Meet, Fresh
<1>5. Meeting(F, p) = Place(at[p], gen[p], cfg[p], result[p], fate[p])
  BY DEF Meeting, Meet
<1>6. Meeting(F, p)' = After(F, at[p], heard'[p], gen[p], cfg[p], result[p], fate[p])
  <2>1. at[p] \notin Ends \cup Local
    BY DEF Launches, Ends, Local
  <2> QED
    BY <1>3, <2>1 DEF Meeting, Meet
<1>7. Meeting(F, p)' = Meeting(F, p)
  BY <1>5, <1>6 DEF After, Place, Launched, Launches
<1>8. SameMeeting(F)'
  BY <1>1, <1>4, <1>7 DEF SameMeeting
<1>9. SameOrigin'
  <2>1. ~Fresh(p)'
    BY <1>3 DEF Fresh
  <2> QED
    BY <1>2, <1>3, <1>4, <2>1 DEF SameOrigin, Together
<1> QED
  BY <1>8, <1>9 DEF Together

-----------------------------------------------------------------------------
\* What a step of a rank says about the budget and does about it.
Honest(p) ==
  /\ late' = late
  /\ at'[p] \in Clocked /\ waiting'[p] => vote'[p] = late[p]
  /\ cut'[p] => cut[p] \/ (Fresh(p) /\ at[p] \in Clocked /\ TRUE \in heard[p])

\* The benchmark loop asks with the clock of the rank.
LEMMA ContinueVotes ==
  ASSUME NEW p \in Ranks, CallOK, BatchOK, ~waiting[p], NEW d, Continue(p, d)
  PROVE  at'[p] \in Clocked /\ waiting'[p] => vote'[p] = late[p]
<1>1. CASE EndBatch(p)
  BY <1>1, EndBatchArrives DEF Clocked
<1>2. CASE Call(p, "trial", late[p])
  <2>1. late[p] \in BOOLEAN
    BY DEF BatchOK
  <2> QED
    BY <1>2, <2>1, CallSays
<1> QED
  BY <1>1, <1>2 DEF Continue

\* So every rank does.
LEMMA RankIsHonest ==
  ASSUME NEW p \in Ranks, Agreed, TypeInv, Rank(p)
  PROVE  Honest(p)
<1> USE DEF Honest, TypeInv
<1>1. CASE Begin(p)
  BY <1>1, CallSays DEF Begin, CallOK, BatchOK
<1>2. CASE StopCompiling(p)
  BY <1>2 DEF StopCompiling, Back, Goto, CutShort, Clocked, CallOK, Fresh, Ends, Local, Launches,
     AnyRank, BatchOK
<1>3. CASE \E f \in Fates : Compile(p, f)
  <2>1. PICK f \in Fates : Compile(p, f)
    BY <1>3
  <2>2. late[p] \in BOOLEAN
    BY DEF BatchOK
  <2>3. Call(p, "cut", late[p]) \/ Goto(p, "raised") \/ Goto(p, "precompile")
    BY <2>1 DEF Compile
  <2>4. at'[p] \in Clocked /\ waiting'[p] => vote'[p] = late[p]
    BY <2>2, <2>3, CallSays, GotoArrives DEF Clocked
  <2> QED
    BY <2>1, <2>4 DEF Compile
<1>4. CASE \E good \in SUBSET Batch : Precompile(p, good)
  BY <1>4, ContinueVotes DEF Precompile, Back, BatchOK, WaitInv, Local
<1>5. CASE StopBenchmarking(p)
  BY <1>5, EndBatchArrives DEF StopBenchmarking, Back, CutShort, Clocked, Fresh, Ends, Local,
     Launches, AnyRank, BatchOK
<1>6. CASE AskWorking(p)
  BY <1>6 DEF AskWorking, Call, CallOK, Clocked
<1>7. CASE NotWorking(p)
  BY <1>7, ContinueVotes DEF NotWorking, Back, Settle, BatchOK
<1>8. CASE \E success \in BOOLEAN : TritonCompile(p, success)
  BY <1>8 DEF TritonCompile, Call, CallOK, Clocked
<1>9. CASE NotBuilt(p)
  BY <1>9, ContinueVotes DEF NotBuilt, Back, Settle, BatchOK
<1>10. CASE FirstRun(p)
  BY <1>10 DEF FirstRun, Call, CallOK, Clocked
<1>11. CASE FirstRunFails(p)
  BY <1>11, ContinueVotes DEF FirstRunFails, Back, Settle, BatchOK
<1>12. CASE FirstRunRaises(p)
  BY <1>12 DEF FirstRunRaises, Goto, CallOK, Clocked
<1>13. CASE \E pass \in BOOLEAN : Validate(p, pass)
  BY <1>13 DEF Validate, Call, CallOK, Clocked
<1>14. CASE NotAccurate(p)
  BY <1>14, ContinueVotes DEF NotAccurate, Back, Settle, BatchOK
<1>15. CASE Time(p)
  BY <1>15 DEF Time, Call, CallOK, Clocked
<1>16. CASE TimeFails(p)
  BY <1>16, ContinueVotes DEF TimeFails, Back, Settle, BatchOK
<1>17. CASE \E long \in BOOLEAN : Estimate(p, long)
  BY <1>17 DEF Estimate, Call, CallOK, Clocked
<1>18. CASE Repeat(p)
  BY <1>18 DEF Repeat, Call, CallOK, Clocked
<1>19. CASE \E slow \in BOOLEAN : Resize(p, slow)
  BY <1>19 DEF Resize, Call, CallOK, Clocked
<1>20. CASE RunOften(p)
  BY <1>20 DEF RunOften, Call, CallOK, Clocked
<1>21. CASE Sample(p)
  BY <1>21 DEF Sample, Call, CallOK, Clocked
<1>22. CASE \E fast \in BOOLEAN : Report(p, fast)
  BY <1>22 DEF Report, Call, CallOK, Clocked
<1>23. CASE Measured(p)
  BY <1>23, ContinueVotes DEF Measured, Back, Settle, BatchOK
<1>24. CASE AskBudget(p)
  BY <1>24, CallSays DEF AskBudget, CallOK, BatchOK
<1>25. CASE RangeEnds(p)
  BY <1>25 DEF RangeEnds, BudgetSays, Agreed, Back, Goto, CutShort, Clocked, CallOK, Fresh, Ends,
     Local, Launches, AnyRank, BatchOK
<1>26. CASE NextGeneration(p)
  BY <1>26 DEF NextGeneration, Goto, CallOK, Clocked
<1>27. CASE RangeIsOver(p)
  BY <1>27 DEF RangeIsOver, Goto, CallOK, Clocked
<1>28. CASE Finalize(p)
  BY <1>28 DEF Finalize, Agreed, Verify, Goto, Call, CallOK, BatchOK, Clocked
<1>29. CASE FinalHeard(p)
  BY <1>29 DEF FinalHeard, Agreed, Verify, Goto, Call, CallOK, BatchOK, Clocked
<1>30. CASE Verified(p)
  BY <1>30 DEF Verified, Goto, CallOK, Clocked
<1> QED
  BY <1>1, <1>2, <1>3, <1>4, <1>5, <1>6, <1>7, <1>8, <1>9, <1>10, <1>11, <1>12, <1>13, <1>14,
     <1>15, <1>16, <1>17, <1>18, <1>19, <1>20, <1>21, <1>22, <1>23, <1>24, <1>25, <1>26, <1>27,
     <1>28, <1>29, <1>30 DEF Rank

\* What a step of a rank does about the binaries.
Builds(p) ==
  /\ at'[p] = "built" /\ waiting'[p] /\ vote'[p] => cfg'[p] \in built'[p]
  /\ at'[p] \in RunPlaces =>
       /\ cfg'[p] = cfg[p]
       /\ at[p] \in RunPlaces \/ (Fresh(p) /\ at[p] = "built" /\ FALSE \notin heard[p])
  /\ built[p] \subseteq built'[p] \/ at[p] = "begin"

\* So every rank does.
LEMMA RankBuilds ==
  ASSUME NEW p \in Ranks, TypeInv, Rank(p)
  PROVE  Builds(p)
<1> USE DEF Builds, TypeInv, RunPlaces
<1>1. CASE Begin(p)
  BY <1>1 DEF Begin, Call, CallOK
<1>2. CASE StopCompiling(p)
  BY <1>2 DEF StopCompiling, Goto, CallOK
<1>3. CASE \E f \in Fates : Compile(p, f)
  <2>1. PICK f \in Fates : Compile(p, f)
    BY <1>3
  <2>2. Call(p, "cut", late[p]) \/ Goto(p, "raised") \/ Goto(p, "precompile")
    BY <2>1 DEF Compile
  <2>3. late[p] \in BOOLEAN
    BY DEF BatchOK
  <2>4. at'[p] \in {"cut", "raised", "precompile"}
    BY <2>2, <2>3, CallArrives, GotoArrives
  <2>5. built' = built
    BY <2>1 DEF Compile
  <2> QED
    BY <2>4, <2>5
<1>4. CASE \E good \in SUBSET Batch : Precompile(p, good)
  BY <1>4, ContinueArrives DEF Precompile, Back, BatchOK, WaitInv, Local
<1>5. CASE StopBenchmarking(p)
  BY <1>5, EndBatchArrives DEF StopBenchmarking, Back
<1>6. CASE AskWorking(p)
  BY <1>6 DEF AskWorking, Call, CallOK
<1>7. CASE NotWorking(p)
  BY <1>7, ContinueArrives DEF NotWorking, Back, Settle, BatchOK
<1>8. CASE \E success \in BOOLEAN : TritonCompile(p, success)
  <2>1. PICK success \in BOOLEAN : TritonCompile(p, success)
    BY <1>8
  <2>2. at'[p] = "built" /\ vote'[p] = success
    BY <2>1 DEF TritonCompile, Call, CallOK
  <2>3. built'[p] = IF success THEN built[p] \cup {cfg[p]} ELSE built[p]
    BY <2>1 DEF TritonCompile, BatchOK
  <2>4. cfg' = cfg
    BY <2>1 DEF TritonCompile
  <2> QED
    BY <2>2, <2>3, <2>4
<1>9. CASE NotBuilt(p)
  BY <1>9, ContinueArrives DEF NotBuilt, Back, Settle, BatchOK
<1>10. CASE FirstRun(p)
  BY <1>10 DEF FirstRun, Call, CallOK, Back, EveryRank, Fresh, Ends, Local, Launches
<1>11. CASE FirstRunFails(p)
  BY <1>11, ContinueArrives DEF FirstRunFails, Back, Settle, BatchOK
<1>12. CASE FirstRunRaises(p)
  BY <1>12 DEF FirstRunRaises, Goto, CallOK
<1>13. CASE \E pass \in BOOLEAN : Validate(p, pass)
  BY <1>13 DEF Validate, Call, CallOK, Back
<1>14. CASE NotAccurate(p)
  BY <1>14, ContinueArrives DEF NotAccurate, Back, Settle, BatchOK
<1>15. CASE Time(p)
  BY <1>15 DEF Time, Call, CallOK, Back
<1>16. CASE TimeFails(p)
  BY <1>16, ContinueArrives DEF TimeFails, Back, Settle, BatchOK
<1>17. CASE \E long \in BOOLEAN : Estimate(p, long)
  BY <1>17 DEF Estimate, Call, CallOK, Back
<1>18. CASE Repeat(p)
  BY <1>18 DEF Repeat, Call, CallOK, Back
<1>19. CASE \E slow \in BOOLEAN : Resize(p, slow)
  BY <1>19 DEF Resize, Call, CallOK, Back
<1>20. CASE RunOften(p)
  BY <1>20 DEF RunOften, Call, CallOK, Back
<1>21. CASE Sample(p)
  BY <1>21 DEF Sample, Call, CallOK, Back
<1>22. CASE \E fast \in BOOLEAN : Report(p, fast)
  BY <1>22 DEF Report, Call, CallOK, Back
<1>23. CASE Measured(p)
  BY <1>23, ContinueArrives DEF Measured, Back, Settle, BatchOK
<1>24. CASE AskBudget(p)
  BY <1>24 DEF AskBudget, Call, CallOK
<1>25. CASE RangeEnds(p)
  BY <1>25 DEF RangeEnds, Goto, CallOK
<1>26. CASE NextGeneration(p)
  BY <1>26 DEF NextGeneration, Goto, CallOK
<1>27. CASE RangeIsOver(p)
  BY <1>27 DEF RangeIsOver, Goto, CallOK
<1>28. CASE Finalize(p)
  BY <1>28 DEF Finalize, Verify, Call, CallOK, Goto
<1>29. CASE FinalHeard(p)
  BY <1>29 DEF FinalHeard, Verify, Call, CallOK, Goto
<1>30. CASE Verified(p)
  BY <1>30 DEF Verified, Goto, CallOK
<1> QED
  BY <1>1, <1>2, <1>3, <1>4, <1>5, <1>6, <1>7, <1>8, <1>9, <1>10, <1>11, <1>12, <1>13, <1>14,
     <1>15, <1>16, <1>17, <1>18, <1>19, <1>20, <1>21, <1>22, <1>23, <1>24, <1>25, <1>26, <1>27,
     <1>28, <1>29, <1>30 DEF Rank

\* A step of a rank keeps what clocks and votes say.
LEMMA RankClock ==
  ASSUME NEW p \in Ranks, Agreed, TypeInv, ClockInv, Rank(p)
  PROVE  ClockInv'
<1>1. Honest(p) /\ Others(p) /\ ~Fresh(p)'
  BY RankIsHonest, RankOthers, RankArrives DEF TypeInv, Arrived, Fresh
<1>2. \A q \in Ranks : waiting'[q] /\ at'[q] \in Clocked /\ vote'[q] => late'[q]
  BY <1>1 DEF Honest, Others, ClockInv
<1>3. \A q \in Ranks : Fresh(q)' /\ at'[q] \in Clocked /\ TRUE \in heard'[q] =>
        \E o \in Ranks : late'[o]
  BY <1>1 DEF Honest, Others, ClockInv, Fresh
<1>4. CutoffIsReal'
  BY <1>1 DEF Honest, Others, ClockInv, CutoffIsReal
<1> QED
  BY <1>2, <1>3, <1>4 DEF ClockInv

\* So does a collective.
LEMMA ReturnClock ==
  ASSUME TypeInv, ClockInv, NEW S \in SUBSET Ranks, NEW votes \in SUBSET BOOLEAN,
         ReturnTo(S, votes),
         \A p \in S : at[p] \in Clocked /\ TRUE \in votes => \E q \in Ranks : late[q]
  PROVE  ClockInv'
<1>1. /\ at' = at /\ vote' = vote /\ late' = late /\ cut' = cut
      /\ \A p \in Ranks : /\ waiting'[p] <=> waiting[p] /\ p \notin S
                          /\ heard'[p] = IF p \in S THEN votes ELSE heard[p]
  BY DEF ReturnTo
<1>2. \A p \in Ranks : waiting'[p] /\ at'[p] \in Clocked /\ vote'[p] => late'[p]
  BY <1>1 DEF ClockInv
<1>3. \A p \in Ranks : Fresh(p)' /\ at'[p] \in Clocked /\ TRUE \in heard'[p] =>
        \E q \in Ranks : late'[q]
  <2> SUFFICES ASSUME NEW p \in Ranks, Fresh(p)', at'[p] \in Clocked, TRUE \in heard'[p]
               PROVE  \E q \in Ranks : late'[q]
    OBVIOUS
  <2>1. CASE p \in S
    BY <1>1, <2>1
  <2>2. CASE p \notin S
    BY <1>1, <2>2 DEF Fresh, ClockInv
  <2> QED
    BY <2>1, <2>2
<1>4. CutoffIsReal'
  BY <1>1 DEF ClockInv, CutoffIsReal
<1> QED
  BY <1>2, <1>3, <1>4 DEF ClockInv

\* Who has to do with the binary of a config is not on the way to a new batch.
LEMMA RunnersDoNotBegin ==
  ASSUME NEW F, NEW q \in Ranks, TypeInv, at[q] \in RunPlaces \cup {"built"}
  PROVE  Meeting(F, q).at # "cut"
<1>1. \A g, c, r, f : AfterBatch(g, c, r, f).at # "cut"
  BY DEF AfterBatch, AfterBoundary, Place, Launched
<1>2. \A d, g, c, r, f : Onward(d, g, c, r, f).at # "cut"
  BY <1>1 DEF Onward, Place, Launched
<1>3. \A x, g, c, r, f : Settled(x, g, c, r, f).at # "cut"
  BY <1>2 DEF Settled
<1>4. \A a, g, c, r, f : a # "cut" => Place(a, g, c, r, f).at # "cut"
  BY DEF Place, Launched
<1>5. at[q] # "cut"
  BY DEF RunPlaces
<1>6. CASE waiting[q] \/ at[q] \in Ends
  BY <1>4, <1>5, <1>6 DEF Meeting, Meet
<1>7. CASE ~waiting[q] /\ at[q] \notin Ends
  <2>1. at[q] \notin Local
    BY DEF RunPlaces, Local
  <2>2. Meeting(F, q) = After(F, at[q], heard[q], gen[q], cfg[q], result[q], fate[q])
    BY <1>7, <2>1 DEF Meeting, Meet
  <2> DEFINE Put(a) == Place(a, gen[q], cfg[q], result[q], fate[q])
             Set(x) == Settled(x, gen[q], cfg[q], result[q], fate[q])
             Names == RunPlaces \cup {"raised"}
  <2>3. AfterRun("launch", gen[q], cfg[q], result[q], fate[q])
          \in {Set("inf"), Put("raised"), Put("launch")}
    BY DEF AfterRun
  <2>4. CASE at[q] = "launch"
    <3>1. \/ Meeting(F, q) \in {Set("inf"), Set("fast"), Set("slow")}
          \/ \E a \in Names : Meeting(F, q) = Put(a)
      BY <2>2, <2>4 DEF After, RunPlaces
    <3> QED
      BY <1>3, <1>4, <3>1 DEF RunPlaces
  <2>5. CASE at[q] = "accurate"
    <3>1. \/ Meeting(F, q) \in {Set("inf"), Set("fast"), Set("slow")}
          \/ \E a \in Names : Meeting(F, q) = Put(a)
      BY <2>2, <2>5 DEF After, RunPlaces
    <3> QED
      BY <1>3, <1>4, <3>1 DEF RunPlaces
  <2>6. CASE at[q] = "time"
    <3>1. \/ Meeting(F, q) \in {Set("inf"), Set("fast"), Set("slow")}
          \/ \E a \in Names : Meeting(F, q) = Put(a)
      BY <2>2, <2>6 DEF After, RunPlaces
    <3> QED
      BY <1>3, <1>4, <3>1 DEF RunPlaces
  <2>7. CASE at[q] = "estimate"
    <3>1. \/ Meeting(F, q) \in {Set("inf"), Set("fast"), Set("slow")}
          \/ \E a \in Names : Meeting(F, q) = Put(a)
      BY <2>2, <2>7 DEF After, RunPlaces
    <3> QED
      BY <1>3, <1>4, <3>1 DEF RunPlaces
  <2>8. CASE at[q] = "repeat"
    <3>1. \/ Meeting(F, q) \in {Set("inf"), Set("fast"), Set("slow")}
          \/ \E a \in Names : Meeting(F, q) = Put(a)
      BY <2>2, <2>8 DEF After, RunPlaces
    <3> QED
      BY <1>3, <1>4, <3>1 DEF RunPlaces
  <2>9. CASE at[q] = "resize"
    <3>1. \/ Meeting(F, q) \in {Set("inf"), Set("fast"), Set("slow")}
          \/ \E a \in Names : Meeting(F, q) = Put(a)
      BY <2>2, <2>9 DEF After, RunPlaces
    <3> QED
      BY <1>3, <1>4, <3>1 DEF RunPlaces
  <2>10. CASE at[q] = "often"
    <3>1. \/ Meeting(F, q) \in {Set("inf"), Set("fast"), Set("slow")}
          \/ \E a \in Names : Meeting(F, q) = Put(a)
      BY <2>2, <2>10 DEF After, RunPlaces
    <3> QED
      BY <1>3, <1>4, <3>1 DEF RunPlaces
  <2>11. CASE at[q] = "sample"
    <3>1. \/ Meeting(F, q) \in {Set("inf"), Set("fast"), Set("slow")}
          \/ \E a \in Names : Meeting(F, q) = Put(a)
      BY <2>2, <2>11 DEF After, RunPlaces
    <3> QED
      BY <1>3, <1>4, <3>1 DEF RunPlaces
  <2>12. CASE at[q] = "report"
    <3>1. \/ Meeting(F, q) \in {Set("inf"), Set("fast"), Set("slow")}
          \/ \E a \in Names : Meeting(F, q) = Put(a)
      BY <2>2, <2>12 DEF After, RunPlaces
    <3> QED
      BY <1>3, <1>4, <3>1 DEF RunPlaces
  <2>13. CASE at[q] = "built"
    <3>1. \/ Meeting(F, q) \in {Set("inf"), Set("fast"), Set("slow")}
          \/ \E a \in Names : Meeting(F, q) = Put(a)
      BY <2>2, <2>3, <2>13 DEF After, RunPlaces
    <3> QED
      BY <1>3, <1>4, <3>1 DEF RunPlaces
  <2> QED
    BY <2>4, <2>5, <2>6, <2>7, <2>8, <2>9, <2>10, <2>11, <2>12, <2>13 DEF RunPlaces
<1> QED
  BY <1>6, <1>7

\* A step of a rank keeps what is said of the binaries: a rank that begins a
\* batch forgets its own, and then no peer is still at a config of the last one.
LEMMA RankBuilt ==
  ASSUME NEW p \in Ranks, Agreed, TypeInv, Together, BuiltInv, Rank(p)
  PROVE  BuiltInv'
<1>1. Builds(p) /\ Others(p) /\ ~Fresh(p)'
  BY RankBuilds, RankOthers, RankArrives DEF TypeInv, Arrived, Fresh
<1>2. \A q \in Ranks : waiting'[q] /\ at'[q] = "built" /\ vote'[q] => cfg'[q] \in built'[q]
  BY <1>1 DEF Builds, Others, BuiltInv
<1>3. ASSUME NEW q \in Ranks, NEW o \in Ranks,
             at'[q] \in RunPlaces \/ (Fresh(q)' /\ at'[q] = "built" /\ FALSE \notin heard'[q])
      PROVE  cfg'[q] \in built'[o]
  <2>1. /\ cfg'[q] = cfg[q]
        /\ at[q] \in RunPlaces \/ (Fresh(q) /\ at[q] = "built" /\ FALSE \notin heard[q])
    <3>1. CASE q = p
      BY <1>1, <1>3, <3>1 DEF Builds
    <3>2. CASE q # p
      BY <1>1, <1>3, <3>2 DEF Others, Fresh
    <3> QED
      BY <3>1, <3>2
  <2>2. cfg[q] \in built[o]
    BY <2>1 DEF BuiltInv
  <2>3. at[p] # "begin"
    <3> SUFFICES ASSUME at[p] = "begin" PROVE FALSE
      OBVIOUS
    <3>1. PICK F \in [Batch -> Fates] : Meeting(F, q) = Meeting(F, p)
      BY DEF Together, SameMeeting
    <3>2. Meeting(F, p) = FromLocal("begin", gen[p], cfg[p], result[p], fate[p])
      BY LocalMeets DEF TypeInv, Local
    <3>3. Meeting(F, p).at = "cut"
      BY <3>2 DEF FromLocal, Place, Launched
    <3> QED
      BY <2>1, <3>1, <3>3, RunnersDoNotBegin
  <2>4. built[o] \subseteq built'[o]
    BY <1>1, <2>3 DEF Builds, Others
  <2> QED
    BY <2>1, <2>2, <2>4
<1> QED
  BY <1>2, <1>3 DEF BuiltInv

-----------------------------------------------------------------------------
\* What holds at all times when the ranks agree.
Inv == TypeInv /\ Together /\ ClockInv /\ BuiltInv

\* It holds initially.
LEMMA InvInit == Init => Inv
<1> SUFFICES ASSUME Init PROVE Inv
  OBVIOUS
<1>1. TypeInv
  BY TypeInvInit
<1>2. \A p \in Ranks : at[p] = "begin" /\ ~waiting[p] /\ ~Fresh(p) /\ ~cut[p]
  BY DEF Init, Fresh, Local
<1>3. \A p, q \in Ranks :
        /\ at[p] = at[q] /\ waiting[p] = waiting[q] /\ heard[p] = heard[q] /\ gen[p] = gen[q]
        /\ cfg[p] = cfg[q] /\ result[p] = result[q] /\ fate[p] = fate[q]
  BY DEF Init
<1>4. [c \in Batch |-> "runs"] \in [Batch -> Fates]
  BY DEF Fates
<1>5. SameMeeting([c \in Batch |-> "runs"])
  BY <1>3 DEF SameMeeting, Meeting
<1>6. Together
  BY <1>2, <1>4, <1>5 DEF Together, SameOrigin
<1>7. ClockInv
  BY <1>2 DEF ClockInv, CutoffIsReal, Init
<1>8. BuiltInv
  BY <1>2 DEF BuiltInv, RunPlaces
<1> QED
  BY <1>1, <1>6, <1>7, <1>8 DEF Inv

\* A collective of all ranks keeps it, if what they hear is what one said.
LEMMA CollectiveKeeps ==
  ASSUME Inv, NEW votes \in SUBSET BOOLEAN, ReturnTo(Ranks, votes),
         \A p \in Ranks : waiting[p], \A p \in Ranks : at[p] \in Launches => KernelWaits,
         TRUE \in votes => \E p \in Ranks : vote[p],
         FALSE \notin votes => \A p \in Ranks : at[p] \notin Gathers \/ vote[p]
  PROVE  Inv'
<1>1. TypeInv' /\ Together'
  BY TypeInvReturn, AllReturnTogether DEF Inv
<1>2. \A p, q \in Ranks : at[p] = at[q] /\ cfg[p] = cfg[q]
  BY WaitTogether DEF Inv
<1>3. ClockInv'
  <2>1. \A p \in Ranks : at[p] \in Clocked /\ TRUE \in votes => \E q \in Ranks : late[q]
    BY <1>2 DEF Inv, ClockInv
  <2> QED
    BY <2>1, ReturnClock DEF Inv
<1>4. BuiltInv'
  <2>1. /\ at' = at /\ cfg' = cfg /\ built' = built
        /\ \A p \in Ranks : ~waiting'[p] /\ heard'[p] = votes
    BY DEF ReturnTo
  <2>2. ASSUME NEW p \in Ranks, NEW q \in Ranks, at[p] = "built", FALSE \notin votes
        PROVE  cfg[p] \in built[q]
    <3>1. at[q] = "built" /\ vote[q] /\ cfg[p] = cfg[q]
      BY <1>2, <2>2 DEF Gathers
    <3> QED
      BY <3>1 DEF Inv, BuiltInv
  <2> QED
    BY <2>1, <2>2 DEF Inv, BuiltInv
<1> QED
  BY <1>1, <1>3, <1>4 DEF Inv

\* A launch that returns keeps it.
LEMMA LaunchKeeps ==
  ASSUME NEW p \in Ranks, Inv, KernelReturns(p)
  PROVE  Inv'
<1>1. CASE KernelWaits
  <2>1. ReturnTo(Ranks, {}) /\ \A q \in Ranks : waiting[q] /\ at[q] \in Launches
    BY <1>1 DEF KernelReturns, AllIn
  <2>2. \A q \in Ranks : at[q] \notin Gathers
    BY <2>1 DEF Launches, Gathers
  <2> QED
    BY <1>1, <2>1, <2>2, CollectiveKeeps
<1>2. CASE ~KernelWaits
  <2>1. ReturnTo({p}, {}) /\ waiting[p] /\ at[p] \in Launches
    BY <1>2 DEF KernelReturns
  <2>2. TypeInv'
    BY <2>1, TypeInvReturn DEF Inv
  <2>3. Together'
    BY <1>2, <2>1, LaunchTogether DEF Inv
  <2>4. ClockInv'
    <3>1. {p} \in SUBSET Ranks /\ {} \in SUBSET BOOLEAN
      OBVIOUS
    <3>2. \A q \in {p} : at[q] \in Clocked /\ TRUE \in {} => \E o \in Ranks : late[o]
      OBVIOUS
    <3> QED
      BY <2>1, <3>1, <3>2, ReturnClock DEF Inv
  <2>5. BuiltInv'
    <3>1. /\ at' = at /\ cfg' = cfg /\ built' = built /\ vote' = vote
          /\ \A q \in Ranks \ {p} : waiting'[q] = waiting[q] /\ heard'[q] = heard[q]
          /\ at[p] # "built"
      BY <2>1 DEF ReturnTo, Inv, TypeInv, CallOK, Launches
    <3> QED
      BY <3>1 DEF Inv, BuiltInv, Fresh
  <2> QED
    BY <2>2, <2>3, <2>4, <2>5 DEF Inv
<1> QED
  BY <1>1, <1>2

\* Every step keeps it.
LEMMA InvNext == Agreed /\ Inv /\ [Next]_vars => Inv'
<1> SUFFICES ASSUME Agreed, Inv, [Next]_vars PROVE Inv'
  OBVIOUS
<1>1. CASE \E p \in Ranks : Rank(p)
  BY <1>1, TypeInvRank, RankTogether, RankClock, RankBuilt DEF Inv
<1>2. CASE \E p \in Ranks : KernelReturns(p)
  BY <1>2, LaunchKeeps
<1>3. CASE \E p \in Ranks : Tick(p)
  <2>1. PICK p \in Ranks : Tick(p)
    BY <1>3
  <2>2. /\ UNCHANGED <<at, waiting, vote, heard, gen, cfg, fate, working, result, built, cut>>
        /\ \A q \in Ranks : late[q] => late'[q]
    BY <2>1 DEF Tick, call, Inv, TypeInv, BatchOK
  <2>3. TypeInv'
    BY <1>3, TypeInvNext DEF Inv, Next
  <2>4. Together'
    BY <2>2 DEF Inv, Together, SameMeeting, SameOrigin, Meeting, Fresh
  <2>5. ClockInv' /\ BuiltInv'
    BY <2>2 DEF Inv, ClockInv, BuiltInv, CutoffIsReal, Fresh
  <2> QED
    BY <2>3, <2>4, <2>5 DEF Inv
<1>4. CASE Gather
  <2> DEFINE votes == {vote[p] : p \in Ranks}
  <2>1. /\ ReturnTo(Ranks, votes) /\ votes \in SUBSET BOOLEAN
        /\ \A p \in Ranks : waiting[p] /\ at[p] \notin Launches
    BY <1>4 DEF Gather, AllIn, Gathers, Launches, Inv, TypeInv, CallOK
  <2>2. /\ TRUE \in votes => \E p \in Ranks : vote[p]
        /\ FALSE \notin votes => \A p \in Ranks : vote[p]
    BY DEF Inv, TypeInv, CallOK
  <2> HIDE DEF votes
  <2> QED
    BY <2>1, <2>2, CollectiveKeeps
<1>5. CASE Broadcast
  <2> DEFINE votes == {vote[Root]}
  <2>1. /\ ReturnTo(Ranks, votes) /\ votes \in SUBSET BOOLEAN
        /\ \A p \in Ranks : waiting[p] /\ at[p] \notin Launches \cup Gathers
    BY <1>5, RanksAssumption
       DEF Broadcast, AllIn, Broadcasts, Launches, Gathers, Inv, TypeInv, CallOK
  <2>2. TRUE \in votes => \E p \in Ranks : vote[p]
    BY RanksAssumption DEF Inv, TypeInv, CallOK
  <2> HIDE DEF votes
  <2> QED
    BY <2>1, <2>2, CollectiveKeeps
<1>6. CASE UNCHANGED vars
  <2>1. UNCHANGED <<at, waiting, vote, heard, gen, cfg, fate, working, result, late, built, cut>>
    BY <1>6 DEF vars, call
  <2>2. TypeInv'
    BY <1>6, TypeInvNext DEF Inv
  <2>3. Together'
    BY <2>1 DEF Inv, Together, SameMeeting, SameOrigin, Meeting, Fresh
  <2>4. ClockInv' /\ BuiltInv'
    BY <2>1 DEF Inv, ClockInv, BuiltInv, CutoffIsReal, Fresh
  <2> QED
    BY <2>2, <2>3, <2>4 DEF Inv
<1> QED
  BY <1>1, <1>2, <1>3, <1>4, <1>5, <1>6 DEF Next

\* And so it holds of every search whose ranks agree.
LEMMA RankedInvariant == Agreed => (Spec => []Inv)
<1> SUFFICES ASSUME Agreed PROVE Spec => []Inv
  OBVIOUS
<1>1. Inv /\ [Next]_vars => Inv'
  BY InvNext
<1> QED
  BY <1>1, InvInit, PTL DEF Spec

\* When every rank is blocked or has ended, all are at the same collective, of
\* the same config of the same generation: nobody breaks early while peers
\* keep entering collectives.  The decisions of LocalBenchmarkProvider.benchmark
\* and of _budgeted_range are gathered for that.
THEOREM RanksStayInLockstep == Agreed => (Spec => []Lockstep)
<1>1. Inv => Lockstep
  <2> SUFFICES ASSUME Inv, \A p \in Ranks : Blocked(p)
               PROVE  \A p, q \in Ranks :
                        <<gen[p], at[p], cfg[p]>> = <<gen[q], at[q], cfg[q]>>
    BY DEF Lockstep
  <2>1. \A p \in Ranks : waiting[p] \/ at[p] \in Ends
    BY DEF Blocked, Over
  <2>2. \A p \in Ranks : at[p] \in Launches => KernelWaits
    BY DEF Blocked, Over, Launches, Ends
  <2>3. \A p, q \in Ranks : at[p] = at[q] /\ gen[p] = gen[q] /\ cfg[p] = cfg[q]
    BY <2>1, <2>2, WaitTogether DEF Inv
  <2> QED
    BY <2>3
<1> QED
  BY <1>1, RankedInvariant, PTL

\* No rank drops configs or generations for the budget while the clocks of all
\* ranks say that there is time left (_budget_exceeded_synced).
THEOREM RanksStopInTime == Agreed => (Spec => []CutoffIsReal)
<1>1. Inv => CutoffIsReal
  BY DEF Inv, ClockInv
<1> QED
  BY <1>1, RankedInvariant, PTL

\* A rank that launches a kernel knows that every rank has a binary of it:
\* _benchmark_function gathers whether it was built before it runs it.
THEOREM RanksRunTogether == Agreed => (Spec => []NobodyRunsAlone)
<1>1. Inv => NobodyRunsAlone
  BY DEF Inv, BuiltInv, NobodyRunsAlone, Launches, RunPlaces
<1> QED
  BY <1>1, RankedInvariant, PTL

\* Ranks between the same two batches hold the same performance of every
\* config, so that the search goes on to the same ones on all of them: the
\* measured times are those of the first rank (sync_object), and what is
\* rejected is rejected by all.
THEOREM RanksHoldTheSame == Agreed => (Spec => []SamePerformance)
<1>1. Inv => SamePerformance
  <2> SUFFICES ASSUME Inv, NEW p \in Ranks, NEW q \in Ranks, BetweenBatches(p),
                      BetweenBatches(q), gen[p] = gen[q]
               PROVE  result[p] = result[q]
    BY DEF SamePerformance
  <2>1. PICK F \in [Batch -> Fates] : Meeting(F, p) = Meeting(F, q)
    BY DEF Inv, Together, SameMeeting
  <2>2. CASE Fresh(p) /\ Fresh(q)
    BY <2>2 DEF Inv, Together, SameOrigin
  <2>3. ASSUME NEW o \in Ranks, BetweenBatches(o)
        PROVE  \/ /\ Meeting(F, o).result = result[o]
                  /\ Meeting(F, o).gen = gen[o]
               \/ /\ Fresh(o)
                  /\ Meeting(F, o).gen = gen[o] + 1
    <3>1. CASE waiting[o] \/ at[o] \in Ends
      BY <3>1 DEF Meeting, Meet, Place
    <3>2. CASE ~waiting[o] /\ at[o] \in {"boundary", "leave"}
      <4>1. Meeting(F, o) = FromLocal(at[o], gen[o], cfg[o], result[o], fate[o])
        BY <3>2 DEF Meeting, Meet, Local, Ends
      <4> QED
        BY <3>2, <4>1 DEF FromLocal, AfterBoundary, Place
    <3>3. CASE ~waiting[o] /\ at[o] \in {"verify", "range", "final", "finalists"}
      <4>1. Meeting(F, o) = After(F, at[o], heard[o], gen[o], cfg[o], result[o], fate[o])
        BY <3>3 DEF Meeting, Meet, Local, Ends
      <4>2. Fresh(o)
        BY <3>3 DEF Fresh, Local, Ends, Launches
      <4>3. \/ \E a : Meeting(F, o) = Place(a, gen[o], cfg[o], result[o], fate[o])
            \/ Meeting(F, o) = Place("cut", gen[o] + 1, 1, NoResults, NoFates)
        BY <3>3, <4>1 DEF After, AfterBoundary
      <4> QED
        BY <4>2, <4>3 DEF Place
    <3> QED
      BY <2>3, <3>1, <3>2, <3>3 DEF BetweenBatches, Ends
  <2>4. gen[p] \in Nat
    BY DEF Inv, TypeInv, BatchOK
  <2> QED
    BY <2>1, <2>2, <2>3, <2>4
<1> QED
  BY <1>1, RankedInvariant, PTL

=============================================================================
