-------------------------- MODULE KernelBindProofs --------------------------
(***************************************************************************)
(* Proofs about KernelBind, for any number of threads, argument lists,     *)
(* facts and operations: the types, that nothing survives a reset, that a  *)
(* BoundKernel is compiled once and, where nothing is generated for a hint *)
(* that the keys do not follow, that every cache answers right; and under  *)
(* stronger hypotheses what the calls run.                                 *)
(***************************************************************************)
EXTENDS KernelBind, SequenceTheorems, TLAPS

USE FactsAssumption, BoundsAssumption

-----------------------------------------------------------------------------
(* The steps, by what they do to the Kernel and the BoundKernels.          *)

\* They are only read.
Quiet(t) ==
  \/ CallKernel(t) \/ CallBound(t) \/ TryPrepared(t) \/ Dispatch(t) \/ TakeEntry(t) \/ Called(t)
  \/ CheckExtras(t) \/ Test(t) \/ Lock(t) \/ Compile(t) \/ Exec(t)

\* Arguments are bound.
Binds(t) == OnlyBind(t) \/ BindSlow(t) \/ Rebind(t) \/ Relock(t)

\* Facts found by a late specialisation are published.
Keys(t) == KeyTail(t) \/ KeyExtents(t)

\* Every step of a thread is of one of these kinds.
LEMMA Kinds ==
  ASSUME NEW t \in Threads,
         CallKernel(t) \/ CallBound(t) \/ OnlyBind(t) \/ Reset(t) \/ Step(t)
  PROVE  \/ Quiet(t) \/ Binds(t) \/ Keys(t)
         \/ Reset(t) \/ Check(t) \/ Publish(t) \/ PublishGuards(t) \/ SetRun(t) \/ Offer(t)
BY DEF Step, Quiet, Binds, Keys

\* A step that only reads, or answers its caller, leaves tables, caches and
\* locks alone.
LEMMA QuietReads ==
  ASSUME NEW t \in Threads, Quiet(t)
  PROVE  UNCHANGED <<cache, bounds, run, direct>>
BY DEF Quiet, CallKernel, CallBound, Start, TryPrepared, Dispatch, TakeEntry, Called,
       CheckExtras, Test, Lock, Compile, Exec, cache, bounds, frame

-----------------------------------------------------------------------------
(* The types, in three parts.                                              *)

Row == [key : SUBSET Facts, bound : Bounds]

\* Rows with distinct keys made of the facts S.
Keyed(rows, S) ==
  /\ rows \subseteq Row
  /\ \A e, f \in rows : e.key = f.key => e = f
  /\ \A e \in rows : e.key \subseteq S

\* The Kernel; a key holds only published facts.
CacheOK ==
  /\ schema \subseteq Facts /\ sgen \in Nat /\ rgen \in 0..MaxResets
  /\ Keyed(table, schema)
  /\ dispatch \subseteq [guards : SUBSET Facts, key : SUBSET Facts, bound : Bounds]
  /\ \A d, e \in dispatch : d.guards = e.guards /\ d.key = e.key => d = e
  /\ prepared \in Prepareds \cup {NoPrepared}

\* The BoundKernels.
BoundsOK ==
  /\ made \in 0..MaxBounds
  /\ bgen \in [Bounds -> 0..MaxResets]
  /\ hint \in [Bounds -> SUBSET Facts] /\ traced \in [Bounds -> SUBSET Facts]
  /\ run \in [Bounds -> Programs \cup {NoProgram}]
  /\ direct \in [Bounds -> Prepareds \cup {NoPrepared}]

\* The threads: what they have besides their places.
FieldsOK ==
  /\ calls \in 0..MaxCalls
  /\ arg \in [Threads -> SUBSET Facts]
  /\ bnd \in [Threads -> 0..MaxBounds] /\ outer \in [Threads -> 0..MaxBounds]
  /\ entry \in [Threads -> Entries]
  /\ plan \in [Threads -> Programs \cup {NoProgram}]
  /\ held \in [Threads -> Seq(Bounds)]
  /\ misused \subseteq {"fast", "slow", "bound"}

\* The threads.
ThreadsOK ==
  /\ pc \in [Threads -> PCs]
  /\ FieldsOK

\* The parts of TypeOK that the invariant keeps apart make it up.
LEMMA TypesTogether == CacheOK /\ BoundsOK /\ ThreadsOK => TypeOK
BY DEF TypeOK, CacheOK, BoundsOK, ThreadsOK, FieldsOK, Keyed, Row

\* What a program or a key is made of are facts.
LEMMA FactSets ==
  /\ Guards \subseteq Facts /\ Late \subseteq Facts /\ Metadata \subseteq Facts
  /\ Early \subseteq Facts /\ TraceGuards \subseteq Facts /\ CodeGuards \subseteq Facts
  /\ LateValues \subseteq Facts /\ LateHints \subseteq Facts
  /\ \A a \in ArgLists : a \subseteq Facts
BY DEF Facts, Guards, Late

\* The rows E when _publish_guard_facts has added to each key those of the
\* facts F that held of its bound's own arguments.
Rekeyed(E, hints, F) == {[e EXCEPT !.key = @ \cup (hints[e.bound] \cap F)] : e \in E}

\* Each of new is one of rows, with those of the facts F that its bound's own
\* arguments have.
Widened(new, rows, hints, F) ==
  \A e \in new : \E f \in rows :
    e.bound = f.bound /\ e.key = f.key \cup (hints[f.bound] \cap F)

\* Distinct keys stay distinct, because what is new was in none of them.
LEMMA RekeyedRows ==
  ASSUME NEW F \in SUBSET Facts, NEW S \in SUBSET Facts, F \cap S = {}, NEW rows, Keyed(rows, S),
         NEW hints \in [Bounds -> SUBSET Facts]
  PROVE  /\ Keyed(Rekeyed(rows, hints, F), S \cup F)
         /\ Widened(Rekeyed(rows, hints, F), rows, hints, F)
<1> DEFINE Re(e) == [e EXCEPT !.key = @ \cup (hints[e.bound] \cap F)]
<1>1. ASSUME NEW e \in rows
      PROVE  /\ Re(e) \in Row /\ Re(e).bound = e.bound
             /\ Re(e).key = e.key \cup (hints[e.bound] \cap F) /\ Re(e).key \subseteq S \cup F
  BY DEF Row, Keyed
<1>2. Rekeyed(rows, hints, F) = {Re(e) : e \in rows}
  BY DEF Rekeyed
<1> HIDE DEF Re
<1>3. ASSUME NEW x \in Rekeyed(rows, hints, F), NEW y \in Rekeyed(rows, hints, F), x.key = y.key
      PROVE  x = y
  <2>1. PICK e \in rows : x = Re(e)
    BY <1>2
  <2>2. PICK f \in rows : y = Re(f)
    BY <1>2
  <2>3. e.key \cup (hints[e.bound] \cap F) = f.key \cup (hints[f.bound] \cap F)
    BY <1>1, <1>3, <2>1, <2>2
  <2>4. e.key \cap F = {} /\ f.key \cap F = {}
    BY DEF Keyed
  <2>5. e.key = f.key
    BY <2>3, <2>4
  <2>6. e = f
    BY <2>5 DEF Keyed
  <2> QED
    BY <2>1, <2>2, <2>6
<1>4. \A e \in Rekeyed(rows, hints, F) :
        /\ e \in Row /\ e.key \subseteq S \cup F
        /\ \E f \in rows : e.bound = f.bound /\ e.key = f.key \cup (hints[f.bound] \cap F)
  BY <1>1, <1>2
<1> QED
  BY <1>3, <1>4 DEF Keyed, Widened

\* The next BoundKernel is constructed for arguments a; tracing records facts.
News(a, recorded) ==
  LET b == made + 1 IN
  /\ Hits(a) = {} /\ b \in Bounds /\ BoundFor(a) = b /\ made' = b /\ rgen' = rgen
  /\ bgen' = [bgen EXCEPT ![b] = rgen]
  /\ hint' = [hint EXCEPT ![b] = a]
  /\ traced' = [traced EXCEPT ![b] = Early \cup recorded]
  /\ schema' = schema \cup Early \cup recorded
  /\ \A e \in table' :
       \/ e.bound = b /\ e.key = a \cap schema'
       \/ \E f \in table :
            /\ e.bound = f.bound
            /\ e.key = f.key \cup (hint'[f.bound] \cap (recorded \ (schema \cup Early)))
  /\ IF recorded \subseteq schema \cup Early THEN UNCHANGED <<sgen, dispatch, prepared>>
     ELSE sgen' = sgen + 1 /\ dispatch' = {} /\ prepared' = NoPrepared

\* bind returns a cached BoundKernel and changes nothing, or the next one.
LEMMA BindCases ==
  ASSUME CacheOK, BoundsOK, NEW a \in SUBSET Facts, Bind(a)
  PROVE  /\ CacheOK'
         /\ \/ UNCHANGED <<cache, bounds>> /\ Hits(a) # {} /\ BoundFor(a) \in Hits(a)
            \/ \E recorded \in SUBSET TraceGuards : News(a, recorded)
<1>1. CASE Hits(a) # {}
  <2>1. UNCHANGED <<cache, bounds>>
    BY <1>1 DEF Bind, cache, bounds
  <2> QED
    BY <1>1, <2>1 DEF BoundFor, CacheOK, cache
<1>2. CASE Hits(a) = {}
  <2> DEFINE b == made + 1
             known == schema \cup Early
             E == table \cup {[key |-> a \cap known, bound |-> b]}
  <2>1. PICK recorded \in SUBSET TraceGuards :
          /\ b \in Bounds /\ made' = b /\ rgen' = rgen
          /\ bgen' = [bgen EXCEPT ![b] = rgen]
          /\ hint' = [hint EXCEPT ![b] = a]
          /\ traced' = [traced EXCEPT ![b] = Early \cup recorded]
          /\ PublishGuardFacts(recorded, known, E, hint')
    BY <1>2 DEF Bind
  <2>2. /\ recorded \in SUBSET Facts /\ known \in SUBSET Facts /\ hint' \in [Bounds -> SUBSET Facts]
        /\ [key |-> a \cap known, bound |-> b] \in Row
    BY <2>1, FactSets DEF CacheOK, BoundsOK, Row
  <2>3. ASSUME NEW e \in table PROVE e.key # a \cap known
    <3>1. e.key # a \cap schema
      BY <1>2 DEF Hits, KeyOf
    <3>2. e.key \subseteq schema
      BY DEF CacheOK, Keyed
    <3> QED
      BY <3>1, <3>2
  <2>4. Keyed(E, known)
    <3> DEFINE r == [key |-> a \cap known, bound |-> b]
    <3>1. r \in Row /\ r.key = a \cap known
      BY <2>2
    <3> HIDE DEF r
    <3>2. \A e \in E : e \in table \/ e = r
      BY DEF r
    <3>3. \A e \in E : e \in Row /\ e.key \subseteq known
      BY <3>1, <3>2 DEF CacheOK, Keyed
    <3>4. \A e, f \in E : e.key = f.key => e = f
      BY <2>3, <3>1, <3>2 DEF CacheOK, Keyed
    <3> QED
      BY <3>3, <3>4 DEF Keyed
  <2> HIDE DEF E, known
  <2>5. /\ schema' = known \cup recorded /\ table' = Rekeyed(E, hint', recorded \ known)
        /\ IF recorded \subseteq known THEN UNCHANGED <<sgen, dispatch, prepared>>
           ELSE sgen' = sgen + 1 /\ dispatch' = {} /\ prepared' = NoPrepared
    BY <2>1 DEF PublishGuardFacts, Rekeyed
  <2>6. /\ Keyed(table', schema')
        /\ \A e \in table' : \E f \in E :
             e.bound = f.bound /\ e.key = f.key \cup (hint'[f.bound] \cap (recorded \ known))
    <3> DEFINE F == recorded \ known
               h == hint'
    <3>1. /\ F \in SUBSET Facts /\ F \cap known = {} /\ schema' = known \cup F
          /\ table' = Rekeyed(E, h, F)
      BY <2>2, <2>5
    <3>2. h \in [Bounds -> SUBSET Facts] /\ known \in SUBSET Facts
      BY <2>2
    <3> HIDE DEF F, h
    <3>3. Keyed(Rekeyed(E, h, F), known \cup F) /\ Widened(Rekeyed(E, h, F), E, h, F)
      BY <2>4, <3>1, <3>2, RekeyedRows
    <3> QED
      BY <3>1, <3>3 DEF F, h, Widened
  <2>7. hint'[b] = a
    BY <2>1 DEF BoundsOK
  <2>8. ASSUME NEW e \in table'
        PROVE  \/ e.bound = b /\ e.key = a \cap schema'
               \/ \E f \in table :
                    e.bound = f.bound /\ e.key = f.key \cup (hint'[f.bound] \cap (recorded \ known))
    <3>1. PICK f \in E :
            e.bound = f.bound /\ e.key = f.key \cup (hint'[f.bound] \cap (recorded \ known))
      BY <2>6
    <3>2. CASE f \in table
      BY <3>1, <3>2
    <3>3. CASE f = [key |-> a \cap known, bound |-> b]
      <4>1. e.bound = b /\ e.key = (a \cap known) \cup (a \cap (recorded \ known))
        BY <2>7, <3>1, <3>3
      <4> QED
        BY <2>5, <4>1 DEF known
    <3> QED
      BY <3>2, <3>3 DEF E
  <2>9. BoundFor(a) = b
    BY <1>2 DEF BoundFor
  <2>10. News(a, recorded)
    BY <1>2, <2>1, <2>5, <2>8, <2>9, Zenon DEF News, known
  <2>11. CacheOK'
    BY <2>1, <2>2, <2>5, <2>6 DEF CacheOK
  <2> QED
    BY <2>10, <2>11
<1> QED
  BY <1>1, <1>2

-----------------------------------------------------------------------------
(* What the Kernel and its BoundKernels keep.                              *)

\* Where a thread is when it has a BoundKernel, holds its lock, compiles it.
Generating == {"guards", "tail", "extents", "set"}
Compiling == {"compile"} \cup Generating
Locked == {"relock"} \cup Compiling
WithBound ==
  {"check", "called", "extras", "rebind", "test", "lock", "exec", "offer"} \cup Locked

\* Whatever a cache of the Kernel names was constructed since the last reset.
CurrentInv ==
  /\ \A e \in table \cup dispatch : e.bound <= made /\ bgen[e.bound] = rgen
  /\ prepared # NoPrepared =>
       prepared.bound <= made /\ prepared.rgen = rgen /\ bgen[prepared.bound] = rgen

\* A BoundKernel that is still to be constructed has no program.
FreshInv ==
  \A b \in Bounds :
    /\ bgen[b] <= rgen
    /\ b > made => run[b] = NoProgram /\ direct[b] = NoPrepared

KernelInv == CacheOK /\ BoundsOK /\ CurrentInv /\ FreshInv

\* A thread's BoundKernels were constructed; what it has run has a program.
Thread(t) ==
  /\ pc[t] \in WithBound => bnd[t] \in 1..made
  /\ outer[t] <= made
  /\ pc[t] \in {"entry", "publish"} => outer[t] # None
  /\ pc[t] \in {"exec", "offer"} => Compiled(bnd[t])

\* The lock it compiles under is the innermost it holds, and it compiles a
\* BoundKernel without a program.
Lockup(t) ==
  /\ pc[t] \in Locked => held[t] # <<>> /\ held[t][Len(held[t])] = bnd[t]
  /\ pc[t] \in Generating => ~Compiled(bnd[t])

\* The program it generates for BoundKernel b and arguments a.
ProgramOf(b, a) ==
  LET hinted == traced[b] \cup CodeGuards \cup LateHints IN
  [needs |-> hinted \cup LateValues,
   holds |-> (hint[b] \cap hinted) \cup (a \cap LateValues)]

ThreadInv == \A t \in Threads : Thread(t)

LockInv ==
  /\ \A t, u \in Threads, b \in Bounds : Holds(t, b) /\ Holds(u, b) => t = u
  /\ \A t \in Threads : Lockup(t)

PlanInv == \A t \in Threads : pc[t] \in Generating => plan[t] = ProgramOf(bnd[t], arg[t])

\* What no step takes back.
Grows ==
  /\ made <= made' /\ rgen <= rgen' /\ sgen <= sgen'
  /\ \A b \in 1..made : bgen'[b] = bgen[b] /\ hint'[b] = hint[b] /\ traced'[b] = traced[b]

\* The caches only lose what they name when arguments are bound.
LEMMA BindGrows ==
  ASSUME CacheOK, BoundsOK, CurrentInv, NEW a \in SUBSET Facts, Bind(a)
  PROVE  /\ CacheOK' /\ CurrentInv' /\ Grows /\ rgen' = rgen
         /\ made' \in 0..MaxBounds /\ bgen' \in [Bounds -> 0..MaxResets]
         /\ hint' \in [Bounds -> SUBSET Facts] /\ traced' \in [Bounds -> SUBSET Facts]
         /\ BoundFor(a) \in 1..made'
         /\ \A b \in Bounds : bgen'[b] # bgen[b] => bgen'[b] = rgen
<1>1. CASE UNCHANGED <<cache, bounds>> /\ BoundFor(a) \in Hits(a)
  <2>1. BoundFor(a) \in 1..made
    BY <1>1 DEF Hits, CurrentInv, CacheOK, Keyed, Row, Bounds, BoundsOK
  <2> QED
    BY <1>1, <2>1 DEF CacheOK, BoundsOK, CurrentInv, Grows, cache, bounds
<1>2. CASE \E recorded \in SUBSET TraceGuards : News(a, recorded)
  <2>1. PICK recorded \in SUBSET TraceGuards : News(a, recorded)
    BY <1>2
  <2> DEFINE b == made + 1
  <2>2. /\ b \in Bounds /\ BoundFor(a) = b /\ made' = b /\ rgen' = rgen
        /\ bgen' = [bgen EXCEPT ![b] = rgen]
        /\ hint' = [hint EXCEPT ![b] = a]
        /\ traced' = [traced EXCEPT ![b] = Early \cup recorded]
        /\ \A e \in table' : e.bound = b \/ \E f \in table : e.bound = f.bound
        /\ \/ UNCHANGED <<sgen, dispatch, prepared>>
           \/ sgen' = sgen + 1 /\ dispatch' = {} /\ prepared' = NoPrepared
    BY <2>1 DEF News
  <2>3. /\ made \in Nat /\ Early \cup recorded \in SUBSET Facts
        /\ \A c \in 1..made : c # b
    BY FactSets DEF BoundsOK
  <2>4. bgen'[b] = rgen' /\ \A c \in Bounds : c # b => bgen'[c] = bgen[c]
    BY <2>2 DEF BoundsOK
  <2>5. Grows
    BY <2>2, <2>3 DEF Grows, BoundsOK, CacheOK, Bounds
  <2>6. CacheOK'
    BY BindCases
  <2>7. \A e \in table' : e.bound <= made' /\ bgen'[e.bound] = rgen'
    <3> SUFFICES ASSUME NEW e \in table' PROVE e.bound <= made' /\ bgen'[e.bound] = rgen'
      OBVIOUS
    <3>1. CASE e.bound = b
      BY <2>2, <2>4, <3>1 DEF BoundsOK
    <3>2. CASE \E f \in table : e.bound = f.bound
      <4>1. PICK f \in table : e.bound = f.bound
        BY <3>2
      <4>2. f.bound \in Bounds /\ f.bound <= made /\ bgen[f.bound] = rgen
        BY DEF CurrentInv, CacheOK, Keyed, Row
      <4> QED
        BY <2>2, <2>3, <2>4, <4>1, <4>2 DEF Bounds
    <3> QED
      BY <2>2, <3>1, <3>2
  <2>8. CASE UNCHANGED <<sgen, dispatch, prepared>>
    <3>1. \A e \in dispatch : e.bound \in Bounds /\ e.bound <= made /\ bgen[e.bound] = rgen
      BY DEF CurrentInv, CacheOK
    <3>2. \A e \in dispatch' : e.bound <= made' /\ bgen'[e.bound] = rgen'
      BY <2>2, <2>3, <2>4, <2>8, <3>1 DEF Bounds
    <3>3. prepared # NoPrepared =>
            /\ prepared.bound \in Bounds /\ prepared.bound <= made
            /\ prepared.rgen = rgen /\ bgen[prepared.bound] = rgen
      BY DEF CurrentInv, CacheOK, Prepareds
    <3>4. prepared' # NoPrepared =>
            prepared'.bound <= made' /\ prepared'.rgen = rgen' /\ bgen'[prepared'.bound] = rgen'
      BY <2>2, <2>3, <2>4, <2>8, <3>3 DEF Bounds
    <3> QED
      BY <2>2, <2>3, <2>4, <2>5, <2>6, <2>7, <3>2, <3>4 DEF CurrentInv, BoundsOK, CacheOK, Bounds
  <2>9. CASE sgen' = sgen + 1 /\ dispatch' = {} /\ prepared' = NoPrepared
    BY <2>2, <2>3, <2>4, <2>5, <2>6, <2>7, <2>9 DEF CurrentInv, BoundsOK, CacheOK, Bounds
  <2> QED
    BY <2>2, <2>8, <2>9
<1> QED
  BY <1>1, <1>2, BindCases

-----------------------------------------------------------------------------
(* Every step keeps what the Kernel and its BoundKernels are.              *)

\* A thread has a BoundKernel that exists where its place says so.
LEMMA HasBound ==
  ASSUME KernelInv, ThreadsOK, NEW t \in Threads, Thread(t)
  PROVE  /\ pc[t] \in WithBound => bnd[t] \in Bounds /\ bnd[t] \in 1..made
         /\ pc[t] \in {"entry", "publish"} => outer[t] \in Bounds /\ outer[t] \in 1..made
BY DEF KernelInv, BoundsOK, Bounds, ThreadsOK, FieldsOK, Thread, None

\* The constructor arguments of an OnlyBind and of a bind inside a call.
LEMMA BindsBind ==
  ASSUME ThreadsOK, NEW t \in Threads, Binds(t)
  PROVE  /\ \E a \in SUBSET Facts : Bind(a)
         /\ UNCHANGED <<run, direct>>
<1>1. arg[t] \in SUBSET Facts /\ ArgLists \subseteq SUBSET Facts
  BY DEF ThreadsOK, FieldsOK
<1> QED
  BY <1>1 DEF Binds, OnlyBind, Start, BindSlow, Rebind, Relock, Rebound

\* A bind that leaves the programs alone keeps the Kernel's invariants.
LEMMA BindKeeps ==
  ASSUME KernelInv, NEW a \in SUBSET Facts, Bind(a), run' = run,
         direct' \in [Bounds -> Prepareds \cup {NoPrepared}],
         \A b \in Bounds : b > made => direct'[b] = direct[b]
  PROVE  KernelInv' /\ Grows
<1>1. /\ CacheOK' /\ CurrentInv' /\ Grows /\ rgen' = rgen
      /\ made' \in 0..MaxBounds /\ bgen' \in [Bounds -> 0..MaxResets]
      /\ hint' \in [Bounds -> SUBSET Facts] /\ traced' \in [Bounds -> SUBSET Facts]
      /\ \A b \in Bounds : bgen'[b] # bgen[b] => bgen'[b] = rgen
  BY BindGrows DEF KernelInv
<1>2. BoundsOK'
  BY <1>1 DEF KernelInv, BoundsOK
<1>3. FreshInv'
  <2>1. made <= made' /\ made \in Nat /\ made' \in Nat /\ rgen \in Nat
    BY <1>1 DEF Grows, KernelInv, BoundsOK, CacheOK
  <2> QED
    BY <1>1, <2>1 DEF KernelInv, FreshInv, Bounds
<1> QED
  BY <1>1, <1>2, <1>3 DEF KernelInv

\* Facts are published for no BoundKernel of an earlier generation, and where
\* none is constructed the caches name no other than before.
LEMMA KernelStep ==
  ASSUME KernelInv, ThreadsOK, ThreadInv, PlanInv, NEW t \in Threads,
         CallKernel(t) \/ CallBound(t) \/ OnlyBind(t) \/ Reset(t) \/ Step(t)
  PROVE  KernelInv' /\ Grows
<1>1. CASE Quiet(t)
  <2>1. UNCHANGED <<cache, bounds, run, direct>>
    BY <1>1, QuietReads
  <2> QED
    BY <2>1 DEF KernelInv, CacheOK, BoundsOK, CurrentInv, FreshInv, Compiled, Grows, cache, bounds
<1>2. CASE Binds(t)
  <2>1. PICK a \in SUBSET Facts : Bind(a) /\ UNCHANGED <<run, direct>>
    BY <1>2, BindsBind
  <2>2. direct' \in [Bounds -> Prepareds \cup {NoPrepared}]
    BY <2>1 DEF KernelInv, BoundsOK
  <2> QED
    BY <2>1, <2>2, BindKeeps
<1>3. CASE Keys(t)
  <2>1. PICK F \in SUBSET Facts : Extend(t, F) /\ pc[t] \in WithBound
    BY <1>3, FactSets DEF Keys, KeyTail, KeyExtents, WithBound, Locked, Compiling, Generating
  <2>2. bnd[t] \in Bounds /\ bnd[t] \in 1..made /\ arg[t] \in SUBSET Facts
    BY <2>1, HasBound DEF ThreadInv, ThreadsOK, FieldsOK
  <2>3. UNCHANGED <<rgen, bounds, run, direct>>
    BY <2>1 DEF Extend
  <2>4. CASE UNCHANGED <<schema, sgen, table, dispatch, prepared>>
    BY <2>3, <2>4
       DEF KernelInv, CacheOK, BoundsOK, CurrentInv, FreshInv, Compiled, Grows, bounds
  <2>5. CASE /\ bgen[bnd[t]] = rgen /\ schema' = schema \cup F /\ sgen' = sgen + 1
             /\ table' = {[key |-> arg[t] \cap schema', bound |-> bnd[t]]}
             /\ dispatch' = {} /\ prepared' = NoPrepared
    <3>1. Keyed(table', schema')
      BY <2>1, <2>2, <2>5 DEF KernelInv, CacheOK, Keyed, Row
    <3>2. CacheOK'
      BY <2>1, <2>3, <2>5, <3>1 DEF KernelInv, CacheOK
    <3>3. \A e \in table' : e.bound <= made' /\ bgen'[e.bound] = rgen'
      BY <2>2, <2>3, <2>5 DEF KernelInv, BoundsOK, bounds
    <3>4. CurrentInv'
      BY <2>5, <3>3 DEF CurrentInv
    <3>5. Grows
      BY <2>3, <2>5 DEF KernelInv, CacheOK, BoundsOK, Grows, bounds
    <3> QED
      BY <2>3, <3>2, <3>4, <3>5 DEF KernelInv, BoundsOK, FreshInv, bounds
  <2> QED
    BY <2>1, <2>4, <2>5 DEF Extend
<1>4. CASE Reset(t)
  <2>1. CacheOK'
    BY <1>4 DEF Reset, KernelInv, CacheOK, Keyed
  <2>2. BoundsOK' /\ CurrentInv' /\ Grows
    BY <1>4 DEF Reset, KernelInv, BoundsOK, CacheOK, CurrentInv, Grows, bounds
  <2>3. FreshInv'
    BY <1>4 DEF Reset, KernelInv, BoundsOK, CacheOK, FreshInv, bounds
  <2> QED
    BY <2>1, <2>2, <2>3 DEF KernelInv
<1>5. CASE Check(t)
  <2>1. /\ bnd[t] \in Bounds /\ bnd[t] \in 1..made /\ arg[t] \in SUBSET Facts
        /\ entry[t] \in Entries
    BY <1>5, HasBound DEF ThreadInv, ThreadsOK, FieldsOK, Check, WithBound
  <2>2. /\ UNCHANGED <<schema, sgen, rgen, table, dispatch, bounds, run, direct>>
        /\ \/ prepared' = prepared
           \/ prepared' = PreparedFor(bnd[t], entry[t]) /\ bgen[bnd[t]] = rgen
    BY <1>5 DEF Check, Publishable
  <2>3. PreparedFor(bnd[t], entry[t]) \in Prepareds
    BY <2>1 DEF KernelInv, CacheOK, PreparedFor, Prepareds, Entries
  <2>4. CacheOK' /\ CurrentInv'
    BY <2>1, <2>2, <2>3 DEF KernelInv, CacheOK, CurrentInv, PreparedFor, bounds
  <2> QED
    BY <2>2, <2>4 DEF KernelInv, CacheOK, BoundsOK, FreshInv, Grows, bounds
<1>6. CASE Publish(t)
  <2>1. arg[t] \in SUBSET Facts /\ entry[t] \in Entries /\ outer[t] \in Bounds /\ outer[t] \in 1..made
    BY <1>6, HasBound DEF ThreadInv, ThreadsOK, FieldsOK, Publish
  <2>2. CASE Extras /\ Hits(arg[t]) = {}
    <3>1. Bind(arg[t]) /\ UNCHANGED <<run, direct>>
      BY <1>6, <2>2 DEF Publish
    <3>2. direct' \in [Bounds -> Prepareds \cup {NoPrepared}]
      BY <3>1 DEF KernelInv, BoundsOK
    <3> QED
      BY <2>1, <3>1, <3>2, BindKeeps
  <2>3. CASE ~(Extras /\ Hits(arg[t]) = {})
    <3> DEFINE b == IF Extras THEN BoundFor(arg[t]) ELSE outer[t]
               e == entry[t]
    <3>1. b \in Bounds /\ b \in 1..made
      <4>1. CASE Extras
        <5>1. BoundFor(arg[t]) \in Hits(arg[t])
          BY <2>3, <4>1 DEF BoundFor
        <5>2. \A c \in Hits(arg[t]) : c \in Bounds /\ c <= made
          BY DEF Hits, KernelInv, CurrentInv, CacheOK, Keyed, Row
        <5> QED
          BY <4>1, <5>1, <5>2 DEF Bounds, KernelInv, BoundsOK
      <4>2. CASE ~Extras
        BY <2>1, <4>2
      <4> QED
        BY <4>1, <4>2
    <3>2. /\ UNCHANGED <<schema, sgen, rgen, table, bounds, run, direct>>
          /\ \/ UNCHANGED <<dispatch, prepared>>
             \/ /\ dispatch' = {d \in dispatch : d.guards # e.guards \/ d.key # e.key}
                               \cup {Mapping(e, b)}
                /\ prepared' = PreparedFor(b, e) /\ bgen[b] = rgen
      BY <1>6, <2>3 DEF Publish, Publishable
    <3> HIDE DEF b
    <3>3. CASE UNCHANGED <<dispatch, prepared>>
      BY <3>2, <3>3
         DEF KernelInv, CacheOK, BoundsOK, CurrentInv, FreshInv, Grows, bounds
    <3>4. CASE /\ dispatch' = {d \in dispatch : d.guards # e.guards \/ d.key # e.key}
                              \cup {Mapping(e, b)}
               /\ prepared' = PreparedFor(b, e) /\ bgen[b] = rgen
      <4>1. /\ PreparedFor(b, e) \in Prepareds
            /\ PreparedFor(b, e).bound = b /\ PreparedFor(b, e).rgen = rgen
        BY <2>1, <3>1 DEF KernelInv, CacheOK, PreparedFor, Prepareds, Entries
      <4>2. /\ Mapping(e, b) \in [guards : SUBSET Facts, key : SUBSET Facts, bound : Bounds]
            /\ Mapping(e, b).bound = b /\ Mapping(e, b).guards = e.guards
            /\ Mapping(e, b).key = e.key
        BY <2>1, <3>1 DEF Mapping, Entries
      <4>3. \A d \in dispatch' :
              \/ d = Mapping(e, b)
              \/ d \in dispatch /\ (d.guards # e.guards \/ d.key # e.key)
        BY <3>4
      <4>4. dispatch' \subseteq [guards : SUBSET Facts, key : SUBSET Facts, bound : Bounds]
        BY <4>2, <4>3 DEF KernelInv, CacheOK
      <4>5. \A x, y \in dispatch' : x.guards = y.guards /\ x.key = y.key => x = y
        BY <4>2, <4>3 DEF KernelInv, CacheOK
      <4>6. CacheOK'
        BY <3>2, <3>4, <4>1, <4>4, <4>5 DEF KernelInv, CacheOK
      <4>7. \A x \in dispatch' : x.bound <= made /\ bgen[x.bound] = rgen
        BY <3>1, <3>4, <4>2, <4>3 DEF KernelInv, BoundsOK, CurrentInv
      <4>8. CurrentInv'
        BY <3>1, <3>2, <3>4, <4>1, <4>7 DEF KernelInv, BoundsOK, CurrentInv, bounds
      <4> QED
        BY <3>2, <4>6, <4>8 DEF KernelInv, CacheOK, BoundsOK, FreshInv, Grows, bounds
    <3> QED
      BY <3>2, <3>3, <3>4
  <2> QED
    BY <2>2, <2>3
<1>7. CASE PublishGuards(t)
  <2>1. UNCHANGED <<rgen, bounds, run, direct>>
    BY <1>7 DEF PublishGuards
  <2>2. CASE UNCHANGED <<schema, sgen, table, dispatch, prepared>>
    BY <2>1, <2>2 DEF KernelInv, CacheOK, BoundsOK, CurrentInv, FreshInv, Grows, bounds
  <2>3. CASE PublishGuardFacts(plan[t].needs \cap Guards, schema, table, hint)
    <3> DEFINE F == plan[t].needs \cap Guards
               new == F \ schema
    <3>1. /\ new \in SUBSET Facts /\ new \cap schema = {} /\ schema' = schema \cup new
          /\ table' = Rekeyed(table, hint, new) /\ schema \in SUBSET Facts
          /\ hint \in [Bounds -> SUBSET Facts] /\ Keyed(table, schema)
          /\ \/ UNCHANGED <<sgen, dispatch, prepared>>
             \/ sgen' = sgen + 1 /\ dispatch' = {} /\ prepared' = NoPrepared
      BY <2>3, FactSets DEF PublishGuardFacts, Rekeyed, KernelInv, CacheOK, BoundsOK
    <3> HIDE DEF new
    <3>2. Keyed(table', schema') /\ Widened(table', table, hint, new)
      BY <3>1, RekeyedRows
    <3>3. CacheOK'
      BY <2>1, <3>1, <3>2 DEF KernelInv, CacheOK
    <3>4. \A e \in table' : e.bound <= made /\ bgen[e.bound] = rgen
      BY <3>2 DEF Widened, KernelInv, CurrentInv
    <3>5. CurrentInv'
      BY <2>1, <3>1, <3>4 DEF KernelInv, CurrentInv, bounds
    <3> QED
      BY <2>1, <3>1, <3>3, <3>5 DEF KernelInv, CacheOK, BoundsOK, FreshInv, Grows, bounds
  <2> QED
    BY <1>7, <2>2, <2>3 DEF PublishGuards
<1>8. CASE SetRun(t)
  <2>1. /\ bnd[t] \in Bounds /\ bnd[t] \in 1..made
        /\ plan[t] \in Programs \cup {NoProgram}
    BY <1>8, HasBound
       DEF ThreadInv, ThreadsOK, FieldsOK, SetRun, WithBound, Locked, Compiling, Generating
  <2>2. UNCHANGED <<cache, bounds, direct>> /\ run' = [run EXCEPT ![bnd[t]] = plan[t]]
    BY <1>8 DEF SetRun
  <2>3. BoundsOK'
    BY <2>1, <2>2 DEF KernelInv, BoundsOK, bounds
  <2>4. \A b \in Bounds : b > made => run'[b] = run[b]
    BY <2>1, <2>2 DEF KernelInv, BoundsOK, Bounds
  <2> QED
    BY <2>2, <2>3, <2>4
       DEF KernelInv, CacheOK, BoundsOK, CurrentInv, FreshInv, Grows, cache, bounds
<1>9. CASE Offer(t)
  <2>1. /\ bnd[t] \in Bounds /\ bnd[t] \in 1..made /\ arg[t] \in SUBSET Facts
        /\ entry[t] \in Entries /\ run' = run
    BY <1>9, HasBound DEF ThreadInv, ThreadsOK, FieldsOK, Offer, WithBound
  <2>2. CASE UNCHANGED <<cache, bounds, direct>>
    BY <2>1, <2>2
       DEF KernelInv, CacheOK, BoundsOK, CurrentInv, FreshInv, Grows, cache, bounds
  <2>3. CASE /\ Bind(arg[t])
             /\ direct' \in {direct, [direct EXCEPT ![bnd[t]] = PreparedFor(bnd[t], entry[t])]}
    <3>1. PreparedFor(bnd[t], entry[t]) \in Prepareds
      BY <2>1 DEF KernelInv, CacheOK, PreparedFor, Prepareds, Entries
    <3>2. direct' \in [Bounds -> Prepareds \cup {NoPrepared}]
      BY <2>1, <2>3, <3>1 DEF KernelInv, BoundsOK
    <3>3. ASSUME NEW b \in Bounds, b > made PROVE direct'[b] = direct[b]
      <4>1. b # bnd[t]
        BY <2>1, <3>3 DEF KernelInv, BoundsOK, Bounds
      <4> QED
        BY <2>1, <2>3, <4>1 DEF KernelInv, BoundsOK
    <3> QED
      BY <2>1, <2>3, <3>2, <3>3, BindKeeps
  <2> QED
    BY <1>9, <2>2, <2>3 DEF Offer
<1> QED
  BY <1>1, <1>2, <1>3, <1>4, <1>5, <1>6, <1>7, <1>8, <1>9, Kinds


-----------------------------------------------------------------------------
(* What a step does to the threads.                                        *)

\* A step of t leaves the other threads where they are.
Others(t) ==
  \A u \in Threads \ {t} :
    /\ pc'[u] = pc[u] /\ arg'[u] = arg[u] /\ bnd'[u] = bnd[u] /\ outer'[u] = outer[u]
    /\ entry'[u] = entry[u] /\ plan'[u] = plan[u] /\ held'[u] = held[u]

\* Without the last element.
LEMMA Shorter ==
  ASSUME NEW s \in Seq(Bounds), s # <<>>
  PROVE  /\ SubSeq(s, 1, Len(s) - 1) \in Seq(Bounds)
         /\ Len(SubSeq(s, 1, Len(s) - 1)) = Len(s) - 1
         /\ \A i \in 1..(Len(s) - 1) : SubSeq(s, 1, Len(s) - 1)[i] = s[i]
<1> DEFINE n == Len(s) - 1
<1>1. n \in Nat /\ 1 \in 1..Len(s) + 1 /\ n \in 1 - 1..Len(s) /\ n - 1 + 1 = n
  OBVIOUS
<1>2. /\ SubSeq(s, 1, n) \in Seq(Bounds)
      /\ Len(SubSeq(s, 1, n)) = IF 1 <= n THEN n - 1 + 1 ELSE 0
      /\ \A i \in 1..n - 1 + 1 : SubSeq(s, 1, n)[i] = s[1 + i - 1]
  BY <1>1, SubSeqProperties
<1> QED
  BY <1>1, <1>2

\* A program that was generated is one.
LEMMA ProgramIsOne ==
  ASSUME NEW b, NEW a PROVE ProgramOf(b, a) # NoProgram
<1>1. "no program" \in NoProgram.holds /\ NoProgram.needs = {}
  BY DEF NoProgram
<1>2. ProgramOf(b, a).holds \subseteq ProgramOf(b, a).needs
  BY DEF ProgramOf
<1> QED
  BY <1>1, <1>2

\* What threads hold besides their places keeps its type.
LEMMA FieldsStep ==
  ASSUME KernelInv, ThreadsOK, ThreadInv, LockInv, KernelInv', NEW t \in Threads,
         CallKernel(t) \/ CallBound(t) \/ OnlyBind(t) \/ Reset(t) \/ Step(t)
  PROVE  FieldsOK'
<1>1. FieldsOK
  BY DEF ThreadsOK
<1>2. arg[t] \in SUBSET Facts /\ held[t] \in Seq(Bounds)
  BY <1>1 DEF FieldsOK
<1>3. FastEntry(arg[t]) \in Entries /\ NoEntry \in Entries
  BY <1>2, FactSets DEF KernelInv, CacheOK, FastEntry, Entries, NoEntry
<1>4. ASSUME NEW a \in SUBSET Facts, Bind(a) PROVE BoundFor(a) \in 0..MaxBounds
  BY <1>4, BindGrows DEF KernelInv
<1>5. CASE CallKernel(t) \/ CallBound(t) \/ OnlyBind(t) \/ Reset(t)
  <2>1. calls' \in 0..MaxCalls
    BY <1>1, <1>5 DEF FieldsOK, CallKernel, CallBound, OnlyBind, Reset, Start
  <2>2. arg' \in [Threads -> SUBSET Facts]
    BY <1>1, <1>5 DEF FieldsOK, CallKernel, CallBound, OnlyBind, Reset
  <2>3. bnd' \in [Threads -> 0..MaxBounds]
    BY <1>1, <1>5 DEF FieldsOK, CallKernel, CallBound, OnlyBind, Reset, KernelInv, BoundsOK
  <2>4. UNCHANGED <<outer, entry, plan, held, misused>>
    BY <1>5 DEF CallKernel, CallBound, OnlyBind, Reset, Start
  <2> QED
    BY <1>1, <2>1, <2>2, <2>3, <2>4 DEF FieldsOK
<1>6. CASE TryPrepared(t)
  BY <1>1, <1>6 DEF FieldsOK, TryPrepared, Over, Runs
<1>7. CASE Dispatch(t)
  <2>1. bnd' \in [Threads -> 0..MaxBounds]
    <3>1. bnd' = bnd \/ \E b \in Bounds : bnd' = [bnd EXCEPT ![t] = b]
      BY <1>7 DEF Dispatch
    <3>2. ASSUME NEW b \in Bounds, bnd' = [bnd EXCEPT ![t] = b]
          PROVE  bnd' \in [Threads -> 0..MaxBounds]
      BY <1>1, <3>2 DEF FieldsOK, Bounds
    <3> QED
      BY <1>1, <3>1, <3>2 DEF FieldsOK
  <2>2. entry' \in [Threads -> Entries]
    BY <1>1, <1>3, <1>7 DEF FieldsOK, Dispatch
  <2> QED
    BY <1>1, <1>7, <2>1, <2>2 DEF FieldsOK, Dispatch
<1>8. CASE Check(t)
  <2>1. arg' \in [Threads -> SUBSET Facts] /\ misused' \subseteq {"fast", "slow", "bound"}
    BY <1>1, <1>8 DEF FieldsOK, Check, Over, Runs
  <2>2. bnd' \in [Threads -> 0..MaxBounds] /\ entry' \in [Threads -> Entries]
    BY <1>1, <1>3, <1>8 DEF FieldsOK, Check, None
  <2> QED
    BY <1>1, <1>8, <2>1, <2>2 DEF FieldsOK, Check
<1>9. CASE BindSlow(t)
  BY <1>1, <1>2, <1>4, <1>9 DEF FieldsOK, BindSlow
<1>10. CASE TakeEntry(t)
  BY <1>1, <1>3, <1>10 DEF FieldsOK, TakeEntry
<1>11. CASE Publish(t)
  BY <1>1, <1>3, <1>11 DEF FieldsOK, Publish, Over, None
<1>12. ASSUME Returned(t), UNCHANGED <<calls, outer, plan>>, misused' \subseteq {"fast", "slow", "bound"}
       PROVE  FieldsOK'
  <2>1. arg' \in [Threads -> SUBSET Facts]
    BY <1>1, <1>12 DEF FieldsOK, Returned, Over
  <2>2. bnd' \in [Threads -> 0..MaxBounds] /\ entry' \in [Threads -> Entries]
    BY <1>1, <1>3, <1>12 DEF FieldsOK, Returned, None
  <2>3. held' \in [Threads -> Seq(Bounds)]
    BY <1>1, <1>12 DEF FieldsOK, Returned
  <2> QED
    BY <1>1, <1>12, <2>1, <2>2, <2>3 DEF FieldsOK
<1>13. CASE Called(t)
  BY <1>1, <1>12, <1>13 DEF FieldsOK, Called, Runs
<1>14. CASE CheckExtras(t) \/ Test(t) \/ PublishGuards(t) \/ Keys(t)
  BY <1>1, <1>14
     DEF FieldsOK, CheckExtras, Test, PublishGuards, Keys, KeyTail, KeyExtents, Extend, frame
<1>15. CASE Rebind(t) \/ Relock(t)
  BY <1>1, <1>2, <1>4, <1>15 DEF FieldsOK, Rebind, Relock, Rebound
<1>16. CASE Lock(t)
  <2>1. Append(held[t], bnd[t]) \in Seq(Bounds)
    BY <1>2, <1>16, HasBound, AppendProperties DEF ThreadInv, Lock, WithBound
  <2> QED
    BY <1>1, <1>16, <2>1 DEF FieldsOK, Lock
<1>17. ASSUME Unlock(t), pc[t] \in Locked PROVE held' \in [Threads -> Seq(Bounds)]
  <2>1. held[t] # <<>>
    BY <1>17 DEF LockInv, Lockup
  <2> QED
    BY <1>1, <1>2, <1>17, <2>1, Shorter DEF FieldsOK, Unlock
<1>18. CASE Compile(t)
  <2>1. ProgramOf(bnd[t], arg[t]) \in Programs
    BY <1>2, <1>18, FactSets, HasBound
       DEF ThreadInv, Compile, WithBound, Locked, Compiling, Programs, ProgramOf, KernelInv, BoundsOK
  <2>2. CASE Unlock(t) /\ UNCHANGED plan
    BY <1>1, <1>17, <1>18, <2>2 DEF FieldsOK, Compile, Locked, Compiling
  <2>3. CASE UNCHANGED held /\ plan' = [plan EXCEPT ![t] = ProgramOf(bnd[t], arg[t])]
    BY <1>1, <1>18, <2>1, <2>3 DEF FieldsOK, Compile
  <2> QED
    BY <1>18, <2>2, <2>3 DEF Compile, ProgramOf
<1>19. CASE SetRun(t)
  BY <1>1, <1>17, <1>19 DEF FieldsOK, SetRun, Locked, Compiling, Generating
<1>20. CASE Exec(t)
  <2>1. misused' \subseteq {"fast", "slow", "bound"} /\ UNCHANGED <<calls, outer, plan>>
    BY <1>1, <1>20 DEF FieldsOK, Exec, Runs
  <2>2. CASE Returned(t)
    BY <1>12, <2>1, <2>2
  <2>3. CASE entry' = [entry EXCEPT ![t] = FastEntry(arg[t])] /\ UNCHANGED <<arg, bnd, held>>
    BY <1>1, <1>3, <2>1, <2>3 DEF FieldsOK
  <2> QED
    BY <1>20, <2>2, <2>3 DEF Exec
<1>21. CASE Offer(t)
  BY <1>1, <1>12, <1>21 DEF FieldsOK, Offer
<1> QED
  BY <1>5, <1>6, <1>7, <1>8, <1>9, <1>10, <1>11, <1>13, <1>14, <1>15, <1>16, <1>18, <1>19,
     <1>20, <1>21 DEF Step, Keys

\* A step leaves the other threads where they are.
LEMMA OthersStep ==
  ASSUME ThreadsOK, NEW t \in Threads,
         CallKernel(t) \/ CallBound(t) \/ OnlyBind(t) \/ Reset(t) \/ Step(t)
  PROVE  Others(t)
<1> USE DEF ThreadsOK, FieldsOK, Others, Goto
<1>1. CASE CallKernel(t) \/ CallBound(t) \/ OnlyBind(t) \/ Reset(t)
  BY <1>1 DEF CallKernel, CallBound, OnlyBind, Reset, Start
<1>2. CASE TryPrepared(t) \/ Dispatch(t) \/ Check(t) \/ BindSlow(t)
  BY <1>2 DEF TryPrepared, Dispatch, Check, BindSlow, Over
<1>3. CASE TakeEntry(t) \/ Publish(t) \/ Rebind(t) \/ Relock(t)
  BY <1>3 DEF TakeEntry, Publish, Over, Rebind, Relock, Rebound
<1>4. CASE CheckExtras(t) \/ Test(t) \/ PublishGuards(t) \/ Keys(t)
  BY <1>4 DEF CheckExtras, Test, PublishGuards, Keys, KeyTail, KeyExtents, Extend, frame
<1>5. CASE Lock(t) \/ Compile(t) \/ SetRun(t)
  BY <1>5 DEF Lock, Compile, SetRun, Unlock
<1>6. CASE Called(t)
  BY <1>6 DEF Called, Returned, Over
<1>7. CASE Exec(t)
  BY <1>7 DEF Exec, Returned, Over
<1>8. CASE Offer(t)
  BY <1>8 DEF Offer, Returned, Over
<1> QED
  BY <1>1, <1>2, <1>3, <1>4, <1>5, <1>6, <1>7, <1>8 DEF Step, Keys

\* Where the thread of a step goes.
LEMMA PlaceStep ==
  ASSUME ThreadsOK, NEW t \in Threads,
         CallKernel(t) \/ CallBound(t) \/ OnlyBind(t) \/ Reset(t) \/ Step(t)
  PROVE  pc' \in [Threads -> PCs]
<1>1. ASSUME NEW l, Goto(t, l), l \in PCs PROVE pc' \in [Threads -> PCs]
  BY <1>1 DEF ThreadsOK, Goto
<1>2. CASE OnlyBind(t) \/ Reset(t)
  BY <1>2 DEF ThreadsOK, OnlyBind, Reset
<1>3. CASE CallKernel(t) \/ CallBound(t) \/ TryPrepared(t) \/ Dispatch(t)
  BY <1>1, <1>3 DEF CallKernel, CallBound, TryPrepared, Dispatch, Over, PCs
<1>4. CASE Check(t) \/ BindSlow(t) \/ TakeEntry(t) \/ Publish(t)
  BY <1>1, <1>4 DEF Check, BindSlow, TakeEntry, Publish, Over, PCs
<1>5. ASSUME Returned(t) PROVE pc' \in [Threads -> PCs]
  BY <1>1, <1>5 DEF Returned, Over, PCs
<1>6. CASE Called(t) \/ Exec(t) \/ Offer(t)
  BY <1>1, <1>5, <1>6 DEF Called, Exec, Offer, PCs
<1>7. CASE CheckExtras(t) \/ Rebind(t) \/ Test(t) \/ Lock(t) \/ Relock(t)
  BY <1>1, <1>7 DEF CheckExtras, Rebind, Test, Lock, Relock, Rebound, PCs
<1>8. CASE Compile(t) \/ PublishGuards(t) \/ Keys(t) \/ SetRun(t)
  BY <1>1, <1>8 DEF Compile, PublishGuards, Keys, KeyTail, KeyExtents, SetRun, PCs
<1> QED
  BY <1>2, <1>3, <1>4, <1>6, <1>7, <1>8 DEF Step, Keys

\* A thread keeps to the BoundKernels that exist.
LEMMA ThreadStep ==
  ASSUME KernelInv, ThreadsOK, ThreadInv, PlanInv, KernelInv', Grows, NEW t \in Threads,
         CallKernel(t) \/ CallBound(t) \/ OnlyBind(t) \/ Reset(t) \/ Step(t)
  PROVE  Thread(t)'
<1> USE DEF ThreadsOK, FieldsOK, Thread, Goto, WithBound, Locked, Compiling, Generating
<1>1. /\ made \in 0..MaxBounds /\ made' \in 0..MaxBounds /\ made <= made' /\ Thread(t)
  BY DEF KernelInv, BoundsOK, Grows, ThreadInv
<1>2. ASSUME NEW a \in SUBSET Facts, Bind(a) PROVE BoundFor(a) \in 1..made'
  BY <1>2, BindGrows DEF KernelInv
<1>3. CASE CallKernel(t) \/ CallBound(t)
  BY <1>1, <1>3 DEF CallKernel, CallBound, Start, bounds
<1>4. CASE OnlyBind(t) \/ Reset(t)
  BY <1>1, <1>4 DEF OnlyBind, Reset, Start, Compiled
<1>5. CASE TryPrepared(t)
  BY <1>1, <1>5 DEF TryPrepared, Over
<1>6. CASE Dispatch(t)
  <2>1. \A e \in dispatch : e.bound \in 1..made
    BY DEF KernelInv, CacheOK, CurrentInv, BoundsOK, Bounds
  <2>2. \A e, b : Mapping(e, b) \in dispatch => b \in 1..made
    BY <2>1 DEF Mapping
  <2> QED
    BY <1>1, <1>6, <2>2 DEF Dispatch
<1>7. CASE Check(t)
  BY <1>1, <1>7 DEF Check, Over
<1>8. CASE BindSlow(t)
  BY <1>1, <1>2, <1>8 DEF BindSlow
<1>9. CASE TakeEntry(t) \/ Publish(t)
  BY <1>1, <1>9 DEF TakeEntry, Publish, Over, None
<1>10. ASSUME Returned(t), outer' = outer PROVE Thread(t)'
  BY <1>1, <1>10 DEF Returned, Over
<1>11. CASE Called(t)
  <2>1. CASE Returned(t)
    BY <1>10, <1>11, <2>1 DEF Called
  <2>2. CASE /\ UNCHANGED <<bnd, outer>> /\ bnd[t] \in 1..made
             /\ Goto(t, "rebind") \/ Goto(t, "extras")
    BY <1>1, <2>2
  <2> QED
    BY <1>1, <1>11, <2>1, <2>2 DEF Called
<1>12. CASE CheckExtras(t)
  BY <1>1, <1>12 DEF CheckExtras, frame
<1>13. CASE Rebind(t) \/ Relock(t)
  BY <1>1, <1>2, <1>13 DEF Rebind, Relock, Rebound
<1>14. CASE Test(t)
  BY <1>1, <1>14 DEF Test, frame, Compiled
<1>15. CASE Lock(t)
  BY <1>1, <1>15 DEF Lock
<1>16. CASE Compile(t)
  BY <1>1, <1>16 DEF Compile, Compiled
<1>17. CASE PublishGuards(t) \/ Keys(t)
  BY <1>1, <1>17 DEF PublishGuards, Keys, KeyTail, KeyExtents, Extend, frame
<1>18. CASE SetRun(t)
  <2>1. plan[t] # NoProgram
    BY <1>18, ProgramIsOne DEF PlanInv, SetRun
  <2>2. run'[bnd[t]] = plan[t]
    BY <1>1, <1>18 DEF SetRun, KernelInv, BoundsOK, Bounds
  <2> QED
    BY <1>1, <1>18, <2>1, <2>2 DEF SetRun, Compiled
<1>19. CASE Exec(t)
  <2>1. CASE Returned(t)
    BY <1>10, <1>19, <2>1 DEF Exec
  <2>2. CASE /\ UNCHANGED <<bnd, outer, run>> /\ bnd[t] \in 1..made /\ Compiled(bnd[t])
             /\ Goto(t, "offer")
    BY <1>1, <2>2 DEF Compiled
  <2> QED
    BY <1>1, <1>19, <2>1, <2>2 DEF Exec
<1>20. CASE Offer(t)
  BY <1>10, <1>20 DEF Offer
<1> QED
  BY <1>3, <1>4, <1>5, <1>6, <1>7, <1>8, <1>9, <1>11, <1>12, <1>13, <1>14, <1>15, <1>16, <1>17,
     <1>18, <1>19, <1>20 DEF Step, Keys

\* A lock passes from hand to hand, and is held where a program is generated.
LEMMA LockStep ==
  ASSUME KernelInv, ThreadsOK, ThreadInv, LockInv, Grows, NEW t \in Threads,
         CallKernel(t) \/ CallBound(t) \/ OnlyBind(t) \/ Reset(t) \/ Step(t)
  PROVE  /\ \A b \in Bounds : Holds(t, b)' => Holds(t, b) \/ \A u \in Threads \ {t} : ~Holds(u, b)
         /\ (pc[t] \in Locked => held[t] # <<>> /\ held[t][Len(held[t])] = bnd[t])'
<1> USE DEF ThreadsOK, FieldsOK, Goto, Locked, Compiling, Generating
<1>1. held[t] \in Seq(Bounds) /\ Lockup(t)
  BY DEF LockInv
<1>2. ASSUME held' = held, pc'[t] \in Locked => pc[t] \in Locked /\ bnd'[t] = bnd[t]
      PROVE  /\ \A b \in Bounds : Holds(t, b)' => Holds(t, b)
             /\ (pc[t] \in Locked => held[t] # <<>> /\ held[t][Len(held[t])] = bnd[t])'
  BY <1>1, <1>2 DEF Holds, Lockup
<1>3. ASSUME Returned(t)
      PROVE  /\ \A b \in Bounds : Holds(t, b)' => Holds(t, b)
             /\ (pc[t] \in Locked => held[t] # <<>> /\ held[t][Len(held[t])] = bnd[t])'
  <2>1. held'[t] = <<>> /\ pc'[t] \in {"idle", "entry"}
    BY <1>3 DEF Returned, Over
  <2> QED
    BY <2>1 DEF Holds
<1>4. ASSUME Unlock(t), Goto(t, "exec"), pc[t] \in Locked
      PROVE  /\ \A b \in Bounds : Holds(t, b)' => Holds(t, b)
             /\ (pc[t] \in Locked => held[t] # <<>> /\ held[t][Len(held[t])] = bnd[t])'
  <2>1. held'[t] = SubSeq(held[t], 1, Len(held[t]) - 1) /\ pc'[t] = "exec" /\ held[t] # <<>>
    BY <1>1, <1>4 DEF Unlock, Lockup
  <2>2. /\ held'[t] \in Seq(Bounds) /\ Len(held'[t]) = Len(held[t]) - 1
        /\ \A i \in 1..(Len(held[t]) - 1) : held'[t][i] = held[t][i]
    BY <1>1, <2>1, Shorter
  <2>3. \A i \in DOMAIN held'[t] : i \in DOMAIN held[t] /\ held'[t][i] = held[t][i]
    <3>1. /\ DOMAIN held[t] = 1..Len(held[t]) /\ DOMAIN held'[t] = 1..(Len(held[t]) - 1)
          /\ Len(held[t]) \in Nat
      BY <1>1, <2>2, LenProperties
    <3>2. \A i \in DOMAIN held'[t] : i \in DOMAIN held[t]
      BY <3>1
    <3>3. \A i \in DOMAIN held'[t] : held'[t][i] = held[t][i]
      BY <2>2, <3>1, Zenon
    <3> QED
      BY <3>2, <3>3
  <2> QED
    BY <2>1, <2>3 DEF Holds
<1>5. CASE CallKernel(t) \/ CallBound(t) \/ OnlyBind(t) \/ Reset(t)
  BY <1>2, <1>5 DEF CallKernel, CallBound, OnlyBind, Reset, Start
<1>6. CASE TryPrepared(t) \/ Dispatch(t) \/ Check(t) \/ BindSlow(t)
  BY <1>2, <1>6 DEF TryPrepared, Dispatch, Check, BindSlow, Over
<1>7. CASE TakeEntry(t) \/ Publish(t) \/ Rebind(t) \/ Relock(t)
  BY <1>2, <1>7 DEF TakeEntry, Publish, Over, Rebind, Relock, Rebound
<1>8. CASE CheckExtras(t) \/ Test(t) \/ PublishGuards(t) \/ Keys(t)
  BY <1>2, <1>8 DEF CheckExtras, Test, PublishGuards, Keys, KeyTail, KeyExtents, Extend, frame
<1>9. CASE Called(t) \/ Exec(t) \/ Offer(t)
  BY <1>2, <1>3, <1>9 DEF Called, Exec, Offer
<1>10. CASE Lock(t)
  <2>1. /\ \A u \in Threads \ {t} : ~Holds(u, bnd[t])
        /\ held'[t] = Append(held[t], bnd[t]) /\ bnd'[t] = bnd[t] /\ bnd[t] \in Bounds
    BY <1>10, HasBound DEF Lock, ThreadInv, WithBound
  <2>2. /\ Len(held'[t]) = Len(held[t]) + 1 /\ held'[t] \in Seq(Bounds)
        /\ held'[t][Len(held[t]) + 1] = bnd[t]
        /\ \A i \in 1..Len(held[t]) : held'[t][i] = held[t][i]
    BY <1>1, <2>1, AppendProperties
  <2>3. \A i \in DOMAIN held'[t] :
          (i \in DOMAIN held[t] /\ held'[t][i] = held[t][i]) \/ held'[t][i] = bnd[t]
    <3>1. /\ DOMAIN held[t] = 1..Len(held[t]) /\ DOMAIN held'[t] = 1..Len(held'[t])
          /\ Len(held[t]) \in Nat
      BY <1>1, <2>2, LenProperties
    <3> QED
      BY <2>2, <3>1
  <2> QED
    BY <1>1, <2>1, <2>2, <2>3 DEF Holds
<1>11. CASE Compile(t)
  BY <1>2, <1>4, <1>11 DEF Compile
<1>12. CASE SetRun(t)
  BY <1>4, <1>12 DEF SetRun
<1> QED
  BY <1>5, <1>6, <1>7, <1>8, <1>9, <1>10, <1>11, <1>12 DEF Step, Keys

\* A program is generated only for a BoundKernel that has none, and the same
\* whatever happens meanwhile.
LEMMA GeneratingStep ==
  ASSUME KernelInv, ThreadsOK, ThreadInv, LockInv, PlanInv, Grows, NEW t \in Threads,
         CallKernel(t) \/ CallBound(t) \/ OnlyBind(t) \/ Reset(t) \/ Step(t)
  PROVE  pc'[t] \in Generating =>
           /\ bnd'[t] = bnd[t] /\ arg'[t] = arg[t] /\ run' = run /\ bnd[t] \in 1..made
           /\ ~Compiled(bnd[t]) /\ plan'[t] = ProgramOf(bnd[t], arg[t])
<1> USE DEF ThreadsOK, FieldsOK, Goto, Generating
<1>1. Lockup(t) /\ Thread(t)
  BY DEF LockInv, ThreadInv
<1>2. CASE Compile(t)
  BY <1>1, <1>2 DEF Compile, Thread, WithBound, Locked, Compiling, ProgramOf
<1>3. CASE PublishGuards(t) \/ Keys(t)
  BY <1>1, <1>3 DEF PublishGuards, Keys, KeyTail, KeyExtents, Extend, frame, Lockup, PlanInv,
                    Thread, WithBound, Locked, Compiling
<1>4. CASE CallKernel(t) \/ CallBound(t) \/ TryPrepared(t) \/ Dispatch(t)
  BY <1>4 DEF CallKernel, CallBound, TryPrepared, Dispatch, Over
<1>5. CASE Check(t) \/ BindSlow(t) \/ TakeEntry(t) \/ Publish(t)
  BY <1>5 DEF Check, BindSlow, TakeEntry, Publish, Over
<1>6. CASE Called(t) \/ Exec(t) \/ Offer(t)
  BY <1>6 DEF Called, Exec, Offer, Returned, Over
<1>7. CASE CheckExtras(t) \/ Rebind(t) \/ Test(t) \/ Lock(t) \/ Relock(t) \/ SetRun(t)
  BY <1>7 DEF CheckExtras, Rebind, Test, Lock, Relock, Rebound, SetRun
<1>8. CASE OnlyBind(t) \/ Reset(t)
  BY <1>8 DEF OnlyBind, Reset, Start
<1> QED
  BY <1>2, <1>3, <1>4, <1>5, <1>6, <1>7, <1>8 DEF Step, Keys

\* Only the thread that generated it gives a BoundKernel its program.
LEMMA RunStep ==
  ASSUME KernelInv, NEW t \in Threads,
         CallKernel(t) \/ CallBound(t) \/ OnlyBind(t) \/ Reset(t) \/ Step(t)
  PROVE  \A b \in Bounds : run'[b] = run[b] \/ (pc[t] = "set" /\ b = bnd[t] /\ run'[b] = plan[t])
<1>1. CASE SetRun(t)
  BY <1>1 DEF SetRun, KernelInv, BoundsOK
<1>2. CASE Quiet(t) \/ Binds(t) \/ Keys(t)
  BY <1>2, QuietReads
     DEF Binds, OnlyBind, Start, BindSlow, Rebind, Relock, Rebound, Keys, KeyTail, KeyExtents, Extend
<1>3. CASE Reset(t) \/ Check(t) \/ Publish(t) \/ PublishGuards(t) \/ Offer(t)
  BY <1>3 DEF Reset, Check, Publish, PublishGuards, Offer
<1> QED
  BY <1>1, <1>2, <1>3, Kinds

-----------------------------------------------------------------------------
(* The invariant of the types, the locks and the generations.              *)

Base == KernelInv /\ ThreadsOK /\ ThreadInv /\ LockInv /\ PlanInv

\* It holds at the start.
LEMMA BaseInit == Init => Base
<1> SUFFICES ASSUME Init PROVE Base
  OBVIOUS
<1> USE DEF Init
<1>1. CacheOK /\ BoundsOK /\ CurrentInv /\ FreshInv
  BY DEF CacheOK, Keyed, BoundsOK, CurrentInv, FreshInv, Bounds
<1>2. pc \in [Threads -> PCs]
  BY DEF PCs
<1>3. FieldsOK
  BY DEF FieldsOK, NoEntry, Entries, None
<1>4. ThreadInv /\ LockInv /\ PlanInv
  BY DEF ThreadInv, Thread, LockInv, Lockup, Holds, PlanInv, WithBound, Locked, Compiling,
         Generating, None
<1> QED
  BY <1>1, <1>2, <1>3, <1>4 DEF Base, KernelInv, ThreadsOK

\* A thread holds the lock it compiles under.
LEMMA LocksAreHeld ==
  ASSUME Base, NEW u \in Threads, pc[u] \in Locked
  PROVE  Holds(u, bnd[u]) /\ bnd[u] \in Bounds
<1>1. held[u] \in Seq(Bounds) /\ held[u] # <<>> /\ held[u][Len(held[u])] = bnd[u]
  BY DEF Base, ThreadsOK, FieldsOK, LockInv, Lockup
<1>2. Len(held[u]) \in DOMAIN held[u]
  BY <1>1
<1>3. bnd[u] \in Bounds
  BY HasBound DEF Base, ThreadInv, WithBound
<1> QED
  BY <1>1, <1>2, <1>3 DEF Holds

\* Every step keeps it, and gives no program to a BoundKernel that has one.
LEMMA BaseStep ==
  ASSUME Base, NEW t \in Threads,
         CallKernel(t) \/ CallBound(t) \/ OnlyBind(t) \/ Reset(t) \/ Step(t)
  PROVE  Base' /\ Grows /\ Others(t) /\ \A b \in Bounds : Compiled(b) => run'[b] = run[b]
<1>1. KernelInv /\ ThreadsOK /\ ThreadInv /\ LockInv /\ PlanInv
  BY DEF Base
<1>2. KernelInv' /\ Grows
  BY <1>1, KernelStep
<1>3. ThreadsOK'
  BY <1>1, <1>2, PlaceStep, FieldsStep DEF ThreadsOK
<1>4. Others(t)
  BY <1>1, OthersStep
<1>5. \A u \in Threads : Thread(u) /\ Lockup(u)
  BY <1>1 DEF ThreadInv, LockInv
<1>6. /\ made \in 0..MaxBounds /\ made' \in 0..MaxBounds /\ made <= made'
      /\ \A u \in Threads : outer[u] \in Nat
  BY <1>1, <1>2 DEF KernelInv, BoundsOK, Grows, ThreadsOK, FieldsOK
<1>7. \A u \in Threads : pc[u] \in Locked => Holds(u, bnd[u]) /\ bnd[u] \in Bounds
  BY LocksAreHeld
<1>8. \A b \in Bounds : run'[b] = run[b] \/ (pc[t] = "set" /\ b = bnd[t] /\ run'[b] = plan[t])
  BY <1>1, RunStep
<1>9. ASSUME NEW b \in Bounds, Compiled(b) PROVE run'[b] = run[b]
  BY <1>5, <1>8, <1>9 DEF Lockup, Generating
<1>10. ThreadInv'
  <2> SUFFICES ASSUME NEW u \in Threads PROVE Thread(u)'
    BY DEF ThreadInv
  <2>1. CASE u = t
    BY <1>1, <1>2, <2>1, ThreadStep
  <2>2. CASE u # t
    <3>1. pc'[u] = pc[u] /\ bnd'[u] = bnd[u] /\ outer'[u] = outer[u]
      BY <1>4, <2>2 DEF Others
    <3>2. Thread(u) /\ pc[u] \in WithBound => bnd[u] \in Bounds
      BY <1>1, <1>5, HasBound
    <3>3. pc[u] \in {"exec", "offer"} => Compiled(bnd[u])'
      BY <1>5, <1>9, <3>1, <3>2 DEF Thread, Compiled, WithBound
    <3> QED
      BY <1>5, <1>6, <3>1, <3>3 DEF Thread
  <2> QED
    BY <2>1, <2>2
<1>11. ASSUME NEW u \in Threads PROVE Lockup(u)'
  <2>1. CASE u = t
    <3>1. (pc[t] \in Locked => held[t] # <<>> /\ held[t][Len(held[t])] = bnd[t])'
      BY <1>1, <1>2, LockStep
    <3>2. pc'[t] \in Generating => bnd'[t] = bnd[t] /\ run' = run /\ ~Compiled(bnd[t])
      BY <1>1, <1>2, GeneratingStep
    <3> QED
      BY <2>1, <3>1, <3>2 DEF Lockup, Compiled
  <2>2. CASE u # t
    <3>1. pc'[u] = pc[u] /\ bnd'[u] = bnd[u] /\ held'[u] = held[u]
      BY <1>4, <2>2 DEF Others
    <3>2. ASSUME pc[u] \in Generating PROVE run'[bnd[u]] = run[bnd[u]]
      <4>1. Holds(u, bnd[u]) /\ bnd[u] \in Bounds
        BY <1>7, <3>2 DEF Locked, Compiling
      <4>2. ~(pc[t] = "set" /\ bnd[u] = bnd[t])
        BY <1>1, <1>7, <2>2, <4>1 DEF LockInv, Locked, Compiling, Generating
      <4> QED
        BY <1>8, <4>1, <4>2
    <3> QED
      BY <1>5, <3>1, <3>2 DEF Lockup, Compiled
  <2> QED
    BY <2>1, <2>2
<1>12. ASSUME NEW u \in Threads, NEW v \in Threads, NEW b \in Bounds, Holds(u, b)', Holds(v, b)'
       PROVE  u = v
  <2>1. \A w \in Threads \ {t} : Holds(w, b)' <=> Holds(w, b)
    BY <1>4 DEF Others, Holds
  <2>2. Holds(t, b)' => Holds(t, b) \/ \A w \in Threads \ {t} : ~Holds(w, b)
    BY <1>1, <1>2, LockStep
  <2>3. \A x, y \in Threads : Holds(x, b) /\ Holds(y, b) => x = y
    BY <1>1 DEF LockInv
  <2> QED
    BY <1>12, <2>1, <2>2, <2>3
<1>13. PlanInv'
  <2> SUFFICES ASSUME NEW u \in Threads, pc'[u] \in Generating
               PROVE  plan'[u] = ProgramOf(bnd[u], arg[u])'
    BY DEF PlanInv
  <2>1. /\ bnd'[u] = bnd[u] /\ arg'[u] = arg[u] /\ bnd[u] \in 1..made
        /\ plan'[u] = ProgramOf(bnd[u], arg[u])
    <3>1. CASE u = t
      BY <1>1, <1>2, <3>1, GeneratingStep
    <3>2. CASE u # t
      BY <1>1, <1>4, <1>5, <3>2
         DEF Others, PlanInv, Thread, WithBound, Locked, Compiling, Generating
    <3> QED
      BY <3>1, <3>2
  <2> QED
    BY <1>2, <2>1 DEF Grows, ProgramOf
<1> QED
  BY <1>2, <1>3, <1>4, <1>9, <1>10, <1>11, <1>12, <1>13 DEF Base, LockInv

\* It is invariant.
LEMMA BaseInvariant == Spec => []Base
<1>1. Base /\ [Next]_vars => Base'
  <2>1. Base /\ UNCHANGED vars => Base'
    BY DEF Base, KernelInv, CacheOK, BoundsOK, CurrentInv, FreshInv, ThreadsOK, FieldsOK,
           ThreadInv, Thread, LockInv, Lockup, Holds, PlanInv, ProgramOf, Compiled,
           vars, cache, bounds, frame
  <2> QED
    BY <2>1, BaseStep DEF Next, Finished
<1> QED
  BY <1>1, BaseInit, PTL DEF Spec

\* TypeOK holds: also inside a call every BoundKernel, key, entry, program and
\* lock is one, and no two rows of the cache have the same key.
THEOREM Types == Spec => []TypeOK
<1>1. Base => TypeOK
  BY TypesTogether DEF Base, KernelInv
<1> QED
  BY <1>1, BaseInvariant, PTL

\* NothingSurvivesReset: a call under way when reset() runs, from wherever it
\* goes on, puts back no BoundKernel of an earlier generation.
THEOREM ResetIsFinal == Spec => []NothingSurvivesReset
<1>1. Base => NothingSurvivesReset
  BY DEF Base, KernelInv, CurrentInv, NothingSurvivesReset
<1> QED
  BY <1>1, BaseInvariant, PTL

\* CompiledOnce: whoever waited for _first_compile_lock finds the program of the
\* first thread in _run and does not replace it.
THEOREM FirstProgramStays == Spec => CompiledOnce
<1>1. Base /\ [Next]_vars => [\A b \in Bounds : Compiled(b) => run'[b] = run[b]]_vars
  <2>1. Finished => UNCHANGED vars
    BY DEF Finished
  <2> QED
    BY <2>1, BaseStep DEF Next
<1> QED
  BY <1>1, BaseInvariant, PTL DEF Spec, CompiledOnce

-----------------------------------------------------------------------------
(* What the caches answer.  Three kinds of facts are excluded, for which   *)
(* the code is known not to answer right: those that a program follows at  *)
(* the hint; guards that code generation records for the hint where it     *)
(* also keys a bound by its call; and early ones that no fast key has.     *)

Unhinted ==
  /\ LateHints = {}
  /\ CodeGuards = {} \/ LateValues = {}
  /\ Early \subseteq Metadata

\* The program of BoundKernel b is for arguments with these facts.
Suits(b, a) ==
  /\ a \cap (traced[b] \cup CodeGuards) = hint[b] \cap (traced[b] \cup CodeGuards)
  /\ a \cap LateValues = run[b].holds \cap LateValues

\* What a program needs is published, as far as its BoundKernel is current.
SchemaInv ==
  \A b \in 1..made :
    /\ traced[b] \subseteq Early \cup TraceGuards
    /\ bgen[b] = rgen => traced[b] \subseteq schema
    /\ Compiled(b) =>
         /\ run[b].needs = traced[b] \cup CodeGuards \cup LateValues
         /\ run[b].holds \cap (traced[b] \cup CodeGuards) = hint[b] \cap (traced[b] \cup CodeGuards)
    /\ bgen[b] = rgen /\ Compiled(b) => CodeGuards \cup LateValues \subseteq schema

\* A BoundKernel has one key: what its hint has of the facts it was traced and
\* guarded for, and what its program has of the late ones.
TableInv ==
  /\ \A e, f \in table : e.bound = f.bound => e = f
  /\ \A e \in table :
       /\ e.key \cap traced[e.bound] = hint[e.bound] \cap traced[e.bound]
       /\ LateValues = {} => e.key \cap Guards = hint[e.bound] \cap Guards \cap schema
       /\ Compiled(e.bound) => e.key \cap LateValues = run[e.bound].holds \cap LateValues

\* Fast key k, of the metadata and of guards, is one for which the program of b
\* is right.
Right(b, guards, k) ==
  /\ Compiled(b) /\ Suits(b, k)
  /\ schema \subseteq guards \cup Metadata

FastInv ==
  /\ \A d \in dispatch : Right(d.bound, d.guards, d.key)
  /\ prepared # NoPrepared => Right(prepared.bound, prepared.guards, prepared.key)
  /\ \A b \in Bounds : direct[b] # NoPrepared =>
       /\ direct[b].bound = b /\ direct[b].sgen <= sgen
       /\ direct[b].sgen = sgen => bgen[b] = rgen /\ Right(b, direct[b].guards, direct[b].key)

\* The entry a thread is about to use was computed for its arguments, with all
\* the facts published in the generation it carries.
EntryInv ==
  \A t \in Threads : pc[t] \in {"check", "publish", "offer"} =>
    /\ entry[t].sgen <= sgen
    /\ entry[t].sgen = sgen => schema \subseteq entry[t].guards \cup Metadata
    /\ entry[t].key = arg[t] \cap (entry[t].guards \cup Metadata)

\* A thread that compiles a BoundKernel calls it with arguments of its key.
CompileInv ==
  \A t \in Threads : pc[t] \in Compiling =>
    /\ \A e \in table :
         e.bound = bnd[t] => e.key \cap LateValues = arg[t] \cap schema \cap LateValues
    /\ bgen[bnd[t]] = rgen =>
         /\ arg[t] \cap traced[bnd[t]] = hint[bnd[t]] \cap traced[bnd[t]]
         /\ pc[t] \in {"tail", "extents", "set"} => CodeGuards \subseteq schema
         /\ pc[t] \in {"extents", "set"} => LateValues \subseteq schema

Answer == SchemaInv /\ TableInv /\ FastInv /\ EntryInv /\ CompileInv /\ FastPathIsRight

\* The kinds of facts that matter are disjoint.
LEMMA Disjoint ==
  ASSUME Unhinted
  PROVE  /\ LateValues \cap Guards = {} /\ LateValues \cap Early = {} /\ Early \cap Guards = {}
         /\ TraceGuards \subseteq Guards /\ CodeGuards \subseteq Guards
         /\ LateHints = {} /\ Early \subseteq Metadata /\ (CodeGuards = {} \/ LateValues = {})
BY DEF Unhinted, Guards, Late

\* The guards N are added to the schema and, as far as a bound's hint has them,
\* to its key; a new BoundKernel may join under the key of its arguments.
Widens(N) ==
  /\ N \in SUBSET Guards /\ N \cap schema = {} /\ rgen' = rgen
  /\ schema \cup N \subseteq schema' /\ schema' \subseteq schema \cup N \cup Early
  /\ \A e \in table' :
       \/ made' = made + 1 /\ e.bound = made' /\ e.key = hint'[made'] \cap schema'
       \/ \E f \in table : e.bound = f.bound /\ e.key = f.key \cup (hint[f.bound] \cap N)
  /\ made' # made =>
       /\ made' = made + 1 /\ made' \in Bounds
       /\ traced'[made'] \subseteq schema' /\ traced'[made'] \subseteq Early \cup TraceGuards
  /\ \/ sgen' = sgen /\ N = {}
     \/ sgen' = sgen + 1 /\ dispatch' = {} /\ prepared' = NoPrepared

\* The late values are published, with the BoundKernel that t compiles alone.
Rekeys(t) ==
  /\ pc[t] = "tail" /\ bgen[bnd[t]] = rgen /\ ~(LateValues \subseteq schema)
  /\ schema' = schema \cup LateValues /\ sgen' = sgen + 1
  /\ table' = {[key |-> arg[t] \cap schema', bound |-> bnd[t]]}
  /\ dispatch' = {} /\ prepared' = NoPrepared
  /\ UNCHANGED <<rgen, bounds, run, direct>>

\* A step that leaves the schema and the table widens them by nothing.
LEMMA SameWidens ==
  ASSUME KernelInv, UNCHANGED <<schema, sgen, rgen, table, bounds>>
  PROVE  Widens({})
<1>1. \A e \in table' : \E f \in table : e.bound = f.bound /\ e.key = f.key \cup (hint[f.bound] \cap {})
  <2>1. \A e \in table : e.key = e.key \cup (hint[e.bound] \cap {})
    BY DEF KernelInv, CacheOK, Keyed, Row
  <2> QED
    BY <2>1
<1> QED
  BY <1>1 DEF Widens, bounds

\* So does a bind, by what tracing recorded.
LEMMA BindWidens ==
  ASSUME KernelInv, Unhinted, NEW a \in SUBSET Facts, Bind(a)
  PROVE  \E N \in SUBSET Guards : Widens(N)
<1>1. CASE UNCHANGED <<cache, bounds>>
  BY <1>1, SameWidens DEF cache
<1>2. CASE \E recorded \in SUBSET TraceGuards : News(a, recorded)
  <2>1. PICK recorded \in SUBSET TraceGuards : News(a, recorded)
    BY <1>2
  <2> DEFINE N == recorded \ (schema \cup Early)
             b == made + 1
  <2>2. /\ N \in SUBSET Guards /\ N \cap schema = {} /\ Early \cap recorded = {}
    BY Disjoint
  <2>3. /\ b \in Bounds /\ made' = b /\ rgen' = rgen
        /\ hint' = [hint EXCEPT ![b] = a] /\ traced' = [traced EXCEPT ![b] = Early \cup recorded]
        /\ schema' = schema \cup Early \cup recorded
        /\ \A e \in table' :
             \/ e.bound = b /\ e.key = a \cap schema'
             \/ \E f \in table : e.bound = f.bound /\ e.key = f.key \cup (hint'[f.bound] \cap N)
        /\ \/ sgen' = sgen /\ recorded \subseteq schema \cup Early
           \/ sgen' = sgen + 1 /\ dispatch' = {} /\ prepared' = NoPrepared
    BY <2>1 DEF News
  <2>4. hint'[b] = a /\ traced'[b] = Early \cup recorded
    BY <2>3 DEF KernelInv, BoundsOK
  <2>5. \A f \in table : hint'[f.bound] = hint[f.bound]
    <3>1. \A f \in table : f.bound \in Bounds /\ f.bound # b
      BY DEF KernelInv, CacheOK, Keyed, Row, CurrentInv, BoundsOK, Bounds
    <3> QED
      BY <2>3, <3>1 DEF KernelInv, BoundsOK
  <2>6. schema \cup N \subseteq schema' /\ schema' \subseteq schema \cup N \cup Early
    BY <2>3
  <2>7. sgen' = sgen /\ recorded \subseteq schema \cup Early => N = {}
    OBVIOUS
  <2>8. \A e \in table' :
          \/ made' = made + 1 /\ e.bound = made' /\ e.key = hint'[made'] \cap schema'
          \/ \E f \in table : e.bound = f.bound /\ e.key = f.key \cup (hint[f.bound] \cap N)
    BY <2>3, <2>4, <2>5
  <2>9. traced'[made'] \subseteq schema' /\ traced'[made'] \subseteq Early \cup TraceGuards
    BY <2>3, <2>4
  <2> HIDE DEF N
  <2>10. Widens(N)
    BY <2>2, <2>3, <2>6, <2>7, <2>8, <2>9 DEF Widens
  <2> QED
    BY <2>2, <2>10
<1> QED
  BY <1>1, <1>2, BindCases DEF KernelInv

\* A step widens the table, drops all keys but one, or is a reset.
LEMMA TableKinds ==
  ASSUME Base, Unhinted, NEW t \in Threads,
         CallKernel(t) \/ CallBound(t) \/ OnlyBind(t) \/ Reset(t) \/ Step(t)
  PROVE  (\E N \in SUBSET Guards : Widens(N)) \/ Rekeys(t) \/ Reset(t)
<1>1. KernelInv /\ ThreadsOK /\ ThreadInv /\ PlanInv /\ arg[t] \in SUBSET Facts
  BY DEF Base, ThreadsOK, FieldsOK
<1>2. ASSUME UNCHANGED <<schema, sgen, rgen, table, bounds>>
      PROVE  \E N \in SUBSET Guards : Widens(N)
  BY <1>1, <1>2, SameWidens
<1>3. CASE Quiet(t)
  BY <1>2, <1>3, QuietReads DEF cache
<1>4. CASE Binds(t)
  <2>1. PICK a \in SUBSET Facts : Bind(a)
    BY <1>1, <1>4, BindsBind
  <2> QED
    BY <1>1, <2>1, BindWidens
<1>5. CASE KeyTail(t)
  <2>1. /\ pc[t] = "tail" /\ plan[t].needs \cap LateValues = LateValues
        /\ Extend(t, plan[t].needs \cap LateValues)
    <3>1. plan[t] = ProgramOf(bnd[t], arg[t])
      BY <1>1, <1>5 DEF KeyTail, PlanInv, Generating
    <3>2. LateValues \subseteq ProgramOf(bnd[t], arg[t]).needs
      BY DEF ProgramOf
    <3> QED
      BY <1>5, <3>1, <3>2 DEF KeyTail
  <2>2. Extend(t, LateValues)
    BY <2>1
  <2> QED
    BY <1>2, <2>1, <2>2 DEF Extend, Rekeys
<1>6. CASE KeyExtents(t)
  <2>1. plan[t].needs \cap LateHints \subseteq schema /\ Extend(t, plan[t].needs \cap LateHints)
    BY <1>6 DEF KeyExtents, Unhinted
  <2> QED
    BY <1>2, <2>1 DEF Extend
<1>7. CASE Check(t) \/ SetRun(t)
  BY <1>2, <1>7 DEF Check, SetRun, cache
<1>8. CASE Publish(t)
  <2>1. CASE Bind(arg[t])
    BY <1>1, <2>1, BindWidens
  <2>2. CASE UNCHANGED <<schema, sgen, rgen, table, bounds>>
    BY <1>2, <2>2
  <2> QED
    BY <1>8, <2>1, <2>2 DEF Publish
<1>9. CASE Offer(t)
  <2>1. CASE Bind(arg[t])
    BY <1>1, <2>1, BindWidens
  <2>2. CASE UNCHANGED <<cache, bounds>>
    BY <1>2, <2>2 DEF cache
  <2> QED
    BY <1>9, <2>1, <2>2 DEF Offer
<1>10. CASE PublishGuards(t)
  <2>1. UNCHANGED <<rgen, bounds>>
    BY <1>10 DEF PublishGuards
  <2>2. CASE UNCHANGED <<schema, sgen, table>>
    BY <1>2, <2>1, <2>2
  <2>3. CASE PublishGuardFacts(plan[t].needs \cap Guards, schema, table, hint)
    <3> DEFINE new == (plan[t].needs \cap Guards) \ schema
    <3>1. /\ new \in SUBSET Guards /\ new \in SUBSET Facts /\ new \cap schema = {}
          /\ schema' = schema \cup new
          /\ table' = Rekeyed(table, hint, new) /\ schema \in SUBSET Facts
          /\ hint \in [Bounds -> SUBSET Facts] /\ Keyed(table, schema)
          /\ \/ sgen' = sgen /\ new = {}
             \/ sgen' = sgen + 1 /\ dispatch' = {} /\ prepared' = NoPrepared
      BY <1>1, <2>3, FactSets DEF PublishGuardFacts, Rekeyed, KernelInv, CacheOK, BoundsOK
    <3> HIDE DEF new
    <3>2. Widened(table', table, hint, new)
      BY <3>1, RekeyedRows
    <3>3. Widens(new)
      BY <2>1, <3>1, <3>2 DEF Widens, Widened, bounds
    <3> QED
      BY <3>1, <3>3
  <2> QED
    BY <1>10, <2>2, <2>3 DEF PublishGuards
<1> QED
  BY <1>3, <1>4, <1>5, <1>6, <1>7, <1>8, <1>9, <1>10, Kinds DEF Keys

\* The invariant of the schema is kept.
LEMMA SchemaStep ==
  ASSUME Base, Unhinted, Answer, NEW t \in Threads, Base', Grows,
         \A b \in Bounds : Compiled(b) => run'[b] = run[b],
         CallKernel(t) \/ CallBound(t) \/ OnlyBind(t) \/ Reset(t) \/ Step(t)
  PROVE  SchemaInv'
<1>1. /\ made \in 0..MaxBounds /\ made' \in 0..MaxBounds /\ made <= made'
      /\ rgen \in Nat /\ rgen' \in Nat /\ rgen <= rgen'
      /\ \A b \in Bounds : bgen[b] \in Nat /\ bgen[b] <= rgen
      /\ \A b \in Bounds : b > made => run[b] = NoProgram
  BY DEF Base, KernelInv, CacheOK, BoundsOK, FreshInv, Grows
<1>2. /\ rgen' = rgen => schema \subseteq schema'
      /\ made' # made =>
           /\ rgen' = rgen /\ made' = made + 1
           /\ traced'[made'] \subseteq schema' /\ traced'[made'] \subseteq Early \cup TraceGuards
  <2>1. CASE \E N \in SUBSET Guards : Widens(N)
    BY <2>1 DEF Widens
  <2>2. CASE Rekeys(t) \/ Reset(t)
    BY <1>1, <2>2 DEF Rekeys, Reset, bounds
  <2> QED
    BY <2>1, <2>2, TableKinds
<1> SUFFICES ASSUME NEW b \in 1..made'
             PROVE  /\ traced'[b] \subseteq Early \cup TraceGuards
                    /\ bgen'[b] = rgen' => traced'[b] \subseteq schema'
                    /\ Compiled(b)' =>
                         /\ run'[b].needs = traced'[b] \cup CodeGuards \cup LateValues
                         /\ run'[b].holds \cap (traced'[b] \cup CodeGuards)
                              = hint'[b] \cap (traced'[b] \cup CodeGuards)
                    /\ bgen'[b] = rgen' /\ Compiled(b)' => CodeGuards \cup LateValues \subseteq schema'
  BY DEF SchemaInv
<1>3. CASE b \in 1..made
  <2>1. /\ b \in Bounds /\ bgen'[b] = bgen[b] /\ hint'[b] = hint[b] /\ traced'[b] = traced[b]
    BY <1>1, <1>3 DEF Grows, Bounds
  <2>2. bgen[b] = rgen' => rgen' = rgen
    BY <1>1, <2>1
  <2>3. /\ traced[b] \subseteq Early \cup TraceGuards
        /\ bgen[b] = rgen => traced[b] \subseteq schema
    BY <1>3 DEF Answer, SchemaInv
  <2>4. CASE Compiled(b) \/ run'[b] = run[b]
    <3>1. Compiled(b)' => Compiled(b) /\ run'[b] = run[b]
      BY <2>1, <2>4 DEF Compiled
    <3> QED
      BY <1>2, <1>3, <2>1, <2>2, <2>3, <3>1 DEF Answer, SchemaInv
  <2>5. CASE ~Compiled(b) /\ run'[b] # run[b]
    <3>1. pc[t] = "set" /\ b = bnd[t] /\ run'[b] = plan[t]
      BY <2>1, <2>5, RunStep DEF Base
    <3>2. run'[b] = ProgramOf(b, arg[t])
      BY <3>1 DEF Base, PlanInv, Generating
    <3>3. bgen[b] = rgen => CodeGuards \subseteq schema /\ LateValues \subseteq schema
      BY <3>1 DEF Answer, CompileInv, Compiling, Generating
    <3>4. /\ run'[b].needs = traced[b] \cup CodeGuards \cup LateValues
          /\ run'[b].holds = (hint[b] \cap (traced[b] \cup CodeGuards)) \cup (arg[t] \cap LateValues)
      BY <3>2 DEF ProgramOf, Unhinted
    <3>5. LateValues \cap (traced[b] \cup CodeGuards) = {}
      BY <2>3, Disjoint
    <3> QED
      BY <1>2, <2>1, <2>2, <2>3, <3>3, <3>4, <3>5
  <2> QED
    BY <2>4, <2>5
<1>4. CASE b \notin 1..made
  <2>1. b = made' /\ made' # made /\ b \in Bounds /\ b > made
    BY <1>1, <1>2, <1>4 DEF Bounds
  <2>2. run'[b] = run[b] /\ run[b] = NoProgram
    <3>1. ~(pc[t] = "set" /\ b = bnd[t])
      BY <1>4 DEF Base, ThreadInv, Thread, WithBound, Locked, Compiling, Generating
    <3> QED
      BY <1>1, <2>1, <3>1, RunStep DEF Base
  <2> QED
    BY <1>2, <2>1, <2>2 DEF Compiled
<1> QED
  BY <1>3, <1>4

\* A row of the table names a BoundKernel that is current.
LEMMA RowIsCurrent ==
  ASSUME KernelInv, NEW e \in table
  PROVE  /\ e.bound \in Bounds /\ e.bound \in 1..made /\ bgen[e.bound] = rgen
         /\ e.key \subseteq schema
BY DEF KernelInv, CacheOK, Keyed, Row, CurrentInv, BoundsOK, Bounds

\* The late facts of the program that a step gives to a BoundKernel are those of
\* its rows.
LEMMA LateFacts ==
  ASSUME Base, Unhinted, Answer, NEW t \in Threads, NEW e \in table,
         run'[e.bound] = run[e.bound] \/ (pc[t] = "set" /\ e.bound = bnd[t] /\ run'[e.bound] = plan[t])
  PROVE  Compiled(e.bound)' => e.key \cap LateValues = run'[e.bound].holds \cap LateValues
<1>1. CASE run'[e.bound] = run[e.bound]
  BY <1>1 DEF Answer, TableInv, Compiled
<1>2. CASE pc[t] = "set" /\ e.bound = bnd[t] /\ run'[e.bound] = plan[t]
  <2>1. /\ bnd[t] \in 1..made /\ bgen[bnd[t]] = rgen
    BY <1>2, RowIsCurrent DEF Base
  <2>2. e.key \cap LateValues = arg[t] \cap schema \cap LateValues /\ LateValues \subseteq schema
    BY <1>2, <2>1 DEF Answer, CompileInv, Compiling, Generating
  <2>3. /\ traced[bnd[t]] \subseteq Early \cup TraceGuards
        /\ LateValues \cap (traced[bnd[t]] \cup CodeGuards) = {}
    BY <2>1, Disjoint DEF Answer, SchemaInv
  <2>4. plan[t] = ProgramOf(bnd[t], arg[t])
    BY <1>2 DEF Base, PlanInv, Generating
  <2>5. ProgramOf(bnd[t], arg[t]).holds
          = (hint[bnd[t]] \cap (traced[bnd[t]] \cup CodeGuards)) \cup (arg[t] \cap LateValues)
    BY DEF ProgramOf, Unhinted
  <2> QED
    BY <1>2, <2>2, <2>3, <2>4, <2>5
<1> QED
  BY <1>1, <1>2

\* The invariant of the table is kept.
LEMMA TableStep ==
  ASSUME Base, Unhinted, Answer, NEW t \in Threads, Base', Grows,
         CallKernel(t) \/ CallBound(t) \/ OnlyBind(t) \/ Reset(t) \/ Step(t)
  PROVE  TableInv'
<1>1. KernelInv /\ KernelInv' /\ ThreadsOK /\ ThreadInv /\ LockInv
  BY DEF Base
<1>2. /\ made \in 0..MaxBounds /\ made' \in 0..MaxBounds
      /\ \A b \in Bounds : b > made => run[b] = NoProgram
  BY <1>1 DEF KernelInv, BoundsOK, FreshInv
<1>3. ASSUME NEW e \in table
      PROVE  /\ e.bound \in Bounds /\ e.bound \in 1..made /\ bgen[e.bound] = rgen
             /\ e.key \subseteq schema
             /\ hint'[e.bound] = hint[e.bound] /\ traced'[e.bound] = traced[e.bound]
             /\ traced[e.bound] \subseteq schema /\ traced[e.bound] \subseteq Early \cup TraceGuards
             /\ e.key \cap traced[e.bound] = hint[e.bound] \cap traced[e.bound]
             /\ LateValues = {} => e.key \cap Guards = hint[e.bound] \cap Guards \cap schema
             /\ Compiled(e.bound)' => e.key \cap LateValues = run'[e.bound].holds \cap LateValues
  <2>1. /\ e.bound \in Bounds /\ e.bound \in 1..made /\ bgen[e.bound] = rgen
        /\ e.key \subseteq schema
    BY <1>1, RowIsCurrent
  <2>2. hint'[e.bound] = hint[e.bound] /\ traced'[e.bound] = traced[e.bound]
    BY <2>1 DEF Grows
  <2>3. traced[e.bound] \subseteq schema /\ traced[e.bound] \subseteq Early \cup TraceGuards
    BY <2>1 DEF Answer, SchemaInv
  <2>4. /\ e.key \cap traced[e.bound] = hint[e.bound] \cap traced[e.bound]
        /\ LateValues = {} => e.key \cap Guards = hint[e.bound] \cap Guards \cap schema
    BY DEF Answer, TableInv
  <2>5. Compiled(e.bound)' => e.key \cap LateValues = run'[e.bound].holds \cap LateValues
    BY <1>1, <2>1, RunStep, LateFacts
  <2> QED
    BY <2>1, <2>2, <2>3, <2>4, <2>5
<1>4. ASSUME NEW N \in SUBSET Guards, Widens(N) PROVE TableInv'
  <2>1. /\ schema \cup N \subseteq schema' /\ schema' \subseteq schema \cup N \cup Early
        /\ N \cap schema = {}
    BY <1>4 DEF Widens
  <2>2. ASSUME NEW e \in table' PROVE
          \/ /\ made' = made + 1 /\ made' \in Bounds /\ e.bound = made'
             /\ e.key = hint'[made'] \cap schema' /\ traced'[made'] \subseteq schema'
             /\ ~Compiled(e.bound)'
          \/ \E f \in table : e.bound = f.bound /\ e.key = f.key \cup (hint[f.bound] \cap N)
    <3>1. CASE \E f \in table : e.bound = f.bound /\ e.key = f.key \cup (hint[f.bound] \cap N)
      BY <3>1
    <3>2. CASE made' = made + 1 /\ e.bound = made' /\ e.key = hint'[made'] \cap schema'
      <4>1. made' \in Bounds /\ traced'[made'] \subseteq schema' /\ made' \notin 1..made
        BY <1>2, <1>4, <3>2 DEF Widens
      <4>2. run'[made'] = run[made']
        BY <1>1, <4>1, RunStep DEF ThreadInv, Thread, WithBound, Locked, Compiling, Generating
      <4> QED
        BY <1>2, <3>2, <4>1, <4>2 DEF Compiled
    <3> QED
      BY <1>4, <3>1, <3>2 DEF Widens
  <2>3. ASSUME NEW e \in table', NEW f \in table', e.bound = f.bound PROVE e = f
    <3>1. e.key = f.key
      <4>1. CASE e.bound = made' /\ made' = made + 1
        <5>1. \A g \in table : g.bound # made'
          BY <1>2, <1>3, <4>1
        <5>2. e.key = hint'[made'] \cap schema'
          BY <2>2, <4>1, <5>1
        <5>3. f.key = hint'[made'] \cap schema'
          BY <2>2, <2>3, <4>1, <5>1
        <5> QED
          BY <5>2, <5>3
      <4>2. CASE ~(e.bound = made' /\ made' = made + 1)
        <5>1. PICK g \in table : e.bound = g.bound /\ e.key = g.key \cup (hint[g.bound] \cap N)
          BY <2>2, <4>2
        <5>2. PICK h \in table : f.bound = h.bound /\ f.key = h.key \cup (hint[h.bound] \cap N)
          BY <2>2, <2>3, <4>2
        <5>3. g = h
          BY <2>3, <5>1, <5>2 DEF Answer, TableInv
        <5> QED
          BY <5>1, <5>2, <5>3
      <4> QED
        BY <4>1, <4>2
    <3> QED
      BY <1>1, <3>1 DEF KernelInv, CacheOK, Keyed
  <2>4. ASSUME NEW e \in table'
        PROVE  /\ e.key \cap traced'[e.bound] = hint'[e.bound] \cap traced'[e.bound]
               /\ LateValues = {} => e.key \cap Guards = hint'[e.bound] \cap Guards \cap schema'
               /\ Compiled(e.bound)' => e.key \cap LateValues = run'[e.bound].holds \cap LateValues
    <3>1. CASE /\ made' = made + 1 /\ e.bound = made'
               /\ e.key = hint'[made'] \cap schema' /\ traced'[made'] \subseteq schema'
               /\ ~Compiled(e.bound)'
      BY <3>1
    <3>2. CASE \E f \in table : e.bound = f.bound /\ e.key = f.key \cup (hint[f.bound] \cap N)
      <4>1. PICK f \in table : e.bound = f.bound /\ e.key = f.key \cup (hint[f.bound] \cap N)
        BY <3>2
      <4>2. e.key \cap traced'[e.bound] = hint'[e.bound] \cap traced'[e.bound]
        BY <1>3, <4>1
      <4>3. LateValues = {} => e.key \cap Guards = hint'[e.bound] \cap Guards \cap schema'
        BY <1>3, <2>1, <4>1, Disjoint
      <4>4. e.key \cap LateValues = f.key \cap LateValues
        BY <4>1, Disjoint
      <4> QED
        BY <1>3, <4>1, <4>2, <4>3, <4>4
    <3> QED
      BY <2>2, <3>1, <3>2
  <2> QED
    BY <2>3, <2>4 DEF TableInv
<1>5. CASE Rekeys(t)
  <2>1. /\ bnd[t] \in Bounds /\ bnd[t] \in 1..made /\ bgen[bnd[t]] = rgen
        /\ ~Compiled(bnd[t]) /\ ~(LateValues \subseteq schema)
    BY <1>1, <1>5, HasBound
       DEF Rekeys, ThreadInv, LockInv, Lockup, WithBound, Locked, Compiling, Generating
  <2>2. /\ arg[t] \cap traced[bnd[t]] = hint[bnd[t]] \cap traced[bnd[t]]
        /\ traced[bnd[t]] \subseteq schema
    BY <1>5, <2>1 DEF Rekeys, Answer, SchemaInv, CompileInv, Compiling, Generating
  <2>3. UNCHANGED <<hint, traced, run>> /\ schema \subseteq schema'
    BY <1>5 DEF Rekeys, bounds
  <2>4. \A e \in table' : e = [key |-> arg[t] \cap schema', bound |-> bnd[t]]
    BY <1>5 DEF Rekeys
  <2>5. ASSUME NEW e \in table'
        PROVE  e.bound = bnd[t] /\ e.key = arg[t] \cap schema'
    BY <2>4
  <2>6. ASSUME NEW e \in table'
        PROVE  e.key \cap traced'[e.bound] = hint'[e.bound] \cap traced'[e.bound]
    BY <2>2, <2>3, <2>5
  <2>7. ASSUME NEW e \in table' PROVE ~Compiled(e.bound)'
    BY <2>1, <2>3, <2>5 DEF Compiled
  <2>8. LateValues # {}
    BY <2>1
  <2> QED
    BY <2>4, <2>6, <2>7, <2>8 DEF TableInv
<1>6. CASE Reset(t)
  BY <1>6 DEF Reset, TableInv
<1> QED
  BY <1>4, <1>5, <1>6, TableKinds

\* Arguments that have the key of a row suit its program.
LEMMA RowSuits ==
  ASSUME KernelInv, Unhinted, SchemaInv, TableInv, NEW e \in table, NEW a, e.key = a \cap schema,
         Compiled(e.bound)
  PROVE  Suits(e.bound, a)
<1> DEFINE b == e.bound
<1>1. b \in 1..made /\ bgen[b] = rgen
  BY RowIsCurrent
<1>2. /\ traced[b] \subseteq schema /\ CodeGuards \subseteq schema /\ LateValues \subseteq schema
  BY <1>1 DEF SchemaInv
<1>3. /\ e.key \cap traced[b] = hint[b] \cap traced[b]
      /\ LateValues = {} => e.key \cap Guards = hint[b] \cap Guards \cap schema
      /\ e.key \cap LateValues = run[b].holds \cap LateValues
  BY DEF TableInv
<1>4. a \cap CodeGuards = hint[b] \cap CodeGuards
  <2>1. CASE CodeGuards = {}
    BY <2>1
  <2>2. CASE LateValues = {}
    <3>1. a \cap schema \cap Guards = hint[b] \cap Guards \cap schema
      BY <1>3, <2>2
    <3> QED
      BY <1>2, <3>1, Disjoint
  <2> QED
    BY <2>1, <2>2, Disjoint
<1>5. a \cap traced[b] = hint[b] \cap traced[b] /\ a \cap LateValues = run[b].holds \cap LateValues
  BY <1>2, <1>3
<1> QED
  BY <1>4, <1>5 DEF Suits

\* A key that has the published facts tells whether they do.
LEMMA SuitsByKey ==
  ASSUME SchemaInv, NEW b \in 1..made, bgen[b] = rgen, Compiled(b), NEW S, schema \subseteq S, NEW a
  PROVE  Suits(b, a) <=> Suits(b, a \cap S)
<1>1. traced[b] \subseteq S /\ CodeGuards \subseteq S /\ LateValues \subseteq S
  BY DEF SchemaInv
<1>2. /\ a \cap (traced[b] \cup CodeGuards) = (a \cap S) \cap (traced[b] \cup CodeGuards)
      /\ a \cap LateValues = (a \cap S) \cap LateValues
  BY <1>1
<1> QED
  BY <1>2 DEF Suits

\* The program fits arguments that suit it.
LEMMA SuitsFits ==
  ASSUME SchemaInv, Unhinted, NEW b \in 1..made, Compiled(b), NEW a, Suits(b, a)
  PROVE  Fits(run[b], a)
<1>1. /\ run[b].needs = traced[b] \cup CodeGuards \cup LateValues
      /\ run[b].holds \cap (traced[b] \cup CodeGuards) = hint[b] \cap (traced[b] \cup CodeGuards)
  BY DEF SchemaInv
<1>2. /\ a \cap (traced[b] \cup CodeGuards) = hint[b] \cap (traced[b] \cup CodeGuards)
      /\ a \cap LateValues = run[b].holds \cap LateValues
  BY DEF Suits
<1>3. a \cap run[b].needs = run[b].holds \cap run[b].needs
  BY <1>1, <1>2
<1> QED
  BY <1>3 DEF Fits, Unhinted

\* So does the program of a right entry that matches them.
LEMMA RightFits ==
  ASSUME SchemaInv, Unhinted, NEW b \in 1..made, bgen[b] = rgen, NEW guards, NEW k, NEW a,
         Right(b, guards, k), k = a \cap (guards \cup Metadata)
  PROVE  Fits(run[b], a)
<1>1. Compiled(b) /\ Suits(b, k) /\ schema \subseteq guards \cup Metadata
  BY DEF Right
<1>2. Suits(b, a)
  BY <1>1, SuitsByKey
<1> QED
  BY <1>1, <1>2, SuitsFits

\* The entry a thread publishes for the BoundKernel that binding its arguments
\* again returns, or without extras the one it called, is right.
LEMMA EntryIsRight ==
  ASSUME Base, Unhinted, Answer, NEW t \in Threads, pc[t] \in {"publish", "offer"},
         NEW b \in 1..made, Compiled(b), Publishable(b, entry[t]),
         b \in Hits(arg[t]) \/ ~Extras
  PROVE  Right(b, entry[t].guards, entry[t].key)
<1>1. /\ schema \subseteq entry[t].guards \cup Metadata /\ bgen[b] = rgen
      /\ entry[t].key = arg[t] \cap (entry[t].guards \cup Metadata)
  BY DEF Answer, EntryInv, Publishable
<1>2. SchemaInv /\ TableInv /\ KernelInv
  BY DEF Answer, Base
<1>3. Suits(b, arg[t])
  <2>1. CASE b \in Hits(arg[t])
    <3>1. PICK e \in table : e.bound = b /\ e.key = arg[t] \cap schema
      BY <2>1 DEF Hits, KeyOf
    <3> QED
      BY <1>2, <3>1, RowSuits
  <2>2. CASE ~Extras
    <3>1. traced[b] = {} /\ CodeGuards = {} /\ LateValues = {}
      BY <1>1, <1>2, <2>2 DEF SchemaInv, Extras
    <3> QED
      BY <3>1 DEF Suits
  <2> QED
    BY <2>1, <2>2
<1>4. Suits(b, entry[t].key)
  BY <1>1, <1>2, <1>3, SuitsByKey
<1> QED
  BY <1>1, <1>4 DEF Right

\* The fast keys live in one generation, in which only what all of them have is
\* published.
LEMMA Generations ==
  ASSUME Base, Unhinted, NEW t \in Threads,
         CallKernel(t) \/ CallBound(t) \/ OnlyBind(t) \/ Reset(t) \/ Step(t)
  PROVE  \/ sgen' = sgen /\ rgen' = rgen /\ schema' \subseteq schema \cup Metadata
         \/ sgen' = sgen + 1 /\ dispatch' = {} /\ prepared' = NoPrepared
<1>1. CASE \E N \in SUBSET Guards : Widens(N)
  BY <1>1, Disjoint DEF Widens
<1>2. CASE Rekeys(t) \/ Reset(t)
  BY <1>2 DEF Rekeys, Reset
<1> QED
  BY <1>1, <1>2, TableKinds

\* bind drops what the fast paths have, or leaves it.
LEMMA BindFast ==
  ASSUME KernelInv, NEW a \in SUBSET Facts, Bind(a)
  PROVE  dispatch' \subseteq dispatch /\ (prepared' = prepared \/ prepared' = NoPrepared)
<1>1. CASE UNCHANGED <<cache, bounds>>
  BY <1>1 DEF cache
<1>2. CASE \E recorded \in SUBSET TraceGuards : News(a, recorded)
  <2>1. PICK recorded \in SUBSET TraceGuards : News(a, recorded)
    BY <1>2
  <2> QED
    BY <2>1 DEF News
<1> QED
  BY <1>1, <1>2, BindCases DEF KernelInv

\* An entry that may be used was put in right.
RightEntry(e) == e.bound \in 1..made /\ bgen[e.bound] = rgen /\ Right(e.bound, e.guards, e.key)

\* What the fast paths have is right.
LEMMA FastIsRight ==
  ASSUME Base, Answer
  PROVE  /\ \A d \in dispatch : RightEntry(d)
         /\ prepared # NoPrepared => RightEntry(prepared)
         /\ \A b \in Bounds : direct[b] # NoPrepared /\ direct[b].sgen = sgen => RightEntry(direct[b])
<1>1. \A d \in dispatch : d.bound \in 1..made /\ bgen[d.bound] = rgen
  BY DEF Base, KernelInv, CacheOK, CurrentInv, BoundsOK, Bounds
<1>2. prepared # NoPrepared => prepared.bound \in 1..made /\ bgen[prepared.bound] = rgen
  BY DEF Base, KernelInv, CacheOK, CurrentInv, BoundsOK, Bounds, Prepareds
<1>3. \A b \in Bounds : direct[b] # NoPrepared => direct[b].bound = b /\ b \in 1..made
  BY DEF Base, KernelInv, BoundsOK, FreshInv, Bounds, Answer, FastInv
<1> QED
  BY <1>1, <1>2, <1>3 DEF RightEntry, Answer, FastInv

\* A step adds to the fast paths only what is right when it is added.
LEMMA FastNews ==
  ASSUME Base, Unhinted, Answer, NEW t \in Threads,
         CallKernel(t) \/ CallBound(t) \/ OnlyBind(t) \/ Reset(t) \/ Step(t)
  PROVE  /\ \A d \in dispatch' : RightEntry(d)
         /\ \A p : p = prepared' /\ p # NoPrepared => RightEntry(p)
         /\ \A b \in Bounds : direct'[b] = direct[b] \/
              \A p : p = direct'[b] => p.bound = b /\ p.sgen = sgen /\ RightEntry(p)
<1>1. KernelInv /\ ThreadsOK /\ ThreadInv /\ arg[t] \in SUBSET Facts
  BY DEF Base, ThreadsOK, FieldsOK
<1>2. /\ \A d \in dispatch : RightEntry(d)
      /\ prepared # NoPrepared => RightEntry(prepared)
  BY FastIsRight
<1>3. ASSUME dispatch' \subseteq dispatch, prepared' = prepared \/ prepared' = NoPrepared
      PROVE  /\ \A d \in dispatch' : RightEntry(d)
             /\ \A p : p = prepared' /\ p # NoPrepared => RightEntry(p)
  BY <1>2, <1>3
<1>4. ASSUME NEW b \in 1..made, Publishable(b, entry[t]), Right(b, entry[t].guards, entry[t].key)
      PROVE  /\ RightEntry(PreparedFor(b, entry[t])) /\ RightEntry(Mapping(entry[t], b))
             /\ PreparedFor(b, entry[t]).bound = b /\ PreparedFor(b, entry[t]).sgen = sgen
  BY <1>4 DEF RightEntry, PreparedFor, Mapping, Publishable
<1>5. CASE Quiet(t)
  BY <1>3, <1>5, QuietReads DEF cache
<1>6. CASE Binds(t)
  BY <1>1, <1>3, <1>6, BindsBind, BindFast
<1>7. CASE Keys(t) \/ Reset(t) \/ PublishGuards(t) \/ SetRun(t)
  <2>1. direct' = direct /\ dispatch' \subseteq dispatch /\ (prepared' = prepared \/ prepared' = NoPrepared)
    BY <1>7 DEF Keys, KeyTail, KeyExtents, Extend, Reset, PublishGuards, PublishGuardFacts, SetRun, cache
  <2> QED
    BY <1>3, <2>1
<1>8. CASE Check(t)
  <2>1. direct' = direct /\ dispatch' = dispatch /\ bnd[t] \in 1..made
    BY <1>1, <1>8, HasBound DEF Check, ThreadInv, WithBound
  <2>2. CASE prepared' = prepared
    BY <1>3, <2>1, <2>2
  <2>3. CASE /\ Mapping(entry[t], bnd[t]) \in dispatch /\ Publishable(bnd[t], entry[t])
             /\ prepared' = PreparedFor(bnd[t], entry[t])
    <3>1. Right(bnd[t], entry[t].guards, entry[t].key)
      BY <1>2, <2>3 DEF RightEntry, Mapping
    <3> QED
      BY <1>2, <1>4, <2>1, <2>3, <3>1
  <2> QED
    BY <1>8, <2>2, <2>3 DEF Check
<1>9. CASE Publish(t)
  <2>1. direct' = direct
    BY <1>9 DEF Publish
  <2>2. CASE Bind(arg[t])
    BY <1>1, <1>3, <2>1, <2>2, BindFast
  <2>3. CASE dispatch' = dispatch /\ prepared' = prepared
    BY <1>3, <2>1, <2>3
  <2>4. CASE /\ ~(Extras /\ Hits(arg[t]) = {}) /\ ~Bind(arg[t])
             /\ ~(dispatch' = dispatch /\ prepared' = prepared)
    <3> DEFINE b == IF Extras THEN BoundFor(arg[t]) ELSE outer[t]
               e == entry[t]
    <3>1. /\ Compiled(b) /\ Publishable(b, e)
          /\ dispatch' = {d \in dispatch : d.guards # e.guards \/ d.key # e.key} \cup {Mapping(e, b)}
          /\ prepared' = PreparedFor(b, e)
      BY <1>9, <2>4 DEF Publish
    <3>2. b \in 1..made /\ (b \in Hits(arg[t]) \/ ~Extras)
      <4>1. CASE Extras
        <5>1. BoundFor(arg[t]) \in Hits(arg[t])
          BY <2>4, <4>1 DEF BoundFor
        <5>2. \A c \in Hits(arg[t]) : c \in 1..made
          BY <1>1, RowIsCurrent DEF Hits
        <5> QED
          BY <4>1, <5>1, <5>2
      <4>2. CASE ~Extras
        BY <1>1, <1>9, <4>2, HasBound DEF Publish, ThreadInv
      <4> QED
        BY <4>1, <4>2
    <3> HIDE DEF b
    <3>3. Right(b, e.guards, e.key)
      BY <1>9, <3>1, <3>2, EntryIsRight DEF Publish
    <3>4. RightEntry(PreparedFor(b, e)) /\ RightEntry(Mapping(e, b))
      BY <1>4, <3>1, <3>2, <3>3
    <3>5. \A d \in dispatch' : d \in dispatch \/ d = Mapping(e, b)
      BY <3>1
    <3> QED
      BY <1>2, <2>1, <3>1, <3>4, <3>5
  <2>5. Extras /\ Hits(arg[t]) = {} => Bind(arg[t])
    BY <1>9 DEF Publish
  <2> QED
    BY <2>2, <2>3, <2>4, <2>5
<1>10. CASE Offer(t)
  <2>1. bnd[t] \in Bounds /\ bnd[t] \in 1..made /\ Compiled(bnd[t])
    BY <1>1, <1>10, HasBound DEF Offer, ThreadInv, Thread, WithBound
  <2>2. CASE UNCHANGED <<cache, bounds, direct>>
    BY <1>3, <2>2 DEF cache
  <2>3. CASE bgen[bnd[t]] = rgen /\ Bind(arg[t])
    <3>1. dispatch' \subseteq dispatch /\ (prepared' = prepared \/ prepared' = NoPrepared)
      BY <1>1, <2>3, BindFast
    <3>2. CASE direct' = direct
      BY <1>3, <3>1, <3>2
    <3>3. CASE /\ BoundFor(arg[t]) = bnd[t] /\ Publishable(bnd[t], entry[t])
               /\ direct' = [direct EXCEPT ![bnd[t]] = PreparedFor(bnd[t], entry[t])]
      <4>1. bnd[t] \in Hits(arg[t])
        BY <1>1, <2>1, <3>3 DEF BoundFor, KernelInv, BoundsOK
      <4>2. Right(bnd[t], entry[t].guards, entry[t].key)
        BY <1>10, <2>1, <3>3, <4>1, EntryIsRight DEF Offer
      <4>3. /\ RightEntry(PreparedFor(bnd[t], entry[t]))
            /\ PreparedFor(bnd[t], entry[t]).bound = bnd[t]
            /\ PreparedFor(bnd[t], entry[t]).sgen = sgen
        BY <1>4, <2>1, <3>3, <4>2
      <4>4. direct'[bnd[t]] = PreparedFor(bnd[t], entry[t])
        BY <1>1, <2>1, <3>3 DEF KernelInv, BoundsOK
      <4>5. \A b \in Bounds \ {bnd[t]} : direct'[b] = direct[b]
        BY <1>1, <3>3 DEF KernelInv, BoundsOK
      <4> QED
        BY <1>3, <3>1, <4>3, <4>4, <4>5
    <3> QED
      BY <1>10, <2>3, <3>2, <3>3 DEF Offer
  <2> QED
    BY <1>10, <2>2, <2>3 DEF Offer
<1> QED
  BY <1>5, <1>6, <1>7, <1>8, <1>9, <1>10, Kinds

\* The invariant of the fast paths is kept.
LEMMA FastStep ==
  ASSUME Base, Unhinted, Answer, NEW t \in Threads, Base', Grows,
         \A b \in Bounds : Compiled(b) => run'[b] = run[b],
         CallKernel(t) \/ CallBound(t) \/ OnlyBind(t) \/ Reset(t) \/ Step(t)
  PROVE  FastInv'
<1>1. /\ \A d \in dispatch' : RightEntry(d)
      /\ \A p : p = prepared' /\ p # NoPrepared => RightEntry(p)
      /\ \A b \in Bounds : direct'[b] = direct[b] \/
           \A p : p = direct'[b] => p.bound = b /\ p.sgen = sgen /\ RightEntry(p)
  BY FastNews
<1>2. /\ made \in 0..MaxBounds /\ rgen \in Nat /\ sgen \in Nat
  BY DEF Base, KernelInv, CacheOK, BoundsOK
<1>3. ASSUME sgen' = sgen, rgen' = rgen, schema' \subseteq schema \cup Metadata,
             NEW b, NEW guards, NEW k, b \in 1..made, bgen[b] = rgen, Right(b, guards, k)
      PROVE  bgen'[b] = rgen' /\ Right(b, guards, k)'
  <2>1. b \in Bounds /\ bgen'[b] = bgen[b] /\ hint'[b] = hint[b] /\ traced'[b] = traced[b]
    BY <1>2, <1>3 DEF Grows, Bounds
  <2>2. Compiled(b) /\ run'[b] = run[b]
    BY <1>3, <2>1 DEF Right
  <2> QED
    BY <1>3, <2>1, <2>2 DEF Right, Suits, Compiled
<1>4. \A b \in Bounds : direct[b] # NoPrepared =>
        /\ direct[b].bound = b /\ direct[b].sgen <= sgen
        /\ direct[b].sgen = sgen => RightEntry(direct[b])
  BY FastIsRight DEF Answer, FastInv
<1>5. CASE sgen' = sgen /\ rgen' = rgen /\ schema' \subseteq schema \cup Metadata
  <2>1. \A d \in dispatch' : Right(d.bound, d.guards, d.key)'
    BY <1>1, <1>3, <1>5 DEF RightEntry
  <2>2. \A p : p = prepared' /\ p # NoPrepared => Right(p.bound, p.guards, p.key)'
    BY <1>1, <1>3, <1>5 DEF RightEntry
  <2>3. \A b \in Bounds : \A p : p = direct'[b] /\ p # NoPrepared =>
          /\ p.bound = b /\ p.sgen <= sgen'
          /\ p.sgen = sgen' => bgen'[b] = rgen' /\ Right(b, p.guards, p.key)'
    <3> SUFFICES ASSUME NEW b \in Bounds, NEW p, p = direct'[b], p # NoPrepared
                 PROVE  /\ p.bound = b /\ p.sgen <= sgen
                        /\ p.sgen = sgen => bgen'[b] = rgen' /\ Right(b, p.guards, p.key)'
      BY <1>5
    <3>1. /\ p.bound = b /\ p.sgen <= sgen
          /\ p.sgen = sgen => RightEntry(p)
      BY <1>1, <1>2, <1>4
    <3> QED
      BY <1>3, <1>5, <3>1 DEF RightEntry
  <2> QED
    BY <2>1, <2>2, <2>3 DEF FastInv
<1>6. CASE sgen' = sgen + 1 /\ dispatch' = {} /\ prepared' = NoPrepared
  <2>1. \A b \in Bounds : \A p : p = direct'[b] /\ p # NoPrepared =>
          p.bound = b /\ p.sgen <= sgen'  /\ p.sgen # sgen'
    <3> SUFFICES ASSUME NEW b \in Bounds, NEW p, p = direct'[b], p # NoPrepared
                 PROVE  p.bound = b /\ p.sgen <= sgen /\ p.sgen \in Int
      BY <1>2, <1>6
    <3>1. p \in Prepareds
      BY DEF Base, KernelInv, BoundsOK
    <3> QED
      BY <1>1, <1>2, <1>4, <3>1 DEF Prepareds
  <2> QED
    BY <1>6, <2>1 DEF FastInv
<1> QED
  BY <1>5, <1>6, Generations

\* The invariant of the entries is kept.
LEMMA EntryStep ==
  ASSUME Base, Unhinted, Answer, NEW t \in Threads, Base', Others(t),
         CallKernel(t) \/ CallBound(t) \/ OnlyBind(t) \/ Reset(t) \/ Step(t)
  PROVE  EntryInv'
<1>1. ThreadsOK /\ sgen \in Nat /\ \A u \in Threads : entry[u].sgen \in Nat
  BY DEF Base, KernelInv, CacheOK, ThreadsOK, FieldsOK, Entries
<1> SUFFICES ASSUME NEW u \in Threads, pc'[u] \in {"check", "publish", "offer"}
             PROVE  /\ entry'[u].sgen <= sgen'
                    /\ entry'[u].sgen = sgen' => schema' \subseteq entry'[u].guards \cup Metadata
                    /\ entry'[u].key = arg'[u] \cap (entry'[u].guards \cup Metadata)
  BY DEF EntryInv
<1>2. CASE u # t
  <2>1. pc'[u] = pc[u] /\ arg'[u] = arg[u] /\ entry'[u] = entry[u]
    BY <1>2 DEF Others
  <2>2. /\ entry[u].sgen <= sgen
        /\ entry[u].sgen = sgen => schema \subseteq entry[u].guards \cup Metadata
        /\ entry[u].key = arg[u] \cap (entry[u].guards \cup Metadata)
    BY <2>1 DEF Answer, EntryInv
  <2>3. (sgen' = sgen /\ schema' \subseteq schema \cup Metadata) \/ sgen' = sgen + 1
    BY Generations
  <2> QED
    BY <1>1, <2>1, <2>2, <2>3
<1>3. CASE u = t
  <2>1. /\ UNCHANGED <<schema, sgen>> /\ arg'[t] = arg[t] /\ entry'[t] = FastEntry(arg[t])
    <3> USE DEF Goto, ThreadsOK, FieldsOK
    <3>1. CASE CallKernel(t) \/ CallBound(t) \/ OnlyBind(t) \/ Reset(t)
      BY <1>1, <1>3, <3>1 DEF CallKernel, CallBound, OnlyBind, Reset, Start
    <3>2. CASE TryPrepared(t) \/ Check(t) \/ BindSlow(t) \/ Publish(t)
      BY <1>1, <1>3, <3>2 DEF TryPrepared, Check, BindSlow, Publish, Over
    <3>3. CASE CheckExtras(t) \/ Rebind(t) \/ Test(t) \/ Lock(t) \/ Relock(t) \/ Compile(t)
      BY <1>1, <1>3, <3>3 DEF CheckExtras, Rebind, Test, Lock, Relock, Rebound, Compile
    <3>4. CASE PublishGuards(t) \/ Keys(t) \/ SetRun(t)
      BY <1>1, <1>3, <3>4 DEF PublishGuards, Keys, KeyTail, KeyExtents, SetRun
    <3>5. ASSUME Returned(t) PROVE FALSE
      BY <1>1, <1>3, <3>5 DEF Returned, Over
    <3>6. CASE Called(t) \/ Offer(t)
      BY <1>1, <1>3, <3>5, <3>6 DEF Called, Offer
    <3>7. CASE Exec(t)
      BY <1>1, <3>5, <3>7 DEF Exec, cache
    <3>8. CASE Dispatch(t)
      BY <1>1, <1>3, <3>8 DEF Dispatch, cache
    <3>9. CASE TakeEntry(t)
      BY <1>1, <3>9 DEF TakeEntry, cache
    <3> QED
      BY <3>1, <3>2, <3>3, <3>4, <3>6, <3>7, <3>8, <3>9 DEF Step, Keys
  <2>2. /\ FastEntry(arg[t]).sgen = sgen /\ FastEntry(arg[t]).guards = schema
        /\ FastEntry(arg[t]).key = arg[t] \cap (schema \cup Metadata)
    BY DEF FastEntry
  <2> QED
    BY <1>1, <1>3, <2>1, <2>2
<1> QED
  BY <1>2, <1>3

\* What a thread and its BoundKernel agree on while it compiles lasts.
LEMMA AgreementLasts ==
  ASSUME Base, Unhinted, Answer, NEW t \in Threads, Base', Grows,
         CallKernel(t) \/ CallBound(t) \/ OnlyBind(t) \/ Reset(t) \/ Step(t),
         NEW u \in Threads, pc[u] \in Compiling, bnd'[u] = bnd[u], arg'[u] = arg[u]
  PROVE  /\ \A e \in table' :
              e.bound = bnd[u] => e.key \cap LateValues = arg[u] \cap schema' \cap LateValues
         /\ bgen'[bnd[u]] = rgen' =>
              /\ arg[u] \cap traced'[bnd[u]] = hint'[bnd[u]] \cap traced'[bnd[u]]
              /\ rgen' = rgen /\ bgen[bnd[u]] = rgen /\ schema \subseteq schema'
<1> DEFINE b == bnd[u]
<1>1. /\ made \in 0..MaxBounds /\ rgen \in Nat /\ rgen' \in Nat /\ rgen <= rgen'
      /\ \A c \in Bounds : bgen[c] \in Nat /\ bgen[c] <= rgen
  BY DEF Base, KernelInv, CacheOK, BoundsOK, FreshInv, Grows
<1>2. b \in Bounds /\ b \in 1..made
  BY HasBound DEF Base, ThreadInv, WithBound, Locked
<1>3. bgen'[b] = bgen[b] /\ hint'[b] = hint[b] /\ traced'[b] = traced[b]
  BY <1>2 DEF Grows
<1>4. /\ \A e \in table : e.bound = b => e.key \cap LateValues = arg[u] \cap schema \cap LateValues
      /\ bgen[b] = rgen => arg[u] \cap traced[b] = hint[b] \cap traced[b]
  BY DEF Answer, CompileInv
<1>5. bgen'[b] = rgen' => rgen' = rgen /\ bgen[b] = rgen
  <2>1. bgen[b] \in Nat /\ bgen[b] <= rgen
    BY <1>1, <1>2
  <2> QED
    BY <1>1, <1>3, <2>1
<1>6. rgen' = rgen => schema \subseteq schema'
  <2>1. CASE \E N \in SUBSET Guards : Widens(N)
    BY <2>1 DEF Widens
  <2>2. CASE Rekeys(t) \/ Reset(t)
    BY <1>1, <2>2 DEF Rekeys, Reset
  <2> QED
    BY <2>1, <2>2, TableKinds
<1>7. ASSUME NEW e \in table', e.bound = b
      PROVE  e.key \cap LateValues = arg[u] \cap schema' \cap LateValues
  <2>1. ASSUME NEW N \in SUBSET Guards, Widens(N)
        PROVE  e.key \cap LateValues = arg[u] \cap schema' \cap LateValues
    <3>1. PICK f \in table : e.bound = f.bound /\ e.key = f.key \cup (hint[f.bound] \cap N)
      BY <1>1, <1>2, <1>7, <2>1 DEF Widens
    <3>2. schema \cup N \subseteq schema' /\ schema' \subseteq schema \cup N \cup Early
      BY <2>1 DEF Widens
    <3>3. schema' \cap LateValues = schema \cap LateValues
      BY <3>2, Disjoint
    <3>4. e.key \cap LateValues = f.key \cap LateValues
      BY <3>1, Disjoint
    <3> QED
      BY <1>4, <1>7, <3>1, <3>3, <3>4
  <2>2. CASE Rekeys(t)
    <3>1. e = [key |-> arg[t] \cap schema', bound |-> bnd[t]]
      BY <2>2 DEF Rekeys
    <3>2. e.key = arg[t] \cap schema' /\ e.bound = bnd[t]
      BY <3>1
    <3>3. u = t
      <4>1. pc[t] \in Locked /\ pc[u] \in Locked /\ bnd[t] = b
        BY <1>7, <2>2, <3>2 DEF Rekeys, Locked, Compiling, Generating
      <4>2. Holds(t, b) /\ Holds(u, b)
        BY <4>1, LocksAreHeld
      <4> QED
        BY <1>2, <4>2 DEF Base, LockInv
    <3> QED
      BY <3>2, <3>3
  <2>3. CASE Reset(t)
    BY <1>7, <2>3 DEF Reset
  <2> QED
    BY <2>1, <2>2, <2>3, TableKinds
<1> QED
  BY <1>3, <1>4, <1>5, <1>6, <1>7

\* The steps that lead to a place where a program is generated.
LEMMA CompilingSteps ==
  ASSUME ThreadsOK, NEW t \in Threads, pc'[t] \in Compiling,
         CallKernel(t) \/ CallBound(t) \/ OnlyBind(t) \/ Reset(t) \/ Step(t)
  PROVE  /\ arg'[t] = arg[t]
         /\ \/ Lock(t) /\ pc'[t] = "compile" /\ ~Extras
            \/ Relock(t) /\ pc'[t] = "compile" /\ BoundFor(arg[t]) = bnd[t]
            \/ /\ bnd'[t] = bnd[t]
               /\ \/ Compile(t) /\ pc'[t] = "guards"
                  \/ PublishGuards(t) /\ pc'[t] = "tail"
                  \/ KeyTail(t) /\ pc'[t] = "extents"
                  \/ KeyExtents(t) /\ pc'[t] = "set"
<1> USE DEF ThreadsOK, Goto, Compiling, Generating
<1>1. CASE CallKernel(t) \/ CallBound(t) \/ OnlyBind(t) \/ Reset(t)
  BY <1>1 DEF CallKernel, CallBound, OnlyBind, Reset, Start
<1>2. CASE TryPrepared(t) \/ Dispatch(t) \/ Check(t) \/ BindSlow(t)
  BY <1>2 DEF TryPrepared, Dispatch, Check, BindSlow, Over
<1>3. CASE TakeEntry(t) \/ Publish(t) \/ Called(t) \/ Exec(t) \/ Offer(t)
  BY <1>3 DEF TakeEntry, Publish, Called, Exec, Offer, Returned, Over
<1>4. CASE CheckExtras(t) \/ Rebind(t) \/ Test(t) \/ SetRun(t)
  BY <1>4 DEF CheckExtras, Rebind, Rebound, Test, SetRun
<1>5. CASE Lock(t)
  BY <1>5 DEF Lock
<1>6. CASE Relock(t)
  BY <1>6 DEF Relock, Rebound
<1>7. CASE Compile(t)
  BY <1>7 DEF Compile
<1>8. CASE PublishGuards(t) \/ KeyTail(t) \/ KeyExtents(t)
  BY <1>8 DEF PublishGuards, KeyTail, KeyExtents, Extend, frame
<1> QED
  BY <1>1, <1>2, <1>3, <1>4, <1>5, <1>6, <1>7, <1>8 DEF Step

\* The invariant of the compilations is kept.
LEMMA CompileStep ==
  ASSUME Base, Unhinted, Answer, NEW t \in Threads, Base', Grows, Others(t),
         CallKernel(t) \/ CallBound(t) \/ OnlyBind(t) \/ Reset(t) \/ Step(t)
  PROVE  CompileInv'
<1>1. KernelInv /\ ThreadsOK /\ SchemaInv /\ TableInv /\ CompileInv
  BY DEF Base, Answer
<1> SUFFICES ASSUME NEW u \in Threads, pc'[u] \in Compiling
             PROVE  (/\ \A e \in table :
                          e.bound = bnd[u] => e.key \cap LateValues = arg[u] \cap schema \cap LateValues
                     /\ bgen[bnd[u]] = rgen =>
                          /\ arg[u] \cap traced[bnd[u]] = hint[bnd[u]] \cap traced[bnd[u]]
                          /\ pc[u] \in {"tail", "extents", "set"} => CodeGuards \subseteq schema
                          /\ pc[u] \in {"extents", "set"} => LateValues \subseteq schema)'
  BY DEF CompileInv
<1>2. ASSUME pc[u] \in Compiling, bnd'[u] = bnd[u], arg'[u] = arg[u],
             bgen[bnd[u]] = rgen /\ rgen' = rgen /\ pc'[u] \in {"tail", "extents", "set"} =>
               pc[u] \in {"tail", "extents", "set"} \/ CodeGuards \subseteq schema',
             bgen[bnd[u]] = rgen /\ rgen' = rgen /\ pc'[u] \in {"extents", "set"} =>
               pc[u] \in {"extents", "set"} \/ LateValues \subseteq schema'
      PROVE  (/\ \A e \in table :
                   e.bound = bnd[u] => e.key \cap LateValues = arg[u] \cap schema \cap LateValues
              /\ bgen[bnd[u]] = rgen =>
                   /\ arg[u] \cap traced[bnd[u]] = hint[bnd[u]] \cap traced[bnd[u]]
                   /\ pc[u] \in {"tail", "extents", "set"} => CodeGuards \subseteq schema
                   /\ pc[u] \in {"extents", "set"} => LateValues \subseteq schema)'
  <2>1. /\ \A e \in table' :
             e.bound = bnd[u] => e.key \cap LateValues = arg[u] \cap schema' \cap LateValues
        /\ bgen'[bnd[u]] = rgen' =>
             /\ arg[u] \cap traced'[bnd[u]] = hint'[bnd[u]] \cap traced'[bnd[u]]
             /\ rgen' = rgen /\ bgen[bnd[u]] = rgen /\ schema \subseteq schema'
    BY <1>2, AgreementLasts
  <2>2. bgen[bnd[u]] = rgen =>
          /\ pc[u] \in {"tail", "extents", "set"} => CodeGuards \subseteq schema
          /\ pc[u] \in {"extents", "set"} => LateValues \subseteq schema
    BY <1>1, <1>2 DEF CompileInv
  <2> QED
    BY <1>2, <2>1, <2>2
<1>3. CASE u # t
  <2>1. pc'[u] = pc[u] /\ bnd'[u] = bnd[u] /\ arg'[u] = arg[u]
    BY <1>3 DEF Others
  <2> QED
    BY <1>2, <2>1
<1>4. CASE u = t /\ Lock(t) /\ ~Extras
  <2>1. UNCHANGED <<table, schema, bgen, rgen, traced, hint, arg, bnd>> /\ pc'[t] = "compile"
    BY <1>1, <1>4 DEF Lock, Goto, cache, bounds, ThreadsOK
  <2>2. schema = {} /\ bnd[t] \in 1..made
    BY <1>1, <1>4, HasBound DEF Extras, Lock, Base, ThreadInv, WithBound
  <2>3. \A e \in table : e.key = {}
    BY <1>1, <2>2, RowIsCurrent
  <2>4. bgen[bnd[t]] = rgen => traced[bnd[t]] = {}
    BY <1>1, <2>2 DEF SchemaInv
  <2> QED
    BY <1>4, <2>1, <2>2, <2>3, <2>4
<1>5. CASE u = t /\ Relock(t) /\ BoundFor(arg[t]) = bnd[t] /\ pc'[t] = "compile"
  <2>1. /\ Bind(arg[t]) /\ arg[t] \in SUBSET Facts /\ UNCHANGED arg /\ bnd[t] \in 1..made
        /\ bnd'[t] = bnd[t]
    BY <1>1, <1>5, HasBound
       DEF Relock, Rebound, ThreadsOK, FieldsOK, Base, ThreadInv, WithBound, Locked
  <2>2. Hits(arg[t]) # {} /\ bnd[t] \in Hits(arg[t])
    BY <1>1, <1>5, <2>1 DEF BoundFor, KernelInv, BoundsOK
  <2>3. UNCHANGED <<cache, bounds>>
    BY <2>1, <2>2 DEF Bind, cache, bounds
  <2>4. PICK e \in table : e.bound = bnd[t] /\ e.key = arg[t] \cap schema
    BY <2>2 DEF Hits, KeyOf
  <2>5. \A f \in table : f.bound = bnd[t] => f = e
    BY <1>1, <2>4 DEF TableInv
  <2>6. bgen[bnd[t]] = rgen => arg[t] \cap traced[bnd[t]] = hint[bnd[t]] \cap traced[bnd[t]]
    <3>1. e.key \cap traced[bnd[t]] = hint[bnd[t]] \cap traced[bnd[t]]
      BY <1>1, <2>4 DEF TableInv
    <3>2. bgen[bnd[t]] = rgen => traced[bnd[t]] \subseteq schema
      BY <1>1, <2>1 DEF SchemaInv
    <3> QED
      BY <2>4, <3>1, <3>2
  <2> QED
    BY <1>5, <2>1, <2>3, <2>4, <2>5, <2>6 DEF cache, bounds
<1>6. CASE u = t /\ bnd'[t] = bnd[t] /\ arg'[t] = arg[t] /\ Compile(t) /\ pc'[t] = "guards"
  BY <1>2, <1>6 DEF Compile, Compiling
<1>7. CASE u = t /\ bnd'[t] = bnd[t] /\ arg'[t] = arg[t] /\ PublishGuards(t) /\ pc'[t] = "tail"
  <2>1. pc[t] = "guards" /\ plan[t] = ProgramOf(bnd[t], arg[t])
    BY <1>7 DEF PublishGuards, Base, PlanInv, Generating
  <2>2. CodeGuards \subseteq plan[t].needs \cap Guards
    BY <2>1, Disjoint DEF ProgramOf
  <2>3. bgen[bnd[t]] = rgen => CodeGuards \subseteq schema'
    BY <1>7, <2>2 DEF PublishGuards, PublishGuardFacts
  <2> QED
    BY <1>2, <1>7, <2>1, <2>3 DEF Compiling, Generating
<1>8. CASE u = t /\ bnd'[t] = bnd[t] /\ arg'[t] = arg[t] /\ KeyTail(t) /\ pc'[t] = "extents"
  <2>1. pc[t] = "tail" /\ plan[t] = ProgramOf(bnd[t], arg[t])
    BY <1>8 DEF KeyTail, Base, PlanInv, Generating
  <2>2. LateValues \subseteq plan[t].needs \cap LateValues
    BY <2>1 DEF ProgramOf
  <2>3. bgen[bnd[t]] = rgen => LateValues \subseteq schema'
    BY <1>8, <2>2 DEF KeyTail, Extend
  <2> QED
    BY <1>2, <1>8, <2>1, <2>3 DEF Compiling, Generating
<1>9. CASE u = t /\ bnd'[t] = bnd[t] /\ arg'[t] = arg[t] /\ KeyExtents(t) /\ pc'[t] = "set"
  BY <1>2, <1>9 DEF KeyExtents, Compiling, Generating
<1> QED
  BY <1>1, <1>3, <1>4, <1>5, <1>6, <1>7, <1>8, <1>9, CompilingSteps

\* No fast path runs a program for arguments it does not fit.
LEMMA RunsRight ==
  ASSUME Base, Unhinted, Answer, NEW t \in Threads,
         CallKernel(t) \/ CallBound(t) \/ OnlyBind(t) \/ Reset(t) \/ Step(t)
  PROVE  FastPathIsRight'
<1>1. /\ \A d \in dispatch : RightEntry(d)
      /\ prepared # NoPrepared => RightEntry(prepared)
      /\ \A b \in Bounds : direct[b] # NoPrepared /\ direct[b].sgen = sgen => RightEntry(direct[b])
  BY FastIsRight
<1>2. SchemaInv /\ FastPathIsRight
  BY DEF Answer
<1>3. ASSUME NEW b, Runs(t, b, "fast"), Fits(run[b], arg[t]) PROVE FastPathIsRight'
  BY <1>2, <1>3 DEF Runs, FastPathIsRight
<1>4. ASSUME NEW e, RightEntry(e), e.key = arg[t] \cap (e.guards \cup Metadata)
      PROVE  Fits(run[e.bound], arg[t])
  BY <1>2, <1>4, RightFits DEF RightEntry
<1>5. NoPrepared.bound = None
  BY DEF NoPrepared
<1>6. CASE TryPrepared(t)
  <2>1. CASE Matches(prepared, arg[t]) /\ Runs(t, prepared.bound, "fast")
    BY <1>1, <1>3, <1>4, <1>5, <2>1 DEF Matches
  <2>2. CASE UNCHANGED misused
    BY <1>2, <2>2 DEF FastPathIsRight
  <2> QED
    BY <1>6, <2>1, <2>2 DEF TryPrepared
<1>7. CASE Check(t)
  <2>1. CASE /\ Mapping(entry[t], bnd[t]) \in dispatch /\ Publishable(bnd[t], entry[t])
             /\ Runs(t, bnd[t], "fast")
    <3>1. RightEntry(Mapping(entry[t], bnd[t]))
      BY <1>1, <2>1
    <3>2. /\ Mapping(entry[t], bnd[t]).bound = bnd[t]
          /\ Mapping(entry[t], bnd[t]).guards = entry[t].guards
          /\ Mapping(entry[t], bnd[t]).key = entry[t].key
      BY DEF Mapping
    <3>3. entry[t].key = arg[t] \cap (entry[t].guards \cup Metadata)
      BY <1>7 DEF Check, Answer, EntryInv
    <3>4. Fits(run[bnd[t]], arg[t])
      BY <1>4, <3>1, <3>2, <3>3
    <3> QED
      BY <1>3, <2>1, <3>4
  <2>2. CASE UNCHANGED misused
    BY <1>2, <2>2 DEF FastPathIsRight
  <2> QED
    BY <1>7, <2>1, <2>2 DEF Check
<1>8. CASE Called(t)
  <2>1. CASE /\ direct[bnd[t]].bound = bnd[t] /\ Matches(direct[bnd[t]], arg[t])
             /\ Runs(t, bnd[t], "fast")
    <3>1. bnd[t] \in Bounds
      BY <1>8, HasBound DEF Called, Base, ThreadInv, WithBound
    <3>2. RightEntry(direct[bnd[t]])
      BY <1>1, <1>5, <2>1, <3>1 DEF Matches
    <3>3. Fits(run[bnd[t]], arg[t])
      BY <1>4, <2>1, <3>2 DEF Matches
    <3> QED
      BY <1>3, <2>1, <3>3
  <2>2. CASE UNCHANGED misused
    BY <1>2, <2>2 DEF FastPathIsRight
  <2> QED
    BY <1>8, <2>1, <2>2 DEF Called
<1>9. CASE Exec(t)
  BY <1>2, <1>9 DEF Exec, Runs, FastPathIsRight
<1>10. CASE \/ CallKernel(t) \/ CallBound(t) \/ OnlyBind(t) \/ Reset(t) \/ Dispatch(t) \/ BindSlow(t)
            \/ TakeEntry(t) \/ Publish(t) \/ CheckExtras(t) \/ Rebind(t) \/ Test(t)
  BY <1>2, <1>10
     DEF CallKernel, CallBound, OnlyBind, Start, Reset, Dispatch, BindSlow, TakeEntry, Publish,
         CheckExtras, Rebind, Rebound, Test, FastPathIsRight
<1>11. CASE Lock(t) \/ Relock(t) \/ Compile(t) \/ PublishGuards(t) \/ Keys(t) \/ SetRun(t) \/ Offer(t)
  BY <1>2, <1>11
     DEF Lock, Relock, Rebound, Compile, PublishGuards, Keys, KeyTail, KeyExtents, Extend, SetRun,
         Offer, FastPathIsRight
<1> QED
  BY <1>6, <1>7, <1>8, <1>9, <1>10, <1>11 DEF Step, Keys

\* The invariant of the answers holds at the start and is kept.
LEMMA AnswerInvariant == Unhinted => (Spec => [](Base /\ Answer))
<1> SUFFICES ASSUME Unhinted PROVE Spec => [](Base /\ Answer)
  OBVIOUS
<1>1. Init => Answer
  BY DEF Init, Answer, SchemaInv, TableInv, FastInv, EntryInv, CompileInv, Compiling, Generating,
         FastPathIsRight
<1>2. Base /\ Answer /\ [Next]_vars => Base' /\ Answer'
  <2> SUFFICES ASSUME Base, Answer, [Next]_vars PROVE Base' /\ Answer'
    OBVIOUS
  <2>1. ASSUME NEW t \in Threads,
               CallKernel(t) \/ CallBound(t) \/ OnlyBind(t) \/ Reset(t) \/ Step(t)
        PROVE  Base' /\ Answer'
    <3>1. Base' /\ Grows /\ Others(t) /\ \A b \in Bounds : Compiled(b) => run'[b] = run[b]
      BY <2>1, BaseStep
    <3> QED
      BY <2>1, <3>1, SchemaStep, TableStep, FastStep, EntryStep, CompileStep, RunsRight DEF Answer
  <2>2. CASE UNCHANGED vars
    <3>1. Base'
      BY <2>2 DEF Base, KernelInv, CacheOK, BoundsOK, CurrentInv, FreshInv, ThreadsOK, FieldsOK,
         ThreadInv, Thread, LockInv, Lockup, Holds, PlanInv, ProgramOf, Compiled,
         vars, cache, bounds, frame
    <3>2. SchemaInv' /\ TableInv' /\ CompileInv'
      BY <2>2 DEF Answer, SchemaInv, TableInv, CompileInv, Compiled, vars, cache, bounds, frame
    <3>3. FastInv' /\ EntryInv' /\ FastPathIsRight'
      BY <2>2 DEF Answer, FastInv, Right, Suits, EntryInv, FastPathIsRight, Compiled,
         vars, cache, bounds, frame
    <3> QED
      BY <3>1, <3>2, <3>3 DEF Answer
  <2> QED
    BY <2>1, <2>2 DEF Next, Finished
<1> QED
  BY <1>1, <1>2, BaseInit, PTL DEF Spec

\* FastPathIsRight: whatever other threads publish, drop or reset between the
\* lookup of a fast path and its use, the program it runs fits the arguments.
THEOREM FastPaths == Unhinted => (Spec => []FastPathIsRight)
<1>1. Base /\ Answer => FastPathIsRight
  BY DEF Answer
<1> QED
  BY <1>1, AnswerInvariant, PTL

\* CachesAnswerRight: in every state what the table, the dispatch cache and the
\* prepared calls would answer for any arguments has, once it is compiled, a
\* program that fits them.  What a call then runs is settled only later: see
\* KernelCallsFit and LockedCalls.
THEOREM CacheAnswers == Unhinted => (Spec => []CachesAnswerRight)
<1>1. ASSUME Unhinted, Base, Answer, NEW a \in SUBSET Facts, NEW b \in Answers(a), Compiled(b)
      PROVE  Fits(run[b], a)
  <2>1. KernelInv /\ SchemaInv /\ TableInv
    BY <1>1 DEF Base, Answer
  <2>2. /\ \A d \in dispatch : RightEntry(d)
        /\ prepared # NoPrepared => RightEntry(prepared)
        /\ \A c \in Bounds : direct[c] # NoPrepared /\ direct[c].sgen = sgen => RightEntry(direct[c])
    BY <1>1, FastIsRight
  <2>3. ASSUME NEW e, RightEntry(e), e.bound = b, e.key = a \cap (e.guards \cup Metadata)
        PROVE  Fits(run[b], a)
    BY <1>1, <2>1, <2>3, RightFits DEF RightEntry
  <2>4. CASE b \in Hits(a)
    <3>1. PICK e \in table : e.bound = b /\ e.key = a \cap schema
      BY <2>4 DEF Hits, KeyOf
    <3>2. Suits(b, a) /\ b \in 1..made
      BY <1>1, <2>1, <3>1, RowSuits, RowIsCurrent
    <3> QED
      BY <1>1, <2>1, <3>2, SuitsFits
  <2>5. CASE Mapping(FastEntry(a), b) \in dispatch
    <3>1. /\ Mapping(FastEntry(a), b).bound = b /\ Mapping(FastEntry(a), b).guards = schema
          /\ Mapping(FastEntry(a), b).key = a \cap (schema \cup Metadata)
      BY DEF Mapping, FastEntry
    <3> QED
      BY <2>2, <2>3, <2>5, <3>1
  <2>6. CASE prepared.bound = b /\ Matches(prepared, a)
    <3>1. prepared # NoPrepared /\ prepared.key = a \cap (prepared.guards \cup Metadata)
      BY <2>6 DEF Matches, NoPrepared
    <3> QED
      BY <2>2, <2>3, <2>6, <3>1
  <2>7. CASE b \in Bounds /\ Matches(direct[b], a)
    <3>1. /\ direct[b] # NoPrepared /\ direct[b].sgen = sgen
          /\ direct[b].key = a \cap (direct[b].guards \cup Metadata)
      BY <2>7 DEF Matches, NoPrepared
    <3>2. direct[b].bound = b
      BY <1>1, <2>7, <3>1 DEF Answer, FastInv
    <3> QED
      BY <2>2, <2>3, <2>7, <3>1, <3>2
  <2> QED
    BY <1>1, <2>4, <2>5, <2>6, <2>7 DEF Answers
<1>2. Unhinted /\ Base /\ Answer => CachesAnswerRight
  BY <1>1 DEF CachesAnswerRight
<1>3. ASSUME Unhinted PROVE Base /\ Answer => CachesAnswerRight
  BY <1>2, <1>3
<1> SUFFICES ASSUME Unhinted PROVE Spec => []CachesAnswerRight
  OBVIOUS
<1> QED
  BY <1>3, AnswerInvariant, PTL

-----------------------------------------------------------------------------
(* What a call of the Kernel runs when no fast path answers it.  It is not *)
(* enough that the caches answer right: a call finds its BoundKernel before *)
(* the program is compiled that it runs.  What that program fits must not   *)
(* depend on the hint beyond the key, nor on the call of another thread.    *)

Undisturbed ==
  /\ Unhinted
  /\ CodeGuards = {}
  /\ LateValues = {} \/ \A t, u \in Threads : t = u

\* Where a thread is before and after a call of the Kernel has its BoundKernel.
Answered == {"idle", "prepared", "dispatch", "check", "bind"}
Slow == WithBound \ {"check"}

\* The program of BoundKernel b is, or will be, for arguments a.
Agrees(b, a) ==
  /\ a \cap traced[b] = hint[b] \cap traced[b]
  /\ Compiled(b) => a \cap LateValues = run[b].holds \cap LateValues

\* A call of the Kernel agrees with the BoundKernel that it was given.
CallInv ==
  \A t \in Threads :
    /\ pc[t] \in Answered => outer[t] = None
    /\ outer[t] # None /\ pc[t] \in Slow => Agrees(bnd[t], arg[t])

\* What bind returns agrees with the arguments.
LEMMA BindAgrees ==
  ASSUME KernelInv, SchemaInv, TableInv, NEW a \in SUBSET Facts, Bind(a), run' = run
  PROVE  /\ a \cap traced'[BoundFor(a)] = hint'[BoundFor(a)] \cap traced'[BoundFor(a)]
         /\ run'[BoundFor(a)] # NoProgram =>
              a \cap LateValues = run'[BoundFor(a)].holds \cap LateValues
<1>1. CASE UNCHANGED <<cache, bounds>> /\ BoundFor(a) \in Hits(a)
  <2>1. PICK e \in table : e.bound = BoundFor(a) /\ e.key = a \cap schema
    BY <1>1 DEF Hits, KeyOf
  <2>2. e.bound \in 1..made /\ bgen[e.bound] = rgen
    BY RowIsCurrent
  <2>3. traced[e.bound] \subseteq schema
    BY <2>2 DEF SchemaInv
  <2>4. e.key \cap traced[e.bound] = hint[e.bound] \cap traced[e.bound]
    BY DEF TableInv
  <2>5. Compiled(e.bound) =>
          /\ LateValues \subseteq schema
          /\ e.key \cap LateValues = run[e.bound].holds \cap LateValues
    BY <2>2 DEF SchemaInv, TableInv
  <2>6. a \cap traced[e.bound] = hint[e.bound] \cap traced[e.bound]
    BY <2>1, <2>3, <2>4
  <2>7. Compiled(e.bound) => a \cap LateValues = run[e.bound].holds \cap LateValues
    BY <2>1, <2>5
  <2> QED
    BY <1>1, <2>1, <2>6, <2>7 DEF Compiled, bounds
<1>2. CASE \E recorded \in SUBSET TraceGuards : News(a, recorded)
  <2>1. /\ made + 1 \in Bounds /\ BoundFor(a) = made + 1
        /\ hint' = [hint EXCEPT ![made + 1] = a]
    BY <1>2 DEF News
  <2>2. hint'[made + 1] = a
    BY <2>1 DEF KernelInv, BoundsOK
  <2>3. run'[made + 1] = NoProgram
    BY <2>1 DEF KernelInv, FreshInv, BoundsOK, Bounds
  <2> QED
    BY <2>1, <2>2, <2>3
<1> QED
  BY <1>1, <1>2, BindCases DEF KernelInv

\* A call keeps its BoundKernel and its arguments, or binds them again.
LEMMA SlowSteps ==
  ASSUME Base, NEW t \in Threads, pc[t] \in Answered => outer[t] = None,
         CallKernel(t) \/ CallBound(t) \/ OnlyBind(t) \/ Reset(t) \/ Step(t)
  PROVE  /\ pc'[t] \in Answered => outer'[t] = None
         /\ outer'[t] # None /\ pc'[t] \in Slow =>
              \/ /\ pc[t] \in Slow /\ outer[t] # None
                 /\ bnd'[t] = bnd[t] /\ arg'[t] = arg[t]
              \/ /\ Bind(arg[t]) /\ run' = run
                 /\ bnd'[t] = BoundFor(arg[t]) /\ arg'[t] = arg[t]
<1> USE DEF Answered, Slow, WithBound, Locked, Compiling, Generating
<1>1. /\ pc \in [Threads -> PCs] /\ bnd \in [Threads -> 0..MaxBounds]
      /\ outer \in [Threads -> 0..MaxBounds] /\ arg \in [Threads -> SUBSET Facts]
      /\ held \in [Threads -> Seq(Bounds)]
  BY DEF Base, ThreadsOK, FieldsOK
<1>2. CASE CallKernel(t) \/ CallBound(t) \/ OnlyBind(t) \/ Reset(t)
  BY <1>1, <1>2 DEF CallKernel, CallBound, OnlyBind, Reset, Start, Goto
<1>3. CASE TryPrepared(t) \/ Dispatch(t) \/ Check(t)
  BY <1>1, <1>3 DEF TryPrepared, Dispatch, Check, Over, Goto
<1>4. CASE BindSlow(t)
  BY <1>1, <1>4 DEF BindSlow, Goto
<1>5. CASE TakeEntry(t) \/ Publish(t)
  BY <1>1, <1>5 DEF TakeEntry, Publish, Over, Goto
<1>6. CASE Called(t)
  BY <1>1, <1>6 DEF Called, Returned, Over, Goto
<1>7. CASE Rebind(t) \/ Relock(t)
  BY <1>1, <1>7 DEF Rebind, Relock, Rebound, Goto
<1>8. CASE CheckExtras(t) \/ Test(t) \/ PublishGuards(t) \/ Keys(t)
  BY <1>1, <1>8 DEF CheckExtras, Test, PublishGuards, Keys, KeyTail, KeyExtents, Extend, frame, Goto
<1>9. CASE Lock(t) \/ Compile(t) \/ SetRun(t)
  BY <1>1, <1>9 DEF Lock, Compile, SetRun, Goto
<1>10. CASE Exec(t) \/ Offer(t)
  BY <1>1, <1>10 DEF Exec, Offer, Returned, Over, Goto
<1> QED
  BY <1>2, <1>3, <1>4, <1>5, <1>6, <1>7, <1>8, <1>9, <1>10 DEF Step, Keys

\* What a call agrees with lasts: its BoundKernel keeps its program, and gets
\* one only from the thread that calls it.
LEMMA AgreesLasts ==
  ASSUME Base, Undisturbed, Answer, NEW t \in Threads, Grows,
         CallKernel(t) \/ CallBound(t) \/ OnlyBind(t) \/ Reset(t) \/ Step(t),
         \A b \in Bounds : Compiled(b) => run'[b] = run[b],
         NEW u \in Threads, pc[u] \in Slow, Agrees(bnd[u], arg[u])
  PROVE  /\ arg[u] \cap traced'[bnd[u]] = hint'[bnd[u]] \cap traced'[bnd[u]]
         /\ run'[bnd[u]] # NoProgram =>
              arg[u] \cap LateValues = run'[bnd[u]].holds \cap LateValues
<1>1. bnd[u] \in Bounds /\ bnd[u] \in 1..made
  BY HasBound DEF Base, ThreadInv, Slow
<1>2. arg[u] \cap traced'[bnd[u]] = hint'[bnd[u]] \cap traced'[bnd[u]]
  BY <1>1 DEF Agrees, Grows
<1>3. CASE LateValues = {}
  BY <1>2, <1>3
<1>4. CASE u = t
  <2>1. CASE run'[bnd[u]] = run[bnd[u]]
    BY <1>2, <2>1 DEF Agrees, Compiled
  <2>2. CASE pc[t] = "set" /\ run'[bnd[u]] = plan[t]
    <3>1. run'[bnd[u]] = ProgramOf(bnd[u], arg[u])
      BY <1>4, <2>2 DEF Base, PlanInv, Generating
    <3>2. run'[bnd[u]].holds
            = (hint[bnd[u]] \cap (traced[bnd[u]] \cup CodeGuards \cup LateHints))
              \cup (arg[u] \cap LateValues)
      BY <3>1 DEF ProgramOf
    <3>3. LateValues \cap (traced[bnd[u]] \cup CodeGuards \cup LateHints) = {}
      <4>1. traced[bnd[u]] \subseteq Early \cup TraceGuards
        BY <1>1 DEF Answer, SchemaInv
      <4> QED
        BY <4>1, Disjoint DEF Undisturbed
    <3> QED
      BY <1>2, <3>2, <3>3
  <2> QED
    BY <1>1, <1>4, <2>1, <2>2, RunStep DEF Base
<1> QED
  BY <1>3, <1>4 DEF Undisturbed

\* The agreement of the calls is kept.
LEMMA CallStep ==
  ASSUME Base, Undisturbed, Answer, CallInv, NEW t \in Threads, Grows, Others(t),
         \A b \in Bounds : Compiled(b) => run'[b] = run[b],
         CallKernel(t) \/ CallBound(t) \/ OnlyBind(t) \/ Reset(t) \/ Step(t)
  PROVE  CallInv'
<1>1. KernelInv /\ SchemaInv /\ TableInv /\ arg[t] \in SUBSET Facts
  BY DEF Base, Answer, ThreadsOK, FieldsOK
<1>2. \A u \in Threads :
        /\ pc[u] \in Answered => outer[u] = None
        /\ outer[u] # None /\ pc[u] \in Slow => Agrees(bnd[u], arg[u])
  BY DEF CallInv
<1>3. ASSUME NEW u \in Threads, outer[u] # None, pc[u] \in Slow, bnd'[u] = bnd[u], arg'[u] = arg[u]
      PROVE  Agrees(bnd[u], arg[u])'
  <2>1. /\ arg[u] \cap traced'[bnd[u]] = hint'[bnd[u]] \cap traced'[bnd[u]]
        /\ run'[bnd[u]] # NoProgram =>
             arg[u] \cap LateValues = run'[bnd[u]].holds \cap LateValues
    BY <1>2, <1>3, AgreesLasts
  <2> QED
    BY <1>3, <2>1 DEF Agrees, Compiled
<1> SUFFICES ASSUME NEW u \in Threads
             PROVE  /\ pc'[u] \in Answered => outer'[u] = None
                    /\ outer'[u] # None /\ pc'[u] \in Slow => Agrees(bnd[u], arg[u])'
  BY DEF CallInv
<1>4. CASE u = t
  <2>1. /\ pc'[t] \in Answered => outer'[t] = None
        /\ outer'[t] # None /\ pc'[t] \in Slow =>
             \/ /\ pc[t] \in Slow /\ outer[t] # None
                /\ bnd'[t] = bnd[t] /\ arg'[t] = arg[t]
             \/ /\ Bind(arg[t]) /\ run' = run
                /\ bnd'[t] = BoundFor(arg[t]) /\ arg'[t] = arg[t]
    BY <1>2, SlowSteps
  <2>2. ASSUME Bind(arg[t]), run' = run, bnd'[t] = BoundFor(arg[t]), arg'[t] = arg[t]
        PROVE  Agrees(bnd[t], arg[t])'
    BY <1>1, <2>2, BindAgrees DEF Agrees, Compiled
  <2> QED
    BY <1>3, <1>4, <2>1, <2>2
<1>5. CASE u # t
  BY <1>2, <1>3, <1>5 DEF Others
<1> QED
  BY <1>4, <1>5

\* A call of the Kernel that runs the program of its BoundKernel fits it.
LEMMA SlowRunsRight ==
  ASSUME Base, Undisturbed, Answer, CallInv, "slow" \notin misused, NEW t \in Threads,
         CallKernel(t) \/ CallBound(t) \/ OnlyBind(t) \/ Reset(t) \/ Step(t)
  PROVE  "slow" \notin misused'
<1>1. CASE Exec(t)
  <2>1. CASE outer[t] = None
    BY <1>1, <2>1 DEF Exec, Runs
  <2>2. CASE outer[t] # None
    <3>1. pc[t] = "exec" /\ Agrees(bnd[t], arg[t])
      BY <1>1, <2>2 DEF Exec, CallInv, Slow, WithBound
    <3>2. Compiled(bnd[t]) /\ bnd[t] \in 1..made
      BY <3>1, HasBound DEF Base, ThreadInv, Thread, WithBound
    <3>3. Suits(bnd[t], arg[t])
      BY <3>1, <3>2 DEF Agrees, Suits, Undisturbed
    <3>4. Fits(run[bnd[t]], arg[t])
      BY <3>2, <3>3, SuitsFits DEF Undisturbed, Answer
    <3> QED
      BY <1>1, <3>4 DEF Exec, Runs
  <2> QED
    BY <2>1, <2>2
<1>2. CASE TryPrepared(t) \/ Check(t) \/ Called(t)
  BY <1>2 DEF TryPrepared, Check, Called, Runs
<1>3. CASE \/ CallKernel(t) \/ CallBound(t) \/ OnlyBind(t) \/ Reset(t) \/ Dispatch(t) \/ BindSlow(t)
           \/ TakeEntry(t) \/ Publish(t) \/ CheckExtras(t) \/ Rebind(t) \/ Test(t)
  BY <1>3
     DEF CallKernel, CallBound, OnlyBind, Start, Reset, Dispatch, BindSlow, TakeEntry, Publish,
         CheckExtras, Rebind, Rebound, Test
<1>4. CASE Lock(t) \/ Relock(t) \/ Compile(t) \/ PublishGuards(t) \/ Keys(t) \/ SetRun(t) \/ Offer(t)
  BY <1>4
     DEF Lock, Relock, Rebound, Compile, PublishGuards, Keys, KeyTail, KeyExtents, Extend, SetRun,
         Offer
<1> QED
  BY <1>1, <1>2, <1>3, <1>4 DEF Step, Keys

\* KernelCallsAreRight: a call of the Kernel that has run, by a fast path or
\* through its BoundKernel, ran a program that fits its arguments.
THEOREM KernelCallsFit == Undisturbed => (Spec => []KernelCallsAreRight)
<1> SUFFICES ASSUME Undisturbed PROVE Spec => []KernelCallsAreRight
  OBVIOUS
<1> DEFINE Inv == CallInv /\ "slow" \notin misused
<1>1. Spec => [](Base /\ Answer)
  BY AnswerInvariant DEF Undisturbed
<1>2. Init => Inv
  BY DEF Init, CallInv, Slow, WithBound, Locked, Compiling, Generating
<1>3. Base /\ Answer /\ Inv /\ [Next]_vars => Inv'
  <2> SUFFICES ASSUME Base, Answer, Inv, [Next]_vars PROVE Inv'
    OBVIOUS
  <2>1. ASSUME NEW t \in Threads,
               CallKernel(t) \/ CallBound(t) \/ OnlyBind(t) \/ Reset(t) \/ Step(t)
        PROVE  Inv'
    <3>1. Grows /\ Others(t) /\ \A b \in Bounds : Compiled(b) => run'[b] = run[b]
      BY <2>1, BaseStep
    <3> QED
      BY <2>1, <3>1, CallStep, SlowRunsRight
  <2>2. CASE UNCHANGED vars
    BY <2>2 DEF CallInv, Agrees, Compiled, vars, cache, bounds, frame
  <2> QED
    BY <2>1, <2>2 DEF Next, Finished
<1>4. Answer /\ Inv => KernelCallsAreRight
  BY DEF Answer, FastPathIsRight, KernelCallsAreRight
<1> QED
  BY <1>1, <1>2, <1>3, <1>4, PTL DEF Spec

-----------------------------------------------------------------------------
(* The first compilation.  With several threads and late values a call may  *)
(* still find, in the test outside the lock, a program that another call    *)
(* has just compiled for other values; not a call that takes the lock.      *)

\* "Another caller may have discovered a late specialization while this caller
\* waited for the first compile": whoever leaves _first_compile_lock to run its
\* BoundKernel, having found a program or compiled one, has one that fits its
\* arguments, unless the kernel was reset meanwhile.
LockedCallsFit ==
  [][\A t \in Threads :
       pc[t] \in {"compile", "set"} /\ pc'[t] = "exec" /\ bgen[bnd[t]] = rgen
         => Fits(run'[bnd[t]], arg[t])]_vars

\* A program that was there when the lock was taken has the late values of the
\* call.
WaitInv ==
  \A t \in Threads :
    pc[t] = "compile" /\ bgen[bnd[t]] = rgen /\ Compiled(bnd[t]) =>
      arg[t] \cap LateValues = run[bnd[t]].holds \cap LateValues

\* This lasts while the lock is held.
LEMMA WaitStep ==
  ASSUME Base, Unhinted, Answer, WaitInv, NEW t \in Threads, Base', Grows, Others(t),
         CallKernel(t) \/ CallBound(t) \/ OnlyBind(t) \/ Reset(t) \/ Step(t)
  PROVE  WaitInv'
<1>1. KernelInv /\ ThreadsOK /\ SchemaInv /\ TableInv /\ arg[t] \in SUBSET Facts
  BY DEF Base, Answer, ThreadsOK, FieldsOK
<1> SUFFICES ASSUME NEW u \in Threads, pc'[u] = "compile", bgen'[bnd'[u]] = rgen',
                    run'[bnd'[u]] # NoProgram
             PROVE  arg'[u] \cap LateValues = run'[bnd'[u]].holds \cap LateValues
  BY DEF WaitInv, Compiled
<1>2. CASE u # t
  <2>1. pc[u] = "compile" /\ bnd'[u] = bnd[u] /\ arg'[u] = arg[u]
    BY <1>2 DEF Others
  <2>2. bnd[u] \in Bounds /\ bnd[u] \in 1..made /\ Holds(u, bnd[u])
    BY <1>1, <2>1, HasBound, LocksAreHeld DEF Base, ThreadInv, WithBound, Locked, Compiling
  <2>3. ~(pc[t] = "set" /\ bnd[u] = bnd[t])
    <3>1. pc[t] = "set" => Holds(t, bnd[t])
      BY LocksAreHeld DEF Locked, Compiling, Generating
    <3> QED
      BY <1>2, <2>2, <3>1 DEF Base, LockInv
  <2>4. run'[bnd[u]] = run[bnd[u]]
    BY <1>1, <2>2, <2>3, RunStep
  <2>5. bgen[bnd[u]] = rgen
    <3>1. bgen[bnd[u]] = rgen' /\ bgen[bnd[u]] <= rgen /\ rgen <= rgen'
      BY <2>1, <2>2 DEF Grows, Base, KernelInv, FreshInv
    <3>2. bgen[bnd[u]] \in Nat /\ rgen \in Nat
      BY <2>2 DEF Base, KernelInv, CacheOK, BoundsOK
    <3> QED
      BY <3>1, <3>2
  <2> QED
    BY <2>1, <2>4, <2>5 DEF WaitInv, Compiled
<1>3. CASE u = t /\ Lock(t) /\ ~Extras
  <2>1. UNCHANGED <<bgen, rgen, run, arg, bnd>> /\ bnd[t] \in 1..made
    BY <1>1, <1>3, HasBound DEF Lock, cache, bounds, Base, ThreadInv, WithBound
  <2>2. LateValues \subseteq schema
    BY <1>1, <1>3, <2>1 DEF SchemaInv, Compiled
  <2> QED
    BY <1>3, <2>2 DEF Extras
<1>4. CASE u = t /\ Relock(t) /\ BoundFor(arg[t]) = bnd[t]
  <2>1. Bind(arg[t]) /\ run' = run /\ bnd'[t] = BoundFor(arg[t]) /\ arg'[t] = arg[t]
    BY <1>1, <1>4 DEF Relock, Rebound, ThreadsOK, FieldsOK
  <2> QED
    BY <1>1, <1>4, <2>1, BindAgrees
<1> QED
  BY <1>1, <1>2, <1>3, <1>4, CompilingSteps DEF Compiling

\* The program with which a call leaves the lock fits its arguments.
LEMMA LockedRunsRight ==
  ASSUME Base, Unhinted, CodeGuards = {}, Answer, WaitInv, NEW t \in Threads, Step(t),
         pc[t] \in {"compile", "set"}, pc'[t] = "exec", bgen[bnd[t]] = rgen
  PROVE  Fits(run'[bnd[t]], arg[t])
<1>1. bnd[t] \in Bounds /\ bnd[t] \in 1..made
  BY HasBound DEF Base, ThreadInv, WithBound, Locked, Compiling, Generating
<1>2. arg[t] \cap traced[bnd[t]] = hint[bnd[t]] \cap traced[bnd[t]]
  BY DEF Answer, CompileInv, Compiling, Generating
<1>3. CASE Compile(t)
  <2>1. Compiled(bnd[t]) /\ run' = run /\ pc[t] = "compile"
    BY <1>3 DEF Compile, Goto, Base, ThreadsOK
  <2>2. Suits(bnd[t], arg[t])
    BY <1>2, <2>1 DEF WaitInv, Suits
  <2> QED
    BY <1>1, <2>1, <2>2, SuitsFits DEF Answer
<1>4. CASE SetRun(t)
  <2>1. run'[bnd[t]] = plan[t] /\ plan[t] = ProgramOf(bnd[t], arg[t])
    BY <1>1, <1>4 DEF SetRun, Base, PlanInv, Generating, KernelInv, BoundsOK
  <2>2. /\ run'[bnd[t]].needs = traced[bnd[t]] \cup LateValues
        /\ run'[bnd[t]].holds = (hint[bnd[t]] \cap traced[bnd[t]]) \cup (arg[t] \cap LateValues)
    BY <2>1 DEF ProgramOf, Unhinted
  <2>3. arg[t] \cap run'[bnd[t]].needs = run'[bnd[t]].holds
    BY <1>2, <2>2
  <2>4. run'[bnd[t]].holds \subseteq run'[bnd[t]].needs
    BY <2>2
  <2> QED
    BY <2>3, <2>4 DEF Fits, Unhinted
<1> QED
  BY <1>3, <1>4
     DEF Step, TryPrepared, Dispatch, Check, BindSlow, TakeEntry, Publish, Called, CheckExtras,
         Rebind, Test, Lock, Relock, PublishGuards, KeyTail, KeyExtents, Exec, Offer, Goto,
         Base, ThreadsOK

\* LockedCallsFit, for any number of threads and late values.
THEOREM LockedCalls == Unhinted /\ CodeGuards = {} => (Spec => LockedCallsFit)
<1> SUFFICES ASSUME Unhinted, CodeGuards = {} PROVE Spec => LockedCallsFit
  OBVIOUS
<1>1. Spec => [](Base /\ Answer)
  BY AnswerInvariant
<1>2. Init => WaitInv
  BY DEF Init, WaitInv
<1>3. Base /\ Answer /\ WaitInv /\ [Next]_vars => WaitInv'
  <2> SUFFICES ASSUME Base, Answer, WaitInv, [Next]_vars PROVE WaitInv'
    OBVIOUS
  <2>1. ASSUME NEW t \in Threads,
               CallKernel(t) \/ CallBound(t) \/ OnlyBind(t) \/ Reset(t) \/ Step(t)
        PROVE  WaitInv'
    BY <2>1, BaseStep, WaitStep
  <2>2. CASE UNCHANGED vars
    BY <2>2 DEF WaitInv, Compiled, vars, cache, bounds, frame
  <2> QED
    BY <2>1, <2>2 DEF Next, Finished
<1>4. Base /\ Answer /\ WaitInv /\ [Next]_vars =>
        [\A t \in Threads :
           pc[t] \in {"compile", "set"} /\ pc'[t] = "exec" /\ bgen[bnd[t]] = rgen
             => Fits(run'[bnd[t]], arg[t])]_vars
  <2> SUFFICES ASSUME Base, Answer, WaitInv, [Next]_vars, ~UNCHANGED vars,
                      NEW t \in Threads, pc[t] \in {"compile", "set"}, pc'[t] = "exec",
                      bgen[bnd[t]] = rgen
               PROVE  Fits(run'[bnd[t]], arg[t])
    OBVIOUS
  <2>1. PICK u \in Threads :
          CallKernel(u) \/ CallBound(u) \/ OnlyBind(u) \/ Reset(u) \/ Step(u)
    BY DEF Next, Finished
  <2>2. /\ Base' /\ Grows /\ Others(u)
        /\ \A b \in Bounds : Compiled(b) => run'[b] = run[b]
    BY <2>1, BaseStep
  <2>3. u = t
    BY <2>2 DEF Others
  <2>4. Step(t)
    BY <2>1, <2>3
       DEF CallKernel, CallBound, OnlyBind, Reset, Start, Goto, Base, ThreadsOK
  <2> QED
    BY <2>4, LockedRunsRight
<1> QED
  BY <1>1, <1>2, <1>3, <1>4, PTL DEF Spec, LockedCallsFit

=============================================================================
