----------------------------- MODULE KernelBind -----------------------------
(***************************************************************************)
(* One Kernel and its BoundKernels (helion/runtime/kernel.py), called and  *)
(* reset from several threads: bind, the prepared call and the dispatch    *)
(* cache of Kernel.__call__, the first compilation of a BoundKernel, the   *)
(* facts that only tracing or code generation finds a program to depend    *)
(* on, and reset.                                                          *)
(*                                                                         *)
(* All calls have the same base signature.  An argument list is the set of *)
(* the facts that hold of it; its key under a schema S, a set of facts the *)
(* extractors ask for, is its intersection with S.  A block under          *)
(* _bind_lock is one step; whatever is read outside it is a step before.   *)
(* The configuration is fixed, and no fact is a reusable storage property. *)
(***************************************************************************)
EXTENDS Integers, Sequences, FiniteSets

CONSTANTS
  Threads,
  Metadata,    \* facts that shape, stride, dtype and device settle
  Early,       \* facts _specialize_extra finds in every tracing
  TraceGuards, \* guard facts that tracing may record
  CodeGuards,  \* guard facts that code generation may record
  LateValues,  \* late specialisations of which a program follows the call
  LateHints,   \* late specialisations of which it follows the bind-time hint
  ArgLists,    \* the argument lists of the calls
  MaxCalls,    \* bound on the calls of the kernel, of bind and of reset
  MaxResets,   \* bound on the number of reset()
  MaxBounds    \* bound on the number of BoundKernels

Guards == TraceGuards \cup CodeGuards
Late == LateValues \cup LateHints
Facts == Metadata \cup Early \cup Guards \cup Late

ASSUME FactsAssumption ==
  /\ Early \cap (Guards \cup Late) = {} /\ Guards \cap Late = {}
  /\ TraceGuards \cap CodeGuards = {} /\ LateValues \cap LateHints = {}
  /\ Guards \cup LateHints \subseteq Metadata
  /\ ArgLists \subseteq SUBSET Facts
ASSUME BoundsAssumption ==
  MaxCalls \in Nat /\ MaxResets \in Nat /\ MaxBounds \in Nat

Bounds == 1..MaxBounds
None == 0

VARIABLES
  \* --- fields of the Kernel
  schema,    \* _specialize_extra of the signature, {} if unpublished
  sgen,      \* _specialization_generation
  rgen,      \* _reset_generation
  table,     \* _bound_kernels
  dispatch,  \* _dispatch_cache
  prepared,  \* _prepared_call
  \* --- fields of the BoundKernels
  made,      \* how many were constructed
  bgen,      \* _reset_generation
  hint,      \* the arguments it was constructed with
  traced,    \* the facts its tracing depends on
  run,       \* _run
  direct,    \* _direct_prepared_call
  calls,     \* how many of the MaxCalls were made
  \* --- each thread
  pc, arg,
  bnd,       \* self in BoundKernel.__call__
  outer,     \* bound in Kernel.__call__, None if the caller holds a bound
  entry,     \* fast_entry
  plan,      \* the program being generated
  held,      \* the _first_compile_locks it holds, innermost last
  \* --- history
  misused    \* ways in which a program ran for arguments it does not fit

cache == <<schema, sgen, rgen, table, dispatch, prepared>>
bounds == <<made, bgen, hint, traced>>
frame == <<calls, arg, bnd, outer, entry, plan, held>>
vars == <<cache, bounds, run, direct, pc, frame, misused>>

Programs == [needs : SUBSET Facts, holds : SUBSET Facts]
NoProgram == [needs |-> {}, holds |-> {"no program"}]
Entries == [sgen : Nat, guards : SUBSET Facts, key : SUBSET Facts]
NoEntry == [sgen |-> 0, guards |-> {}, key |-> {}]
Prepareds == [bound : Bounds, sgen : Nat, rgen : 0..MaxResets,
              guards : SUBSET Facts, key : SUBSET Facts]
NoPrepared == [bound |-> None, sgen |-> 0, rgen |-> 0, guards |-> {}, key |-> {}]

PCs == {"idle", "prepared", "dispatch", "check", "bind", "called", "extras",
        "rebind", "test", "lock", "relock", "compile", "guards",
        "tail", "extents", "set", "exec", "offer", "entry", "publish"}

TypeOK ==
  /\ schema \subseteq Facts /\ sgen \in Nat /\ rgen \in 0..MaxResets
  /\ table \subseteq [key : SUBSET Facts, bound : Bounds]
  /\ \A e, f \in table : e.key = f.key => e = f
  /\ dispatch \subseteq [guards : SUBSET Facts, key : SUBSET Facts, bound : Bounds]
  /\ \A d, e \in dispatch : d.guards = e.guards /\ d.key = e.key => d = e
  /\ prepared \in Prepareds \cup {NoPrepared}
  /\ made \in 0..MaxBounds
  /\ bgen \in [Bounds -> 0..MaxResets]
  /\ hint \in [Bounds -> SUBSET Facts] /\ traced \in [Bounds -> SUBSET Facts]
  /\ run \in [Bounds -> Programs \cup {NoProgram}]
  /\ direct \in [Bounds -> Prepareds \cup {NoPrepared}]
  /\ pc \in [Threads -> PCs] /\ calls \in 0..MaxCalls
  /\ arg \in [Threads -> SUBSET Facts]
  /\ bnd \in [Threads -> 0..MaxBounds] /\ outer \in [Threads -> 0..MaxBounds]
  /\ entry \in [Threads -> Entries]
  /\ plan \in [Threads -> Programs \cup {NoProgram}]
  /\ held \in [Threads -> Seq(Bounds)]
  /\ misused \subseteq {"fast", "slow", "bound"}

Init ==
  /\ schema = {} /\ sgen = 0 /\ rgen = 0
  /\ table = {} /\ dispatch = {} /\ prepared = NoPrepared
  /\ made = 0 /\ bgen = [b \in Bounds |-> 0]
  /\ hint = [b \in Bounds |-> {}] /\ traced = [b \in Bounds |-> {}]
  /\ run = [b \in Bounds |-> NoProgram]
  /\ direct = [b \in Bounds |-> NoPrepared]
  /\ pc = [t \in Threads |-> "idle"] /\ calls = 0
  /\ arg = [t \in Threads |-> {}] /\ bnd = [t \in Threads |-> None]
  /\ outer = [t \in Threads |-> None] /\ entry = [t \in Threads |-> NoEntry]
  /\ plan = [t \in Threads |-> NoProgram] /\ held = [t \in Threads |-> <<>>]
  /\ misused = {}

-----------------------------------------------------------------------------
(* Keys and programs.                                                      *)

Goto(t, l) == pc' = [pc EXCEPT ![t] = l]

\* _has_specialization_extras
Extras == schema # {}

\* The key of argument list a: its facts under the published schema.
KeyOf(a) == a \cap schema

Compiled(b) == run[b] # NoProgram

\* A program fits the arguments that agree with it on the facts it needs; one
\* sized for a hint also covers smaller extents.
Fits(program, a) ==
  LET exact == program.needs \ LateHints IN
  /\ a \cap exact = program.holds \cap exact
  /\ a \cap program.needs \subseteq program.holds

\* Mutant: the published facts are not part of the fast key.
FastEntry_Metadata(a) == [sgen |-> sgen, guards |-> {}, key |-> a \cap Metadata]

\* _fast_dispatch_key_and_guards: exact metadata, and the published facts.
FastEntry(a) ==
  [sgen |-> sgen, guards |-> schema, key |-> a \cap (schema \cup Metadata)]

\* _PreparedCall.matches
Matches(p, a) ==
  /\ p.bound # None
  /\ p.rgen = rgen /\ p.sgen = sgen
  /\ a \cap (p.guards \cup Metadata) = p.key

\* Mutant: the generation of the BoundKernel is not compared.
Publishable_Old(b, e) == e.sgen = sgen

\* _prepare_dispatch_entry: whether it yields a prepared call, and which.
Publishable(b, e) == e.sgen = sgen /\ bgen[b] = rgen
PreparedFor(b, e) ==
  [bound |-> b, sgen |-> sgen, rgen |-> rgen, guards |-> e.guards, key |-> e.key]

\* The dispatch mapping of entry e to bound b.
Mapping(e, b) == [guards |-> e.guards, key |-> e.key, bound |-> b]

\* _bound_kernels.get(cache_key)
Hits(a) == {e.bound : e \in {x \in table : x.key = KeyOf(a)}}

\* What bind(a) returns: a cached BoundKernel, or the next one constructed.
BoundFor(a) == IF Hits(a) = {} THEN made + 1 ELSE CHOOSE b \in Hits(a) : TRUE

\* _publish_guard_facts for the facts F: every cached bound is keyed by what
\* held of its own bind-time arguments, known being the schema so far.
PublishGuardFacts(F, known, entries, hints) ==
  LET new == F \ known IN
  /\ schema' = known \cup F
  /\ table' = {[e EXCEPT !.key = @ \cup (hints[e.bound] \cap new)] : e \in entries}
  /\ IF new = {}
     THEN UNCHANGED <<sgen, dispatch, prepared>>
     ELSE sgen' = sgen + 1 /\ dispatch' = {} /\ prepared' = NoPrepared

\* Mutant: the cache is not looked up under the lock.
Bind_Blind(a) ==
  LET b == made + 1
      known == schema \cup Early
  IN
  /\ b \in Bounds
  /\ made' = b
  /\ bgen' = [bgen EXCEPT ![b] = rgen]
  /\ hint' = [hint EXCEPT ![b] = a]
  /\ traced' = [traced EXCEPT ![b] = Early]
  /\ PublishGuardFacts({}, known, table \cup {[key |-> a \cap known, bound |-> b]}, hint')
  /\ UNCHANGED rgen

\* bind(a): Kernel._bind under _bind_lock.  A new bound publishes the schema
\* of the signature if it is the first, and the guard facts of its tracing.
Bind(a) ==
  /\ IF Hits(a) # {}
     THEN UNCHANGED <<schema, sgen, table, dispatch, prepared, bounds>>
     ELSE LET b == made + 1
              known == schema \cup Early
          IN
          /\ b \in Bounds
          /\ \E recorded \in SUBSET TraceGuards :
               /\ made' = b
               /\ bgen' = [bgen EXCEPT ![b] = rgen]
               /\ hint' = [hint EXCEPT ![b] = a]
               /\ traced' = [traced EXCEPT ![b] = Early \cup recorded]
               /\ PublishGuardFacts(recorded, known,
                    table \cup {[key |-> a \cap known, bound |-> b]}, hint')
  /\ UNCHANGED rgen

-----------------------------------------------------------------------------
(* Kernel.__call__: the two fast paths, bind, and what follows the call.   *)

\* The program of b runs for the arguments of t.
Runs(t, b, path) ==
  misused' = IF Fits(run[b], arg[t]) THEN misused ELSE misused \cup {path}

\* The call is over.
Over(t) == Goto(t, "idle") /\ arg' = [arg EXCEPT ![t] = {}]

\* BoundKernel.__call__ returns, and releases every lock of its callers in it.
Returned(t) ==
  /\ held' = [held EXCEPT ![t] = <<>>]
  /\ bnd' = [bnd EXCEPT ![t] = None]
  /\ entry' = [entry EXCEPT ![t] = NoEntry]
  /\ IF outer[t] = None THEN Over(t) ELSE Goto(t, "entry") /\ UNCHANGED arg

\* A thread calls the kernel, or a BoundKernel it was given by bind.
Start(t) ==
  /\ pc[t] = "idle" /\ calls < MaxCalls
  /\ calls' = calls + 1
  /\ UNCHANGED <<run, direct, outer, entry, plan, held, misused>>

CallKernel(t) ==
  \E a \in ArgLists :
    /\ Start(t) /\ Goto(t, "prepared")
    /\ arg' = [arg EXCEPT ![t] = a]
    /\ UNCHANGED <<cache, bounds, bnd>>

CallBound(t) ==
  \E a \in ArgLists, b \in 1..made :
    /\ Start(t) /\ Goto(t, "called")
    /\ arg' = [arg EXCEPT ![t] = a]
    /\ bnd' = [bnd EXCEPT ![t] = b]
    /\ UNCHANGED <<cache, bounds>>

OnlyBind(t) ==
  \E a \in ArgLists : Start(t) /\ Bind(a) /\ UNCHANGED <<pc, arg, bnd>>

\* reset()
Reset(t) ==
  /\ pc[t] = "idle" /\ calls < MaxCalls /\ rgen < MaxResets
  /\ calls' = calls + 1
  /\ schema' = {} /\ sgen' = sgen + 1 /\ rgen' = rgen + 1
  /\ table' = {} /\ dispatch' = {} /\ prepared' = NoPrepared
  /\ UNCHANGED <<bounds, run, direct, pc, arg, bnd, outer, entry, plan, held, misused>>

\* if the prepared call matches: run its bound
TryPrepared(t) ==
  /\ pc[t] = "prepared"
  /\ IF Matches(prepared, arg[t]) /\ Compiled(prepared.bound)
     THEN Runs(t, prepared.bound, "fast") /\ Over(t)
     ELSE Goto(t, "dispatch") /\ UNCHANGED <<arg, misused>>
  /\ UNCHANGED <<cache, bounds, run, direct, calls, bnd, outer, entry, plan, held>>

\* bound = _dispatch_cache.get(fast_key), without a lock
Dispatch(t) ==
  /\ pc[t] = "dispatch"
  /\ LET e == FastEntry(arg[t])
         found == {b \in Bounds : Mapping(e, b) \in dispatch /\ Compiled(b)} IN
     IF found = {}
     THEN Goto(t, "bind") /\ UNCHANGED <<bnd, entry>>
     ELSE /\ entry' = [entry EXCEPT ![t] = e]
          /\ \E b \in found : bnd' = [bnd EXCEPT ![t] = b]
          /\ Goto(t, "check")
  /\ UNCHANGED <<cache, bounds, run, direct, calls, arg, outer, plan, held, misused>>

\* the check under _bind_lock that the mapping is still current
Check(t) ==
  /\ pc[t] = "check"
  /\ IF Mapping(entry[t], bnd[t]) \in dispatch /\ Publishable(bnd[t], entry[t])
     THEN /\ prepared' = PreparedFor(bnd[t], entry[t])
          /\ Runs(t, bnd[t], "fast") /\ Over(t)
     ELSE Goto(t, "bind") /\ UNCHANGED <<prepared, arg, misused>>
  /\ bnd' = [bnd EXCEPT ![t] = None]
  /\ entry' = [entry EXCEPT ![t] = NoEntry]
  /\ UNCHANGED <<schema, sgen, rgen, table, dispatch, bounds, run, direct,
                 calls, outer, plan, held>>

\* bound = self.bind(args)
BindSlow(t) ==
  /\ pc[t] = "bind"
  /\ Bind(arg[t])
  /\ bnd' = [bnd EXCEPT ![t] = BoundFor(arg[t])]
  /\ outer' = [outer EXCEPT ![t] = BoundFor(arg[t])]
  /\ Goto(t, "called")
  /\ UNCHANGED <<run, direct, calls, arg, entry, plan, held, misused>>

\* fast_entry = self._fast_dispatch_key_and_guards(args), after the call
TakeEntry(t) ==
  /\ pc[t] = "entry"
  /\ entry' = [entry EXCEPT ![t] = FastEntry(arg[t])]
  /\ Goto(t, "publish")
  /\ UNCHANGED <<cache, bounds, run, direct, calls, arg, bnd, outer, plan, held, misused>>

\* the update of both fast paths under _bind_lock: with extras the arguments
\* are bound again, and a BoundKernel this constructs has no program yet
Publish(t) ==
  /\ pc[t] = "publish"
  /\ IF Extras /\ Hits(arg[t]) = {}
     THEN Bind(arg[t])
     ELSE LET b == IF Extras THEN BoundFor(arg[t]) ELSE outer[t]
              e == entry[t] IN
          /\ IF Compiled(b) /\ Publishable(b, e)
             THEN /\ dispatch' = {d \in dispatch : d.guards # e.guards \/ d.key # e.key}
                                 \cup {Mapping(e, b)}
                  /\ prepared' = PreparedFor(b, e)
             ELSE UNCHANGED <<dispatch, prepared>>
          /\ UNCHANGED <<schema, sgen, rgen, table, bounds>>
  /\ Over(t)
  /\ entry' = [entry EXCEPT ![t] = NoEntry]
  /\ outer' = [outer EXCEPT ![t] = None]
  /\ UNCHANGED <<run, direct, calls, bnd, plan, held, misused>>

-----------------------------------------------------------------------------
(* BoundKernel.__call__                                                    *)

\* the generation check and the prepared direct call
Called(t) ==
  /\ pc[t] = "called"
  /\ LET b == bnd[t] IN
     IF bgen[b] # rgen
     THEN Goto(t, "rebind") /\ UNCHANGED <<arg, bnd, entry, held, misused>>
     ELSE IF direct[b].bound = b /\ Matches(direct[b], arg[t]) /\ Compiled(b)
     THEN Runs(t, b, "fast") /\ Returned(t)
     ELSE Goto(t, "extras") /\ UNCHANGED <<arg, bnd, entry, held, misused>>
  /\ UNCHANGED <<cache, bounds, run, direct, calls, outer, plan>>

\* if kernel._has_specialization_extras: bind again
CheckExtras(t) ==
  /\ pc[t] = "extras"
  /\ Goto(t, IF Extras THEN "rebind" ELSE "test")
  /\ UNCHANGED <<cache, bounds, run, direct, frame, misused>>

\* rebound = kernel.bind(args): call that one instead, if it is another; own
\* is where the call of the same BoundKernel goes on
Rebound(t, own) ==
  /\ Bind(arg[t])
  /\ LET b == BoundFor(arg[t]) IN
     /\ bnd' = [bnd EXCEPT ![t] = b]
     /\ Goto(t, IF b # bnd[t] THEN "called" ELSE own)
  /\ UNCHANGED <<run, direct, calls, arg, outer, entry, plan, held, misused>>

Rebind(t) == pc[t] = "rebind" /\ Rebound(t, "test")

\* if self._run is None
Test(t) ==
  /\ pc[t] = "test"
  /\ Goto(t, IF Compiled(bnd[t]) THEN "exec" ELSE "lock")
  /\ UNCHANGED <<cache, bounds, run, direct, frame, misused>>

Holds(t, b) == \E i \in DOMAIN held[t] : held[t][i] = b

\* with self._first_compile_lock, an RLock: "Another caller may have
\* discovered a late specialization while this caller waited for the first
\* compile."
Lock(t) ==
  /\ pc[t] = "lock"
  /\ \A u \in Threads \ {t} : ~Holds(u, bnd[t])
  /\ held' = [held EXCEPT ![t] = Append(@, bnd[t])]
  /\ Goto(t, IF Extras THEN "relock" ELSE "compile")
  /\ UNCHANGED <<cache, bounds, run, direct, calls, arg, bnd, outer, entry, plan, misused>>

Relock(t) == pc[t] = "relock" /\ Rebound(t, "compile")

Unlock(t) == held' = [held EXCEPT ![t] = SubSeq(@, 1, Len(@) - 1)]

\* Mutant: _run is not tested again under the lock.
Compile_Again(t) ==
  /\ pc[t] = "compile"
  /\ LET b == bnd[t]
         hinted == traced[b] \cup CodeGuards \cup LateHints IN
     plan' = [plan EXCEPT ![t] =
       [needs |-> hinted \cup LateValues,
        holds |-> (hint[b] \cap hinted) \cup (arg[t] \cap LateValues)]]
  /\ Goto(t, "guards")
  /\ UNCHANGED <<cache, bounds, run, direct, calls, arg, bnd, outer, entry, held, misused>>

\* set_config of the given config: code is generated for the bind-time hints
\* and, where it reads runtime arguments, for those of this call
Compile(t) ==
  /\ pc[t] = "compile"
  /\ IF Compiled(bnd[t])
     THEN Unlock(t) /\ Goto(t, "exec") /\ UNCHANGED plan
     ELSE /\ LET b == bnd[t]
                 hinted == traced[b] \cup CodeGuards \cup LateHints IN
             plan' = [plan EXCEPT ![t] =
               [needs |-> hinted \cup LateValues,
                holds |-> (hint[b] \cap hinted) \cup (arg[t] \cap LateValues)]]
          /\ Goto(t, "guards") /\ UNCHANGED held
  /\ UNCHANGED <<cache, bounds, run, direct, calls, arg, bnd, outer, entry, misused>>

\* _publish_guarded_input_facts, at the end of code generation
PublishGuards(t) ==
  /\ pc[t] = "guards"
  /\ IF bgen[bnd[t]] = rgen
     THEN PublishGuardFacts(plan[t].needs \cap Guards, schema, table, hint)
     ELSE UNCHANGED <<schema, sgen, table, dispatch, prepared>>
  /\ Goto(t, "tail")
  /\ UNCHANGED <<rgen, bounds, run, direct, frame, misused>>

\* Mutant: the bound is keyed by its bind-time arguments.
Extend_ByHint(t, F) ==
  /\ IF bgen[bnd[t]] = rgen /\ ~(F \subseteq schema)
     THEN /\ schema' = schema \cup F
          /\ sgen' = sgen + 1
          /\ table' = {[key |-> hint[bnd[t]] \cap schema', bound |-> bnd[t]]}
          /\ dispatch' = {} /\ prepared' = NoPrepared
     ELSE UNCHANGED <<schema, sgen, table, dispatch, prepared>>
  /\ UNCHANGED <<rgen, bounds, run, direct, frame, misused>>

\* _extend_bound_kernel_specializations with the facts F that are not keyed
\* yet: every key of the signature is dropped, and the bound is keyed by what
\* holds of the arguments of this call.
Extend(t, F) ==
  /\ IF bgen[bnd[t]] = rgen /\ ~(F \subseteq schema)
     THEN /\ schema' = schema \cup F
          /\ sgen' = sgen + 1
          /\ table' = {[key |-> arg[t] \cap schema', bound |-> bnd[t]]}
          /\ dispatch' = {} /\ prepared' = NoPrepared
     ELSE UNCHANGED <<schema, sgen, table, dispatch, prepared>>
  /\ UNCHANGED <<rgen, bounds, run, direct, frame, misused>>

\* _register_cute_grouped_static_tail_specializations
KeyTail(t) ==
  pc[t] = "tail" /\ Extend(t, plan[t].needs \cap LateValues) /\ Goto(t, "extents")

\* _register_cute_reduction_extent_specializations
KeyExtents(t) ==
  pc[t] = "extents" /\ Extend(t, plan[t].needs \cap LateHints) /\ Goto(t, "set")

\* self._run = the compiled config; the lock is released
SetRun(t) ==
  /\ pc[t] = "set"
  /\ run' = [run EXCEPT ![bnd[t]] = plan[t]]
  /\ plan' = [plan EXCEPT ![t] = NoProgram]
  /\ Unlock(t) /\ Goto(t, "exec")
  /\ UNCHANGED <<cache, bounds, direct, calls, arg, bnd, outer, entry, misused>>

\* result = self._run(*args), and the entry of _prepare_direct_call
Exec(t) ==
  /\ pc[t] = "exec"
  /\ Runs(t, bnd[t], IF outer[t] = None THEN "bound" ELSE "slow")
  /\ IF Extras
     THEN /\ entry' = [entry EXCEPT ![t] = FastEntry(arg[t])]
          /\ Goto(t, "offer") /\ UNCHANGED <<arg, bnd, held>>
     ELSE Returned(t)
  /\ UNCHANGED <<cache, bounds, run, direct, calls, outer, plan>>

\* _prepare_direct_call, under _bind_lock
Offer(t) ==
  /\ pc[t] = "offer"
  /\ LET b == bnd[t] IN
     IF bgen[b] = rgen
     THEN /\ Bind(arg[t])
          /\ direct' = IF BoundFor(arg[t]) = b /\ Publishable(b, entry[t])
                       THEN [direct EXCEPT ![b] = PreparedFor(b, entry[t])]
                       ELSE direct
     ELSE UNCHANGED <<cache, bounds, direct>>
  /\ Returned(t)
  /\ UNCHANGED <<run, calls, outer, plan, misused>>

-----------------------------------------------------------------------------
(* The system.                                                             *)

\* What a thread does inside a call.
Step(t) ==
  \/ TryPrepared(t) \/ Dispatch(t) \/ Check(t) \/ BindSlow(t)
  \/ TakeEntry(t) \/ Publish(t)
  \/ Called(t) \/ CheckExtras(t) \/ Rebind(t) \/ Test(t)
  \/ Lock(t) \/ Relock(t)
  \/ Compile(t) \/ PublishGuards(t) \/ KeyTail(t) \/ KeyExtents(t) \/ SetRun(t)
  \/ Exec(t) \/ Offer(t)

Finished ==
  /\ \A t \in Threads : pc[t] = "idle"
  /\ calls = MaxCalls
  /\ UNCHANGED vars

Next ==
  \/ \E t \in Threads :
       CallKernel(t) \/ CallBound(t) \/ OnlyBind(t) \/ Reset(t) \/ Step(t)
  \/ Finished

Spec == Init /\ [][Next]_vars
-----------------------------------------------------------------------------
(* Properties.                                                             *)

\* Neither the prepared call, nor the dispatch cache, nor the prepared call of
\* a BoundKernel ever runs a program for arguments it was not specialised for.
FastPathIsRight == "fast" \notin misused

\* A call of the Kernel never runs a program that does not fit its arguments.
KernelCallsAreRight == misused \cap {"fast", "slow"} = {}

\* Whatever a cache would answer for any arguments is right: a program found
\* under their key fits them, also where a late specialisation, a guard fact or
\* a reset came between computing a key and publishing under it.
Answers(a) ==
  Hits(a) \cup {b \in Bounds :
    \/ Mapping(FastEntry(a), b) \in dispatch
    \/ prepared.bound = b /\ Matches(prepared, a)
    \/ bgen[b] = rgen /\ Matches(direct[b], a)}

CachesAnswerRight ==
  \A a \in SUBSET Facts : \A b \in Answers(a) : Compiled(b) => Fits(run[b], a)

\* "Clears the cache of bound kernels, meaning subsequent calls will recompile":
\* a call that was under way when reset() ran puts nothing back.
NothingSurvivesReset ==
  /\ \A e \in table \cup dispatch : bgen[e.bound] = rgen
  /\ prepared # NoPrepared => prepared.rgen = rgen /\ bgen[prepared.bound] = rgen

\* A BoundKernel is compiled once.
CompiledOnce == [][\A b \in Bounds : Compiled(b) => run'[b] = run[b]]_vars
=============================================================================
