----------------------------- MODULE SymmMemSync -----------------------------
(***************************************************************************)
(* symm_mem_sync (helion/runtime/triton/dist_utils.py): the barrier that   *)
(* the blocks with one block_id run on all ranks, over signal pads in      *)
(* symmetric memory.                                                       *)
(*                                                                         *)
(* pad[r][s] is the word on rank r that rank s sets and r resets; blocks   *)
(* with another block_id use other words.  Lane s of rank r is the thread  *)
(* that signals rank s and waits for rank s.  The barrier is called        *)
(* MaxRounds times, possibly in several kernels; the flags of a call are   *)
(* tl.constexpr, so they are the same on all ranks.                        *)
(***************************************************************************)
EXTENDS Integers

CONSTANTS
  World,       \* world_size
  MaxRounds,   \* bound on the number of calls
  Previous,    \* the calls with hasPreviousMemAccess
  Subsequent,  \* the calls with hasSubsequentMemAccess
  Launches     \* the calls that are the first of their kernel

ASSUME WorldAssumption == World \in Nat \ {0}
ASSUME RoundsAssumption ==
  /\ MaxRounds \in Nat
  /\ Previous \subseteq 1..MaxRounds
  /\ Subsequent \subseteq 1..MaxRounds
  /\ Launches \subseteq 1..MaxRounds

Ranks == 0..World-1
Rounds == 0..MaxRounds

VARIABLES
  sequential, \* whether this is the ROCm version, with one program order
  round,  \* round[r][s]: the call that lane s of rank r is in, or was in last
  at,     \* at[r][s]: where lane s of rank r is in that call
  pad,    \* the signal words
  note,   \* note[r][s]: the latest data of s that the word pad[r][s] vouches for
  seen    \* seen[r][s]: the latest data of s that the block on r must see

vars == <<sequential, round, at, pad, note, seen>>

(* The data a rank shares in round k is the number k: whatever it wrote    *)
(* before its call k of the barrier.                                       *)

TypeOK ==
  /\ sequential \in BOOLEAN
  /\ round \in [Ranks -> [Ranks -> Rounds]]
  /\ at \in [Ranks -> [Ranks -> {"send", "wait", "done"}]]
  /\ pad \in [Ranks -> [Ranks -> {0, 1}]]
  /\ note \in [Ranks -> [Ranks -> Rounds]]
  /\ seen \in [Ranks -> [Ranks -> Rounds]]

Init ==
  /\ sequential \in BOOLEAN
  /\ round = [r \in Ranks |-> [s \in Ranks |-> 0]]
  /\ at = [r \in Ranks |-> [s \in Ranks |-> "done"]]
  /\ pad = [r \in Ranks |-> [s \in Ranks |-> 0]]
  /\ note = [r \in Ranks |-> [s \in Ranks |-> 0]]
  /\ seen = [r \in Ranks |-> [s \in Ranks |-> 0]]

\* Lane t of rank r is through with call k.
Through(r, t, k) == round[r][t] > k \/ (round[r][t] = k /\ at[r][t] = "done")

\* Every thread of the block on rank r is through with call k.
Passed(r, k) == \A t \in Ranks : Through(r, t, k)

\* Between calls k and k+1 the lanes of a block meet if the first call ends
\* in a tl.debug_barrier, the second one begins with it, a kernel ends in
\* between, or there is a single program order.
Meet(k) == sequential \/ k \in Subsequent \/ k+1 \in Previous \cup Launches

\* Lane s of rank r enters its next call.
Enter(r, s) ==
  /\ at[r][s] = "done" /\ round[r][s] < MaxRounds
  /\ Meet(round[r][s]) => Passed(r, round[r][s])
  /\ round' = [round EXCEPT ![r][s] = @ + 1]
  /\ at' = [at EXCEPT ![r][s] = "send"]
  /\ UNCHANGED <<sequential, pad, note, seen>>

\* In program order, lane s has its turn when the lanes before it have sent.
SendTurn(r, s) ==
  sequential => \A t \in 0..s-1 : round[r][t] = round[r][s] /\ at[r][t] # "send"

\* What a signal of call k vouches for: a release orders the writes before
\* it, and the end of the previous kernel has already published them.
Vouched(k) == IF k \in Previous \cup Launches THEN k ELSE 0

\* Mutant: an atomic add where the code compares and swaps.
Send_Add(r, s) ==
  /\ at[r][s] = "send" /\ SendTurn(r, s)
  /\ pad' = [pad EXCEPT ![s][r] = @ + 1]
  /\ note' = [note EXCEPT ![s][r] = Vouched(round[r][s])]
  /\ at' = [at EXCEPT ![r][s] = "wait"]
  /\ UNCHANGED <<sequential, round, seen>>

\* Mutant: a plain store, which does not wait for the last signal to be taken.
Send_Store(r, s) ==
  /\ at[r][s] = "send" /\ SendTurn(r, s)
  /\ pad' = [pad EXCEPT ![s][r] = 1]
  /\ note' = [note EXCEPT ![s][r] = Vouched(round[r][s])]
  /\ at' = [at EXCEPT ![r][s] = "wait"]
  /\ UNCHANGED <<sequential, round, seen>>

\* Mutant: the signal is always relaxed.
Send_Relaxed(r, s) ==
  /\ at[r][s] = "send" /\ SendTurn(r, s)
  /\ pad[s][r] = 0 /\ pad' = [pad EXCEPT ![s][r] = 1]
  /\ note' = [note EXCEPT ![s][r] = IF round[r][s] \in Launches THEN round[r][s] ELSE 0]
  /\ at' = [at EXCEPT ![r][s] = "wait"]
  /\ UNCHANGED <<sequential, round, seen>>

\* _send_signal: compare-and-swap of the remote word from 0 to 1.
Send(r, s) ==
  /\ at[r][s] = "send" /\ SendTurn(r, s)
  /\ pad[s][r] = 0 /\ pad' = [pad EXCEPT ![s][r] = 1]
  /\ note' = [note EXCEPT ![s][r] = Vouched(round[r][s])]
  /\ at' = [at EXCEPT ![r][s] = "wait"]
  /\ UNCHANGED <<sequential, round, seen>>

WaitTurn(r, s) ==
  sequential =>
    \A t \in Ranks : /\ round[r][t] = round[r][s] /\ at[r][t] # "send"
                     /\ t < s => at[r][t] = "done"

\* Mutant: the wait reads the word and leaves it set.
Wait_Keep(r, s) ==
  /\ at[r][s] = "wait" /\ WaitTurn(r, s)
  /\ pad[r][s] = 1
  /\ seen' = [seen EXCEPT ![r][s] =
                IF round[r][s] \in Subsequent /\ note[r][s] > @ THEN note[r][s] ELSE @]
  /\ at' = [at EXCEPT ![r][s] = "done"]
  /\ UNCHANGED <<sequential, round, pad, note>>

\* Mutant: a compare-and-swap that fails is not tried again.
Wait_Once(r, s) ==
  /\ at[r][s] = "wait" /\ WaitTurn(r, s)
  /\ pad' = [pad EXCEPT ![r][s] = 0]
  /\ at' = [at EXCEPT ![r][s] = "done"]
  /\ UNCHANGED <<sequential, round, note, seen>>

\* _wait_signal: compare-and-swap of the local word from 1 to 0.
Wait(r, s) ==
  /\ at[r][s] = "wait" /\ WaitTurn(r, s)
  /\ pad[r][s] = 1 /\ pad' = [pad EXCEPT ![r][s] = 0]
  /\ seen' = [seen EXCEPT ![r][s] =
                IF round[r][s] \in Subsequent /\ note[r][s] > @ THEN note[r][s] ELSE @]
  /\ at' = [at EXCEPT ![r][s] = "done"]
  /\ UNCHANGED <<sequential, round, note>>

Finished == \A r, s \in Ranks : Through(r, s, MaxRounds)

\* A compare-and-swap that fails is tried again.
Spin(r, s) ==
  /\ \/ at[r][s] = "send" /\ SendTurn(r, s) /\ pad[s][r] # 0
     \/ at[r][s] = "wait" /\ WaitTurn(r, s) /\ pad[r][s] # 1
  /\ UNCHANGED vars

Next ==
  \/ \E r, s \in Ranks : Enter(r, s) \/ Send(r, s) \/ Wait(r, s) \/ Spin(r, s)
  \/ Finished /\ UNCHANGED vars

\* The blocks are resident and the spinning threads are scheduled.
Fairness ==
  \A r, s \in Ranks : WF_vars(Enter(r, s) \/ Send(r, s) \/ Wait(r, s))

Spec == Init /\ [][Next]_vars
FairSpec == Spec /\ Fairness

-----------------------------------------------------------------------------
\* The barrier: a block past call k knows that the matching thread of every
\* other block has entered call k.
NobodyLeavesEarly ==
  \A r, s \in Ranks : \A k \in 1..MaxRounds :
    Passed(r, k) => round[s][r] >= k

\* "Pattern 0" and "Pattern 1": after a call with hasSubsequentMemAccess the
\* block sees what every rank wrote before its own call, if that call has
\* hasPreviousMemAccess or opens a kernel.
DataIsVisible ==
  \A r, s \in Ranks : \A k \in Subsequent \cap (Previous \cup Launches) :
    Passed(r, k) => seen[r][s] >= k

\* "Pattern 2": the reads of call k and before are over on every rank when a
\* block goes on to overwrite its buffer, because the threads of a block meet
\* before they signal.
ReadsAreOver ==
  \A r, s \in Ranks : \A k \in Previous :
    Passed(r, k) => Passed(s, k-1)

\* "a zero-filled signal pad, which resets to a zero-filled state after each
\* successful synchronization"
PadIsReset ==
  (\A r, s \in Ranks : at[r][s] = "done") =>
    \A r, s \in Ranks : pad[r][s] = 0

\* A wait of call k is answered by the signal of call k, never by one left
\* from an earlier call or sent for a later one.
SignalOfThisRound ==
  \A r, s \in Ranks :
    pad[r][s] = 1 /\ at[r][s] = "wait" =>
      /\ round[s][r] >= round[r][s]
      /\ note[r][s] = Vouched(round[r][s])

\* Every call returns on every rank.
EveryoneFinishes == <>Finished
=============================================================================
