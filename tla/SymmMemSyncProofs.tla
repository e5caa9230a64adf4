-------------------------- MODULE SymmMemSyncProofs --------------------------
(***************************************************************************)
(* The barrier is correct for every number of ranks and of calls, every    *)
(* choice of the flags, and both versions of the code.                     *)
(***************************************************************************)
EXTENDS SymmMemSync, TLAPS

USE WorldAssumption, RoundsAssumption

-----------------------------------------------------------------------------
(* The inductive invariant counts the signals on each word.                *)

\* How many signals rank r has sent to rank s, and has consumed from it.
Sent(r, s) == round[r][s] - (IF at[r][s] = "send" THEN 1 ELSE 0)
Consumed(r, s) == round[r][s] - (IF at[r][s] = "done" THEN 0 ELSE 1)

\* A word holds the signal that was sent and not consumed yet.
WordInv == \A r, s \in Ranks : pad[s][r] = Sent(r, s) - Consumed(s, r)

StartedInv == \A r, s \in Ranks : at[r][s] # "done" => round[r][s] >= 1

\* It vouches for the data of the call it was sent in.
NoteInv ==
  \A r, s \in Ranks : pad[s][r] = 1 => note[s][r] = Vouched(Sent(r, s))

\* A lane that is through has acquired what the signal vouches for.
SeenInv ==
  \A r, s \in Ranks : \A k \in Subsequent \cap (Previous \cup Launches) :
    Through(r, s, k) => seen[r][s] >= k

\* No lane runs ahead of a barrier of its block.
MeetInv ==
  \A r, s \in Ranks : \A k \in 1..MaxRounds :
    round[r][s] >= k /\ Meet(k-1) => Passed(r, k-1)

IInv == TypeOK /\ WordInv /\ StartedInv /\ NoteInv /\ SeenInv /\ MeetInv

\* Ranks and rounds are numbers.
LEMMA RanksAndRounds ==
  /\ \A r \in Ranks : r \in Int
  /\ \A k \in Rounds : k \in Nat /\ k <= MaxRounds
  /\ \A k \in 1..MaxRounds : k \in Nat /\ k >= 1 /\ Vouched(k) \in {0, k}
BY DEF Ranks, Rounds, Vouched

\* The types of what two ranks have in common.
LEMMA PairTypes ==
  ASSUME TypeOK, NEW r \in Ranks, NEW s \in Ranks
  PROVE  /\ round[r][s] \in Int /\ round[s][r] \in Int
         /\ round[r][s] >= 0 /\ round[r][s] <= MaxRounds
         /\ pad[r][s] \in {0, 1} /\ at[r][s] \in {"send", "wait", "done"}
         /\ note[r][s] \in Int /\ seen[r][s] \in Int
BY DEF TypeOK, Rounds

\* The word on which rank s signals rank r.
LEMMA PairWord ==
  ASSUME IInv, NEW r \in Ranks, NEW s \in Ranks
  PROVE  /\ pad[r][s] = Sent(s, r) - Consumed(r, s)
         /\ Sent(s, r) >= Consumed(r, s)
         /\ Sent(s, r) \in Int /\ Consumed(r, s) \in Int
<1>1. pad[r][s] = Sent(s, r) - Consumed(r, s) /\ pad[r][s] \in {0, 1}
  BY PairTypes DEF IInv, WordInv
<1>2. Sent(s, r) \in Int /\ Consumed(r, s) \in Int
  BY PairTypes DEF IInv, Sent, Consumed
<1> QED
  BY <1>1, <1>2

\* Before the first call the pads are clear.
LEMMA InitIInv == Init => IInv
<1> SUFFICES ASSUME Init PROVE IInv
  OBVIOUS
<1>1. TypeOK
  BY DEF Init, TypeOK, Rounds
<1>2. WordInv /\ StartedInv /\ NoteInv
  BY DEF Init, WordInv, StartedInv, NoteInv, Sent, Consumed
<1>3. SeenInv
  BY DEF Init, SeenInv, Through
<1>4. MeetInv
  BY DEF Init, MeetInv
<1> QED
  BY <1>1, <1>2, <1>3, <1>4 DEF IInv

\* A lane never goes back.
LEMMA ThroughIsStable ==
  ASSUME TypeOK, NEW r \in Ranks, NEW s \in Ranks,
         Enter(r, s) \/ Send(r, s) \/ Wait(r, s),
         NEW a \in Ranks, NEW b \in Ranks, NEW k \in Int, Through(a, b, k)
  PROVE  Through(a, b, k)'
<1>1. CASE Enter(r, s)
  BY <1>1 DEF TypeOK, Enter, Through, Rounds
<1>2. CASE Send(r, s)
  BY <1>2 DEF TypeOK, Send, Through, Rounds
<1>3. CASE Wait(r, s)
  BY <1>3 DEF TypeOK, Wait, Through, Rounds
<1> QED
  BY <1>1, <1>2, <1>3

\* Entering a call keeps the invariant.
LEMMA EnterIInv ==
  ASSUME IInv, NEW r \in Ranks, NEW s \in Ranks, Enter(r, s)
  PROVE  IInv'
<1> USE DEF IInv
<1>0. /\ round' = [round EXCEPT ![r][s] = @ + 1]
      /\ at' = [at EXCEPT ![r][s] = "send"]
      /\ UNCHANGED <<sequential, pad, note, seen>>
      /\ at[r][s] = "done" /\ round[r][s] < MaxRounds
  BY DEF Enter
<1>1. TypeOK'
  BY <1>0 DEF TypeOK, Rounds
<1>2. \A a, b \in Ranks : /\ Sent(a, b)' = Sent(a, b)
                          /\ Consumed(a, b)' = Consumed(a, b)
  BY <1>0 DEF TypeOK, Rounds, Sent, Consumed
<1>3. WordInv'
  BY <1>0, <1>2 DEF WordInv
<1>4. StartedInv'
  BY <1>0 DEF TypeOK, Rounds, StartedInv
<1>5. NoteInv'
  BY <1>0, <1>2 DEF NoteInv, Vouched
<1>6. SeenInv'
  <2>1. \A a, b \in Ranks : \A k \in 1..MaxRounds :
          Through(a, b, k)' => Through(a, b, k)
    <3> SUFFICES ASSUME NEW a \in Ranks, NEW b \in Ranks, NEW k \in 1..MaxRounds,
                        Through(a, b, k)'
                 PROVE  Through(a, b, k)
      OBVIOUS
    <3>1. CASE a = r /\ b = s
      <4>1. round'[a][b] = round[a][b] + 1 /\ at'[a][b] = "send"
        BY <1>0, <3>1 DEF TypeOK
      <4> QED
        BY <1>0, <3>1, <4>1, PairTypes DEF Through
    <3>2. CASE ~(a = r /\ b = s)
      <4>1. round'[a][b] = round[a][b] /\ at'[a][b] = at[a][b]
        BY <1>0, <3>2 DEF TypeOK
      <4> QED
        BY <4>1 DEF Through
    <3> QED
      BY <3>1, <3>2
  <2> QED
    BY <1>0, <2>1 DEF SeenInv
<1>7. MeetInv'
  <2> SUFFICES ASSUME NEW a \in Ranks, NEW b \in Ranks, NEW k \in 1..MaxRounds,
                      round'[a][b] >= k, Meet(k-1)
               PROVE  Passed(a, k-1)'
    BY <1>0 DEF MeetInv, Meet
  <2>1. Passed(a, k-1)
    <3>1. CASE a = r /\ b = s /\ k = round[r][s] + 1
      BY <3>1 DEF Enter, TypeOK, Rounds
    <3>2. CASE ~(a = r /\ b = s /\ k = round[r][s] + 1)
      <4>1. round[a][b] >= k
        BY <1>0, <3>2 DEF TypeOK, Rounds
      <4> QED
        BY <4>1 DEF MeetInv
    <3> QED
      BY <3>1, <3>2
  <2> QED
    BY <2>1, ThroughIsStable DEF Passed
<1> QED
  BY <1>1, <1>3, <1>4, <1>5, <1>6, <1>7

\* Sending a signal keeps it: one more was sent and lies in the word.
LEMMA SendIInv ==
  ASSUME IInv, NEW r \in Ranks, NEW s \in Ranks, Send(r, s)
  PROVE  IInv'
<1> USE DEF IInv
<1>0. /\ at' = [at EXCEPT ![r][s] = "wait"]
      /\ pad' = [pad EXCEPT ![s][r] = 1]
      /\ note' = [note EXCEPT ![s][r] = Vouched(round[r][s])]
      /\ UNCHANGED <<sequential, round, seen>>
      /\ at[r][s] = "send" /\ pad[s][r] = 0
  BY DEF Send
<1>1. Vouched(round[r][s]) \in Rounds
  BY DEF TypeOK, Vouched, Rounds
<1>2. TypeOK'
  BY <1>0, <1>1 DEF TypeOK
<1>3. /\ \A a, b \in Ranks : Consumed(a, b)' = Consumed(a, b)
      /\ \A a, b \in Ranks : a # r \/ b # s => Sent(a, b)' = Sent(a, b)
      /\ Sent(r, s)' = round[r][s] /\ Sent(r, s) = round[r][s] - 1
  BY <1>0 DEF TypeOK, Rounds, Sent, Consumed
<1>4. WordInv'
  BY <1>0, <1>3 DEF WordInv, TypeOK, Rounds, Consumed
<1>5. StartedInv'
  BY <1>0 DEF TypeOK, StartedInv
<1>6. NoteInv'
  BY <1>0, <1>3 DEF NoteInv, Vouched, TypeOK
<1>7. SeenInv'
  BY <1>0 DEF SeenInv, TypeOK, Through
<1>8. MeetInv'
  BY <1>0, ThroughIsStable DEF MeetInv, Meet, Passed
<1> QED
  BY <1>2, <1>4, <1>5, <1>6, <1>7, <1>8

\* Taking a signal keeps it: one more was consumed and has left the word.
LEMMA WaitIInv ==
  ASSUME IInv, NEW r \in Ranks, NEW s \in Ranks, Wait(r, s)
  PROVE  IInv'
<1> USE DEF IInv
<1> DEFINE k == round[r][s]
           fresh == IF k \in Subsequent /\ note[r][s] > seen[r][s]
                      THEN note[r][s] ELSE seen[r][s]
<1>0. /\ at' = [at EXCEPT ![r][s] = "done"]
      /\ pad' = [pad EXCEPT ![r][s] = 0]
      /\ seen' = [seen EXCEPT ![r][s] = fresh]
      /\ UNCHANGED <<sequential, round, note>>
      /\ at[r][s] = "wait" /\ pad[r][s] = 1
  BY DEF Wait
<1>1. fresh \in Rounds
  BY DEF TypeOK
<1>2. TypeOK'
  BY <1>0, <1>1 DEF TypeOK
<1>3. /\ \A a, b \in Ranks : Sent(a, b)' = Sent(a, b)
      /\ \A a, b \in Ranks : a # r \/ b # s => Consumed(a, b)' = Consumed(a, b)
      /\ Consumed(r, s)' = k /\ Consumed(r, s) = k - 1
  BY <1>0 DEF TypeOK, Rounds, Sent, Consumed
<1>4. WordInv'
  BY <1>0, <1>3 DEF WordInv, TypeOK, Rounds, Sent
<1>5. StartedInv'
  BY <1>0 DEF TypeOK, StartedInv
<1>6. NoteInv'
  BY <1>0, <1>3 DEF NoteInv, Vouched, TypeOK
<1>7. SeenInv'
  <2>1. Sent(s, r) = k
    <3>1. pad[r][s] = Sent(s, r) - Consumed(r, s) /\ Sent(s, r) \in Int
      BY PairWord
    <3>2. k \in Int
      BY PairTypes
    <3> QED
      BY <1>0, <1>3, <3>1, <3>2
  <2>2. note[r][s] = Vouched(k)
    BY <1>0, <2>1 DEF NoteInv
  <2> SUFFICES ASSUME NEW a \in Ranks, NEW b \in Ranks,
                      NEW j \in Subsequent \cap (Previous \cup Launches),
                      Through(a, b, j)'
               PROVE  seen'[a][b] >= j
    BY DEF SeenInv
  <2>3. CASE a = r /\ b = s /\ j = k
    BY <1>0, <2>2, <2>3 DEF TypeOK, Rounds, Vouched
  <2>4. CASE ~(a = r /\ b = s /\ j = k)
    <3>1. Through(a, b, j)
      BY <1>0, <2>4 DEF TypeOK, Rounds, Through
    <3>2. seen[a][b] >= j
      BY <3>1 DEF SeenInv
    <3> QED
      BY <1>0, <3>2 DEF TypeOK, Rounds
  <2> QED
    BY <2>3, <2>4
<1>8. MeetInv'
  BY <1>0, ThroughIsStable DEF MeetInv, Meet, Passed
<1> QED
  BY <1>2, <1>4, <1>5, <1>6, <1>7, <1>8

\* Every step keeps the invariant.
LEMMA NextIInv == IInv /\ [Next]_vars => IInv'
<1> SUFFICES ASSUME IInv, [Next]_vars PROVE IInv'
  OBVIOUS
<1>1. ASSUME NEW r \in Ranks, NEW s \in Ranks,
             Enter(r, s) \/ Send(r, s) \/ Wait(r, s)
      PROVE  IInv'
  BY <1>1, EnterIInv, SendIInv, WaitIInv
<1>2. CASE UNCHANGED vars
  BY <1>2 DEF vars, IInv, TypeOK, WordInv, StartedInv, NoteInv, SeenInv,
              MeetInv, Sent, Consumed, Through, Passed, Meet, Vouched
<1> QED
  BY <1>1, <1>2 DEF Next, Spin

\* The inductive invariant holds at all times.
THEOREM InductiveInvariant == Spec => []IInv
BY InitIInv, NextIInv, PTL DEF Spec

-----------------------------------------------------------------------------
(* The theorems.                                                           *)

\* The types; in particular a signal word is 0 or 1 (the CAS spin's values).
THEOREM BarrierTypes == Spec => []TypeOK
<1>1. IInv => TypeOK
  BY DEF IInv
<1> QED
  BY <1>1, InductiveInvariant, PTL

\* A block past call k knows that every other block has entered it.
THEOREM BarrierIsSafe == Spec => []NobodyLeavesEarly
<1>1. IInv => NobodyLeavesEarly
  <2> SUFFICES ASSUME IInv, NEW r \in Ranks, NEW s \in Ranks,
                      NEW k \in 1..MaxRounds, Passed(r, k)
               PROVE  round[s][r] >= k
    BY DEF NobodyLeavesEarly
  <2>1. Through(r, s, k)
    BY DEF Passed
  <2> QED
    <3>1. /\ round[r][s] \in Int /\ round[s][r] \in Int
          /\ Sent(s, r) >= Consumed(r, s)
      BY PairWord, PairTypes DEF IInv
    <3> QED
      BY <2>1, <3>1 DEF Sent, Consumed, Through
<1> QED
  BY <1>1, InductiveInvariant, PTL

\* Patterns 0 and 1: after the barrier every rank's data is visible.
THEOREM BarrierPublishes == Spec => []DataIsVisible
<1>1. IInv => DataIsVisible
  BY DEF IInv, DataIsVisible, SeenInv, Passed
<1> QED
  BY <1>1, InductiveInvariant, PTL

\* Pattern 2: after the barrier no rank still reads what it read before it.
THEOREM BarrierProtectsReads == Spec => []ReadsAreOver
<1>1. IInv /\ NobodyLeavesEarly => ReadsAreOver
  <2> SUFFICES ASSUME IInv, NobodyLeavesEarly, NEW r \in Ranks, NEW s \in Ranks,
                      NEW k \in Previous, Passed(r, k)
               PROVE  Passed(s, k-1)
    BY DEF ReadsAreOver
  <2>1. k \in 1..MaxRounds /\ Meet(k-1)
    BY DEF Meet
  <2>2. round[s][r] >= k
    BY <2>1 DEF NobodyLeavesEarly
  <2> QED
    BY <2>1, <2>2 DEF IInv, MeetInv
<1> QED
  BY <1>1, BarrierIsSafe, InductiveInvariant, PTL

\* Between calls all signal words are zero.
THEOREM BarrierResetsThePad == Spec => []PadIsReset
<1>1. IInv => PadIsReset
  <2> SUFFICES ASSUME IInv, \A r, s \in Ranks : at[r][s] = "done",
                      NEW r \in Ranks, NEW s \in Ranks
               PROVE  pad[r][s] = 0
    BY DEF PadIsReset
  <2>1. pad[r][s] = round[s][r] - round[r][s]
    <3>1. pad[r][s] = Sent(s, r) - Consumed(r, s)
      BY PairWord
    <3> QED
      BY <3>1, PairTypes DEF IInv, Sent, Consumed
  <2>2. pad[s][r] = round[r][s] - round[s][r]
    <3>1. pad[s][r] = Sent(r, s) - Consumed(s, r)
      BY PairWord
    <3> QED
      BY <3>1, PairTypes DEF IInv, Sent, Consumed
  <2> QED
    BY <2>1, <2>2, PairTypes DEF IInv
<1> QED
  BY <1>1, InductiveInvariant, PTL

\* A wait consumes the signal of its own call.
THEOREM SignalsDoNotCrossCalls == Spec => []SignalOfThisRound
<1>1. IInv => SignalOfThisRound
  <2> SUFFICES ASSUME IInv, NEW r \in Ranks, NEW s \in Ranks,
                      pad[r][s] = 1, at[r][s] = "wait"
               PROVE  /\ round[s][r] >= round[r][s]
                      /\ note[r][s] = Vouched(round[r][s])
    BY DEF SignalOfThisRound
  <2>1. Sent(s, r) = round[r][s]
    BY PairWord, PairTypes DEF IInv, Consumed
  <2> QED
    <3>1. note[r][s] = Vouched(Sent(s, r))
      BY DEF IInv, NoteInv
    <3>2. round[s][r] \in Int
      BY PairTypes DEF IInv
    <3> QED
      BY <2>1, <3>1, <3>2 DEF Sent
<1> QED
  BY <1>1, InductiveInvariant, PTL
=============================================================================
