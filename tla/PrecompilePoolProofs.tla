------------------------ MODULE PrecompilePoolProofs ------------------------
(***************************************************************************)
(* Proofs about PrecompilePool, for every number of futures and of jobs:   *)
(* the types, the concurrency cap, that nothing is left behind, that no    *)
(* error to be raised is swallowed, and that verdicts are right.           *)
(***************************************************************************)
EXTENDS PrecompilePool, FiniteSetTheorems, WellFoundedInduction, TLAPS

\* A decided future is settled: its child, group and result are gone.
Settled ==
  \A f \in Futures : ok[f] # "none" =>
    ~Alive(f) /\ ~helper[f] /\ file[f] = "none"

\* What is known of a child by how far it has come.
ChildInv ==
  \A f \in Futures :
    /\ ~started[f] => life[f] = "unborn"
    /\ life[f] = "unborn" => ~helper[f]
    /\ life[f] = "ending" /\ helper[f] => work[f] = "failed"
    /\ code[f] = "zero" => ~helper[f]
    /\ life[f] # "gone" => code[f] = "none"

\* The parent's lists.
ListInv ==
  /\ pc \notin {"cancel", "raised"} => todo = Active
  /\ pc \in {"sweep", "mark", "grace", "reap"} => left \subseteq todo
  /\ pc = "cancel" => left = Active
  /\ Over => Active = {}
  /\ pc \in {"mark", "grace", "reap"} => cur \in todo
  /\ pc = "started" => cur \in todo

\* Whom SIGKILL has reached.
KillInv ==
  /\ pc = "reap" => ~helper[cur] /\ (Alive(cur) => signal[cur] = "kill")
  /\ pc = "cancel" => \A f \in Active :
       ~helper[f] /\ (Alive(f) => signal[f] = "kill")

\* Those alive are among "running", but for the one just started.
Running == IF pc = "started" THEN slots \cup {cur} ELSE slots
CapInv ==
  /\ \A f \in Futures : Alive(f) => f \in Running
  /\ Cardinality(slots) <= Jobs
  /\ pc = "started" => Cardinality(slots) < Jobs

\* An error to be raised is on its way.
RaiseInv ==
  pc \notin {"killall", "cancel", "raised"} /\ ~IgnoreErrors =>
    \A f \in Futures : error[f] # "raise"

IInv == TypeOK /\ Settled /\ ChildInv /\ ListInv /\ KillInv /\ CapInv /\ RaiseInv

-----------------------------------------------------------------------------
\* The least member of a set of futures is one of its members.
LEMMA FirstIn ==
  ASSUME NEW S \in SUBSET Futures, S # {}
  PROVE  First(S) \in S
<1>1. PICK f \in S : \A g \in S : ~ (<<g, f>> \in OpToRel(<, Nat))
  <2>1. S \subseteq Nat
    BY NAssumption DEF Futures
  <2> QED BY <2>1, NatLessThanWellFounded, WFMin
<1>2. \A g \in S : f <= g
  <2> TAKE g \in S
  <2>1. f \in Nat /\ g \in Nat
    BY NAssumption DEF Futures
  <2>2. ~ (g < f)
    BY <1>1, <2>1 DEF OpToRel
  <2> QED BY <2>1, <2>2
<1> QED BY <1>1, <1>2 DEF First

\* What a step reads from a result is nothing or a classification.
LEMMA ReportedType ==
  ASSUME TypeOK, NEW f \in Futures, NEW why
  PROVE  Reported(f, why) \in AllClasses \cup {"none"}
BY DEF TypeOK, Reported, AllClasses

\* Every action keeps the types.
LEMMA TypeStep == IInv /\ [Next]_vars => TypeOK'
<1> SUFFICES ASSUME IInv, [Next]_vars PROVE TypeOK'
  OBVIOUS
<1> USE DEF IInv
<1>1. CASE Begin
  BY <1>1 DEF TypeOK, Goto, Begin, fields, child
<1>2. CASE Start
  <2>1. First(Queued) \in Queued
    BY <1>2, FirstIn DEF Start, HasRoom, Queued, TypeOK
  <2> QED
    BY <1>2, <2>1 DEF TypeOK, Start, Queued, Goto, fields
<1>3. CASE StartFails
  <2>1. First(Queued) \in Queued
    BY <1>3, FirstIn DEF StartFails, HasRoom, Queued, TypeOK
  <2> QED
    BY <1>3, <2>1 DEF TypeOK, StartFails, Queued, Goto, fields, child
<1>4. CASE CountStarted
  BY <1>4 DEF TypeOK, Goto, CountStarted, ListInv, fields, child
<1>5. CASE FillDone
  BY <1>5 DEF TypeOK, Goto, FillDone, fields, child
<1>6. CASE WaitAny
  BY <1>6 DEF TypeOK, Goto, WaitAny, fields, child
<1>7. CASE Sweep
  <2>1. First(left) \in left
    BY <1>7, FirstIn DEF Sweep, TypeOK
  <2> QED
    BY <1>7, <2>1 DEF TypeOK, Sweep, Goto, fields, child
<1>8. CASE SweepDone
  BY <1>8 DEF TypeOK, Goto, SweepDone, fields, child
<1>9. CASE MarkExited
  <2>1. cur \in Futures
    BY <1>9 DEF MarkExited, ListInv, Active
  <2>2. \A why : Reported(cur, why) \in AllClasses \cup {"none"}
    BY <2>1, ReportedType
  <2>3. CASE code[cur] = "zero"
    BY <1>9, <2>1, <2>2, <2>3 DEF TypeOK, MarkExited, Decide, Continue, Goto
  <2>4. CASE code[cur] # "zero"
    <3>0. KillGroups({cur})
      BY <1>9, <2>4 DEF MarkExited
    <3>1. signal' \in [Futures -> {"none", "term", "kill"}]
      BY <3>0 DEF TypeOK, KillGroups
    <3>2. helper' \in [Futures -> BOOLEAN]
      BY <3>0 DEF TypeOK, KillGroups
    <3>3. /\ Decide(cur, "no", "error") /\ Continue(cur)
          /\ UNCHANGED <<started, life, code, work, expired>>
      BY <1>9, <2>4 DEF MarkExited
    <3> QED
      BY <2>1, <2>2, <3>1, <3>2, <3>3 DEF TypeOK, Decide, Continue, Goto
  <2> QED BY <2>3, <2>4
<1>10. CASE MarkOverrun
  BY <1>10 DEF TypeOK, Goto, MarkOverrun, fields
<1>11. CASE GraceOver
  BY <1>11 DEF TypeOK, Goto, GraceOver, KillGroups, fields
<1>12. CASE ReapOverrun
  <2>1. cur \in Futures
    BY <1>12 DEF ReapOverrun, ListInv, Active
  <2>2. \A why : Reported(cur, why) \in AllClasses \cup {"none"}
    BY <2>1, ReportedType
  <2> QED
    BY <1>12, <2>1, <2>2 DEF TypeOK, ReapOverrun, Decide, Continue, Goto
<1>13. CASE KillAll
  BY <1>13 DEF TypeOK, Goto, KillAll, KillGroups, Active, fields
<1>14. CASE Cancel
  <2>1. First(left) \in Futures
    BY <1>14, FirstIn DEF Cancel, TypeOK
  <2>2. \A why : Reported(First(left), why) \in AllClasses \cup {"none"}
    BY <2>1, ReportedType
  <2> QED
    BY <1>14, <2>1, <2>2 DEF TypeOK, Cancel, Decide
<1>15. CASE CancelDone
  BY <1>15 DEF TypeOK, Goto, CancelDone, fields, child
<1>16. CASE Interrupt
  BY <1>16 DEF TypeOK, Goto, Interrupt, fields, child
<1>17. ASSUME NEW f \in Futures, ChildCallsCompiler(f) PROVE TypeOK'
  BY <1>17 DEF TypeOK, ChildCallsCompiler, parent, fields
<1>18. ASSUME NEW f \in Futures, CompilerExits(f) PROVE TypeOK'
  BY <1>18 DEF TypeOK, CompilerExits, parent, fields
<1>19. ASSUME NEW f \in Futures, ChildSucceeds(f) PROVE TypeOK'
  BY <1>19 DEF TypeOK, ChildSucceeds, parent, fields
<1>20. ASSUME NEW f \in Futures, ChildFails(f) PROVE TypeOK'
  BY <1>20, ClassesAssumption DEF TypeOK, ChildFails, Failures, Reports, parent, fields
<1>21. ASSUME NEW f \in Futures, ChildExits(f) PROVE TypeOK'
  BY <1>21 DEF TypeOK, ChildExits, ExitStatus, parent, fields
<1>22. ASSUME NEW f \in Futures, ChildDies(f) PROVE TypeOK'
  BY <1>22 DEF TypeOK, ChildDies, parent, fields
<1>23. ASSUME NEW f \in Futures, Expire(f) PROVE TypeOK'
  BY <1>23 DEF TypeOK, Expire, parent, fields, child
<1>24. CASE UNCHANGED vars
  BY <1>24 DEF TypeOK, Goto, vars, parent, fields, child
<1> QED
  BY <1>1, <1>2, <1>3, <1>4, <1>5, <1>6, <1>7, <1>8, <1>9, <1>10, <1>11,
     <1>12, <1>13, <1>14, <1>15, <1>16, <1>17, <1>18, <1>19, <1>20,
     <1>21, <1>22, <1>23, <1>24 DEF Next, Parent, Child

\* What is known of a child stays true.
LEMMA ChildStep == IInv /\ [Next]_vars => ChildInv'
<1> SUFFICES ASSUME IInv, [Next]_vars PROVE ChildInv'
  OBVIOUS
<1> USE DEF IInv
<1>1. CASE Begin
  BY <1>1 DEF ChildInv, Goto, Begin, fields, child
<1>2. CASE Start
  <2>1. First(Queued) \in Queued
    BY <1>2, FirstIn DEF Start, HasRoom, Queued, TypeOK
  <2> QED
    BY <1>2, <2>1 DEF TypeOK, ChildInv, Start, Queued, fields
<1>3. CASE StartFails
  <2>1. First(Queued) \in Queued
    BY <1>3, FirstIn DEF StartFails, HasRoom, Queued, TypeOK
  <2> QED
    BY <1>3, <2>1 DEF TypeOK, ChildInv, StartFails, Queued, fields, child
<1>4. CASE CountStarted
  BY <1>4 DEF ChildInv, Goto, CountStarted, fields, child
<1>5. CASE FillDone
  BY <1>5 DEF ChildInv, Goto, FillDone, fields, child
<1>6. CASE WaitAny
  BY <1>6 DEF ChildInv, Goto, WaitAny, fields, child
<1>7. CASE Sweep
  BY <1>7 DEF ChildInv, Goto, Sweep, fields, child
<1>8. CASE SweepDone
  BY <1>8 DEF ChildInv, Goto, SweepDone, fields, child
<1>9. CASE MarkExited
  <2>1. \A f \in Futures : helper'[f] => helper[f]
    BY <1>9 DEF MarkExited, TypeOK, KillGroups
  <2> QED BY <1>9, <2>1 DEF ChildInv, MarkExited
<1>10. CASE MarkOverrun
  BY <1>10 DEF TypeOK, ChildInv, Goto, MarkOverrun, fields
<1>11. CASE GraceOver
  BY <1>11 DEF TypeOK, ChildInv, Goto, GraceOver, KillGroups, fields
<1>12. CASE ReapOverrun
  BY <1>12 DEF ChildInv, ReapOverrun
<1>13. CASE KillAll
  BY <1>13 DEF TypeOK, ChildInv, Goto, KillAll, KillGroups, Active, fields
<1>14. CASE Cancel
  BY <1>14 DEF ChildInv, Cancel
<1>15. CASE CancelDone
  BY <1>15 DEF ChildInv, Goto, CancelDone, fields, child
<1>16. CASE Interrupt
  BY <1>16 DEF ChildInv, Goto, Interrupt, fields, child
<1>17. ASSUME NEW f \in Futures, ChildCallsCompiler(f) PROVE ChildInv'
  BY <1>17 DEF TypeOK, ChildInv, ChildCallsCompiler, Runs, parent, fields
<1>18. ASSUME NEW f \in Futures, CompilerExits(f) PROVE ChildInv'
  BY <1>18 DEF TypeOK, ChildInv, CompilerExits, parent, fields
<1>19. ASSUME NEW f \in Futures, ChildSucceeds(f) PROVE ChildInv'
  BY <1>19 DEF TypeOK, ChildInv, ChildSucceeds, Runs, parent, fields
<1>20. ASSUME NEW f \in Futures, ChildFails(f) PROVE ChildInv'
  BY <1>20 DEF TypeOK, ChildInv, ChildFails, Runs, parent, fields
<1>21. ASSUME NEW f \in Futures, ChildExits(f) PROVE ChildInv'
  BY <1>21 DEF TypeOK, ChildInv, ChildExits, ExitStatus, parent, fields
<1>22. ASSUME NEW f \in Futures, ChildDies(f) PROVE ChildInv'
  BY <1>22 DEF TypeOK, ChildInv, ChildDies, Alive, parent, fields
<1>23. ASSUME NEW f \in Futures, Expire(f) PROVE ChildInv'
  BY <1>23 DEF TypeOK, ChildInv, Expire, parent, fields, child
<1>24. CASE UNCHANGED vars
  BY <1>24 DEF TypeOK, ChildInv, Goto, vars, parent, fields, child
<1> QED
  BY <1>1, <1>2, <1>3, <1>4, <1>5, <1>6, <1>7, <1>8, <1>9, <1>10, <1>11,
     <1>12, <1>13, <1>14, <1>15, <1>16, <1>17, <1>18, <1>19, <1>20,
     <1>21, <1>22, <1>23, <1>24 DEF Next, Parent, Child

\* A decided future stays settled.
LEMMA SettledStep == IInv /\ [Next]_vars => Settled'
<1> SUFFICES ASSUME IInv, [Next]_vars PROVE Settled'
  OBVIOUS
<1> USE DEF IInv
<1>1. CASE Begin
  BY <1>1 DEF Settled, Goto, Alive, Begin, fields, child
<1>2. CASE Start
  <2>1. First(Queued) \in Queued
    BY <1>2, FirstIn DEF Start, HasRoom, Queued, TypeOK
  <2>2. ok[First(Queued)] = "none"
    BY <1>2, <2>1 DEF ListInv, Start, Queued, Active
  <2> QED
    BY <1>2, <2>1, <2>2 DEF TypeOK, Settled, Start, Queued, fields, Alive
<1>3. CASE StartFails
  BY <1>3 DEF TypeOK, Settled, Goto, Alive, StartFails, fields, child
<1>4. CASE CountStarted
  BY <1>4 DEF Settled, Goto, Alive, CountStarted, fields, child
<1>5. CASE FillDone
  BY <1>5 DEF Settled, Goto, Alive, FillDone, fields, child
<1>6. CASE WaitAny
  BY <1>6 DEF Settled, Goto, Alive, WaitAny, fields, child
<1>7. CASE Sweep
  BY <1>7 DEF Settled, Goto, Alive, Sweep, fields, child
<1>8. CASE SweepDone
  BY <1>8 DEF Settled, Goto, Alive, SweepDone, fields, child
<1>9. CASE MarkExited
  <2>1. cur \in Futures
    BY <1>9 DEF MarkExited, ListInv, Active
  <2>2. ~helper'[cur] /\ \A f \in Futures : helper'[f] => helper[f]
    <3>1. CASE code[cur] = "zero"
      BY <1>9, <2>1, <3>1 DEF MarkExited, ChildInv
    <3>2. CASE code[cur] # "zero"
      <4>1. KillGroups({cur})
        BY <1>9, <3>2 DEF MarkExited
      <4> QED BY <2>1, <4>1 DEF KillGroups, TypeOK
    <3> QED BY <3>1, <3>2
  <2>3. life' = life /\ file' = [file EXCEPT ![cur] = "none"]
    BY <1>9 DEF MarkExited, Decide
  <2>4. \A f \in Futures : f # cur => ok'[f] = ok[f]
    BY <1>9, <2>1 DEF MarkExited, Decide, TypeOK
  <2>5. ~Alive(cur)
    BY <1>9 DEF MarkExited
  <2> QED BY <2>1, <2>2, <2>3, <2>4, <2>5 DEF Settled, Alive, TypeOK
<1>10. CASE MarkOverrun
  BY <1>10 DEF TypeOK, Settled, Goto, Alive, MarkOverrun, fields
<1>11. CASE GraceOver
  BY <1>11 DEF TypeOK, Settled, Goto, Alive, GraceOver, KillGroups, fields
<1>12. CASE ReapOverrun
  <2>1. cur \in Futures
    BY <1>12 DEF ReapOverrun, ListInv, Active
  <2>2. ~helper[cur] /\ ~Alive(cur)
    BY <1>12 DEF ReapOverrun, KillInv
  <2> QED BY <1>12, <2>1, <2>2 DEF Settled, Alive, TypeOK, ReapOverrun, Decide
<1>13. CASE KillAll
  BY <1>13 DEF TypeOK, Settled, Goto, Alive, KillAll, KillGroups, Active, fields
<1>14. CASE Cancel
  <2>1. First(left) \in left
    BY <1>14, FirstIn DEF Cancel, TypeOK
  <2>2. ~helper[First(left)] /\ ~Alive(First(left)) /\ First(left) \in Futures
    BY <1>14, <2>1 DEF Cancel, KillInv, ListInv, Active
  <2> QED BY <1>14, <2>1, <2>2 DEF Settled, Alive, TypeOK, Cancel, Decide
<1>15. CASE CancelDone
  BY <1>15 DEF Settled, Goto, Alive, CancelDone, fields, child
<1>16. CASE Interrupt
  BY <1>16 DEF Settled, Goto, Alive, Interrupt, fields, child
<1>17. ASSUME NEW f \in Futures, ChildCallsCompiler(f) PROVE Settled'
  BY <1>17 DEF TypeOK, Settled, Alive, ChildCallsCompiler, Runs, fields
<1>18. ASSUME NEW f \in Futures, CompilerExits(f) PROVE Settled'
  BY <1>18 DEF TypeOK, Settled, Alive, CompilerExits, fields
<1>19. ASSUME NEW f \in Futures, ChildSucceeds(f) PROVE Settled'
  BY <1>19 DEF TypeOK, Settled, Alive, ChildSucceeds, Runs, fields
<1>20. ASSUME NEW f \in Futures, ChildFails(f) PROVE Settled'
  BY <1>20 DEF TypeOK, Settled, Alive, ChildFails, Runs, fields
<1>21. ASSUME NEW f \in Futures, ChildExits(f) PROVE Settled'
  BY <1>21 DEF TypeOK, Settled, Alive, ChildExits, fields
<1>22. ASSUME NEW f \in Futures, ChildDies(f) PROVE Settled'
  BY <1>22 DEF TypeOK, Settled, Alive, ChildDies, fields
<1>23. ASSUME NEW f \in Futures, Expire(f) PROVE Settled'
  BY <1>23 DEF TypeOK, Settled, Alive, Expire, fields, child
<1>24. CASE UNCHANGED vars
  BY <1>24 DEF TypeOK, Settled, Goto, Alive, vars, parent, fields, child
<1> QED
  BY <1>1, <1>2, <1>3, <1>4, <1>5, <1>6, <1>7, <1>8, <1>9, <1>10, <1>11,
     <1>12, <1>13, <1>14, <1>15, <1>16, <1>17, <1>18, <1>19, <1>20,
     <1>21, <1>22, <1>23, <1>24 DEF Next, Parent, Child

\* The lists stay what the loop takes them for.
LEMMA ListStep == IInv /\ [Next]_vars => ListInv'
<1> SUFFICES ASSUME IInv, [Next]_vars PROVE ListInv'
  OBVIOUS
<1> USE DEF IInv
<1>1. CASE Begin
  BY <1>1 DEF ListInv, Active, Goto, Over, Begin, Queued, fields, child
<1>2. CASE Start
  <2>1. First(Queued) \in Queued
    BY <1>2, FirstIn DEF Start, HasRoom, Queued, TypeOK
  <2> QED
    BY <1>2, <2>1 DEF TypeOK, ListInv, Active, Start, Queued, fields, Goto, Over
<1>3. CASE StartFails
  BY <1>3 DEF TypeOK, ListInv, Active, Goto, Over, StartFails, fields, child
<1>4. CASE CountStarted
  BY <1>4 DEF ListInv, Active, Goto, Over, CountStarted, fields, child
<1>5. CASE FillDone
  BY <1>5 DEF ListInv, Active, Goto, Over, FillDone, fields, child
<1>6. CASE WaitAny
  BY <1>6 DEF ListInv, Active, Goto, Over, WaitAny, fields, child
<1>7. CASE Sweep
  <2>1. First(left) \in left
    BY <1>7, FirstIn DEF Sweep, TypeOK
  <2> QED
    BY <1>7, <2>1 DEF TypeOK, ListInv, Active, Sweep, fields, Goto, Over
<1>8. CASE SweepDone
  BY <1>8 DEF ListInv, Active, Goto, Over, SweepDone, fields, child
<1>9. CASE MarkExited
  <2>1. cur \in Futures
    BY <1>9 DEF MarkExited, ReapOverrun, ListInv, Active
  <2>2. Active' = Active \ {cur}
    <3>1. \E v \in {"yes", "no"}, w \in {"error"} : Decide(cur, v, w)
      BY <1>9 DEF MarkExited
    <3>2. ok'[cur] # "none" /\ \A f \in Futures : f # cur => ok'[f] = ok[f]
      BY <2>1, <3>1 DEF Decide, TypeOK
    <3> QED BY <2>1, <3>2 DEF Active
  <2>3. pc' \in {"killall", "sweep"} /\ todo' = todo \ {cur} /\ left' = left \ {cur}
    BY <1>9 DEF MarkExited, Continue, Goto
  <2>4. pc = "mark" /\ todo = Active
    BY <1>9 DEF MarkExited, ListInv
  <2> QED
    BY <2>2, <2>3, <2>4 DEF ListInv, Over
<1>10. CASE MarkOverrun
  BY <1>10 DEF TypeOK, ListInv, Active, Goto, Over, MarkOverrun, fields
<1>11. CASE GraceOver
  BY <1>11 DEF TypeOK, ListInv, Active, Goto, Over, GraceOver, fields
<1>12. CASE ReapOverrun
  <2>1. cur \in Futures
    BY <1>12 DEF MarkExited, ReapOverrun, ListInv, Active
  <2>2. Active' = Active \ {cur}
    <3>2. ok'[cur] # "none" /\ \A f \in Futures : f # cur => ok'[f] = ok[f]
      BY <1>12, <2>1 DEF ReapOverrun, Decide, TypeOK
    <3> QED BY <2>1, <3>2 DEF Active
  <2>3. pc' \in {"killall", "sweep"} /\ todo' = todo \ {cur} /\ left' = left \ {cur}
    BY <1>12 DEF ReapOverrun, Continue, Goto
  <2>4. pc = "reap" /\ todo = Active
    BY <1>12 DEF ReapOverrun, ListInv
  <2> QED
    BY <2>2, <2>3, <2>4 DEF ListInv, Over
<1>13. CASE KillAll
  BY <1>13 DEF TypeOK, ListInv, Active, Goto, Over, KillAll, fields
<1>14. CASE Cancel
  <2>1. First(left) \in left /\ First(left) \in Futures
    BY <1>14, FirstIn DEF Cancel, TypeOK
  <2>2. Active' = Active \ {First(left)}
    <3>2. ok'[First(left)] # "none" /\ \A f \in Futures : f # First(left) => ok'[f] = ok[f]
      BY <1>14, <2>1 DEF Cancel, Decide, TypeOK
    <3> QED BY <2>1, <3>2 DEF Active
  <2>3. pc' = "cancel" /\ pc = "cancel" /\ left' = left \ {First(left)}
    BY <1>14 DEF Cancel
  <2> QED BY <2>2, <2>3 DEF ListInv, Over
<1>15. CASE CancelDone
  BY <1>15 DEF ListInv, Active, Goto, Over, CancelDone, fields, child
<1>16. CASE Interrupt
  BY <1>16 DEF ListInv, Active, Goto, Over, Interrupt, fields, child
<1>17. ASSUME NEW f \in Futures, ChildCallsCompiler(f) PROVE ListInv'
  BY <1>17 DEF TypeOK, ListInv, Active, Over, ChildCallsCompiler, parent, fields
<1>18. ASSUME NEW f \in Futures, CompilerExits(f) PROVE ListInv'
  BY <1>18 DEF TypeOK, ListInv, Active, Over, CompilerExits, parent, fields
<1>19. ASSUME NEW f \in Futures, ChildSucceeds(f) PROVE ListInv'
  BY <1>19 DEF TypeOK, ListInv, Active, Over, ChildSucceeds, parent, fields
<1>20. ASSUME NEW f \in Futures, ChildFails(f) PROVE ListInv'
  BY <1>20 DEF TypeOK, ListInv, Active, Over, ChildFails, parent, fields
<1>21. ASSUME NEW f \in Futures, ChildExits(f) PROVE ListInv'
  BY <1>21 DEF TypeOK, ListInv, Active, Over, ChildExits, parent, fields
<1>22. ASSUME NEW f \in Futures, ChildDies(f) PROVE ListInv'
  BY <1>22 DEF TypeOK, ListInv, Active, Over, ChildDies, parent, fields
<1>23. ASSUME NEW f \in Futures, Expire(f) PROVE ListInv'
  BY <1>23 DEF TypeOK, ListInv, Active, Over, Expire, parent, fields, child
<1>24. CASE UNCHANGED vars
  BY <1>24 DEF TypeOK, ListInv, Active, Goto, Over, vars, parent, fields, child
<1> QED
  BY <1>1, <1>2, <1>3, <1>4, <1>5, <1>6, <1>7, <1>8, <1>9, <1>10, <1>11,
     <1>12, <1>13, <1>14, <1>15, <1>16, <1>17, <1>18, <1>19, <1>20,
     <1>21, <1>22, <1>23, <1>24 DEF Next, Parent, Child

\* Whom SIGKILL has reached starts nothing more.
LEMMA KillStep == IInv /\ [Next]_vars => KillInv'
<1> SUFFICES ASSUME IInv, [Next]_vars PROVE KillInv'
  OBVIOUS
<1> USE DEF IInv
<1>1. CASE Begin
  BY <1>1 DEF KillInv, Alive, Active, Goto, Begin, fields, child
<1>2. CASE Start
  <2>1. First(Queued) \in Queued
    BY <1>2, FirstIn DEF Start, HasRoom, Queued, TypeOK
  <2>2. pc' = "started"
    BY <1>2 DEF Start, Goto
  <2> QED BY <2>2 DEF KillInv
<1>3. CASE StartFails
  BY <1>3 DEF TypeOK, KillInv, Alive, Active, Goto, StartFails, fields, child
<1>4. CASE CountStarted
  BY <1>4 DEF KillInv, Alive, Active, Goto, CountStarted, fields, child
<1>5. CASE FillDone
  BY <1>5 DEF KillInv, Alive, Active, Goto, FillDone, fields, child
<1>6. CASE WaitAny
  BY <1>6 DEF KillInv, Alive, Active, Goto, WaitAny, fields, child
<1>7. CASE Sweep
  BY <1>7 DEF KillInv, Alive, Active, Goto, Sweep, fields, child
<1>8. CASE SweepDone
  BY <1>8 DEF KillInv, Alive, Active, Goto, SweepDone, fields, child
<1>9. CASE MarkExited
  <2>1. pc' \in {"killall", "sweep"}
    BY <1>9 DEF MarkExited, Continue, Goto
  <2> QED BY <2>1 DEF KillInv
<1>10. CASE MarkOverrun
  BY <1>10 DEF TypeOK, KillInv, Alive, Active, Goto, MarkOverrun, fields
<1>11. CASE GraceOver
  <2>1. cur \in Futures
    BY <1>11 DEF GraceOver, ListInv, Active
  <2> QED BY <1>11, <2>1 DEF TypeOK, KillInv, Alive, Active, Goto, GraceOver, KillGroups
<1>12. CASE ReapOverrun
  <2>1. pc' \in {"killall", "sweep"}
    BY <1>12 DEF ReapOverrun, Continue, Goto
  <2> QED BY <2>1 DEF KillInv
<1>13. CASE KillAll
  <2>1. \A f \in Active : ~started[f] => ~helper[f] /\ ~Alive(f)
    BY DEF ChildInv, Alive, Active
  <2> QED
    BY <1>13, <2>1 DEF TypeOK, KillInv, Alive, Active, Goto, KillAll, KillGroups, fields
<1>14. CASE Cancel
  <2>1. First(left) \in left /\ First(left) \in Futures
    BY <1>14, FirstIn DEF Cancel, TypeOK
  <2>2. Active' \subseteq Active
    <3>2. ok'[First(left)] # "none" /\ \A f \in Futures : f # First(left) => ok'[f] = ok[f]
      BY <1>14, <2>1 DEF Cancel, Decide, TypeOK
    <3> QED BY <2>1, <3>2 DEF Active
  <2> QED BY <1>14, <2>2 DEF KillInv, Cancel, Alive
<1>15. CASE CancelDone
  BY <1>15 DEF KillInv, Alive, Active, Goto, CancelDone, fields, child
<1>16. CASE Interrupt
  BY <1>16 DEF KillInv, Alive, Active, Goto, Interrupt, fields, child
<1>17. ASSUME NEW f \in Futures, ChildCallsCompiler(f) PROVE KillInv'
  <2>1. pc = "reap" => cur \in Futures
    BY DEF ListInv, Active
  <2> QED
    BY <1>17, <2>1 DEF TypeOK, KillInv, Alive, Active, Runs, ChildCallsCompiler, parent, fields
<1>18. ASSUME NEW f \in Futures, CompilerExits(f) PROVE KillInv'
  BY <1>18 DEF TypeOK, KillInv, Alive, Active, CompilerExits, parent, fields
<1>19. ASSUME NEW f \in Futures, ChildSucceeds(f) PROVE KillInv'
  BY <1>19 DEF TypeOK, KillInv, Alive, Active, ChildSucceeds, Runs, parent, fields
<1>20. ASSUME NEW f \in Futures, ChildFails(f) PROVE KillInv'
  BY <1>20 DEF TypeOK, KillInv, Alive, Active, ChildFails, Runs, parent, fields
<1>21. ASSUME NEW f \in Futures, ChildExits(f) PROVE KillInv'
  BY <1>21 DEF TypeOK, KillInv, Alive, Active, ChildExits, parent, fields
<1>22. ASSUME NEW f \in Futures, ChildDies(f) PROVE KillInv'
  BY <1>22 DEF TypeOK, KillInv, Alive, Active, ChildDies, parent, fields
<1>23. ASSUME NEW f \in Futures, Expire(f) PROVE KillInv'
  BY <1>23 DEF TypeOK, KillInv, Alive, Active, Expire, parent, fields, child
<1>24. CASE UNCHANGED vars
  BY <1>24 DEF TypeOK, KillInv, Alive, Active, Goto, vars, parent, fields, child
<1> QED
  BY <1>1, <1>2, <1>3, <1>4, <1>5, <1>6, <1>7, <1>8, <1>9, <1>10, <1>11,
     <1>12, <1>13, <1>14, <1>15, <1>16, <1>17, <1>18, <1>19, <1>20,
     <1>21, <1>22, <1>23, <1>24 DEF Next, Parent, Child

\* "running" is a finite set.
LEMMA FiniteSlots ==
  ASSUME TypeOK PROVE IsFiniteSet(slots) /\ Cardinality(slots) \in Nat
<1>1. IsFiniteSet(Futures)
  BY NAssumption, FS_Interval DEF Futures
<1>2. IsFiniteSet(slots)
  BY <1>1, FS_Subset DEF TypeOK
<1> QED BY <1>2, FS_CardinalityType

\* No step lets a child run that "running" does not count.
LEMMA CapStep == IInv /\ [Next]_vars => CapInv'
<1> SUFFICES ASSUME IInv, [Next]_vars PROVE CapInv'
  OBVIOUS
<1> USE DEF IInv
<1>1. CASE Begin
  <2>1. \A f \in Futures : Alive(f) => f \in Active /\ started[f]
    BY DEF Settled, ChildInv, Alive, Active
  <2>2. UNCHANGED Alive(1) /\ \A f \in Futures : Alive(f)' = Alive(f)
    BY <1>1 DEF Begin, Alive, child
  <2>3. CASE todo = {}
    BY <1>1, <2>2, <2>3 DEF Begin, CapInv, Running, Goto
  <2>4. CASE todo # {}
    <3>1. slots' = {f \in todo : started[f] /\ Alive(f)} /\ pc = "top" /\ pc' = "fill"
      BY <1>1, <2>4 DEF Begin, Goto
    <3>2. todo = Active
      BY <3>1 DEF ListInv
    <3>3. slots' \subseteq slots
      BY <3>1 DEF CapInv, Running, TypeOK
    <3>4. IsFiniteSet(slots) /\ Cardinality(slots) \in Nat
      BY FiniteSlots
    <3>5. Cardinality(slots') <= Cardinality(slots) /\ Cardinality(slots') \in Nat
      BY <3>3, <3>4, FS_Subset, FS_CardinalityType
    <3>6. Cardinality(slots') <= Jobs
      BY <3>4, <3>5, JobsAssumption DEF CapInv
    <3>7. \A f \in Futures : Alive(f)' => f \in Running'
      BY <2>1, <2>2, <3>1, <3>2 DEF Running
    <3> QED BY <3>1, <3>6, <3>7 DEF CapInv
  <2> QED BY <2>3, <2>4
<1>2. CASE Start
  <2>1. First(Queued) \in Queued
    BY <1>2, FirstIn DEF Start, HasRoom, Queued, TypeOK
  <2>2. /\ pc = "fill" /\ pc' = "started" /\ slots' = slots
        /\ cur' = First(Queued) /\ Cardinality(slots) < Jobs
    BY <1>2 DEF Start, HasRoom, Goto
  <2>3. \A f \in Futures : Alive(f)' => Alive(f) \/ f = First(Queued)
    BY <1>2, <2>1 DEF Start, Alive, TypeOK, Queued
  <2>4. slots \cup {First(Queued)} = Running' /\ Running = slots
    BY <2>2 DEF Running
  <2>5. Cardinality(slots) <= Jobs
    BY DEF CapInv
  <2> QED BY <2>2, <2>3, <2>4, <2>5 DEF CapInv
<1>3. CASE StartFails
  <2>1. Running' = Running /\ slots' = slots /\ (pc' = "started" <=> pc = "started")
    BY <1>3 DEF Running, StartFails, Goto, Continue, parent
  <2>2. \A f \in Futures : Alive(f)' => Alive(f)
    BY <1>3 DEF Alive, StartFails, child
  <2> QED BY <2>1, <2>2 DEF CapInv
<1>4. CASE CountStarted
  <2>1. /\ pc = "started" /\ pc' = "fill"
        /\ slots' = IF Alive(cur) THEN slots \cup {cur} ELSE slots
    BY <1>4 DEF CountStarted, Goto
  <2>2. \A f \in Futures : Alive(f)' = Alive(f)
    BY <1>4 DEF CountStarted, Alive, child
  <2>3. IsFiniteSet(slots) /\ Cardinality(slots) \in Nat
    BY FiniteSlots
  <2>4. Cardinality(slots \cup {cur}) <= Cardinality(slots) + 1
    BY <2>3, FS_AddElement
  <2>5. Cardinality(slots) < Jobs
    BY <2>1 DEF CapInv
  <2>6. Cardinality(slots \cup {cur}) \in Nat
    BY <2>3, FS_AddElement, FS_CardinalityType
  <2>7. Cardinality(slots') <= Jobs
    BY <2>1, <2>3, <2>4, <2>5, <2>6, JobsAssumption
  <2>8. \A f \in Futures : Alive(f)' => f \in Running'
    BY <2>1, <2>2 DEF CapInv, Running
  <2> QED BY <2>1, <2>7, <2>8 DEF CapInv
<1>5. CASE FillDone
  <2>1. Running' = Running /\ slots' = slots /\ (pc' = "started" <=> pc = "started")
    BY <1>5 DEF Running, FillDone, Goto, Continue, parent
  <2>2. \A f \in Futures : Alive(f)' => Alive(f)
    BY <1>5 DEF Alive, FillDone, child
  <2> QED BY <2>1, <2>2 DEF CapInv
<1>6. CASE WaitAny
  <2>1. Running' = Running /\ slots' = slots /\ (pc' = "started" <=> pc = "started")
    BY <1>6 DEF Running, WaitAny, Goto, Continue, parent
  <2>2. \A f \in Futures : Alive(f)' => Alive(f)
    BY <1>6 DEF Alive, WaitAny, child
  <2> QED BY <2>1, <2>2 DEF CapInv
<1>7. CASE Sweep
  <2>1. Running' = Running /\ slots' = slots /\ (pc' = "started" <=> pc = "started")
    BY <1>7 DEF Running, Sweep, Goto, Continue, parent
  <2>2. \A f \in Futures : Alive(f)' => Alive(f)
    BY <1>7 DEF Alive, Sweep, child
  <2> QED BY <2>1, <2>2 DEF CapInv
<1>8. CASE SweepDone
  <2>1. Running' = Running /\ slots' = slots /\ (pc' = "started" <=> pc = "started")
    BY <1>8 DEF Running, SweepDone, Goto, Continue, parent
  <2>2. \A f \in Futures : Alive(f)' => Alive(f)
    BY <1>8 DEF Alive, SweepDone, child
  <2> QED BY <2>1, <2>2 DEF CapInv
<1>9. CASE MarkExited
  <2>1. Running' = Running /\ slots' = slots /\ (pc' = "started" <=> pc = "started")
    BY <1>9 DEF Running, MarkExited, Goto, Continue, parent
  <2>2. \A f \in Futures : Alive(f)' => Alive(f)
    BY <1>9 DEF Alive, MarkExited, child
  <2> QED BY <2>1, <2>2 DEF CapInv
<1>10. CASE MarkOverrun
  <2>1. Running' = Running /\ slots' = slots /\ (pc' = "started" <=> pc = "started")
    BY <1>10 DEF Running, MarkOverrun, Goto, Continue, parent
  <2>2. \A f \in Futures : Alive(f)' => Alive(f)
    BY <1>10 DEF Alive, MarkOverrun, child
  <2> QED BY <2>1, <2>2 DEF CapInv
<1>11. CASE GraceOver
  <2>1. Running' = Running /\ slots' = slots /\ (pc' = "started" <=> pc = "started")
    BY <1>11 DEF Running, GraceOver, Goto, Continue, parent
  <2>2. \A f \in Futures : Alive(f)' => Alive(f)
    BY <1>11 DEF Alive, GraceOver, child
  <2> QED BY <2>1, <2>2 DEF CapInv
<1>12. CASE ReapOverrun
  <2>1. Running' = Running /\ slots' = slots /\ (pc' = "started" <=> pc = "started")
    BY <1>12 DEF Running, ReapOverrun, Goto, Continue, parent
  <2>2. \A f \in Futures : Alive(f)' => Alive(f)
    BY <1>12 DEF Alive, ReapOverrun, child
  <2> QED BY <2>1, <2>2 DEF CapInv
<1>13. CASE KillAll
  <2>1. Running' = Running /\ slots' = slots /\ (pc' = "started" <=> pc = "started")
    BY <1>13 DEF Running, KillAll, Goto, Continue, parent
  <2>2. \A f \in Futures : Alive(f)' => Alive(f)
    BY <1>13 DEF Alive, KillAll, child
  <2> QED BY <2>1, <2>2 DEF CapInv
<1>14. CASE Cancel
  <2>1. Running' = Running /\ slots' = slots /\ (pc' = "started" <=> pc = "started")
    BY <1>14 DEF Running, Cancel, Goto, Continue, parent
  <2>2. \A f \in Futures : Alive(f)' => Alive(f)
    BY <1>14 DEF Alive, Cancel, child
  <2> QED BY <2>1, <2>2 DEF CapInv
<1>15. CASE CancelDone
  <2>1. Running' = Running /\ slots' = slots /\ (pc' = "started" <=> pc = "started")
    BY <1>15 DEF Running, CancelDone, Goto, Continue, parent
  <2>2. \A f \in Futures : Alive(f)' => Alive(f)
    BY <1>15 DEF Alive, CancelDone, child
  <2> QED BY <2>1, <2>2 DEF CapInv
<1>16. CASE Interrupt
  <2>1. Running' = Running /\ slots' = slots /\ (pc' = "started" <=> pc = "started")
    BY <1>16 DEF Running, Interrupt, Goto, Continue, parent
  <2>2. \A g \in Futures : Alive(g)' => Alive(g)
    BY <1>16 DEF Alive, Interrupt, child
  <2> QED BY <2>1, <2>2 DEF CapInv
<1>17. ASSUME NEW f \in Futures, ChildCallsCompiler(f) PROVE CapInv'
  <2>1. Running' = Running /\ slots' = slots /\ (pc' = "started" <=> pc = "started")
    BY <1>17 DEF Running, ChildCallsCompiler, Goto, Continue, parent
  <2>2. \A g \in Futures : Alive(g)' => Alive(g)
    BY <1>17 DEF Alive, ChildCallsCompiler, Runs, child, TypeOK
  <2> QED BY <2>1, <2>2 DEF CapInv
<1>18. ASSUME NEW f \in Futures, CompilerExits(f) PROVE CapInv'
  <2>1. Running' = Running /\ slots' = slots /\ (pc' = "started" <=> pc = "started")
    BY <1>18 DEF Running, CompilerExits, Goto, Continue, parent
  <2>2. \A g \in Futures : Alive(g)' => Alive(g)
    BY <1>18 DEF Alive, CompilerExits, Runs, child, TypeOK
  <2> QED BY <2>1, <2>2 DEF CapInv
<1>19. ASSUME NEW f \in Futures, ChildSucceeds(f) PROVE CapInv'
  <2>1. Running' = Running /\ slots' = slots /\ (pc' = "started" <=> pc = "started")
    BY <1>19 DEF Running, ChildSucceeds, Goto, Continue, parent
  <2>2. \A g \in Futures : Alive(g)' => Alive(g)
    BY <1>19 DEF Alive, ChildSucceeds, Runs, child, TypeOK
  <2> QED BY <2>1, <2>2 DEF CapInv
<1>20. ASSUME NEW f \in Futures, ChildFails(f) PROVE CapInv'
  <2>1. Running' = Running /\ slots' = slots /\ (pc' = "started" <=> pc = "started")
    BY <1>20 DEF Running, ChildFails, Goto, Continue, parent
  <2>2. \A g \in Futures : Alive(g)' => Alive(g)
    BY <1>20 DEF Alive, ChildFails, Runs, child, TypeOK
  <2> QED BY <2>1, <2>2 DEF CapInv
<1>21. ASSUME NEW f \in Futures, ChildExits(f) PROVE CapInv'
  <2>1. Running' = Running /\ slots' = slots /\ (pc' = "started" <=> pc = "started")
    BY <1>21 DEF Running, ChildExits, Goto, Continue, parent
  <2>2. \A g \in Futures : Alive(g)' => Alive(g)
    BY <1>21 DEF Alive, ChildExits, Runs, child, TypeOK
  <2> QED BY <2>1, <2>2 DEF CapInv
<1>22. ASSUME NEW f \in Futures, ChildDies(f) PROVE CapInv'
  <2>1. Running' = Running /\ slots' = slots /\ (pc' = "started" <=> pc = "started")
    BY <1>22 DEF Running, ChildDies, Goto, Continue, parent
  <2>2. \A g \in Futures : Alive(g)' => Alive(g)
    BY <1>22 DEF Alive, ChildDies, Runs, child, TypeOK
  <2> QED BY <2>1, <2>2 DEF CapInv
<1>23. ASSUME NEW f \in Futures, Expire(f) PROVE CapInv'
  <2>1. Running' = Running /\ slots' = slots /\ (pc' = "started" <=> pc = "started")
    BY <1>23 DEF Running, Expire, Goto, Continue, parent
  <2>2. \A g \in Futures : Alive(g)' => Alive(g)
    BY <1>23 DEF Alive, Expire, Runs, child, TypeOK
  <2> QED BY <2>1, <2>2 DEF CapInv
<1>24. CASE UNCHANGED vars
  BY <1>24 DEF CapInv, Running, Alive, vars, parent, fields, child
<1> QED
  BY <1>1, <1>2, <1>3, <1>4, <1>5, <1>6, <1>7, <1>8, <1>9, <1>10, <1>11,
     <1>12, <1>13, <1>14, <1>15, <1>16, <1>17, <1>18, <1>19, <1>20,
     <1>21, <1>22, <1>23, <1>24 DEF Next, Parent, Child

\* An error to be raised leads to _cancel_all at once.
LEMMA RaiseStep == IInv /\ [Next]_vars => RaiseInv'
<1> SUFFICES ASSUME IInv, [Next]_vars PROVE RaiseInv'
  OBVIOUS
<1> USE DEF IInv
<1>1. CASE Begin
  BY <1>1 DEF RaiseInv, Goto, Begin, fields
<1>2. CASE Start
  BY <1>2 DEF RaiseInv, Goto, Start, fields
<1>3. CASE StartFails
  BY <1>3 DEF RaiseInv, Goto, StartFails, fields
<1>4. CASE CountStarted
  BY <1>4 DEF RaiseInv, Goto, CountStarted, fields
<1>5. CASE FillDone
  BY <1>5 DEF RaiseInv, Goto, FillDone, fields
<1>6. CASE WaitAny
  BY <1>6 DEF RaiseInv, Goto, WaitAny, fields
<1>7. CASE Sweep
  BY <1>7 DEF RaiseInv, Goto, Sweep, fields
<1>8. CASE SweepDone
  BY <1>8 DEF RaiseInv, Goto, SweepDone, fields
<1>9. CASE MarkExited
  <2>1. cur \in Futures
    BY <1>9 DEF MarkExited, ListInv, Active
  <2>2. pc' = IF error'[cur] = "raise" /\ ~IgnoreErrors THEN "killall" ELSE "sweep"
    BY <1>9 DEF MarkExited, Continue, Raises, Goto
  <2>3. \A f \in Futures : f # cur => error'[f] = error[f]
    BY <1>9, <2>1 DEF MarkExited, Decide, TypeOK
  <2>4. pc \in {"mark", "reap"}
    BY <1>9 DEF MarkExited
  <2> QED BY <2>2, <2>3, <2>4 DEF RaiseInv
<1>10. CASE MarkOverrun
  BY <1>10 DEF RaiseInv, Goto, MarkOverrun, fields
<1>11. CASE GraceOver
  BY <1>11 DEF RaiseInv, Goto, GraceOver, fields
<1>12. CASE ReapOverrun
  <2>1. cur \in Futures
    BY <1>12 DEF ReapOverrun, ListInv, Active
  <2>2. pc' = IF error'[cur] = "raise" /\ ~IgnoreErrors THEN "killall" ELSE "sweep"
    BY <1>12 DEF ReapOverrun, Continue, Raises, Goto
  <2>3. \A f \in Futures : f # cur => error'[f] = error[f]
    BY <1>12, <2>1 DEF ReapOverrun, Decide, TypeOK
  <2>4. pc \in {"mark", "reap"}
    BY <1>12 DEF ReapOverrun
  <2> QED BY <2>2, <2>3, <2>4 DEF RaiseInv
<1>13. CASE KillAll
  BY <1>13 DEF RaiseInv, Goto, KillAll, fields
<1>14. CASE Cancel
  <2>1. pc' = "cancel"
    BY <1>14 DEF Cancel
  <2> QED BY <2>1 DEF RaiseInv
<1>15. CASE CancelDone
  BY <1>15 DEF RaiseInv, Goto, CancelDone, fields
<1>16. CASE Interrupt
  BY <1>16 DEF RaiseInv, Goto, Interrupt, fields
<1>17. ASSUME NEW f \in Futures, ChildCallsCompiler(f) PROVE RaiseInv'
  BY <1>17 DEF RaiseInv, ChildCallsCompiler, parent, fields
<1>18. ASSUME NEW f \in Futures, CompilerExits(f) PROVE RaiseInv'
  BY <1>18 DEF RaiseInv, CompilerExits, parent, fields
<1>19. ASSUME NEW f \in Futures, ChildSucceeds(f) PROVE RaiseInv'
  BY <1>19 DEF RaiseInv, ChildSucceeds, parent, fields
<1>20. ASSUME NEW f \in Futures, ChildFails(f) PROVE RaiseInv'
  BY <1>20 DEF RaiseInv, ChildFails, parent, fields
<1>21. ASSUME NEW f \in Futures, ChildExits(f) PROVE RaiseInv'
  BY <1>21 DEF RaiseInv, ChildExits, parent, fields
<1>22. ASSUME NEW f \in Futures, ChildDies(f) PROVE RaiseInv'
  BY <1>22 DEF RaiseInv, ChildDies, parent, fields
<1>23. ASSUME NEW f \in Futures, Expire(f) PROVE RaiseInv'
  BY <1>23 DEF RaiseInv, Expire, parent, fields
<1>24. CASE UNCHANGED vars
  BY <1>24 DEF RaiseInv, Goto, vars, parent, fields, child
<1> QED
  BY <1>1, <1>2, <1>3, <1>4, <1>5, <1>6, <1>7, <1>8, <1>9, <1>10, <1>11,
     <1>12, <1>13, <1>14, <1>15, <1>16, <1>17, <1>18, <1>19, <1>20,
     <1>21, <1>22, <1>23, <1>24 DEF Next, Parent, Child
-----------------------------------------------------------------------------
\* The inductive invariant.
THEOREM InductiveInvariant == Spec => []IInv
<1>1. Init => IInv
  <2> SUFFICES ASSUME Init PROVE IInv
    OBVIOUS
  <2>1. TypeOK
    BY DEF Init, TypeOK, None
  <2>2. Settled /\ ChildInv /\ KillInv
    BY DEF Init, Settled, ChildInv, KillInv, Alive
  <2>3. ListInv
    BY DEF Init, ListInv, Active, Over
  <2>4. CapInv
    BY FS_EmptySet, JobsAssumption DEF Init, CapInv, Alive
  <2>5. RaiseInv
    BY DEF Init, RaiseInv
  <2> QED BY <2>1, <2>2, <2>3, <2>4, <2>5 DEF IInv
<1>2. IInv /\ [Next]_vars => IInv'
  BY TypeStep, ChildStep, SettledStep, ListStep, KillStep, CapStep, RaiseStep DEF IInv
<1> QED
  BY <1>1, <1>2, PTL DEF Spec

\* The values of every variable stay within their types.
THEOREM TypesHold == Spec => []TypeOK
BY InductiveInvariant, PTL DEF IInv

\* However many futures there are, at most ctx.jobs children run at once.
THEOREM CapHolds == Spec => []CapIsRespected
<1>1. IInv => CapIsRespected
  <2> SUFFICES ASSUME IInv PROVE CapIsRespected
    OBVIOUS
  <2> DEFINE alive == {f \in Futures : Alive(f)}
  <2>1. IsFiniteSet(slots) /\ Cardinality(slots) \in Nat
    BY FiniteSlots DEF IInv
  <2>2. IsFiniteSet(Running) /\ Cardinality(Running) <= Jobs /\ Cardinality(Running) \in Nat
    <3>1. CASE pc = "started"
      <4>1. Running = slots \cup {cur}
        BY <3>1 DEF Running
      <4>2. Cardinality(slots) < Jobs
        BY <3>1 DEF IInv, CapInv
      <4>3. Cardinality(slots \cup {cur}) <= Cardinality(slots) + 1 /\ IsFiniteSet(slots \cup {cur})
        BY <2>1, FS_AddElement
      <4>4. Cardinality(slots \cup {cur}) \in Nat
        BY <4>3, FS_CardinalityType
      <4> QED BY <2>1, <4>1, <4>2, <4>3, <4>4, JobsAssumption
    <3>2. CASE pc # "started"
      BY <2>1, <3>2 DEF IInv, CapInv, Running
    <3> QED BY <3>1, <3>2
  <2>3. alive \in SUBSET Running
    BY DEF IInv, CapInv
  <2>4. Cardinality(alive) <= Cardinality(Running) /\ IsFiniteSet(alive)
    BY <2>2, <2>3, FS_Subset
  <2>5. Cardinality(alive) \in Nat
    BY <2>4, FS_CardinalityType
  <2> HIDE DEF alive
  <2>6. Cardinality(alive) <= Jobs
    BY <2>2, <2>4, <2>5, JobsAssumption
  <2> QED BY <2>6 DEF alive, CapIsRespected
<1> QED
  BY <1>1, InductiveInvariant, PTL

\* By return or by exception, wait_for_all leaves every future decided and
\* no child, compiler or result file behind.
THEOREM NothingIsLeft == Spec => []NothingLeftBehind
<1>1. IInv => NothingLeftBehind
  BY DEF IInv, ListInv, Settled, NothingLeftBehind, Active
<1> QED
  BY <1>1, InductiveInvariant, PTL

\* wait_for_all does not return over an error it has to raise.
THEOREM ErrorsAreRaised == Spec => []NoErrorSwallowed
<1>1. IInv => NoErrorSwallowed
  BY DEF IInv, RaiseInv, NoErrorSwallowed
<1> QED
  BY <1>1, InductiveInvariant, PTL

-----------------------------------------------------------------------------
(* What a child did and what is made of it, for children whose exceptions  *)
(* are Exceptions.                                                         *)

\* A child's work, its report and its exit status go together.
WorkInv ==
  \A f \in Futures :
    /\ work[f] # "unwound"
    /\ life[f] \in {"unborn", "running"} => work[f] = "none"
    /\ life[f] = "ending" => work[f] # "none"
    /\ code[f] = "zero" => work[f] = "compiled"
    /\ ok[f] = "none" /\ work[f] = "compiled" => file[f] = "ok"

\* Only a child that overran is sent a signal before its verdict.
OverrunInv ==
  /\ pc = "mark" => ~Alive(cur) \/ expired[cur]
  /\ pc \in {"grace", "reap"} => expired[cur] /\ signal[cur] # "none"

\* The verdict on f is what became of its child.
Matches(f) ==
  /\ ok[f] = "yes" => work[f] = "compiled" /\ reason[f] = "ok"
  /\ reason[f] = "timeout" => expired[f]
  /\ work[f] = "compiled" /\ code[f] = "zero" =>
       ok[f] = "yes" \/ (reason[f] = "timeout" /\ signal[f] # "none")

Cancelled == pc \in {"killall", "cancel", "raised"}

MatchInv ==
  ~Cancelled => \A f \in Futures : ok[f] # "none" /\ life[f] # "unborn" => Matches(f)

VInv == WorkInv /\ OverrunInv /\ MatchInv

\* Deciding a future concerns no other one.
LEMMA DecideFrame ==
  ASSUME TypeOK, NEW f \in Futures, NEW verdict \in {"yes", "no"}, NEW why,
         Decide(f, verdict, why)
  PROVE  /\ ok'[f] # "none"
         /\ ok'[f] = IF file[f] \in AllClasses THEN "no" ELSE verdict
         /\ reason'[f] = IF ok'[f] = "yes" THEN "ok" ELSE why
         /\ \A g \in Futures \ {f} :
              ok'[g] = ok[g] /\ file'[g] = file[g] /\ reason'[g] = reason[g]
<1>1. ok'[f] = IF file[f] \in AllClasses THEN "no" ELSE verdict
  BY DEF TypeOK, Decide
<1>2. reason'[f] = IF ok'[f] = "yes" THEN "ok" ELSE why
  BY DEF TypeOK, Decide
<1>3. \A g \in Futures \ {f} :
        ok'[g] = ok[g] /\ file'[g] = file[g] /\ reason'[g] = reason[g]
  BY DEF TypeOK, Decide
<1> QED
  BY <1>1, <1>2, <1>3

\* The future the sweep or the cancellation decides.
LEMMA Deciding ==
  ASSUME IInv, MarkExited \/ ReapOverrun \/ Cancel
  PROVE  \E f \in Futures :
           /\ ok[f] = "none" /\ f = (IF pc = "cancel" THEN First(left) ELSE cur)
           /\ ~Alive(f)
           /\ \E verdict \in {"yes", "no"}, why \in {"error", "timeout"} : Decide(f, verdict, why)
<1>1. CASE MarkExited \/ ReapOverrun
  <2>1. cur \in Futures /\ ok[cur] = "none" /\ pc # "cancel" /\ ~Alive(cur)
    BY <1>1 DEF IInv, ListInv, Active, MarkExited, ReapOverrun
  <2>2. \E verdict \in {"yes", "no"}, why \in {"error", "timeout"} : Decide(cur, verdict, why)
    BY <1>1 DEF MarkExited, ReapOverrun
  <2> QED
    BY <2>1, <2>2
<1>2. CASE Cancel
  <2>1. First(left) \in left
    BY <1>2, FirstIn DEF IInv, TypeOK, Cancel
  <2>2. pc = "cancel" /\ left = Active /\ ~Alive(First(left)) /\ Decide(First(left), "no", "error")
    BY <1>2 DEF IInv, ListInv, Cancel
  <2> QED
    BY <2>1, <2>2 DEF Active
<1> QED
  BY <1>1, <1>2

\* A child's work, report and status stay together.
LEMMA WorkStep ==
  ASSUME ~MayUnwind, IInv, WorkInv, [Next]_vars
  PROVE  WorkInv'
<1>0. TypeOK
  BY DEF IInv
<1>1. CASE Start
  <2>1. First(Queued) \in Queued
    BY <1>0, <1>1, FirstIn DEF Start, HasRoom, Queued, TypeOK
  <2>2. First(Queued) \in Futures /\ life[First(Queued)] = "unborn"
    BY <1>0, <2>1 DEF TypeOK, Queued, IInv, ChildInv
  <2>3. \A f \in Futures : life'[f] = life[f] \/ (life[f] = "unborn" /\ life'[f] = "running")
    BY <1>0, <1>1, <2>2 DEF Start, TypeOK
  <2> QED
    BY <1>1, <2>3 DEF Start, WorkInv, fields
<1>2. CASE \/ Begin \/ StartFails \/ CountStarted \/ FillDone \/ WaitAny \/ Sweep \/ SweepDone
           \/ MarkOverrun \/ GraceOver \/ KillAll \/ CancelDone \/ Interrupt \/ UNCHANGED vars
  <2>1. UNCHANGED <<work, life, code, ok, file>>
    BY <1>2 DEF Begin, StartFails, CountStarted, FillDone, WaitAny, Sweep, SweepDone, MarkOverrun,
                GraceOver, KillAll, CancelDone, Interrupt, vars, fields, child
  <2> QED
    BY <2>1 DEF WorkInv
<1>3. CASE MarkExited \/ ReapOverrun \/ Cancel
  <2>1. PICK f \in Futures :
          \E verdict \in {"yes", "no"}, why \in {"error", "timeout"} : Decide(f, verdict, why)
    BY <1>3, Deciding
  <2>2. ok'[f] # "none" /\ \A g \in Futures \ {f} : ok'[g] = ok[g] /\ file'[g] = file[g]
    BY <1>0, <2>1, DecideFrame
  <2>3. UNCHANGED <<work, life, code>>
    BY <1>3 DEF MarkExited, ReapOverrun, Cancel
  <2> QED
    BY <2>2, <2>3 DEF WorkInv
<1>4. ASSUME NEW f \in Futures, ChildCallsCompiler(f) \/ CompilerExits(f) \/ Expire(f)
      PROVE  WorkInv'
  BY <1>4 DEF ChildCallsCompiler, CompilerExits, Expire, WorkInv, fields, child
<1>5. ASSUME NEW f \in Futures, ChildSucceeds(f) PROVE WorkInv'
  BY <1>0, <1>5 DEF ChildSucceeds, WorkInv, TypeOK, Runs, IInv, ChildInv, fields
<1>6. ASSUME NEW f \in Futures, ChildFails(f) PROVE WorkInv'
  <2>1. /\ work' = [work EXCEPT ![f] = "failed"] /\ life' = [life EXCEPT ![f] = "ending"]
        /\ \A g \in Futures \ {f} : file'[g] = file[g]
        /\ UNCHANGED <<ok, code>> /\ life[f] = "running"
    BY <1>0, <1>6 DEF ChildFails, Failures, Runs, TypeOK, fields
  <2>2. code[f] = "none"
    BY <2>1 DEF IInv, ChildInv
  <2> QED
    BY <1>0, <2>1, <2>2 DEF WorkInv, TypeOK
<1>7. ASSUME NEW f \in Futures, ChildExits(f) \/ ChildDies(f) PROVE WorkInv'
  <2>1. /\ UNCHANGED <<work, ok, file>> /\ life' = [life EXCEPT ![f] = "gone"]
        /\ code' = [code EXCEPT ![f] = "nonzero"]
           \/ (code' = [code EXCEPT ![f] = ExitStatus(f)] /\ life[f] = "ending")
    BY <1>7 DEF ChildExits, ChildDies, fields
  <2>2. life[f] = "ending" /\ ExitStatus(f) = "zero" => work[f] = "compiled"
    BY <1>0 DEF WorkInv, ExitStatus, TypeOK
  <2> QED
    BY <1>0, <2>1, <2>2 DEF WorkInv, TypeOK
<1> QED
  BY <1>1, <1>2, <1>3, <1>4, <1>5, <1>6, <1>7 DEF Next, Parent, Child

\* A child seen to have exited stays so, and so does one that overran.
LEMMA OverrunStep ==
  ASSUME IInv, OverrunInv, [Next]_vars
  PROVE  OverrunInv'
<1>0. TypeOK /\ (pc \in {"mark", "grace", "reap"} => cur \in Futures)
  BY DEF IInv, ListInv, Active
<1>1. CASE Sweep
  <2>1. First(left) \in left
    BY <1>0, <1>1, FirstIn DEF Sweep, TypeOK
  <2>2. UNCHANGED <<life, expired>>
    BY <1>1 DEF Sweep, child
  <2> QED
    BY <1>0, <1>1, <2>1, <2>2 DEF Sweep, OverrunInv, Goto, Alive, TypeOK
<1>2. CASE MarkOverrun
  BY <1>0, <1>2 DEF MarkOverrun, OverrunInv, Goto, TypeOK
<1>3. CASE GraceOver
  <2>1. signal'[cur] # "none"
    BY <1>0, <1>3 DEF GraceOver, KillGroups, OverrunInv
  <2> QED
    BY <1>3, <2>1 DEF GraceOver, OverrunInv, Goto
<1>4. CASE \/ Begin \/ Start \/ StartFails \/ CountStarted \/ FillDone \/ WaitAny \/ SweepDone
           \/ MarkExited \/ ReapOverrun \/ KillAll \/ Cancel \/ CancelDone \/ Interrupt
  <2>1. pc' \notin {"mark", "grace", "reap"}
    BY <1>4 DEF Begin, Start, StartFails, CountStarted, FillDone, WaitAny, SweepDone, MarkExited,
                ReapOverrun, KillAll, Cancel, CancelDone, Interrupt, Goto, Continue
  <2> QED
    BY <2>1 DEF OverrunInv
<1>5. ASSUME NEW f \in Futures, Child(f) \/ Expire(f) PROVE OverrunInv'
  <2>1. UNCHANGED <<pc, cur, signal>>
    BY <1>5 DEF Child, ChildCallsCompiler, CompilerExits, ChildSucceeds, ChildFails, ChildExits,
                ChildDies, Expire, parent, child
  <2>2. \A g \in Futures : (Alive(g)' => Alive(g)) /\ (expired[g] => expired'[g])
    <3>1. CASE Child(f)
      BY <1>0, <3>1 DEF Child, ChildCallsCompiler, CompilerExits, ChildSucceeds, ChildFails,
                        ChildExits, ChildDies, Runs, Alive, TypeOK
    <3>2. CASE Expire(f)
      BY <1>0, <3>2 DEF Expire, Alive, TypeOK, child
    <3> QED
      BY <1>5, <3>1, <3>2
  <2> QED
    BY <1>0, <2>1, <2>2 DEF OverrunInv
<1>6. CASE UNCHANGED vars
  BY <1>6 DEF OverrunInv, Alive, vars, parent, child
<1> QED
  BY <1>1, <1>2, <1>3, <1>4, <1>5, <1>6 DEF Next, Parent
\* A verdict that fits stays so while what it was made from does.
LEMMA MatchesStays ==
  ASSUME NEW f \in Futures, Matches(f),
         ok'[f] = ok[f], reason'[f] = reason[f], work'[f] = work[f], code'[f] = code[f],
         expired[f] => expired'[f], signal[f] # "none" => signal'[f] # "none"
  PROVE  Matches(f)'
BY DEF Matches

\* Every verdict given outside a cancellation fits what became of the child.
LEMMA MatchStep ==
  ASSUME IInv, VInv, WorkInv', [Next]_vars
  PROVE  MatchInv'
<1>0. TypeOK
  BY DEF IInv
<1> SUFFICES ASSUME ~Cancelled', NEW f \in Futures, ok'[f] # "none", life'[f] # "unborn"
             PROVE  Matches(f)'
  BY DEF MatchInv
<1>1. CASE \/ Begin \/ CountStarted \/ FillDone \/ WaitAny \/ Sweep \/ SweepDone
           \/ UNCHANGED vars
  <2>1. UNCHANGED <<ok, reason, work, life, code, signal, expired>> /\ ~Cancelled
    BY <1>1 DEF Begin, CountStarted, FillDone, WaitAny, Sweep, SweepDone, Cancelled, vars,
                parent, fields, child
  <2>2. Matches(f)
    BY <2>1 DEF VInv, MatchInv
  <2> QED
    BY <2>1, <2>2, MatchesStays
<1>2. CASE Start
  <2>1. First(Queued) \in Queued
    BY <1>0, <1>2, FirstIn DEF Start, HasRoom, Queued, TypeOK
  <2>2. ok[First(Queued)] = "none" /\ First(Queued) \in Futures
    BY <1>2, <2>1 DEF IInv, ListInv, Start, Queued, Active
  <2>3. UNCHANGED <<ok, reason, work, code, signal, expired>> /\ ~Cancelled
    BY <1>2 DEF Start, Cancelled, fields
  <2>4. f # First(Queued)
    BY <2>2, <2>3
  <2>5. life[f] # "unborn"
    BY <1>0, <1>2, <2>2, <2>4 DEF Start, TypeOK
  <2>6. Matches(f)
    BY <2>3, <2>5 DEF VInv, MatchInv
  <2> QED
    BY <2>3, <2>6, MatchesStays
<1>3. CASE MarkOverrun \/ GraceOver
  <2>1. UNCHANGED <<ok, reason, work, life, code, expired>> /\ ~Cancelled
    BY <1>3 DEF MarkOverrun, GraceOver, Cancelled, fields
  <2>2. signal[f] # "none" => signal'[f] # "none"
    BY <1>0, <1>3 DEF MarkOverrun, GraceOver, KillGroups, TypeOK
  <2>3. Matches(f)
    BY <2>1 DEF VInv, MatchInv
  <2> QED
    BY <2>1, <2>2, <2>3, MatchesStays
<1>4. CASE MarkExited \/ ReapOverrun
  <2>1. cur \in Futures /\ ok[cur] = "none" /\ ~Alive(cur) /\ ~Cancelled
        /\ UNCHANGED <<work, life, code, expired>>
    BY <1>4 DEF IInv, ListInv, Active, MarkExited, ReapOverrun, Cancelled
  <2>2. signal[f] # "none" => signal'[f] # "none"
    BY <1>0, <1>4 DEF MarkExited, ReapOverrun, KillGroups, TypeOK
  <2>3. CASE f # cur
    <3>1. ok'[f] = ok[f] /\ reason'[f] = reason[f]
      BY <1>0, <1>4, <2>1, <2>3, DecideFrame DEF MarkExited, ReapOverrun
    <3>2. Matches(f)
      BY <2>1, <3>1 DEF VInv, MatchInv
    <3> QED
      BY <2>1, <2>2, <3>1, <3>2, MatchesStays
  <2>4. CASE f = cur /\ MarkExited /\ code[cur] = "zero"
    <3>1. Decide(cur, "yes", "error")
      BY <2>4 DEF MarkExited
    <3>2. work[cur] = "compiled" /\ file[cur] = "ok"
      BY <2>1, <2>4 DEF VInv, WorkInv
    <3>3. ok'[cur] = "yes" /\ reason'[cur] = "ok"
      BY <1>0, <2>1, <3>1, <3>2, DecideFrame DEF AllClasses
    <3> QED
      BY <2>1, <2>4, <3>2, <3>3 DEF Matches
  <2>5. CASE f = cur /\ MarkExited /\ code[cur] # "zero"
    <3>1. Decide(cur, "no", "error")
      BY <2>5 DEF MarkExited
    <3>2. ok'[cur] = "no" /\ reason'[cur] = "error"
      BY <1>0, <2>1, <3>1, DecideFrame
    <3> QED
      BY <2>1, <2>5, <3>2 DEF Matches
  <2>6. CASE f = cur /\ ReapOverrun
    <3>1. Decide(cur, "no", "timeout") /\ signal' = signal
      BY <2>6 DEF ReapOverrun
    <3>2. ok'[cur] = "no" /\ reason'[cur] = "timeout"
      BY <1>0, <2>1, <3>1, DecideFrame
    <3>3. expired[cur] /\ signal[cur] # "none"
      BY <2>6 DEF VInv, OverrunInv, ReapOverrun
    <3> QED
      BY <2>1, <2>6, <3>1, <3>2, <3>3 DEF Matches
  <2> QED
    BY <1>4, <2>3, <2>4, <2>5, <2>6
<1>5. CASE StartFails \/ KillAll \/ Cancel \/ CancelDone \/ Interrupt
  BY <1>5 DEF StartFails, KillAll, Cancel, CancelDone, Interrupt, Cancelled, Goto
<1>6. ASSUME NEW g \in Futures, Child(g) PROVE Matches(f)'
  <2>1. UNCHANGED <<pc, ok, reason, signal, expired>>
    BY <1>6 DEF Child, ChildCallsCompiler, CompilerExits, ChildSucceeds, ChildFails, ChildExits,
                ChildDies, parent, fields, child
  <2>2. ~Alive(f) /\ ~helper[f]
    BY <2>1 DEF IInv, Settled
  <2>3. work'[f] = work[f] /\ code'[f] = code[f] /\ life'[f] = life[f]
    BY <1>0, <1>6, <2>2 DEF Child, ChildCallsCompiler, CompilerExits, ChildSucceeds, ChildFails,
                            ChildExits, ChildDies, Runs, Alive, TypeOK
  <2>4. Matches(f)
    BY <2>1, <2>3 DEF VInv, MatchInv, Cancelled
  <2> QED
    BY <2>1, <2>3, <2>4, MatchesStays
<1>7. ASSUME NEW g \in Futures, Expire(g) PROVE Matches(f)'
  <2>1. UNCHANGED <<pc, ok, reason, work, life, code, signal>>
    BY <1>7 DEF Expire, parent, fields, child
  <2>2. expired[f] => expired'[f]
    BY <1>0, <1>7 DEF Expire, TypeOK
  <2>3. Matches(f)
    BY <2>1 DEF VInv, MatchInv, Cancelled
  <2> QED
    BY <2>1, <2>2, <2>3, MatchesStays
<1> QED
  BY <1>1, <1>2, <1>3, <1>4, <1>5, <1>6, <1>7 DEF Next, Parent

\* What wait_for_all returns is what became of the children, as long as no
\* child meets an exception that is not an Exception: such a child exits with
\* status 0 and no result, which is taken for a success.
THEOREM VerdictsMatch == ~MayUnwind => (Spec => []VerdictMatchesChild)
<1> SUFFICES ASSUME ~MayUnwind PROVE Spec => []VerdictMatchesChild
  OBVIOUS
<1>1. Init => VInv
  <2> SUFFICES ASSUME Init PROVE VInv
    OBVIOUS
  <2>1. WorkInv /\ OverrunInv
    BY DEF Init, WorkInv, OverrunInv
  <2>2. MatchInv
    BY DEF Init, MatchInv
  <2> QED
    BY <2>1, <2>2 DEF VInv
<1>2. IInv /\ VInv /\ [Next]_vars => VInv'
  <2> SUFFICES ASSUME IInv, VInv, [Next]_vars PROVE VInv'
    OBVIOUS
  <2>1. WorkInv' /\ OverrunInv'
    BY WorkStep, OverrunStep DEF VInv
  <2>2. MatchInv'
    BY <2>1, MatchStep
  <2> QED
    BY <2>1, <2>2 DEF VInv
<1>3. IInv /\ VInv => VerdictMatchesChild
  <2> SUFFICES ASSUME IInv, VInv, pc = "returned", NEW f \in Futures, started[f],
                      life[f] # "unborn"
               PROVE  Matches(f)
    BY DEF VerdictMatchesChild, Matches
  <2>1. ok[f] # "none"
    BY DEF IInv, ListInv, Over, Active
  <2> QED
    BY <2>1 DEF VInv, MatchInv, Cancelled
<1> QED
  BY <1>1, <1>2, <1>3, InductiveInvariant, PTL DEF Spec

=============================================================================
