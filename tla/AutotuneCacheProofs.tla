------------------------ MODULE AutotuneCacheProofs ------------------------
(***************************************************************************)
(* Proofs about AutotuneCache, for any number of calls, directories and    *)
(* trials: the types, that every entry that can be found is sound, and     *)
(* that no call searches for what was there.                               *)
(***************************************************************************)
EXTENDS AutotuneCache, TLAPS

USE DirsAssumption, KAssumption

-----------------------------------------------------------------------------
(* The inductive invariant.                                                *)

\* Configs that were found by a call which publishes what it finds.
Shared == {f \in tuned : pc[f[1]] # "start" /\ mode[f[1]] # "skip"}

Sound(e) == e.whole /\ e.config \in Shared

\* What put has in hand at each of its steps.
Putting == {"write", "fill", "rename", "ship", "send"}
HasSound(c) ==
  /\ pc[c] \in Putting => mine[c] # {} /\ mine[c] \subseteq Shared
  /\ pc[c] = "done" => mine[c] # {} /\ mine[c] \subseteq tuned
  /\ \A e \in payload[c] : Sound(e)
  /\ pc[c] = "send" => payload[c] # {}
PutInv == \A c \in Calls : HasSound(c)

\* The temporary file of a call: nobody else writes it, and before the rename
\* it is filled.
TmpIs(c) ==
  /\ pc[c] \notin {"fill", "rename", "raised", "dead"} => tmp[c] = {}
  /\ pc[c] = "rename" =>
       tmp[c] # {} /\ \A e \in tmp[c] : e.whole /\ e.config \in mine[c]
TmpInv == \A c \in Calls : TmpIs(c)

\* What others can find; once there is an entry there always is one.
Knows(c) ==
  /\ pc[c] = "ship" => file[DirOf[c]] # {}
  /\ "file" \in known[c] => file[DirOf[c]] # {}
  /\ "remote" \in known[c] => remote # {}
EntryInv ==
  /\ \A e \in Published : Sound(e)
  /\ \A c \in Calls : Knows(c)

\* Where a call may still be when it knows of an entry.
SearchIs(c) ==
  /\ pc[c] = "start" => known[c] = {}
  /\ pc[c] = "local" => "remote" \notin known[c]
  /\ pc[c] \in {"remote", "local"} => Reads(mode[c])
  /\ pc[c] = "tune" /\ Reads(mode[c]) => known[c] = {}
SearchInv == \A c \in Calls : SearchIs(c)

HistoryInv ==
  /\ \A f \in tuned : pc[f[1]] # "start"
  /\ tolerant => tuned = timed

IInv == TypeOK /\ PutInv /\ TmpInv /\ EntryInv /\ SearchInv /\ HistoryInv

\* It holds at the start.
LEMMA InitIInv == Init => IInv
<1> SUFFICES ASSUME Init PROVE IInv
  OBVIOUS
<1>1. TypeOK
  BY DEF Init, TypeOK, Modes, AtMostOne
<1>2. PutInv /\ TmpInv /\ SearchInv /\ HistoryInv
  BY DEF Init, PutInv, HasSound, Putting, TmpInv, TmpIs, SearchInv, SearchIs, HistoryInv
<1>3. EntryInv
  BY DEF Init, EntryInv, Knows, Published
<1> QED
  BY <1>1, <1>2, <1>3 DEF IInv

-----------------------------------------------------------------------------
(* The types.                                                              *)

\* What a call writes to a file is one entry if it holds one config.
LEMMA EntriesOf ==
  ASSUME NEW F, F \subseteq Found, AtMostOne(F), NEW b \in BOOLEAN
  PROVE  LET E == {[config |-> f, whole |-> b] : f \in F} IN E \in SUBSET Entry /\ AtMostOne(E)
<1> DEFINE E == {[config |-> f, whole |-> b] : f \in F}
<1>1. ASSUME NEW e \in E PROVE e \in Entry
  <2>1. PICK f \in F : e = [config |-> f, whole |-> b]
    OBVIOUS
  <2> QED
    BY <2>1 DEF Entry
<1>2. ASSUME NEW x \in E, NEW y \in E PROVE x = y
  <2>1. PICK f \in F : x = [config |-> f, whole |-> b]
    OBVIOUS
  <2>2. PICK g \in F : y = [config |-> g, whole |-> b]
    OBVIOUS
  <2>3. f = g
    BY DEF AtMostOne
  <2> QED
    BY <2>1, <2>2, <2>3
<1> QED
  BY <1>1, <1>2 DEF AtMostOne

\* Every step keeps the types, and what may be absent stays at most one thing.
LEMMA TypeStep == TypeOK /\ [Next]_vars => TypeOK'
<1> SUFFICES ASSUME TypeOK, [Next]_vars PROVE TypeOK'
  OBVIOUS
<1> USE DEF TypeOK, AtMostOne, GoTo, Local, store
<1>1. CASE UNCHANGED vars
  BY <1>1 DEF vars
<1>2. ASSUME NEW c \in Calls, Begin(c) PROVE TypeOK'
  BY <1>2 DEF Begin, Modes, Reads
<1>3. ASSUME NEW c \in Calls, RemoteGet(c) PROVE TypeOK'
  BY <1>3 DEF RemoteGet, Entry
<1>4. ASSUME NEW c \in Calls, RemoteGetFails(c) PROVE TypeOK'
  BY <1>4 DEF RemoteGetFails
<1>5. ASSUME NEW c \in Calls, LocalGet(c) PROVE TypeOK'
  BY <1>5 DEF LocalGet, Entry
<1>6. ASSUME NEW c \in Calls, Tune(c) PROVE TypeOK'
  BY <1>6 DEF Tune, Winners, Found
<1>7. ASSUME NEW c \in Calls, Write(c) PROVE TypeOK'
  <2> DEFINE E == {[config |-> f, whole |-> FALSE] : f \in mine[c]}
  <2>1. mine[c] \subseteq Found /\ AtMostOne(mine[c])
    OBVIOUS
  <2>2. E \in SUBSET Entry /\ AtMostOne(E)
    BY <2>1, EntriesOf
  <2>3. tmp' = [tmp EXCEPT ![c] = E]
    BY <1>7 DEF Write, TmpOf
  <2> HIDE DEF E
  <2>4. tmp' \in [Calls \cup Dirs -> SUBSET Entry]
    BY <2>2, <2>3
  <2>5. \A n \in Calls \cup Dirs : AtMostOne(tmp'[n])
    BY <2>2, <2>3
  <2> QED
    BY <1>7, <2>4, <2>5 DEF Write
<1>8. ASSUME NEW c \in Calls, Fill(c) PROVE TypeOK'
  <2> DEFINE E == {[config |-> f, whole |-> TRUE] : f \in mine[c]}
  <2>1. mine[c] \subseteq Found /\ AtMostOne(mine[c])
    OBVIOUS
  <2>2. E \in SUBSET Entry /\ AtMostOne(E)
    BY <2>1, EntriesOf
  <2>3. tmp' = [tmp EXCEPT ![c] = E]
    BY <1>8 DEF Fill, TmpOf
  <2> HIDE DEF E
  <2>4. tmp' \in [Calls \cup Dirs -> SUBSET Entry]
    BY <2>2, <2>3
  <2>5. \A n \in Calls \cup Dirs : AtMostOne(tmp'[n])
    BY <2>2, <2>3
  <2> QED
    BY <1>8, <2>4, <2>5 DEF Fill
<1>9. ASSUME NEW c \in Calls, WriteFails(c) PROVE TypeOK'
  BY <1>9 DEF WriteFails
<1>10. ASSUME NEW c \in Calls, Rename(c) PROVE TypeOK'
  BY <1>10 DEF Rename, TmpOf
<1>11. ASSUME NEW c \in Calls, Ship(c) PROVE TypeOK'
  BY <1>11 DEF Ship
<1>12. ASSUME NEW c \in Calls, Send(c) PROVE TypeOK'
  BY <1>12 DEF Send
<1>13. ASSUME NEW c \in Calls, Dies(c) PROVE TypeOK'
  BY <1>13 DEF Dies
<1> QED
  BY <1>1, <1>2, <1>3, <1>4, <1>5, <1>6, <1>7, <1>8, <1>9, <1>10, <1>11, <1>12, <1>13
  DEF Next, Terminated

-----------------------------------------------------------------------------
(* What never goes away.                                                   *)

\* Where there was an entry there is one.
EntriesKept ==
  /\ \A d \in Dirs : file[d] # {} => file'[d] # {}
  /\ remote # {} => remote' # {}

\* A config that may be shared stays one: its call does not begin again.
LEMMA SharedGrows == IInv /\ [Next]_vars => Shared \subseteq Shared'
<1> SUFFICES ASSUME IInv, [Next]_vars PROVE Shared \subseteq Shared'
  OBVIOUS
<1> USE DEF IInv, TypeOK, HistoryInv, Shared, GoTo, Found
<1>1. CASE UNCHANGED vars
  BY <1>1 DEF vars
<1>2. ASSUME NEW c \in Calls, Begin(c) PROVE Shared \subseteq Shared'
  BY <1>2 DEF Begin
<1>3. ASSUME NEW c \in Calls, Tune(c) PROVE Shared \subseteq Shared'
  BY <1>3 DEF Tune
<1>4. ASSUME NEW c \in Calls,
             \/ RemoteGet(c) \/ RemoteGetFails(c) \/ LocalGet(c) \/ Write(c) \/ Fill(c)
             \/ WriteFails(c) \/ Rename(c) \/ Ship(c) \/ Send(c) \/ Dies(c)
      PROVE  Shared \subseteq Shared'
  BY <1>4 DEF RemoteGet, RemoteGetFails, LocalGet, Write, Fill, WriteFails, Rename, Ship, Send, Dies
<1> QED
  BY <1>1, <1>2, <1>3, <1>4 DEF Next, Terminated

\* No rename and no send removes an entry without putting one in its place.
LEMMA EntriesStay == IInv /\ [Next]_vars => EntriesKept
<1> SUFFICES ASSUME IInv, [Next]_vars PROVE EntriesKept
  OBVIOUS
<1> USE DEF IInv, TypeOK, EntriesKept, store
<1>1. CASE UNCHANGED vars
  BY <1>1 DEF vars
<1>2. ASSUME NEW c \in Calls, Rename(c) PROVE EntriesKept
  BY <1>2 DEF Rename, TmpInv, TmpIs, TmpOf
<1>3. ASSUME NEW c \in Calls, Send(c) PROVE EntriesKept
  BY <1>3 DEF Send, PutInv, HasSound
<1>4. ASSUME NEW c \in Calls,
             \/ Begin(c) \/ RemoteGet(c) \/ RemoteGetFails(c) \/ LocalGet(c) \/ Tune(c)
             \/ Write(c) \/ Fill(c) \/ WriteFails(c) \/ Ship(c) \/ Dies(c)
      PROVE  EntriesKept
  BY <1>4 DEF Begin, RemoteGet, RemoteGetFails, LocalGet, Tune, Write, Fill, WriteFails, Ship, Dies
<1> QED
  BY <1>1, <1>2, <1>3, <1>4 DEF Next, Terminated

\* What is sound stays so, and no search is forgotten.
LEMMA SoundStays ==
  IInv /\ [Next]_vars => tuned \subseteq tuned' /\ \A e : Sound(e) => Sound(e)'
<1> SUFFICES ASSUME IInv, [Next]_vars
             PROVE  tuned \subseteq tuned' /\ \A e : Sound(e) => Sound(e)'
  OBVIOUS
<1>1. Shared \subseteq Shared'
  BY SharedGrows
<1>2. tuned \subseteq tuned'
  BY DEF Next, vars, Begin, RemoteGet, RemoteGetFails, LocalGet, Tune, Write, Fill, WriteFails,
         Rename, Ship, Send, Dies, Terminated
<1> QED
  BY <1>1, <1>2 DEF Sound

-----------------------------------------------------------------------------
(* The other parts of the invariant.                                       *)

\* What a call is about to publish was found by a search that shares.
LEMMA PutStep == IInv /\ [Next]_vars => PutInv'
<1> SUFFICES ASSUME IInv, [Next]_vars, NEW d \in Calls PROVE HasSound(d)'
  BY DEF PutInv
<1>1. HasSound(d) /\ EntryInv /\ TypeOK
  BY DEF IInv, PutInv
<1>2. tuned \subseteq tuned' /\ Shared \subseteq Shared' /\ \A e : Sound(e) => Sound(e)'
  BY SharedGrows, SoundStays
<1> USE DEF HasSound, Putting, GoTo, store
<1>3. CASE UNCHANGED vars
  BY <1>1, <1>2, <1>3 DEF vars
<1>4. ASSUME NEW c \in Calls, Begin(c) PROVE HasSound(d)'
  BY <1>1, <1>2, <1>4 DEF Begin, TypeOK
<1>5. ASSUME NEW c \in Calls, RemoteGet(c) PROVE HasSound(d)'
  <2>1. \A e \in remote : e.config \in Shared
    BY <1>1 DEF EntryInv, Published, Sound
  <2>2. CASE c = d
    <3> DEFINE F == {e.config : e \in remote}
    <3>1. F \subseteq Shared /\ (remote # {} => F # {})
      BY <2>1
    <3>2. /\ mine'[d] = F /\ payload'[d] = payload[d]
          /\ pc'[d] = IF remote = {} THEN "local" ELSE "write"
      BY <1>1, <1>5, <2>2 DEF RemoteGet, TypeOK
    <3> HIDE DEF F
    <3> QED
      BY <1>1, <1>2, <3>1, <3>2
  <2>3. CASE c # d
    BY <1>1, <1>2, <1>5, <2>3 DEF RemoteGet, TypeOK
  <2> QED
    BY <2>2, <2>3
<1>6. ASSUME NEW c \in Calls, LocalGet(c) PROVE HasSound(d)'
  <2>1. \A e \in Local(c) : e.config \in tuned
    BY <1>1 DEF EntryInv, Published, Sound, Shared, Local
  <2> QED
    BY <1>1, <1>2, <1>6, <2>1 DEF LocalGet, TypeOK
<1>7. ASSUME NEW c \in Calls, Tune(c) PROVE HasSound(d)'
  <2>1. CASE c = d
    <3>1. payload'[d] = payload[d] /\ mode'[d] = mode[d] /\ pc'[d] \in {"raised", "done", "write"}
      BY <1>1, <1>7, <2>1 DEF Tune, TypeOK
    <3>2. CASE pc'[d] = "raised"
      BY <1>1, <1>2, <3>1, <3>2
    <3>3. CASE pc'[d] # "raised"
      <4>1. PICK i \in 1..K : mine'[d] = {<<d, i>>} /\ tuned' = tuned \cup {<<d, i>>}
        BY <1>1, <1>7, <2>1, <3>3 DEF Tune, TypeOK, Winners
      <4>2. pc'[d] = IF mode[d] = "skip" THEN "done" ELSE "write"
        BY <1>1, <1>7, <2>1, <3>3 DEF Tune, TypeOK
      <4>3. pc'[d] = "write" => <<d, i>> \in Shared'
        BY <3>1, <4>1, <4>2 DEF Shared
      <4> QED
        BY <1>1, <1>2, <3>1, <4>1, <4>2, <4>3
    <3> QED
      BY <3>2, <3>3
  <2>2. CASE c # d
    BY <1>1, <1>2, <1>7, <2>2 DEF Tune, TypeOK
  <2> QED
    BY <2>1, <2>2
<1>8. ASSUME NEW c \in Calls, Ship(c) PROVE HasSound(d)'
  <2>1. Local(c) # {} => \A e \in Local(c) : Sound(e)
    BY <1>1 DEF EntryInv, Published, Local
  <2> QED
    BY <1>1, <1>2, <1>8, <2>1 DEF Ship, TypeOK, EntryInv, Local, Knows
<1>9. ASSUME NEW c \in Calls, \/ RemoteGetFails(c) \/ Write(c) \/ Fill(c)
                           \/ WriteFails(c) \/ Rename(c) \/ Send(c) \/ Dies(c)
      PROVE  HasSound(d)'
  BY <1>1, <1>2, <1>9
  DEF RemoteGetFails, Write, Fill, WriteFails, Rename, Send, Dies, TypeOK, Shared
<1> QED
  BY <1>3, <1>4, <1>5, <1>6, <1>7, <1>8, <1>9 DEF Next, Terminated

\* Each call has a temporary file of its own.
LEMMA TmpStep == IInv /\ [Next]_vars => TmpInv'
<1> SUFFICES ASSUME IInv, [Next]_vars, NEW d \in Calls PROVE TmpIs(d)'
  BY DEF TmpInv
<1>1. TmpIs(d) /\ HasSound(d) /\ TypeOK
  BY DEF IInv, TmpInv, PutInv
<1> USE DEF TmpIs, GoTo, store, TmpOf
<1>2. CASE UNCHANGED vars
  BY <1>1, <1>2 DEF vars
<1>3. ASSUME NEW c \in Calls, Write(c) PROVE TmpIs(d)'
  BY <1>1, <1>3 DEF Write, TypeOK
<1>4. ASSUME NEW c \in Calls, Fill(c) PROVE TmpIs(d)'
  <2>1. CASE c = d
    <3> DEFINE E == {[config |-> f, whole |-> TRUE] : f \in mine[d]}
    <3>1. mine[d] # {}
      BY <1>1, <1>4, <2>1 DEF Fill, HasSound, Putting
    <3>2. E # {} /\ \A e \in E : e.whole /\ e.config \in mine[d]
      <4>1. PICK f \in mine[d] : TRUE
        BY <3>1
      <4>2. [config |-> f, whole |-> TRUE] \in E
        OBVIOUS
      <4>3. ASSUME NEW e \in E PROVE e.whole /\ e.config \in mine[d]
        <5>1. PICK g \in mine[d] : e = [config |-> g, whole |-> TRUE]
          OBVIOUS
        <5> QED
          BY <5>1
      <4> QED
        BY <4>2, <4>3
    <3>3. tmp'[d] = E /\ mine' = mine /\ pc'[d] = "rename"
      BY <1>1, <1>4, <2>1 DEF Fill, TypeOK
    <3> HIDE DEF E
    <3> QED
      BY <3>2, <3>3
  <2>2. CASE c # d
    BY <1>1, <1>4, <2>2 DEF Fill, TypeOK
  <2> QED
    BY <2>1, <2>2
<1>5. ASSUME NEW c \in Calls, Rename(c) PROVE TmpIs(d)'
  BY <1>1, <1>5 DEF Rename, TypeOK
<1>6. ASSUME NEW c \in Calls, \/ Begin(c) \/ RemoteGet(c) \/ RemoteGetFails(c) \/ LocalGet(c)
                           \/ Tune(c) \/ WriteFails(c) \/ Ship(c) \/ Send(c) \/ Dies(c)
      PROVE  TmpIs(d)'
  BY <1>1, <1>6
  DEF Begin, RemoteGet, RemoteGetFails, LocalGet, Tune, WriteFails, Ship, Send, Dies, TypeOK
<1> QED
  BY <1>2, <1>3, <1>4, <1>5, <1>6 DEF Next, Terminated

\* What replaces an entry is sound, and it stays where it was known to be.
LEMMA EntryStep == IInv /\ [Next]_vars => EntryInv'
<1> SUFFICES ASSUME IInv, [Next]_vars PROVE EntryInv'
  OBVIOUS
<1>1. TypeOK /\ EntryInv /\ PutInv /\ TmpInv
  BY DEF IInv
<1>2. EntriesKept /\ \A e : Sound(e) => Sound(e)'
  BY EntriesStay, SoundStays
<1> USE DEF GoTo, store
<1>3. ASSUME NEW e \in Published' PROVE Sound(e)'
  <2>1. CASE e \in Published
    BY <1>1, <1>2, <2>1 DEF EntryInv
  <2>2. CASE e \notin Published
    <3>1. ASSUME NEW c \in Calls, Rename(c) PROVE Sound(e)'
      <4>1. e \in tmp[c]
        BY <1>1, <2>2, <3>1 DEF Rename, TmpOf, Published, TypeOK
      <4>2. e.whole /\ e.config \in mine[c] /\ mine[c] \subseteq Shared
        BY <1>1, <3>1, <4>1 DEF Rename, PutInv, HasSound, Putting, TmpInv, TmpIs
      <4> QED
        BY <1>2, <4>2 DEF Sound
    <3>2. ASSUME NEW c \in Calls, Send(c) PROVE Sound(e)'
      <4>1. e \in payload[c]
        BY <2>2, <3>2 DEF Send, Published
      <4> QED
        BY <1>1, <1>2, <4>1 DEF PutInv, HasSound
    <3>3. ASSUME file' # file \/ remote' # remote
          PROVE  \E c \in Calls : Rename(c) \/ Send(c)
      BY <3>3 DEF Next, vars, Begin, RemoteGet, RemoteGetFails, LocalGet, Tune, Write, Fill,
                  WriteFails, Ship, Dies, Terminated
    <3> QED
      BY <2>2, <3>1, <3>2, <3>3 DEF Published
  <2> QED
    BY <2>1, <2>2
<1>4. ASSUME NEW d \in Calls PROVE Knows(d)'
  <2>1. Knows(d)
    BY <1>1 DEF EntryInv
  <2>2. DirOf[d] \in Dirs
    OBVIOUS
  <2>3. ASSUME NEW c \in Calls, Begin(c) PROVE Knows(d)'
    BY <1>1, <2>1, <2>3 DEF Begin, Knows, TypeOK, Local
  <2>4. ASSUME NEW c \in Calls, Rename(c) PROVE Knows(d)'
    <3>1. tmp[c] # {}
      BY <1>1, <2>4 DEF Rename, TmpInv, TmpIs
    <3>2. file'[DirOf[c]] # {}
      BY <1>1, <2>4, <3>1 DEF Rename, TypeOK, TmpOf
    <3> QED
      BY <1>1, <1>2, <2>1, <2>2, <2>4, <3>2 DEF Rename, Knows, TypeOK, EntriesKept
  <2>5. CASE \/ UNCHANGED vars
             \/ \E c \in Calls :
                  \/ RemoteGet(c) \/ RemoteGetFails(c) \/ LocalGet(c) \/ Tune(c) \/ Write(c)
                  \/ Fill(c) \/ WriteFails(c) \/ Ship(c) \/ Send(c) \/ Dies(c)
    <3>1. known'[d] \subseteq known[d] /\ (pc'[d] = "ship" => pc[d] = "ship")
      BY <1>1, <2>5 DEF TypeOK, vars, RemoteGet, RemoteGetFails, LocalGet, Tune, Write, Fill,
                        WriteFails, Ship, Send, Dies
    <3> QED
      BY <1>2, <2>1, <2>2, <3>1 DEF EntriesKept, Knows
  <2> QED
    BY <2>3, <2>4, <2>5 DEF Next, Terminated
<1> QED
  BY <1>3, <1>4 DEF EntryInv

\* A call that knows of an entry finds it.
LEMMA SearchStep == IInv /\ [Next]_vars => SearchInv'
<1> SUFFICES ASSUME IInv, [Next]_vars, NEW d \in Calls PROVE SearchIs(d)'
  BY DEF SearchInv
<1>1. SearchIs(d) /\ Knows(d) /\ TypeOK /\ \A e \in Published : e.whole
  BY DEF IInv, SearchInv, EntryInv, Sound
<1> USE DEF SearchIs, GoTo, store, Reads
<1>2. CASE UNCHANGED vars
  BY <1>1, <1>2 DEF vars
<1>3. ASSUME NEW c \in Calls, Begin(c) PROVE SearchIs(d)'
  BY <1>1, <1>3 DEF Begin, TypeOK
<1>4. ASSUME NEW c \in Calls, LocalGet(c) PROVE SearchIs(d)'
  <2>1. mode' = mode /\ known' = known /\ pc[c] = "local"
    BY <1>4 DEF LocalGet
  <2>2. CASE c = d
    <3> DEFINE whole == {f \in Local(d) : f.whole}
               found == {e.config : e \in whole}
    <3>1. whole = Local(d)
      BY <1>1 DEF Local, Published
    <3>2. pc'[d] = IF found # {} THEN "done" ELSE IF mode[d] = "assert" THEN "raised" ELSE "tune"
      BY <1>1, <1>4, <2>2 DEF LocalGet, TypeOK
    <3>3. pc'[d] = "tune" => Local(d) = {}
      BY <3>1, <3>2
    <3>4. pc'[d] \in {"done", "raised", "tune"}
      BY <3>2
    <3>5. known[d] \subseteq {"file", "remote"}
      BY <1>1 DEF TypeOK
    <3> HIDE DEF found, whole
    <3> QED
      BY <1>1, <2>1, <2>2, <3>3, <3>4, <3>5 DEF Knows, Local
  <2>3. CASE c # d
    BY <1>1, <1>4, <2>3 DEF LocalGet, TypeOK
  <2> QED
    BY <2>2, <2>3
<1>5. ASSUME NEW c \in Calls, RemoteGet(c) PROVE SearchIs(d)'
  BY <1>1, <1>5 DEF RemoteGet, TypeOK, Knows
<1>6. ASSUME NEW c \in Calls, \/ RemoteGetFails(c) \/ Tune(c) \/ Write(c) \/ Fill(c)
                           \/ WriteFails(c) \/ Rename(c) \/ Ship(c) \/ Send(c) \/ Dies(c)
      PROVE  SearchIs(d)'
  BY <1>1, <1>6
  DEF RemoteGetFails, Tune, Write, Fill, WriteFails, Rename, Ship, Send, Dies, TypeOK
<1> QED
  BY <1>2, <1>3, <1>4, <1>5, <1>6 DEF Next, Terminated

\* No call that has not begun is credited with a search; and where failures
\* are tolerated the winner had a finite timing.
LEMMA HistoryStep == IInv /\ [Next]_vars => HistoryInv'
<1> SUFFICES ASSUME IInv, [Next]_vars PROVE HistoryInv'
  OBVIOUS
<1>1. HistoryInv /\ TypeOK
  BY DEF IInv
<1> USE DEF HistoryInv, GoTo, store
<1>2. ASSUME NEW c \in Calls, Tune(c) PROVE HistoryInv'
  <2>1. CASE tuned' = tuned /\ timed' = timed
    BY <1>1, <1>2, <2>1 DEF Tune, TypeOK, Found
  <2>2. CASE ~(tuned' = tuned /\ timed' = timed)
    <3>1. PICK found \in SUBSET (1..K), finite \in SUBSET (1..K), i \in 1..K :
            /\ finite \subseteq found /\ i \in Winners(found, finite)
            /\ ~(tolerant /\ finite = {})
            /\ tuned' = tuned \cup {<<c, i>>}
            /\ timed' = timed \cup {<<c, j>> : j \in {i} \cap finite}
      BY <1>2, <2>2 DEF Tune, Winners
    <3>2. tolerant => i \in finite
      BY <3>1 DEF Winners
    <3>3. tolerant => tuned' = timed'
      BY <1>1, <3>1, <3>2
    <3>4. \A f \in tuned' : pc'[f[1]] # "start"
      BY <1>1, <1>2, <3>1 DEF Tune, TypeOK, Found
    <3>5. tolerant' = tolerant
      BY <1>2 DEF Tune
    <3> QED
      BY <3>3, <3>4, <3>5
  <2> QED
    BY <2>1, <2>2
<1>3. CASE \/ UNCHANGED vars
           \/ \E c \in Calls :
                \/ Begin(c) \/ RemoteGet(c) \/ RemoteGetFails(c) \/ LocalGet(c) \/ Write(c)
                \/ Fill(c) \/ WriteFails(c) \/ Rename(c) \/ Ship(c) \/ Send(c) \/ Dies(c)
  <2>1. /\ tuned' = tuned /\ timed' = timed /\ tolerant' = tolerant
        /\ \A d \in Calls : pc[d] # "start" => pc'[d] # "start"
    BY <1>1, <1>3 DEF TypeOK, vars, Begin, RemoteGet, RemoteGetFails, LocalGet, Write, Fill,
                      WriteFails, Rename, Ship, Send, Dies
  <2> QED
    BY <1>1, <2>1 DEF TypeOK, Found
<1> QED
  BY <1>2, <1>3 DEF Next, Terminated

\* The parts of the invariant, together.
LEMMA InductiveInvariant == Spec => []IInv
<1>1. IInv /\ [Next]_vars => IInv'
  BY TypeStep, PutStep, TmpStep, EntryStep, SearchStep, HistoryStep DEF IInv
<1> QED
  BY <1>1, InitIInv, PTL DEF Spec

-----------------------------------------------------------------------------
(* The theorems.                                                           *)

\* The types; what may be absent is at most one thing.
THEOREM CacheTypes == Spec => []TypeOK
<1>1. IInv => TypeOK
  BY DEF IInv
<1> QED
  BY <1>1, InductiveInvariant, PTL

\* EntriesAreSound: whatever the calls do to each other's files and wherever they
\* die, an entry that can be found is whole and was found by the search of a call
\* that shares, and a finished call returns what some search found.
THEOREM CacheIsSound == Spec => []EntriesAreSound
<1>1. IInv => EntriesAreSound
  <2> SUFFICES ASSUME IInv PROVE EntriesAreSound
    OBVIOUS
  <2>1. \A e \in Published : e.whole /\ e.config \in tuned /\ mode[e.config[1]] # "skip"
    BY DEF IInv, EntryInv, Sound, Shared
  <2>2. \A c \in Calls : pc[c] = "done" =>
          mine[c] # {} /\ mine[c] \subseteq tuned /\ tmp[TmpOf(c)] = {}
    BY DEF IInv, PutInv, HasSound, TmpInv, TmpIs, TmpOf
  <2> QED
    BY <2>1, <2>2 DEF EntriesAreSound, IInv, HistoryInv
<1> QED
  BY <1>1, InductiveInvariant, PTL

\* No race and no death turns an entry back into a miss.
THEOREM CacheIsUsed == Spec => []NoNeedlessSearch
<1>1. IInv => NoNeedlessSearch
  BY DEF IInv, SearchInv, SearchIs, NoNeedlessSearch
<1> QED
  BY <1>1, InductiveInvariant, PTL
=============================================================================
