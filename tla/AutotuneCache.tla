--------------------------- MODULE AutotuneCache ---------------------------
(***************************************************************************)
(* The autotune cache for one key: calls of AutotuneCacheBase.autotune     *)
(* (base_cache.py), each in a process of its own, over LocalAutotuneCache  *)
(* (one file in a directory that processes may share) and, if there is one, *)
(* a remote store (remote_cache.py).  A process may die between any two    *)
(* steps, and the remote store may fail at any access.                     *)
(*                                                                         *)
(* A configuration is named by the call and the best-of-K trial that found *)
(* it.  What may be absent is a set of at most one element.                *)
(***************************************************************************)
EXTENDS Naturals

CONSTANTS
  Calls,  \* calls of autotune
  Dirs,   \* cache directories, one on each host
  DirOf,  \* the one a call uses
  K       \* autotune_best_of_k

ASSUME DirsAssumption == DirOf \in [Calls -> Dirs]
ASSUME KAssumption == K \in Nat \ {0}

VARIABLES
  remoteOn,  \* a RemoteAutotuneCache, not a LocalAutotuneCache
  tolerant,  \* tolerate_transient_trial_failure
  pc,
  mode,      \* how a call was asked to use the cache
  mine,      \* the config a call is going to return
  hit,       \* it came from the remote store
  payload,   \* what put is going to ship
  tmp,       \* temporary files, by name
  file,      \* the .best_config file of each directory
  remote,    \* the remote store's entry
  \* --- history
  tuned,     \* configs that searches returned
  timed,     \* those of them whose last timing was finite
  known      \* where an entry was when a call began

store == <<payload, tmp, file, remote>>
vars == <<remoteOn, tolerant, pc, mode, mine, hit, store, tuned, timed, known>>

Found == Calls \X (1..K)
Entry == [config : Found, whole : BOOLEAN]
AtMostOne(S) == \A x, y \in S : x = y

\* normal; HELION_ASSERT_CACHE_HIT; HELION_FORCE_AUTOTUNE; HELION_SKIP_CACHE,
\* which also stands for a search whose policy is not cacheable.
Modes == {"normal", "assert", "force", "skip"}

TypeOK ==
  /\ remoteOn \in BOOLEAN /\ tolerant \in BOOLEAN
  /\ pc \in [Calls -> {"start", "remote", "local", "tune", "write", "fill", "rename", "ship",
                       "send", "done", "raised", "dead"}]
  /\ mode \in [Calls -> Modes] /\ hit \in [Calls -> BOOLEAN]
  /\ mine \in [Calls -> SUBSET Found]
  /\ payload \in [Calls -> SUBSET Entry] /\ tmp \in [Calls \cup Dirs -> SUBSET Entry]
  /\ file \in [Dirs -> SUBSET Entry] /\ remote \subseteq Entry
  /\ tuned \subseteq Found /\ timed \subseteq tuned
  /\ known \in [Calls -> SUBSET {"file", "remote"}]
  /\ AtMostOne(remote)
  /\ \A c \in Calls : AtMostOne(mine[c]) /\ AtMostOne(payload[c])
  /\ \A n \in Calls \cup Dirs : AtMostOne(tmp[n])
  /\ \A d \in Dirs : AtMostOne(file[d])

Init ==
  /\ remoteOn \in BOOLEAN /\ tolerant \in BOOLEAN
  /\ pc = [c \in Calls |-> "start"]
  /\ mode = [c \in Calls |-> "normal"] /\ hit = [c \in Calls |-> FALSE]
  /\ mine = [c \in Calls |-> {}] /\ payload = [c \in Calls |-> {}]
  /\ tmp = [n \in Calls \cup Dirs |-> {}]
  /\ file = [d \in Dirs |-> {}] /\ remote = {}
  /\ tuned = {} /\ timed = {} /\ known = [c \in Calls |-> {}]

GoTo(c, where) == pc' = [pc EXCEPT ![c] = where]
Local(c) == file[DirOf[c]]
Reads(m) == m \in {"normal", "assert"}

-----------------------------------------------------------------------------
\* autotune

\* skip_read: a call told to tune does not look; only a skipping one does not
\* write either.
Begin(c) ==
  /\ pc[c] = "start"
  /\ \E m \in Modes :
       /\ mode' = [mode EXCEPT ![c] = m]
       /\ GoTo(c, IF ~Reads(m) THEN "tune" ELSE IF remoteOn THEN "remote" ELSE "local")
  /\ known' = [known EXCEPT ![c] = (IF Local(c) = {} THEN {} ELSE {"file"})
                                    \cup IF remote = {} \/ ~remoteOn THEN {} ELSE {"remote"}]
  /\ UNCHANGED <<remoteOn, tolerant, mine, hit, store, tuned, timed>>

\* RemoteAutotuneCache.get: an entry is written to the local cache as well.
RemoteGet(c) ==
  /\ pc[c] = "remote"
  /\ mine' = [mine EXCEPT ![c] = {e.config : e \in remote}]
  /\ hit' = [hit EXCEPT ![c] = remote # {}]
  /\ GoTo(c, IF remote = {} THEN "local" ELSE "write")
  /\ UNCHANGED <<remoteOn, tolerant, mode, store, tuned, timed, known>>

\* _remote_get swallows the error.
RemoteGetFails(c) ==
  /\ pc[c] = "remote"
  /\ GoTo(c, "local")
  /\ known' = [known EXCEPT ![c] = @ \ {"remote"}]
  /\ UNCHANGED <<remoteOn, tolerant, mode, mine, hit, store, tuned, timed>>

\* LocalAutotuneCache.get: what is absent or does not parse is a miss, and a
\* miss is an error where a hit is asserted.
LocalGet(c) ==
  /\ pc[c] = "local"
  /\ LET found == {e.config : e \in {f \in Local(c) : f.whole}} IN
     /\ mine' = [mine EXCEPT ![c] = found]
     /\ GoTo(c, IF found # {} THEN "done" ELSE IF mode[c] = "assert" THEN "raised" ELSE "tune")
  /\ UNCHANGED <<remoteOn, tolerant, mode, hit, store, tuned, timed, known>>

\* Mutant: the last benchmark of the trials' configs is not looked at.
Winners_Untimed(found, finite) == found
\* The winner of the last benchmark; if nothing has a finite timing, the first.
Winners(found, finite) ==
  IF finite # {} THEN finite ELSE {i \in found : \A j \in found : i <= j}

\* _run_autotune_trials: a trial may raise, find no config or find one; what
\* they found is benchmarked once more.  A single trial is not.
Tune(c) ==
  /\ pc[c] = "tune"
  /\ \E found \in SUBSET (1..K) : \E finite \in SUBSET found :
       /\ K = 1 => finite = found
       /\ IF \/ found = {} \/ (~tolerant /\ found # 1..K)
             \/ tolerant /\ finite = {}
          THEN GoTo(c, "raised") /\ UNCHANGED <<mine, tuned, timed>>
          ELSE \E i \in Winners(found, finite) :
                 /\ mine' = [mine EXCEPT ![c] = {<<c, i>>}]
                 /\ tuned' = tuned \cup {<<c, i>>}
                 /\ timed' = timed \cup {<<c, j>> : j \in {i} \cap finite}
                 /\ GoTo(c, IF mode[c] = "skip" THEN "done" ELSE "write")
  /\ UNCHANGED <<remoteOn, tolerant, mode, hit, store, known>>

-----------------------------------------------------------------------------
\* put

\* Mutant: one name for all the temporary files of a directory.
TmpOf_Shared(c) == DirOf[c]
\* tmp.<uuid4>
TmpOf(c) == c

\* tmp.write_text creates or truncates the file and then fills it.
Write(c) ==
  /\ pc[c] = "write"
  /\ tmp' = [tmp EXCEPT ![TmpOf(c)] = {[config |-> f, whole |-> FALSE] : f \in mine[c]}]
  /\ GoTo(c, "fill")
  /\ UNCHANGED <<remoteOn, tolerant, mode, mine, hit, payload, file, remote, tuned, timed, known>>

Fill(c) ==
  /\ pc[c] = "fill"
  /\ tmp' = [tmp EXCEPT ![TmpOf(c)] = {[config |-> f, whole |-> TRUE] : f \in mine[c]}]
  /\ GoTo(c, "rename")
  /\ UNCHANGED <<remoteOn, tolerant, mode, mine, hit, payload, file, remote, tuned, timed, known>>

\* An OSError of the directory or the file leaves autotune, whose config it
\* takes along, and leaves the temporary file.
WriteFails(c) ==
  /\ pc[c] \in {"write", "fill", "rename"}
  /\ GoTo(c, "raised")
  /\ UNCHANGED <<remoteOn, tolerant, mode, mine, hit, store, tuned, timed, known>>

\* os.rename.  What came from the remote store is not shipped to it again.
Rename(c) ==
  /\ pc[c] = "rename"
  /\ file' = [file EXCEPT ![DirOf[c]] = tmp[TmpOf(c)]]
  /\ tmp' = [tmp EXCEPT ![TmpOf(c)] = {}]
  /\ GoTo(c, IF hit[c] \/ ~remoteOn THEN "done" ELSE "ship")
  /\ UNCHANGED <<remoteOn, tolerant, mode, mine, hit, payload, remote, tuned, timed, known>>

\* put reads the file back, which another call may have replaced.
Ship(c) ==
  /\ pc[c] = "ship"
  /\ payload' = [payload EXCEPT ![c] = Local(c)]
  /\ GoTo(c, "send")
  /\ UNCHANGED <<remoteOn, tolerant, mode, mine, hit, tmp, file, remote, tuned, timed, known>>

\* Mutant: the store keeps what it had.
Send_Adds(c) ==
  /\ pc[c] = "send"
  /\ remote' \in {remote, remote \cup payload[c]}
  /\ GoTo(c, "done")
  /\ UNCHANGED <<remoteOn, tolerant, mode, mine, hit, payload, tmp, file, tuned, timed, known>>

\* _remote_put: the store may fail, before or after it took the entry.
Send(c) ==
  /\ pc[c] = "send"
  /\ remote' \in {remote, payload[c]}
  /\ GoTo(c, "done")
  /\ UNCHANGED <<remoteOn, tolerant, mode, mine, hit, payload, tmp, file, tuned, timed, known>>

Ended(c) == pc[c] \in {"done", "raised", "dead"}

Dies(c) ==
  /\ pc[c] # "start" /\ ~Ended(c)
  /\ GoTo(c, "dead")
  /\ UNCHANGED <<remoteOn, tolerant, mode, mine, hit, store, tuned, timed, known>>

Terminated == (\A c \in Calls : Ended(c)) /\ UNCHANGED vars

Next ==
  \/ \E c \in Calls :
       \/ Begin(c) \/ RemoteGet(c) \/ RemoteGetFails(c) \/ LocalGet(c) \/ Tune(c)
       \/ Write(c) \/ Fill(c) \/ WriteFails(c) \/ Rename(c) \/ Ship(c) \/ Send(c) \/ Dies(c)
  \/ Terminated

Spec == Init /\ [][Next]_vars

-----------------------------------------------------------------------------
\* Properties.

Published == (UNION {file[d] : d \in Dirs}) \cup remote

\* Whatever the calls do to each other's files and wherever they die, an entry
\* that a reader can find is whole and holds a config which a search returned
\* to a call that shares what it finds.  A finished call returns a config that
\* some search returned, a skipping call its own, which it shares with nobody,
\* and leaves no temporary file behind.  Where the trials' failures are
\* tolerated, searches return only configs with a finite timing.
EntriesAreSound ==
  /\ \A e \in Published : e.whole /\ e.config \in tuned /\ mode[e.config[1]] # "skip"
  /\ tolerant => tuned = timed
  /\ \A c \in Calls : pc[c] = "done" =>
       mine[c] # {} /\ mine[c] \subseteq tuned /\ tmp[TmpOf(c)] = {}

\* A call that is allowed to use the cache searches only if there was nothing
\* to be found when it began, or only in a remote store that failed.  In
\* particular no race or death turns an entry back into a miss.
NoNeedlessSearch ==
  \A c \in Calls : pc[c] = "tune" /\ Reads(mode[c]) => known[c] = {}
=============================================================================
