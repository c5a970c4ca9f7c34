---------------------------- MODULE ResourceCache ----------------------------
(***************************************************************************)
(* The cache of preview resources (src/src/document/resource-cache.ts,     *)
(* class ResourceCache).  Consumers that ask for one key share a producer, *)
(* which lives as long as somebody waits for it; the directory is kept     *)
(* under a limit by every producer that adds a file, each on its own.      *)
(*                                                                         *)
(* A producer is named by the consumer whose call made it.  It is          *)
(* suspended at every file-system call, so producers of other keys, and of *)
(* the same key once this one is aborted, work in the directory meanwhile. *)
(*                                                                         *)
(* Modification times are left out: an eviction removes any file that is   *)
(* not its own where the code removes the least recently touched one.      *)
(***************************************************************************)
EXTENDS Integers, FiniteSets, FiniteSetsExt

CONSTANTS
  Keys,       \* identities, by their cache path
  Consumers,  \* calls of materialize()
  Sizes,      \* sizes a resource may have
  Limits,     \* values of media.maxCacheBytes
  None

\* The constructor and updateMaxBytes() refuse anything else.
ASSUME LimitsAssumption == Limits \subseteq Nat \ {0} /\ Limits # {}
ASSUME SizesAssumption == Sizes \subseteq Nat \ {0}
ASSUME NoneAssumption == None \notin Consumers /\ None \notin Keys
\* Only so many calls have been made, for so many keys.
ASSUME FiniteAssumption == IsFiniteSet(Consumers) /\ IsFiniteSet(Keys)

VARIABLES
  call,       \* the promise a consumer holds
  entry,      \* the producer a consumer waits for
  key,        \* the key of a producer, until it is over
  inflight,   \* this.inflight
  consumers,  \* entry.consumers
  aborted,    \* entry.controller.signal.aborted
  at,         \* the await of materializeOnce()
  partial,    \* size of the producer's temporary file, 0 when it has none
  fails,      \* the producer is on its way out with an error
  unseen,     \* evict(): names that are not yet examined
  seen,       \* evict(): what was found, without what it removed
  victim,     \* evict(): the file that is being removed
  size,       \* size of the file of a key, 0 when there is none
  maxBytes,   \* this.maxBytes
  peak,       \* the largest limit so far
  broken      \* producers whose eviction, or removal of the temporary file, failed

calls == <<call, entry, key, inflight, consumers, aborted>>
eviction == <<unseen, seen, victim, broken>>
limits == <<maxBytes, peak>>
vars == <<calls, at, partial, fails, eviction, size, limits>>

Used(d) == MapThenSumSet(LAMBDA k : d[k], Keys)

Init ==
  /\ call = [c \in Consumers |-> "none"]
  /\ key = [c \in Consumers |-> None]
  /\ entry = [c \in Consumers |-> None]
  /\ inflight = [k \in Keys |-> None]
  /\ consumers = [p \in Consumers |-> 0]
  /\ aborted = [p \in Consumers |-> FALSE]
  /\ at = [p \in Consumers |-> "unborn"]
  /\ partial = [p \in Consumers |-> 0]
  /\ fails = [p \in Consumers |-> FALSE]
  /\ unseen = [p \in Consumers |-> {}]
  /\ seen = [p \in Consumers |-> {}]
  /\ victim = [p \in Consumers |-> None]
  /\ maxBytes \in Limits
  /\ size \in {d \in [Keys -> Sizes \cup {0}] : Used(d) <= maxBytes}
  /\ peak = maxBytes
  /\ broken = {}

-----------------------------------------------------------------------------
(* Consumers.                                                              *)

\* Mutant: an aborted producer that has not ended is joined like any other.
JoinsAny(k) == inflight[k] # None

\* An entry in the map is joined unless nobody wants it any more.
Joins(k) == inflight[k] # None /\ ~aborted[inflight[k]]

\* materialize(): join the producer of this key, or make one and run it to its
\* first await.
Materialize(c, k) ==
  /\ call[c] = "none"
  /\ call' = [call EXCEPT ![c] = "waiting"]
  /\ LET p == IF Joins(k) THEN inflight[k] ELSE c
     IN  /\ entry' = [entry EXCEPT ![c] = p]
         /\ consumers' = [consumers EXCEPT ![p] = @ + 1]
         /\ inflight' = [inflight EXCEPT ![k] = p]
         /\ key' = [key EXCEPT ![p] = k]
         /\ at' = IF p = c THEN [at EXCEPT ![c] = "stat"] ELSE at
  /\ UNCHANGED <<aborted, partial, fails, eviction, size, limits>>

\* The signal of a consumer is raised: the last one to go aborts the producer.
Leave(c) ==
  /\ call[c] = "waiting"
  /\ call' = [call EXCEPT ![c] = "rejected"]
  /\ entry' = [entry EXCEPT ![c] = None]
  /\ consumers' = [consumers EXCEPT ![entry[c]] = @ - 1]
  /\ aborted' = [aborted EXCEPT ![entry[c]] = (consumers[entry[c]] = 1)]
  /\ UNCHANGED <<key, inflight, at, partial, fails, eviction, size, limits>>

-----------------------------------------------------------------------------
(* The end of a producer.                                                  *)

GoTo(p, next) == at' = [at EXCEPT ![p] = next]

WaitingFor(p) == {c \in Consumers : entry[c] = p}

\* The promise settles: its entry leaves the map, unless it was replaced there,
\* and everyone who still waits is answered.  The signal is of no use any more.
Settle(p, outcome) ==
  /\ GoTo(p, "over")
  /\ call' = [c \in Consumers |-> IF c \in WaitingFor(p) THEN outcome ELSE call[c]]
  /\ entry' = [c \in Consumers |-> IF c \in WaitingFor(p) THEN None ELSE entry[c]]
  /\ consumers' = [consumers EXCEPT ![p] = 0]
  /\ inflight' = [k \in Keys |-> IF inflight[k] = p THEN None ELSE inflight[k]]
  /\ key' = [key EXCEPT ![p] = None]
  /\ aborted' = [aborted EXCEPT ![p] = FALSE]

\* An exception inside the try of materializeOnce().
Throw(p) ==
  /\ GoTo(p, "cleanup")
  /\ fails' = [fails EXCEPT ![p] = TRUE]

-----------------------------------------------------------------------------
(* materializeOnce().                                                      *)

\* mkdir of the directory, on which nothing depends, and stat of the cached file.
Look(p) ==
  /\ at[p] = "stat"
  /\ \/ GoTo(p, IF size[key[p]] > 0 THEN "utimes" ELSE "write") /\ UNCHANGED calls
     \/ Settle(p, "rejected")
  /\ UNCHANGED <<partial, fails, eviction, size, limits>>

\* utimes: a hit, unless the file was evicted since the stat.
Hit(p) ==
  /\ at[p] = "utimes"
  /\ \/ /\ size[key[p]] > 0
        /\ Settle(p, "resolved")
     \/ Settle(p, "rejected")
  /\ UNCHANGED <<partial, fails, eviction, size, limits>>

\* The caller's write() ends, and the signal is looked at.
Write(p) ==
  /\ at[p] = "write"
  /\ \/ /\ partial' \in {[partial EXCEPT ![p] = s] : s \in Sizes}
        /\ IF aborted[p] THEN Throw(p) ELSE GoTo(p, "measure") /\ UNCHANGED fails
     \/ /\ partial' \in {[partial EXCEPT ![p] = s] : s \in {0} \cup Sizes}
        /\ Throw(p)
  /\ UNCHANGED <<calls, eviction, size, limits>>

\* stat of the temporary file: RESOURCE_TOO_LARGE, or any error.
Measure(p) ==
  /\ at[p] = "measure"
  /\ \/ partial[p] <= maxBytes /\ GoTo(p, "rename") /\ UNCHANGED fails
     \/ Throw(p)
  /\ UNCHANGED <<calls, partial, eviction, size, limits>>

\* rename to the cache path.
Publish(p) ==
  /\ at[p] = "rename"
  /\ \/ /\ size' = [size EXCEPT ![key[p]] = partial[p]]
        /\ partial' = [partial EXCEPT ![p] = 0]
        /\ GoTo(p, "readdir")
        /\ UNCHANGED fails
     \/ Throw(p) /\ UNCHANGED <<size, partial>>
  /\ UNCHANGED <<calls, eviction, limits>>

\* finally: rm of the temporary file, whose failure is nobody's.
Cleanup(p) ==
  /\ at[p] = "cleanup"
  /\ \/ partial' = [partial EXCEPT ![p] = 0] /\ UNCHANGED broken
     \/ partial[p] > 0 /\ broken' = broken \cup {p} /\ UNCHANGED partial
  /\ Settle(p, IF fails[p] THEN "rejected" ELSE "resolved")
  /\ fails' = [fails EXCEPT ![p] = FALSE]
  /\ UNCHANGED <<unseen, seen, victim, size, limits>>

-----------------------------------------------------------------------------
(* evict(), which protects the file that was just published.               *)

\* A system call of the eviction fails, and materializeOnce() with it.
EvictionFails(p) ==
  /\ Throw(p)
  /\ broken' = broken \cup {p}
  /\ unseen' = [unseen EXCEPT ![p] = {}]
  /\ seen' = [seen EXCEPT ![p] = {}]
  /\ victim' = [victim EXCEPT ![p] = None]

Others(p, files) == {f \in files : f.key # key[p]}

\* Mutant: the protected file is left out of the sum.
TotalOfOthers(p, files) == MapThenSumSet(LAMBDA f : f.size, Others(p, files))

Total(p, files) == MapThenSumSet(LAMBDA f : f.size, files)

\* The loop goes on with these files: remove one, or stop.
Continue(p, files) ==
  /\ \/ /\ Total(p, files) > maxBytes
        /\ seen' = [seen EXCEPT ![p] = files]
        /\ \E f \in Others(p, files) : victim' = [victim EXCEPT ![p] = f.key]
        /\ GoTo(p, "rm")
     \/ /\ Total(p, files) <= maxBytes \/ Others(p, files) = {}
        /\ seen' = [seen EXCEPT ![p] = {}]
        /\ victim' = [victim EXCEPT ![p] = None]
        /\ GoTo(p, "cleanup")

\* readdir.
ReadDirectory(p) ==
  /\ at[p] = "readdir"
  /\ \/ /\ unseen' = [unseen EXCEPT ![p] = {k \in Keys : size[k] > 0}]
        /\ IF unseen'[p] = {} THEN Continue(p, {})
           ELSE GoTo(p, "survey") /\ UNCHANGED <<seen, victim>>
        /\ UNCHANGED <<fails, broken>>
     \/ EvictionFails(p)
  /\ UNCHANGED <<calls, partial, size, limits>>

\* The stat of one name answers; a file that has gone is skipped.
Survey(p) ==
  /\ at[p] = "survey"
  /\ \/ \E k \in unseen[p] :
          LET files == seen[p] \cup
                {f \in {[key |-> k, size |-> size[k]]} : f.size > 0}
          IN  /\ unseen' = [unseen EXCEPT ![p] = @ \ {k}]
              /\ IF unseen'[p] = {} THEN Continue(p, files)
                 ELSE seen' = [seen EXCEPT ![p] = files] /\ UNCHANGED <<at, victim>>
              /\ UNCHANGED <<fails, broken>>
     \/ EvictionFails(p)
  /\ UNCHANGED <<calls, partial, size, limits>>

\* rm of the victim, whatever became of it meanwhile.
Evict(p) ==
  /\ at[p] = "rm"
  /\ \/ /\ size' = [size EXCEPT ![victim[p]] = 0]
        /\ Continue(p, {f \in seen[p] : f.key # victim[p]})
        /\ UNCHANGED <<fails, unseen, broken>>
     \/ EvictionFails(p) /\ UNCHANGED size
  /\ UNCHANGED <<calls, partial, limits>>

\* updateMaxBytes(), when the settings are saved.
UpdateMaxBytes(m) ==
  /\ m # maxBytes
  /\ maxBytes' = m
  /\ peak' = IF m > peak THEN m ELSE peak
  /\ UNCHANGED <<calls, at, partial, fails, eviction, size>>

Step(p) ==
  \/ Look(p) \/ Hit(p) \/ Measure(p) \/ Publish(p)
  \/ ReadDirectory(p) \/ Survey(p) \/ Evict(p) \/ Cleanup(p)

Next ==
  \/ \E c \in Consumers, k \in Keys : Materialize(c, k)
  \/ \E c \in Consumers : Leave(c)
  \/ \E p \in Consumers : Step(p) \/ Write(p)
  \/ \E m \in Limits : UpdateMaxBytes(m)

Spec == Init /\ [][Next]_vars

-----------------------------------------------------------------------------
(* Properties.                                                             *)

Awaits == {"stat", "utimes", "write", "measure", "rename", "readdir",
           "survey", "rm", "cleanup"}

\* The types of the fields; no file in the directory is larger than the largest
\* limit there was.
TypeOK ==
  /\ call \in [Consumers -> {"none", "waiting", "resolved", "rejected"}]
  /\ key \in [Consumers -> Keys \cup {None}]
  /\ entry \in [Consumers -> Consumers \cup {None}]
  /\ inflight \in [Keys -> Consumers \cup {None}]
  /\ consumers \in [Consumers -> 0..Cardinality(Consumers)]
  /\ aborted \in [Consumers -> BOOLEAN]
  /\ at \in [Consumers -> Awaits \cup {"unborn", "over"}]
  /\ partial \in [Consumers -> {0} \cup Sizes]
  /\ fails \in [Consumers -> BOOLEAN]
  /\ unseen \in [Consumers -> SUBSET Keys]
  /\ \A p \in Consumers :
       seen[p] \subseteq [key : Keys, size : Sizes]
  /\ victim \in [Consumers -> Keys \cup {None}]
  /\ size \in [Keys -> {s \in {0} \cup Sizes : s <= peak}]
  /\ maxBytes \in Limits
  /\ peak \in Limits
  /\ broken \in SUBSET Consumers

\* A producer is shared and wanted: whoever waits, waits for the one producer of
\* his key that is in the map, which is not aborted; the count of its consumers
\* is exact; and a producer that nobody waits for is aborted
\* (resource-cache.test.ts:16, 49, 97).
SharedWhileWanted ==
  /\ \A c \in Consumers : call[c] = "waiting" =>
       /\ at[entry[c]] \in Awaits
       /\ inflight[key[entry[c]]] = entry[c]
       /\ ~aborted[entry[c]]
  /\ \A p \in Consumers : at[p] \in Awaits =>
       /\ consumers[p] = Cardinality(WaitingFor(p))
       /\ aborted[p] <=> WaitingFor(p) = {}

\* A producer that is over, for whatever reason, left no temporary file, unless
\* the file could not be removed (resource-cache.test.ts:49).
PartialsRemoved ==
  \A p \in Consumers : at[p] = "over" => partial[p] = 0 \/ p \in broken

\* Evictions that overlap, each with a survey that is out of date, still keep the
\* directory under the limit: when none runs, and none has failed, the files are
\* within the largest limit there was.
DirectoryBounded ==
  (\A p \in Consumers : at[p] \notin {"readdir", "survey", "rm"}) /\ broken = {}
    => Used(size) <= peak

\* The directory of the cache holds nothing it should not: no temporary file of
\* a producer that is over, and no more than the limit.
Consistent ==
  /\ TypeOK
  /\ PartialsRemoved
  /\ DirectoryBounded
=============================================================================
