-------------------------- MODULE TransfersProofs --------------------------
(***************************************************************************)
(* What TransferQueue guarantees for every number of downloads, every      *)
(* concurrency and every history limit: its fields keep their types, the   *)
(* slot counter is exact and bounded, the line holds exactly the waiting   *)
(* jobs, no pump is lost, promises agree with statuses, a report of        *)
(* progress is delivered, the history keeps the newest, and every step is  *)
(* a step of DownloadContract or none.                                     *)
(*                                                                         *)
(* None of these is inductive alone.  The counter is exact because a slot  *)
(* is held from Pump to ReleaseSlot, and Pump may add as many slots as it  *)
(* starts jobs only because the line has no duplicates and holds no job    *)
(* that has a slot already; the latter needs the tie between status and    *)
(* worker.  IInv puts the four together.  The two action properties follow *)
(* from it step by step: a report is delivered because pruneHistory()      *)
(* spares live jobs, the newest are kept because jobs are numbered in the  *)
(* order of their creation.  The refinement reads the line, the statuses   *)
(* and the promises as the contract's variables.                           *)
(***************************************************************************)
EXTENDS TransferQueue, RemoteDownload, FiniteSetTheorems, TLAPS

\* run() and the status agree on what is in flight; a handle is settled
\* exactly when its job is over.
StatusMatchesWorker ==
  \A j \in Jobs :
    /\ worker[j] \in {"working"} \cup Outcomes <=> status[j] = "running"
    /\ worker[j] = "settled" => status[j] \in Terminal

\* The holders are counted, so they must be finite.
FiniteHolders == IsFiniteSet(Holders)

IInv ==
  /\ TypeOK
  /\ StatusMatchesWorker
  /\ FiniteHolders
  /\ SlotAccounting
  /\ QueueConsistent
  /\ NoLostPump
  /\ OutcomeAgreement

-----------------------------------------------------------------------------
(* Lemmas about the queue's helpers.                                       *)

\* pruneHistory() removes no live job (transfer-queue.ts:294).
LEMMA PruneKeepsLive ==
  ASSUME NEW m, NEW st, NEW fin
  PROVE  /\ PruneHistory(m, st, fin) \subseteq m
         /\ \A j \in m : st[j] \notin Terminal => j \in PruneHistory(m, st, fin)
BY DEF PruneHistory, Pruned, Expired, Overflowing, Finished

\* The first n entries of a line without duplicates are n jobs
\* (pump(), transfer-queue.ts:204-207).
LEMMA PrefixCount ==
  ASSUME NEW s \in Seq(Jobs), NEW n \in 0..Len(s),
         IsInjective(s)
  PROVE  /\ IsFiniteSet({s[i] : i \in 1..n})
         /\ Cardinality({s[i] : i \in 1..n}) = n
<1> DEFINE S == {s[i] : i \in 1..n}
           f == [i \in 1..n |-> s[i]]
<1>1. f \in Bijection(1..n, S)
  BY DEF Bijection, Injection, IsInjective, Surjection
<1>2. ExistsBijection(1..n, S)
  BY <1>1 DEF ExistsBijection
<1>3. IsFiniteSet(1..n) /\ Cardinality(1..n) = n
  BY FS_Interval
<1> QED
  BY <1>2, <1>3, FS_Bijection

\* Shifting the first n entries off leaves a line without them.
LEMMA SuffixOfLine ==
  ASSUME NEW s \in Seq(Jobs), NEW n \in 0..Len(s), IsInjective(s),
         NEW t, t = SubSeq(s, n + 1, Len(s))
  PROVE  /\ t \in Seq(Jobs)
         /\ Range(t) = Range(s) \ {s[i] : i \in 1..n}
         /\ IsInjective(t)
<1>1. /\ t \in Seq(Jobs)
      /\ Len(t) = Len(s) - n
      /\ DOMAIN t = 1..(Len(s) - n)
      /\ \A i \in 1..(Len(s) - n) : t[i] = s[i + n]
  OBVIOUS
<1>2. /\ DOMAIN s = 1..Len(s)
      /\ \A i, k \in 1..Len(s) : s[i] = s[k] => i = k
  BY DEF IsInjective
<1>3. ASSUME NEW x \in Range(t)
      PROVE  x \in Range(s) \ {s[i] : i \in 1..n}
  <2>1. PICK k \in (n + 1)..Len(s) : s[k] = x
    BY <1>1 DEF Range
  <2> QED
    BY <1>2, <2>1 DEF Range
<1>4. ASSUME NEW x \in Range(s) \ {s[i] : i \in 1..n}
      PROVE  x \in Range(t)
  <2>1. PICK k \in (n + 1)..Len(s) : s[k] = x
    <3>1. PICK k \in 1..Len(s) : s[k] = x
      BY <1>2 DEF Range
    <3>2. k \notin 1..n
      BY <3>1
    <3> QED
      BY <3>1, <3>2
  <2>2. k - n \in 1..(Len(s) - n) /\ t[k - n] = x
    <3>1. k - n \in 1..(Len(s) - n) /\ (k - n) + n = k
      BY <2>1
    <3> QED
      BY <1>1, <2>1, <3>1
  <2> QED
    BY <1>1, <2>2 DEF Range
<1>5. ASSUME NEW i \in 1..(Len(s) - n), NEW k \in 1..(Len(s) - n), t[i] = t[k]
      PROVE  i = k
  <2>1. i + n \in 1..Len(s) /\ k + n \in 1..Len(s)
    OBVIOUS
  <2>2. t[i] = s[i + n] /\ t[k] = s[k + n]
    BY <1>1
  <2>3. i + n = k + n
    BY <1>2, <1>5, <2>1, <2>2
  <2> QED
    BY <2>3
<1>6. IsInjective(t)
  BY <1>1, <1>5 DEF IsInjective
<1> QED
  BY <1>1, <1>3, <1>4, <1>6

\* A new job goes to the end of the line (pending.push, transfer-queue.ts:150).
LEMMA AppendAddsOne ==
  ASSUME NEW s \in Seq(Jobs), NEW j \in Jobs,
         j \notin Range(s),
         IsInjective(s),
         NEW t, t = Append(s, j)
  PROVE  /\ t \in Seq(Jobs)
         /\ Range(t) = Range(s) \cup {j}
         /\ IsInjective(t)
<1> USE DEF Range, IsInjective
<1>1. /\ t \in Seq(Jobs)
      /\ Len(t) = Len(s) + 1
      /\ t[Len(s) + 1] = j
  OBVIOUS
<1>2. ASSUME NEW i \in 1..Len(s)
      PROVE  t[i] = s[i] /\ t[i] # j
  <2>1. s[i] # j
    OBVIOUS
  <2> QED
    BY <2>1
<1>3. ASSUME NEW x
      PROVE  x \in Range(t)
               <=> x \in Range(s) \cup {j}
  <2>1. 1..Len(t) = 1..Len(s) \cup {Len(s) + 1}
    BY <1>1
  <2> QED
    BY <1>1, <1>2, <2>1
<1>4. ASSUME NEW i \in 1..Len(t), NEW k \in 1..Len(t), t[i] = t[k]
      PROVE  i = k
  BY <1>1, <1>2, <1>4
<1> QED
  BY <1>1, <1>3, <1>4

\* Taking a job out of the line removes that job only (indexOf and splice,
\* transfer-queue.ts:174-175).
LEMMA WithoutJobRemovesOne ==
  ASSUME NEW s \in Seq(Jobs), NEW j \in Range(s), IsInjective(s),
         NEW t, t = WithoutJob(s, j)
  PROVE  /\ t \in Seq(Jobs)
         /\ Range(t) = Range(s) \ {j}
         /\ IsInjective(t)
<1> DEFINE m == Len(s) - 1
<1>0. /\ DOMAIN s = 1..Len(s)
      /\ \A i, k \in 1..Len(s) : s[i] = s[k] => i = k
  BY DEF IsInjective
<1>1. PICK pos \in 1..Len(s) :
        /\ s[pos] = j
        /\ t = [i \in 1..m |-> IF i < pos THEN s[i] ELSE s[i + 1]]
  BY <1>0 DEF WithoutJob, Range
<1>2. m \in Nat
  BY <1>1
<1>3. /\ t \in Seq(Jobs)
      /\ DOMAIN t = 1..m
      /\ \A i \in 1..m : t[i] = IF i < pos THEN s[i] ELSE s[i + 1]
  <2>1. \A i \in 1..m : (IF i < pos THEN s[i] ELSE s[i + 1]) \in Jobs
    BY <1>1
  <2> QED
    BY <1>1, <1>2, <2>1
<1>4. ASSUME NEW i \in 1..m, NEW k \in 1..m, t[i] = t[k]
      PROVE  i = k
  BY <1>0, <1>1, <1>3, <1>4
<1>5. ASSUME NEW i \in 1..m
      PROVE  t[i] \in Range(s) \ {j}
  <2>1. PICK k \in 1..Len(s) : k # pos /\ t[i] = s[k]
    BY <1>1, <1>3
  <2> QED
    BY <1>0, <1>1, <2>1 DEF Range
<1>6. ASSUME NEW k \in 1..Len(s), s[k] # j
      PROVE  \E i \in 1..m : t[i] = s[k]
  <2>1. CASE k < pos
    <3>1. k \in 1..m /\ t[k] = s[k]
      BY <1>1, <1>3, <2>1
    <3> QED
      BY <3>1
  <2>2. CASE k > pos
    <3>1. k - 1 \in 1..m /\ t[k - 1] = s[k]
      BY <1>1, <1>3, <2>2
    <3> QED
      BY <3>1
  <2> QED
    BY <1>1, <1>6, <2>1, <2>2
<1>7. Range(t) = Range(s) \ {j}
  <2>1. ASSUME NEW x \in Range(t)
        PROVE  x \in Range(s) \ {j}
    BY <1>3, <1>5 DEF Range
  <2>2. ASSUME NEW x \in Range(s) \ {j}
        PROVE  x \in Range(t)
    <3>1. PICK k \in 1..Len(s) : s[k] = x
      BY <1>0 DEF Range
    <3>2. PICK i \in 1..m : t[i] = s[k]
      BY <1>6, <3>1
    <3> QED
      BY <1>3, <3>1, <3>2 DEF Range
  <2> QED
    BY <2>1, <2>2
<1>8. IsInjective(t)
  BY <1>3, <1>4 DEF IsInjective
<1> QED
  BY <1>3, <1>7, <1>8

-----------------------------------------------------------------------------
(* The invariant is kept, one lemma per operation.                         *)

LEMMA InvInit == Init => IInv
<1> SUFFICES ASSUME Init PROVE IInv
  OBVIOUS
<1>1. TypeOK
  <2>1. "absent" \in Statuses
    BY DEF Statuses
  <2>2. <<>> \in Seq(Jobs)
    OBVIOUS
  <2>3. shown \in [Jobs -> [status : Statuses, progress : Nat]]
    BY <2>1 DEF Init, Nothing
  <2> QED
    BY <2>1, <2>2, <2>3 DEF Init, TypeOK
<1>2. Holders = {}
  BY DEF Init, Holders, HoldsSlot, Outcomes
<1>3. FiniteHolders /\ SlotAccounting
  BY <1>2, FS_EmptySet, ConcurrencyAssumption
     DEF Init, FiniteHolders, SlotAccounting, Running
<1>4. StatusMatchesWorker
  BY DEF Init, StatusMatchesWorker, Outcomes
<1>5. QueueConsistent /\ NoLostPump
  BY DEF Init, QueueConsistent, NoLostPump, Live, Range, IsInjective
<1>6. OutcomeAgreement
  BY DEF Init, OutcomeAgreement
<1> QED
  BY <1>1, <1>3, <1>4, <1>5, <1>6 DEF IInv

\* The fields that only the panes see keep their types whenever an event is
\* emitted with a status of the right type.
LEMMA ChangedNowTypes ==
  ASSUME TypeOK, NEW S, NEW st \in Statuses, NEW gone, ChangedNow(S, st, gone)
  PROVE  /\ shown' \in [Jobs -> [status : Statuses, progress : Nat]]
         /\ emittedAt' \in [Jobs -> Nat]
         /\ timer' \in [Jobs -> BOOLEAN]
         /\ due' \in [Jobs -> Nat]
BY DEF TypeOK, ChangedNow

LEMMA InvEnqueue ==
  ASSUME IInv, NEW j \in Jobs, Enqueue(j)
  PROVE  IInv'
<1> USE DEF IInv
<1>1. TypeOK'
  <2>1. "queued" \in Statuses
    BY DEF Statuses, Live
  <2>2. jobs' \in SUBSET Jobs
    BY PruneKeepsLive DEF Enqueue, TypeOK
  <2>3. /\ shown' \in [Jobs -> [status : Statuses, progress : Nat]]
        /\ emittedAt' \in [Jobs -> Nat]
        /\ timer' \in [Jobs -> BOOLEAN]
        /\ due' \in [Jobs -> Nat]
    BY <2>1, ChangedNowTypes DEF Enqueue
  <2>4. pending' \in Seq(Jobs)
    BY DEF Enqueue, TypeOK
  <2>5. status' \in [Jobs -> Statuses]
    BY <2>1 DEF Enqueue, TypeOK
  <2>6. /\ created' \in Nat
        /\ ordinal' \in [Jobs -> Nat]
        /\ pumpScheduled' \in BOOLEAN
    BY DEF Enqueue, TypeOK
  <2>7. UNCHANGED <<active, aborted, worker, completion, finishedAt, progress, now>>
    BY DEF Enqueue, runVars
  <2> QED
    BY <2>2, <2>3, <2>4, <2>5, <2>6, <2>7 DEF TypeOK
<1>2. StatusMatchesWorker'
  BY DEF Enqueue, TypeOK, StatusMatchesWorker, Terminal, runVars
<1>3. FiniteHolders' /\ SlotAccounting'
  BY DEF Enqueue, TypeOK, FiniteHolders, SlotAccounting, Holders, Running, runVars
<1>4. QueueConsistent'
  <2>1. /\ pending \in Seq(Jobs)
        /\ j \notin Range(pending)
        /\ IsInjective(pending)
        /\ pending' = Append(pending, j)
    BY DEF Enqueue, TypeOK, QueueConsistent
  <2>2. /\ Range(pending') = Range(pending) \cup {j}
        /\ IsInjective(pending')
    BY <2>1, AppendAddsOne
  <2>3. {k \in Jobs : status'[k] = "queued"}
          = {k \in Jobs : status[k] = "queued"} \cup {j}
    BY DEF Enqueue, TypeOK
  <2>4. ASSUME NEW k \in Jobs, status'[k] \in Live
        PROVE  k \in jobs'
    <3>1. k # j => k \in jobs /\ status[k] \notin Terminal
      BY <2>4 DEF Enqueue, TypeOK, QueueConsistent, Live, Terminal
    <3> QED
      BY <3>1, PruneKeepsLive DEF Enqueue
  <2> QED
    BY <2>2, <2>3, <2>4 DEF QueueConsistent
<1>5. NoLostPump'
  BY DEF Enqueue, NoLostPump
<1>6. OutcomeAgreement'
  BY DEF Enqueue, TypeOK, OutcomeAgreement, runVars
<1> QED
  BY <1>1, <1>2, <1>3, <1>4, <1>5, <1>6

LEMMA InvRead ==
  ASSUME IInv, Read
  PROVE  IInv'
<1> USE DEF IInv
<1>1. TypeOK'
  BY PruneKeepsLive DEF Read, TypeOK, runVars
<1>2. \A j \in Jobs : status'[j] \in Live => j \in jobs'
  BY PruneKeepsLive DEF Read, QueueConsistent, Live, Terminal
<1> QED
  BY <1>1, <1>2 DEF Read, StatusMatchesWorker, FiniteHolders, SlotAccounting,
     QueueConsistent, NoLostPump, OutcomeAgreement, Holders, Running, runVars

LEMMA InvCancelQueued ==
  ASSUME IInv, NEW j \in Jobs, CancelQueued(j)
  PROVE  IInv'
<1> USE DEF IInv
<1>1. /\ pending' \in Seq(Jobs)
      /\ Range(pending') = Range(pending) \ {j}
      /\ IsInjective(pending')
  <2>1. /\ pending \in Seq(Jobs)
        /\ IsInjective(pending)
        /\ j \in Range(pending)
        /\ pending' = WithoutJob(pending, j)
    BY DEF CancelQueued, TypeOK, QueueConsistent
  <2> QED
    BY <2>1, WithoutJobRemovesOne
<1>2. TypeOK'
  <2>1. "cancelled" \in Statuses
    BY DEF Statuses, Terminal
  <2>2. jobs' \in SUBSET Jobs
    BY PruneKeepsLive DEF CancelQueued, TypeOK
  <2> QED
    BY <1>1, <2>1, <2>2, ChangedNowTypes DEF CancelQueued, TypeOK
<1>3. StatusMatchesWorker'
  BY DEF CancelQueued, TypeOK, StatusMatchesWorker, Terminal
<1>4. FiniteHolders' /\ SlotAccounting'
  BY DEF CancelQueued, TypeOK, FiniteHolders, SlotAccounting, Holders, Running
<1>5. QueueConsistent'
  <2>1. {k \in Jobs : status'[k] = "queued"}
          = {k \in Jobs : status[k] = "queued"} \ {j}
    BY DEF CancelQueued, TypeOK
  <2>2. ASSUME NEW k \in Jobs, status'[k] \in Live
        PROVE  k \in jobs'
    <3>1. k \in jobs /\ status'[k] \notin Terminal
      BY <2>2 DEF CancelQueued, TypeOK, QueueConsistent, Live, Terminal
    <3> QED
      BY <3>1, PruneKeepsLive DEF CancelQueued
  <2> QED
    BY <1>1, <2>1, <2>2 DEF QueueConsistent
<1>6. NoLostPump'
  <2>1. pending # <<>>
    BY DEF CancelQueued, QueueConsistent, Range
  <2> QED
    BY <2>1 DEF CancelQueued, NoLostPump
<1>7. OutcomeAgreement'
  BY DEF CancelQueued, TypeOK, OutcomeAgreement
<1> QED
  BY <1>2, <1>3, <1>4, <1>5, <1>6, <1>7

LEMMA InvCancelRunning ==
  ASSUME IInv, NEW j \in Jobs, CancelRunning(j)
  PROVE  IInv'
<1> USE DEF IInv
<1>1. TypeOK'
  BY DEF CancelRunning, TypeOK, queueVars, displayVars
<1>2. OutcomeAgreement'
  BY DEF CancelRunning, TypeOK, OutcomeAgreement, queueVars
<1> QED
  BY <1>1, <1>2 DEF CancelRunning, StatusMatchesWorker, FiniteHolders,
     SlotAccounting, QueueConsistent, NoLostPump, Holders, Running, queueVars

LEMMA InvPump ==
  ASSUME IInv, Pump
  PROVE  IInv'
<1> USE DEF IInv
<1>1. ToStart \in 0..Len(pending) /\ active + ToStart <= Concurrency
  BY ConcurrencyAssumption DEF ToStart, TypeOK, SlotAccounting
<1>2. ToStart = Len(pending) \/ active + ToStart = Concurrency
  BY ConcurrencyAssumption DEF ToStart, TypeOK, SlotAccounting
<1>3. /\ IsFiniteSet(Started)
      /\ Cardinality(Started) = ToStart
  BY <1>1, PrefixCount DEF Started, TypeOK, QueueConsistent
<1>4. \A j \in Started : j \in Jobs /\ status[j] = "queued"
  <2>1. Started \subseteq Range(pending)
    <3>1. DOMAIN pending = 1..Len(pending) /\ Len(pending) \in Nat
      BY DEF TypeOK
    <3> QED
      BY <1>1, <3>1 DEF Started, Range
  <2> QED
    BY <2>1 DEF QueueConsistent
<1>5. TypeOK'
  <2>1. "running" \in Statuses /\ "working" \in HoldsSlot
    BY DEF Statuses, Live, HoldsSlot
  <2>2. /\ shown' \in [Jobs -> [status : Statuses, progress : Nat]]
        /\ emittedAt' \in [Jobs -> Nat]
        /\ timer' \in [Jobs -> BOOLEAN]
        /\ due' \in [Jobs -> Nat]
    BY <2>1, ChangedNowTypes DEF Pump
  <2>3. pending' \in Seq(Jobs)
    BY <1>1, SuffixOfLine DEF Pump, TypeOK, QueueConsistent
  <2>4. status' \in [Jobs -> Statuses]
    BY <2>1 DEF Pump, TypeOK
  <2>5. worker' \in [Jobs -> {"idle"} \cup HoldsSlot]
    BY <2>1 DEF Pump, TypeOK
  <2>6. active' \in Nat
    BY <1>1 DEF Pump, TypeOK
  <2> QED
    BY <2>2, <2>3, <2>4, <2>5, <2>6 DEF Pump, TypeOK
<1>6. StatusMatchesWorker'
  BY <1>4 DEF Pump, TypeOK, StatusMatchesWorker
<1>7. Holders' = Holders \cup Started /\ Holders \cap Started = {}
  <2>1. \A j \in Jobs : status[j] = "queued" => worker[j] \notin HoldsSlot
    BY DEF StatusMatchesWorker, HoldsSlot, Terminal
  <2>2. Holders \cap Started = {}
    BY <1>4, <2>1 DEF Holders
  <2> QED
    BY <1>4, <2>2 DEF Pump, TypeOK, Holders, HoldsSlot
<1>8. FiniteHolders' /\ SlotAccounting'
  <2>1. IsFiniteSet(Holders')
    BY <1>3, <1>7, FS_Union DEF FiniteHolders
  <2>2. Cardinality(Holders') = Cardinality(Holders) + ToStart
    <3>1. Cardinality(Holders') = Cardinality(Holders) + Cardinality(Started)
                                    - Cardinality(Holders \cap Started)
      BY <1>3, <1>7, FS_Union DEF FiniteHolders
    <3>2. Cardinality(Holders \cap Started) = 0
      BY <1>7, FS_EmptySet
    <3>3. Cardinality(Holders) \in Nat
      BY FS_CardinalityType DEF FiniteHolders
    <3> QED
      BY <1>1, <1>3, <3>1, <3>2, <3>3
  <2>3. Running' \subseteq Holders'
    BY <1>4 DEF Pump, TypeOK, SlotAccounting, Running, Holders, HoldsSlot
  <2> QED
    BY <1>1, <2>1, <2>2, <2>3 DEF Pump, FiniteHolders, SlotAccounting
<1>9. QueueConsistent'
  <2>1. /\ Range(pending') = Range(pending) \ Started
        /\ IsInjective(pending')
    BY <1>1, SuffixOfLine DEF Pump, Started, TypeOK, QueueConsistent
  <2>2. {j \in Jobs : status'[j] = "queued"}
          = {j \in Jobs : status[j] = "queued"} \ Started
    BY <1>4 DEF Pump, TypeOK
  <2>3. \A j \in Jobs : status'[j] \in Live => j \in jobs'
    BY <1>4 DEF Pump, TypeOK, QueueConsistent, Live
  <2> QED
    BY <2>1, <2>2, <2>3 DEF QueueConsistent
<1>10. NoLostPump'
  <2>1. ToStart = Len(pending) => pending' = <<>>
    BY DEF Pump, TypeOK
  <2>2. pending' = <<>> \/ active' = Concurrency
    BY <1>2, <2>1 DEF Pump
  <2>3. Concurrency \in Nat
    BY ConcurrencyAssumption
  <2> QED
    BY <2>2, <2>3 DEF NoLostPump
<1>11. OutcomeAgreement'
  BY <1>4 DEF Pump, TypeOK, OutcomeAgreement
<1> QED
  BY <1>5, <1>6, <1>8, <1>9, <1>10, <1>11

LEMMA InvWorkerSettles ==
  ASSUME IInv, NEW j \in Jobs, WorkerSettles(j)
  PROVE  IInv'
<1> USE DEF IInv
<1>1. PICK outcome \in Outcomes : worker' = [worker EXCEPT ![j] = outcome]
  BY DEF WorkerSettles
<1>2. Outcomes \subseteq HoldsSlot /\ "working" \in HoldsSlot
  BY DEF HoldsSlot
<1>3. TypeOK'
  BY <1>1, <1>2 DEF WorkerSettles, TypeOK, queueVars, displayVars
<1>4. StatusMatchesWorker'
  BY <1>1 DEF WorkerSettles, TypeOK, StatusMatchesWorker, queueVars, Outcomes
<1>5. Holders' = Holders
  BY <1>1, <1>2 DEF WorkerSettles, TypeOK, Holders
<1> QED
  BY <1>3, <1>4, <1>5 DEF WorkerSettles, FiniteHolders, SlotAccounting,
     QueueConsistent, NoLostPump, OutcomeAgreement, Running, queueVars

LEMMA InvRunSettles ==
  ASSUME IInv, NEW j \in Jobs, RunSettles(j)
  PROVE  IInv'
<1> USE DEF IInv
<1>1. Verdict(j) \in Terminal /\ (aborted[j] => Verdict(j) = "cancelled")
  BY DEF Verdict, Terminal
<1>2. status[j] = "running"
  BY DEF RunSettles, StatusMatchesWorker
<1>3. /\ status' = [status EXCEPT ![j] = Verdict(j)]
      /\ worker' = [worker EXCEPT ![j] = "settled"]
  BY DEF RunSettles
<1>4. TypeOK'
  <2>1. Verdict(j) \in Statuses /\ "settled" \in HoldsSlot
    BY <1>1 DEF Statuses, HoldsSlot
  <2>2. /\ shown' \in [Jobs -> [status : Statuses, progress : Nat]]
        /\ emittedAt' \in [Jobs -> Nat]
        /\ timer' \in [Jobs -> BOOLEAN]
        /\ due' \in [Jobs -> Nat]
    BY <2>1, ChangedNowTypes DEF RunSettles
  <2>3. jobs' \in SUBSET Jobs
    BY PruneKeepsLive DEF RunSettles, TypeOK
  <2>4. completion' \in [Jobs -> {"unsettled", "resolved", "rejected"}]
    BY DEF RunSettles, TypeOK
  <2> QED
    BY <2>1, <2>2, <2>3, <2>4 DEF RunSettles, TypeOK
<1>5. StatusMatchesWorker'
  BY <1>1, <1>3 DEF TypeOK, StatusMatchesWorker, Outcomes, Terminal
<1>6. Holders' = Holders
  BY <1>3 DEF RunSettles, TypeOK, Holders, HoldsSlot
<1>7. FiniteHolders' /\ SlotAccounting'
  BY <1>1, <1>3, <1>6 DEF RunSettles, TypeOK, FiniteHolders, SlotAccounting,
     Running, Terminal
<1>8. QueueConsistent'
  <2>1. {k \in Jobs : status'[k] = "queued"} = {k \in Jobs : status[k] = "queued"}
    BY <1>1, <1>2, <1>3 DEF TypeOK, Terminal
  <2>2. ASSUME NEW k \in Jobs, status'[k] \in Live
        PROVE  k \in jobs'
    <3>1. k \in jobs /\ status'[k] \notin Terminal
      BY <1>1, <1>3, <2>2 DEF TypeOK, QueueConsistent, Live, Terminal
    <3> QED
      BY <3>1, PruneKeepsLive DEF RunSettles
  <2> QED
    BY <2>1, <2>2 DEF RunSettles, QueueConsistent
<1>9. NoLostPump'
  BY DEF RunSettles, NoLostPump
<1>10. OutcomeAgreement'
  BY <1>1, <1>2, <1>3 DEF RunSettles, TypeOK, OutcomeAgreement, Terminal
<1> QED
  BY <1>4, <1>5, <1>7, <1>8, <1>9, <1>10

LEMMA InvReleaseSlot ==
  ASSUME IInv, NEW j \in Jobs, ReleaseSlot(j)
  PROVE  IInv'
<1> USE DEF IInv
<1>1. j \in Holders /\ Holders' = Holders \ {j}
  BY DEF ReleaseSlot, TypeOK, Holders, HoldsSlot, Outcomes
<1>2. status[j] \in Terminal
  BY DEF ReleaseSlot, StatusMatchesWorker
<1>3. /\ IsFiniteSet(Holders')
      /\ Cardinality(Holders') = active - 1
      /\ active - 1 \in Nat
  <2>1. /\ IsFiniteSet(Holders \ {j})
        /\ Cardinality(Holders \ {j}) = Cardinality(Holders) - 1
    BY <1>1, FS_RemoveElement DEF FiniteHolders
  <2>2. Cardinality(Holders \ {j}) \in Nat
    BY <2>1, FS_CardinalityType
  <2> QED
    BY <1>1, <2>1, <2>2 DEF SlotAccounting
<1>4. TypeOK'
  BY <1>3 DEF ReleaseSlot, TypeOK, displayVars
<1>5. StatusMatchesWorker'
  BY <1>2 DEF ReleaseSlot, TypeOK, StatusMatchesWorker, Outcomes, Terminal
<1>6. FiniteHolders' /\ SlotAccounting'
  BY <1>1, <1>2, <1>3, ConcurrencyAssumption DEF ReleaseSlot, TypeOK,
     FiniteHolders, SlotAccounting, Running, Terminal
<1> QED
  BY <1>4, <1>5, <1>6 DEF ReleaseSlot, QueueConsistent, NoLostPump,
     OutcomeAgreement

LEMMA InvReport ==
  ASSUME IInv, NEW j \in Jobs, Report(j) \/ ProgressTimer(j)
  PROVE  IInv'
<1> USE DEF IInv
<1>1. TypeOK'
  <2>1. progress' \in [Jobs -> Nat]
    <3>1. progress' = progress \/ progress' = [progress EXCEPT ![j] = progress[j] + 1]
      BY DEF Report, ProgressTimer
    <3>2. progress \in [Jobs -> Nat] /\ progress[j] + 1 \in Nat
      BY DEF TypeOK
    <3> HIDE DEF IInv
    <3> QED
      BY <3>1, <3>2
  <2>2. timer' \in [Jobs -> BOOLEAN] /\ due' \in [Jobs -> Nat]
    <3>1. emittedAt[j] + ProgressInterval \in Nat
      BY BoundsAssumption DEF TypeOK
    <3>2. \E b \in BOOLEAN : timer' = timer \/ timer' = [timer EXCEPT ![j] = b]
      BY DEF Report, ProgressTimer
    <3>3. due' = due \/ due' = [due EXCEPT ![j] = emittedAt[j] + ProgressInterval]
      BY DEF Report, ProgressTimer
    <3>4. timer \in [Jobs -> BOOLEAN] /\ due \in [Jobs -> Nat]
      BY DEF TypeOK
    <3> HIDE DEF IInv
    <3> QED
      BY <3>1, <3>2, <3>3, <3>4
  <2>3. ASSUME NEW p \in Nat, Emit(j, p)
        PROVE  /\ shown' \in [Jobs -> [status : Statuses, progress : Nat]]
               /\ emittedAt' \in [Jobs -> Nat]
    <3>1. status[j] \in Statuses /\ now \in Nat
      BY DEF TypeOK
    <3>2. [status |-> status[j], progress |-> p] \in [status : Statuses, progress : Nat]
      BY <3>1
    <3> QED
      BY <2>3, <3>1, <3>2 DEF Emit, TypeOK
  <2>4. /\ shown' \in [Jobs -> [status : Statuses, progress : Nat]]
        /\ emittedAt' \in [Jobs -> Nat]
    <3>1. progress[j] \in Nat /\ progress[j] + 1 \in Nat
      BY DEF TypeOK
    <3>2. \/ \E p \in Nat : Emit(j, p)
          \/ UNCHANGED <<shown, emittedAt>>
      BY <3>1 DEF Report, ProgressTimer
    <3>3. CASE UNCHANGED <<shown, emittedAt>>
      BY <3>3 DEF TypeOK
    <3> QED
      BY <2>3, <3>2, <3>3
  <2> QED
    BY <2>1, <2>2, <2>4 DEF Report, ProgressTimer, TypeOK, queueVars, runVars
<1> QED
  BY <1>1 DEF Report, ProgressTimer, StatusMatchesWorker, FiniteHolders,
     SlotAccounting, QueueConsistent, NoLostPump, OutcomeAgreement, Holders,
     Running, queueVars, runVars

LEMMA InvTick ==
  ASSUME IInv, Tick \/ UNCHANGED vars
  PROVE  IInv'
<1> USE DEF IInv
<1>1. TypeOK'
  BY DEF Tick, TypeOK, vars, queueVars, runVars, displayVars
<1> QED
  BY <1>1 DEF Tick, StatusMatchesWorker, FiniteHolders, SlotAccounting,
     QueueConsistent, NoLostPump, OutcomeAgreement, Holders, Running, vars,
     queueVars, runVars, displayVars

-----------------------------------------------------------------------------
(* The theorems.                                                           *)

\* The strengthened invariant holds in every reachable state.
THEOREM Inductive == Spec => []IInv
<1>1. IInv /\ [Next]_vars => IInv'
  BY InvEnqueue, InvRead, InvCancelQueued, InvCancelRunning, InvPump,
     InvWorkerSettles, InvRunSettles, InvReleaseSlot, InvReport, InvTick
     DEF Next
<1> QED
  BY <1>1, InvInit, PTL DEF Spec

\* The fields of the queue keep their types, whatever is enqueued, cancelled,
\* reported or pruned (transfer-queue.ts:81-89).
THEOREM TypeCorrect == Spec => []TypeOK
<1>1. IInv => TypeOK
  BY DEF IInv
<1> QED
  BY <1>1, Inductive, PTL

\* active counts the held slots and never exceeds the concurrency
\* (transfer-queue.ts:203-213).
THEOREM SlotsAreCounted == Spec => []SlotAccounting
<1>1. IInv => SlotAccounting
  BY DEF IInv
<1> QED
  BY <1>1, Inductive, PTL

\* The line holds each waiting job once, and no live job is ever pruned
\* (transfer-queue.ts:149-150, 174-175, 205, 290-312).
THEOREM LineIsConsistent == Spec => []QueueConsistent
<1>1. IInv => QueueConsistent
  BY DEF IInv
<1> QED
  BY <1>1, Inductive, PTL

\* No wakeup is lost between enqueue(), the release of a slot and the pump
\* (transfer-queue.ts:152, 194-213).
THEOREM PumpIsNeverLost == Spec => []NoLostPump
<1>1. IInv => NoLostPump
  BY DEF IInv
<1> QED
  BY <1>1, Inductive, PTL

\* A handle is settled exactly when its job is over, in the same sense, and an
\* accepted cancellation is never followed by success
\* (transfer-queue.ts:170-187, 233-252).
THEOREM OutcomesAgree == Spec => []OutcomeAgreement
<1>1. IInv => OutcomeAgreement
  BY DEF IInv
<1> QED
  BY <1>1, Inductive, PTL

\* All of it at once, as the run transfer_queue checks it: types, line, pump and
\* outcomes (transfer-queue.ts:81-312).
THEOREM QueueIsConsistent == Spec => []Consistent
<1>1. TypeOK /\ QueueConsistent /\ NoLostPump /\ OutcomeAgreement => Consistent
  BY DEF Consistent
<1> QED
  BY <1>1, TypeCorrect, LineIsConsistent, PumpIsNeverLost, OutcomesAgree, PTL

-----------------------------------------------------------------------------
(* Progress events                                                         *)

\* The steps of a report and of the timer, for the job itself: the rest of the
\* state that progress depends on stays.
LEMMA ProgressStep ==
  ASSUME IInv, IInv', ProgressDelivered, [Next]_vars
  PROVE  ProgressDelivered'
<1> USE DEF ProgressDelivered
<1>1. ASSUME NEW j \in Jobs, Enqueue(j)
      PROVE  ProgressDelivered'
  <2>1. \A k \in Jobs : timer[k] => k \in PruneHistory(jobs, status, finishedAt)
    BY PruneKeepsLive DEF IInv, QueueConsistent, Live, Terminal
  <2> QED
    BY <1>1, <2>1 DEF Enqueue, ChangedNow, IInv, TypeOK
<1>2. CASE Read
  <2>1. \A k \in Jobs : timer[k] => k \in PruneHistory(jobs, status, finishedAt)
    BY PruneKeepsLive DEF IInv, QueueConsistent, Live, Terminal
  <2> QED
    BY <1>2, <2>1 DEF Read, IInv, TypeOK
<1>3. ASSUME NEW j \in Jobs, NEW st, status' = [status EXCEPT ![j] = st],
             jobs' = PruneHistory(jobs, status', finishedAt'), UNCHANGED progress,
             ChangedNow({j}, st, jobs \ jobs')
      PROVE  ProgressDelivered'
  <2>1. \A k \in Jobs : timer[k] /\ k # j => k \in jobs'
    <3>1. \A k \in Jobs : timer[k] /\ k # j => k \in jobs /\ status'[k] \notin Terminal
      <4>1. \A k \in Jobs : timer[k] => k \in jobs /\ status[k] = "running"
        BY DEF IInv, TypeOK, QueueConsistent, Live
      <4>2. \A k \in Jobs \ {j} : status'[k] = status[k]
        BY <1>3 DEF IInv, TypeOK
      <4> QED
        BY <4>1, <4>2 DEF Terminal
    <3> QED
      BY <1>3, <3>1, PruneKeepsLive
  <2> QED
    BY <1>3, <2>1 DEF ChangedNow, IInv, TypeOK
<1>4. CASE Pump
  BY <1>4 DEF Pump, ChangedNow, IInv, TypeOK
<1>5. ASSUME NEW j \in Jobs, Report(j)
      PROVE  ProgressDelivered'
  <2>1. status[j] = "running" /\ UNCHANGED status
    BY <1>5 DEF Report, queueVars, IInv, StatusMatchesWorker
  <2>2. \A k \in Jobs : progress'[k] = IF k = j THEN progress[j] + 1 ELSE progress[k]
    BY <1>5 DEF Report, IInv, TypeOK
  <2>3. CASE Emit(j, progress[j] + 1) /\ UNCHANGED timer
    BY <2>1, <2>2, <2>3 DEF Emit, IInv, TypeOK
  <2>4. CASE timer' = [timer EXCEPT ![j] = TRUE] /\ UNCHANGED shown
    BY <2>1, <2>2, <2>4 DEF IInv, TypeOK
  <2> QED
    BY <1>5, <2>3, <2>4 DEF Report
<1>6. ASSUME NEW j \in Jobs, ProgressTimer(j)
      PROVE  ProgressDelivered'
  <2>1. Emit(j, progress[j])
    BY <1>6 DEF ProgressTimer, IInv, QueueConsistent, Live, Terminal
  <2> QED
    BY <1>6, <2>1 DEF ProgressTimer, Emit, queueVars, IInv, TypeOK
<1>7. CASE UNCHANGED <<status, displayVars>>
  BY <1>7 DEF displayVars
<1>8. ASSUME NEW j \in Jobs, CancelQueued(j) \/ RunSettles(j)
      PROVE  ProgressDelivered'
  BY <1>8, <1>3 DEF CancelQueued, RunSettles
<1>9. ASSUME NEW j \in Jobs, CancelRunning(j) \/ WorkerSettles(j) \/ ReleaseSlot(j)
      PROVE  UNCHANGED <<status, displayVars>>
  BY <1>9 DEF CancelRunning, WorkerSettles, ReleaseSlot, queueVars
<1>10. CASE Tick \/ UNCHANGED vars
  BY <1>7, <1>10 DEF Tick, vars, queueVars
<1> QED
  BY <1>1, <1>2, <1>4, <1>5, <1>6, <1>7, <1>8, <1>9, <1>10 DEF Next

\* Throttling loses no progress: what was last shown is current, or the timer that
\* will show it is armed, and only while the job runs
\* (transfer-queue.ts:255-289).  A timer is found with its job in the table
\* because pruning spares live jobs.
THEOREM ProgressIsDelivered == Spec => []ProgressDelivered
<1>1. Init => ProgressDelivered
  BY DEF Init, ProgressDelivered, Nothing
<1> QED
  BY <1>1, ProgressStep, Inductive, PTL DEF Spec

-----------------------------------------------------------------------------
(* The history                                                             *)

\* The sort of pruneHistory() keeps at most HistoryLimit jobs: the position of a
\* job is the number of those before it, and no two have the same.
LEMMA PruneBounds ==
  ASSUME NEW m \in SUBSET Jobs, IsFiniteSet(m), NEW st,
         NEW fin \in [Jobs -> Nat], ordinal \in [Jobs -> Nat],
         \A i, j \in m : ordinal[i] = ordinal[j] => i = j
  PROVE  LET kept == Finished(PruneHistory(m, st, fin), st)
         IN  IsFiniteSet(kept) /\ Cardinality(kept) <= HistoryLimit
<1> DEFINE fresh == Finished(m, st) \ Expired(m, st, fin)
           Before(j) == {i \in fresh : Precedes(i, j, fin)}
           kept == Finished(PruneHistory(m, st, fin), st)
           position == [j \in kept |-> Cardinality(Before(j))]
<1>1. fresh \subseteq m /\ IsFiniteSet(fresh)
  BY FS_Subset DEF Finished
<1>2. \A j \in Jobs : IsFiniteSet(Before(j)) /\ Cardinality(Before(j)) \in Nat
  BY <1>1, FS_Subset, FS_CardinalityType
<1>3. kept \subseteq fresh /\ \A j \in kept : Cardinality(Before(j)) < HistoryLimit
  <2>1. kept = {j \in fresh : ~(Cardinality(Before(j)) >= HistoryLimit)}
    BY DEF Finished, PruneHistory, Pruned, Overflowing
  <2>2. \A j \in fresh : Cardinality(Before(j)) \in Nat
    BY <1>1, <1>2
  <2> HIDE DEF fresh, Before, kept
  <2> QED
    BY <2>1, <2>2, HistoryAssumption
<1>4. ASSUME NEW i \in fresh, NEW j \in fresh, Precedes(i, j, fin)
      PROVE  Cardinality(Before(i)) < Cardinality(Before(j))
  <2>1. i \in Jobs /\ j \in Jobs
    BY <1>1
  <2>2. Before(i) \subseteq Before(j) /\ i \in Before(j) /\ i \notin Before(i)
    BY <1>1, <1>4 DEF Precedes
  <2>3. Cardinality(Before(i)) <= Cardinality(Before(j))
    BY <1>2, <2>1, <2>2, FS_Subset
  <2>4. Cardinality(Before(i)) # Cardinality(Before(j))
    BY <1>2, <2>1, <2>2, FS_Subset
  <2>5. Cardinality(Before(i)) \in Nat /\ Cardinality(Before(j)) \in Nat
    BY <1>2, <2>1
  <2> HIDE DEF Before
  <2> QED
    BY <2>3, <2>4, <2>5
<1>5. \A i, j \in fresh : i # j => Precedes(i, j, fin) \/ Precedes(j, i, fin)
  BY <1>1 DEF Precedes
<1>6. \A i, j \in kept : position[i] = position[j] => i = j
  <2> SUFFICES ASSUME NEW i \in kept, NEW j \in kept, i # j
               PROVE  Cardinality(Before(i)) # Cardinality(Before(j))
    OBVIOUS
  <2>1. i \in fresh /\ j \in fresh /\ i \in Jobs /\ j \in Jobs
    BY <1>1, <1>3
  <2>2. Cardinality(Before(i)) \in Nat /\ Cardinality(Before(j)) \in Nat
    BY <1>2, <2>1
  <2>3. \/ Cardinality(Before(i)) < Cardinality(Before(j))
        \/ Cardinality(Before(j)) < Cardinality(Before(i))
    BY <1>4, <1>5, <2>1
  <2> QED
    BY <2>2, <2>3
<1>7. \A j \in kept : position[j] \in 0..(HistoryLimit - 1)
  <2> SUFFICES ASSUME NEW j \in kept
               PROVE  Cardinality(Before(j)) \in 0..(HistoryLimit - 1)
    OBVIOUS
  <2>1. j \in Jobs /\ Cardinality(Before(j)) < HistoryLimit
    BY <1>1, <1>3
  <2>2. Cardinality(Before(j)) \in Nat
    BY <1>2, <2>1
  <2> QED
    BY <2>1, <2>2, HistoryAssumption
<1>8. position \in Injection(kept, 0..(HistoryLimit - 1))
  BY <1>6, <1>7 DEF Injection, IsInjective
<1>9. /\ IsFiniteSet(0..(HistoryLimit - 1))
      /\ Cardinality(0..(HistoryLimit - 1)) = HistoryLimit
  BY FS_Interval, HistoryAssumption
<1> QED
  BY <1>8, <1>9, FS_Injection

\* What pruneHistory() drops finished no later than what it keeps.
LEMMA PruneDropsOldest ==
  ASSUME NEW m \in SUBSET Jobs, IsFiniteSet(m), NEW st,
         NEW fin \in [Jobs -> Nat], ordinal \in [Jobs -> Nat], now \in Nat,
         NEW gone \in m \ PruneHistory(m, st, fin),
         NEW kept \in Finished(PruneHistory(m, st, fin), st)
  PROVE  fin[gone] <= fin[kept]
<1> DEFINE fresh == Finished(m, st) \ Expired(m, st, fin)
           Before(j) == {i \in fresh : Precedes(i, j, fin)}
<1>1. /\ gone \in Jobs /\ kept \in Jobs /\ kept \in fresh
      /\ ~(Cardinality(Before(kept)) >= HistoryLimit)
  BY DEF Finished, PruneHistory, Pruned, Overflowing
<1>2. CASE gone \in Expired(m, st, fin)
  BY <1>1, <1>2, HistoryAssumption DEF Expired
<1>3. CASE gone \in fresh /\ Cardinality(Before(gone)) >= HistoryLimit
  <2> SUFFICES ASSUME fin[gone] > fin[kept] PROVE FALSE
    BY <1>1
  <2>1. Before(gone) \subseteq Before(kept)
    BY <1>1 DEF Precedes, Finished
  <2>2. IsFiniteSet(fresh)
    BY FS_Subset DEF Finished
  <2>3. IsFiniteSet(Before(kept)) /\ IsFiniteSet(Before(gone))
    BY <2>2, FS_Subset
  <2>4. Cardinality(Before(gone)) <= Cardinality(Before(kept))
    BY <2>1, <2>3, FS_Subset
  <2>5. Cardinality(Before(gone)) \in Nat /\ Cardinality(Before(kept)) \in Nat
    BY <2>3, FS_CardinalityType
  <2> QED
    BY <1>1, <1>3, <2>4, <2>5, HistoryAssumption
<1> QED
  BY <1>2, <1>3 DEF PruneHistory, Pruned, Overflowing

\* The jobs of the table were created one after the other, and are finitely many.
JobsAreNumbered ==
  /\ IsFiniteSet(jobs)
  /\ \A j \in jobs : status[j] # "absent"
  /\ \A j \in Jobs : status[j] # "absent" => ordinal[j] <= created
  /\ \A i, j \in jobs : ordinal[i] = ordinal[j] => i = j

HistoryBounded ==
  /\ IsFiniteSet(Finished(jobs, status))
  /\ Cardinality(Finished(jobs, status)) <= HistoryLimit

\* What a step does to the history: it prunes with the statuses and times it
\* leaves, or it touches neither table nor outcome.
HistoryStep ==
  \/ jobs' = PruneHistory(jobs, status', finishedAt')
  \/ \E j \in Jobs : /\ jobs' = PruneHistory(jobs, status, finishedAt) \cup {j}
                     /\ status' = [status EXCEPT ![j] = "queued"]
                     /\ status[j] = "absent"
                     /\ UNCHANGED finishedAt
  \/ /\ UNCHANGED <<jobs, finishedAt>>
     /\ \A j \in Jobs : status'[j] \in Terminal <=> status[j] \in Terminal

LEMMA EveryHistoryStep ==
  ASSUME IInv, [Next]_vars
  PROVE  HistoryStep
<1>1. ASSUME NEW j \in Jobs, Enqueue(j) \/ CancelQueued(j) \/ RunSettles(j)
      PROVE  HistoryStep
  BY <1>1 DEF Enqueue, CancelQueued, RunSettles, runVars, HistoryStep
<1>2. CASE Read
  BY <1>2 DEF Read, runVars, HistoryStep
<1>3. CASE Pump
  <2>1. \A j \in Started : status[j] = "queued"
    <3>1. ToStart \in 0..Len(pending)
      BY ConcurrencyAssumption DEF ToStart, IInv, TypeOK, SlotAccounting
    <3>2. DOMAIN pending = 1..Len(pending) /\ Len(pending) \in Nat
      BY DEF IInv, TypeOK
    <3>3. Started \subseteq Range(pending)
      BY <3>1, <3>2 DEF Started, Range
    <3> QED
      BY <3>3 DEF IInv, QueueConsistent
  <2> QED
    BY <1>3, <2>1 DEF Pump, Terminal, HistoryStep
<1>4. ASSUME NEW j \in Jobs, CancelRunning(j) \/ WorkerSettles(j) \/ ReleaseSlot(j)
                             \/ Report(j) \/ ProgressTimer(j)
      PROVE  UNCHANGED <<jobs, status, finishedAt>>
  BY <1>4 DEF CancelRunning, WorkerSettles, ReleaseSlot, Report, ProgressTimer,
              queueVars, runVars
<1>5. CASE Tick \/ UNCHANGED vars
  BY <1>5 DEF Tick, vars, queueVars, runVars, HistoryStep
<1>6. CASE UNCHANGED <<jobs, status, finishedAt>>
  BY <1>6 DEF HistoryStep
<1> QED
  BY <1>1, <1>2, <1>3, <1>4, <1>5, <1>6 DEF Next

\* Statuses and numbers are kept, but for the job an enqueue() creates.
LEMMA NumbersKept ==
  ASSUME IInv, JobsAreNumbered, [Next]_vars
  PROVE  JobsAreNumbered'
<1>1. ASSUME NEW j \in Jobs, Enqueue(j)
      PROVE  JobsAreNumbered'
  <2>1. /\ jobs' \subseteq jobs \cup {j} /\ IsFiniteSet(jobs \cup {j})
        /\ j \notin jobs
    BY <1>1, PruneKeepsLive, FS_AddElement DEF Enqueue, JobsAreNumbered
  <2>2. IsFiniteSet(jobs')
    BY <2>1, FS_Subset
  <2>3. \A k \in Jobs : /\ status'[k] = IF k = j THEN "queued" ELSE status[k]
                        /\ ordinal'[k] = IF k = j THEN created + 1 ELSE ordinal[k]
    BY <1>1 DEF Enqueue, IInv, TypeOK
  <2>4. created' = created + 1 /\ created \in Nat /\ ordinal \in [Jobs -> Nat]
        /\ jobs \in SUBSET Jobs
    BY <1>1 DEF Enqueue, IInv, TypeOK
  <2>5. \A k \in jobs' : status'[k] # "absent"
    BY <2>1, <2>3, <2>4 DEF JobsAreNumbered
  <2>6. \A k \in Jobs : status'[k] # "absent" => ordinal'[k] <= created'
    BY <2>3, <2>4 DEF JobsAreNumbered
  <2>7. \A k \in jobs : ordinal[k] <= created /\ k \in Jobs
    BY <2>4 DEF JobsAreNumbered
  <2>8. \A i, k \in jobs' : ordinal'[i] = ordinal'[k] => i = k
    BY <2>1, <2>3, <2>4, <2>7 DEF JobsAreNumbered
  <2> QED
    BY <2>2, <2>5, <2>6, <2>8 DEF JobsAreNumbered
<1>2. ASSUME jobs' \subseteq jobs, UNCHANGED <<created, ordinal>>,
             \A j \in Jobs : status'[j] = "absent" <=> status[j] = "absent"
      PROVE  JobsAreNumbered'
  <2>1. IsFiniteSet(jobs')
    BY <1>2, FS_Subset DEF JobsAreNumbered
  <2>2. jobs \subseteq Jobs
    BY DEF IInv, TypeOK
  <2> QED
    BY <1>2, <2>1, <2>2 DEF JobsAreNumbered
<1>3. ASSUME NEW j \in Jobs, CancelQueued(j) \/ RunSettles(j)
      PROVE  JobsAreNumbered'
  <2>1. jobs' \subseteq jobs
    BY <1>3, PruneKeepsLive DEF CancelQueued, RunSettles
  <2>2. \A k \in Jobs : status'[k] = "absent" <=> status[k] = "absent"
    BY <1>3 DEF CancelQueued, RunSettles, Verdict, IInv, TypeOK, StatusMatchesWorker
  <2> QED
    BY <1>2, <1>3, <2>1, <2>2 DEF CancelQueued, RunSettles
<1>4. CASE Read
  BY <1>2, <1>4, PruneKeepsLive DEF Read
<1>5. CASE Pump
  <2>1. \A j \in Started : status[j] = "queued"
    <3>1. ToStart \in 0..Len(pending)
      BY ConcurrencyAssumption DEF ToStart, IInv, TypeOK, SlotAccounting
    <3>2. DOMAIN pending = 1..Len(pending) /\ Len(pending) \in Nat
      BY DEF IInv, TypeOK
    <3>3. Started \subseteq Range(pending)
      BY <3>1, <3>2 DEF Started, Range
    <3> QED
      BY <3>3 DEF IInv, QueueConsistent
  <2> QED
    BY <1>2, <1>5, <2>1 DEF Pump
<1>6. ASSUME NEW j \in Jobs, CancelRunning(j) \/ WorkerSettles(j) \/ ReleaseSlot(j)
                             \/ Report(j) \/ ProgressTimer(j)
      PROVE  UNCHANGED <<jobs, status, created, ordinal>>
  BY <1>6 DEF CancelRunning, WorkerSettles, ReleaseSlot, Report, ProgressTimer,
              queueVars, runVars
<1>7. CASE Tick \/ UNCHANGED vars
  BY <1>2, <1>7 DEF Tick, vars, queueVars
<1>8. CASE UNCHANGED <<jobs, status, created, ordinal>>
  BY <1>2, <1>8
<1> QED
  BY <1>1, <1>3, <1>4, <1>5, <1>6, <1>7, <1>8 DEF Next

LEMMA HistoryKept ==
  ASSUME IInv, IInv', JobsAreNumbered, HistoryBounded, HistoryStep
  PROVE  /\ HistoryBounded'
         /\ \A gone \in jobs \ jobs', kept \in Finished(jobs', status') :
              finishedAt'[gone] <= finishedAt'[kept]
<1> DEFINE Older == \A gone \in jobs \ jobs', kept \in Finished(jobs', status') :
                      finishedAt'[gone] <= finishedAt'[kept]
<1>0. /\ jobs \in SUBSET Jobs /\ IsFiniteSet(jobs) /\ now \in Nat
      /\ ordinal \in [Jobs -> Nat]
      /\ finishedAt \in [Jobs -> Nat] /\ finishedAt' \in [Jobs -> Nat]
      /\ \A i, j \in jobs : ordinal[i] = ordinal[j] => i = j
  BY DEF IInv, TypeOK, JobsAreNumbered
<1>1. CASE jobs' = PruneHistory(jobs, status', finishedAt')
  <2>1. HistoryBounded'
    BY <1>0, <1>1, PruneBounds DEF HistoryBounded
  <2>2. Older
    BY <1>0, <1>1, PruneDropsOldest
  <2> QED
    BY <2>1, <2>2
<1>2. ASSUME NEW j \in Jobs,
             jobs' = PruneHistory(jobs, status, finishedAt) \cup {j},
             status' = [status EXCEPT ![j] = "queued"],
             status[j] = "absent",
             UNCHANGED finishedAt
      PROVE  HistoryBounded' /\ Older
  <2>1. /\ j \notin jobs
        /\ \A k \in Jobs : status'[k] = IF k = j THEN "queued" ELSE status[k]
    BY <1>2 DEF JobsAreNumbered, IInv, TypeOK
  <2>2. PruneHistory(jobs, status, finishedAt) \subseteq jobs
    BY PruneKeepsLive
  <2>3. Finished(jobs', status')
          = Finished(PruneHistory(jobs, status, finishedAt), status)
    BY <1>0, <1>2, <2>1, <2>2 DEF Finished, Terminal
  <2>4. HistoryBounded'
    BY <1>0, <2>3, PruneBounds DEF HistoryBounded
  <2>5. Older
    BY <1>0, <1>2, <2>3, PruneDropsOldest
  <2> QED
    BY <2>4, <2>5
<1>3. CASE /\ UNCHANGED <<jobs, finishedAt>>
           /\ \A j \in Jobs : status'[j] \in Terminal <=> status[j] \in Terminal
  <2>1. Finished(jobs', status') = Finished(jobs, status)
    BY <1>0, <1>3 DEF Finished
  <2> QED
    BY <1>3, <2>1 DEF HistoryBounded
<1> QED
  BY <1>1, <1>2, <1>3 DEF HistoryStep

\* The history stays within its limit and loses its oldest first, for any number
\* of downloads that finish at any moments (transfer-queue.ts:290-312).
THEOREM HistoryIsNewest == Spec => HistoryKeepsNewest
<1>1. Init => JobsAreNumbered /\ HistoryBounded
  <2> SUFFICES ASSUME Init PROVE JobsAreNumbered /\ HistoryBounded
    OBVIOUS
  <2>1. Finished(jobs, status) = {}
    BY DEF Init, Finished
  <2> QED
    BY <2>1, FS_EmptySet, HistoryAssumption DEF Init, JobsAreNumbered, HistoryBounded
<1>2. IInv /\ IInv' /\ JobsAreNumbered /\ HistoryBounded /\ [Next]_vars
        => JobsAreNumbered' /\ HistoryBounded'
  BY NumbersKept, HistoryKept, EveryHistoryStep
<1>3. IInv /\ IInv' /\ JobsAreNumbered /\ HistoryBounded /\ [Next]_vars
        => [/\ Cardinality(Finished(jobs', status')) <= HistoryLimit
            /\ \A gone \in jobs \ jobs', kept \in Finished(jobs', status') :
                 finishedAt'[gone] <= finishedAt'[kept]]_vars
  BY HistoryKept, EveryHistoryStep DEF HistoryBounded
<1> QED
  BY <1>1, <1>2, <1>3, Inductive, PTL DEF Spec, HistoryKeepsNewest

-----------------------------------------------------------------------------
(* The refinement of DownloadContract                                      *)

\* The handles that are settled, as the contract sees them.
Resolved == {j \in Jobs : completion[j] = "resolved"}
Rejected == {j \in Jobs : completion[j] = "rejected"}
Condemned == {j \in Jobs : aborted[j]}

\* The parts of a line, and what they make together.
LEMMA Concatenation ==
  ASSUME NEW a \in Seq(Jobs), NEW b \in Seq(Jobs)
  PROVE  /\ a \o b \in Seq(Jobs)
         /\ Len(a \o b) = Len(a) + Len(b)
         /\ DOMAIN (a \o b) = 1..(Len(a) + Len(b))
         /\ \A i \in 1..Len(a) : (a \o b)[i] = a[i]
         /\ \A i \in 1..Len(b) : (a \o b)[Len(a) + i] = b[i]
OBVIOUS

LEMMA Slice ==
  ASSUME NEW s \in Seq(Jobs), NEW m \in 1..(Len(s) + 1), NEW n \in 0..Len(s), m <= n + 1
  PROVE  /\ SubSeq(s, m, n) \in Seq(Jobs)
         /\ Len(SubSeq(s, m, n)) = n - m + 1
         /\ \A i \in 1..(n - m + 1) : SubSeq(s, m, n)[i] = s[m + i - 1]
<1>1. \A i \in m..n : s[i] \in Jobs
  OBVIOUS
<1> QED
  BY <1>1

\* A job that leaves the line is cut out of it.
LEMMA WithoutJobCutsOut ==
  ASSUME NEW s \in Seq(Jobs), NEW j \in Range(s)
  PROVE  \E n \in 1..Len(s) :
           /\ s[n] = j
           /\ WithoutJob(s, j) = SubSeq(s, 1, n - 1) \o SubSeq(s, n + 1, Len(s))
<1>0. Len(s) \in Nat /\ DOMAIN s = 1..Len(s)
  OBVIOUS
<1>1. PICK n \in 1..Len(s) :
        /\ s[n] = j
        /\ WithoutJob(s, j) = [i \in 1..(Len(s) - 1) |-> IF i < n THEN s[i] ELSE s[i + 1]]
  BY <1>0 DEF WithoutJob, Range
<1> DEFINE a == SubSeq(s, 1, n - 1)
           b == SubSeq(s, n + 1, Len(s))
           c == a \o b
<1>2. /\ a \in Seq(Jobs) /\ Len(a) = n - 1
      /\ \A i \in 1..(n - 1) : a[i] = s[i]
  <2>1. 1 \in 1..(Len(s) + 1) /\ n - 1 \in 0..Len(s) /\ 1 <= (n - 1) + 1
    BY <1>0
  <2>2. (n - 1) - 1 + 1 = n - 1 /\ \A i \in 1..(n - 1) : 1 + i - 1 = i
    BY <1>0
  <2> QED
    BY <2>1, <2>2, Slice
<1>3. /\ b \in Seq(Jobs) /\ Len(b) = Len(s) - n
      /\ \A i \in 1..(Len(s) - n) : b[i] = s[n + i]
  <2>1. n + 1 \in 1..(Len(s) + 1) /\ Len(s) \in 0..Len(s) /\ n + 1 <= Len(s) + 1
    BY <1>0
  <2>2. /\ b \in Seq(Jobs)
        /\ Len(b) = Len(s) - (n + 1) + 1
        /\ \A i \in 1..(Len(s) - (n + 1) + 1) : b[i] = s[(n + 1) + i - 1]
    BY <2>1, Slice
  <2>3. /\ Len(s) - (n + 1) + 1 = Len(s) - n
        /\ \A i \in 1..(Len(s) - n) : (n + 1) + i - 1 = n + i
    BY <1>0
  <2> HIDE DEF b
  <2> QED
    BY <2>2, <2>3
<1> HIDE DEF a, b
<1>4. DOMAIN c = 1..(Len(s) - 1) /\ c \in Seq(Jobs) /\ Len(c) = Len(s) - 1
  <2>1. Len(a) + Len(b) = Len(s) - 1
    BY <1>0, <1>2, <1>3
  <2> QED
    BY <1>2, <1>3, <2>1, Concatenation
<1>5. ASSUME NEW i \in 1..(Len(s) - 1)
      PROVE  c[i] = IF i < n THEN s[i] ELSE s[i + 1]
  <2>1. CASE i < n
    <3>1. i \in 1..(n - 1)
      BY <1>0, <2>1
    <3>2. c[i] = a[i]
      BY <1>2, <1>3, <3>1, Concatenation
    <3> QED
      BY <1>2, <2>1, <3>1, <3>2
  <2>2. CASE ~(i < n)
    <3> DEFINE k == i - (n - 1)
    <3>1. k \in 1..(Len(s) - n) /\ (n - 1) + k = i /\ n + k = i + 1
      BY <1>0, <2>2
    <3> HIDE DEF k
    <3>2. c[i] = b[k]
      BY <1>2, <1>3, <3>1, Concatenation
    <3> QED
      BY <1>3, <2>2, <3>1, <3>2
  <2> QED
    BY <2>1, <2>2
<1>6. c = [i \in 1..(Len(s) - 1) |-> IF i < n THEN s[i] ELSE s[i + 1]]
  <2> HIDE DEF c
  <2>1. c = [i \in 1..(Len(s) - 1) |-> c[i]]
    BY <1>4
  <2> QED
    BY <1>5, <2>1
<1> QED
  BY <1>1, <1>6 DEF a, b

\* A step that leaves line, statuses, signals and promises is invisible.
LEMMA InvisibleStep ==
  ASSUME UNCHANGED <<pending, aborted, completion>>, Running' = Running
  PROVE  UNCHANGED Contract!vars
BY DEF Contract!vars

\* The two modules count alike.
LEMMA SameCardinality == \A S : Contract!Cardinality(S) = Cardinality(S)
BY DEF Contract!Cardinality, Cardinality

LEMMA EnqueueAccepts ==
  ASSUME IInv, NEW j \in Jobs, Enqueue(j)
  PROVE  Contract!Accept(j)
<1>1. j \notin Range(pending) /\ j \notin Running /\ completion[j] = "unsettled"
  BY DEF Enqueue, IInv, TypeOK, QueueConsistent, OutcomeAgreement, Running
<1>2. Contract!Waiting = Range(pending)
  <2>1. DOMAIN pending = 1..Len(pending)
    BY DEF IInv, TypeOK
  <2> QED
    BY <2>1 DEF Contract!Waiting, Range
<1>3. j \notin Contract!Known
  BY <1>1, <1>2 DEF Contract!Known
<1>4. Running' = Running
  BY DEF Enqueue, Running, IInv, TypeOK
<1> QED
  BY <1>3, <1>4 DEF Enqueue, runVars, Contract!Accept

LEMMA CancelQueuedWithdraws ==
  ASSUME IInv, NEW j \in Jobs, CancelQueued(j)
  PROVE  \E n \in 1..Len(pending) : Contract!Withdraw(n)
<1>1. j \in Range(pending) /\ pending \in Seq(Jobs)
  BY DEF CancelQueued, IInv, TypeOK, QueueConsistent
<1>2. PICK n \in 1..Len(pending) :
        /\ pending[n] = j
        /\ WithoutJob(pending, j)
             = SubSeq(pending, 1, n - 1) \o SubSeq(pending, n + 1, Len(pending))
  BY <1>1, WithoutJobCutsOut
<1>3. Rejected' = Rejected \cup {j} /\ Resolved' = Resolved
  BY DEF CancelQueued, Rejected, Resolved, IInv, TypeOK, OutcomeAgreement
<1>4. Running' = Running
  BY DEF CancelQueued, Running, IInv, TypeOK
<1>5. Contract!Withdraw(n)
  BY <1>2, <1>3, <1>4 DEF CancelQueued, Contract!Withdraw, Rejected, Resolved
<1> QED
  BY <1>5

LEMMA CancelRunningCondemns ==
  ASSUME IInv, NEW j \in Jobs, CancelRunning(j)
  PROVE  Contract!Condemn(j)
<1>1. j \in Running /\ Running' = Running
  BY DEF CancelRunning, Running, queueVars
<1>2. Condemned' = Condemned \cup {j}
  BY DEF CancelRunning, Condemned, IInv, TypeOK
<1> QED
  BY <1>1, <1>2 DEF CancelRunning, queueVars, Contract!Condemn, Condemned

LEMMA PumpStarts ==
  ASSUME IInv, IInv', Pump
  PROVE  (\E n \in 1..Len(pending) : Contract!Start(n)) \/ UNCHANGED Contract!vars
<1>1. ToStart \in 0..Len(pending) /\ Len(pending) \in Nat /\ DOMAIN pending = 1..Len(pending)
  BY ConcurrencyAssumption DEF ToStart, IInv, TypeOK, SlotAccounting
<1>2. Started \subseteq Jobs
  <2>1. \A i \in 1..Len(pending) : pending[i] \in Jobs
    BY DEF IInv, TypeOK
  <2> QED
    BY <1>1, <2>1 DEF Started
<1>3. Running' = Running \cup {pending[i] : i \in 1..ToStart}
  BY <1>2 DEF Pump, Started, Running, IInv, TypeOK
<1>4. Cardinality(Running') <= Concurrency
  <2>1. IsFiniteSet(Holders') /\ Running' \subseteq Holders'
    BY DEF IInv, FiniteHolders, SlotAccounting
  <2>2. IsFiniteSet(Running') /\ Cardinality(Running') <= Cardinality(Holders')
    BY <2>1, FS_Subset
  <2>3. Cardinality(Running') \in Nat /\ Cardinality(Holders') \in Nat
    BY <2>1, <2>2, FS_CardinalityType
  <2> QED
    BY <2>2, <2>3, ConcurrencyAssumption DEF IInv, SlotAccounting
<1>5. CASE ToStart = 0
  <2>1. pending' = pending /\ Running' = Running
    BY <1>3, <1>5 DEF Pump, IInv, TypeOK
  <2> QED
    BY <2>1, InvisibleStep DEF Pump
<1>6. CASE ToStart \in 1..Len(pending)
  <2>1. /\ pending' = SubSeq(pending, ToStart + 1, Len(pending))
        /\ UNCHANGED <<aborted, completion>>
    BY DEF Pump
  <2>2. Contract!Start(ToStart)
    <3>1. Condemned' = Condemned /\ Resolved' = Resolved /\ Rejected' = Rejected
      BY <2>1 DEF Condemned, Resolved, Rejected
    <3> QED
      BY <1>3, <1>4, <2>1, <3>1, SameCardinality
         DEF Contract!Start, Condemned, Resolved, Rejected
  <2> QED
    BY <1>6, <2>2
<1> QED
  BY <1>1, <1>5, <1>6

LEMMA RunSettlesOnce ==
  ASSUME IInv, NEW j \in Jobs, RunSettles(j)
  PROVE  Contract!Succeed(j) \/ Contract!Fail(j)
<1>1. j \in Running /\ completion[j] = "unsettled"
  BY DEF RunSettles, IInv, TypeOK, StatusMatchesWorker, OutcomeAgreement, Running
<1>2. Verdict(j) \in Terminal
  BY DEF Verdict, Terminal
<1>3. Running' = Running \ {j}
  BY <1>2 DEF RunSettles, Running, Terminal, IInv, TypeOK
<1>4. CASE Verdict(j) = "completed"
  <2>1. ~aborted[j]
    BY <1>4 DEF Verdict
  <2>2. Resolved' = Resolved \cup {j} /\ Rejected' = Rejected
    BY <1>1, <1>4 DEF RunSettles, Resolved, Rejected, IInv, TypeOK
  <2> QED
    BY <1>1, <1>3, <2>1, <2>2 DEF RunSettles, Contract!Succeed, Resolved, Rejected
<1>5. CASE Verdict(j) # "completed"
  <2>1. Rejected' = Rejected \cup {j} /\ Resolved' = Resolved
    BY <1>1, <1>5 DEF RunSettles, Resolved, Rejected, IInv, TypeOK
  <2> QED
    BY <1>1, <1>3, <2>1 DEF RunSettles, Contract!Fail, Resolved, Rejected
<1> QED
  BY <1>4, <1>5

LEMMA EveryStepIsContracted ==
  ASSUME IInv, IInv', [Next]_vars
  PROVE  [Contract!Next]_Contract!vars
<1>1. ASSUME NEW j \in Jobs, Enqueue(j)
      PROVE  Contract!Next
  BY <1>1, EnqueueAccepts DEF Contract!Next
<1>2. ASSUME NEW j \in Jobs, CancelQueued(j)
      PROVE  Contract!Next
  BY <1>2, CancelQueuedWithdraws DEF Contract!Next
<1>3. ASSUME NEW j \in Jobs, CancelRunning(j)
      PROVE  Contract!Next
  BY <1>3, CancelRunningCondemns DEF Contract!Next
<1>4. ASSUME NEW j \in Jobs, RunSettles(j)
      PROVE  Contract!Next
  BY <1>4, RunSettlesOnce DEF Contract!Next
<1>5. CASE Pump
  BY <1>5, PumpStarts DEF Contract!Next
<1>6. ASSUME NEW j \in Jobs,
             WorkerSettles(j) \/ ReleaseSlot(j) \/ Report(j) \/ ProgressTimer(j)
      PROVE  UNCHANGED <<pending, aborted, completion, status>>
  BY <1>6 DEF WorkerSettles, ReleaseSlot, Report, ProgressTimer, queueVars, runVars
<1>7. CASE Read \/ Tick \/ UNCHANGED vars
  BY <1>7, InvisibleStep DEF Read, Tick, vars, queueVars, runVars, Running
<1>8. CASE UNCHANGED <<pending, aborted, completion, status>>
  BY <1>8, InvisibleStep DEF Running
<1> QED
  BY <1>1, <1>2, <1>3, <1>4, <1>5, <1>6, <1>7, <1>8 DEF Next

\* The queue implements the contract of its handles: it starts downloads in the
\* order of their acceptance, never more than Concurrency at a time, cuts a
\* cancelled one out of the line, and settles each handle once
\* (transfer-queue.ts:115-252).
THEOREM QueueImplementsContract == Spec => ImplementsContract
<1>1. Init => Contract!Init
  BY DEF Init, Contract!Init, Running
<1> QED
  BY <1>1, EveryStepIsContracted, Inductive, PTL DEF Spec, ImplementsContract, Contract!Spec

-----------------------------------------------------------------------------
(* RemoteDownload.                                                         *)

(* The inductive invariant                                                 *)

\* The worker's await, the job's status and the result go together.
WorkerStage ==
  \A j \in Downloads :
    /\ pc[j] = "idle" <=> jobStatus[j] = "queued"
    /\ pc[j] = "over" <=> Over(j)
    /\ pc[j] \in {"settle", "over"} <=> result[j] # "none"
    /\ jobStatus[j] = "completed" => result[j] = "ok"
    /\ jobStatus[j] = "failed" => result[j] # "ok"

\* Where the partial and the file of downloadFile are, at each await.  Once
\* something was published, only an unlink or a copy that broke leaves it without
\* a result.
FileStage ==
  \A j \in FileJobs :
    /\ pc[j] \in {"idle", "stat", "reserve", "transfer", "inspect", "link", "copy",
                  "copying", "chmodCopy", "tidy", "drop", "settle", "over"}
    /\ pc[j] \in {"idle", "stat", "reserve"} => partial[j] = "absent"
    /\ pc[j] \in {"idle", "stat", "reserve", "transfer", "inspect", "link", "copy"} =>
         place[j] = "nowhere"
    /\ pc[j] \in {"inspect", "link", "copy"} => partial[j] = "whole"
    /\ pc[j] \in {"copying", "chmodCopy", "tidy"} => place[j] = "destination"
    /\ place[j] = "destination" =>
         published[j] = "whole" \/ pc[j] = "copying" \/ broken[j]
    /\ pc[j] \in {"chmodCopy", "tidy"} => published[j] = "whole"
    /\ pc[j] = "drop" => place[j] = "nowhere" \/ broken[j]
    /\ result[j] = "ok" =>
         place[j] = "destination" /\ published[j] = "whole" /\ partial[j] = "absent"
    /\ result[j] = "error" =>
         (place[j] = "nowhere" /\ partial[j] = "absent") \/ broken[j]
    /\ result[j] # "named"

\* Where the directory of downloadDirectory is, at each await.  It is in the
\* quarantine when it is searched, and nobody can put a file into it from then on.
DirStage ==
  \A j \in DirJobs :
    /\ pc[j] \in {"idle", "stat", "manifest", "mkdir", "mark", "fill", "unmark",
                  "readMarker", "quarantine", "scan", "remove", "settle", "over"}
    /\ pc[j] \in {"idle", "stat", "manifest", "mkdir"} => place[j] = "nowhere"
    /\ pc[j] \in {"mark", "fill", "unmark", "readMarker", "quarantine"} =>
         place[j] = "destination"
    /\ pc[j] = "unmark" => published[j] = "whole"
    /\ pc[j] \in {"scan", "remove"} => place[j] = "quarantine"
    /\ pc[j] = "remove" => "unlisted" \notin foreign[j]
    /\ result[j] = "ok" => place[j] = "destination" /\ published[j] = "whole" /\ ~marker[j]
    /\ result[j] = "error" => place[j] = "nowhere" \/ broken[j]

\* The awaits before the transfer has answered.
BeforeTransfer == {"stat", "reserve", "transfer", "manifest", "mkdir", "mark", "fill"}

\* A worker that was cancelled before the transfer answered does not get past it.
EarlyAbortStops ==
  \A j \in Downloads : abortedAt[j] \in BeforeTransfer =>
    /\ pc[j] \in BeforeTransfer \cup
         {"drop", "readMarker", "quarantine", "scan", "remove", "settle", "over"}
    /\ result[j] # "ok"

DownloadIInv ==
  /\ DownloadTypeOK
  /\ WorkerStage
  /\ FileStage
  /\ DirStage
  /\ EarlyAbortStops
  /\ NeverOverwrites

-----------------------------------------------------------------------------
(* Lemmas about the operators of the model                                 *)

\* A transfer that ended well has copied everything and was not cancelled.
LEMMA TransferOutcome ==
  ASSUME NEW j \in Downloads, NEW before \in Contents, NEW t \in RunTransfer(j, before)
  PROVE  t.content \in Contents /\ (t.ok => t.content = "whole" /\ ~Aborted(j))
<1>1. CASE t = [content |-> "whole", ok |-> ~Aborted(j)]
  BY <1>1 DEF Contents
<1>2. CASE t \in [content : {before, "part"}, ok : {FALSE}]
  BY <1>2 DEF Contents
<1> QED
  BY <1>1, <1>2 DEF RunTransfer

-----------------------------------------------------------------------------
(* The invariant is kept, one lemma per action                             *)

LEMMA KeepsStart ==
  ASSUME DownloadIInv, NEW j \in Downloads, Start(j)
  PROVE  DownloadIInv'
<1> USE JobsAssumption, LastIndexAssumption DEF Downloads, DownloadIInv
<1>1. DownloadTypeOK'
  BY DEF DownloadTypeOK, Start, GoTo, fs, Awaits
<1>2. WorkerStage'
  BY DEF WorkerStage, DownloadTypeOK, Start, GoTo, Over
<1>3. FileStage'
  BY DEF FileStage, WorkerStage, Start, GoTo, fs
<1>4. DirStage'
  BY DEF DirStage, WorkerStage, Start, GoTo, fs
<1>5. EarlyAbortStops'
  BY DEF EarlyAbortStops, Start, GoTo, BeforeTransfer
<1>6. NeverOverwrites'
  BY DEF NeverOverwrites, Start, fs
<1> QED
  BY <1>1, <1>2, <1>3, <1>4, <1>5, <1>6

LEMMA KeepsCancel ==
  ASSUME DownloadIInv, NEW j \in Downloads, Cancel(j)
  PROVE  DownloadIInv'
<1> USE JobsAssumption, LastIndexAssumption DEF Downloads, DownloadIInv
<1>1. DownloadTypeOK'
  BY DEF DownloadTypeOK, Cancel, fs
<1>2. WorkerStage'
  BY DEF WorkerStage, Cancel, Over
<1>3. FileStage'
  BY DEF FileStage, Cancel, fs
<1>4. DirStage'
  BY DEF DirStage, Cancel, fs
<1>5. EarlyAbortStops'
  BY DEF EarlyAbortStops, WorkerStage, Cancel, BeforeTransfer
<1>6. NeverOverwrites'
  BY DEF NeverOverwrites, Cancel, fs
<1> QED
  BY <1>1, <1>2, <1>3, <1>4, <1>5, <1>6

LEMMA KeepsStatSource ==
  ASSUME DownloadIInv, NEW j \in Downloads, StatSource(j)
  PROVE  DownloadIInv'
<1> USE JobsAssumption, LastIndexAssumption DEF Downloads, DownloadIInv
<1>1. DownloadTypeOK'
  BY DEF DownloadTypeOK, StatSource, GoTo, Settle, fs, Awaits
<1>2. WorkerStage'
  BY DEF WorkerStage, DownloadTypeOK, StatSource, GoTo, Settle, Over
<1>3. FileStage'
  BY DEF FileStage, DownloadTypeOK, StatSource, GoTo, Settle, fs
<1>4. DirStage'
  BY DEF DirStage, DownloadTypeOK, StatSource, GoTo, Settle, fs
<1>5. EarlyAbortStops'
  BY DEF EarlyAbortStops, DownloadTypeOK, WorkerStage, FileStage, DirStage, StatSource,
         GoTo, Settle, fs, Unwind, Aborted, Over, Never, BeforeTransfer, Awaits,
         Contents
<1>6. NeverOverwrites'
  BY DEF NeverOverwrites, StatSource, fs
<1> QED
  BY <1>1, <1>2, <1>3, <1>4, <1>5, <1>6

LEMMA KeepsRunSettles ==
  ASSUME DownloadIInv, NEW j \in Downloads, JobSettles(j)
  PROVE  DownloadIInv'
<1> USE JobsAssumption, LastIndexAssumption DEF Downloads, DownloadIInv
<1>1. DownloadTypeOK'
  BY DEF DownloadTypeOK, JobSettles, GoTo, fs, Awaits
<1>2. WorkerStage'
  BY DEF WorkerStage, DownloadTypeOK, JobSettles, GoTo, Over
<1>3. FileStage'
  BY DEF FileStage, JobSettles, GoTo, fs
<1>4. DirStage'
  BY DEF DirStage, JobSettles, GoTo, fs
<1>5. EarlyAbortStops'
  BY DEF EarlyAbortStops, JobSettles, GoTo
<1>6. NeverOverwrites'
  BY DEF NeverOverwrites, JobSettles, fs
<1> QED
  BY <1>1, <1>2, <1>3, <1>4, <1>5, <1>6

LEMMA KeepsReserve ==
  ASSUME DownloadIInv, NEW j \in FileJobs, Reserve(j)
  PROVE  DownloadIInv'
<1> USE JobsAssumption, LastIndexAssumption DEF Downloads, DownloadIInv
<1>1. DownloadTypeOK'
  BY DEF DownloadTypeOK, Reserve, GoTo, Settle, fs, Unwind, Aborted, Over, Never,
         BeforeTransfer, Awaits, Contents
<1>2. WorkerStage'
  BY DEF WorkerStage, DownloadTypeOK, Reserve, GoTo, Settle, Over
<1>3. FileStage'
  BY DEF FileStage, DownloadTypeOK, WorkerStage, Reserve, GoTo, Settle
<1>4. DirStage'
  BY DEF DirStage, DownloadTypeOK, Reserve, GoTo, Settle
<1>5. EarlyAbortStops'
  BY DEF EarlyAbortStops, DownloadTypeOK, Reserve, GoTo, Settle, BeforeTransfer
<1>6. NeverOverwrites'
  BY DEF NeverOverwrites, Reserve
<1> QED
  BY <1>1, <1>2, <1>3, <1>4, <1>5, <1>6

LEMMA KeepsTransfer ==
  ASSUME DownloadIInv, NEW j \in FileJobs, Transfer(j)
  PROVE  DownloadIInv'
<1> USE JobsAssumption, LastIndexAssumption DEF Downloads, DownloadIInv
<1>a. PICK t \in RunTransfer(j, partial[j]) :
             /\ partial' = [partial EXCEPT ![j] = t.content]
             /\ IF t.ok THEN GoTo(j, "inspect") /\ UNCHANGED result ELSE Unwind(j)
  BY DEF Transfer
<1>b. t.content \in Contents /\ (t.ok => t.content = "whole" /\ ~Aborted(j))
  BY TransferOutcome DEF DownloadTypeOK
<1>1. DownloadTypeOK'
  <2>1. jobStatus' \in [Downloads -> {"queued", "running", "completed", "cancelled", "failed"}]
    BY DEF Transfer, RunTransfer, DownloadTypeOK
  <2>2. pc' \in [Downloads -> Awaits]
    BY DEF Transfer, GoTo, Unwind, DownloadTypeOK, Awaits
  <2>3. abortedAt' \in [Downloads -> Awaits \cup {Never}]
    BY DEF Transfer, RunTransfer, DownloadTypeOK
  <2>4. result' \in [Downloads -> {"none", "ok", "error", "named"}]
    BY DEF Transfer, Unwind, DownloadTypeOK
  <2>5. partial' \in [FileJobs -> Contents]
    BY <1>a, <1>b DEF DownloadTypeOK
  <2>6. at' \in [Downloads -> 0..LastIndex] /\ taken' \in SUBSET (0..LastIndex)
    BY DEF Transfer, RunTransfer, fs, DownloadTypeOK
  <2>7. place' \in [Downloads -> {"nowhere", "destination", "quarantine"}]
    BY DEF Transfer, RunTransfer, fs, DownloadTypeOK
  <2>8. published' \in [Downloads -> Contents]
    BY DEF Transfer, DownloadTypeOK
  <2>9. marker' \in [DirJobs -> BOOLEAN] /\ foreign' \in [DirJobs -> SUBSET Names]
    BY DEF Transfer, RunTransfer, fs, DownloadTypeOK
  <2>10. broken' \in [Downloads -> BOOLEAN]
    BY DEF Transfer, RunTransfer, fs, DownloadTypeOK
  <2> QED
    BY <2>1, <2>2, <2>3, <2>4, <2>5, <2>6, <2>7, <2>8, <2>9, <2>10 DEF DownloadTypeOK
<1>2. WorkerStage'
  BY DEF WorkerStage, DownloadTypeOK, Transfer, GoTo, Unwind, Over
<1>3. FileStage'
  BY <1>a, <1>b DEF FileStage, DownloadTypeOK, WorkerStage, Transfer, GoTo, Unwind
<1>4. DirStage'
  BY DEF DirStage, DownloadTypeOK, Transfer, GoTo, Unwind
<1>5. EarlyAbortStops'
  BY <1>a, <1>b
    DEF EarlyAbortStops, DownloadTypeOK, Transfer, GoTo, Unwind, Aborted, Never,
        BeforeTransfer
<1>6. NeverOverwrites'
  BY DEF NeverOverwrites, Transfer
<1> QED
  BY <1>1, <1>2, <1>3, <1>4, <1>5, <1>6

LEMMA KeepsInspect ==
  ASSUME DownloadIInv, NEW j \in FileJobs, Inspect(j)
  PROVE  DownloadIInv'
<1> USE JobsAssumption, LastIndexAssumption DEF Downloads, DownloadIInv
<1>1. DownloadTypeOK'
  BY DEF DownloadTypeOK, Inspect, GoTo, fs, Unwind, Awaits
<1>2. WorkerStage'
  BY DEF WorkerStage, DownloadTypeOK, Inspect, GoTo, Unwind, Over
<1>3. FileStage'
  BY DEF FileStage, DownloadTypeOK, Inspect, GoTo, fs, Unwind
<1>4. DirStage'
  BY DEF DirStage, DownloadTypeOK, Inspect, GoTo, fs, Unwind
<1>5. EarlyAbortStops'
  BY DEF EarlyAbortStops, DownloadTypeOK, Inspect, GoTo, Unwind, BeforeTransfer
<1>6. NeverOverwrites'
  BY DEF NeverOverwrites, Inspect, fs
<1> QED
  BY <1>1, <1>2, <1>3, <1>4, <1>5, <1>6

LEMMA KeepsLink ==
  ASSUME DownloadIInv, NEW j \in FileJobs, Link(j)
  PROVE  DownloadIInv'
<1> USE JobsAssumption, LastIndexAssumption DEF Downloads, DownloadIInv
<1>1. DownloadTypeOK'
  BY DEF DownloadTypeOK, Link, NextCandidate, Exhausted, GoTo, Settle, Unwind, Awaits
<1>2. WorkerStage'
  BY DEF WorkerStage, DownloadTypeOK, Link, NextCandidate, Exhausted, GoTo, Unwind, Over
<1>3. FileStage'
  BY DEF FileStage, DownloadTypeOK, Link, NextCandidate, Exhausted, GoTo, Unwind
<1>4. DirStage'
  BY DEF DirStage, DownloadTypeOK, Link, NextCandidate, Exhausted, GoTo, Unwind
<1>5. EarlyAbortStops'
  BY DEF EarlyAbortStops, DownloadTypeOK, Link, NextCandidate, Exhausted, GoTo, Unwind,
         BeforeTransfer
<1>6. NeverOverwrites'
  BY DEF NeverOverwrites, DownloadTypeOK, FileStage, Link, Exists, NextCandidate
<1> QED
  BY <1>1, <1>2, <1>3, <1>4, <1>5, <1>6

LEMMA KeepsCopyBegins ==
  ASSUME DownloadIInv, NEW j \in FileJobs, CopyBegins(j)
  PROVE  DownloadIInv'
<1> USE JobsAssumption, LastIndexAssumption DEF Downloads, DownloadIInv
<1>1. DownloadTypeOK'
  BY DEF DownloadTypeOK, CopyBegins, Exists, NextCandidate, Exhausted, GoTo, Settle, fs,
         Unwind, Aborted, Over, Never, BeforeTransfer, Awaits, Contents
<1>2. WorkerStage'
  BY DEF WorkerStage, DownloadTypeOK, CopyBegins, NextCandidate, Exhausted, GoTo, Unwind,
         Over
<1>3. FileStage'
  BY DEF FileStage, DownloadTypeOK, CopyBegins, NextCandidate, Exhausted, GoTo, Unwind
<1>4. DirStage'
  BY DEF DirStage, DownloadTypeOK, CopyBegins, NextCandidate, Exhausted, GoTo, Unwind
<1>5. EarlyAbortStops'
  BY DEF EarlyAbortStops, DownloadTypeOK, WorkerStage, FileStage, DirStage, CopyBegins,
         Exists, NextCandidate, Exhausted, GoTo, Settle, fs, Unwind, Aborted, Over,
         Never, BeforeTransfer, Awaits, Contents
<1>6. NeverOverwrites'
  BY DEF NeverOverwrites, DownloadTypeOK, FileStage, CopyBegins, Exists, NextCandidate
<1> QED
  BY <1>1, <1>2, <1>3, <1>4, <1>5, <1>6

LEMMA KeepsCopyEnds ==
  ASSUME DownloadIInv, NEW j \in FileJobs, CopyEnds(j)
  PROVE  DownloadIInv'
<1> USE JobsAssumption, LastIndexAssumption DEF Downloads, DownloadIInv
<1>1. DownloadTypeOK'
  <2>1. jobStatus' \in [Downloads -> {"queued", "running", "completed", "cancelled", "failed"}]
    BY DEF CopyEnds, DownloadTypeOK
  <2>2. pc' \in [Downloads -> Awaits]
    BY DEF CopyEnds, GoTo, Unwind, DownloadTypeOK, Awaits
  <2>3. abortedAt' \in [Downloads -> Awaits \cup {Never}]
    BY DEF CopyEnds, DownloadTypeOK
  <2>4. result' \in [Downloads -> {"none", "ok", "error", "named"}]
    BY DEF CopyEnds, Unwind, DownloadTypeOK
  <2>5. partial' \in [FileJobs -> Contents]
    BY DEF CopyEnds, fs, DownloadTypeOK, Contents
  <2>6. at' \in [Downloads -> 0..LastIndex] /\ taken' \in SUBSET (0..LastIndex)
    BY DEF CopyEnds, fs, DownloadTypeOK
  <2>7. place' \in [Downloads -> {"nowhere", "destination", "quarantine"}]
    BY DEF CopyEnds, fs, DownloadTypeOK
  <2>8. published' \in [Downloads -> Contents]
    BY DEF CopyEnds, fs, DownloadTypeOK, Contents
  <2>9. marker' \in [DirJobs -> BOOLEAN] /\ foreign' \in [DirJobs -> SUBSET Names]
    BY DEF CopyEnds, fs, DownloadTypeOK
  <2>10. broken' \in [Downloads -> BOOLEAN]
    BY DEF CopyEnds, fs, DownloadTypeOK
  <2> QED
    BY <2>1, <2>2, <2>3, <2>4, <2>5, <2>6, <2>7, <2>8, <2>9, <2>10 DEF DownloadTypeOK
<1>2. WorkerStage'
  BY DEF WorkerStage, DownloadTypeOK, CopyEnds, GoTo, Unwind, Over
<1>3. FileStage'
  BY DEF FileStage, DownloadTypeOK, WorkerStage, CopyEnds, GoTo, Unwind
<1>4. DirStage'
  BY DEF DirStage, DownloadTypeOK, CopyEnds, GoTo, Unwind
<1>5. EarlyAbortStops'
  BY DEF EarlyAbortStops, DownloadTypeOK, CopyEnds, GoTo, Unwind, BeforeTransfer
<1>6. NeverOverwrites'
  BY DEF NeverOverwrites, DownloadTypeOK, CopyEnds
<1> QED
  BY <1>1, <1>2, <1>3, <1>4, <1>5, <1>6

LEMMA KeepsChmodCopy ==
  ASSUME DownloadIInv, NEW j \in FileJobs, ChmodCopy(j)
  PROVE  DownloadIInv'
<1> USE JobsAssumption, LastIndexAssumption DEF Downloads, DownloadIInv
<1>1. DownloadTypeOK'
  <2>1. pc' \in [Downloads -> Awaits] /\ result' = result
    BY DEF DownloadTypeOK, ChmodCopy, Unwind, GoTo, Awaits
  <2>2. broken' \in [Downloads -> BOOLEAN]
    BY DEF DownloadTypeOK, ChmodCopy
  <2> QED
    BY <2>1, <2>2 DEF DownloadTypeOK, ChmodCopy, fs
<1>2. WorkerStage'
  BY DEF WorkerStage, DownloadTypeOK, ChmodCopy, GoTo, Unwind, Over
<1>3. FileStage'
  BY DEF FileStage, DownloadTypeOK, ChmodCopy, GoTo, fs, Unwind
<1>4. DirStage'
  BY DEF DirStage, DownloadTypeOK, ChmodCopy, GoTo, fs, Unwind
<1>5. EarlyAbortStops'
  BY DEF EarlyAbortStops, DownloadTypeOK, ChmodCopy, GoTo, Unwind, BeforeTransfer
<1>6. NeverOverwrites'
  BY DEF NeverOverwrites, ChmodCopy, fs
<1> QED
  BY <1>1, <1>2, <1>3, <1>4, <1>5, <1>6

LEMMA KeepsTidy ==
  ASSUME DownloadIInv, NEW j \in FileJobs, Tidy(j)
  PROVE  DownloadIInv'
<1> USE JobsAssumption, LastIndexAssumption DEF Downloads, DownloadIInv
<1>1. DownloadTypeOK'
  <2>1. jobStatus' \in [Downloads -> {"queued", "running", "completed", "cancelled", "failed"}]
    BY DEF Tidy, DownloadTypeOK
  <2>2. pc' \in [Downloads -> Awaits]
    BY DEF Tidy, GoTo, Settle, DownloadTypeOK, Awaits
  <2>3. abortedAt' \in [Downloads -> Awaits \cup {Never}]
    BY DEF Tidy, DownloadTypeOK
  <2>4. result' \in [Downloads -> {"none", "ok", "error", "named"}]
    BY DEF Tidy, Settle, DownloadTypeOK
  <2>5. partial' \in [FileJobs -> Contents]
    BY DEF Tidy, fs, DownloadTypeOK, Contents
  <2>6. at' \in [Downloads -> 0..LastIndex] /\ taken' \in SUBSET (0..LastIndex)
    BY DEF Tidy, fs, DownloadTypeOK
  <2>7. place' \in [Downloads -> {"nowhere", "destination", "quarantine"}]
    BY DEF Tidy, fs, DownloadTypeOK
  <2>8. published' \in [Downloads -> Contents]
    BY DEF Tidy, fs, DownloadTypeOK, Contents
  <2>9. marker' \in [DirJobs -> BOOLEAN] /\ foreign' \in [DirJobs -> SUBSET Names]
    BY DEF Tidy, fs, DownloadTypeOK
  <2>10. broken' \in [Downloads -> BOOLEAN]
    BY DEF Tidy, fs, DownloadTypeOK
  <2> QED
    BY <2>1, <2>2, <2>3, <2>4, <2>5, <2>6, <2>7, <2>8, <2>9, <2>10 DEF DownloadTypeOK
<1>2. WorkerStage'
  BY DEF WorkerStage, DownloadTypeOK, Tidy, GoTo, Settle, Over
<1>3. FileStage'
  BY DEF FileStage, DownloadTypeOK, Tidy, GoTo, Settle
<1>4. DirStage'
  BY DEF DirStage, DownloadTypeOK, Tidy, GoTo, Settle
<1>5. EarlyAbortStops'
  BY DEF EarlyAbortStops, DownloadTypeOK, WorkerStage, FileStage, DirStage, Tidy, GoTo,
         Settle, fs, Unwind, Aborted, Over, Never, BeforeTransfer, Awaits, Contents
<1>6. NeverOverwrites'
  BY DEF NeverOverwrites, Tidy
<1> QED
  BY <1>1, <1>2, <1>3, <1>4, <1>5, <1>6

LEMMA KeepsDrop ==
  ASSUME DownloadIInv, NEW j \in FileJobs, Drop(j)
  PROVE  DownloadIInv'
<1> USE JobsAssumption, LastIndexAssumption DEF Downloads, DownloadIInv
<1>1. DownloadTypeOK'
  <2>1. pc' \in [Downloads -> Awaits] /\ result' \in [Downloads -> {"none", "ok", "error", "named"}]
    BY DEF DownloadTypeOK, Drop, Settle, GoTo, Awaits
  <2>2. partial' \in [FileJobs -> Contents] /\ broken' \in [Downloads -> BOOLEAN]
    BY DEF DownloadTypeOK, Drop, Contents
  <2> QED
    BY <2>1, <2>2 DEF DownloadTypeOK, Drop
<1>2. WorkerStage'
  BY DEF WorkerStage, DownloadTypeOK, Drop, GoTo, Settle, Over
<1>3. FileStage'
  BY DEF FileStage, DownloadTypeOK, Drop, GoTo, Settle
<1>4. DirStage'
  BY DEF DirStage, DownloadTypeOK, Drop, GoTo, Settle
<1>5. EarlyAbortStops'
  BY DEF EarlyAbortStops, Drop, GoTo, Settle
<1>6. NeverOverwrites'
  BY DEF NeverOverwrites, Drop
<1> QED
  BY <1>1, <1>2, <1>3, <1>4, <1>5, <1>6

LEMMA KeepsManifest ==
  ASSUME DownloadIInv, NEW j \in DirJobs, Manifest(j)
  PROVE  DownloadIInv'
<1> USE JobsAssumption, LastIndexAssumption DEF Downloads, DownloadIInv
<1>1. DownloadTypeOK'
  BY DEF DownloadTypeOK, Manifest, GoTo, Settle, fs, Awaits
<1>2. WorkerStage'
  BY DEF WorkerStage, DownloadTypeOK, Manifest, GoTo, Settle, Over
<1>3. FileStage'
  BY DEF FileStage, DownloadTypeOK, Manifest, GoTo, Settle, fs
<1>4. DirStage'
  BY DEF DirStage, DownloadTypeOK, Manifest, GoTo, Settle, fs
<1>5. EarlyAbortStops'
  BY DEF EarlyAbortStops, DownloadTypeOK, Manifest, GoTo, Settle, BeforeTransfer
<1>6. NeverOverwrites'
  BY DEF NeverOverwrites, Manifest, fs
<1> QED
  BY <1>1, <1>2, <1>3, <1>4, <1>5, <1>6

LEMMA KeepsMakeDirectory ==
  ASSUME DownloadIInv, NEW j \in DirJobs, MakeDirectory(j)
  PROVE  DownloadIInv'
<1> USE JobsAssumption, LastIndexAssumption DEF Downloads, DownloadIInv
<1>1. DownloadTypeOK'
  BY DEF DownloadTypeOK, MakeDirectory, NextCandidate, Exhausted, GoTo, Settle, Awaits
<1>2. WorkerStage'
  BY DEF WorkerStage, DownloadTypeOK, MakeDirectory, NextCandidate, Exhausted, GoTo, Settle,
         Over
<1>3. FileStage'
  BY DEF FileStage, DownloadTypeOK, MakeDirectory, NextCandidate, Exhausted, GoTo, Settle
<1>4. DirStage'
  BY DEF DirStage, DownloadTypeOK, WorkerStage, MakeDirectory, NextCandidate, Exhausted,
         GoTo, Settle
<1>5. EarlyAbortStops'
  BY DEF EarlyAbortStops, DownloadTypeOK, MakeDirectory, NextCandidate, Exhausted, GoTo,
         Settle, BeforeTransfer
<1>6. NeverOverwrites'
  BY DEF NeverOverwrites, DownloadTypeOK, DirStage, MakeDirectory, Exists, NextCandidate
<1> QED
  BY <1>1, <1>2, <1>3, <1>4, <1>5, <1>6

LEMMA KeepsMark ==
  ASSUME DownloadIInv, NEW j \in DirJobs, Mark(j)
  PROVE  DownloadIInv'
<1> USE JobsAssumption, LastIndexAssumption DEF Downloads, DownloadIInv
<1>1. DownloadTypeOK'
  <2>1. jobStatus' \in [Downloads -> {"queued", "running", "completed", "cancelled", "failed"}]
    BY DEF Mark, DownloadTypeOK
  <2>2. pc' \in [Downloads -> Awaits]
    BY DEF Mark, GoTo, Settle, DownloadTypeOK, Awaits
  <2>3. abortedAt' \in [Downloads -> Awaits \cup {Never}]
    BY DEF Mark, DownloadTypeOK
  <2>4. result' \in [Downloads -> {"none", "ok", "error", "named"}]
    BY DEF Mark, Settle, DownloadTypeOK
  <2>5. partial' \in [FileJobs -> Contents]
    BY DEF Mark, fs, DownloadTypeOK, Contents
  <2>6. at' \in [Downloads -> 0..LastIndex] /\ taken' \in SUBSET (0..LastIndex)
    BY DEF Mark, fs, DownloadTypeOK
  <2>7. place' \in [Downloads -> {"nowhere", "destination", "quarantine"}]
    BY DEF Mark, fs, DownloadTypeOK
  <2>8. published' \in [Downloads -> Contents]
    BY DEF Mark, fs, DownloadTypeOK, Contents
  <2>9. marker' \in [DirJobs -> BOOLEAN] /\ foreign' \in [DirJobs -> SUBSET Names]
    BY DEF Mark, fs, DownloadTypeOK
  <2>10. broken' \in [Downloads -> BOOLEAN]
    BY DEF Mark, fs, DownloadTypeOK
  <2> QED
    BY <2>1, <2>2, <2>3, <2>4, <2>5, <2>6, <2>7, <2>8, <2>9, <2>10 DEF DownloadTypeOK
<1>2. WorkerStage'
  BY DEF WorkerStage, DownloadTypeOK, Mark, GoTo, Settle, Over
<1>3. FileStage'
  BY DEF FileStage, DownloadTypeOK, Mark, GoTo, Settle
<1>4. DirStage'
  BY DEF DirStage, DownloadTypeOK, WorkerStage, Mark, GoTo, Settle
<1>5. EarlyAbortStops'
  BY DEF EarlyAbortStops, DownloadTypeOK, Mark, GoTo, Settle, BeforeTransfer
<1>6. NeverOverwrites'
  BY DEF NeverOverwrites, Mark
<1> QED
  BY <1>1, <1>2, <1>3, <1>4, <1>5, <1>6

LEMMA KeepsFill ==
  ASSUME DownloadIInv, NEW j \in DirJobs, Fill(j)
  PROVE  DownloadIInv'
<1> USE JobsAssumption, LastIndexAssumption DEF Downloads, DownloadIInv
<1>a. PICK t \in RunTransfer(j, published[j]) :
             /\ published' = [published EXCEPT ![j] = t.content]
             /\ IF t.ok THEN GoTo(j, "unmark") /\ UNCHANGED result ELSE Unwind(j)
  BY DEF Fill
<1>b. t.content \in Contents /\ (t.ok => t.content = "whole" /\ ~Aborted(j))
  BY TransferOutcome DEF DownloadTypeOK
<1>1. DownloadTypeOK'
  <2>1. jobStatus' \in [Downloads -> {"queued", "running", "completed", "cancelled", "failed"}]
    BY DEF Fill, RunTransfer, DownloadTypeOK
  <2>2. pc' \in [Downloads -> Awaits]
    BY DEF Fill, GoTo, Unwind, DownloadTypeOK, Awaits
  <2>3. abortedAt' \in [Downloads -> Awaits \cup {Never}]
    BY DEF Fill, RunTransfer, DownloadTypeOK
  <2>4. result' \in [Downloads -> {"none", "ok", "error", "named"}]
    BY DEF Fill, Unwind, DownloadTypeOK
  <2>5. partial' \in [FileJobs -> Contents]
    BY DEF Fill, DownloadTypeOK
  <2>6. at' \in [Downloads -> 0..LastIndex] /\ taken' \in SUBSET (0..LastIndex)
    BY DEF Fill, RunTransfer, fs, DownloadTypeOK
  <2>7. place' \in [Downloads -> {"nowhere", "destination", "quarantine"}]
    BY DEF Fill, RunTransfer, fs, DownloadTypeOK
  <2>8. published' \in [Downloads -> Contents]
    BY <1>a, <1>b DEF DownloadTypeOK
  <2>9. marker' \in [DirJobs -> BOOLEAN] /\ foreign' \in [DirJobs -> SUBSET Names]
    BY DEF Fill, RunTransfer, fs, DownloadTypeOK
  <2>10. broken' \in [Downloads -> BOOLEAN]
    BY DEF Fill, RunTransfer, fs, DownloadTypeOK
  <2> QED
    BY <2>1, <2>2, <2>3, <2>4, <2>5, <2>6, <2>7, <2>8, <2>9, <2>10 DEF DownloadTypeOK
<1>2. WorkerStage'
  BY DEF WorkerStage, DownloadTypeOK, Fill, GoTo, Unwind, Over
<1>3. FileStage'
  BY DEF FileStage, DownloadTypeOK, Fill, GoTo, Unwind
<1>4. DirStage'
  BY <1>a, <1>b DEF DirStage, DownloadTypeOK, WorkerStage, Fill, GoTo, Unwind
<1>5. EarlyAbortStops'
  BY <1>a, <1>b
    DEF EarlyAbortStops, DownloadTypeOK, Fill, GoTo, Unwind, Aborted, Never, BeforeTransfer
<1>6. NeverOverwrites'
  BY DEF NeverOverwrites, Fill
<1> QED
  BY <1>1, <1>2, <1>3, <1>4, <1>5, <1>6

LEMMA KeepsUnmark ==
  ASSUME DownloadIInv, NEW j \in DirJobs, Unmark(j)
  PROVE  DownloadIInv'
<1> USE JobsAssumption, LastIndexAssumption DEF Downloads, DownloadIInv
<1>1. DownloadTypeOK'
  <2>1. jobStatus' \in [Downloads -> {"queued", "running", "completed", "cancelled", "failed"}]
    BY DEF Unmark, DownloadTypeOK
  <2>2. pc' \in [Downloads -> Awaits]
    BY DEF Unmark, GoTo, Settle, Unwind, DownloadTypeOK, Awaits
  <2>3. abortedAt' \in [Downloads -> Awaits \cup {Never}]
    BY DEF Unmark, DownloadTypeOK
  <2>4. result' \in [Downloads -> {"none", "ok", "error", "named"}]
    BY DEF Unmark, Settle, Unwind, DownloadTypeOK
  <2>5. partial' \in [FileJobs -> Contents]
    BY DEF Unmark, fs, DownloadTypeOK, Contents
  <2>6. at' \in [Downloads -> 0..LastIndex] /\ taken' \in SUBSET (0..LastIndex)
    BY DEF Unmark, fs, DownloadTypeOK
  <2>7. place' \in [Downloads -> {"nowhere", "destination", "quarantine"}]
    BY DEF Unmark, fs, DownloadTypeOK
  <2>8. published' \in [Downloads -> Contents]
    BY DEF Unmark, fs, DownloadTypeOK, Contents
  <2>9. marker' \in [DirJobs -> BOOLEAN] /\ foreign' \in [DirJobs -> SUBSET Names]
    BY DEF Unmark, fs, DownloadTypeOK
  <2>10. broken' \in [Downloads -> BOOLEAN]
    BY DEF Unmark, fs, DownloadTypeOK
  <2> QED
    BY <2>1, <2>2, <2>3, <2>4, <2>5, <2>6, <2>7, <2>8, <2>9, <2>10 DEF DownloadTypeOK
<1>2. WorkerStage'
  BY DEF WorkerStage, DownloadTypeOK, Unmark, GoTo, Settle, Unwind, Over
<1>3. FileStage'
  BY DEF FileStage, DownloadTypeOK, Unmark, GoTo, Settle, Unwind
<1>4. DirStage'
  BY DEF DirStage, DownloadTypeOK, Unmark, GoTo, Settle, Unwind
<1>5. EarlyAbortStops'
  BY DEF EarlyAbortStops, DownloadTypeOK, Unmark, GoTo, Settle, Unwind, BeforeTransfer
<1>6. NeverOverwrites'
  BY DEF NeverOverwrites, Unmark
<1> QED
  BY <1>1, <1>2, <1>3, <1>4, <1>5, <1>6

LEMMA KeepsReadMarker ==
  ASSUME DownloadIInv, NEW j \in DirJobs, ReadMarker(j)
  PROVE  DownloadIInv'
<1> USE JobsAssumption, LastIndexAssumption DEF Downloads, DownloadIInv
<1>1. DownloadTypeOK'
  BY DEF DownloadTypeOK, ReadMarker, GoTo, Settle, fs, Awaits
<1>2. WorkerStage'
  BY DEF WorkerStage, DownloadTypeOK, ReadMarker, GoTo, Settle, Over
<1>3. FileStage'
  BY DEF FileStage, DownloadTypeOK, ReadMarker, GoTo, Settle, fs
<1>4. DirStage'
  BY DEF DirStage, DownloadTypeOK, ReadMarker, GoTo, Settle, fs
<1>5. EarlyAbortStops'
  BY DEF EarlyAbortStops, DownloadTypeOK, ReadMarker, GoTo, Settle
<1>6. NeverOverwrites'
  BY DEF NeverOverwrites, ReadMarker, fs
<1> QED
  BY <1>1, <1>2, <1>3, <1>4, <1>5, <1>6

LEMMA KeepsQuarantine ==
  ASSUME DownloadIInv, NEW j \in DirJobs, Quarantine(j)
  PROVE  DownloadIInv'
<1> USE JobsAssumption, LastIndexAssumption DEF Downloads, DownloadIInv
<1>1. DownloadTypeOK'
  BY DEF DownloadTypeOK, Quarantine, GoTo, Settle, fs, Unwind, Aborted, Over, Never,
         BeforeTransfer, Awaits, Contents
<1>2. WorkerStage'
  BY DEF WorkerStage, DownloadTypeOK, Quarantine, GoTo, Settle, Over
<1>3. FileStage'
  BY DEF FileStage, DownloadTypeOK, Quarantine, GoTo, Settle
<1>4. DirStage'
  BY DEF DirStage, DownloadTypeOK, WorkerStage, Quarantine, GoTo, Settle
<1>5. EarlyAbortStops'
  BY DEF EarlyAbortStops, DownloadTypeOK, Quarantine, GoTo, Settle, BeforeTransfer
<1>6. NeverOverwrites'
  BY DEF NeverOverwrites, DownloadTypeOK, Quarantine
<1> QED
  BY <1>1, <1>2, <1>3, <1>4, <1>5, <1>6

LEMMA KeepsScan ==
  ASSUME DownloadIInv, NEW j \in DirJobs, Scan(j)
  PROVE  DownloadIInv'
<1> USE JobsAssumption, LastIndexAssumption DEF Downloads, DownloadIInv
<1>1. DownloadTypeOK'
  <2>1. jobStatus' \in [Downloads -> {"queued", "running", "completed", "cancelled", "failed"}]
    BY DEF Scan, DownloadTypeOK
  <2>2. pc' \in [Downloads -> Awaits]
    BY DEF Scan, GoTo, Settle, DownloadTypeOK, Awaits
  <2>3. abortedAt' \in [Downloads -> Awaits \cup {Never}]
    BY DEF Scan, DownloadTypeOK
  <2>4. result' \in [Downloads -> {"none", "ok", "error", "named"}]
    BY DEF Scan, Settle, DownloadTypeOK
  <2>5. partial' \in [FileJobs -> Contents]
    BY DEF Scan, fs, DownloadTypeOK, Contents
  <2>6. at' \in [Downloads -> 0..LastIndex] /\ taken' \in SUBSET (0..LastIndex)
    BY DEF Scan, fs, DownloadTypeOK
  <2>7. place' \in [Downloads -> {"nowhere", "destination", "quarantine"}]
    BY DEF Scan, fs, DownloadTypeOK
  <2>8. published' \in [Downloads -> Contents]
    BY DEF Scan, fs, DownloadTypeOK, Contents
  <2>9. marker' \in [DirJobs -> BOOLEAN] /\ foreign' \in [DirJobs -> SUBSET Names]
    BY DEF Scan, fs, DownloadTypeOK
  <2>10. broken' \in [Downloads -> BOOLEAN]
    BY DEF Scan, fs, DownloadTypeOK
  <2> QED
    BY <2>1, <2>2, <2>3, <2>4, <2>5, <2>6, <2>7, <2>8, <2>9, <2>10 DEF DownloadTypeOK
<1>2. WorkerStage'
  BY DEF WorkerStage, DownloadTypeOK, Scan, GoTo, Settle, Over
<1>3. FileStage'
  BY DEF FileStage, DownloadTypeOK, Scan, GoTo, Settle, fs
<1>4. DirStage'
  BY DEF DirStage, DownloadTypeOK, Scan, GoTo, Settle, fs
<1>5. EarlyAbortStops'
  BY DEF EarlyAbortStops, DownloadTypeOK, Scan, GoTo, Settle
<1>6. NeverOverwrites'
  BY DEF NeverOverwrites, Scan, fs
<1> QED
  BY <1>1, <1>2, <1>3, <1>4, <1>5, <1>6

LEMMA KeepsRemove ==
  ASSUME DownloadIInv, NEW j \in DirJobs, Remove(j)
  PROVE  DownloadIInv'
<1> USE JobsAssumption, LastIndexAssumption DEF Downloads, DownloadIInv
<1>1. DownloadTypeOK'
  <2>1. jobStatus' \in [Downloads -> {"queued", "running", "completed", "cancelled", "failed"}]
    BY DEF Remove, DownloadTypeOK
  <2>2. pc' \in [Downloads -> Awaits]
    BY DEF Remove, GoTo, Settle, DownloadTypeOK, Awaits
  <2>3. abortedAt' \in [Downloads -> Awaits \cup {Never}]
    BY DEF Remove, DownloadTypeOK
  <2>4. result' \in [Downloads -> {"none", "ok", "error", "named"}]
    BY DEF Remove, Settle, DownloadTypeOK
  <2>5. partial' \in [FileJobs -> Contents]
    BY DEF Remove, fs, DownloadTypeOK, Contents
  <2>6. at' \in [Downloads -> 0..LastIndex] /\ taken' \in SUBSET (0..LastIndex)
    BY DEF Remove, fs, DownloadTypeOK
  <2>7. place' \in [Downloads -> {"nowhere", "destination", "quarantine"}]
    BY DEF Remove, fs, DownloadTypeOK
  <2>8. published' \in [Downloads -> Contents]
    BY DEF Remove, fs, DownloadTypeOK, Contents
  <2>9. marker' \in [DirJobs -> BOOLEAN] /\ foreign' \in [DirJobs -> SUBSET Names]
    BY DEF Remove, fs, DownloadTypeOK
  <2>10. broken' \in [Downloads -> BOOLEAN]
    BY DEF Remove, fs, DownloadTypeOK
  <2> QED
    BY <2>1, <2>2, <2>3, <2>4, <2>5, <2>6, <2>7, <2>8, <2>9, <2>10 DEF DownloadTypeOK
<1>2. WorkerStage'
  BY DEF WorkerStage, DownloadTypeOK, Remove, GoTo, Settle, Over
<1>3. FileStage'
  BY DEF FileStage, DownloadTypeOK, Remove, GoTo, Settle
<1>4. DirStage'
  BY DEF DirStage, DownloadTypeOK, Remove, GoTo, Settle
<1>5. EarlyAbortStops'
  BY DEF EarlyAbortStops, Remove, GoTo, Settle
<1>6. NeverOverwrites'
  BY DEF NeverOverwrites, DownloadTypeOK, Remove
<1> QED
  BY <1>1, <1>2, <1>3, <1>4, <1>5, <1>6

LEMMA KeepsOtherWritesInto ==
  ASSUME DownloadIInv, NEW j \in DirJobs, OtherWritesInto(j)
  PROVE  DownloadIInv'
<1> USE JobsAssumption, LastIndexAssumption DEF Downloads, DownloadIInv
<1>1. DownloadTypeOK'
  BY DEF DownloadTypeOK, OtherWritesInto
<1>2. WorkerStage'
  BY DEF WorkerStage, OtherWritesInto, Over
<1>3. FileStage'
  BY DEF FileStage, OtherWritesInto
<1>4. DirStage'
  BY DEF DirStage, OtherWritesInto
<1>5. EarlyAbortStops'
  BY DEF EarlyAbortStops, OtherWritesInto
<1>6. NeverOverwrites'
  BY DEF NeverOverwrites, OtherWritesInto
<1> QED
  BY <1>1, <1>2, <1>3, <1>4, <1>5, <1>6

LEMMA KeepsOtherCreates ==
  ASSUME DownloadIInv, NEW i \in 0..LastIndex, OtherCreates(i)
  PROVE  DownloadIInv'
<1> USE JobsAssumption, LastIndexAssumption DEF Downloads, DownloadIInv
<1>1. DownloadTypeOK'
  BY DEF DownloadTypeOK, OtherCreates, fs
<1>2. WorkerStage'
  BY DEF WorkerStage, OtherCreates, Over
<1>3. FileStage'
  BY DEF FileStage, OtherCreates, fs
<1>4. DirStage'
  BY DEF DirStage, OtherCreates, fs
<1>5. EarlyAbortStops'
  BY DEF EarlyAbortStops, OtherCreates
<1>6. NeverOverwrites'
  BY DEF NeverOverwrites, OtherCreates, Exists, fs
<1> QED
  BY <1>1, <1>2, <1>3, <1>4, <1>5, <1>6

LEMMA KeepsVars ==
  ASSUME DownloadIInv, UNCHANGED downloadVars
  PROVE  DownloadIInv'
<1> USE JobsAssumption, LastIndexAssumption DEF Downloads, DownloadIInv
<1>1. DownloadTypeOK'
  BY DEF DownloadTypeOK, downloadVars
<1>2. WorkerStage'
  BY DEF WorkerStage, downloadVars, Over
<1>3. FileStage'
  BY DEF FileStage, downloadVars
<1>4. DirStage'
  BY DEF DirStage, downloadVars
<1>5. EarlyAbortStops'
  BY DEF EarlyAbortStops, downloadVars
<1>6. NeverOverwrites'
  BY DEF NeverOverwrites, downloadVars
<1> QED
  BY <1>1, <1>2, <1>3, <1>4, <1>5, <1>6

LEMMA InitHolds == DownloadInit => DownloadIInv
<1> SUFFICES ASSUME DownloadInit PROVE DownloadIInv
  OBVIOUS
<1> USE JobsAssumption, LastIndexAssumption DEF DownloadInit, Downloads
<1>1. DownloadTypeOK
  BY DEF DownloadTypeOK, Awaits, Contents, Never
<1>2. WorkerStage /\ FileStage /\ DirStage
  BY DEF WorkerStage, FileStage, DirStage, Over
<1>3. EarlyAbortStops /\ NeverOverwrites
  BY DEF EarlyAbortStops, NeverOverwrites, BeforeTransfer, Never
<1> QED
  BY <1>1, <1>2, <1>3 DEF DownloadIInv

-----------------------------------------------------------------------------
(* The theorems                                                            *)

\* The invariant holds in every state, wherever a download is cancelled and
\* whichever call fails (remote-download-service.ts:60-330).
THEOREM DownloadInductive == DownloadSpec => []DownloadIInv
<1>1. DownloadIInv /\ [DownloadNext]_downloadVars => DownloadIInv'
  <2> SUFFICES ASSUME DownloadIInv, [DownloadNext]_downloadVars PROVE DownloadIInv'
    OBVIOUS
  <2>1. ASSUME NEW j \in Downloads, Start(j) \/ Cancel(j) \/ StatSource(j) \/ JobSettles(j)
        PROVE  DownloadIInv'
    BY <2>1, KeepsStart, KeepsCancel, KeepsStatSource, KeepsRunSettles
  <2>2. ASSUME NEW j \in FileJobs, FileStep(j)
        PROVE  DownloadIInv'
    BY <2>2, KeepsReserve, KeepsTransfer, KeepsInspect, KeepsLink, KeepsCopyBegins,
       KeepsCopyEnds, KeepsChmodCopy, KeepsTidy, KeepsDrop
      DEF FileStep
  <2>3. ASSUME NEW j \in DirJobs, DirStep(j)
        PROVE  DownloadIInv'
    BY <2>3, KeepsManifest, KeepsMakeDirectory, KeepsMark, KeepsFill, KeepsUnmark,
       KeepsReadMarker, KeepsQuarantine, KeepsScan, KeepsRemove,
       KeepsOtherWritesInto
      DEF DirStep
  <2>4. ASSUME NEW i \in 0..LastIndex, OtherCreates(i)
        PROVE  DownloadIInv'
    BY <2>4, KeepsOtherCreates
  <2>5. CASE UNCHANGED downloadVars
    BY <2>5, KeepsVars
  <2> QED
    BY <2>1, <2>2, <2>3, <2>4, <2>5 DEF DownloadNext
<1> QED
  BY <1>1, InitHolds, PTL DEF DownloadSpec

\* No download takes a name that exists: EEXIST of link, copyFile and mkdir is the
\* only arbiter, however many downloads try the same candidates
\* (remote-download-service.ts:150-236).
THEOREM NothingIsOverwritten == DownloadSpec => []NeverOverwrites
<1> QED
  BY DownloadInductive, PTL DEF DownloadIInv

\* A name of a file shows its whole content, but for the copy where hard links are
\* not supported, and a completed job left just that.
THEOREM WholeOrNothing == DownloadSpec => []PublishedWhole
<1>1. DownloadIInv => PublishedWhole
  BY DEF DownloadIInv, PublishedWhole, FileStage, DirStage, WorkerStage, Downloads
<1> QED
  BY <1>1, DownloadInductive, PTL

\* A download that was cancelled in time or failed leaves nothing, or the name of
\* what it left.
THEOREM FailureIsClean == DownloadSpec => []DownloadConsistent
<1>1. DownloadIInv => DownloadConsistent
  <2> SUFFICES ASSUME DownloadIInv PROVE DownloadConsistent
    OBVIOUS
  <2>1. ASSUME NEW j \in Downloads, Over(j), result[j] # "ok"
        PROVE  \/ place[j] = "nowhere" /\ (j \in FileJobs => partial[j] = "absent")
               \/ j \in DirJobs /\ result[j] = "named"
               \/ broken[j]
    <3>1. result[j] \in {"error", "named"}
      BY <2>1 DEF DownloadIInv, DownloadTypeOK, WorkerStage
    <3> QED
      BY <3>1 DEF DownloadIInv, FileStage, DirStage, Downloads
  <2>2. CancelledTransferLeavesNothing
    BY <2>1
      DEF DownloadIInv, EarlyAbortStops, BeforeTransfer, CancelledTransferLeavesNothing
  <2>3. FailureLeavesNothingUnnamed
    BY <2>1 DEF DownloadIInv, WorkerStage, FailureLeavesNothingUnnamed, Over
  <2> QED
    BY <2>2, <2>3 DEF DownloadIInv, DownloadConsistent
<1> QED
  BY <1>1, DownloadInductive, PTL

\* The recursive removal takes no file whose name the manifest does not have: when
\* it runs, the tree is out of reach and was searched there (cleanupOwnedDirectory).
THEOREM RemovalSparesUnlistedFiles == DownloadSpec => UnlistedFilesKept
<1>1. DownloadIInv /\ [DownloadNext]_downloadVars =>
        [\A j \in DirJobs : "unlisted" \in foreign[j] => "unlisted" \in foreign'[j]]_downloadVars
  <2> SUFFICES ASSUME DownloadIInv, DownloadNext, NEW k \in DirJobs,
                      "unlisted" \in foreign[k]
               PROVE  "unlisted" \in foreign'[k]
    OBVIOUS
  <2>1. ASSUME NEW j \in DirJobs, Remove(j)
        PROVE  "unlisted" \in foreign'[k]
    BY <2>1 DEF Remove, DownloadIInv, DownloadTypeOK, DirStage
  <2>2. ASSUME NEW j \in DirJobs, OtherWritesInto(j)
        PROVE  "unlisted" \in foreign'[k]
    BY <2>2 DEF OtherWritesInto, DownloadIInv, DownloadTypeOK
  <2>3. CASE UNCHANGED foreign
    BY <2>3
  <2>4. ASSUME NEW j \in Downloads, Start(j) \/ Cancel(j) \/ StatSource(j) \/ JobSettles(j)
        PROVE  UNCHANGED foreign
    BY <2>4 DEF Start, Cancel, StatSource, JobSettles, fs
  <2>5. ASSUME NEW j \in FileJobs, FileStep(j)
        PROVE  UNCHANGED foreign
    BY <2>5
      DEF FileStep, Reserve, Transfer, Inspect, Link, CopyBegins, CopyEnds,
          ChmodCopy, Tidy, Drop, fs
  <2>6. ASSUME NEW j \in DirJobs, DirStep(j)
        PROVE  "unlisted" \in foreign'[k]
    BY <2>6, <2>1, <2>2
      DEF DirStep, Manifest, MakeDirectory, Mark, Fill, Unmark, ReadMarker,
          Quarantine, Scan, fs
  <2>7. ASSUME NEW i \in 0..LastIndex, OtherCreates(i)
        PROVE  UNCHANGED foreign
    BY <2>7 DEF OtherCreates, fs
  <2> QED
    BY <2>4, <2>5, <2>6, <2>7 DEF DownloadNext
<1> QED
  BY <1>1, DownloadInductive, PTL DEF DownloadSpec, UnlistedFilesKept

=============================================================================
