--------------------------- MODULE TransferQueue ---------------------------
(***************************************************************************)
(* The queue of explicit remote-to-local downloads                         *)
(* (src/src/sftp/transfer-queue.ts, class TransferQueue).                  *)
(*                                                                         *)
(* The program is one JavaScript thread: a synchronous stretch of code is  *)
(* one action, and every await, promise callback, microtask and timer is a *)
(* point where another action may run.  A finished download therefore      *)
(* takes four steps: the worker's promise settles, run() resumes and       *)
(* writes the outcome, its .finally() gives the slot back, and the         *)
(* microtask of schedulePump() runs pump().                                *)
(***************************************************************************)
EXTENDS Integers, FiniteSets, Sequences, Functions

CONSTANTS
  Jobs,              \* download ids; every enqueue() draws a fresh one
  Concurrency,       \* worker slots
  HistoryLimit,      \* terminal jobs kept for display
  HistoryTtl,        \* age, in ticks, after which a terminal job is dropped
  ProgressInterval,  \* ticks between two throttled progress events
  MaxTime,           \* bound on the clock, for model checking
  MaxReports         \* bound on the progress reports, likewise

\* The constructor refuses anything else (transfer-queue.ts:102-113).
ASSUME ConcurrencyAssumption == Concurrency \in Nat \ {0}
ASSUME HistoryAssumption == HistoryLimit \in Nat /\ HistoryTtl \in Nat
ASSUME BoundsAssumption ==
  ProgressInterval \in Nat /\ MaxTime \in Nat /\ MaxReports \in Nat

VARIABLES
  status,         \* job.status; "absent" before the enqueue
  jobs,           \* keys of the Map this.jobs
  created,        \* number of enqueue() calls so far
  ordinal,        \* ordinal[j]: which enqueue() created j, the Map's order
  pending,        \* this.pending
  active,         \* this.active
  pumpScheduled,  \* this.pumpScheduled: pump() waits in the microtask queue
  aborted,        \* item.controller.signal.aborted
  worker,         \* where the worker's promise and run() are
  completion,     \* the promise of the DownloadHandle
  finishedAt,     \* job.finishedAt
  progress,       \* job.progress, as the number of reports received
  shown,          \* what the last "change" event of j carried
  emittedAt,      \* item.lastProgressEmission
  timer,          \* item.progressTimer is set
  due,            \* the earliest moment that timer fires
  now             \* the clock

queueVars   == <<status, jobs, created, ordinal, pending, active, pumpScheduled>>
runVars     == <<aborted, worker, completion, finishedAt>>
displayVars == <<progress, shown, emittedAt, timer, due>>
vars == <<queueVars, runVars, displayVars, now>>

Live     == {"queued", "running"}
Terminal == {"completed", "cancelled", "failed"}

\* "idle": not started; "working": the promise is unsettled; the three
\* settled outcomes wait for run() to resume; "settled": run() is done and its
\* .finally() has not yet given the slot back.
Outcomes == {"returned", "threw", "threwCancelled"}
HoldsSlot == {"working", "settled"} \cup Outcomes

Nothing == [status |-> "absent", progress |-> 0]

Init ==
  /\ status = [j \in Jobs |-> "absent"]
  /\ jobs = {}
  /\ created = 0
  /\ ordinal = [j \in Jobs |-> 0]
  /\ pending = <<>>
  /\ active = 0
  /\ pumpScheduled = FALSE
  /\ aborted = [j \in Jobs |-> FALSE]
  /\ worker = [j \in Jobs |-> "idle"]
  /\ completion = [j \in Jobs |-> "unsettled"]
  /\ finishedAt = [j \in Jobs |-> 0]
  /\ progress = [j \in Jobs |-> 0]
  /\ shown = [j \in Jobs |-> Nothing]
  /\ emittedAt = [j \in Jobs |-> 0]
  /\ timer = [j \in Jobs |-> FALSE]
  /\ due = [j \in Jobs |-> 0]
  /\ now = 0

-----------------------------------------------------------------------------
(* Bookkeeping shared by the operations.                                   *)

\* pruneHistory(): over the Map m, with statuses st and finish times fin.
Finished(m, st) == {j \in m : st[j] \in Terminal}

Expired(m, st, fin) == {j \in Finished(m, st) : fin[j] < now - HistoryTtl}

\* Mutant: the history sorted oldest first.
PrecedesOldest(i, j, fin) ==
  fin[i] < fin[j] \/ (fin[i] = fin[j] /\ ordinal[i] < ordinal[j])

\* The stable sort: newest finish first, Map order among equals.
Precedes(i, j, fin) ==
  fin[i] > fin[j] \/ (fin[i] = fin[j] /\ ordinal[i] < ordinal[j])

Overflowing(m, st, fin) ==
  LET fresh == Finished(m, st) \ Expired(m, st, fin)
  IN  {j \in fresh :
         Cardinality({i \in fresh : Precedes(i, j, fin)}) >= HistoryLimit}

Pruned(m, st, fin) == Expired(m, st, fin) \cup Overflowing(m, st, fin)

PruneHistory(m, st, fin) == m \ Pruned(m, st, fin)

\* changed(item, true) for the jobs of S, whose status becomes st: emit at
\* once and drop the throttled event.  The jobs of gone are pruned, and their
\* timers cleared, in the same step.
ChangedNow(S, st, gone) ==
  /\ shown' = [j \in Jobs |->
        IF j \in S THEN [status |-> st, progress |-> progress[j]] ELSE shown[j]]
  /\ emittedAt' = [j \in Jobs |-> IF j \in S THEN now ELSE emittedAt[j]]
  /\ timer' = [j \in Jobs |-> timer[j] /\ j \notin (S \cup gone)]
  /\ UNCHANGED due

\* pending without the entry of j (indexOf and splice).
WithoutJob(s, j) ==
  LET at == CHOOSE k \in 1..Len(s) : s[k] = j
  IN  [i \in 1..(Len(s) - 1) |-> IF i < at THEN s[i] ELSE s[i + 1]]

-----------------------------------------------------------------------------
(* Operations.                                                             *)

\* Mutant: the newest request is served first.
EnqueueFront(j) ==
  /\ status[j] = "absent"
  /\ jobs' = PruneHistory(jobs, status, finishedAt) \cup {j}
  /\ status' = [status EXCEPT ![j] = "queued"]
  /\ created' = created + 1
  /\ ordinal' = [ordinal EXCEPT ![j] = created + 1]
  /\ pending' = <<j>> \o pending
  /\ pumpScheduled' = TRUE
  /\ ChangedNow({j}, "queued", jobs \ jobs')
  /\ UNCHANGED <<active, runVars, progress, now>>

\* enqueue(request, worker) of a valid request.
Enqueue(j) ==
  /\ status[j] = "absent"
  /\ jobs' = PruneHistory(jobs, status, finishedAt) \cup {j}
  /\ status' = [status EXCEPT ![j] = "queued"]
  /\ created' = created + 1
  /\ ordinal' = [ordinal EXCEPT ![j] = created + 1]
  /\ pending' = Append(pending, j)
  /\ pumpScheduled' = TRUE
  /\ ChangedNow({j}, "queued", jobs \ jobs')
  /\ UNCHANGED <<active, runVars, progress, now>>

\* list() and get(): the readers prune too.
Read ==
  /\ jobs' = PruneHistory(jobs, status, finishedAt)
  /\ timer' = [j \in Jobs |-> timer[j] /\ j \notin (jobs \ jobs')]
  /\ UNCHANGED <<status, created, ordinal, pending, active, pumpScheduled,
                 runVars, progress, shown, emittedAt, due, now>>

\* cancel(id) of a job that waits: it is over at once.
CancelQueued(j) ==
  /\ j \in jobs
  /\ status[j] = "queued"
  /\ pending' = WithoutJob(pending, j)
  /\ status' = [status EXCEPT ![j] = "cancelled"]
  /\ finishedAt' = [finishedAt EXCEPT ![j] = now]
  /\ completion' = [completion EXCEPT ![j] = "rejected"]
  /\ jobs' = PruneHistory(jobs, status', finishedAt')
  /\ ChangedNow({j}, "cancelled", jobs \ jobs')
  /\ UNCHANGED <<created, ordinal, active, pumpScheduled, aborted, worker,
                 progress, now>>

\* cancel(id) of a job that runs: only its signal is raised.
CancelRunning(j) ==
  /\ j \in jobs
  /\ status[j] = "running"
  /\ aborted' = [aborted EXCEPT ![j] = TRUE]
  /\ UNCHANGED <<queueVars, worker, completion, finishedAt, displayVars, now>>

-----------------------------------------------------------------------------
(* The pump and run().                                                     *)

\* Mutant: the loop condition active <= concurrency.
ToStartOneMore ==
  IF Len(pending) <= Concurrency - active + 1 THEN Len(pending)
                                              ELSE Concurrency - active + 1

\* How many waiting jobs pump()'s loop starts.
ToStart ==
  IF Len(pending) <= Concurrency - active THEN Len(pending)
                                          ELSE Concurrency - active

Started == {pending[i] : i \in 1..ToStart}

\* The microtask of schedulePump(): pump(), and run() up to its await.
Pump ==
  /\ pumpScheduled
  /\ pumpScheduled' = FALSE
  /\ pending' = SubSeq(pending, ToStart + 1, Len(pending))
  /\ active' = active + ToStart
  /\ status' = [j \in Jobs |-> IF j \in Started THEN "running" ELSE status[j]]
  /\ worker' = [j \in Jobs |-> IF j \in Started THEN "working" ELSE worker[j]]
  /\ ChangedNow(Started, "running", {})
  /\ UNCHANGED <<jobs, created, ordinal, aborted, completion, finishedAt,
                 progress, now>>

\* The worker's promise settles; run() has not resumed yet.
WorkerSettles(j) ==
  /\ worker[j] = "working"
  /\ \E outcome \in Outcomes : worker' = [worker EXCEPT ![j] = outcome]
  /\ UNCHANGED <<queueVars, aborted, completion, finishedAt, displayVars, now>>

\* Mutant: no check of the signal after a worker that succeeded.
VerdictUnchecked(j) ==
  IF worker[j] = "returned" THEN "completed"
  ELSE IF aborted[j] \/ worker[j] = "threwCancelled" THEN "cancelled"
  ELSE "failed"

\* The status run() gives a job: the check after the await, and the catch.
Verdict(j) ==
  IF aborted[j] \/ worker[j] = "threwCancelled" THEN "cancelled"
  ELSE IF worker[j] = "returned" THEN "completed"
  ELSE "failed"

\* run() resumes after the await, to the end of its finally block.
RunSettles(j) ==
  /\ worker[j] \in Outcomes
  /\ worker' = [worker EXCEPT ![j] = "settled"]
  /\ status' = [status EXCEPT ![j] = Verdict(j)]
  /\ finishedAt' = [finishedAt EXCEPT ![j] = now]
  /\ completion' = [completion EXCEPT ![j] =
        IF Verdict(j) = "completed" THEN "resolved" ELSE "rejected"]
  /\ jobs' = PruneHistory(jobs, status', finishedAt')
  /\ ChangedNow({j}, Verdict(j), jobs \ jobs')
  /\ UNCHANGED <<created, ordinal, pending, active, pumpScheduled, aborted,
                 progress, now>>

\* Mutant: the slot is given back without asking for a pump.
ReleaseSlotNoPump(j) ==
  /\ worker[j] = "settled"
  /\ worker' = [worker EXCEPT ![j] = "idle"]
  /\ active' = active - 1
  /\ UNCHANGED <<status, jobs, created, ordinal, pending, pumpScheduled, aborted,
                 completion, finishedAt, displayVars, now>>

\* The .finally() of pump(): the slot is free and the pump is asked for.
ReleaseSlot(j) ==
  /\ worker[j] = "settled"
  /\ worker' = [worker EXCEPT ![j] = "idle"]
  /\ active' = active - 1
  /\ pumpScheduled' = TRUE
  /\ UNCHANGED <<status, jobs, created, ordinal, pending, aborted, completion,
                 finishedAt, displayVars, now>>

-----------------------------------------------------------------------------
(* Progress events.                                                        *)

\* The reports of all downloads: this is the bound's count, not the code's.
Reported == FoldFunction(LAMBDA a, b : a + b, 0, progress)

Emit(j, p) ==
  /\ shown' = [shown EXCEPT ![j] = [status |-> status[j], progress |-> p]]
  /\ emittedAt' = [emittedAt EXCEPT ![j] = now]

\* Mutant: a throttled report is dropped instead of delayed.
ReportDropped(j) ==
  /\ worker[j] = "working"
  /\ Reported < MaxReports
  /\ progress' = [progress EXCEPT ![j] = @ + 1]
  /\ IF now - emittedAt[j] >= ProgressInterval
       THEN Emit(j, progress[j] + 1)
       ELSE UNCHANGED <<shown, emittedAt>>
  /\ UNCHANGED <<timer, due, queueVars, runVars, now>>

\* report() by the worker, then changed(item, false).
Report(j) ==
  /\ worker[j] = "working"
  /\ Reported < MaxReports
  /\ progress' = [progress EXCEPT ![j] = @ + 1]
  /\ \/ /\ now - emittedAt[j] >= ProgressInterval
        /\ Emit(j, progress[j] + 1)
        /\ UNCHANGED <<timer, due>>
     \/ /\ now - emittedAt[j] < ProgressInterval
        /\ timer' = [timer EXCEPT ![j] = TRUE]
        /\ due' = IF timer[j] THEN due
                  ELSE [due EXCEPT ![j] = emittedAt[j] + ProgressInterval]
        /\ UNCHANGED <<shown, emittedAt>>
  /\ UNCHANGED <<queueVars, runVars, now>>

\* The progress timer: silent when the job is gone or over.
ProgressTimer(j) ==
  /\ timer[j]
  /\ now >= due[j]
  /\ timer' = [timer EXCEPT ![j] = FALSE]
  /\ IF j \in jobs /\ status[j] \notin Terminal
       THEN Emit(j, progress[j])
       ELSE UNCHANGED <<shown, emittedAt>>
  /\ UNCHANGED <<queueVars, runVars, progress, due, now>>

Tick ==
  /\ now < MaxTime
  /\ now' = now + 1
  /\ UNCHANGED <<queueVars, runVars, displayVars>>

Next ==
  \/ Pump
  \/ Read
  \/ Tick
  \/ \E j \in Jobs :
       \/ Enqueue(j)
       \/ CancelQueued(j)
       \/ CancelRunning(j)
       \/ WorkerSettles(j)
       \/ RunSettles(j)
       \/ ReleaseSlot(j)
       \/ Report(j)
       \/ ProgressTimer(j)

\* The event loop runs every queued microtask.  Nothing is assumed of the
\* workers (a transfer has no timeout) or of the clock.
Fairness ==
  /\ WF_vars(Pump)
  /\ \A j \in Jobs : WF_vars(RunSettles(j)) /\ WF_vars(ReleaseSlot(j))

Spec == Init /\ [][Next]_vars

FairSpec == Spec /\ Fairness

-----------------------------------------------------------------------------
(* Properties.                                                             *)

Statuses == {"absent"} \cup Live \cup Terminal

\* The types of the queue's fields.
TypeOK ==
  /\ status \in [Jobs -> Statuses]
  /\ jobs \in SUBSET Jobs
  /\ created \in Nat
  /\ ordinal \in [Jobs -> Nat]
  /\ pending \in Seq(Jobs)
  /\ active \in Nat
  /\ pumpScheduled \in BOOLEAN
  /\ aborted \in [Jobs -> BOOLEAN]
  /\ worker \in [Jobs -> {"idle"} \cup HoldsSlot]
  /\ completion \in [Jobs -> {"unsettled", "resolved", "rejected"}]
  /\ finishedAt \in [Jobs -> Nat]
  /\ progress \in [Jobs -> Nat]
  /\ shown \in [Jobs -> [status : Statuses, progress : Nat]]
  /\ emittedAt \in [Jobs -> Nat]
  /\ timer \in [Jobs -> BOOLEAN]
  /\ due \in [Jobs -> Nat]
  /\ now \in Nat

Holders == {j \in Jobs : worker[j] \in HoldsSlot}

Running == {j \in Jobs : status[j] = "running"}

\* The counter this.active is exact through every interleaving of settling,
\* cancelling, releasing and pumping, so no slot leaks and none is used twice:
\* at most Concurrency downloads run.
SlotAccounting ==
  /\ active = Cardinality(Holders)
  /\ active <= Concurrency
  /\ Running \subseteq Holders

\* this.pending holds each waiting job once, and nothing else; a job the user
\* can still cancel is in the Map, whatever pruning did.
QueueConsistent ==
  /\ Range(pending) = {j \in Jobs : status[j] = "queued"}
  /\ IsInjective(pending)
  /\ \A j \in Jobs : status[j] \in Live => j \in jobs

\* No lost wakeup: a job waits beside a free slot only while a pump() is
\* already in the microtask queue.
NoLostPump == pending # <<>> /\ active < Concurrency => pumpScheduled

\* The status the panes show and the promise the caller awaits agree, and once
\* cancel() of a running job returned true its handle is not resolved, even
\* when its worker had already succeeded.
OutcomeAgreement ==
  \A j \in Jobs :
    /\ completion[j] = "resolved" <=> status[j] = "completed"
    /\ completion[j] = "rejected" <=> status[j] \in {"cancelled", "failed"}
    /\ aborted[j] => status[j] \in {"running", "cancelled"}

\* The queue's records agree at every point where another callback may run: the
\* line, the table and the statuses, the pump that is owed, and the promises.
Consistent ==
  /\ TypeOK
  /\ QueueConsistent
  /\ NoLostPump
  /\ OutcomeAgreement

\* Pruning keeps the history within its limit and drops the oldest: no job
\* leaves the Map while one that finished before it stays.
HistoryKeepsNewest ==
  [][/\ Cardinality(Finished(jobs', status')) <= HistoryLimit
     /\ \A gone \in jobs \ jobs', kept \in Finished(jobs', status') :
          finishedAt'[gone] <= finishedAt'[kept]]_vars

\* Throttling delays progress but never loses it: what a listener last saw of a
\* job is current, or the timer that will send it is armed; and once the job is
\* over nothing is armed and the last event carried the final status.
ProgressDelivered ==
  \A j \in Jobs :
    /\ shown[j] = [status |-> status[j], progress |-> progress[j]] \/ timer[j]
    /\ timer[j] => status[j] = "running"

\* If no transfer hangs for ever, every accepted download comes to an end: the
\* queue itself never strands one.
EventuallyServed ==
  (\A j \in Jobs : []<>(worker[j] # "working"))
    => \A j \in Jobs : (status[j] = "queued") ~> (status[j] \in Terminal)

\* The queue implements the contract of its handles.
Contract ==
  INSTANCE DownloadContract WITH
    Downloads <- Jobs,
    Capacity  <- Concurrency,
    line      <- pending,
    running   <- Running,
    condemned <- {j \in Jobs : aborted[j]},
    resolved  <- {j \in Jobs : completion[j] = "resolved"},
    rejected  <- {j \in Jobs : completion[j] = "rejected"}

\* Every step of the queue is a step of DownloadContract, or invisible there:
\* starts in the order of acceptance, cancellation that keeps the others'
\* places, and one settlement for each handle.
ImplementsContract == Contract!Spec
=============================================================================
