---------------------------- MODULE RichDocument ----------------------------
(***************************************************************************)
(* The preview pane of src/src/ui/rich-document-renderable.ts: a document  *)
(* is read and rendered, its media blocks (media-block-renderable.ts) load *)
(* lazily around the viewport, at most two at a time, and a block whose    *)
(* domain is not permitted waits for the user (domain-permission.ts).      *)
(*                                                                         *)
(* A task is one call of activate() by the scheduler.  Remote blocks share *)
(* one HTTP domain.  The user answers one permission prompt at a time: the *)
(* short save of a persistent answer is never overlapped by a second key.  *)
(***************************************************************************)
EXTENDS Naturals, Sequences, FiniteSets, SequencesExt

CONSTANTS Blocks,          \* the media blocks of the document
          Remote,          \* those behind the HTTP domain
          Views,           \* the preload ranges the viewport can have, as sets of blocks
          MaxGeneration,   \* bound: loads of the document
          MaxLoads,        \* bound: renderings, by load() or "load more"
          MaxQueue         \* bound: entries of the lazy queue, stale ones included

ASSUME RichDocumentAssumption ==
  /\ IsFiniteSet(Blocks) /\ Remote \subseteq Blocks
  /\ Views \subseteq SUBSET Blocks /\ Views # {}
  /\ MaxGeneration \in Nat \ {0} /\ {MaxLoads, MaxQueue} \subseteq Nat

VARIABLES
  presented, destroyed,
  near,         \* the blocks in the preload range now
  evaluate,     \* viewportFramePending: the next frame evaluates the blocks
  sched,        \* lazyBlocks: status and inPreloadRange; "stopping" is running and aborted
  queue,        \* lazyQueue
  asking,       \* the blocks whose task met the gate while it was closed
  block,        \* activationState: "shown" is ready or error, "denied" an error that asked
  generation,
  load, more,   \* the two ways into renderTextPreview(): load() and "load more"
  apply,        \* applyServices()
  rendered,     \* the generations whose content is in the scroll box
  doc,          \* renderings so far
  allowed,      \* the gate allows the domain
  entry,        \* the entry of pendingPermissions, 0 for none
  saving,       \* the entry that approvePending() has taken and awaits
  retries,      \* the retries of each entry, for blocks that still exist
  dropped,      \* history: new settings dropped the entry that was being approved
  missed        \* history: blocks that may have come into range, or asked to be loaded
                \* again, unseen by any evaluation

lazy       == <<sched, queue, asking, block>>
loading    == <<generation, load, more, apply, rendered, doc>>
permission == <<allowed, entry, saving, retries, dropped>>
view       == <<presented, destroyed, near, missed>>
vars == <<presented, destroyed, near, evaluate, sched, queue, asking, block, generation, load,
          more, apply, rendered, doc, allowed, entry, saving, retries, dropped, missed>>

Rest         == [at |-> "idle", gen |-> 0]
Unregistered == [status |-> "none", range |-> FALSE]
Entries      == 1..2
Running      == {b \in Blocks : sched[b].status \in {"running", "stopping"}}

TypeOK ==
  /\ {presented, destroyed, evaluate, allowed, dropped} \subseteq BOOLEAN
  /\ near \in Views /\ queue \in Seq(Blocks) /\ asking \subseteq Remote /\ missed \subseteq Blocks
  /\ sched \in [Blocks -> [range : BOOLEAN, status :
                  {"none", "idle", "queued", "running", "stopping", "done"}]]
  /\ block \in [Blocks -> {"idle", "loading", "shown", "denied"}]
  /\ generation \in 1..MaxGeneration /\ rendered \subseteq 1..MaxGeneration
  /\ {load.at, more.at} \subseteq {"idle", "reading", "clearing", "laying"}
  /\ apply \in {"idle", "waiting", "clearing"} /\ doc \in Nat
  /\ {entry, saving} \subseteq {0} \cup Entries /\ retries \in [Entries -> SUBSET Blocks]

Init ==
  /\ presented = TRUE /\ destroyed = FALSE /\ near \in Views /\ evaluate = FALSE
  /\ sched = [b \in Blocks |-> Unregistered] /\ queue = <<>> /\ asking = {}
  /\ block = [b \in Blocks |-> "idle"]
  /\ generation = 1 /\ load = [at |-> "reading", gen |-> 1] /\ more = Rest /\ apply = "idle"
  /\ rendered = {} /\ doc = 0
  /\ allowed = FALSE /\ entry = 0 /\ saving = 0 /\ retries = [e \in Entries |-> {}]
  /\ dropped = FALSE /\ missed = {}

----------------------------------------------------------------------------
(* The lazy scheduler. *)

\* pumpLazyQueue(): entries are taken while fewer than two tasks run; one whose
\* block is no longer queued or in range is dropped.
BusyUnaborted(s) == Cardinality({b \in Blocks : s[b].status = "running"})  \* mutant
Busy(s) == Cardinality({b \in Blocks : s[b].status \in {"running", "stopping"}})
Pumped(p, b) ==
  IF Busy(p.sched) >= 2 THEN [p EXCEPT !.left = Append(@, b)]
  ELSE IF p.sched[b] = [status |-> "queued", range |-> TRUE]
       THEN [p EXCEPT !.sched[b].status = "running"] ELSE p
Pump(s, q) == FoldLeft(Pumped, [sched |-> s, left |-> <<>>], q)

\* The pump runs on the blocks s and the queue q, and activate() of each block it
\* starts; activate() of a block that is ready returns at once.
Started(s, q, bs) ==
  LET p     == IF destroyed \/ ~presented THEN [sched |-> s, left |-> q] ELSE Pump(s, q)
      start == {b \in Blocks : p.sched[b].status = "running" /\ s[b].status # "running"}
  IN /\ sched' = p.sched /\ queue' = p.left
     /\ asking' = {b \in asking : s[b].status \in {"running", "stopping"}}
                  \cup (IF allowed THEN {} ELSE start \cap Remote)
     /\ block' = [b \in Blocks |-> IF b \in start /\ bs[b] # "shown" THEN "loading" ELSE bs[b]]

\* evaluateLazyBlocks(), on the frame after a scroll, a resize, a show or a retry.
Evaluate ==
  /\ evaluate /\ evaluate' = FALSE /\ missed' = {}
  /\ LET known == {b \in Blocks : sched[b].status # "none"}
         enter == {b \in known \cap near : sched[b].status = "idle" /\ block[b] # "shown"}
         Status(b) == CASE b \in enter -> "queued"
                        [] b \notin near /\ sched[b].status = "queued" -> "idle"
                        [] b \notin near /\ sched[b].status = "running" -> "stopping"
                        [] OTHER -> sched[b].status
     IN Started([b \in Blocks |-> IF b \in known THEN [status |-> Status(b), range |-> b \in near]
                                  ELSE sched[b]],
                queue \o SetToSeq(enter), block)
  /\ UNCHANGED <<presented, destroyed, near, loading, permission>>

\* Its early return: the scroll box has no height, in a pane too small for it or
\* behind a block in full screen.
FrameWithoutHeight ==
  /\ evaluate /\ evaluate' = FALSE /\ missed' = Blocks
  /\ UNCHANGED <<presented, destroyed, near, lazy, loading, permission>>

\* cancelLazyTasks(): hide, destruction and every re-rendering go through it.
WithdrawnQueued(status) == IF status = "queued" THEN "idle" ELSE status      \* mutant
Withdrawn(status) == CASE status = "queued"  -> "idle"
                       [] status = "running" -> "stopping"
                       [] OTHER -> status
Cancelled ==
  /\ queue' = <<>>
  /\ sched' = [b \in Blocks |-> [status |-> Withdrawn(sched[b].status), range |-> FALSE]]
  /\ UNCHANGED <<asking, block>>

\* An aborted load leaves its block idle, or shown when it had passed its last check.
AbortedLoad == {"idle", "shown"}

Outcomes(b) ==
  IF sched[b].status = "stopping" THEN AbortedLoad
  ELSE (IF b \in asking THEN {"denied"} ELSE {}) \cup (IF b \in asking /\ ~allowed THEN {} ELSE {"shown"})

\* The finally of the scheduler: a block that came back into range while its
\* aborted task was ending is queued again.
SettledIdle(b) == IF sched[b].status = "running" THEN "done" ELSE "idle"    \* mutant
Settled(b) == IF sched[b].status = "running" THEN "done"
              ELSE IF sched[b].range /\ presented THEN "queued" ELSE "idle"

\* notePermission(): the retry joins the entry of the domain, or opens one.
NotePermission(b) ==
  /\ entry' = IF entry # 0 THEN entry ELSE CHOOSE e \in Entries : e # saving
  /\ retries' = [retries EXCEPT ![entry'] = @ \cup {b}]

TaskSettles(b) ==
  /\ b \in Running
  /\ \E outcome \in Outcomes(b) :
    /\ IF outcome = "denied" THEN NotePermission(b) ELSE UNCHANGED <<entry, retries>>
    /\ Started([sched EXCEPT ![b].status = Settled(b)],
               IF Settled(b) = "queued" THEN Append(queue, b) ELSE queue,
               [block EXCEPT ![b] = IF @ = "loading" THEN outcome ELSE @])
    /\ UNCHANGED <<view, evaluate, loading, allowed, saving, dropped>>

----------------------------------------------------------------------------
(* What the user and the application do to the pane. *)

\* handleScroll(): keys and wheel; and onResize().
Scroll ==
  /\ doc > 0 /\ presented /\ Len(queue) < MaxQueue
  /\ near' \in Views \ {near} /\ evaluate' = TRUE
  /\ UNCHANGED <<presented, destroyed, missed, lazy, loading, permission>>

\* Tab, a click on a block and leaving full screen select a block and scroll it into
\* view, and no frame is asked to evaluate: none of them calls handleScroll(), and
\* the scroll box reports the mouse wheel only.
ScrollIntoView ==
  /\ presented /\ near' \in Views \ {near}
  /\ \E b \in near' : sched[b].status # "none"
  /\ missed' = missed \cup (near' \ near)
  /\ UNCHANGED <<presented, destroyed, evaluate, lazy, loading, permission>>

Hide ==
  /\ presented
  /\ presented' = FALSE /\ evaluate' = FALSE /\ Cancelled
  /\ UNCHANGED <<destroyed, near, missed, loading, permission>>

Show ==
  /\ ~presented /\ ~destroyed
  /\ presented' = TRUE /\ evaluate' = TRUE
  /\ UNCHANGED <<destroyed, near, missed, lazy, loading, permission>>

\* destroySelf(): the pane is closed, and what is in flight finds itself stale.
Destroy ==
  /\ ~destroyed
  /\ destroyed' = TRUE /\ presented' = FALSE /\ evaluate' = FALSE /\ Cancelled
  /\ load' = Rest /\ more' = Rest /\ apply' = "idle"
  /\ entry' = 0 /\ saving' = 0 /\ retries' = [e \in Entries |-> {}]
  /\ UNCHANGED <<near, missed, generation, rendered, doc, allowed, dropped>>

----------------------------------------------------------------------------
(* Permission. *)

\* retry() of each block that still exists, and requestLazyActivation().
Retried(e) ==
  /\ block' = [b \in Blocks |-> IF b \in retries[e] THEN "idle" ELSE block[b]]
  /\ sched' = [b \in Blocks |-> IF b \in retries[e] THEN [sched[b] EXCEPT !.status = "idle"]
                                ELSE sched[b]]
  /\ evaluate' = (evaluate \/ (retries[e] # {} /\ presented))
  /\ retries' = [retries EXCEPT ![e] = {}]
  /\ UNCHANGED <<queue, asking>>

\* "o": the gate answers at once.
AllowOnce ==
  /\ entry # 0 /\ saving = 0
  /\ allowed' = TRUE /\ entry' = 0 /\ Retried(entry)
  /\ UNCHANGED <<view, loading, saving, dropped>>

\* "P": the entry is taken, and the gate saves the configuration first.
AllowAlways ==
  /\ entry # 0 /\ saving = 0 /\ saving' = entry
  /\ UNCHANGED <<view, evaluate, lazy, loading, allowed, entry, retries, dropped>>

Saved ==
  /\ saving # 0 /\ saving' = 0
  /\ allowed' = TRUE /\ entry' = 0 /\ Retried(saving)
  /\ UNCHANGED <<view, loading, dropped>>

SaveFails ==
  /\ saving # 0 /\ saving' = 0
  /\ UNCHANGED <<view, evaluate, lazy, loading, allowed, entry, retries, dropped>>

----------------------------------------------------------------------------
(* Reading and rendering. *)

StaleOnceClosed(p) == destroyed                                             \* mutant
Stale(p) == p.gen # generation

\* While services are applied the signal is aborted, or there is no text preview.
LoadMore ==
  /\ more.at = "idle" /\ load.at = "idle" /\ apply = "idle" /\ doc \in 1..(MaxLoads - 1)
  /\ ~destroyed
  /\ more' = [at |-> "reading", gen |-> generation]
  /\ UNCHANGED <<view, evaluate, lazy, generation, load, apply, rendered, doc, permission>>

\* The bytes are there: the tasks of the old rendering are cancelled.
BytesRead(p, next) ==
  /\ p.at = "reading"
  /\ IF Stale(p) THEN next = Rest /\ UNCHANGED lazy
                 ELSE next = [p EXCEPT !.at = "clearing"] /\ Cancelled
  /\ UNCHANGED <<view, evaluate, generation, apply, rendered, doc, permission>>

\* clearRenderedDocument(): when every task has settled the blocks are destroyed
\* and forgotten.
Cleared ==
  /\ Running = {}
  /\ sched' = [b \in Blocks |-> Unregistered] /\ queue' = <<>> /\ asking' = {}
  /\ block' = [b \in Blocks |-> "idle"] /\ rendered' = {}
  /\ retries' = [e \in Entries |-> {}]

ScrollCleared(p, next) ==
  /\ p.at = "clearing" /\ Cleared
  /\ next = IF Stale(p) THEN Rest ELSE [p EXCEPT !.at = "laying"]
  /\ UNCHANGED <<view, evaluate, generation, apply, doc, allowed, entry, saving, dropped>>

\* mediaBlock() and registerLazyBlock(), for every block of the document.
Registered == [b \in Blocks |-> [status |-> "idle", range |-> FALSE]]

\* Parsed and laid out: the blocks are created.
LaidOut(p, next) ==
  /\ p.at = "laying" /\ next = Rest
  /\ IF Stale(p) THEN UNCHANGED <<rendered, doc, sched, evaluate>>
     ELSE /\ rendered' = rendered \cup {p.gen} /\ doc' = doc + 1
          /\ sched' = Registered
          /\ evaluate' = presented
  /\ UNCHANGED <<view, queue, asking, block, generation, apply, permission>>

\* describe() or read() of the loader throws, or the parser: what is on the screen stays.
ReadFails(p, next) ==
  /\ p.at \in {"reading", "laying"} /\ next = Rest
  /\ UNCHANGED <<view, evaluate, lazy, generation, apply, rendered, doc, permission>>

RenderStep(p, next) ==
  BytesRead(p, next) \/ ScrollCleared(p, next) \/ LaidOut(p, next) \/ ReadFails(p, next)
LoadStep == RenderStep(load, load') /\ UNCHANGED more
MoreStep == RenderStep(more, more') /\ UNCHANGED load

\* applyServices(): new settings abort what is loading and load again.
ApplyServices ==
  /\ apply = "idle" /\ ~destroyed /\ doc < MaxLoads /\ generation + 2 <= MaxGeneration
  /\ apply' = "waiting" /\ generation' = generation + 1
  /\ UNCHANGED <<view, evaluate, lazy, load, more, rendered, doc, permission>>

ApplyWaited ==
  /\ apply = "waiting" /\ load.at = "idle"
  /\ apply' = "clearing" /\ entry' = 0 /\ Cancelled
  /\ retries' = [e \in Entries |-> IF e = saving THEN retries[e] ELSE {}]
  /\ dropped' = (dropped \/ saving # 0)
  /\ UNCHANGED <<view, evaluate, generation, load, more, rendered, doc, allowed, saving>>

\* A "load more" that was clearing waits for the same tasks, and ends first.
ApplyCleared ==
  /\ apply = "clearing" /\ more.at # "clearing" /\ Cleared
  /\ apply' = "idle" /\ generation' = generation + 1
  /\ load' = [at |-> "reading", gen |-> generation + 1]
  /\ UNCHANGED <<view, evaluate, more, doc, allowed, entry, saving, dropped>>

Next == \/ Evaluate \/ FrameWithoutHeight \/ (\E b \in Blocks : TaskSettles(b))
        \/ Scroll \/ ScrollIntoView \/ Hide \/ Show \/ Destroy
        \/ AllowOnce \/ AllowAlways \/ Saved \/ SaveFails
        \/ LoadMore \/ LoadStep \/ MoreStep \/ ApplyServices \/ ApplyWaited \/ ApplyCleared

Spec == Init /\ [][Next]_vars

----------------------------------------------------------------------------
(* Properties *)

\* "cap concurrent resource work at two" (docs/architecture.md:313), with
\* aborted loads that have not settled counted: they still hold a process.
AtMostTwo == Cardinality(Running) <= 2

\* "cancel work on selection, hide, or destruction": behind a hidden or closed
\* pane every load has been told to stop.
HiddenIsCancelled ==
  ~presented => \A b \in Blocks : sched[b].status \notin {"queued", "running"}

\* A block that asked for its domain can still be answered: its retry is in the
\* pending entry, or in one that is being approved (unless new settings dropped
\* that entry: its approval then drops the one that replaced it).
DeniedIsAsked ==
  (~destroyed /\ ~dropped /\ apply # "clearing") => \A b \in Blocks : block[b] = "denied" =>
    \E e \in {entry, saving} \ {0} : b \in retries[e]

\* At most two loads run, and no block that asks for a permission is forgotten,
\* whatever is hidden, scrolled, closed or approved meanwhile.
Consistent ==
  /\ TypeOK
  /\ AtMostTwo
  /\ DeniedIsAsked

\* After new settings nothing read under the old ones comes back on the screen.
OnlyCurrentIsRendered ==
  (apply = "idle" /\ load.at = "idle" /\ ~destroyed) => rendered \subseteq {generation}

\* The block is on the screen, it asks, a task loads it, or it waits in the queue.
Scheduled(b) ==
  \/ block[b] \in {"shown", "denied"}
  \/ b \in Running /\ sched[b].range
  \/ sched[b].status = "queued" /\ b \in Range(queue)

\* No block in the preload range is forgotten, however often it left the range
\* while it was queued or its load was ending: it is scheduled, or the next frame
\* looks at it.  What a selection brought into range, or a frame without height did
\* not look at, waits for the next evaluation, which makes up for it.
NearIsScheduled ==
  (presented /\ ~evaluate /\ "clearing" \notin {load.at, more.at, apply}) =>
    \A b \in near \ missed : sched[b].status # "none" => Scheduled(b)

\* docs/architecture.md:313 has documents preload around the visible viewport.  A
\* block that Tab, a click or the end of full screen brings into view stays idle
\* until the next scroll, resize or show: README.md, "Known divergences".
SelectedIsScheduled ==
  (presented /\ ~evaluate /\ "clearing" \notin {load.at, more.at, apply}) =>
    \A b \in near : sched[b].status # "none" => Scheduled(b)
=============================================================================
