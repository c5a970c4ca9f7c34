------------------------ MODULE WorkspacePersistence ------------------------
(***************************************************************************)
(* How a workspace reaches the disk and comes back: WorkspaceStore with    *)
(* its migration (src/src/workspace/store.ts), the debounced save worker   *)
(* of WorkspaceController (src/src/workspace/controller.ts), and the two   *)
(* ways out, the quit dialog of WorkspaceApp and the shutdown of           *)
(* runTermLoom.  The program may crash between any two steps and start     *)
(* again.                                                                  *)
(*                                                                         *)
(* A snapshot is the number of changes it holds, counted on over restarts; *)
(* a legacy document holds none.                                           *)
(***************************************************************************)
EXTENDS Integers

CONSTANTS
  MaxRevision,  \* bound on changes of the workspace
  LegacyDocuments,       \* documents of an older schema
  Invalid,      \* a document no schema accepts
  Torn,         \* a document that is partly written
  None

ASSUME RevisionAssumption == MaxRevision \in Nat
ASSUME DocumentsAssumption ==
  /\ None \notin LegacyDocuments /\ Invalid \notin LegacyDocuments /\ Torn \notin LegacyDocuments
  /\ Invalid # Torn /\ None \notin {Invalid, Torn}
  /\ \A d \in LegacyDocuments \cup {Invalid, Torn, None} : d \notin Nat

VARIABLES
  disk,        \* the document at the state path
  backup,      \* the document at its .bak path
  found,       \* what was at the two paths at first
  process,     \* stage of the program
  outcome,     \* how it ended
  revision,    \* this.revision, which names this.snapshot
  persisted,   \* this.persistedRevision
  timer,       \* this.saveTimer is set
  worker,      \* this.saveWorker: "ended" once its promise is resolved
  saving,      \* the locals of runSaveWorker()
  error,       \* this.lastPersistenceError is set
  dialog,      \* this.quitDialog of the application is open
  quitting,    \* this.quitInFlight: the flush of a request to quit
  returned     \* the user has left the dialog since the last such request

disks == <<disk, backup, found>>
saver == <<persisted, worker, saving, error>>
quits == <<dialog, quitting, returned>>
savesVars == <<disks, process, outcome, revision, timer, saver, quits>>

Version(d) == IF d \in Nat THEN d ELSE 0

Unsaved == persisted < revision

SavesInit ==
  /\ disk \in LegacyDocuments \cup {None, Invalid, 0}
  /\ backup \in LegacyDocuments \cup {None}
  /\ found = [disk |-> disk, backup |-> backup]
  /\ process = "off" /\ outcome = "none"
  /\ revision = 0 /\ persisted = 0
  /\ timer = FALSE
  /\ worker = "none" /\ saving = 0
  /\ error = FALSE
  /\ dialog = FALSE /\ quitting = FALSE /\ returned = FALSE

\* Continuations of promises run before timers, answers and the user: the
\* finally() of the worker, then the flush that waits for it.
Quiet ==
  /\ worker # "ended"
  /\ (quitting \/ process = "flushing") => worker # "none"

-----------------------------------------------------------------------------
(* load().                                                                 *)

\* A controller with no past, over the snapshot with this many changes.
Loaded(n) ==
  /\ process' = "up"
  /\ revision' = n /\ persisted' = n

Refused ==
  /\ process' = "off" /\ outcome' = "refused"
  /\ UNCHANGED <<revision, persisted>>

Load ==
  /\ process = "off"
  /\ \/ /\ disk \in Nat \cup {None}
        /\ Loaded(Version(disk)) /\ outcome' = "none"
     \/ /\ disk \in LegacyDocuments
        /\ process' = IF backup = None THEN "backup" ELSE "migrate"
        /\ outcome' = "none"
        /\ UNCHANGED <<revision, persisted>>
     \/ disk \notin LegacyDocuments \cup {None} /\ disk \notin Nat /\ Refused
     \/ Refused
  /\ UNCHANGED <<disks, timer, worker, saving, error, quits>>

\* atomicWriteUtf8 of the backup: it is replaced, replaced and an error (the
\* chmod), or an error.
WriteBackup ==
  /\ process = "backup"
  /\ \/ backup' = disk /\ process' = "migrate" /\ UNCHANGED <<outcome, revision, persisted>>
     \/ backup' \in {backup, disk} /\ Refused
  /\ UNCHANGED <<disk, found, timer, worker, saving, error, quits>>

\* atomicWriteUtf8 of the migrated document.
WriteMigrated ==
  /\ process = "migrate"
  /\ \/ disk' = 0 /\ Loaded(0) /\ UNCHANGED outcome
     \/ disk' \in {disk, 0} /\ Refused
  /\ UNCHANGED <<backup, found, timer, worker, saving, error, quits>>

-----------------------------------------------------------------------------
(* WorkspaceController.                                                    *)

\* dispatch() of an action that changes the snapshot, also by a pane that is
\* being destroyed.
DispatchChange ==
  /\ process \in {"up", "disposing"}
  /\ revision < MaxRevision
  /\ revision' = revision + 1
  /\ timer' = TRUE
  /\ UNCHANGED <<disks, process, outcome, saver, quits>>

\* store.save() opens a temporary file.
OpenTemporary == UNCHANGED disk

\* startSaveWorker(), up to the await of runSaveWorker().
StartSaveWorker ==
  \/ /\ worker = "none" /\ Unsaved
     /\ worker' = "saving" /\ saving' = revision
     /\ OpenTemporary
     /\ UNCHANGED <<persisted, error>>
  \/ /\ ~(worker = "none" /\ Unsaved)
     /\ UNCHANGED <<disk, saver>>

SaveTimerFires ==
  /\ Quiet /\ timer
  /\ timer' = FALSE
  /\ StartSaveWorker
  /\ UNCHANGED <<backup, found, process, outcome, revision, quits>>

\* rename(), in atomicWriteUtf8.
Rename ==
  /\ Quiet /\ worker = "saving"
  /\ disk' = saving
  /\ worker' = "renamed"
  /\ UNCHANGED <<backup, found, process, outcome, revision, timer, persisted, saving, error, quits>>

\* Mutant: what is saved is taken for the latest revision.
PersistedLatest == persisted' = revision

Persisted == persisted' = saving

Recovered == error' = FALSE

\* save() resolves, and the loop goes on to a newer revision.
SaveSucceeds ==
  /\ Quiet /\ worker = "renamed"
  /\ Persisted
  /\ Recovered
  /\ \/ /\ persisted' < revision
        /\ worker' = "saving" /\ saving' = revision
        /\ OpenTemporary
     \/ /\ persisted' = revision
        /\ worker' = "ended"
        /\ UNCHANGED <<disk, saving>>
  /\ UNCHANGED <<backup, found, process, outcome, revision, timer, quits>>

\* save() rejects, before the rename or after it.
SaveFails ==
  /\ Quiet /\ worker \in {"saving", "renamed"}
  /\ worker' = "ended"
  /\ error' = TRUE
  /\ UNCHANGED <<disks, process, outcome, revision, timer, persisted, saving, quits>>

\* Mutant: the worker that has ended is kept.
WorkerEndsKept ==
  /\ worker = "ended"
  /\ timer' = (timer \/ (Unsaved /\ ~error))
  /\ UNCHANGED <<disks, process, outcome, revision, saver, quits>>

\* The finally() of startSaveWorker().
WorkerEnds ==
  /\ worker = "ended"
  /\ worker' = "none"
  /\ timer' = (timer \/ (Unsaved /\ ~error))
  /\ UNCHANGED <<disks, process, outcome, revision, persisted, saving, error, quits>>

\* flush(), up to its await.
Flush ==
  /\ timer' = FALSE
  /\ StartSaveWorker

\* flush(), after its await.
FlushThrows == Unsaved

-----------------------------------------------------------------------------
(* Quitting.                                                               *)

\* Ctrl+Q, or Retry in the dialog, when no quit is in flight.
RequestQuit ==
  /\ Quiet /\ process = "up" /\ ~quitting
  /\ quitting' = TRUE /\ returned' = FALSE
  /\ Flush
  /\ UNCHANGED <<backup, found, process, outcome, revision, dialog>>

\* Esc in the dialog, also while its Retry is in flight.
ReturnToTermLoom ==
  /\ Quiet /\ process = "up" /\ dialog
  /\ dialog' = FALSE /\ returned' = TRUE
  /\ UNCHANGED <<disks, process, outcome, revision, timer, saver, quitting>>

\* The flush of a request returns: completeQuit(), or the dialog.
FlushReturns ==
  /\ quitting /\ worker = "none"
  /\ quitting' = FALSE
  /\ \/ /\ process = "up" /\ ~FlushThrows
        /\ process' = "disposing"
        /\ UNCHANGED dialog
     \/ process = "up" /\ FlushThrows /\ dialog' = TRUE /\ UNCHANGED process
     \/ process # "up" /\ UNCHANGED <<process, dialog>>
  /\ UNCHANGED <<disks, outcome, revision, timer, saver, returned>>

\* The end of a program: a save in flight runs on, or dies with it.
End(how) ==
  /\ process' = "off" /\ outcome' = how
  /\ disk' \in {disk} \cup {n \in {saving} : worker = "saving"}
  /\ worker' = "none" /\ saving' = 0
  /\ timer' = FALSE /\ error' = FALSE
  /\ dialog' = FALSE /\ quitting' = FALSE /\ returned' = FALSE
  /\ UNCHANGED <<backup, found, revision, persisted>>

QuitWithoutSaving ==
  /\ Quiet /\ process = "up" /\ dialog
  /\ End("discarded")

\* What the keys and the buttons of the dialog do: Retry, Quit without saving, Esc.
QuitPersistenceDialog ==
  \/ dialog /\ RequestQuit
  \/ QuitWithoutSaving
  \/ ReturnToTermLoom

\* The renderer is destroyed under the application.
RendererDestroyed ==
  /\ Quiet /\ process = "up"
  /\ process' = "disposing"
  /\ dialog' = FALSE
  /\ UNCHANGED <<disks, outcome, revision, timer, saver, quitting, returned>>

\* runTermLoom, when every pane is disposed of: the last flush.
Close ==
  /\ process = "disposing"
  /\ process' = "flushing"
  /\ Flush
  /\ UNCHANGED <<backup, found, outcome, revision, quits>>

Exit ==
  /\ process = "flushing" /\ worker = "none" /\ ~quitting
  /\ End(IF FlushThrows THEN "reported" ELSE "clean")

Crash ==
  /\ process # "off"
  /\ End("crashed")

SavesNext ==
  \/ Load \/ WriteBackup \/ WriteMigrated
  \/ DispatchChange \/ SaveTimerFires \/ Rename \/ SaveSucceeds \/ SaveFails \/ WorkerEnds
  \/ RequestQuit \/ QuitPersistenceDialog \/ FlushReturns
  \/ RendererDestroyed \/ Close \/ Exit \/ Crash

\* Timers fire, system calls return, promises run their continuations.
SavesFairness ==
  /\ WF_savesVars(SaveTimerFires)
  /\ WF_savesVars(Rename \/ SaveFails)
  /\ WF_savesVars(SaveSucceeds \/ SaveFails)
  /\ WF_savesVars(WorkerEnds)
  /\ WF_savesVars(FlushReturns)
  /\ WF_savesVars(Close)
  /\ WF_savesVars(Exit)

SavesSpec == SavesInit /\ [][SavesNext]_savesVars

SavesFairSpec == SavesSpec /\ SavesFairness

-----------------------------------------------------------------------------
(* Properties.                                                             *)

Documents == 0..MaxRevision \cup LegacyDocuments \cup {None, Invalid}

\* The document at the state path is always a whole one, also after a crash.
SavesTypeOK ==
  /\ disk \in Documents
  /\ backup \in LegacyDocuments \cup {None}
  /\ found \in [disk : Documents, backup : LegacyDocuments \cup {None}]
  /\ process \in {"off", "backup", "migrate", "up", "disposing", "flushing"}
  /\ outcome \in {"none", "refused", "discarded", "reported", "clean", "crashed"}
  /\ revision \in 0..MaxRevision
  /\ persisted \in 0..MaxRevision
  /\ timer \in BOOLEAN
  /\ worker \in {"none", "saving", "renamed", "ended"}
  /\ saving \in 0..MaxRevision
  /\ error \in BOOLEAN
  /\ dialog \in BOOLEAN /\ quitting \in BOOLEAN /\ returned \in BOOLEAN

\* What the controller takes for saved is on the disk, while dispatches, saves
\* and failures interleave.
PersistedIsOnDisk == process # "off" => persisted <= Version(disk)

\* A change that is not saved has a timer, a worker or an error; an error is
\* shown only while there is such a change (CHANGELOG.md:34-35).
UnsavedIsKnown ==
  /\ process = "up" /\ Unsaved => timer \/ worker # "none" \/ error
  /\ error => Unsaved

\* Quitting without a word leaves every change on the disk.
CleanQuitIsSaved == outcome = "clean" => Version(disk) = revision

\* No crash, refusal or migration destroys the document that was found: it is
\* at its path or in the backup, unless a backup was there before
\* (store.test.ts:151, docs/troubleshooting.md:316-320).
FoundIsKept ==
  found.disk \in LegacyDocuments \cup {Invalid} =>
    \/ disk = found.disk \/ backup = found.disk
    \/ found.disk \in LegacyDocuments /\ found.backup # None

\* The disk, the backup and what the controller believes of them agree, through
\* saves that fail, crashes and restarts.
SavesConsistent ==
  /\ SavesTypeOK
  /\ PersistedIsOnDisk
  /\ UnsavedIsKnown
  /\ CleanQuitIsSaved
  /\ FoundIsKept

\* A program that runs on saves every change, or shows an error, or ends.
EventuallySaved == (process = "up" /\ Unsaved) ~> (~Unsaved \/ error \/ process = "off")

\* docs/troubleshooting.md:318-319 says "Valid legacy input receives a
\* user-only backup before atomic replacement".  The code does not keep this:
\* README.md, "Known divergences".
LegacyHasBackup == found.disk \in LegacyDocuments /\ disk # found.disk => backup = found.disk

\* The dialog says "Esc: return to TermLoom" (src/src/ui/workspace-app.ts:1784):
\* a user who has returned is not quit under.  The code does not keep this either.
ReturnedStays ==
  [][returned /\ process = "up" /\ quitting /\ ~quitting' => process' # "disposing"]_savesVars
=============================================================================
