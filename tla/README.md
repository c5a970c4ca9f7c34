# A verification development for TermLoom

TermLoom is a terminal workspace: panes with local and remote terminals, file
browsers, document previews and media, over OpenSSH, rclone, tmux and a few
helpers. The program is TypeScript on one JavaScript thread (`src/src/`), with
native helpers in Rust (`src/native/`). This directory holds TLA+ models of the
parts whose correctness depends on the order of events, TLC configurations
that check them on small instances, and proofs that TLAPS checks for every
instance. `PROJECT.json` maps each definition to the lines it translates and
lists components, runs, hazards and theorems.

All models share one reading of the program. JavaScript runs a synchronous
stretch of code to its end, so a stretch is one action. Each `await`, promise
callback, timer and event of a child process is a point where the program
may be anywhere else, so what comes after it is an action of its own, and a
value read before it is a local that may be stale. Continuations of settled
promises run before timers and answers from outside: where a property depends
on that, a module has a predicate (`Quiet`, `Calm`, `Free`) in the guards of the
outside world's actions.

## 1. Inventory

### 1.1 Components, their state and operations

| Component | State it keeps | Operations | Correct when |
| --- | --- | --- | --- |
| Transfer queue (`sftp/transfer-queue.ts`) | job table, `pending`, `active`, `pumpScheduled`, throttle timers | enqueue, cancel, list/get, pump, run, progress | slots are counted exactly, nothing waits beside a free slot, promises and statuses agree, history is bounded |
| Remote downloads (`sftp/remote-download-service.ts`) | per download: private partial, marker, candidate name | file and directory download, publication, owned cleanup | nothing is overwritten, files appear whole, cleanup removes only its own |
| rclone transport (`sftp/rclone-sftp.ts`, `remote-resource-reader.ts`) | directory cache | list, refresh, stat, download, materialise | a refresh is not undone by an older listing |
| Connection coordinator (`ssh/connection-coordinator.ts`) | statuses, attempts, one ssh PTY per attempt | ensureConnected, cancel, reconnect, connect | one prompt per host, each status has a cause, each request is answered |
| SSH client (`ssh/client.ts`) | host table, cache of `ssh -G` answers | create, syncHosts, resolveHost, checkMaster, spawnMaster | it knows the catalog's hosts; answers belong to the alias in force |
| SSH discovery and catalog (`ssh/host-*.ts`, `resolver.ts`) | host records with statuses, watchers, debounce | refresh, setStatus, monitor | no change of the files or of the configuration is missed |
| Authentication panel (`ui/ssh-authentication-renderable.ts`) | one panel: host, PTY, error | show, close, setError, Retry, Cancel | the prompt the user sees is the one that waits |
| Reconnect session (`connection/*`) | phase, attempt, generation, retry timer, backend | start, retry, updateConfig, stop, callbacks | one ssh per pane, no phase without a cause, recovery |
| Workspace controller and store (`workspace/controller.ts`, `store.ts`, `core/atomic-file.ts`) | snapshot, revisions, save timer and worker; state file and backup | dispatch, flush, load, migrate, save | no change is lost in silence, the file is whole, legacy data survives |
| Workspace reducer and schema (`workspace/reducer.ts`, `schema.ts`) | layout trees, tabs, panes, surfaces | one case per action, validation, migration | every reachable snapshot can be saved and loaded again |
| Runtime (`runtime/run.ts`) | the configuration, services and their disposal | start, save and apply a configuration, shut down | the services agree with the configuration |
| Configuration (`config/*`, `ui/settings-renderable.ts`, `ui/sidebar-renderable.ts`) | the file, its backup, and three copies of it | load, migrate, save, settings panel, host prompts | savers do not undo each other, the program starts again with what it wrote |
| Domain permission gate (`document/domain-permission.ts`) | session and persisted domains | allow, persist, check | what is allowed is what the file says |
| Resource cache (`document/resource-cache.ts`) | in-flight producers with consumer counts; cache directory | materialise, consume, evict | producers are shared, abort with the last consumer, the directory stays bounded |
| Resource loader (`document/resource-loader.ts`) | none of its own | load local, HTTP, SFTP resources | a closed domain is not read |
| Native math renderer (`document/native-math-renderer.ts`, `native/termloom-math`) | helper process, request chain, pending bytes, cache | render, dispose | answers match requests |
| Playback (`media/playback-controller.ts`, `decoder.ts`, `mpv-controller.ts`) | status, generation, stream, pump, mpv and its socket | initialize, play, pause, seek, dispose | no process without an owner, no frame from the past, the status is true |
| Media surfaces (`media/surface-renderable.ts`, adapters, output gate) | newest frame, last region, chunks held back | setFrame, hide, move, destroy, drain | the terminal shows the newest frame where the layout has it, and nowhere else |
| Process runner (`process/process-runner.ts`) | one child, timers | run | one settlement, the child does not survive |
| File browser (`ui/file-browser-renderable.ts`) | path, pages, selection, abort controllers, preview timer | refresh, navigate, page, preview, destroy | list and preview are of what was asked for last |
| Document preview (`ui/rich-document-renderable.ts`, `media-block-renderable.ts`) | generation, lazy blocks, queue, pending permissions | load, more, applyServices, viewport frames, hide, approve, deny, destroy | no block is forgotten, at most two load, nothing stale is drawn |
| Workspace application (`ui/workspace-app.ts`, `pane-registry.ts`, `pane-factory.ts`) | views of the panes, mounted layouts, overlays, quit dialog | keys, tabs, attach, navigate, save configuration, quit | the screen is the snapshot, hidden views survive |
| Terminals (`terminal/*`) | attached backend, screen | attach, input, resize | input goes to the backend shown |
| Parsing, layout, i18n, doctor, commands, tmux, file providers | none that outlives a call, or view state | | pure functions and wiring |

### 1.2 Interactions

* Panes, tmux and downloads **call** `ensureConnected` of the coordinator; a
  reconnect session awaits it before each spawn (`beforeConnect`).
* The coordinator **emits** `change` events: the application opens, closes and
  labels the one authentication panel, writes the status into the catalog and
  refreshes the panes of the host, which call `ensureConnected` again.
* The download service **enqueues** a worker in the transfer queue and the worker
  runs over the rclone transport; the queue's signal is its only channel back.
* Views **dispatch** into the workspace controller, which runs the reducer, notifies
  the application (which reconciles the pane registry), and saves through the store;
  the quit dialog and the runtime's shutdown both flush it.
* File panes of one host **share** the directory cache; document views **share** the
  resource cache, the math helper and the domain gate.
* A preview **activates** a media block; the block owns a playback controller, which
  gives frames to a surface, which draws on the terminal all surfaces share.
* The settings panel, the sidebar's prompts and a document's "Allow always" **save**
  the configuration; the host catalog is built from it and from the SSH files, and
  the SSH client from the catalog.
* Other programs share the download directory, the SSH control sockets and the
  SSH configuration.

### 1.3 What is hard

Stale values after an `await` (the coordinator after `ssh -O check`, a playback call
after mpv's answer, a save composed from an older copy), cancellations that land between
two awaits, one view shared by several actors (the authentication panel), counters
kept exact across callbacks (queue slots, revisions, running loads), late answers after a
pane is hidden, moved or gone, an output stream that holds chunks back while the layout
moves on, failing system calls in the middle of a publication or a cleanup, crashes
between a backup and the file it protects, and other programs in the same directory.
`PROJECT.json` lists each of these under `hazards`, at its line, with the
properties that would catch it or the reason why none does.

## 2. Modules and the code they model

| Module | Models | Role |
| --- | --- | --- |
| `DownloadContract` | what a download handle promises | abstract specification |
| `TransferQueue` | `TransferQueue` | component; refines `DownloadContract` |
| `TransfersProofs` | | theorems about `TransferQueue` and `RemoteDownload` (section 4) |
| `ConnectionProofs` | | theorems about `HostConnection` and `ReconnectSession` |
| `RichDocumentProofs` | | theorems about `RichDocument` and `MediaSurfaces` |
| `WorkspaceProofs` | | theorems about `Workspace` and `WorkspacePersistence` |
| `ResourceCacheProofs`, `FileBrowsingProofs`, `MediaPlaybackProofs`, `ConfigurationProofs` | | theorems about the components of the same name |
| `RemoteDownload` | `RemoteDownloadService` with the part of the queue's `run()` that judges its outcome | component |
| `HostConnection` | `HostConnectionCoordinator` with the resolution cache of `SshClient` and the authentication panel of `WorkspaceApp` | composition |
| `ReconnectSession` | `ReconnectSession` with the commands of a Direct SSH pane | component |
| `WorkspacePersistence` | `WorkspaceStore` and `WorkspaceController` with the quit dialog and the shutdown of `run()` | composition |
| `ResourceCache` | `ResourceCache` | component |
| `FileBrowsing` | `FileBrowserRenderable` over `list()` and the directory cache of `RcloneSftpService` | composition |
| `MediaPlayback` | `MediaPlaybackController` with its ffmpeg streams, mpv, and the presentation switches of a media block | composition |
| `RichDocument` | `RichDocumentRenderable` with its media blocks, the loader's answers and the session side of the domain gate | composition |
| `MediaSurfaces` | the media surfaces, the kitty and iTerm2 adapters and their output gates | component |
| `Workspace` | reducer, schema, pane registry and factory, and `WorkspaceApp` where it dispatches and draws | composition |
| `Configuration` | store, settings panel, sidebar prompts, domain gate, host catalog with its monitor, host table of `SshClient`, `run()` | composition |
| `MCResourceCache`, `MCFileBrowsing`, `MCMediaPlayback`, `MCRichDocument`, `MCWorkspace`, `MCConfiguration` | | values and symmetry for TLC |

Each module keeps beside an operator the mutated forms ("Mutant: ...") that
show its properties can fail: replacing the operator by its mutant must make TLC
report the property. They are not used by any specification.

A proof module about two components EXTENDS both, so the second one puts its own name
before what every module has: `DownloadSpec`, `SessionNext`, `SurfacesConsistent`, `SavesInit`.

Each component module has an invariant `Consistent` (`DownloadConsistent`, `SessionConsistent`, `SurfacesConsistent`, `SavesConsistent`): its type invariant and those of its
named invariants that are checked together. They are still named, stated and commented one
by one: `QueueConsistent`, `NoLostPump`, `OutcomeAgreement` (TransferQueue);
`CancelledTransferLeavesNothing`, `FailureLeavesNothingUnnamed` (RemoteDownload);
`OneAuthentication`, `NoHiddenPrompt`, `NoStrandedStatus`, `NoDeadPanel`
(HostConnection); `OneBackend`, `PhaseHasCause`, `TimerFollowsConfig`
(ReconnectSession); `PersistedIsOnDisk`, `UnsavedIsKnown`, `CleanQuitIsSaved`,
`FoundIsKept` (WorkspacePersistence); `PartialsRemoved`, `DirectoryBounded`
(ResourceCache); `ShownIsAsked`, `PreviewIsLatest` (FileBrowsing); `OwnedStreams`,
`DisposedIsQuiet` (MediaPlayback); `AtMostTwo`, `DeniedIsAsked` (RichDocument);
`NewestIsShown` (MediaSurfaces); `SnapshotValid`, `HiddenViewsSurvive` (Workspace);
`SshKnowsCatalog`, `StartsAgain` (Configuration).

### TransferQueue

One action per method, and four steps for the end of a transfer: the worker's
promise settles (`WorkerSettles`), `run()` resumes and writes the outcome
(`RunSettles`), its `.finally()` gives the slot back (`ReleaseSlot`), the
microtask runs `pump()` (`Pump`). Cancellation may land between any two. `shown`
and `timer` are the throttled progress events; `PruneHistory` is
`pruneHistory()`, which the readers and every change of a job call. Time is a counter that
`Tick` moves. A job is an element of `Jobs`: every `enqueue()` draws a fresh id.
Listeners and subscriptions are left out, and with them a listener that throws.

`DownloadContract` is the view of a caller: a line, a set that runs, handles that
are resolved or rejected once. The refinement maps `pending` to the line and the
job statuses to the sets.

### RemoteDownload

A program counter per worker names the `await` it is suspended at. `FileJobs`
follow `downloadFile` (reserve a private partial, transfer, hard-link under the
first free numbered name, fall back to an exclusive copy, tidy), `DirJobs` follow
`downloadDirectory` (exclusive `mkdir`, marker, fill, unmark) and
`cleanupOwnedDirectory` (read the marker, rename to quarantine, scan, remove).
Each step may fail, the user may cancel at each await, `OtherCreates` and
`OtherWritesInto` are other programs. Of a file that another program puts into a
directory, the model keeps whether its name is in the manifest (`Names`), which is
all the scan of `cleanupOwnedDirectory` looks at: it refuses an unlisted name, a link,
a special file or too many entries. File content is one of absent, empty, part, whole. `abortedAt` is a history variable: where the worker was when its signal
was raised.

### HostConnection

`connect()` is suspended at four awaits (`Resolve`, `Check`, `PtyExits`,
`MasterReady`). An attempt is a number so that two attempts for a host
can exist, the one in the table and one that ends. `Cancel` and `Retry` are
the panel's buttons; `EnsureConnected` is any pane. `MasterChanges` is the world:
a ControlMaster that dies or that another program opens. `Forget` is a catalog
refresh that drops the host, after which `transition` throws. `heard` flips with
every connected event, so an action property can speak of events.

### ReconnectSession

A connection is named by its generation, as in the code. `PrerequisiteMet` and
`PrerequisiteFails` are the late answers of `beforeConnect()`, `FirstData` and
`BackendExits` the callbacks of the process, `TimerFires` the retry. `UpdateConfig`
is `SwitchedOn`, `SwitchedOff`, `Reschedule` or nothing, as the code decides from
the old and the new configuration. The delay is the one jitter is applied to.

### WorkspacePersistence

A snapshot is the number of changes it holds, so "saved" and "lost" are
comparisons. The atomic write of `core/atomic-file.ts` is two steps, `Rename` and
`SaveSucceeds`, because `chmod` after the rename may fail; a crash between them
leaves the new file. `Load`, `WriteBackup` and `WriteMigrated` are `load()` with
its migration. One legacy version stands for v1 and v2; they take the same path
and differ in the name of the backup.

### ResourceCache

A producer is named by the call that made it. `Materialize` joins or replaces the
entry in the map, `Leave` is the `abort` listener of a consumer, `Settle` is the
`finally` of `materialize` with the answers of `consume`: they are continuations
of one promise. `Look` to `Cleanup` are the awaits of `materializeOnce`;
`ReadDirectory`, `Survey` (one name at a time) and `Evict` those of `evict`, where
each value read before is a local of the producer. Any system call may fail. The
order of eviction is left out, so the model evicts in every order. What happens to
a file after it is handed out is not claimed: overlapping evictions can remove it at
once, which the code accepts. A restart leaves the temporary files of a crash
in the directory; that is not modelled.

### FileBrowsing

One pane is followed; the other panes of the host are their calls of `list()`, which
fill the shared cache. A listing is the version its directory had when rclone read it,
so "stale" is a comparison; a directory changes on the host at any moment, also while it
is read. A refresh has two listings under way, of the directory and of its parent; the
preview of a directory is a third. Any listing may fail. Snapshots have an
age that `Tick` moves, and the cache is bounded by snapshots and by entries. An aborted
call ends with "cancelled" and stores nothing, so aborting a call drops it. The cache is a Map:
storing a directory again moves its one entry to the end (`Forget`). Local panes
differ only in that they have no cache. Columns, widths and colours are layout.

### MediaPlayback

`play`, `pause` and `seek` are async methods with no queue between them, so each call is
a process (`Calls`) with a program counter and the values it read before its last await.
A pump, the loop that shows the frames of one stream, is named by the generation of the
call that started it. mpv answers its one socket in order (`mpvQueue`). ffmpeg may fail
to start or end early, mpv may fail to start or be missing, up to `MaxFailures`. The
block above hides, shows and destroys at any moment (`presented`, `resume`,
`cancelled`). `overtaken` remembers that a `play()` went on after a later call had gone
through, which the code does not notice (section 5). Volume, mute and positions are data; the
hiding of animated GIFs outside the viewport is left out.

### RichDocument

A task is one call of `activate()` by the scheduler. Scrolling picks another preload
range (`Views`); the next viewport frame (`Evaluate`) queues the blocks that entered it and
aborts those that left. Only the wheel, the scroll keys and a resize ask for such a frame: Tab, a
click on a block and leaving full screen move the view without one (`ScrollIntoView`), and a
frame that finds the scroll box without height looks at nothing (`FrameWithoutHeight`). The
history variable `missed` holds the blocks that wait for the next evaluation because of them. An aborted load still runs until it settles ("stopping"). `load()`
and "load more" are the two ways into the rendering, each with its awaits; `applyServices`
is the third actor, which starts a new generation. A block whose domain is closed asks: its
retry joins the pending entry; approving takes the entry and awaits the save. Remote
blocks share one domain. The user answers one prompt at a time.

### MediaSurfaces

Each surface keeps the newest frame and writes through a gate of its own: once a
`write` returns false, chunks queue up until `drain`. `cells` is what the terminal has in
each region, `image` the data kitty keeps for each surface. The layout moves, hides and
destroys surfaces between any two steps. `overdrawn` remembers that another surface was
drawn over one, which the code does not repair (section 5). The truecolor-cells adapter
draws into the renderer's own buffer and is left out.

### Workspace

The reducer's cases are operators on the snapshot and `Valid` is the schema with its
refinements. A layout tree is the sequence of its leaves: split directions, ratios, divider
drags and the sidebar's width are geometry. An action dispatches as the key or view does and then reconciles
the registry (`Commit`), so `ui` is what is mounted and which view, built for which
content, each pane has. Two answers arrive late: the session a picker creates
(`creating`), and the path a click in a terminal verifies (`navs`). `Starts` has a first start and those
from a stored tab of a legacy version, whose panes without a host get the tab's; a current one is a snapshot that was reached before. Overlays only take keys away and are left out.

### Configuration

A configuration is one setting, the allowed domains and the host entries. Three parties
save it: the settings panel, the sidebar's prompts, and the gate after "Allow always"; a
save is what happens between its call and the last statement that follows it ("writing",
"landed", "applying", "refreshing"), and a slot holds each one under way. The copies (`run`, `app`,
`sidebar`, `gate`) change where the code assigns them. The SSH configuration is the set of aliases
its files define; the user edits it at any time, a watcher sets the debounce timer, and a
refresh of the catalog reads, builds and synchronises in separate steps. The program
may crash and start again; starting migrates a version 1 file with a backup and refuses a
configuration with two hosts of one id.

`odd` names situations that happened and that the code does not handle (section 5);
`GateIsFile`, `CopiesAgree`, `CatalogIsCurrent` and `StartsAgain` each except the ones their
comments list, and hold in all other interleavings, with failures and crashes. Left out: labels,
paths, sessions, case folding of aliases and syntax errors; prompts are not used while the settings
panel is open, and settings are not opened over a prompt that is idle; nothing new
is opened once `MaxSaves` is used.

## 3. Runs

| Run | Bounds | States | Shows |
| --- | --- | --- | --- |
| `transfer_queue` | 3 jobs, 1 slot, history of 1, TTL 1, interval 1, 1 tick, 1 report per job | 112,751 | slot accounting, the line, no lost pump, outcomes, newest history kept, progress delivered, no job stranded, refinement of the contract |
| `remote_download` | 1 file, 1 directory, 2 candidate names | 1,256,416 | no overwrite, whole files, owned cleanup, files under names the manifest lacks kept |
| `host_connection` | 2 hosts, 3 attempts, 2 retries that wait for one attempt | 80,544 | one PTY per host, no hidden prompt, no stranded status, no dead panel, silent reuse, requests answered |
| `reconnect_session` | delays 1 and 3, cap 5, factor 2, 3 failures, 2 commands | 20,062 | one backend, phases with causes, timers that follow the configuration, clean exits, recovery |
| `workspace_persistence` | 3 changes over restarts, 2 legacy documents | 29,874 | disk and revisions agree, nothing lost in silence, legacy data kept, eventual save |
| `resource_cache` | 3 calls, 2 keys, sizes 1 and 2, limits 1 and 2, symmetric | 378,203 | shared producers with exact counts, temporary files removed, a bounded directory |
| `file_browsing` | 2 directories, cache of 2 snapshots and 2 entries, TTL 1, each directory changes once, 2 listings at once | 297,138 | list and preview of what was asked last, refreshes that see the present, a destroyed pane is silent |
| `media_playback` | autoplay and 2 overlapping calls, 5 generations, 1 failure | 33,892 | owned processes, disposal, a true status, no frame from the past, everything settles |
| `rich_document` | 3 blocks, 1 of them remote, 2 views, 3 loads, 2 renderings, queue of 2 | 749,892 | two loads at most, no block forgotten that a frame has looked at, nothing stale drawn, hidden panes cancel |
| `media_surfaces` | 2 surfaces, 2 regions, 2 frames each | 287,310 | nothing stale stays on the terminal, the newest frame gets there |
| `workspace` | 2 file and 3 terminal pane ids, 2 tabs, 2 leaves, 1 waiting session, 2 clicks, symmetric | 123,834 | valid snapshots, screen equals snapshot, hidden views survive, late answers go home |
| `configuration` | 2 aliases, 1 domain, 2 overlapping saves, 2 outside events, symmetric | 3.2 million | copies, gate and file agree, catalog and SSH client are current, the program starts again |

Why these bounds are enough for the cases of interest. In the queue, two jobs wait
while one runs and a history of one makes every second finish prune; equal finish times occur because the
clock has few values. Several slots are what the theorems of section 4 cover: they
hold for every concurrency. A file and a directory collide on a name, and the last
candidate is reached, with two names. Two hosts are needed for the shared panel, and three
attempts let one host be retried while the other prompts. Three failures pass the initial delay,
grow it and meet the cap. Two legacy documents are the fewest that differ from
each other at the state path and the backup path. Three calls let one producer be
aborted, replaced and joined, or two keys be evicted against each other while a third
call waits. A directory and its parent are what a refresh lists, two snapshots or
entries fill the cache, and two listings race. A call, a second that overtakes it and
the autoplay are the three that meet in a playback; each takes a generation, and the
first stream may fail to open. A `play()` is first overtaken at
seven generations (859,646 states without failures, too many for liveness), so within the run's bounds `PlayingIsLive` and
`NoFrameFromThePast` are checked without the exception they make for it; the theorems of section 4 hold beyond. Three blocks are one more than may load. Two surfaces
exchange their regions, and a second frame follows one that is held back. Two leaves
make a split, two tabs a switch, and the third terminal id is the pane a late session
needs. Two savers overlap, and one alias is the other's new name.

`MaxTime`, `MaxReports`, `LastIndex` (10,000 in the code), `MaxAttempts`, `MaxWaiting`,
`MaxFailures`, `MaxCommands`, `MaxRevision`, `MaxVersion`, `MaxCalls`, `MaxGeneration`,
`MaxLoads`, `MaxQueue`, `MaxFrame`, `MaxLeaves`, `MaxClicks`, `MaxSaves` and `MaxEvents` are
bounds for TLC; all are named constants.

Deadlock is checked in `transfer_queue` and `workspace_persistence`. The other systems
really end: downloads that are over, attempts, commands, calls, frames and saves
that are used up, panes and blocks that are destroyed, a configuration refused at start.

### Fairness

* Microtasks and promise continuations run (`Pump`, `RunSettles`, `ReleaseSlot`,
  `RetryResumes`, `WorkerEnds`, `FlushReturns`): the event loop empties its queue.
* Timers fire (`TimerFires`, `SaveTimerFires`).
* Calls with a timeout return (`Resolve`, `Check`, `MasterReady`), and a killed
  PTY exits.
* File-system calls of a save return, successfully or not.
* In `ReconnectSession`, the prompt behind `beforeConnect()` is answered and a
  live ssh speaks or exits: that is the assumption under which `Recovers` means
  anything.
* In `MediaPlayback`, each step of a call, of the initialisation, of the disposal and of a
  pump follows; mpv answers within its timeout, and an ffmpeg that was told to go exits.

Nothing is assumed of users, of the moment a transfer ends (it has no timeout:
`EventuallyServed` states that assumption itself), of a prompt that waits, of other
programs, or of the clock. The runs not named here check safety only.

## 4. Proofs

TLAPS checks eight modules, about the twelve specifications of section 2 that a run checks. Each theorem
holds for every value of the constants, under the assumptions its specification declares (TLC
evaluates them on every run): no number of jobs, hosts, panes, calls, sizes or limits is fixed. All safety
properties that the runs check, invariants and action properties alike, are theorems; what is
left are the liveness properties.

All proofs have one shape. No property is inductive alone, so `IInv`, stated before the lemmas that keep it, adds
what the code relies on silently; its conjuncts are commented there. A lemma for each action (or for
each helper that several actions share) shows that the step keeps `IInv`, `Inductive`
puts them together as `Spec => []IInv`, and the theorems of the table follow from it.
`IInv` has been checked by TLC on the component's run before its proof. In the second component of a
module the names are `DownloadIInv`, `SessionIInv`, `SurfacesIInv`, `SavesIInv`.

| Module | Theorems | Property of the run | Assumptions |
| --- | --- | --- | --- |
| `TransfersProofs` | `QueueIsConsistent` (and its parts `TypeCorrect`, `SlotsAreCounted`, `LineIsConsistent`, `PumpIsNeverLost`, `OutcomesAgree`) | `Consistent`, `SlotAccounting` | `ConcurrencyAssumption`, `HistoryAssumption`, `BoundsAssumption` |
| | `ProgressIsDelivered` | `ProgressDelivered` | |
| | `HistoryIsNewest` | `HistoryKeepsNewest` | |
| | `QueueImplementsContract` | `ImplementsContract` | |
| | `NothingIsOverwritten` | `NeverOverwrites` | `JobsAssumption`, `LastIndexAssumption` |
| | `WholeOrNothing` | `PublishedWhole` | |
| | `FailureIsClean` | `DownloadConsistent` | |
| | `RemovalSparesUnlistedFiles` | `UnlistedFilesKept` | |
| `ConnectionProofs` | `OnePromptInSight` | `Consistent` | `BoundsAssumption`, `NoneAssumption` |
| | `HealthyMasterIsSilent` | `SilentReuse` | |
| | `SessionIsConsistent` (and its parts `OneBackendRuns`, `PhasesHaveCauses`) | `SessionConsistent` | `NumbersAssumption`, `PowersAssumption`, `AbsentAssumption` |
| | `CleanExitIsFinal` | `CleanExitStays` | |
| `WorkspaceProofs` | `SnapshotCanBeLoaded` | `Consistent` | `WorkspaceAssumption` |
| | `ScreenShowsTheSnapshot` | `ScreenIsSnapshot` | |
| | `PathsAreRevealedAtHome` | `NavigationGoesHome` | |
| | `DiskAndMemoryAgree` | `SavesConsistent` | `RevisionAssumption`, `DocumentsAssumption` |
| `ResourceCacheProofs` | `ProducersAreShared` | `SharedWhileWanted` | `LimitsAssumption`, `SizesAssumption`, `NoneAssumption`, `FiniteAssumption` |
| | `DirectoryIsBounded` | `Consistent` | |
| `FileBrowsingProofs` | `PaneShowsWhatWasAsked` | `Consistent` | `BrowsingAssumption` |
| | `RefreshShowsWhatIsThere` | `ForcedIsFresh` | |
| | `DestroyedPaneIsSilent` | `DestroyedIsSilent` | |
| `MediaPlaybackProofs` | `StreamsAreOwned` | `Consistent` | `PlaybackAssumption` |
| | `PlayingHasAPump` | `PlayingIsLive` | |
| | `FramesGoForward` | `NoFrameFromThePast` | |
| `RichDocumentProofs` | `TwoLoadsAndEveryQuestionKept` | `Consistent` | `RichDocumentAssumption` |
| | `HiddenPaneLoadsNothing` | `HiddenIsCancelled` | |
| | `OldSettingsAreNotRendered` | `OnlyCurrentIsRendered` | |
| | `NearBlocksAreScheduled` | `NearIsScheduled` | |
| | `NewestFrameGetsThrough` | `SurfacesConsistent` | `MediaSurfacesAssumption` |
| | `NothingStaleStays` | `NothingStaleShown` | |
| `ConfigurationProofs` | `ConfigurationsStartAgain` | `Consistent` | `ConfigurationAssumption`, `NoneAssumption` |
| | `GateShowsTheFile` | `GateIsFile` | |
| | `NoSaveUndoesAnother` | `CopiesAgree` | |
| | `NoChangeOfTheHostsIsLost` | `CatalogIsCurrent` | |

The assumptions say that numbers are numbers, that limits the code keeps positive are positive, and that
placeholders (`None`, `Absent`, `Out`, `Invalid`, `Torn`) are not values. Two deserve a word: `PowersAssumption`
states that a positive number to a natural power is one, a fact of arithmetic that the
provers, which know no exponentiation, cannot derive; `FiniteAssumption` says that only so many
calls were made. The bounds named in section 3 appear in the models' guards and are arbitrary naturals in
the proofs.

### What each invariant adds

*TransferQueue.* The counter is exact because a slot is held from `Pump`
to `ReleaseSlot`. `Pump` may add as many slots as it starts jobs only if the
line has no duplicates and no waiting job holds a slot already; the second fact
needs the tie between `status` and `worker` (`StatusMatchesWorker`), which in turn is
what `OutcomeAgreement` needs when a late cancellation meets a worker that has
settled. The holders must be finite to be counted; `Jobs` need not be.
A report is delivered because `pruneHistory()` spares live jobs. The history keeps
the newest because jobs are numbered in the order of their creation, so that the
order in which they are dropped is total. For the refinement, the initial states map to
initial states of `DownloadContract`, and each action to one of its steps or to a stutter:
`Pump`, which may start several jobs at once, to `Start(n)`, and the settling of a
worker or the giving back of its slot to nothing.

*RemoteDownload.* `FileStage` and `DirStage` say, for each `await`, where the partial, the
marker and the destination are, and what the result will be worth. `EarlyAbortStops`
says that a worker cancelled before its transfer answered never gets past it, which is why a
cancelled transfer leaves nothing. That a directory is searched only in the quarantine, where no
other program puts files, is why its removal spares those under names the manifest lacks; the
others are not spared (section 5, item 1).

*HostConnection.* `TableIsExact`: the table of attempts holds exactly the attempts that run.
`LocalIsTrue`: the value `connect()` read before its awaits (`wasConnected`) still agrees with
the status when it is used, because no retry of an older attempt is left that could change it;
without it neither the silence of a reuse nor the status of an ended attempt can be
shown. `PanelOfAttempt` ties the one panel to the attempt whose prompt it shows.

*ReconnectSession.* `OneCause`: timer, awaited answer and backend exclude each other, and the
phase tells whether one of them is there. `GenerationsPaid` and `AttemptsPaid` count: every generation
was paid for by `start()`, a failure, a command or `stop()`. `BackendIsCurrent`: the process that runs is of
the newest generation and the one attached.

*WorkspacePersistence.* `DiskIsBetween`: the disk is not behind what counts as persisted
and not ahead of the workspace. `SaveIsNeeded` and `ErrorIsUnsaved` say what a save in
flight and an error stand for; `LegacyIsUntouched` and `BackupOfFound` follow a document
of an older schema through crashes between the steps of its migration.

*Workspace.* `Scene` says of the state between two steps what the properties say: the snapshot is valid
(`Good`), the screen shows it (`Drawn`), no view was lost. The work is inside a step, where a handler dispatches up
to three times and the screen is drawn after each. `Whole` is what each dispatch keeps: valid and drawn, and
each view of the start of the step whose pane stays is there, not built again. Only the update of a pane may give
a view another content; it comes last (`Complete`). An action that is not structural leaves all
layouts mounted, which is right only if it moves no leaf (`SameLeaves`), and one that adds panes must draw
ids that no view has (`Adds`). A rebuild mounts the layouts that were mounted; it
is enough because the pane that was updated is always on screen (`RebuiltFits`, `RenderedDraws`).
`OneLatest`, that only the last click counts, is what brings a verified path home.

*ResourceCache.* `ProducersAreKnown` ties each consumer to its producer, whose `consumers` is the
number of those that wait. `DirectoryIsCounted` is what the bound rests on: the directory is within its
limit, or the eviction that follows the last published file has still to look at everything there. Its sums
over finite sets need induction. The theorem that gives it takes an operator parameter, so the module
proves the first-order case (`SubsetInduction`) from the least counterexample: the strict subsets
of a finite set are well founded, and a family without a smallest failure has none.

*FileBrowsing.* A refresh is one record of answers and at most two calls. `RefreshIsLoading`,
`CurrentIsMissing` and `OneCallEach` say that every listing under way for it belongs to the
refresh of the present path, so that a late answer cannot complete another; `PressedBefore`
carries the version of the key press through the shared cache, which holds a directory once.

*MediaPlayback.* `CallHasGeneration`: each call in flight has a generation of its own, with no pump
yet. `StreamIsNewest`: the controller's stream is that of the newest generation.
`OnePumpShows`: at most one pump may still show a frame, and every later call is waiting for its stream
to end. The last is what an overtaken `play()` breaks (section 5, item 7); it holds
until then.

*RichDocument.* `QueuedIsListed`: the queue names the blocks whose status is "queued", so that a pump takes
each waiting block comes to its turn. The pump is a fold over the queue: that it is defined (`TableExists`) and that what each of its
steps keeps holds of its result (`PrefixesKeep`) follow from `Counting`, which is induction stated for a set of numbers.
`NearIsScheduled` needs that a hidden pane has no work (`HiddenRests`) and that each status of a task allows
only certain blocks (`TaskHasBlock`); without the latter, the end of a load that was aborted could leave a block
that neither asks nor loads. It speaks of the blocks in the range that are not in `missed`: a move of the view that
no frame follows adds to `missed` what it brings in, so the theorem says that nothing is forgotten once a frame
has looked (section 5, item 8, for the rest). `SavingIsPending` is what "dropped" (section 5, item 8) breaks.

*MediaSurfaces.* `HeldBack`: a gate that is full holds back one teardown at most, and its surface has drawn
nothing since. `Placed`, `KittyImages` and `ItermImages` say of each cell and each image of the terminal
which surface answers for it; two surfaces that change places need that what is drawn over is marked (`overdrawn`) in
the same step.

*Configuration.* Each of the properties has an invariant that follows it through the steps of a save.
`GateFollows` and `CopiesFollow` say how far each party's copy is behind, for each point a save can be at
("writing", "landed", "applying", "refreshing"); `Settled` and `KeepsHosts` say what a save under way will leave.
`CatalogFollows`: what a refresh has read is the present state of the files, or the timer runs that will read again.
`StartsFollow` carries what makes a file acceptable, `EntryIdsUnique` and that no id is `Reclaimed`, through the prompts:
the entry a prompt is about to write is good for the hosts that were known when it was opened, and these are the
hosts of the file still. The proof found that this fails when a prompt is answered for a host that has
changed meanwhile, or when the alias a host was remapped from comes back: `StartsAgain` excepts both
("outdated", "reclaimed"; section 5, item 14).

### What is left to TLC

* Liveness under fairness (`EventuallyServed`, `EventuallySaved`, `Recovers`, `RequestsAnswered`,
  `EverythingSettles`): TLAPS has neither ENABLED nor the rules for fairness.
* Induction over data in general: the library's induction theorems take an operator parameter that the
  installed provers cannot instantiate. The least-counterexample arguments of `ResourceCacheProofs` and
  `RichDocumentProofs` are the first-order cases these proofs need.

## 5. Known divergences

Sentences of the documentation or of the program's own messages that do not hold of what
the code does. The named properties are stated in their modules, with a comment that refers
to this section, and checked by no run: TLC finds a counterexample to each when it is given as an
invariant or property of the module's configuration.

Downloads and connections

1. `FailedDirectoryIsNamed` (RemoteDownload): the ownership marker is written before the
   `try` whose `catch` cleans up, and cleanup's own system calls may fail. A
   directory then stays that the error does not name
   (docs/troubleshooting.md:158-160). `ForeignFilesKept`: the scan before the removal compares
   names, so a regular file of another program under a name of the manifest is taken for the
   download's own and removed with the rest (`remote-download-service.ts:373-381`). The marker
   and the manifest do not prove that a removal is safe, as the same lines and
   docs/architecture.md:189 say.
2. `CancelEndsPrompt` (HostConnection): `connect()` does not look at `attempt.cancelled`
   between `ssh -O check` and `spawnMaster`, so a Cancel during the check closes
   the panel and the prompt opens again (docs/troubleshooting.md:111-112).
3. `PanelShowsOwnError` (HostConnection): an error of one host is written on the panel of
   another; only `closeAuthentication` compares the host (docs/architecture.md:338).

Persistence

4. `LegacyHasBackup` (WorkspacePersistence): a backup is written only when none exists, so
   a legacy document put back later is replaced without one (docs/troubleshooting.md:318-319).
5. `ReturnedStays` (WorkspacePersistence): Esc during a retry closes the quit dialog but the
   retry in flight still quits when its flush succeeds (`workspace-app.ts:1784`).

Files, documents and media

6. `RefreshIsNotLost` (FileBrowsing): a refresh forces its listing, but a page change or
   a search before its answer aborts it and lists from the cache
   (`file-browser-renderable.ts:411-412`, `rclone-sftp.ts:132-137`;
   docs/architecture.md:212). What is shown can then be older than the key press. A listing that
   started before a refresh and ends after it also overwrites the newer snapshot in the cache (135-137).
7. `HiddenIsQuiet` (MediaPlayback): hiding a block pauses only what plays: while a `play()` is still at one
   of its awaits, `pause()` returns early (`playback-controller.ts:132-146`) and the video
   plays on behind another pane (docs/architecture.md:313). In the same code, overlapping seeks may show the older frame
   last, and a failed answer of mpv in `pause()` leaves the status as it was. `play()` does
   not look at its generation again after it has waited for the old stream to end or for mpv
   (118-130): one that a later call has overtaken meanwhile then writes "playing" over what that
   call has done, its pump shows a frame or none, and the status stays "playing" with
   nothing that plays. It takes several overlapping calls and two processes slow to exit (`overtaken` in
   MediaPlayback, excepted in `PlayingIsLive` and `NoFrameFromThePast`).
8. Documents: `SelectedIsScheduled` (RichDocument): `selectRelativeMedia`, `selectMediaBlock` and
   `restoreFullscreenMedia` scroll with `scrollChildIntoView` (`rich-document-renderable.ts:1049`, 1059,
   1123) and call neither `scheduleViewportEvaluation` nor `persistScroll`: a block they bring into range
   stays idle until the next scroll, resize or show (docs/architecture.md:313). Approving a domain deletes the pending entry by its key, so an entry that
   replaced it under new settings is dropped too (`rich-document-renderable.ts:884`;
   `dropped` in RichDocument, excepted in `DeniedIsAsked`); two presses of "load more" before the
   first has ended render twice (428-483); a block that leaves and re-enters the range is
   queued twice, which is harmless.
9. Surfaces: with iTerm2, a teardown held back by its gate clears cells that another surface
   has drawn meanwhile, and a surface that leaves and comes back while its gate is
   blocked is not painted again (docs/terminal-compatibility.md:40-46; `overdrawn` in
   MediaSurfaces, excepted in `NewestIsShown`).

Workspace

10. `TerminalsAreKept` (Workspace): attaching a session or opening a raw shell replaces the pane the
    call was made from, also when that pane holds a terminal by then
    (`workspace-app.ts:357-414`; docs/architecture.md:260).
11. A divider drag that ends after its split is gone throws (`workspace-app.ts:961-970`).

Configuration

12. "Allow always" writes the file but not the application's and the sidebar's copies: the
    next save from either revokes it (docs/configuration.md:129-132). Two at
    once: each writes the set it read, and the slower one wins. A persist that fails leaves
    the domain in the configuration `run()` holds.
13. A save from a stale draft undoes the save it overlapped; edits made in the settings panel while
    it saves are dropped (`settings-renderable.ts:112-116`, 240-244, 471); the form for
    metadata closes whatever modal is open when its save ends (`sidebar-renderable.ts:515-517`).
14. Refreshes of the catalog that overlap may leave the older one; a host added under it may
    repeat an alias. A remapped host keeps the id of its old alias; when that
    comes back two hosts share an id, `syncHosts` throws, and at the next start TermLoom
    refuses to run (`client.ts:60-66`, `run.ts:84-85`; docs/architecture.md:338). A prompt keeps the
    profile it was opened with (`sidebar-renderable.ts`): when the catalog changes before it is submitted, the entry it writes
    may share an id with another, with the same effect.
15. An edit of the SSH files between `HostCatalog.create` and the watchers is not
    noticed, and a debounced refresh joins one that has already read the file
    (`host-catalog.ts:165`).
16. `chmod` after the rename may fail (`core/atomic-file.ts`): the save is reported as failed although
    the file has changed.

Items 12 to 15 are the situations that `odd` records in Configuration, or the exceptions its
properties state; `chmod` is not a step of that module.

## 6. What is not modelled, and why

* Command lines, escape sequences, markup, layout, colours and wording are data without a
  protocol. Of selection and full screen in a document only the moves of the view are modelled.
* The tmux service and the file providers issue stateless commands and answers; their
  answers are inputs of `Workspace`, `FileBrowsing` and `RichDocument`.
* Document parsing, the vendored math layout and the native image converter are pure
  functions.
* The doctor, the i18n catalog, messages and errors are one-shot or wording; the
  command bus is a registry of callbacks; the transfers view shows the queue.
* The native math renderer serves one framed request at a time over a pipe; its one fault is
  that a dead helper is not restarted (`native-math-renderer.ts:82`).
* The probe scripts under `src/scripts` drive the program in real terminals and are not part of it.
* `native-markdown-document-renderable.ts`, `static-png-surface-renderable.ts` and `native-renderer.ts`
  are not used by the program.
* The statuses that the host catalog keeps, and an alias that changes under a resolution
  (`host-catalog.ts:88`, `client.ts:94`), need the composition planned below.

## 7. Plan

Done, in order of importance: the queue with its contract and proofs; the file
protocol of downloads; authentication; reconnection; persistence; the resource
cache; file browsing with the shared directory cache; documents with lazy media and
permissions; playback; surfaces; the workspace's reducer with its views; the
configuration with the catalog built from it. Next:

1. A composition of `HostConnection` with two reconnect sessions (panels that
   evict each other, `workspace-app.ts:1445`) and with the catalog (statuses, alias changes under
   `resolveHost`).
2. `MathHelper`: the framed pipe of the native renderer, with cancelled requests, bad
   frames and a helper that dies.

The modules use no RECURSIVE operator so that they can be proved about as they stand.
