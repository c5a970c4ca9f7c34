---------------------------- MODULE Configuration ----------------------------
(***************************************************************************)
(* TermLoom's configuration: one TOML file and the copies of it that the   *)
(* running program keeps, namely run()'s `config` (which also feeds the    *)
(* host monitor), WorkspaceApp.config (which opens the settings panel),    *)
(* SidebarRenderable.config (which every host prompt edits) and the set    *)
(* of domains DomainPermissionGate allows for good.  Three parties write   *)
(* the file: the settings panel, the sidebar's prompts, and a document's   *)
(* "Allow always".  From the configuration and the user's SSH config the   *)
(* host catalog is built, and from the catalog the hosts SshClient knows.  *)
(*                                                                         *)
(* Abstractions.  A configuration is one setting, the allowed domains and  *)
(* the host entries; of an entry, label, path and session are left out.    *)
(* stableHostId(alias), a hash of the alias, is the alias itself.  An SSH  *)
(* config is the set of literal aliases its files define; parse errors,    *)
(* include cycles and case folding are left out.  A save is what happens   *)
(* between its call and the last statement that follows it: the temporary  *)
(* file is renamed ("landed"), the caller resumes, the panes reload        *)
(* ("applying"), and for a prompt the catalog is refreshed ("refreshing"). *)
(*                                                                         *)
(* Bounds: Slots saves at a time, MaxSaves in all, and MaxEvents crashes,  *)
(* edits of the SSH config and refreshes the user asks for, in all.        *)
(***************************************************************************)
EXTENDS Naturals, Sequences, FiniteSets

CONSTANTS Aliases,      \* the SSH aliases there are
          Domains,      \* the HTTP domains documents ask for
          Slots,        \* the saves that may be under way at once
          MaxSaves,     \* the saves of a behaviour
          MaxEvents,    \* its crashes, edits of the SSH config and asked-for refreshes
          None

ASSUME ConfigurationAssumption ==
    /\ IsFiniteSet(Aliases) /\ IsFiniteSet(Domains)
    /\ {MaxSaves, MaxEvents} \subseteq Nat

VARIABLES
  phase,        \* "start", "opening" (no watcher yet), "running", "refused"
  file,         \* [version, backup, config]: the file on disk, and <file>.v1.bak
  sshConfig,    \* the aliases the SSH config files define now
  run,          \* run(): let config
  app,          \* WorkspaceApp.config
  sidebar,      \* SidebarRenderable.config
  gate,         \* DomainPermissionGate.persisted
  saves,        \* slot -> the save under way, or None
  panel,        \* SettingsRenderable: [original, draft, asked, slot], or None
  modal,        \* SidebarRenderable.modal: [kind, profile, slot], or None
  catalog,      \* HostCatalog.snapshotValue.profiles
  ssh,          \* SshClient.configuredHosts
  timer,        \* HostCatalogMonitor.timer is set
  refreshes,    \* "monitor" (refreshing) and "key" -> [hosts, seen], or None
  used,         \* [saves, events]: how much of the bounds is used up
  odd           \* history: the names of the unusual things that happened

memory == <<run, app, sidebar, gate, saves, panel, modal, catalog, ssh, timer, refreshes>>
vars == <<phase, file, sshConfig, memory, used, odd>>

-----------------------------------------------------------------------------
(* Configurations and the catalog that is built from one. *)

Entries == [id : Aliases, alias : Aliases, manual : BOOLEAN, hidden : BOOLEAN]
Sources == {"ssh-config", "manual", "missing"}
Profiles == [id : Aliases, alias : Aliases, source : Sources, hidden : BOOLEAN]

Configs == [setting : BOOLEAN, domains : SUBSET Domains, hosts : Seq(Entries)]

\* The saves, the panel, the prompts and the reads of the SSH config under way.
Saves == [by : {"panel", "prompt", "form", "permission"}, next : Configs,
          at : {"writing", "landed", "applying", "refreshing"}, seen : SUBSET SUBSET Aliases]
Panels == [original : Configs, draft : Configs, asked : BOOLEAN, slot : Slots \cup {None}]
Modals == [kind : {"add", "remap", "edit", "hide"}, profile : Profiles \cup {None},
           slot : Slots \cup {None}]
Discoveries == [hosts : Seq(Entries), seen : SUBSET SUBSET Aliases]

ASSUME NoneAssumption ==
    /\ None \notin Slots
    /\ None \notin Profiles /\ None \notin Saves /\ None \notin Panels
    /\ None \notin Modals /\ None \notin Discoveries

DefaultConfig == [setting |-> FALSE, domains |-> {}, hosts |-> <<>>]

\* The first entry of each alias counts: buildHostCatalog reports the others.
Metadata(hosts) ==
    {hosts[i] : i \in {k \in DOMAIN hosts : \A j \in 1 .. k - 1 : hosts[j].alias # hosts[k].alias}}

Discovered(hosts, alias) ==
    LET known == {h \in Metadata(hosts) : h.alias = alias}
    IN  [id |-> IF known = {} THEN alias ELSE (CHOOSE h \in known : TRUE).id,
         alias |-> alias, source |-> "ssh-config",
         hidden |-> \E h \in known : h.hidden]

Configured(h) ==
    [id |-> h.id, alias |-> h.alias, hidden |-> h.hidden,
     source |-> IF h.manual THEN "manual" ELSE "missing"]

BuildHostCatalog(hosts, seen) ==
    {Discovered(hosts, a) : a \in seen}
      \cup {Configured(h) : h \in {m \in Metadata(hosts) : m.alias \notin seen}}

MetadataForProfile(p) ==
    [id |-> p.id, alias |-> p.alias, manual |-> p.source = "manual", hidden |-> p.hidden]

\* SshClient.syncHosts: a missing host is not known, and two hosts of one id throw.
Known(profiles) == {[id |-> p.id, alias |-> p.alias] : p \in {q \in profiles : q.source # "missing"}}
UniqueIds(hosts) == \A h, k \in hosts : h.id = k.id => h = k

\* Mutant: syncHosts never forgets a host.
SyncHostsKeeps(profiles) == ssh \cup Known(profiles)

SyncHosts(profiles) == IF UniqueIds(Known(profiles)) THEN Known(profiles) ELSE ssh

EntryIdsUnique(hosts) == \A i, j \in DOMAIN hosts : hosts[i].id = hosts[j].id => i = j

\* A remapped host keeps the id of its old alias: another host claims that id when
\* the alias comes back, in the SSH config files or by hand.
Reclaimed(hosts, seen) ==
    \E i \in DOMAIN hosts :
        /\ hosts[i].id # hosts[i].alias
        /\ hosts[i].id \in seen \cup {hosts[j].alias : j \in DOMAIN hosts}

-----------------------------------------------------------------------------
(* What each of the sidebar's prompts makes of the configuration. *)

AddAlias(hosts, alias) ==
    Append(hosts, [id |-> alias, alias |-> alias, manual |-> TRUE, hidden |-> FALSE])

\* The entry replaces the first of `places`, or is appended.
PutAt(hosts, places, entry) ==
    IF places = {} THEN Append(hosts, entry)
    ELSE [hosts EXCEPT ![CHOOSE i \in places : \A j \in places : i <= j] = entry]

UpsertHostMetadata(hosts, profile) ==
    PutAt(hosts, {i \in DOMAIN hosts : hosts[i].alias = profile.alias}, MetadataForProfile(profile))

\* The entries without those of the given ids.
Without(hosts, ids) ==
    LET kept == {i \in DOMAIN hosts : hosts[i].id \notin ids}
    IN  [k \in 1 .. Cardinality(kept) |->
            hosts[CHOOSE i \in kept : Cardinality(kept \cap 1 .. i) = k]]

RemapAlias(hosts, profile, alias) ==
    LET duplicates == {p \in catalog : p.id # profile.id /\ p.alias = alias}
        kept == Without(hosts, {p.id : p \in duplicates})
    IN  PutAt(kept, {i \in DOMAIN kept : kept[i].id = profile.id},
              [id |-> profile.id, alias |-> alias, manual |-> TRUE, hidden |-> FALSE])

RemoveAlias(hosts, profile) == Without(hosts, {profile.id})

\* The configurations that confirming the prompt m may ask to be saved.
Submissions(m) ==
    LET hosts == sidebar.hosts IN
    {[sidebar EXCEPT !.hosts = new] : new \in
        CASE m.kind = "add" ->
               {AddAlias(hosts, a) : a \in {b \in Aliases : \A p \in catalog : p.alias # b}}
          [] m.kind = "remap" -> {RemapAlias(hosts, m.profile, a) : a \in Aliases}
          [] m.kind = "edit" -> {UpsertHostMetadata(hosts, m.profile)}
          [] m.kind = "hide" ->
               {IF m.profile.source = "manual" THEN RemoveAlias(hosts, m.profile)
                ELSE UpsertHostMetadata(hosts, [m.profile EXCEPT !.hidden = TRUE])}}

-----------------------------------------------------------------------------
(* Start-up and crashes. *)

NoSaves == [s \in Slots |-> None]
NoRefreshes == [r \in {"monitor", "key"} |-> None]

Init ==
    /\ phase = "start"
    /\ file = [version |-> 1, backup |-> FALSE, config |-> DefaultConfig]
    /\ sshConfig \in SUBSET Aliases
    /\ run = DefaultConfig /\ app = DefaultConfig /\ sidebar = DefaultConfig
    /\ gate = {} /\ saves = NoSaves /\ panel = None /\ modal = None
    /\ catalog = {} /\ ssh = {} /\ timer = FALSE /\ refreshes = NoRefreshes
    /\ used = [saves |-> 0, events |-> 0]
    /\ odd = {}

\* ConfigStore.persistMigration: the original is copied before it is replaced.
BackUp ==
    /\ phase = "start" /\ file.version = 1 /\ ~file.backup
    /\ file' = [file EXCEPT !.backup = TRUE]
    /\ UNCHANGED <<phase, sshConfig, memory, used, odd>>

Migrate ==
    /\ phase = "start" /\ file.version = 1 /\ file.backup
    /\ file' = [file EXCEPT !.version = 2]
    /\ UNCHANGED <<phase, sshConfig, memory, used, odd>>

\* run(): load, HostCatalog.create, SshClient.create and syncHosts, which
\* both throw when two hosts share an id.  The watchers are set up later.
Load ==
    /\ phase = "start" /\ file.version = 2
    /\ run' = file.config /\ app' = file.config /\ sidebar' = file.config
    /\ gate' = file.config.domains
    /\ catalog' = BuildHostCatalog(file.config.hosts, sshConfig)
    /\ ssh' = Known(catalog')
    /\ phase' = IF EntryIdsUnique(file.config.hosts) /\ UniqueIds(ssh') THEN "opening" ELSE "refused"
    /\ UNCHANGED <<file, sshConfig, saves, panel, modal, timer, refreshes, used, odd>>

Open ==
    /\ phase = "opening" /\ phase' = "running"
    /\ UNCHANGED <<file, sshConfig, memory, used, odd>>

\* The process dies and is started again: only the files survive.
Crash ==
    /\ phase # "refused" /\ used.events < MaxEvents
    /\ phase' = "start"
    /\ saves' = NoSaves /\ panel' = None /\ modal' = None
    /\ timer' = FALSE /\ refreshes' = NoRefreshes
    /\ used' = [used EXCEPT !.events = @ + 1]
    /\ run' = DefaultConfig /\ app' = DefaultConfig /\ sidebar' = DefaultConfig
    /\ gate' = {} /\ catalog' = {} /\ ssh' = {}
    /\ UNCHANGED <<file, sshConfig, odd>>

-----------------------------------------------------------------------------
(* A save, from its call to its end. *)

Busy == \E s \in Slots : saves[s] # None
Free(s) == saves[s] = None /\ \A t \in Slots : t < s => saves[t] # None

\* The save starts in slot s; `unusual` says what is odd about it, and a save is
\* stale too when it is composed while another one is under way.
Begin(s, by, next, unusual) ==
    /\ phase = "running" /\ Free(s) /\ used.saves < MaxSaves
    /\ saves' = [saves EXCEPT ![s] = [by |-> by, next |-> next, at |-> "writing", seen |-> {}]]
    /\ used' = [used EXCEPT !.saves = @ + 1]
    /\ odd' = odd \cup unusual \cup (IF Busy THEN {"stale"} ELSE {})

Claims(hosts, seen) == IF Reclaimed(hosts, seen) THEN {"reclaimed"} ELSE {}

\* atomicWriteUtf8: the rename.
Land(s) ==
    /\ saves[s] # None /\ saves[s].at = "writing"
    /\ file' = [file EXCEPT !.config = saves[s].next]
    /\ saves' = [saves EXCEPT ![s].at = "landed"]
    /\ odd' = odd \cup {"swapped" : t \in {u \in Slots : saves[u] # None /\ saves[u].at = "landed"}}
                   \cup Claims(saves[s].next.hosts, sshConfig)
    /\ UNCHANGED <<phase, sshConfig, run, app, sidebar, gate, panel, modal,
                   catalog, ssh, timer, refreshes, used>>

PanelEnds(s) == panel # None /\ panel.slot = s
ModalEnds(s) == modal # None /\ modal.slot = s

\* The write fails: each caller reports it and leaves its copy alone.
Fail(s) ==
    /\ saves[s] # None /\ saves[s].at = "writing"
    /\ saves' = [saves EXCEPT ![s] = None]
    /\ panel' = IF PanelEnds(s) THEN [panel EXCEPT !.slot = None] ELSE panel
    /\ modal' = IF ModalEnds(s) THEN [modal EXCEPT !.slot = None] ELSE modal
    /\ UNCHANGED <<phase, file, sshConfig, run, app, sidebar, gate,
                   catalog, ssh, timer, refreshes, used, odd>>

\* Mutants: the gate, or the sidebar, keeps its own copy.
AdoptNoGate(next) == run' = next /\ app' = next /\ sidebar' = next /\ gate' = gate
AdoptNoSidebar(next) == run' = next /\ app' = next /\ sidebar' = sidebar /\ gate' = next.domains

\* The copies that WorkspaceApp.saveConfig and run()'s saveConfig replace.
Adopt(next) ==
    /\ run' = next /\ app' = next
    /\ sidebar' = next            \* sidebarView.setConfig
    /\ gate' = next.domains       \* replacePersistedDomains

Resume(s) ==
    /\ saves[s] # None /\ saves[s].at = "landed"
    /\ IF saves[s].by = "permission"
         THEN /\ gate' = saves[s].next.domains
              /\ saves' = [saves EXCEPT ![s] = None]
              /\ UNCHANGED <<run, app, sidebar>>
         ELSE /\ Adopt(saves[s].next)
              /\ saves' = [saves EXCEPT ![s].at = "applying"]
    /\ UNCHANGED <<phase, file, sshConfig, panel, modal, catalog, ssh, timer, refreshes, used, odd>>

\* PaneRegistry.applyRuntimeConfig has reloaded the previews.
ApplyPanel(s) ==
    /\ saves[s] # None /\ saves[s].at = "applying" /\ saves[s].by = "panel"
    /\ saves' = [saves EXCEPT ![s] = None]
    /\ panel' = IF PanelEnds(s)
                THEN [panel EXCEPT !.original = saves[s].next, !.draft = saves[s].next, !.slot = None]
                ELSE panel
    /\ UNCHANGED <<phase, file, sshConfig, run, app, sidebar, gate, modal,
                   catalog, ssh, timer, refreshes, used, odd>>

Refreshing == \/ \E r \in DOMAIN refreshes : refreshes[r] # None
              \/ \E s \in Slots : saves[s] # None /\ saves[s].at = "refreshing"
Crossing == IF Refreshing THEN {"crossed"} ELSE {}

ApplyPrompt(s) ==
    /\ saves[s] # None /\ saves[s].at = "applying" /\ saves[s].by \in {"prompt", "form"}
    /\ sidebar' = saves[s].next
    /\ saves' = [saves EXCEPT ![s].at = "refreshing", ![s].seen = {sshConfig}]
    /\ odd' = odd \cup Crossing
    /\ UNCHANGED <<phase, file, sshConfig, run, app, gate, panel, modal,
                   catalog, ssh, timer, refreshes, used>>

\* catalog.refresh and onCatalogChange; the metadata form then closes whatever
\* modal is open, a prompt only its own.
RefreshPrompt(s) ==
    /\ saves[s] # None /\ saves[s].at = "refreshing"
    /\ \E seen \in saves[s].seen : catalog' = BuildHostCatalog(saves[s].next.hosts, seen)
    /\ ssh' = SyncHosts(catalog')
    /\ saves' = [saves EXCEPT ![s] = None]
    /\ modal' = IF UniqueIds(Known(catalog')) /\ (ModalEnds(s) \/ saves[s].by = "form") THEN None
                ELSE IF ModalEnds(s) THEN [modal EXCEPT !.slot = None] ELSE modal
    /\ UNCHANGED <<phase, file, sshConfig, run, app, sidebar, gate, panel,
                   timer, refreshes, used, odd>>

-----------------------------------------------------------------------------
(* The settings panel. *)

\* The panel edits a draft and remembers what it started from.
Panel(config) == [original |-> config, draft |-> config, asked |-> FALSE, slot |-> None]

\* A field of the panel writes its value into the draft.
Written(draft) == [draft EXCEPT !.setting = ~@]

OpenSettings ==
    /\ phase = "running" /\ panel = None /\ used.saves < MaxSaves
    /\ modal # None => modal.slot # None
    /\ panel' = Panel(app)
    /\ UNCHANGED <<phase, file, sshConfig, run, app, sidebar, gate, saves, modal,
                   catalog, ssh, timer, refreshes, used, odd>>

\* The keyboard respects `saving`; a click on a boolean row does not.
ToggleSetting ==
    /\ panel # None /\ ~panel.asked /\ used.saves < MaxSaves
    /\ panel' = [panel EXCEPT !.draft = Written(@)]
    /\ UNCHANGED <<phase, file, sshConfig, run, app, sidebar, gate, saves, modal,
                   catalog, ssh, timer, refreshes, used, odd>>

\* Save: when a media setting changes while media plays, the user is asked first.
AskToSave ==
    /\ panel # None /\ panel.slot = None /\ ~panel.asked /\ panel.draft # panel.original
    /\ used.saves < MaxSaves
    /\ panel' = [panel EXCEPT !.asked = TRUE]
    /\ UNCHANGED <<phase, file, sshConfig, run, app, sidebar, gate, saves, modal,
                   catalog, ssh, timer, refreshes, used, odd>>

KeepEditing ==
    /\ panel # None /\ panel.asked
    /\ panel' = [panel EXCEPT !.asked = FALSE]
    /\ UNCHANGED <<phase, file, sshConfig, run, app, sidebar, gate, saves, modal,
                   catalog, ssh, timer, refreshes, used, odd>>

PersistSave(s) ==
    /\ panel # None /\ panel.slot = None /\ panel.draft # panel.original
    /\ Begin(s, "panel", panel.draft, IF panel.original # app THEN {"stale"} ELSE {})
    /\ panel' = [panel EXCEPT !.slot = s, !.asked = FALSE]
    /\ UNCHANGED <<phase, file, sshConfig, run, app, sidebar, gate, modal,
                   catalog, ssh, timer, refreshes>>

\* Escape, q, Close, Cancel changes: a save under way goes on.
CloseSettings ==
    /\ panel # None
    /\ panel' = None
    /\ UNCHANGED <<phase, file, sshConfig, run, app, sidebar, gate, saves, modal,
                   catalog, ssh, timer, refreshes, used, odd>>

-----------------------------------------------------------------------------
(* The sidebar's prompts. *)

\* A line of input, or the form for the label and the defaults of a host.
Prompt(kind, profile) == [kind |-> kind, profile |-> profile, slot |-> None]

OpenPrompt ==
    /\ phase = "running" /\ modal = None /\ panel = None /\ used.saves < MaxSaves
    /\ \/ modal' = Prompt("add", None)
       \/ \E p \in {q \in catalog : ~q.hidden}, kind \in {"remap", "edit", "hide"} :
            /\ (kind = "remap") <=> (p.source = "missing")
            /\ modal' = Prompt(kind, p)
    /\ UNCHANGED <<phase, file, sshConfig, run, app, sidebar, gate, saves, panel,
                   catalog, ssh, timer, refreshes, used, odd>>

CloseModal ==
    /\ modal # None
    /\ modal' = None
    /\ UNCHANGED <<phase, file, sshConfig, run, app, sidebar, gate, saves, panel,
                   catalog, ssh, timer, refreshes, used, odd>>

\* The host is not what it was when the prompt was opened.
Outdated(m) ==
    IF m.kind \in {"edit", "hide"} /\ m.profile \notin catalog THEN {"outdated"} ELSE {}

Submit(s) ==
    /\ modal # None /\ modal.slot = None /\ panel = None
    /\ \E next \in Submissions(modal) :
         Begin(s, IF modal.kind = "edit" THEN "form" ELSE "prompt", next, Outdated(modal))
    /\ modal' = [modal EXCEPT !.slot = s]
    /\ UNCHANGED <<phase, file, sshConfig, run, app, sidebar, gate, panel,
                   catalog, ssh, timer, refreshes>>

-----------------------------------------------------------------------------
(* "Allow always": run()'s configuration changes before the write, the gate *)
(* after it.                                                                *)

AllowAlways(s) ==
    \E d \in Domains \ gate :
        /\ run' = [run EXCEPT !.domains = gate \cup {d}]
        /\ Begin(s, "permission", run', {})
        /\ UNCHANGED <<phase, file, sshConfig, app, sidebar, gate, panel, modal,
                       catalog, ssh, timer, refreshes>>

-----------------------------------------------------------------------------
(* The SSH config, its watchers and the refreshes of the catalog. *)

\* discoverSshHosts reads the files at some time before it returns: `seen` are
\* the versions of the SSH config that it may have read.
Discovering(hosts) == [hosts |-> hosts, seen |-> {sshConfig}]
MayRead(discovery) == [discovery EXCEPT !.seen = @ \cup {sshConfig'}]

\* The user changes an SSH config file; `noticed` says that a watcher fires and
\* HostCatalogMonitor.schedule (re)starts the timer.
Edit(noticed) ==
    /\ phase \in {"opening", "running"} /\ used.events < MaxEvents
    /\ \E a \in Aliases : sshConfig' \in {sshConfig \cup {a}, sshConfig \ {a}} \ {sshConfig}
    /\ timer' = (timer \/ noticed)
    /\ refreshes' = [r \in DOMAIN refreshes |->
                       IF refreshes[r] = None THEN None ELSE MayRead(refreshes[r])]
    /\ saves' = [s \in Slots |->
                   IF saves[s] # None /\ saves[s].at = "refreshing" THEN MayRead(saves[s]) ELSE saves[s]]
    /\ used' = [used EXCEPT !.events = @ + 1]
    /\ odd' = odd \cup (IF phase = "opening" THEN {"crossed"} ELSE {})
                   \cup Claims(file.config.hosts, sshConfig')
    /\ UNCHANGED <<phase, file, run, app, sidebar, gate, panel, modal, catalog, ssh>>

\* Mutant: watcher events during a refresh are ignored.
EditUnwatched == Edit(phase = "running" /\ ~Refreshing)

\* Before the watchers are set up nobody notices.
EditSshConfig == Edit(phase = "running")

\* HostCatalogMonitor.refresh joins the refresh that is running.
Monitor ==
    refreshes' = IF refreshes["monitor"] = None
                 THEN [refreshes EXCEPT !["monitor"] = Discovering(run.hosts)]
                 ELSE refreshes

TimerFires ==
    /\ timer
    /\ timer' = FALSE
    /\ Monitor
    /\ odd' = odd \cup Crossing
    /\ UNCHANGED <<phase, file, sshConfig, run, app, sidebar, gate, saves, panel, modal,
                   catalog, ssh, used>>

\* The terminal gets the focus: WorkspaceApp.handleRendererFocus.
Focus ==
    /\ phase = "running" /\ refreshes["monitor"] = None /\ used.events < MaxEvents
    /\ used' = [used EXCEPT !.events = @ + 1]
    /\ Monitor
    /\ odd' = odd \cup Crossing
    /\ UNCHANGED <<phase, file, sshConfig, run, app, sidebar, gate, saves, panel, modal,
                   catalog, ssh, timer>>

\* "r" in the sidebar: SidebarRenderable.refreshCatalog.
RefreshKey ==
    /\ phase = "running" /\ refreshes["key"] = None /\ used.events < MaxEvents
    /\ used' = [used EXCEPT !.events = @ + 1]
    /\ refreshes' = [refreshes EXCEPT !["key"] = Discovering(sidebar.hosts)]
    /\ odd' = odd \cup Crossing
    /\ UNCHANGED <<phase, file, sshConfig, run, app, sidebar, gate, saves, panel, modal,
                   catalog, ssh, timer>>

\* HostCatalog.refresh replaces the snapshot; the caller passes it to syncHosts.
Refreshed(r) ==
    /\ refreshes[r] # None
    /\ \E seen \in refreshes[r].seen : catalog' = BuildHostCatalog(refreshes[r].hosts, seen)
    /\ ssh' = SyncHosts(catalog')
    /\ refreshes' = [refreshes EXCEPT ![r] = None]
    /\ UNCHANGED <<phase, file, sshConfig, run, app, sidebar, gate, saves, panel, modal,
                   timer, used, odd>>

-----------------------------------------------------------------------------
Next ==
    \/ BackUp \/ Migrate \/ Load \/ Open \/ Crash
    \/ OpenSettings \/ ToggleSetting \/ AskToSave \/ KeepEditing \/ CloseSettings
    \/ OpenPrompt \/ CloseModal
    \/ EditSshConfig \/ TimerFires \/ Focus \/ RefreshKey
    \/ \E r \in {"monitor", "key"} : Refreshed(r)
    \/ \E s \in Slots :
         \/ PersistSave(s) \/ Submit(s) \/ AllowAlways(s)
         \/ Land(s) \/ Fail(s) \/ Resume(s)
         \/ ApplyPanel(s) \/ ApplyPrompt(s) \/ RefreshPrompt(s)

Spec == Init /\ [][Next]_vars

-----------------------------------------------------------------------------
(* Every variable has a value of its type. *)
TypeOK ==
    /\ phase \in {"start", "opening", "running", "refused"}
    /\ file \in [version : 1 .. 2, backup : BOOLEAN, config : Configs]
    /\ sshConfig \subseteq Aliases
    /\ {run, app, sidebar} \subseteq Configs /\ gate \subseteq Domains
    /\ saves \in [Slots -> Saves \cup {None}]
    /\ panel \in Panels \cup {None} /\ modal \in Modals \cup {None}
    /\ catalog \subseteq Profiles /\ ssh \subseteq [id : Aliases, alias : Aliases]
    /\ timer \in BOOLEAN
    /\ refreshes \in [{"monitor", "key"} -> Discoveries \cup {None}]
    /\ odd \subseteq {"stale", "swapped", "crossed", "outdated", "reclaimed"}

Quiet == phase = "running" /\ ~Busy

(* When nothing is being saved, the domains a document may load from       *)
(* without asking are those of the file: no failed, overlapping or stale   *)
(* save leaves a permission that the user's configuration does not show,   *)
(* or withholds one that it does.  The two writers, run()'s saveConfig     *)
(* with applyRuntimeConfig (run.ts:219-240) and the gate's own persist     *)
(* (run.ts:164-167, domain-permission.ts:37-50), set the gate at different *)
(* moments.  Excepted: a save that resumes after one that landed later.    *)
GateIsFile == Quiet /\ "swapped" \notin odd => gate = file.config.domains

(* When nothing is being saved, the file and the three copies of the       *)
(* configuration have the same setting and the same hosts, whichever party *)
(* saved last, also after a save that failed and after a restart: the next *)
(* save, which starts from one of the copies, undoes no earlier one        *)
(* (workspace-app.ts:1477-1501, sidebar-renderable.ts:537-546).  Excepted: *)
(* saves composed while another was under way.                             *)
CopiesAgree ==
    Quiet /\ "stale" \notin odd =>
        \A c \in {run, app, sidebar} :
            c.setting = file.config.setting /\ c.hosts = file.config.hosts

(* SshClient knows exactly the hosts of the catalog that are not missing,  *)
(* however refreshes by the monitor, the key and a prompt's save overlap,  *)
(* unless two of them share an id and syncHosts threw (client.ts:55-80).   *)
SshKnowsCatalog ==
    phase = "running" /\ UniqueIds(Known(catalog)) => ssh = Known(catalog)

(* Once every watcher event and every refresh is dealt with, the catalog   *)
(* is the one that the configuration and the SSH files give now: a change  *)
(* of the files while they are read, or while a prompt saves, is not lost  *)
(* (host-catalog.ts:146-207).  Excepted: refreshes that overlapped.        *)
CatalogIsCurrent ==
    Quiet /\ ~timer /\ ~Refreshing /\ odd \cap {"stale", "crossed"} = {} =>
        catalog = BuildHostCatalog(file.config.hosts, sshConfig)

(* TermLoom never writes a configuration with which it refuses to start,   *)
(* and a crash during the migration loses nothing of the original: a file  *)
(* of version 1 is replaced only after its copy (config/store.ts:20-50,    *)
(* client.ts:55-66).  Excepted: entries saved from a stale copy, under a   *)
(* stale catalog or for a host that is not what the prompt was opened for, *)
(* and a remapped host whose old alias came back.                          *)
StartsAgain ==
    /\ phase = "refused" => odd \cap {"stale", "crossed", "outdated", "reclaimed"} # {}
    /\ file.version = 2 => file.backup

(* The type invariant with the two invariants that hold at every step.     *)
Consistent == TypeOK /\ SshKnowsCatalog /\ StartsAgain
=============================================================================
