------------------------------ MODULE Workspace ------------------------------
(***************************************************************************)
(* The workspace on screen: the reducer of the snapshot                    *)
(* (src/workspace/reducer.ts, schema.ts), the registry of the views of its *)
(* panes (src/ui/pane-registry.ts, pane-factory.ts) and the application    *)
(* that dispatches to the one and draws the other                          *)
(* (src/ui/workspace-app.ts), with the two answers that arrive late: the   *)
(* session a picker creates and the path a click in a terminal verifies.   *)
(*                                                                         *)
(* A layout tree is the sequence of its leaves: directions and ratios of   *)
(* the splits are geometry.  focusedPaneId follows activePaneId in every   *)
(* action, so one field stands for both.                                   *)
(***************************************************************************)
EXTENDS FiniteSets, Integers, SequencesExt

CONSTANTS
  FilesIds, TerminalIds,  \* the pane ids uniqueId() may draw, by surface
  Tabs,      \* the tab ids it may draw
  Host,      \* an SSH host
  Session,   \* the tmux session the pickers list and create
  Legacy,    \* v1 and v2 tabs that may be stored: [leaves, active]
  MaxLeaves, \* bound: panes in one surface
  MaxWaiting, \* bound: sessions being created
  MaxClicks  \* bound: navigations in flight

Nobody == "nobody"
Local == "local"
Surfaces == {"files", "terminal"}
Kinds == {"terminal", "files", "preview", "session-picker", "terminal-launcher"}
Targets == {Local, Host}
Panes == FilesIds \cup TerminalIds

(* What a pane holds, a surface, a tab, and a snapshot of tabs and panes. *)
Contents == [kind : Kinds, target : Targets, session : {"", Session}]
SurfaceStates == [leaves : Seq(Panes), active : Panes]
TabStates == [target : Targets, shown : Surfaces, surface : [Surfaces -> SurfaceStates]]
Snapshots(tabs, panes) ==
  [tabs : Seq(tabs), active : tabs, tab : [tabs -> TabStates], panes : [panes -> Contents]]

(* A stored tab has at least one pane, and its active one is in its layout. *)
ASSUME WorkspaceAssumption ==
  /\ FilesIds \cap TerminalIds = {}
  /\ MaxLeaves \in Nat \ {0} /\ MaxWaiting \in Nat
  /\ \A v1 \in Legacy :
       /\ v1.leaves \in Seq(Contents) /\ Len(v1.leaves) \in 1..MaxLeaves
       /\ v1.active \in DOMAIN v1.leaves

VARIABLES
  state,     \* the WorkspaceSnapshot of the controller
  ui,        \* the registry and the mounted layouts
  creating,  \* sessions of the host being created by its pickers
  navs,      \* stats in flight: [tab, latest]
  lost,      \* history: views the last step destroyed though their pane stayed
  revealed   \* history: where this step revealed a path, <<tab, pane>>

vars == <<state, ui, creating, navs, lost, revealed>>

Ids(name) == IF name = "files" THEN FilesIds ELSE TerminalIds
Pane(kind, target, session) == [kind |-> kind, target |-> target, session |-> session]

-----------------------------------------------------------------------------
(* The snapshot and its reducer                                            *)

(* f with the value v for x, and f with the values of g. *)
Put(f, x, v) == [y \in DOMAIN f \cup {x} |-> IF y = x THEN v ELSE f[y]]
Overlaid(f, g) == [y \in DOMAIN f \cup DOMAIN g |-> IF y \in DOMAIN g THEN g[y] ELSE f[y]]

Surface(leaves, p) == [leaves |-> leaves, active |-> p]
ActiveTab(s) == s.tab[s.active]
Key(s) == <<s.active, ActiveTab(s).shown>>
Place(seq, e) == SelectInSeq(seq, LAMBDA x : x = e)
On(s, key) == s.tab[key[1]].surface[key[2]]
Active(s) == On(s, Key(s))
Leaves(s, key) == ToSet(On(s, key).leaves)
Keys(s) == (DOMAIN s.tab) \X Surfaces

WithActive(s, surface) ==
  [s EXCEPT !.tab[s.active].surface[ActiveTab(s).shown] = surface]

FocusPane(s, p) == WithActive(s, [Active(s) EXCEPT !.active = p])

(* replacePane(): the leaf becomes a split of itself and a new pane. *)
ReplacePane(leaves, p, q) == InsertAt(leaves, Place(leaves, p) + 1, q)

(* removePane(): the other half takes the place of the split. *)
RemovePane(leaves, p) == RemoveAt(leaves, Place(leaves, p))

SwapPaneIds(leaves, p, q) ==
  [i \in DOMAIN leaves |-> IF leaves[i] = p THEN q ELSE IF leaves[i] = q THEN p ELSE leaves[i]]

SplitPane(s, p, q, pane) ==
  [WithActive(s, Surface(ReplacePane(Active(s).leaves, p, q), q))
     EXCEPT !.panes = Put(s.panes, q, pane)]

ClosePane(s, p) ==
  LET left == RemovePane(Active(s).leaves, p)
  IN  [WithActive(s, Surface(left, Head(left)))
         EXCEPT !.panes = Restrict(s.panes, DOMAIN s.panes \ {p})]

SwapPanes(s, p, q) ==
  WithActive(s, [Active(s) EXCEPT !.leaves = SwapPaneIds(@, p, q)])

AddTab(s, t, tab, panes) ==
  [tabs |-> Append(s.tabs, t), active |-> t,
   tab |-> Put(s.tab, t, tab), panes |-> Overlaid(s.panes, panes)]

ActivateTab(s, t) == [s EXCEPT !.active = t]

(* mutant: the panes of the terminal surface are forgotten *)
CloseTabHalf(s, t) ==
  LET left == Remove(s.tabs, t)
  IN  [tabs |-> left, active |-> IF s.active = t THEN Last(left) ELSE s.active,
       tab |-> Restrict(s.tab, ToSet(left)),
       panes |-> Restrict(s.panes, DOMAIN s.panes \ Leaves(s, <<t, "files">>))]

CloseTab(s, t) ==
  LET at == Place(s.tabs, t)
      left == RemoveAt(s.tabs, at)
      gone == Leaves(s, <<t, "files">>) \cup Leaves(s, <<t, "terminal">>)
  IN  [tabs |-> left,
       active |-> IF s.active # t THEN s.active
                  ELSE left[IF at <= Len(left) THEN at ELSE Len(left)],
       tab |-> Restrict(s.tab, ToSet(left)),
       panes |-> Restrict(s.panes, DOMAIN s.panes \ gone)]

UpdatePane(s, p, pane) == [s EXCEPT !.panes[p] = pane]

SetSurface(s, name) == [s EXCEPT !.tab[s.active].shown = name]

(* What WorkspaceSnapshotSchema asks of a snapshot before it is saved, and *)
(* of a stored one before it is used.                                      *)
Valid(s) ==
  /\ s.active \in ToSet(s.tabs)
  /\ IsInjective(s.tabs)
  /\ \A key \in Keys(s) :
       /\ On(s, key).active \in Leaves(s, key)
       /\ IsInjective(On(s, key).leaves)
  /\ \A k1, k2 \in Keys(s) : k1 # k2 => Leaves(s, k1) \cap Leaves(s, k2) = {}
  /\ DOMAIN s.panes = UNION {Leaves(s, key) : key \in Keys(s)}

-----------------------------------------------------------------------------
(* New tabs and stored ones                                                *)

FirstTerminal(target) ==
  Pane(IF target = Local THEN "terminal" ELSE "terminal-launcher", target, "")

NewTab(target, f, t) ==
  [target |-> target, shown |-> "files",
   surface |-> [n \in Surfaces |-> IF n = "files" THEN Surface(<<f>>, f) ELSE Surface(<<t>>, t)]]

NewPanes(target, f, t) ==
  [p \in {f, t} |-> IF p = f THEN Pane("files", target, "") ELSE FirstTerminal(target)]

(* Ids are random: drawing them by surface only names them.  A tab that a  *)
(* navigation in flight still mentions is not drawn again.                 *)
Free(name) == Ids(name) \ DOMAIN state.panes
FreeTabs == Tabs \ (ToSet(state.tabs) \cup {n.tab : n \in navs})

(* migrateWorkspaceV1 (and V2, whose other surface held a Start pane) for  *)
(* a stored tab: its layout becomes the surface of its active pane, a      *)
(* placeholder the other one.  The tab belongs to the first host found in  *)
(* it, and so does a pane without a host of its own: with one host, all.   *)
Migrated(t, v1, id) ==
  LET target == IF \E i \in DOMAIN v1.leaves : v1.leaves[i].target # Local
                THEN Host ELSE Local
      kept == IF v1.leaves[v1.active].kind = "terminal" THEN "terminal" ELSE "files"
      other == IF kept = "files" THEN "terminal" ELSE "files"
      ids == SubSeq(id[kept], 1, Len(v1.leaves))
      q == id[other][1]
      placeholder == IF kept = "files" THEN FirstTerminal(target) ELSE Pane("files", target, "")
      pane(i) == IF v1.leaves[i].kind = "session-picker"
                 THEN Pane("terminal-launcher", target, "")
                 ELSE [v1.leaves[i] EXCEPT !.target = target]
  IN  [tabs |-> <<t>>, active |-> t,
       tab |-> [x \in {t} |->
                 [target |-> target, shown |-> kept,
                  surface |-> [n \in Surfaces |-> IF n = kept THEN Surface(ids, ids[v1.active])
                                                  ELSE Surface(<<q>>, q)]]],
       panes |-> Put([p \in ToSet(ids) |-> pane(Place(ids, p))], q, placeholder)]

-----------------------------------------------------------------------------
(* The registry and the mounted layouts.  made: the panes whose view was   *)
(* created by the dispatches of the step.                                  *)

Screens(panes, keys) ==
  [views : [panes -> Contents], layouts : [keys -> Seq(Panes)],
   visible : Tabs \X Surfaces, presented : SUBSET Panes, made : SUBSET Panes]

Reconciled(u, s) ==
  [u EXCEPT !.views = Restrict(u.views, DOMAIN u.views \cap DOMAIN s.panes)]

(* frame(): the view of a pane is kept while the pane's identity is.       *)
Framed(u, s, ps) ==
  LET new == {p \in ps : p \notin DOMAIN u.views \/ u.views[p] # s.panes[p]}
  IN  [u EXCEPT !.views = Overlaid(u.views, [p \in new |-> s.panes[p]]),
                !.made = u.made \cup new]

(* buildLayout(): the frames of a surface's panes, with a divider between  *)
(* the halves of every split.                                              *)
BuildLayout(s, key) == On(s, key).leaves

Mounted(u, s, keys) ==
  [Framed(u, s, UNION {Leaves(s, key) : key \in keys})
     EXCEPT !.layouts = Overlaid(u.layouts, [key \in keys |-> BuildLayout(s, key)])]

(* rebuildMountedLayouts(): the frames are detached before the layouts are *)
(* destroyed, so the views survive and are hung into the new ones.         *)
Rebuilt(u, s) ==
  LET keys == (DOMAIN u.layouts \cap Keys(s)) \cup {Key(s)}
  IN  Mounted([u EXCEPT !.layouts = <<>>], s, keys)

(* showActiveSurface() *)
Shown(u, s) ==
  LET v == IF Key(s) \in DOMAIN u.layouts THEN u ELSE Mounted(u, s, {Key(s)})
  IN  [v EXCEPT !.visible = Key(s), !.presented = Leaves(s, Key(s))]

(* mutant: exchanging panes keeps the mounted layout *)
StructuralButSwap(type) == type \in {"split-pane", "close-pane", "add-tab", "close-tab"}

Structural(type) == type \in {"split-pane", "close-pane", "swap-panes", "add-tab", "close-tab"}

(* renderState(): a structural action rebuilds the mounted layouts, and so *)
(* does an update of a pane that changes what its view is.                 *)
Rendered(u, s, type, p) ==
  LET v == Reconciled(u, s)
      same == p \in DOMAIN v.views /\ v.views[p] = s.panes[p]
  IN  Shown(IF Structural(type) \/ (type = "update-pane" /\ ~same)
            THEN Rebuilt(v, s) ELSE v, s)

(* The controller tells its listener of every dispatch that changed the    *)
(* snapshot.  A dispatch is applied to a pair [s, u], so that handlers that*)
(* dispatch more than once compose them.                                   *)
Dispatch(w, type, p, s) ==
  IF s = w.s THEN w ELSE [s |-> s, u |-> Rendered(w.u, s, type, p)]

Now == [s |-> state, u |-> ui]
Commit(result) ==
  \E w \in {result} :
    /\ state' = w.s
    /\ ui' = [w.u EXCEPT !.made = {}]
    /\ lost' = {p \in DOMAIN ui.views \cap DOMAIN w.s.panes :
                  ui.views[p] = w.s.panes[p] /\ (p \in w.u.made \/ p \notin DOMAIN w.u.views)}
Idle == UNCHANGED <<state, ui, lost>>

-----------------------------------------------------------------------------
Blank == [views |-> <<>>, layouts |-> <<>>, visible |-> <<>>,
          presented |-> {}, made |-> {}]

(* A first start, or a start from a stored workspace of an older schema.   *)
Starts(t, id) ==
  {[tabs |-> <<t>>, active |-> t,
    tab |-> [x \in {t} |-> NewTab(Local, id["files"][1], id["terminal"][1])],
    panes |-> NewPanes(Local, id["files"][1], id["terminal"][1])]}
  \cup {Migrated(t, v1, id) : v1 \in Legacy}

Init ==
  /\ \E t \in Tabs, f \in [1..MaxLeaves -> FilesIds], q \in [1..MaxLeaves -> TerminalIds] :
       /\ IsInjective(f) /\ IsInjective(q)
       /\ state \in Starts(t, [n \in Surfaces |-> IF n = "files" THEN f ELSE q])
  /\ ui = [Shown(Rebuilt(Blank, state), state) EXCEPT !.made = {}]
  /\ creating = 0
  /\ navs = {}
  /\ lost = {}
  /\ revealed = <<>>

Calm == UNCHANGED <<creating, navs>> /\ revealed' = <<>>

(* --- the keys and buttons of the workspace.  An open overlay or the      *)
(* authentication panel only takes them away.                              *)

SwitchSurface ==
  /\ \E name \in Surfaces \ {ActiveTab(state).shown} :
       Commit(Dispatch(Now, "set-active-surface", Nobody, SetSurface(state, name)))
  /\ Calm

(* A split copies the pane it divides. *)
Split ==
  /\ Len(Active(state).leaves) < MaxLeaves
  /\ \E q \in Free(ActiveTab(state).shown) :
       Commit(Dispatch(Now, "split-pane", q,
                SplitPane(state, Active(state).active, q, state.panes[Active(state).active])))
  /\ Calm

CloseActivePane ==
  /\ Len(Active(state).leaves) > 1
  /\ Commit(Dispatch(Now, "close-pane", Nobody, ClosePane(state, Active(state).active)))
  /\ Calm

(* The keys move the focus to a neighbour, a click to the clicked pane. *)
Focus ==
  /\ \E p \in Leaves(state, Key(state)) \ {Active(state).active} :
       Commit(Dispatch(Now, "focus-pane", p, FocusPane(state, p)))
  /\ Calm

ExchangeActivePane ==
  /\ LET leaves == Active(state).leaves
         p == Active(state).active
         q == leaves[(Place(leaves, p) % Len(leaves)) + 1]
     IN  /\ Len(leaves) > 1
         /\ Commit(Dispatch(Now, "swap-panes", p, SwapPanes(state, p, q)))
  /\ Calm

ActivateRelativeTab ==
  /\ \E t \in ToSet(state.tabs) \ {state.active} :
       Commit(Dispatch(Now, "activate-tab", Nobody, ActivateTab(state, t)))
  /\ Calm

CloseActiveTab ==
  /\ Len(state.tabs) > 1
  /\ Commit(Dispatch(Now, "close-tab", Nobody, CloseTab(state, state.active)))
  /\ Calm

Opened(w, t, target, f, q) ==
  Dispatch(w, "add-tab", Nobody, AddTab(w.s, t, NewTab(target, f, q), NewPanes(target, f, q)))

AddLocalTab ==
  /\ \E t \in FreeTabs, f \in Free("files"), q \in Free("terminal") :
       Commit(Opened(Now, t, Local, f, q))
  /\ Calm

(* installKeymap(): what the keys of the workspace do to the snapshot.     *)
Keymap ==
  \/ SwitchSurface \/ Split \/ CloseActivePane \/ Focus \/ ExchangeActivePane
  \/ ActivateRelativeTab \/ CloseActiveTab \/ AddLocalTab

(* --- targets chosen in the host tree ----------------------------------- *)

(* ensureLocalTab() and ensureHostTab(): the first tab of the target, or a *)
(* new one.  The set of the possible outcomes.                             *)
Ensured(w, target) ==
  LET first == SelectInSeq(w.s.tabs, LAMBDA t : w.s.tab[t].target = target)
  IN  IF first # 0
      THEN {Dispatch(w, "activate-tab", Nobody, ActivateTab(w.s, w.s.tabs[first]))}
      ELSE {Opened(w, t, target, f, q) :
              t \in FreeTabs, f \in Free("files"), q \in Free("terminal")}

ShownOn(w, name) ==
  Dispatch(w, "set-active-surface", Nobody, SetSurface(w.s, name))

(* What the tree offers: the local machine and the hosts of the catalog. *)
Entries == {Local, Host}

Select ==
  /\ \E target \in Entries :
       \E w \in Ensured(Now, target) : Commit(ShownOn(w, "files"))
  /\ Calm

(* --- what the panes ask for -------------------------------------------- *)

(* A pane that can be used: on screen, with a view of the kind asked for.  *)
Usable(kind) ==
  {p \in ui.presented : p \in DOMAIN ui.views /\ ui.views[p].kind = kind}

Launch ==
  /\ \E p \in Usable("terminal-launcher"), kind \in {"terminal", "session-picker"} :
       Commit(Dispatch(Now, "update-pane", p,
                UpdatePane(state, p, Pane(kind, ui.views[p].target, ""))))
  /\ Calm

(* attachSession() and openRawShell(): the session's terminal goes into a  *)
(* split of the active pane of the host's terminal surface, or replaces    *)
(* that pane; a session that is open already is focused.                   *)
Attached(w0, session, inSplit, fresh) ==
  LET w == ShownOn(w0, "terminal")
      here == Active(w.s)
      open == SelectInSeq(here.leaves, LAMBDA p : session # "" /\
                w.s.panes[p].kind = "terminal" /\ w.s.panes[p].session = session)
      pane == Pane("terminal", ActiveTab(w.s).target, session)
  IN  CASE open # 0 ->
             Dispatch(w, "focus-pane", here.leaves[open], FocusPane(w.s, here.leaves[open]))
        [] open = 0 /\ inSplit ->
             Dispatch(w, "split-pane", fresh, SplitPane(w.s, here.active, fresh, pane))
        [] OTHER -> Dispatch(w, "update-pane", here.active, UpdatePane(w.s, here.active, pane))

Open ==
  /\ \E p \in Usable("session-picker"), session \in {Session, ""}, inSplit \in BOOLEAN :
       \E w \in Ensured(Now, ui.views[p].target), fresh \in Free("terminal") :
         /\ fresh \notin DOMAIN w.s.panes
         /\ inSplit => Len(w.s.tab[w.s.active].surface.terminal.leaves) < MaxLeaves
         /\ Commit(Attached(w, session, inSplit, fresh))
  /\ Calm

OpenPreview ==
  /\ Len(Active(state).leaves) < MaxLeaves
  /\ \E p \in Usable("files"), q \in Free(ActiveTab(state).shown) :
       Commit(Dispatch(Now, "split-pane", q,
                SplitPane(state, p, q, Pane("preview", ui.views[p].target, ""))))
  /\ Calm

(* promptNewSession(): create and refresh are awaited, then the session is *)
(* attached from wherever the user is by then; the picker may be gone.     *)
PromptNewSession ==
  /\ creating < MaxWaiting
  /\ Usable("session-picker") # {}
  /\ creating' = creating + 1
  /\ Idle
  /\ UNCHANGED navs
  /\ revealed' = <<>>

SessionCreated ==
  /\ creating > 0
  /\ creating' = creating - 1
  /\ \/ Idle                         \* the creation failed
     \/ \E w \in Ensured(Now, Host) : Commit(Attached(w, Session, FALSE, Nobody))
  /\ UNCHANGED navs
  /\ revealed' = <<>>

(* --- Ctrl+click on a path in a terminal -------------------------------- *)

(* Every click takes a new generation: the answers to earlier ones are     *)
(* overtaken.                                                              *)
Current(ns) == ns                                           \* mutant
Overtaken(ns) == {[n EXCEPT !.latest = FALSE] : n \in ns}

(* navigateTerminalPath() up to its await: the tab that owns the terminal  *)
(* shows its files at once, the path is verified meanwhile.                *)
Navigate ==
  /\ Cardinality(navs) < MaxClicks
  /\ \E p \in Usable("terminal") :
       LET home == CHOOSE t \in DOMAIN state.tab : \E n \in Surfaces : p \in Leaves(state, <<t, n>>)
       IN  /\ Commit(ShownOn(Dispatch(Now, "activate-tab", Nobody, ActivateTab(state, home)), "files"))
           /\ navs' = Overtaken(navs)
                        \cup {[tab |-> home, latest |-> TRUE]}
  /\ revealed' = <<>>
  /\ UNCHANGED creating

(* The active pane of the tab's files, or the first, that shows a directory. *)
FilesPane(s, t) ==
  LET surface == On(s, <<t, "files">>)
      candidates == <<surface.active>> \o surface.leaves
      first == SelectInSeq(candidates, LAMBDA p : s.panes[p].kind = "files")
  IN  IF first = 0 THEN Nobody ELSE candidates[first]

(* An answer that was overtaken is dropped, and so is one whose tab was    *)
(* closed; any other brings its tab's files forward and reveals the path.  *)
Answered ==
  \E n \in navs :
    /\ navs' = navs \ {n}
    /\ \/ Idle /\ revealed' = <<>>    \* not found, or no answer
       \/ /\ n.latest
          /\ n.tab \in DOMAIN state.tab
          /\ LET w == ShownOn(Dispatch(Now, "activate-tab", Nobody, ActivateTab(state, n.tab)), "files")
                 browser == FilesPane(w.s, n.tab)
             IN  /\ Commit(w)
                 /\ revealed' = IF browser = Nobody THEN <<>> ELSE <<n.tab, browser>>
    /\ UNCHANGED creating

Next ==
  \/ Keymap
  \/ Select \/ Launch \/ Open \/ OpenPreview
  \/ PromptNewSession \/ SessionCreated \/ Navigate \/ Answered

Spec == Init /\ [][Next]_vars

-----------------------------------------------------------------------------
(* Properties                                                              *)

(* The types of the variables. *)
TypeOK ==
  /\ state \in Snapshots(DOMAIN state.tab, DOMAIN state.panes)
  /\ DOMAIN state.tab = ToSet(state.tabs)
  /\ DOMAIN state.tab \subseteq Tabs /\ DOMAIN state.panes \subseteq Panes
  /\ ui \in Screens(DOMAIN ui.views, DOMAIN ui.layouts)
  /\ creating \in 0..MaxWaiting
  /\ navs \subseteq [tab : Tabs, latest : BOOLEAN]
  /\ lost \subseteq Panes
  /\ revealed \in (Tabs \X Panes) \cup {<<>>}

(* The snapshot can always be saved and loaded again: whatever the keys,   *)
(* the panes and the late answers dispatch, in whatever order, it passes   *)
(* the checks of WorkspaceSnapshotSchema (reducer.ts, schema.ts).          *)
SnapshotValid == Valid(state)

(* The screen shows the snapshot: every mounted layout holds the leaves of *)
(* its surface in their order, each with a view of what the pane is now,   *)
(* no view outlives its pane, and exactly the active surface is visible    *)
(* and told that it is presented (workspace-app.ts renderState,            *)
(* pane-registry.ts).                                                      *)
ScreenIsSnapshot ==
  /\ DOMAIN ui.views \subseteq DOMAIN state.panes
  /\ \A p \in DOMAIN ui.views : ui.views[p] = state.panes[p]
  /\ \A key \in DOMAIN ui.layouts :
       /\ key \in Keys(state)
       /\ ui.layouts[key] = On(state, key).leaves
       /\ ToSet(ui.layouts[key]) \subseteq DOMAIN ui.views
  /\ ui.visible = Key(state) /\ ui.visible \in DOMAIN ui.layouts
  /\ ui.presented = Leaves(state, ui.visible)

(* A view lives as long as its pane is the same: switching surfaces and    *)
(* tabs, splitting, closing and exchanging panes, opening tabs and late    *)
(* answers never destroy or rebuild the view of another pane, so a shell   *)
(* in a hidden pane keeps running (docs/architecture.md:261).              *)
HiddenViewsSurvive == lost = {}

(* The snapshot is one that can be loaded again, and no step destroys the *)
(* view of a pane that stays.                                             *)
Consistent ==
  /\ TypeOK
  /\ SnapshotValid
  /\ HiddenViewsSurvive

(* A path is revealed in the files of the tab that owned the clicked       *)
(* terminal, that tab is in front then, and only the last click has an     *)
(* effect, whatever the user did while the path was verified               *)
(* (workspace-app.ts navigateTerminalPath).                                *)
NavigationGoesHome ==
  [][revealed' \notin {revealed, <<>>} =>
       /\ \A n \in navs : n.latest => n.tab = revealed'[1]
       /\ Key(state') = <<revealed'[1], "files">>
       /\ revealed'[2] \in Leaves(state', Key(state'))]_vars

(* "attaching replaces the picker or opens a new split"                    *)
(* (docs/architecture.md:260): a pane that holds a terminal is never given *)
(* another content.  The code does not keep this: README.md, "Known        *)
(* divergences".                                                           *)
TerminalsAreKept ==
  [][\A p \in DOMAIN state.panes \cap DOMAIN state'.panes :
       state.panes[p].kind = "terminal" => state'.panes[p] = state.panes[p]]_vars
=============================================================================
