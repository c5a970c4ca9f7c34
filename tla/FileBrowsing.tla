---------------------------- MODULE FileBrowsing ----------------------------
(***************************************************************************)
(* A Files pane over SFTP: FileBrowserRenderable and its list, above the   *)
(* directory cache of RcloneSftpService.                                   *)
(*                                                                         *)
(* One pane is followed.  The other panes of the host share the cache, and *)
(* are represented by their calls of list().  A listing is the version the *)
(* directory had when rclone read it.  An aborted list() ends with         *)
(* "cancelled", before rclone starts or once it is killed: it stores       *)
(* nothing and its owner looks no further, so aborting a call drops it.    *)
(***************************************************************************)
EXTENDS Naturals, Sequences, FiniteSets, FiniteSetsExt, SequencesExt

CONSTANTS
    Dirs,          \* directories
    Root,          \* the one that is its own parent
    Kids,          \* Kids[d]: the entries of directory d
    Size,          \* Size[d]: number of entries a listing of d counts
    CacheLimit,    \* directoryCacheLimit
    EntryLimit,    \* directoryCacheEntryLimit
    Ttl,           \* directoryCacheTtlMs, in ticks
    MaxVersion,    \* bound: changes of a directory by others
    MaxCalls,      \* bound: calls of list() in flight
    None

ASSUME BrowsingAssumption ==
    /\ Root \in Dirs
    /\ Kids \in [Dirs -> SUBSET UNION {Kids[d] : d \in Dirs}]
    /\ Size \in [Dirs -> Nat]
    /\ {CacheLimit, EntryLimit, Ttl} \subseteq Nat \ {0}
    /\ MaxVersion \in Nat
    /\ None \notin 0..MaxVersion /\ None \notin Dirs /\ \A d \in Dirs : None \notin Kids[d]

Entries == Dirs \cup UNION {Kids[d] : d \in Dirs}
Parent(d) == IF \E q \in Dirs : d \in Kids[q] THEN CHOOSE q \in Dirs : d \in Kids[q] ELSE d

VARIABLES
    version,   \* version[d]: the state of directory d on the host
    cache,     \* directoryCache: least recently used first
    calls,     \* calls of list() that wait for rclone
    pane,      \* path and selection of the pane, and what its list shows
    answer,    \* the directory the refresh under way lists, and what has come or None
    preview    \* the entry scheduled last, its timer, and what is displayed

vars == <<version, cache, calls, pane, answer, preview>>

Waiters == {"current", "parent", "preview", "other"}
Call == [for : Waiters, dir : Dirs, reading : BOOLEAN, ver : 0..MaxVersion]
Snapshot == [dir : Dirs, ver : 0..MaxVersion, age : 0..Ttl]

TypeOK ==
    /\ version \in [Dirs -> 0..MaxVersion]
    /\ \A i \in DOMAIN cache : cache[i] \in Snapshot
    /\ calls \subseteq Call
    /\ pane \in [path : Dirs, chosen : Entries \cup {None}, shown : Dirs, ver : 0..MaxVersion,
                 status : {"loading", "shown", "failed"}, open : BOOLEAN,
                 forced : BOOLEAN, pressed : 0..MaxVersion]
    /\ answer \in [dir : Dirs, current : 0..MaxVersion \cup {None}, parent : {0, None}]
    /\ preview \in [asked : Entries \cup {None}, timer : BOOLEAN, content : Entries \cup {None}]

-----------------------------------------------------------------------------
(* The cache *)

\* The cache is a Map: a directory has one place in it, or none.
Places(c, d) == {i \in DOMAIN c : c[i].dir = d}
Forget(c, d) ==
    IF Places(c, d) = {} THEN c ELSE RemoveAt(c, CHOOSE i \in Places(c, d) : TRUE)
\* Mutant: invalidation is left to the time limit.
KeepUntilExpiry(c, d) == c
\* What refresh: true does to the key it lists.
Invalidated(c, d) == Forget(c, d)

\* getCachedDirectory(): an expired snapshot is dropped, a valid one moves to the end.
Cached(c, d) == {c[i] : i \in {j \in DOMAIN c : c[j].dir = d /\ c[j].age < Ttl}}
Touched(c, d) ==
    IF Cached(c, d) = {} THEN Forget(c, d)
    ELSE Append(Forget(c, d), CHOOSE s \in Cached(c, d) : TRUE)
Hit(c, d) == IF Cached(c, d) = {} THEN None ELSE (CHOOSE s \in Cached(c, d) : TRUE).ver

Total(c) == FoldSet(LAMBDA i, n : n + Size[c[i].dir], 0, DOMAIN c)
Fits(c) == Len(c) <= CacheLimit /\ Total(c) <= EntryLimit
\* The loop that drops the oldest snapshots: the longest end that fits.
Trimmed(c) ==
    LET starts == {i \in 1..(Len(c) + 1) : Fits(SubSeq(c, i, Len(c)))}
    IN  SubSeq(c, Min(starts), Len(c))

\* putCachedDirectory()
Stored(c, d, v) ==
    IF Size[d] > EntryLimit THEN c
    ELSE Trimmed(Append(Forget(c, d), [dir |-> d, ver |-> v, age |-> 0]))

-----------------------------------------------------------------------------
(* The pane *)

NewCall(w, d) == [for |-> w, dir |-> d, reading |-> FALSE, ver |-> 0]
\* The calls that go on when the signals of ws are aborted.
Aborted(cs, ws) == {c \in cs : c.for \notin ws}

\* schedulePreview(): the work for the entry before is cancelled, with its timer.
SchedulePreview(e, cs) ==
    /\ preview' = [preview EXCEPT !.asked = e, !.timer = TRUE]
    /\ calls' = Aborted(cs, {"preview"})

\* select() of a row, by its mouse handlers, a key or setEntries().
SelectRow(view, e, cs) ==
    /\ pane' = [view EXCEPT !.chosen = e]
    /\ SchedulePreview(e, cs)

\* setPreviewContent() and destroyPreview(): what was displayed is replaced.
Displays(p, content) == [p EXCEPT !.content = content]

\* The end of refreshOnce(): setEntries() selects the row of the pane's selection, else
\* the row at the old index, which is any of the page, and so schedules its preview.
\* A page holds any part of the directory (paging and search).
Show(view, got, cs) ==
    \E rows \in SUBSET Kids[got.dir] :
        LET next == [view EXCEPT !.shown = got.dir, !.ver = got.current, !.status = "shown"]
        IN  IF rows = {}
            THEN pane' = next /\ calls' = cs /\ UNCHANGED preview
            ELSE \E e \in rows :
                    /\ view.chosen \in rows => e = view.chosen
                    /\ SelectRow(next, e, cs)

Refreshing == {"current", "parent"}
NoAnswer == [dir |-> Root, current |-> None, parent |-> None]
Complete(a) == None \notin {a[w] : w \in Refreshing}

\* refresh() and the start of refreshOnce() up to its await: the refresh under way is
\* aborted and both directories are looked up.
RefreshFor(view, force) ==
    LET d == view.path
        up == Parent(d)
        ready == Touched(IF force THEN Invalidated(cache, d) ELSE cache, d)
        got == [dir |-> d, current |-> Hit(ready, d),
                parent |-> IF up # d /\ Cached(ready, up) = {} THEN None ELSE 0]
        asked == {w \in Refreshing : got[w] = None}
        cs == Aborted(calls, Refreshing)
                \cup {NewCall(w, IF w = "current" THEN d ELSE up) : w \in asked}
        pressed == IF force THEN version[d]
                   ELSE IF pane.status = "loading" /\ pane.path = d THEN pane.pressed ELSE 0
        next == [view EXCEPT !.forced = force, !.pressed = pressed]
    IN  /\ Cardinality(cs) <= MaxCalls
        /\ cache' = IF up = d THEN ready ELSE Touched(ready, up)
        /\ answer' = IF Complete(got) THEN NoAnswer ELSE got
        /\ IF Complete(got)
           THEN Show(next, got, cs)
           ELSE /\ pane' = [next EXCEPT !.status = "loading"]
                /\ calls' = cs
                /\ UNCHANGED preview
        /\ UNCHANGED version

\* Mutant: a refresh joins the one that is under way.
RefreshJoined(view, force) ==
    IF pane.status = "loading"
    THEN /\ pane' = [view EXCEPT !.forced = force]
         /\ UNCHANGED <<version, cache, calls, answer, preview>>
    ELSE RefreshFor(view, force)
\* r, a page change, a search, refreshHost().
StartRefresh(view, force) == RefreshFor(view, force)

Refresh(force) == pane.open /\ StartRefresh(pane, force)

\* navigate() by the path bar, a list, Up, or reveal(), which names the selection.
Navigate(d, chosen) ==
    /\ pane.open
    /\ d # pane.path \/ chosen # None
    /\ StartRefresh([pane EXCEPT !.path = d, !.chosen = chosen], FALSE)

\* A key or the mouse selects a row, or Enter activates the file of a row.
Select(e) ==
    /\ pane.open /\ e \in Kids[pane.shown]
    /\ SelectRow(pane, e, calls)
    /\ UNCHANGED <<version, cache, answer>>

\* The actions of the context menu, which are those of the keys: Refresh, Search and
\* pages, Open Folder, Preview.
ContextActions ==
    \/ \E force \in BOOLEAN : Refresh(force)
    \/ \E d \in Dirs : \E chosen \in Kids[d] \cup {None} : Navigate(d, chosen)
    \/ \E e \in Entries : Select(e)

\* renderPreview(): a folder is listed, anything else gets its document at once.
PreviewTimerFires ==
    /\ preview.timer
    /\ LET e == preview.asked
           wait == e \in Dirs /\ Hit(cache, e) = None
       IN  /\ cache' = IF e \in Dirs THEN Touched(cache, e) ELSE cache
           /\ calls' = IF wait THEN calls \cup {NewCall("preview", e)} ELSE calls
           /\ preview' = Displays([preview EXCEPT !.timer = FALSE], IF wait THEN None ELSE e)
    /\ UNCHANGED <<version, pane, answer>>

\* Mutant: the pane is marked disposed and its work is left to end by itself.
DestroyLazily ==
    /\ pane.open
    /\ pane' = [pane EXCEPT !.open = FALSE]
    /\ UNCHANGED <<version, cache, calls, answer, preview>>
\* destroySelf()
Destroy ==
    /\ pane.open
    /\ pane' = [pane EXCEPT !.open = FALSE]
    /\ calls' = Aborted(calls, Refreshing \cup {"preview"})
    /\ preview' = Displays([preview EXCEPT !.timer = FALSE], None)
    /\ answer' = NoAnswer
    /\ UNCHANGED <<version, cache>>

-----------------------------------------------------------------------------
(* list() after its lookup *)

\* requireMaster() has returned and rclone reads the directory.
Reads(c) ==
    /\ ~c.reading
    /\ calls' = (calls \ {c}) \cup {[c EXCEPT !.reading = TRUE, !.ver = version[c.dir]]}
    /\ UNCHANGED <<version, cache, pane, answer, preview>>

ListingEnds(c) ==
    /\ c.reading
    /\ cache' = Stored(cache, c.dir, c.ver)
    /\ LET cs == calls \ {c}
           got == CASE c.for = "current" -> [answer EXCEPT !.current = c.ver]
                    [] c.for = "parent" -> [answer EXCEPT !.parent = 0]
                    [] OTHER -> answer
       IN  /\ answer' = IF Complete(got) THEN NoAnswer ELSE got
           /\ IF Complete(got)
              THEN Show(pane, got, cs)
              ELSE /\ calls' = cs
                   /\ preview' = IF c.for = "preview" THEN Displays(preview, preview.asked)
                                 ELSE preview
                   /\ UNCHANGED pane
    /\ UNCHANGED version

\* No master, a time-out, an oversized listing, a non-zero exit, or another pane aborts.
\* A failed refresh ends at once and forgets its controller, so the listing beside it goes
\* on for the cache alone.  The preview shows the message.
ListingFails(c) ==
    /\ LET cs == calls \ {c}
           refresh == c.for \in Refreshing
       IN  /\ calls' = IF refresh
                       THEN {IF d.for \in Refreshing THEN [d EXCEPT !.for = "other"]
                             ELSE d : d \in cs}
                       ELSE cs
           /\ pane' = IF refresh THEN [pane EXCEPT !.status = "failed"] ELSE pane
           /\ preview' = IF c.for = "preview" THEN Displays(preview, preview.asked)
                         ELSE preview
           /\ answer' = IF refresh THEN NoAnswer ELSE answer
    /\ UNCHANGED <<version, cache>>

-----------------------------------------------------------------------------
(* Other panes of the host, other users of the directory, time *)

\* They are followed for as long as the pane is there.
OtherPaneLists(d, force) ==
    /\ pane.open
    /\ LET ready == Touched(IF force THEN Invalidated(cache, d) ELSE cache, d)
           cs == IF Hit(ready, d) = None THEN calls \cup {NewCall("other", d)} ELSE calls
       IN  cache' = ready /\ calls' = cs /\ Cardinality(cs) <= MaxCalls
    /\ UNCHANGED <<version, pane, answer, preview>>

DirectoryChanges(d) ==
    /\ pane.open
    /\ \A e \in Dirs : version[e] < MaxVersion
    /\ version' = [version EXCEPT ![d] = @ + 1]
    /\ UNCHANGED <<cache, calls, pane, answer, preview>>

Tick ==
    /\ pane.open
    /\ \E i \in DOMAIN cache : cache[i].age < Ttl
    /\ cache' = [i \in DOMAIN cache |-> [cache[i] EXCEPT !.age = IF @ < Ttl THEN @ + 1 ELSE @]]
    /\ UNCHANGED <<version, calls, pane, answer, preview>>

-----------------------------------------------------------------------------
\* The constructor of a pane at Root ends with refresh().
Init ==
    /\ version = [d \in Dirs |-> 0]
    /\ cache = <<>>
    /\ calls = {NewCall("current", Root)}
    /\ pane = [path |-> Root, chosen |-> None, shown |-> Root, ver |-> 0, status |-> "loading",
               open |-> TRUE, forced |-> FALSE, pressed |-> 0]
    /\ answer = [dir |-> Root, current |-> None, parent |-> 0]
    /\ preview = [asked |-> None, timer |-> FALSE, content |-> None]

Next ==
    \/ ContextActions
    \/ PreviewTimerFires
    \/ Destroy
    \/ \E c \in calls : Reads(c) \/ ListingEnds(c) \/ ListingFails(c)
    \/ \E d \in Dirs, force \in BOOLEAN : OtherPaneLists(d, force)
    \/ \E d \in Dirs : DirectoryChanges(d)
    \/ Tick

Spec == Init /\ [][Next]_vars

-----------------------------------------------------------------------------
(* Properties *)

\* A pane that has stopped loading without an error lists the directory it stands for,
\* whichever navigations, refreshes and late listings came between: a later refresh is
\* never swallowed by an earlier one.
ShownIsAsked == pane.open /\ pane.status = "shown" => pane.shown = pane.path

\* What a refresh by the user shows is at least as new as the moment of the key press,
\* although other panes fill the cache with listings that started earlier.
ForcedIsFresh == pane.status = "shown" /\ pane.forced => pane.ver >= pane.pressed

\* The preview is of the entry that was scheduled last, or empty while that is loaded;
\* only the delay before the timer shows the entry before.  Nothing loads for ever
\* unseen: an empty preview has a timer or a listing that will fill it.
PreviewIsLatest ==
    pane.open /\ ~preview.timer =>
        /\ preview.content \in {None, preview.asked}
        /\ preview.content = None /\ preview.asked # None =>
             \E c \in calls : c.for = "preview" /\ c.dir = preview.asked

\* The list and the preview show what was asked for last, although listings end in
\* any order.
Consistent ==
  /\ TypeOK
  /\ ShownIsAsked
  /\ PreviewIsLatest

\* A destroyed pane cannot re-enter rendering: nothing it shows changes any more,
\* although its listings and its timer end after it.
DestroyedIsSilent ==
    [][~pane.open => UNCHANGED <<pane, preview>>]_vars

\* Refreshes are coalesced without losing one: what is shown after a refresh by the user
\* is as new as it, also when a page change or a search replaced it before its answer.
\* The code does not keep this: README.md, "Known divergences".
RefreshIsNotLost == pane.status = "shown" => pane.ver >= pane.pressed
=============================================================================
