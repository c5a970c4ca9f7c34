------------------------- MODULE FileBrowsingProofs -------------------------
(***************************************************************************)
(* Theorems about FileBrowsing, for any directories and entries, any       *)
(* limits of the cache and any number of changes and calls.                *)
(***************************************************************************)
EXTENDS FileBrowsing, SequenceTheorems, WellFoundedInduction, TLAPS

-----------------------------------------------------------------------------
(* The inductive invariant                                                 *)

\* The cache is a sequence of snapshots, at most one of each directory.
IsCache(c) ==
  /\ c \in Seq(Snapshot)
  /\ \A i, j \in DOMAIN c : c[i].dir = c[j].dir => i = j

Panes ==
  [path : Dirs, chosen : Entries \cup {None}, shown : Dirs, ver : 0..MaxVersion,
   status : {"loading", "shown", "failed"}, open : BOOLEAN,
   forced : BOOLEAN, pressed : 0..MaxVersion]
Answers == [dir : Dirs, current : 0..MaxVersion \cup {None}, parent : {0, None}]
Previewed ==
  [asked : Entries \cup {None}, timer : BOOLEAN, content : Entries \cup {None}]

Typed ==
  /\ version \in [Dirs -> 0..MaxVersion]
  /\ IsCache(cache)
  /\ calls \subseteq Call
  /\ pane \in Panes
  /\ answer \in Answers
  /\ preview \in Previewed

\* A refresh under way has not all its answers, and is of the directory the pane is at.
AnswerIsPartial == ~Complete(answer)
LoadingIsOfPath == pane.open /\ pane.status = "loading" => answer.dir = pane.path

\* The calls of a refresh belong to the one under way: none of them outlives it, each
\* asks for what has not come, and there is one for each answer.
RefreshIsLoading ==
  \A c \in calls : c.for \in Refreshing => pane.open /\ pane.status = "loading"
CurrentIsMissing ==
  \A c \in calls : c.for = "current" => c.dir = answer.dir /\ answer.current = None
ParentIsMissing == \A c \in calls : c.for = "parent" => answer.parent = None
OneCallEach == \A c, e \in calls : c.for \in Refreshing /\ e.for = c.for => e = c

\* While a refresh by the user is under way, the directory is as new as the key press,
\* and so is every listing of it that was read for the refresh.
PressedBefore ==
  pane.open /\ pane.status = "loading" /\ pane.forced =>
    /\ pane.pressed <= version[pane.path]
    /\ answer.current # None => pane.pressed <= answer.current
    /\ \A c \in calls : c.for = "current" /\ c.reading => pane.pressed <= c.ver

\* The timer and the listings of the preview belong to an open pane, and the listings
\* to the entry scheduled last.
TimerIsOpen == preview.timer => pane.open
PreviewIsOfAsked ==
  \A c \in calls : c.for = "preview" => pane.open /\ c.dir = preview.asked

Refreshes ==
  /\ AnswerIsPartial
  /\ LoadingIsOfPath
  /\ RefreshIsLoading
  /\ CurrentIsMissing
  /\ ParentIsMissing
  /\ OneCallEach
  /\ PressedBefore
  /\ ShownIsAsked
  /\ ForcedIsFresh

Previews ==
  /\ TimerIsOpen
  /\ PreviewIsOfAsked
  /\ PreviewIsLatest

IInv ==
  /\ Typed
  /\ Refreshes
  /\ Previews

-----------------------------------------------------------------------------
(* The cache                                                               *)

\* Dropping a directory keeps the cache a map and leaves no place of it.
LEMMA ForgetKeeps ==
  ASSUME NEW c, IsCache(c), NEW d
  PROVE  IsCache(Forget(c, d)) /\ Places(Forget(c, d), d) = {}
<1>1. CASE Places(c, d) = {}
  BY <1>1 DEF Forget
<1>2. CASE Places(c, d) # {}
  <2> DEFINE k == CHOOSE i \in Places(c, d) : TRUE
             a == SubSeq(c, 1, k - 1)
             b == SubSeq(c, k + 1, Len(c))
  <2>1. k \in Places(c, d)
    BY <1>2
  <2>2. Forget(c, d) = a \o b
    BY <1>2 DEF Forget, RemoveAt
  <2> HIDE DEF k
  <2>3. c \in Seq(Snapshot) /\ Len(c) \in Nat /\ DOMAIN c = 1..Len(c)
    BY DEF IsCache
  <2>4. k \in 1..Len(c) /\ c[k].dir = d
    BY <2>1, <2>3 DEF Places
  <2>5. /\ a \in Seq(Snapshot) /\ Len(a) = k - 1
        /\ \A i \in 1..(k - 1) : a[i] = c[i]
    <3>1. \A i \in 1..(k - 1) : c[i] \in Snapshot
      BY <2>3, <2>4, ElementOfSeq
    <3> QED
      BY <2>4, <3>1, SubSeqProperties
  <2>6. /\ b \in Seq(Snapshot) /\ Len(b) = Len(c) - k
        /\ \A i \in 1..(Len(c) - k) : b[i] = c[k + i]
    <3>1. \A i \in (k + 1)..Len(c) : c[i] \in Snapshot
      BY <2>3, <2>4, ElementOfSeq
    <3>2. /\ b \in Seq(Snapshot)
          /\ Len(b) = IF k + 1 <= Len(c) THEN Len(c) - (k + 1) + 1 ELSE 0
          /\ \A i \in 1..(Len(c) - (k + 1) + 1) : b[i] = c[k + 1 + i - 1]
      BY <2>3, <2>4, <3>1, SubSeqProperties
    <3>3. Len(c) - (k + 1) + 1 = Len(c) - k
      BY <2>3, <2>4
    <3>4. Len(b) = Len(c) - k
      <4> HIDE DEF b
      <4>1. CASE k = Len(c)
        BY <4>1, <2>3, <2>4, <3>2
      <4>2. CASE k # Len(c)
        <5>1. k + 1 <= Len(c)
          <6>1. k \in Nat /\ Len(c) \in Nat /\ k <= Len(c)
            BY <2>3, <2>4
          <6> QED
            BY <4>2, <6>1
        <5>2. Len(b) = Len(c) - (k + 1) + 1
          BY <3>2, <5>1
        <5> QED
          BY <3>3, <5>2
      <4> QED
        BY <4>1, <4>2
    <3>5. ASSUME NEW i \in 1..(Len(c) - k) PROVE b[i] = c[k + i]
      <4>1. b[i] = c[k + 1 + i - 1]
        BY <3>2, <3>3
      <4>2. k + 1 + i - 1 = k + i
        BY <2>3, <2>4
      <4> QED
        BY <4>1, <4>2
    <3> HIDE DEF b
    <3> QED
      BY <3>2, <3>4, <3>5
  <2> HIDE DEF a, b
  <2>7. /\ a \o b \in Seq(Snapshot) /\ Len(a \o b) = Len(c) - 1
        /\ \A i \in 1..(Len(c) - 1) : (a \o b)[i] = IF i < k THEN c[i] ELSE c[i + 1]
    <3>1. /\ a \o b \in Seq(Snapshot)
          /\ Len(a \o b) = Len(a) + Len(b)
          /\ \A i \in 1..(Len(a) + Len(b)) :
               (a \o b)[i] = IF i <= Len(a) THEN a[i] ELSE b[i - Len(a)]
      BY <2>5, <2>6, ConcatProperties
    <3>2. ASSUME NEW i \in 1..(Len(c) - 1)
          PROVE  (a \o b)[i] = IF i < k THEN c[i] ELSE c[i + 1]
      <4>1. CASE i < k
        BY <4>1, <2>3, <2>4, <2>5, <2>6, <3>1
      <4>2. CASE ~(i < k)
        <5>1. i - (k - 1) \in 1..(Len(c) - k) /\ k + (i - (k - 1)) = i + 1
          BY <4>2, <2>3, <2>4
        <5>2. (a \o b)[i] = b[i - (k - 1)]
          <6>1. /\ Len(a) = k - 1 /\ ~(i <= Len(a))
                /\ i \in 1..(Len(a) + Len(b))
            BY <4>2, <2>3, <2>4, <2>5, <2>6
          <6>2. (a \o b)[i] = b[i - Len(a)]
            BY <3>1, <6>1
          <6> QED
            BY <6>1, <6>2
        <5>3. b[i - (k - 1)] = c[i + 1]
          BY <2>6, <5>1
        <5> QED
          BY <4>2, <5>2, <5>3
      <4> QED
        BY <4>1, <4>2
    <3> QED
      BY <2>3, <2>4, <2>5, <2>6, <3>1, <3>2
  <2>8. DOMAIN (a \o b) = 1..(Len(c) - 1)
    BY <2>7
  <2>9. \A i, j \in 1..Len(c) : c[i].dir = c[j].dir => i = j
    BY <2>3 DEF IsCache
  <2>10. IsCache(a \o b)
    <3>1. ASSUME NEW i \in 1..(Len(c) - 1), NEW j \in 1..(Len(c) - 1),
                 (a \o b)[i].dir = (a \o b)[j].dir
          PROVE  i = j
      <4> DEFINE At(n) == IF n < k THEN n ELSE n + 1
      <4>1. At(i) \in 1..Len(c) /\ At(j) \in 1..Len(c)
        BY <2>3, <2>4
      <4>2. (a \o b)[i] = c[At(i)] /\ (a \o b)[j] = c[At(j)]
        BY <2>7
      <4>3. At(i) = At(j)
        <5> HIDE DEF At
        <5> QED
          BY <2>9, <3>1, <4>1, <4>2
      <4> QED
        BY <2>3, <2>4, <4>3
    <3> QED
      BY <2>7, <2>8, <3>1 DEF IsCache
  <2>11. Places(a \o b, d) = {}
    <3>1. ASSUME NEW i \in 1..(Len(c) - 1) PROVE (a \o b)[i].dir # d
      BY <2>3, <2>4, <2>7, <2>9
    <3> QED
      BY <2>8, <3>1 DEF Places
  <2> QED
    BY <2>2, <2>10, <2>11
<1> QED
  BY <1>1, <1>2

\* A snapshot of a directory that is not in the cache can be added to it.
LEMMA AppendKeeps ==
  ASSUME NEW c, IsCache(c), NEW s \in Snapshot, Places(c, s.dir) = {}
  PROVE  IsCache(Append(c, s))
<1>1. c \in Seq(Snapshot) /\ Len(c) \in Nat /\ DOMAIN c = 1..Len(c)
  BY DEF IsCache
<1>2. /\ Append(c, s) \in Seq(Snapshot)
      /\ Len(Append(c, s)) = Len(c) + 1
      /\ \A i \in 1..Len(c) : Append(c, s)[i] = c[i]
      /\ Append(c, s)[Len(c) + 1] = s
  BY <1>1, AppendProperties
<1>3. DOMAIN Append(c, s) = 1..(Len(c) + 1)
  BY <1>2
<1>4. \A i \in 1..Len(c) : c[i].dir # s.dir
  BY <1>1 DEF Places
<1>5. \A i, j \in 1..Len(c) : c[i].dir = c[j].dir => i = j
  BY <1>1 DEF IsCache
<1>6. ASSUME NEW i \in 1..(Len(c) + 1), NEW j \in 1..(Len(c) + 1),
             Append(c, s)[i].dir = Append(c, s)[j].dir
      PROVE  i = j
  BY <1>1, <1>2, <1>4, <1>5, <1>6
<1> QED
  BY <1>2, <1>3, <1>6 DEF IsCache

\* A valid snapshot is one of the cache, of the directory that is looked up.
LEMMA CachedIsSnapshot ==
  ASSUME NEW c, IsCache(c), NEW d, Cached(c, d) # {}
  PROVE  LET s == CHOOSE s \in Cached(c, d) : TRUE IN s \in Snapshot /\ s.dir = d
<1> DEFINE s == CHOOSE s \in Cached(c, d) : TRUE
<1>1. s \in Cached(c, d)
  OBVIOUS
<1> HIDE DEF s
<1>2. PICK j \in DOMAIN c : s = c[j] /\ c[j].dir = d
  BY <1>1 DEF Cached
<1>3. c[j] \in Snapshot
  BY <1>2, ElementOfSeq, LenProperties DEF IsCache
<1> QED
  BY <1>2, <1>3 DEF s

\* A lookup keeps the cache a map.
LEMMA TouchedKeeps ==
  ASSUME NEW c, IsCache(c), NEW d
  PROVE  IsCache(Touched(c, d))
<1>1. IsCache(Forget(c, d)) /\ Places(Forget(c, d), d) = {}
  BY ForgetKeeps
<1>2. CASE Cached(c, d) = {}
  BY <1>1, <1>2 DEF Touched
<1>3. CASE Cached(c, d) # {}
  BY <1>1, <1>3, CachedIsSnapshot, AppendKeeps DEF Touched
<1> QED
  BY <1>2, <1>3

\* A lookup gives the version of a snapshot, or None if there is no valid one.
LEMMA HitType ==
  ASSUME NEW c, IsCache(c), NEW d
  PROVE  Hit(c, d) \in 0..MaxVersion \cup {None}
<1>1. CASE Cached(c, d) = {}
  BY <1>1 DEF Hit
<1>2. CASE Cached(c, d) # {}
  BY <1>2, CachedIsSnapshot DEF Hit, Snapshot
<1> QED
  BY <1>1, <1>2

\* What refresh: true has dropped is not found by the lookup after it.
LEMMA InvalidatedMisses ==
  ASSUME NEW c, IsCache(c), NEW d
  PROVE  Hit(Touched(Invalidated(c, d), d), d) = None
<1> DEFINE f == Forget(c, d)
<1>1. IsCache(f) /\ Places(f, d) = {}
  BY ForgetKeeps
<1>2. Cached(f, d) = {}
  BY <1>1 DEF Cached, Places
<1>3. Forget(f, d) = f
  BY <1>1 DEF Forget
<1>4. Touched(f, d) = f
  BY <1>2, <1>3 DEF Touched
<1> QED
  BY <1>2, <1>4 DEF Hit, Invalidated

\* The fold over no indices is the base: an empty cache counts no entries.
LEMMA NothingCountsNothing == Total(<<>>) = 0
<1> DEFINE Add(i, n) == n + Size[<<>>[i].dir]
           Step(g, s) == IF s = {} THEN 0
                         ELSE LET x == CHOOSE x \in s : TRUE IN Add(x, g[s \ {x}])
           iter == CHOOSE g : g = [s \in SUBSET {} |-> Step(g, s)]
<1>1. Total(<<>>) = iter[{}]
  <2>1. DOMAIN <<>> = {}
    OBVIOUS
  <2>2. Total(<<>>) = FoldSet(Add, 0, {})
    BY <2>1 DEF Total
  <2> QED
    BY <2>2 DEF FoldSet, MapThenFoldSet
<1>2. \E g : g = [s \in SUBSET {} |-> Step(g, s)]
  <2> DEFINE h == [s \in SUBSET {} |-> 0]
  <2>1. h = [s \in SUBSET {} |-> Step(h, s)]
    OBVIOUS
  <2> QED
    BY <2>1
<1>3. iter = [s \in SUBSET {} |-> Step(iter, s)]
  BY <1>2
<1> HIDE DEF iter
<1>4. iter[{}] = Step(iter, {})
  BY <1>3
<1> QED
  BY <1>1, <1>4

\* A nonempty set of natural numbers has a least element.
LEMMA LeastExists ==
  ASSUME NEW S \in SUBSET Nat, S # {}
  PROVE  Min(S) \in S
<1>1. PICK x \in S : \A y \in S : <<y, x>> \notin OpToRel(<, Nat)
  BY WFMin, NatLessThanWellFounded
<1>2. ASSUME NEW y \in S PROVE x <= y
  <2>1. x \in Nat /\ y \in Nat
    OBVIOUS
  <2>2. ~(y < x)
    BY <1>1, <2>1 DEF OpToRel
  <2> QED
    BY <2>1, <2>2
<1> QED
  BY <1>2 DEF Min

\* Dropping the oldest snapshots keeps the cache a map.
LEMMA TrimmedKeeps ==
  ASSUME NEW c, IsCache(c)
  PROVE  IsCache(Trimmed(c))
<1> DEFINE starts == {i \in 1..(Len(c) + 1) : Fits(SubSeq(c, i, Len(c)))}
           m == Min(starts)
           t == SubSeq(c, m, Len(c))
<1>1. c \in Seq(Snapshot) /\ Len(c) \in Nat /\ DOMAIN c = 1..Len(c)
  BY DEF IsCache
<1>2. Len(c) + 1 \in starts
  <2>1. SubSeq(c, Len(c) + 1, Len(c)) = <<>>
    BY <1>1, SubSeqEmpty
  <2>2. Fits(<<>>)
    BY BrowsingAssumption, NothingCountsNothing, EmptySeq DEF Fits
  <2>3. Len(c) + 1 \in 1..(Len(c) + 1)
    BY <1>1
  <2>4. Fits(SubSeq(c, Len(c) + 1, Len(c)))
    BY <2>1, <2>2
  <2> QED
    BY <2>3, <2>4
<1>3. starts \subseteq Nat
  BY <1>1
<1> HIDE DEF starts
<1>4. m \in starts
  BY <1>2, <1>3, LeastExists
<1>5. m \in 1..(Len(c) + 1)
  BY <1>4 DEF starts
<1>6. Trimmed(c) = t
  BY DEF Trimmed, starts
<1> HIDE DEF m
<1>7. /\ t \in Seq(Snapshot)
      /\ Len(t) = Len(c) - m + 1
      /\ \A i \in 1..(Len(c) - m + 1) : t[i] = c[m + i - 1]
  <2>1. \A i \in m..Len(c) : c[i] \in Snapshot
    BY <1>1, <1>5, ElementOfSeq
  <2> QED
    BY <1>1, <1>5, <2>1, SubSeqProperties
<1> HIDE DEF t
<1>8. DOMAIN t = 1..(Len(c) - m + 1)
  BY <1>7
<1>9. \A i, j \in 1..Len(c) : c[i].dir = c[j].dir => i = j
  BY <1>1 DEF IsCache
<1>10. ASSUME NEW i \in 1..(Len(c) - m + 1), NEW j \in 1..(Len(c) - m + 1),
              t[i].dir = t[j].dir
       PROVE  i = j
  <2>1. t[i] = c[m + i - 1] /\ t[j] = c[m + j - 1]
    BY <1>7
  <2>2. m + i - 1 \in 1..Len(c) /\ m + j - 1 \in 1..Len(c)
    BY <1>1, <1>5
  <2>3. m + i - 1 = m + j - 1
    BY <1>9, <1>10, <2>1, <2>2
  <2> QED
    BY <1>5, <2>3
<1> QED
  BY <1>6, <1>7, <1>8, <1>10 DEF IsCache

\* Storing a listing keeps the cache a map.
LEMMA StoredKeeps ==
  ASSUME NEW c, IsCache(c), NEW d \in Dirs, NEW v \in 0..MaxVersion
  PROVE  IsCache(Stored(c, d, v))
<1> DEFINE s == [dir |-> d, ver |-> v, age |-> 0]
<1>1. s \in Snapshot /\ s.dir = d
  BY BrowsingAssumption DEF Snapshot
<1>2. IsCache(Forget(c, d)) /\ Places(Forget(c, d), d) = {}
  BY ForgetKeeps
<1> HIDE DEF s
<1>3. IsCache(Append(Forget(c, d), s))
  BY <1>1, <1>2, AppendKeeps
<1>4. IsCache(Trimmed(Append(Forget(c, d), s)))
  BY <1>3, TrimmedKeeps
<1> QED
  BY <1>4 DEF Stored, s

-----------------------------------------------------------------------------
(* What steps have in common                                               *)

LEMMA KidsAreEntries == ASSUME NEW d \in Dirs PROVE Kids[d] \subseteq Entries
  BY DEF Entries

LEMMA ParentIsDirectory == ASSUME NEW d \in Dirs PROVE Parent(d) \in Dirs
  BY DEF Parent

LEMMA NewCallType ==
  ASSUME NEW w \in Waiters, NEW d \in Dirs
  PROVE  /\ NewCall(w, d) \in Call
         /\ NewCall(w, d).for = w /\ NewCall(w, d).dir = d /\ NewCall(w, d).reading = FALSE
  BY BrowsingAssumption DEF NewCall, Call

\* A step that leaves the refresh alone.
LEMMA RefreshUntouched ==
  ASSUME Refreshes,
         \A c \in calls' : c.for \in Refreshing => c \in calls,
         answer' = answer, version' = version,
         pane'.path = pane.path, pane'.shown = pane.shown, pane'.ver = pane.ver,
         pane'.status = pane.status, pane'.open = pane.open,
         pane'.forced = pane.forced, pane'.pressed = pane.pressed
  PROVE  Refreshes'
<1>1. AnswerIsPartial' /\ LoadingIsOfPath' /\ ShownIsAsked' /\ ForcedIsFresh'
  BY DEF Refreshes, AnswerIsPartial, LoadingIsOfPath, ShownIsAsked, ForcedIsFresh
<1>2. RefreshIsLoading' /\ OneCallEach'
  BY DEF Refreshes, RefreshIsLoading, OneCallEach
<1>3. CurrentIsMissing' /\ ParentIsMissing'
  BY DEF Refreshes, CurrentIsMissing, ParentIsMissing, Refreshing
<1>4. PressedBefore'
  BY DEF Refreshes, PressedBefore, Refreshing
<1> QED
  BY <1>1, <1>2, <1>3, <1>4 DEF Refreshes

\* A step that leaves the preview alone.
LEMMA PreviewUntouched ==
  ASSUME Previews, preview' = preview, pane'.open = pane.open,
         \A c \in calls' : c.for = "preview" =>
            \E e \in calls : e.for = "preview" /\ e.dir = c.dir,
         \A e \in calls : e.for = "preview" =>
            \E c \in calls' : c.for = "preview" /\ c.dir = e.dir
  PROVE  Previews'
<1>1. TimerIsOpen' /\ PreviewIsOfAsked'
  BY DEF Previews, TimerIsOpen, PreviewIsOfAsked
<1>2. PreviewIsLatest'
  BY DEF Previews, PreviewIsLatest
<1> QED
  BY <1>1, <1>2 DEF Previews

\* A step that schedules the preview of another entry.
LEMMA PreviewScheduled ==
  ASSUME pane'.open, preview'.timer, \A c \in calls' : c.for # "preview"
  PROVE  Previews'
  BY DEF Previews, TimerIsOpen, PreviewIsOfAsked, PreviewIsLatest

\* A refresh that has ended, well or not, leaves nothing of it behind.
LEMMA RefreshEnds ==
  ASSUME answer' = NoAnswer, \A c \in calls' : c.for \notin Refreshing,
         pane'.status # "loading",
         pane'.status = "shown" => pane'.shown = pane'.path,
         pane'.status = "shown" /\ pane'.forced => pane'.pressed <= pane'.ver
  PROVE  Refreshes'
<1>1. AnswerIsPartial'
  BY DEF AnswerIsPartial, Complete, NoAnswer, Refreshing
<1>2. LoadingIsOfPath' /\ PressedBefore'
  BY DEF LoadingIsOfPath, PressedBefore
<1>3. RefreshIsLoading' /\ CurrentIsMissing' /\ ParentIsMissing' /\ OneCallEach'
  BY DEF RefreshIsLoading, CurrentIsMissing, ParentIsMissing, OneCallEach, Refreshing
<1>4. ShownIsAsked' /\ ForcedIsFresh'
  BY DEF ShownIsAsked, ForcedIsFresh
<1> QED
  BY <1>1, <1>2, <1>3, <1>4 DEF Refreshes

\* What setEntries() does to the pane, and whether or not it selects a row.
LEMMA ShowEffect ==
  ASSUME NEW view \in Panes, NEW got \in Answers, got.current # None, NEW cs,
         Show(view, got, cs), preview \in Previewed
  PROVE  /\ pane' \in Panes
         /\ pane'.path = view.path /\ pane'.open = view.open /\ pane'.status = "shown"
         /\ pane'.forced = view.forced /\ pane'.pressed = view.pressed
         /\ pane'.shown = got.dir /\ pane'.ver = got.current
         /\ \/ calls' = cs /\ preview' = preview
            \/ calls' = Aborted(cs, {"preview"}) /\ preview'.timer /\ preview' \in Previewed
<1> DEFINE next == [view EXCEPT !.shown = got.dir, !.ver = got.current, !.status = "shown"]
<1>1. /\ next \in Panes
      /\ next.path = view.path /\ next.open = view.open /\ next.status = "shown"
      /\ next.forced = view.forced /\ next.pressed = view.pressed
      /\ next.shown = got.dir /\ next.ver = got.current
  BY DEF Panes, Answers
<1>2. \/ pane' = next /\ calls' = cs /\ preview' = preview
      \/ \E e \in Kids[got.dir] : SelectRow(next, e, cs)
  BY DEF Show
<1> HIDE DEF next
<1>3. CASE pane' = next /\ calls' = cs /\ preview' = preview
  BY <1>1, <1>3
<1>4. ASSUME NEW e \in Kids[got.dir], SelectRow(next, e, cs)
      PROVE  /\ pane' \in Panes
             /\ pane'.path = next.path /\ pane'.open = next.open
             /\ pane'.status = next.status /\ pane'.forced = next.forced
             /\ pane'.pressed = next.pressed
             /\ pane'.shown = next.shown /\ pane'.ver = next.ver
             /\ calls' = Aborted(cs, {"preview"}) /\ preview'.timer
             /\ preview' \in Previewed
  <2>1. e \in Entries
    BY KidsAreEntries DEF Answers
  <2>2. pane' = [next EXCEPT !.chosen = e]
    BY <1>4 DEF SelectRow
  <2>3. preview' = [preview EXCEPT !.asked = e, !.timer = TRUE]
        /\ calls' = Aborted(cs, {"preview"})
    BY <1>4 DEF SelectRow, SchedulePreview
  <2>4. preview' \in Previewed /\ preview'.timer
    BY <2>1, <2>3 DEF Previewed
  <2> QED
    BY <1>1, <2>1, <2>2, <2>3, <2>4 DEF Panes
<1> QED
  BY <1>1, <1>2, <1>3, <1>4

-----------------------------------------------------------------------------
(* The steps of the pane                                                   *)

\* refresh(), of the directory the pane is at or of another, by the user or not.
LEMMA RefreshKeeps ==
  ASSUME IInv, pane.open, NEW view \in Panes, view.open, NEW force \in BOOLEAN,
         RefreshFor(view, force)
  PROVE  IInv'
<1> DEFINE d == view.path
           up == Parent(d)
           ready == Touched(IF force THEN Invalidated(cache, d) ELSE cache, d)
           got == [dir |-> d, current |-> Hit(ready, d),
                   parent |-> IF up # d /\ Cached(ready, up) = {} THEN None ELSE 0]
           asked == {w \in Refreshing : got[w] = None}
           cs == Aborted(calls, Refreshing)
                   \cup {NewCall(w, IF w = "current" THEN d ELSE up) : w \in asked}
           pressed == IF force THEN version[d]
                      ELSE IF pane.status = "loading" /\ pane.path = d THEN pane.pressed
                      ELSE 0
           next == [view EXCEPT !.forced = force, !.pressed = pressed]
<1>1. /\ cache' = (IF up = d THEN ready ELSE Touched(ready, up))
      /\ answer' = (IF Complete(got) THEN NoAnswer ELSE got)
      /\ IF Complete(got)
         THEN Show(next, got, cs)
         ELSE pane' = [next EXCEPT !.status = "loading"] /\ calls' = cs /\ preview' = preview
      /\ version' = version
  BY DEF RefreshFor
<1>2. d \in Dirs /\ up \in Dirs
  BY ParentIsDirectory DEF Panes
<1>3. /\ version \in [Dirs -> 0..MaxVersion] /\ IsCache(cache) /\ calls \subseteq Call
      /\ pane \in Panes /\ answer \in Answers /\ preview \in Previewed
  BY DEF IInv, Typed
<1>4. IsCache(ready) /\ IsCache(cache')
  BY <1>1, <1>3, ForgetKeeps, TouchedKeeps DEF Invalidated
<1>5. /\ got \in Answers /\ got.dir = d
      /\ force => got.current = None
  <2>1. Hit(ready, d) \in 0..MaxVersion \cup {None}
    BY <1>4, HitType
  <2>2. force => Hit(ready, d) = None
    BY <1>3, InvalidatedMisses
  <2> HIDE DEF ready
  <2> QED
    BY <1>2, <2>1, <2>2 DEF Answers
<1>6. pressed \in 0..MaxVersion
  BY <1>2, <1>3, BrowsingAssumption DEF Panes
<1>7. /\ next \in Panes /\ next.path = d /\ next.open = view.open
      /\ next.forced = force /\ next.pressed = pressed
  BY <1>6 DEF Panes
<1>8. /\ Complete(got) <=> got.current # None /\ got.parent # None
      /\ asked = {w \in {"current"} : got.current = None}
                   \cup {w \in {"parent"} : got.parent = None}
  BY DEF Complete, Refreshing
<1> DEFINE Asks(w) == IF w = "current" THEN got.current = None ELSE got.parent = None
           Of(w) == IF w = "current" THEN d ELSE up
<1>9. \A c \in cs :
        \/ c \in calls /\ c.for \notin Refreshing
        \/ \E w \in Refreshing : Asks(w) /\ c = NewCall(w, Of(w))
  BY <1>8 DEF Aborted, Refreshing
<1>10. \A c \in calls : c.for \notin Refreshing => c \in cs
  BY DEF Aborted
<1> HIDE DEF got, ready, up, pressed, next, cs
<1>11. \A w \in Refreshing :
         /\ Of(w) \in Dirs /\ NewCall(w, Of(w)) \in Call
         /\ NewCall(w, Of(w)).for = w /\ NewCall(w, Of(w)).dir = Of(w)
         /\ NewCall(w, Of(w)).reading = FALSE
  <2> SUFFICES ASSUME NEW w \in Refreshing
               PROVE  /\ Of(w) \in Dirs /\ NewCall(w, Of(w)) \in Call
                      /\ NewCall(w, Of(w)).for = w /\ NewCall(w, Of(w)).dir = Of(w)
                      /\ NewCall(w, Of(w)).reading = FALSE
    OBVIOUS
  <2>1. Of(w) \in Dirs
    <3> HIDE DEF d
    <3> QED
      BY <1>2
  <2>2. w \in Waiters
    BY DEF Refreshing, Waiters
  <2> HIDE DEF Of
  <2> QED
    BY <2>1, <2>2, NewCallType
<1> HIDE DEF Of, Asks, asked, d
<1>12. cs \subseteq Call
  BY <1>3, <1>9, <1>11
<1>13. /\ \A c \in cs : c.for = "preview" => c \in calls
       /\ \A c \in calls : c.for = "preview" => c \in cs
  BY <1>9, <1>10, <1>11 DEF Refreshing
<1>14. CASE Complete(got)
  <2>1. got.current # None /\ got.parent # None /\ answer' = NoAnswer /\ Show(next, got, cs)
    BY <1>1, <1>8, <1>14
  <2>2. /\ pane' \in Panes
        /\ pane'.path = d /\ pane'.open = view.open /\ pane'.status = "shown"
        /\ pane'.forced = force /\ pane'.shown = d
        /\ \/ calls' = cs /\ preview' = preview
           \/ calls' = Aborted(cs, {"preview"}) /\ preview'.timer /\ preview' \in Previewed
    BY <1>3, <1>5, <1>7, <2>1, ShowEffect
  <2>3. \A c \in cs : c.for \notin Refreshing
    BY <1>9, <1>11, <2>1 DEF Asks
  <2>4. calls' \subseteq cs /\ calls' \subseteq Call
    BY <1>12, <2>2 DEF Aborted
  <2>5. Typed'
    <3>1. version' \in [Dirs -> 0..MaxVersion] /\ answer' \in Answers
      BY <1>1, <1>3, <2>1, BrowsingAssumption DEF NoAnswer, Answers
    <3>2. preview' \in Previewed
      BY <1>3, <2>2
    <3> QED
      BY <1>4, <2>2, <2>4, <3>1, <3>2 DEF Typed
  <2>6. Refreshes'
    <3>1. force = FALSE
      BY <1>5, <2>1
    <3> QED
      BY <2>1, <2>2, <2>3, <2>4, <3>1, RefreshEnds
  <2>7. Previews'
    <3>1. CASE calls' = cs /\ preview' = preview
      BY <1>13, <2>2, <3>1, PreviewUntouched DEF IInv
    <3>2. CASE calls' = Aborted(cs, {"preview"}) /\ preview'.timer
      <4>1. \A c \in calls' : c.for # "preview"
        BY <3>2 DEF Aborted
      <4> QED
        BY <2>2, <3>2, <4>1, PreviewScheduled
    <3> QED
      BY <2>2, <3>1, <3>2
  <2> QED
    BY <2>5, <2>6, <2>7 DEF IInv
<1>15. CASE ~Complete(got)
  <2>1. /\ answer' = got /\ calls' = cs /\ preview' = preview
        /\ pane' = [next EXCEPT !.status = "loading"]
    BY <1>1, <1>15
  <2>2. /\ pane' \in Panes /\ pane'.path = d /\ pane'.open = view.open
        /\ pane'.status = "loading" /\ pane'.forced = force /\ pane'.pressed = pressed
    BY <1>7, <2>1 DEF Panes
  <2>3. Typed'
    BY <1>1, <1>3, <1>4, <1>5, <1>12, <2>1, <2>2 DEF Typed
  <2>4. \A c \in calls' : c.for \in Refreshing =>
          Asks(c.for) /\ c = NewCall(c.for, Of(c.for)) /\ c.reading = FALSE /\ c.dir = Of(c.for)
    BY <1>9, <1>11, <2>1
  <2>5. AnswerIsPartial' /\ LoadingIsOfPath' /\ ShownIsAsked' /\ ForcedIsFresh'
    BY <1>5, <1>15, <2>1, <2>2
    DEF AnswerIsPartial, LoadingIsOfPath, ShownIsAsked, ForcedIsFresh
  <2>6. RefreshIsLoading' /\ OneCallEach'
    BY <2>2, <2>4 DEF RefreshIsLoading, OneCallEach
  <2>7. CurrentIsMissing' /\ ParentIsMissing'
    BY <1>5, <2>1, <2>4 DEF CurrentIsMissing, ParentIsMissing, Refreshing, Asks, Of
  <2>8. PressedBefore'
    <3>1. force => pressed = version[d]
      BY DEF pressed
    <3>2. version[d] \in 0..MaxVersion /\ 0..MaxVersion \subseteq Nat
      BY <1>2, <1>3, BrowsingAssumption
    <3>3. \A c \in calls' : c.for = "current" => c.reading = FALSE
      BY <2>4 DEF Refreshing
    <3> QED
      BY <1>1, <1>5, <2>1, <2>2, <3>1, <3>2, <3>3 DEF PressedBefore
  <2>9. Previews'
    BY <1>13, <2>1, <2>2, PreviewUntouched DEF IInv
  <2> QED
    BY <2>3, <2>5, <2>6, <2>7, <2>8, <2>9 DEF IInv, Refreshes
<1> QED
  BY <1>14, <1>15

LEMMA RefreshActionKeeps ==
  ASSUME IInv, NEW force \in BOOLEAN, Refresh(force)
  PROVE  IInv'
  BY RefreshKeeps DEF Refresh, StartRefresh, IInv, Typed

LEMMA NavigateKeeps ==
  ASSUME IInv, NEW d \in Dirs, NEW chosen \in Kids[d] \cup {None}, Navigate(d, chosen)
  PROVE  IInv'
<1> DEFINE view == [pane EXCEPT !.path = d, !.chosen = chosen]
<1>1. pane.open /\ RefreshFor(view, FALSE)
  BY DEF Navigate, StartRefresh
<1>2. pane \in Panes
  BY DEF IInv, Typed
<1>3. view \in Panes /\ view.open
  BY <1>1, <1>2, KidsAreEntries DEF Panes
<1> HIDE DEF view
<1> QED
  BY <1>1, <1>3, RefreshKeeps

LEMMA SelectKeeps ==
  ASSUME IInv, NEW e \in Entries, Select(e)
  PROVE  IInv'
<1>1. /\ pane.open
      /\ pane' = [pane EXCEPT !.chosen = e]
      /\ preview' = [preview EXCEPT !.asked = e, !.timer = TRUE]
      /\ calls' = Aborted(calls, {"preview"})
      /\ version' = version /\ cache' = cache /\ answer' = answer
  BY DEF Select, SelectRow, SchedulePreview
<1>2. /\ version \in [Dirs -> 0..MaxVersion] /\ IsCache(cache) /\ calls \subseteq Call
      /\ pane \in Panes /\ answer \in Answers /\ preview \in Previewed
  BY DEF IInv, Typed
<1>3. calls' \subseteq calls /\ \A c \in calls' : c.for # "preview"
  BY <1>1 DEF Aborted
<1>4. /\ pane' \in Panes
      /\ pane'.path = pane.path /\ pane'.shown = pane.shown /\ pane'.ver = pane.ver
      /\ pane'.status = pane.status /\ pane'.open = pane.open
      /\ pane'.forced = pane.forced /\ pane'.pressed = pane.pressed
  BY <1>1, <1>2 DEF Panes
<1>5. preview' \in Previewed /\ preview'.timer
  BY <1>1, <1>2 DEF Previewed
<1>6. Typed'
  BY <1>1, <1>2, <1>3, <1>4, <1>5 DEF Typed
<1>7. Refreshes'
  BY <1>1, <1>3, <1>4, RefreshUntouched DEF IInv
<1>8. Previews'
  BY <1>1, <1>3, <1>4, <1>5, PreviewScheduled
<1> QED
  BY <1>6, <1>7, <1>8 DEF IInv

\* renderPreview(), which lists a folder that the cache does not have.
LEMMA PreviewTimerKeeps ==
  ASSUME IInv, PreviewTimerFires
  PROVE  IInv'
<1> DEFINE e == preview.asked
           wait == e \in Dirs /\ Hit(cache, e) = None
<1>1. /\ preview.timer
      /\ cache' = (IF e \in Dirs THEN Touched(cache, e) ELSE cache)
      /\ calls' = (IF wait THEN calls \cup {NewCall("preview", e)} ELSE calls)
      /\ preview' = Displays([preview EXCEPT !.timer = FALSE], IF wait THEN None ELSE e)
      /\ version' = version /\ pane' = pane /\ answer' = answer
  BY DEF PreviewTimerFires
<1>2. /\ version \in [Dirs -> 0..MaxVersion] /\ IsCache(cache) /\ calls \subseteq Call
      /\ pane \in Panes /\ answer \in Answers /\ preview \in Previewed
  BY DEF IInv, Typed
<1>3. /\ preview' \in Previewed /\ preview'.asked = e /\ preview'.timer = FALSE
      /\ preview'.content = (IF wait THEN None ELSE e)
  BY <1>1, <1>2 DEF Displays, Previewed
<1>4. IsCache(cache')
  BY <1>1, <1>2, TouchedKeeps
<1>5. pane.open
  BY <1>1 DEF IInv, Previews, TimerIsOpen
<1> DEFINE new == NewCall("preview", e)
<1>6. wait => new \in Call /\ new.for = "preview" /\ new.dir = e
  BY NewCallType DEF Waiters
<1> HIDE DEF new, wait, e
<1>7. calls' \subseteq Call
  BY <1>1, <1>2, <1>6 DEF new
<1>8. \A c \in calls' : c \in calls \/ (wait /\ c = new)
  BY <1>1 DEF new
<1>9. Typed'
  BY <1>1, <1>2, <1>3, <1>4, <1>7 DEF Typed
<1>10. Refreshes'
  <2>1. \A c \in calls' : c.for \in Refreshing => c \in calls
    BY <1>6, <1>8 DEF Refreshing
  <2> QED
    BY <1>1, <2>1, RefreshUntouched DEF IInv
<1>11. TimerIsOpen'
  BY <1>3 DEF TimerIsOpen
<1>12. PreviewIsOfAsked'
  BY <1>1, <1>3, <1>5, <1>6, <1>8 DEF IInv, Previews, PreviewIsOfAsked, e
<1>13. PreviewIsLatest'
  <2>1. CASE wait
    <3>1. new \in calls'
      BY <1>1, <2>1 DEF new
    <3> QED
      BY <1>3, <1>6, <2>1, <3>1 DEF PreviewIsLatest
  <2>2. CASE ~wait
    BY <1>3, <2>2 DEF PreviewIsLatest
  <2> QED
    BY <2>1, <2>2
<1> QED
  BY <1>9, <1>10, <1>11, <1>12, <1>13 DEF IInv, Previews

\* destroySelf()
LEMMA DestroyKeeps ==
  ASSUME IInv, Destroy
  PROVE  IInv'
<1>1. /\ pane' = [pane EXCEPT !.open = FALSE]
      /\ calls' = Aborted(calls, Refreshing \cup {"preview"})
      /\ preview' = Displays([preview EXCEPT !.timer = FALSE], None)
      /\ answer' = NoAnswer /\ version' = version /\ cache' = cache
  BY DEF Destroy
<1>2. /\ version \in [Dirs -> 0..MaxVersion] /\ IsCache(cache) /\ calls \subseteq Call
      /\ pane \in Panes /\ answer \in Answers /\ preview \in Previewed
  BY DEF IInv, Typed
<1>3. /\ pane' \in Panes /\ pane'.open = FALSE /\ pane'.status = pane.status
      /\ pane'.forced = pane.forced /\ pane'.ver = pane.ver /\ pane'.pressed = pane.pressed
  BY <1>1, <1>2 DEF Panes
<1>4. preview' \in Previewed /\ preview'.timer = FALSE
  BY <1>1, <1>2 DEF Displays, Previewed
<1>5. /\ calls' \subseteq calls
      /\ \A c \in calls' : c.for \notin Refreshing /\ c.for # "preview"
  BY <1>1 DEF Aborted
<1>6. Typed'
  <2>1. answer' \in Answers
    BY <1>1, BrowsingAssumption DEF NoAnswer, Answers
  <2> QED
    BY <1>1, <1>2, <1>3, <1>4, <1>5, <2>1 DEF Typed
<1>7. Refreshes'
  <2>1. AnswerIsPartial'
    BY <1>1 DEF AnswerIsPartial, Complete, NoAnswer, Refreshing
  <2>2. LoadingIsOfPath' /\ PressedBefore' /\ ShownIsAsked'
    BY <1>3 DEF LoadingIsOfPath, PressedBefore, ShownIsAsked
  <2>3. RefreshIsLoading' /\ CurrentIsMissing' /\ ParentIsMissing' /\ OneCallEach'
    BY <1>5 DEF RefreshIsLoading, CurrentIsMissing, ParentIsMissing, OneCallEach, Refreshing
  <2>4. ForcedIsFresh'
    BY <1>3 DEF IInv, Refreshes, ForcedIsFresh
  <2> QED
    BY <2>1, <2>2, <2>3, <2>4 DEF Refreshes
<1>8. Previews'
  BY <1>3, <1>4, <1>5 DEF Previews, TimerIsOpen, PreviewIsOfAsked, PreviewIsLatest
<1> QED
  BY <1>6, <1>7, <1>8 DEF IInv

-----------------------------------------------------------------------------
(* The steps of list()                                                     *)

LEMMA ReadsKeeps ==
  ASSUME IInv, NEW c \in calls, Reads(c)
  PROVE  IInv'
<1> DEFINE new == [c EXCEPT !.reading = TRUE, !.ver = version[c.dir]]
<1>1. /\ calls' = (calls \ {c}) \cup {new}
      /\ version' = version /\ cache' = cache /\ pane' = pane /\ answer' = answer
      /\ preview' = preview
  BY DEF Reads
<1>2. /\ version \in [Dirs -> 0..MaxVersion] /\ IsCache(cache) /\ calls \subseteq Call
      /\ pane \in Panes /\ answer \in Answers /\ preview \in Previewed
  BY DEF IInv, Typed
<1>3. /\ new \in Call /\ new.for = c.for /\ new.dir = c.dir /\ new.ver = version[c.dir]
  BY <1>2 DEF Call
<1> HIDE DEF new
<1>4. Typed'
  BY <1>1, <1>2, <1>3 DEF Typed
<1>5. Refreshes'
  <2>1. AnswerIsPartial' /\ LoadingIsOfPath' /\ ShownIsAsked' /\ ForcedIsFresh'
    BY <1>1 DEF IInv, Refreshes, AnswerIsPartial, LoadingIsOfPath, ShownIsAsked, ForcedIsFresh
  <2>2. RefreshIsLoading'
    BY <1>1, <1>3 DEF IInv, Refreshes, RefreshIsLoading
  <2>3. CurrentIsMissing' /\ ParentIsMissing'
    BY <1>1, <1>3 DEF IInv, Refreshes, CurrentIsMissing, ParentIsMissing
  <2>4. OneCallEach'
    BY <1>1, <1>3 DEF IInv, Refreshes, OneCallEach
  <2>5. PressedBefore'
    <3>1. c.for = "current" => c.dir = answer.dir
      BY DEF IInv, Refreshes, CurrentIsMissing
    <3>2. pane.open /\ pane.status = "loading" => answer.dir = pane.path
      BY DEF IInv, Refreshes, LoadingIsOfPath
    <3> QED
      BY <1>1, <1>3, <3>1, <3>2 DEF IInv, Refreshes, PressedBefore
  <2> QED
    BY <2>1, <2>2, <2>3, <2>4, <2>5 DEF Refreshes
<1>6. Previews'
  <2>1. \A e \in calls' : e.for = "preview" =>
          \E f \in calls : f.for = "preview" /\ f.dir = e.dir
    BY <1>1, <1>3
  <2>2. \A f \in calls : f.for = "preview" =>
          \E e \in calls' : e.for = "preview" /\ e.dir = f.dir
    BY <1>1, <1>3
  <2> QED
    BY <1>1, <2>1, <2>2, PreviewUntouched DEF IInv
<1> QED
  BY <1>4, <1>5, <1>6 DEF IInv

\* A listing has come: it is cached, and taken by whoever asked for it.
LEMMA ListingEndsKeeps ==
  ASSUME IInv, NEW c \in calls, ListingEnds(c)
  PROVE  IInv'
<1> DEFINE cs == calls \ {c}
           got == CASE c.for = "current" -> [answer EXCEPT !.current = c.ver]
                    [] c.for = "parent" -> [answer EXCEPT !.parent = 0]
                    [] OTHER -> answer
<1>1. /\ c.reading
      /\ cache' = Stored(cache, c.dir, c.ver)
      /\ answer' = (IF Complete(got) THEN NoAnswer ELSE got)
      /\ IF Complete(got)
         THEN Show(pane, got, cs)
         ELSE /\ calls' = cs
              /\ preview' = (IF c.for = "preview" THEN Displays(preview, preview.asked)
                             ELSE preview)
              /\ pane' = pane
      /\ version' = version
  BY DEF ListingEnds
<1>2. /\ version \in [Dirs -> 0..MaxVersion] /\ IsCache(cache) /\ calls \subseteq Call
      /\ pane \in Panes /\ answer \in Answers /\ preview \in Previewed
  BY DEF IInv, Typed
<1>3. c.dir \in Dirs /\ c.ver \in 0..MaxVersion
  BY <1>2 DEF Call
<1>4. IsCache(cache')
  BY <1>1, <1>2, <1>3, StoredKeeps
<1>5. \A a \in Answers : Complete(a) <=> a.current # None /\ a.parent # None
  BY DEF Complete, Refreshing
<1>6. answer.current = None \/ answer.parent = None
  BY <1>2, <1>5 DEF IInv, Refreshes, AnswerIsPartial
<1>7. CASE c.for \in Refreshing
  <2>1. pane.open /\ pane.status = "loading" /\ answer.dir = pane.path
    BY <1>7 DEF IInv, Refreshes, RefreshIsLoading, LoadingIsOfPath
  <2>2. got \in Answers /\ got.dir = answer.dir
    BY <1>2, <1>3 DEF Answers
  <2>3. \/ /\ c.for = "current" /\ answer.current = None
           /\ got.current = c.ver /\ got.parent = answer.parent
        \/ /\ c.for = "parent" /\ answer.parent = None
           /\ got.parent = 0 /\ got.current = answer.current
    BY <1>2, <1>7
    DEF Refreshing, Answers, IInv, Refreshes, CurrentIsMissing, ParentIsMissing
  <2>4. \A e \in cs : e.for # c.for
    BY <1>7 DEF IInv, Refreshes, OneCallEach
  <2>5. pane.forced /\ got.current # None => pane.pressed <= got.current
    BY <1>1, <2>1, <2>3 DEF IInv, Refreshes, PressedBefore
  <2> HIDE DEF got
  <2>6. CASE Complete(got)
    <3>1. got.current # None /\ got.parent # None /\ answer' = NoAnswer /\ Show(pane, got, cs)
      BY <1>1, <1>5, <2>2, <2>6
    <3>2. /\ pane' \in Panes
          /\ pane'.path = pane.path /\ pane'.open = pane.open /\ pane'.status = "shown"
          /\ pane'.forced = pane.forced /\ pane'.pressed = pane.pressed
          /\ pane'.shown = got.dir /\ pane'.ver = got.current
          /\ \/ calls' = cs /\ preview' = preview
             \/ /\ calls' = Aborted(cs, {"preview"}) /\ preview'.timer
                /\ preview' \in Previewed
      BY <1>2, <2>2, <3>1, ShowEffect
    <3>3. \A e \in cs : e.for \notin Refreshing
      BY <1>7, <2>3, <2>4, <3>1
      DEF Refreshing, IInv, Refreshes, CurrentIsMissing, ParentIsMissing
    <3>4. calls' \subseteq cs
      BY <3>2 DEF Aborted
    <3>5. Typed'
      <4>1. answer' \in Answers
        BY <3>1, BrowsingAssumption DEF NoAnswer, Answers
      <4> QED
        BY <1>1, <1>2, <1>4, <3>2, <3>4, <4>1 DEF Typed
    <3>6. Refreshes'
      <4>1. pane'.forced => pane'.pressed <= pane'.ver
        BY <2>5, <3>1, <3>2
      <4> QED
        BY <2>1, <2>2, <3>1, <3>2, <3>3, <3>4, <4>1, RefreshEnds
    <3>7. Previews'
      <4>1. CASE calls' = cs /\ preview' = preview
        BY <1>7, <3>2, <4>1, PreviewUntouched DEF IInv, Refreshing
      <4>2. CASE calls' = Aborted(cs, {"preview"}) /\ preview'.timer
        <5>1. \A e \in calls' : e.for # "preview"
          BY <4>2 DEF Aborted
        <5> QED
          BY <2>1, <3>2, <4>2, <5>1, PreviewScheduled
      <4> QED
        BY <3>2, <4>1, <4>2
    <3> QED
      BY <3>5, <3>6, <3>7 DEF IInv
  <2>7. CASE ~Complete(got)
    <3>1. /\ answer' = got /\ calls' = cs /\ preview' = preview /\ pane' = pane
          /\ version' = version
      BY <1>1, <1>7, <2>7 DEF Refreshing
    <3>2. Typed'
      BY <1>2, <1>4, <2>2, <3>1 DEF Typed
    <3>3. AnswerIsPartial' /\ LoadingIsOfPath' /\ ShownIsAsked' /\ ForcedIsFresh'
      BY <2>2, <2>7, <3>1
      DEF IInv, Refreshes, AnswerIsPartial, LoadingIsOfPath, ShownIsAsked, ForcedIsFresh
    <3>4. RefreshIsLoading' /\ OneCallEach'
      BY <3>1 DEF IInv, Refreshes, RefreshIsLoading, OneCallEach
    <3>5. CurrentIsMissing' /\ ParentIsMissing'
      BY <2>2, <2>3, <2>4, <3>1 DEF IInv, Refreshes, CurrentIsMissing, ParentIsMissing
    <3>6. PressedBefore'
      BY <2>5, <3>1 DEF IInv, Refreshes, PressedBefore
    <3>7. Previews'
      BY <1>7, <3>1, PreviewUntouched DEF IInv, Refreshing
    <3> QED
      BY <3>2, <3>3, <3>4, <3>5, <3>6, <3>7 DEF IInv, Refreshes
  <2> QED
    BY <2>6, <2>7
<1>8. CASE c.for \notin Refreshing
  <2>1. got = answer /\ ~Complete(got)
    BY <1>8 DEF Refreshing, IInv, Refreshes, AnswerIsPartial
  <2> HIDE DEF got
  <2>2. /\ answer' = answer /\ calls' = cs /\ pane' = pane /\ version' = version
        /\ preview' = (IF c.for = "preview" THEN Displays(preview, preview.asked) ELSE preview)
    BY <1>1, <2>1
  <2>3. /\ preview' \in Previewed /\ preview'.asked = preview.asked
        /\ preview'.timer = preview.timer
        /\ c.for = "preview" => preview'.content = preview.asked
    BY <1>2, <2>2 DEF Displays, Previewed
  <2>4. Typed'
    BY <1>2, <1>4, <2>2, <2>3 DEF Typed
  <2>5. Refreshes'
    BY <2>2, RefreshUntouched DEF IInv
  <2>6. CASE c.for = "preview"
    <3>1. c.dir = preview.asked /\ preview.asked # None
      BY <1>3, <2>6, BrowsingAssumption DEF IInv, Previews, PreviewIsOfAsked
    <3>2. TimerIsOpen' /\ PreviewIsOfAsked'
      BY <2>2, <2>3 DEF IInv, Previews, TimerIsOpen, PreviewIsOfAsked
    <3>3. PreviewIsLatest'
      BY <2>3, <2>6, <3>1 DEF PreviewIsLatest
    <3> QED
      BY <2>4, <2>5, <3>2, <3>3 DEF IInv, Previews
  <2>7. CASE c.for # "preview"
    <3>1. Previews'
      BY <2>2, <2>7, PreviewUntouched DEF IInv
    <3> QED
      BY <2>4, <2>5, <3>1 DEF IInv
  <2> QED
    BY <2>6, <2>7
<1> QED
  BY <1>7, <1>8

\* A listing has failed: the refresh it belongs to fails at once, and the listing beside
\* it goes on for the cache.
LEMMA ListingFailsKeeps ==
  ASSUME IInv, NEW c \in calls, ListingFails(c)
  PROVE  IInv'
<1> DEFINE cs == calls \ {c}
           Freed(e) == IF e.for \in Refreshing THEN [e EXCEPT !.for = "other"] ELSE e
<1>1. /\ calls' = (IF c.for \in Refreshing THEN {Freed(e) : e \in cs} ELSE cs)
      /\ pane' = (IF c.for \in Refreshing THEN [pane EXCEPT !.status = "failed"] ELSE pane)
      /\ preview' = (IF c.for = "preview" THEN Displays(preview, preview.asked) ELSE preview)
      /\ answer' = (IF c.for \in Refreshing THEN NoAnswer ELSE answer)
      /\ version' = version /\ cache' = cache
  BY DEF ListingFails
<1>2. /\ version \in [Dirs -> 0..MaxVersion] /\ IsCache(cache) /\ calls \subseteq Call
      /\ pane \in Panes /\ answer \in Answers /\ preview \in Previewed
  BY DEF IInv, Typed
<1>3. c.dir \in Dirs
  BY <1>2 DEF Call
<1>4. CASE c.for \in Refreshing
  <2>1. /\ calls' = {Freed(e) : e \in cs} /\ pane' = [pane EXCEPT !.status = "failed"]
        /\ preview' = preview /\ answer' = NoAnswer /\ version' = version /\ cache' = cache
    BY <1>1, <1>4 DEF Refreshing
  <2>2. /\ pane' \in Panes /\ pane'.status = "failed" /\ pane'.open = pane.open
    BY <1>2, <2>1 DEF Panes
  <2>3. \A e \in calls :
          /\ Freed(e) \in Call /\ Freed(e).dir = e.dir
          /\ Freed(e).for \notin Refreshing
          /\ Freed(e).for = "preview" <=> e.for = "preview"
    BY <1>2 DEF Call, Waiters, Refreshing
  <2> HIDE DEF Freed
  <2>4. calls' \subseteq Call /\ \A e \in calls' : e.for \notin Refreshing
    BY <2>1, <2>3
  <2>5. Typed'
    <3>1. answer' \in Answers
      BY <2>1, BrowsingAssumption DEF NoAnswer, Answers
    <3> QED
      BY <1>2, <2>1, <2>2, <2>4, <3>1 DEF Typed
  <2>6. Refreshes'
    BY <2>1, <2>2, <2>4, RefreshEnds
  <2>7. Previews'
    <3>1. \A e \in calls' : e.for = "preview" =>
            \E f \in calls : f.for = "preview" /\ f.dir = e.dir
      BY <2>1, <2>3
    <3>2. \A f \in calls : f.for = "preview" =>
            \E e \in calls' : e.for = "preview" /\ e.dir = f.dir
      BY <1>4, <2>1, <2>3 DEF Refreshing
    <3> QED
      BY <2>1, <2>2, <3>1, <3>2, PreviewUntouched DEF IInv
  <2> QED
    BY <2>5, <2>6, <2>7 DEF IInv
<1>5. CASE c.for \notin Refreshing
  <2>1. /\ answer' = answer /\ calls' = cs /\ pane' = pane /\ version' = version
        /\ preview' = (IF c.for = "preview" THEN Displays(preview, preview.asked) ELSE preview)
        /\ cache' = cache
    BY <1>1, <1>5
  <2>2. /\ preview' \in Previewed /\ preview'.asked = preview.asked
        /\ preview'.timer = preview.timer
        /\ c.for = "preview" => preview'.content = preview.asked
    BY <1>2, <2>1 DEF Displays, Previewed
  <2>3. Typed'
    BY <1>2, <2>1, <2>2 DEF Typed
  <2>4. Refreshes'
    BY <2>1, RefreshUntouched DEF IInv
  <2>5. CASE c.for = "preview"
    <3>1. c.dir = preview.asked /\ preview.asked # None
      BY <1>3, <2>5, BrowsingAssumption DEF IInv, Previews, PreviewIsOfAsked
    <3>2. TimerIsOpen' /\ PreviewIsOfAsked'
      BY <2>1, <2>2 DEF IInv, Previews, TimerIsOpen, PreviewIsOfAsked
    <3>3. PreviewIsLatest'
      BY <2>2, <2>5, <3>1 DEF PreviewIsLatest
    <3> QED
      BY <2>3, <2>4, <3>2, <3>3 DEF IInv, Previews
  <2>6. CASE c.for # "preview"
    <3>1. Previews'
      BY <2>1, <2>6, PreviewUntouched DEF IInv
    <3> QED
      BY <2>3, <2>4, <3>1 DEF IInv
  <2> QED
    BY <2>5, <2>6
<1> QED
  BY <1>4, <1>5

-----------------------------------------------------------------------------
(* The steps of the others                                                 *)

LEMMA OtherPaneKeeps ==
  ASSUME IInv, NEW d \in Dirs, NEW force \in BOOLEAN, OtherPaneLists(d, force)
  PROVE  IInv'
<1> DEFINE ready == Touched(IF force THEN Invalidated(cache, d) ELSE cache, d)
<1>1. /\ cache' = ready
      /\ calls' = (IF Hit(ready, d) = None THEN calls \cup {NewCall("other", d)} ELSE calls)
      /\ version' = version /\ pane' = pane /\ answer' = answer /\ preview' = preview
  BY DEF OtherPaneLists
<1>2. /\ version \in [Dirs -> 0..MaxVersion] /\ IsCache(cache) /\ calls \subseteq Call
      /\ pane \in Panes /\ answer \in Answers /\ preview \in Previewed
  BY DEF IInv, Typed
<1>3. IsCache(ready)
  BY <1>2, ForgetKeeps, TouchedKeeps DEF Invalidated
<1> HIDE DEF ready
<1>4. NewCall("other", d) \in Call /\ NewCall("other", d).for = "other"
  BY NewCallType DEF Waiters
<1>5. Typed'
  BY <1>1, <1>2, <1>3, <1>4 DEF Typed
<1>6. \A c \in calls' : c.for \in Refreshing => c \in calls
  BY <1>1, <1>4 DEF Refreshing
<1>7. Refreshes'
  BY <1>1, <1>6, RefreshUntouched DEF IInv
<1>8. Previews'
  BY <1>1, <1>4, PreviewUntouched DEF IInv
<1> QED
  BY <1>5, <1>7, <1>8 DEF IInv

LEMMA DirectoryChangesKeeps ==
  ASSUME IInv, NEW d \in Dirs, DirectoryChanges(d)
  PROVE  IInv'
<1>1. /\ version[d] < MaxVersion /\ version' = [version EXCEPT ![d] = @ + 1]
      /\ cache' = cache /\ calls' = calls /\ pane' = pane /\ answer' = answer
      /\ preview' = preview
  BY DEF DirectoryChanges
<1>2. /\ version \in [Dirs -> 0..MaxVersion] /\ IsCache(cache) /\ calls \subseteq Call
      /\ pane \in Panes /\ answer \in Answers /\ preview \in Previewed
  BY DEF IInv, Typed
<1>3. version' \in [Dirs -> 0..MaxVersion] /\ \A e \in Dirs : version[e] <= version'[e]
  BY <1>1, <1>2, BrowsingAssumption
<1>4. Typed'
  BY <1>1, <1>2, <1>3 DEF Typed
<1>5. AnswerIsPartial' /\ LoadingIsOfPath' /\ ShownIsAsked' /\ ForcedIsFresh'
  BY <1>1 DEF IInv, Refreshes, AnswerIsPartial, LoadingIsOfPath, ShownIsAsked, ForcedIsFresh
<1>6. RefreshIsLoading' /\ CurrentIsMissing' /\ ParentIsMissing' /\ OneCallEach'
  BY <1>1
  DEF IInv, Refreshes, RefreshIsLoading, CurrentIsMissing, ParentIsMissing, OneCallEach
<1>7. PressedBefore'
  <2>1. /\ pane.pressed \in Nat /\ version[pane.path] \in Nat /\ version'[pane.path] \in Nat
        /\ version[pane.path] <= version'[pane.path]
    BY <1>2, <1>3, BrowsingAssumption DEF Panes
  <2> QED
    BY <1>1, <2>1 DEF IInv, Refreshes, PressedBefore
<1>8. Previews'
  BY <1>1, PreviewUntouched DEF IInv
<1> QED
  BY <1>4, <1>5, <1>6, <1>7, <1>8 DEF IInv, Refreshes

LEMMA TickKeeps ==
  ASSUME IInv, Tick
  PROVE  IInv'
<1>1. /\ cache' = [i \in DOMAIN cache |->
                     [cache[i] EXCEPT !.age = IF @ < Ttl THEN @ + 1 ELSE @]]
      /\ version' = version /\ calls' = calls /\ pane' = pane /\ answer' = answer
      /\ preview' = preview
  BY DEF Tick
<1>2. /\ version \in [Dirs -> 0..MaxVersion] /\ IsCache(cache) /\ calls \subseteq Call
      /\ pane \in Panes /\ answer \in Answers /\ preview \in Previewed
  BY DEF IInv, Typed
<1>3. IsCache(cache')
  <2>1. cache \in Seq(Snapshot) /\ Len(cache) \in Nat /\ DOMAIN cache = 1..Len(cache)
    BY <1>2 DEF IsCache
  <2>2. DOMAIN cache' = 1..Len(cache)
    BY <1>1, <2>1
  <2>3. ASSUME NEW i \in 1..Len(cache)
        PROVE  cache'[i] \in Snapshot /\ cache'[i].dir = cache[i].dir
    <3>1. cache[i] \in Snapshot
      BY <2>1, ElementOfSeq
    <3>2. cache'[i] = [cache[i] EXCEPT !.age = IF @ < Ttl THEN @ + 1 ELSE @]
      BY <1>1, <2>1
    <3> DEFINE age == IF cache[i].age < Ttl THEN cache[i].age + 1 ELSE cache[i].age
    <3>3. age \in 0..Ttl
      BY <3>1, BrowsingAssumption DEF Snapshot
    <3>4. cache'[i] = [cache[i] EXCEPT !.age = age]
      BY <3>2
    <3> HIDE DEF age
    <3> QED
      BY <3>1, <3>3, <3>4 DEF Snapshot
  <2>4. cache' \in Seq(Snapshot)
    <3>1. cache' \in [1..Len(cache) -> Snapshot]
      BY <1>1, <2>1, <2>3
    <3> QED
      BY <2>1, <3>1, SeqDef
  <2>5. \A i, j \in 1..Len(cache) : cache[i].dir = cache[j].dir => i = j
    BY <1>2, <2>1 DEF IsCache
  <2> QED
    BY <2>2, <2>3, <2>4, <2>5 DEF IsCache
<1>4. Typed'
  BY <1>1, <1>2, <1>3 DEF Typed
<1>5. Refreshes' /\ Previews'
  BY <1>1, RefreshUntouched, PreviewUntouched DEF IInv
<1> QED
  BY <1>4, <1>5 DEF IInv

-----------------------------------------------------------------------------
(* The theorems                                                            *)

LEMMA InitHolds == Init => IInv
<1> SUFFICES ASSUME Init PROVE IInv
  OBVIOUS
<1> DEFINE first == NewCall("current", Root)
<1>1. /\ version = [d \in Dirs |-> 0] /\ cache = <<>> /\ calls = {first}
      /\ pane = [path |-> Root, chosen |-> None, shown |-> Root, ver |-> 0,
                 status |-> "loading", open |-> TRUE, forced |-> FALSE, pressed |-> 0]
      /\ answer = [dir |-> Root, current |-> None, parent |-> 0]
      /\ preview = [asked |-> None, timer |-> FALSE, content |-> None]
  BY DEF Init
<1>2. Root \in Dirs /\ 0 \in 0..MaxVersion
  BY BrowsingAssumption
<1>3. /\ first \in Call /\ first.for = "current" /\ first.dir = Root
      /\ first.reading = FALSE
  BY <1>2, NewCallType DEF Waiters
<1> HIDE DEF first
<1>4. Typed
  <2>1. version \in [Dirs -> 0..MaxVersion]
    BY <1>1, <1>2
  <2>2. IsCache(cache)
    BY <1>1, EmptySeq DEF IsCache
  <2>3. pane \in Panes /\ answer \in Answers /\ preview \in Previewed
    BY <1>1, <1>2 DEF Panes, Answers, Previewed
  <2> QED
    BY <1>1, <1>3, <2>1, <2>2, <2>3 DEF Typed
<1>5. Refreshes
  <2>1. AnswerIsPartial
    BY <1>1 DEF AnswerIsPartial, Complete, Refreshing
  <2>2. LoadingIsOfPath /\ PressedBefore /\ ShownIsAsked /\ ForcedIsFresh
    BY <1>1 DEF LoadingIsOfPath, PressedBefore, ShownIsAsked, ForcedIsFresh
  <2>3. RefreshIsLoading /\ CurrentIsMissing /\ ParentIsMissing /\ OneCallEach
    BY <1>1, <1>3 DEF RefreshIsLoading, CurrentIsMissing, ParentIsMissing, OneCallEach
  <2> QED
    BY <2>1, <2>2, <2>3 DEF Refreshes
<1>6. Previews
  BY <1>1, <1>3 DEF Previews, TimerIsOpen, PreviewIsOfAsked, PreviewIsLatest
<1> QED
  BY <1>4, <1>5, <1>6 DEF IInv

LEMMA NextKeeps == IInv /\ [Next]_vars => IInv'
<1> SUFFICES ASSUME IInv, [Next]_vars PROVE IInv'
  OBVIOUS
<1>1. ASSUME ContextActions PROVE IInv'
  BY <1>1, RefreshActionKeeps, NavigateKeeps, SelectKeeps DEF ContextActions
<1>2. ASSUME PreviewTimerFires PROVE IInv'
  BY <1>2, PreviewTimerKeeps
<1>3. ASSUME Destroy PROVE IInv'
  BY <1>3, DestroyKeeps
<1>4. ASSUME NEW c \in calls, Reads(c) \/ ListingEnds(c) \/ ListingFails(c) PROVE IInv'
  BY <1>4, ReadsKeeps, ListingEndsKeeps, ListingFailsKeeps
<1>5. ASSUME NEW d \in Dirs, NEW force \in BOOLEAN, OtherPaneLists(d, force) PROVE IInv'
  BY <1>5, OtherPaneKeeps
<1>6. ASSUME NEW d \in Dirs, DirectoryChanges(d) PROVE IInv'
  BY <1>6, DirectoryChangesKeeps
<1>7. ASSUME Tick PROVE IInv'
  BY <1>7, TickKeeps
<1>8. CASE UNCHANGED vars
  <2>1. /\ version' = version /\ cache' = cache /\ calls' = calls /\ pane' = pane
        /\ answer' = answer /\ preview' = preview
    BY <1>8 DEF vars
  <2>2. Typed'
    BY <2>1 DEF IInv, Typed
  <2>3. Refreshes' /\ Previews'
    BY <2>1, RefreshUntouched, PreviewUntouched DEF IInv
  <2> QED
    BY <2>2, <2>3 DEF IInv
<1> QED
  BY <1>1, <1>2, <1>3, <1>4, <1>5, <1>6, <1>7, <1>8 DEF Next

\* The invariant holds in every reachable state.
THEOREM Inductive == Spec => []IInv
  BY InitHolds, NextKeeps, PTL DEF Spec

\* A pane that has stopped loading lists the directory it stands for, and the preview is
\* of the entry scheduled last or on its way, for any directories, whatever listings
\* of whatever panes end in whatever order, and however many.
THEOREM PaneShowsWhatWasAsked == Spec => []Consistent
<1>1. IInv => Consistent
  <2> SUFFICES ASSUME IInv PROVE Consistent
    OBVIOUS
  <2>1. \A i \in DOMAIN cache : cache[i] \in Snapshot
    BY ElementOfSeq, LenProperties DEF IInv, Typed, IsCache
  <2>2. TypeOK
    BY <2>1 DEF IInv, Typed, TypeOK, Panes, Answers, Previewed
  <2> QED
    BY <2>2 DEF IInv, Refreshes, Previews, Consistent
<1> QED
  BY <1>1, Inductive, PTL

\* What a refresh by the user shows is at least as new as its key press, for any number of
\* changes of the directories and of listings by other panes that started earlier.
THEOREM RefreshShowsWhatIsThere == Spec => []ForcedIsFresh
<1>1. IInv => ForcedIsFresh
  BY DEF IInv, Refreshes
<1> QED
  BY <1>1, Inductive, PTL

\* A destroyed pane changes nothing that it shows, although listings, its own among them
\* that have been freed by a failure, end after it.
THEOREM DestroyedPaneIsSilent == Spec => DestroyedIsSilent
<1>1. IInv /\ [Next]_vars => [~pane.open => UNCHANGED <<pane, preview>>]_vars
  <2> SUFFICES ASSUME IInv, Next, ~pane.open PROVE pane' = pane /\ preview' = preview
    BY DEF vars
  <2>1. ~ContextActions /\ ~Destroy /\ ~Tick
    BY DEF ContextActions, Refresh, Navigate, Select, Destroy, Tick
  <2>2. ~PreviewTimerFires
    BY DEF PreviewTimerFires, IInv, Previews, TimerIsOpen
  <2>3. \A c \in calls : c.for \notin Refreshing /\ c.for # "preview"
    BY DEF IInv, Refreshes, RefreshIsLoading, Previews, PreviewIsOfAsked
  <2>4. ASSUME NEW c \in calls, Reads(c) PROVE pane' = pane /\ preview' = preview
    BY <2>4 DEF Reads
  <2>5. ASSUME NEW c \in calls, ListingEnds(c) PROVE pane' = pane /\ preview' = preview
    BY <2>3, <2>5 DEF ListingEnds, Refreshing, IInv, Refreshes, AnswerIsPartial
  <2>6. ASSUME NEW c \in calls, ListingFails(c) PROVE pane' = pane /\ preview' = preview
    BY <2>3, <2>6 DEF ListingFails
  <2>7. ASSUME NEW d \in Dirs, NEW force \in BOOLEAN, OtherPaneLists(d, force)
        PROVE  pane' = pane /\ preview' = preview
    BY <2>7 DEF OtherPaneLists
  <2>8. ASSUME NEW d \in Dirs, DirectoryChanges(d) PROVE pane' = pane /\ preview' = preview
    BY <2>8 DEF DirectoryChanges
  <2> QED
    BY <2>1, <2>2, <2>4, <2>5, <2>6, <2>7, <2>8 DEF Next
<1> QED
  BY <1>1, Inductive, PTL DEF Spec, DestroyedIsSilent
=============================================================================
