---------------------------- MODULE WorkspaceProofs ----------------------------
(***************************************************************************)
(* Theorems about Workspace, for any panes, tabs and stored workspaces, and*)
(* about WorkspacePersistence, for any number of changes and any documents *)
(* of older schemas.                                                       *)
(***************************************************************************)
EXTENDS Workspace, WorkspacePersistence, WellFoundedInduction, TLAPS

-----------------------------------------------------------------------------
(* Sequences.                                                              *)

\* The least of some positions.
LEMMA LeastPosition ==
  ASSUME NEW I \in SUBSET Nat, I # {}
  PROVE  Min(I) \in I
<1>1. PICK x \in I : \A y \in I : <<y, x>> \notin OpToRel(<, Nat)
  BY WFMin, NatLessThanWellFounded
<1>2. ASSUME NEW y \in I PROVE x <= y
  <2>1. x \in Nat /\ y \in Nat
    OBVIOUS
  <2>2. ~(y < x)
    BY <1>1, <2>1 DEF OpToRel
  <2> QED
    BY <2>1, <2>2
<1> QED
  BY <1>2 DEF Min

\* Place() finds what is there.
LEMMA PlaceFound ==
  ASSUME NEW S, NEW s \in Seq(S), NEW e \in ToSet(s)
  PROVE  Place(s, e) \in 1..Len(s) /\ s[Place(s, e)] = e
<1> DEFINE I == {i \in 1..Len(s) : s[i] = e}
<1>1. I \in SUBSET Nat /\ I # {}
  BY DEF ToSet
<1>2. Place(s, e) = Min(I)
  BY <1>1 DEF Place, SelectInSeq
<1> HIDE DEF I
<1>3. Min(I) \in I
  BY <1>1, LeastPosition
<1> USE DEF I
<1> QED
  BY <1>2, <1>3

\* A sequence without the element at i.
LEMMA Removed ==
  ASSUME NEW S, NEW s \in Seq(S), NEW i \in 1..Len(s), IsInjective(s),
         NEW r, r = RemoveAt(s, i)
  PROVE  /\ r \in Seq(S) /\ Len(r) = Len(s) - 1
         /\ ToSet(r) = ToSet(s) \ {s[i]}
         /\ IsInjective(r)
<1>1. /\ r \in Seq(S) /\ Len(r) = Len(s) - 1
      /\ \A k \in 1..(i - 1) : r[k] = s[k]
      /\ \A k \in i..(Len(s) - 1) : r[k] = s[k + 1]
  <2> DEFINE a == SubSeq(s, 1, i - 1)
             b == SubSeq(s, i + 1, Len(s))
  <2>1. a \in Seq(S) /\ Len(a) = i - 1 /\ \A k \in 1..(i - 1) : a[k] = s[k]
    OBVIOUS
  <2>2. b \in Seq(S) /\ Len(b) = Len(s) - i /\ \A k \in 1..(Len(s) - i) : b[k] = s[k + i]
    OBVIOUS
  <2>3. r = a \o b
    BY DEF RemoveAt
  <2> HIDE DEF a, b
  <2>4. /\ r \in Seq(S) /\ Len(r) = Len(s) - 1
        /\ \A k \in 1..(i - 1) : r[k] = a[k]
        /\ \A k \in i..(Len(s) - 1) : r[k] = b[k - (i - 1)]
    <3>1. /\ r \in Seq(S) /\ Len(r) = Len(a) + Len(b)
          /\ \A k \in 1..Len(a) : r[k] = a[k]
          /\ \A k \in (Len(a) + 1)..(Len(a) + Len(b)) : r[k] = b[k - Len(a)]
      <4>1. a \in Seq(S) /\ b \in Seq(S)
        BY <2>1, <2>2
      <4> QED
        BY ONLY <2>3, <4>1
    <3> QED
      BY <2>1, <2>2, <3>1
  <2>5. \A k \in i..(Len(s) - 1) : b[k - (i - 1)] = s[k + 1]
    <3> TAKE k \in i..(Len(s) - 1)
    <3>1. k - (i - 1) \in 1..(Len(s) - i) /\ (k - (i - 1)) + i = k + 1
      OBVIOUS
    <3> QED
      BY <2>2, <3>1
  <2> QED
    BY <2>1, <2>4, <2>5
<1>2. DOMAIN s = 1..Len(s) /\ DOMAIN r = 1..(Len(s) - 1)
  BY <1>1
<1>3. \A k, l \in 1..Len(s) : s[k] = s[l] => k = l
  BY <1>2 DEF IsInjective
<1>4. \A k \in DOMAIN r : \E l \in 1..Len(s) : l # i /\ r[k] = s[l]
  <2> TAKE k \in DOMAIN r
  <2>1. CASE k < i
    BY <1>1, <1>2, <2>1
  <2>2. CASE k >= i
    BY <1>1, <1>2, <2>2
  <2> QED
    BY <1>2, <2>1, <2>2
<1>5. \A l \in 1..Len(s) : l # i => \E k \in DOMAIN r : r[k] = s[l]
  <2> SUFFICES ASSUME NEW l \in 1..Len(s), l # i
               PROVE  \E k \in DOMAIN r : r[k] = s[l]
    OBVIOUS
  <2>1. CASE l < i
    BY <1>1, <1>2, <2>1
  <2>2. CASE l > i
    <3>1. l - 1 \in i..(Len(s) - 1) /\ r[l - 1] = s[(l - 1) + 1]
      BY <1>1, <2>2
    <3> QED
      BY <1>2, <3>1
  <2> QED
    BY <2>1, <2>2
<1>6. ToSet(r) = ToSet(s) \ {s[i]}
  <2>1. ToSet(r) = {r[k] : k \in DOMAIN r} /\ ToSet(s) = {s[k] : k \in 1..Len(s)}
    BY <1>2 DEF ToSet
  <2>2. \A l \in 1..Len(s) : l # i <=> s[l] # s[i]
    BY <1>3
  <2> QED
    BY <1>4, <1>5, <2>1, <2>2
<1>7. IsInjective(r)
  <2> SUFFICES ASSUME NEW k \in 1..(Len(s) - 1), NEW l \in 1..(Len(s) - 1), r[k] = r[l]
               PROVE  k = l
    BY <1>2 DEF IsInjective
  <2> DEFINE from(j) == IF j < i THEN j ELSE j + 1
  <2>1. \A j \in 1..(Len(s) - 1) : from(j) \in 1..Len(s) /\ r[j] = s[from(j)]
    <3> TAKE j \in 1..(Len(s) - 1)
    <3>1. CASE j < i
      <4>1. j \in 1..(i - 1) /\ j \in 1..Len(s) /\ from(j) = j
        BY <3>1
      <4> QED
        BY <1>1, <4>1
    <3>2. CASE j >= i
      <4>1. j \in i..(Len(s) - 1) /\ j + 1 \in 1..Len(s) /\ from(j) = j + 1
        BY <3>2
      <4> QED
        BY <1>1, <4>1
    <3> QED
      BY <3>1, <3>2
  <2>2. from(k) = from(l)
    <3> HIDE DEF from
    <3> QED
      BY <1>3, <2>1
  <2> QED
    BY <2>2
<1> QED
  BY <1>1, <1>6, <1>7

\* An element behind the one at i: the sequence.
Lengthened(S, s, i, q, r) ==
  /\ r \in Seq(S) /\ Len(r) = Len(s) + 1
  /\ \A k \in 1..i : r[k] = s[k]
  /\ r[i + 1] = q
  /\ \A k \in (i + 2)..(Len(s) + 1) : r[k] = s[k - 1]
LEMMA InsertedAt ==
  ASSUME NEW S, NEW s \in Seq(S), NEW i \in 1..Len(s), NEW q \in S,
         NEW r, r = InsertAt(s, i + 1, q)
  PROVE  Lengthened(S, s, i, q, r)
<1>1. PICK a : a = SubSeq(s, 1, (i + 1) - 1)
  OBVIOUS
<1>2. PICK b : b = SubSeq(s, i + 1, Len(s))
  OBVIOUS
<1>3. a \in Seq(S) /\ Len(a) = i /\ \A k \in 1..i : a[k] = s[k]
  BY <1>1
<1>4. b \in Seq(S) /\ Len(b) = Len(s) - i /\ \A k \in 1..(Len(s) - i) : b[k] = s[k + i]
  BY <1>2
<1>5. PICK c : c = a \o <<q>>
  OBVIOUS
<1>c. /\ c \in Seq(S) /\ Len(c) = Len(a) + 1
      /\ \A k \in 1..Len(a) : c[k] = a[k]
      /\ c[Len(a) + 1] = q
  BY <1>3, <1>5
<1>r. r = c \o b
  BY <1>1, <1>2, <1>5 DEF InsertAt
<1>6. /\ r \in Seq(S) /\ Len(r) = Len(c) + Len(b)
      /\ \A k \in 1..Len(c) : r[k] = c[k]
      /\ \A k \in 1..Len(b) : r[Len(c) + k] = b[k]
  <2>1. b \in Seq(S) /\ c \in Seq(S)
    BY <1>4, <1>c
  <2> QED
    BY ONLY <2>1, <1>r
<1>7. ASSUME NEW k \in (i + 2)..(Len(s) + 1)
      PROVE  r[k] = s[k - 1]
  <2>1. /\ k - (i + 1) \in 1..(Len(s) - i) /\ i + 1 + (k - (i + 1)) = k
        /\ (k - (i + 1)) + i = k - 1
    OBVIOUS
  <2>2. r[i + 1 + (k - (i + 1))] = b[k - (i + 1)]
    BY <1>3, <1>4, <1>6, <1>c, <2>1
  <2>3. b[k - (i + 1)] = s[(k - (i + 1)) + i]
    BY <1>4, <2>1
  <2> QED
    BY <2>1, <2>2, <2>3
<1> QED
  BY <1>3, <1>4, <1>6, <1>7, <1>c DEF Lengthened

\* An element behind the one at i: its elements.
LEMMA Inserted ==
  ASSUME NEW S, NEW s \in Seq(S), NEW i \in 1..Len(s), IsInjective(s),
         NEW q \in S, q \notin ToSet(s), NEW r, r = InsertAt(s, i + 1, q)
  PROVE  /\ r \in Seq(S)
         /\ ToSet(r) = ToSet(s) \cup {q}
         /\ IsInjective(r)
<1>1. /\ r \in Seq(S) /\ Len(r) = Len(s) + 1
      /\ \A k \in 1..i : r[k] = s[k]
      /\ r[i + 1] = q
      /\ \A k \in (i + 2)..(Len(s) + 1) : r[k] = s[k - 1]
  <2>1. Lengthened(S, s, i, q, r)
    BY InsertedAt
  <2> QED
    BY <2>1 DEF Lengthened
<1>2. DOMAIN s = 1..Len(s) /\ DOMAIN r = 1..(Len(s) + 1)
  BY <1>1
<1>3. \A k, l \in 1..Len(s) : s[k] = s[l] => k = l
  BY <1>2 DEF IsInjective
<1>4. \A k \in DOMAIN r : r[k] = q \/ \E l \in 1..Len(s) : r[k] = s[l]
  <2> TAKE k \in DOMAIN r
  <2>1. CASE k \in 1..i
    BY <1>1, <2>1
  <2>2. CASE k = i + 1
    BY <1>1, <2>2
  <2>3. CASE k \in (i + 2)..(Len(s) + 1)
    <3>1. k - 1 \in 1..Len(s) /\ r[k] = s[k - 1]
      BY <1>1, <2>3
    <3> QED
      BY <3>1
  <2> QED
    BY <1>2, <2>1, <2>2, <2>3
<1>5. \A l \in 1..Len(s) : \E k \in DOMAIN r : r[k] = s[l]
  <2> TAKE l \in 1..Len(s)
  <2>1. CASE l <= i
    BY <1>1, <1>2, <2>1
  <2>2. CASE l > i
    <3>1. l + 1 \in (i + 2)..(Len(s) + 1) /\ r[l + 1] = s[(l + 1) - 1]
      BY <1>1, <2>2
    <3> QED
      BY <1>2, <3>1
  <2> QED
    BY <2>1, <2>2
<1>6. ToSet(r) = ToSet(s) \cup {q}
  <2>1. i + 1 \in DOMAIN r /\ r[i + 1] = q
    BY <1>1, <1>2
  <2>2. ToSet(r) = {r[k] : k \in DOMAIN r} /\ ToSet(s) = {s[k] : k \in 1..Len(s)}
    BY <1>2 DEF ToSet
  <2>3. \A x \in ToSet(r) : x \in ToSet(s) \cup {q}
    BY <1>4, <2>2
  <2>4. \A x \in ToSet(s) \cup {q} : x \in ToSet(r)
    BY <1>5, <2>1, <2>2
  <2> QED
    BY <2>3, <2>4
<1>7. IsInjective(r)
  <2> SUFFICES ASSUME NEW k \in 1..(Len(s) + 1), NEW l \in 1..(Len(s) + 1), r[k] = r[l]
               PROVE  k = l
    BY <1>2 DEF IsInjective
  <2>1. \A j \in 1..Len(s) : s[j] # q
    BY <1>2 DEF ToSet
  <2>2. /\ k = i + 1 \/ r[k] = s[IF k <= i THEN k ELSE k - 1]
        /\ l = i + 1 \/ r[l] = s[IF l <= i THEN l ELSE l - 1]
    BY <1>1
  <2>3. /\ k # i + 1 => (IF k <= i THEN k ELSE k - 1) \in 1..Len(s)
        /\ l # i + 1 => (IF l <= i THEN l ELSE l - 1) \in 1..Len(s)
    OBVIOUS
  <2>4. k = i + 1 <=> l = i + 1
    BY <1>1, <2>1, <2>2, <2>3
  <2> QED
    BY <1>3, <2>2, <2>3, <2>4
<1> QED
  BY <1>1, <1>6, <1>7

\* Exchanging two leaves leaves the same leaves.
LEMMA Exchanged ==
  ASSUME NEW S, NEW s \in Seq(S), IsInjective(s), NEW p \in ToSet(s), NEW q \in ToSet(s),
         NEW r, r = SwapPaneIds(s, p, q)
  PROVE  r \in Seq(S) /\ ToSet(r) = ToSet(s) /\ IsInjective(r)
<1>1. DOMAIN s = 1..Len(s) /\ Len(s) \in Nat /\ DOMAIN r = DOMAIN s
  BY DEF SwapPaneIds
<1>2. \A i \in DOMAIN s : r[i] = IF s[i] = p THEN q ELSE IF s[i] = q THEN p ELSE s[i]
  BY DEF SwapPaneIds
<1>3. PICK a \in DOMAIN s, b \in DOMAIN s : s[a] = p /\ s[b] = q
  BY DEF ToSet
<1>4. \A i \in DOMAIN s : r[i] \in S
  BY <1>1, <1>2, <1>3
<1>5. r \in Seq(S)
  <2>1. r = [i \in 1..Len(s) |-> IF s[i] = p THEN q ELSE IF s[i] = q THEN p ELSE s[i]]
    BY <1>1 DEF SwapPaneIds
  <2>2. \A i \in 1..Len(s) : (IF s[i] = p THEN q ELSE IF s[i] = q THEN p ELSE s[i]) \in S
    BY <1>1, <1>3
  <2> QED
    BY <1>1, <2>1, <2>2
<1>6. ToSet(r) = ToSet(s)
  <2>1. r[a] = q /\ r[b] = p
    BY <1>2, <1>3
  <2> QED
    BY <1>1, <1>2, <1>3, <2>1 DEF ToSet
<1>7. IsInjective(r)
  BY <1>1, <1>2 DEF IsInjective
<1> QED
  BY <1>5, <1>6, <1>7

-----------------------------------------------------------------------------
(* Snapshots                                                               *)

\* A snapshot that can be saved and loaded again.
Good(s) ==
  /\ s \in Snapshots(DOMAIN s.tab, DOMAIN s.panes)
  /\ DOMAIN s.tab = ToSet(s.tabs)
  /\ DOMAIN s.tab \subseteq Tabs /\ DOMAIN s.panes \subseteq Panes
  /\ Valid(s)

\* The types of a good snapshot.
LEMMA GoodTypes ==
  ASSUME NEW s, Good(s)
  PROVE  /\ s.tabs \in Seq(DOMAIN s.tab) /\ s.active \in DOMAIN s.tab
         /\ s.tab \in [DOMAIN s.tab -> TabStates] /\ s.panes \in [DOMAIN s.panes -> Contents]
         /\ DOMAIN s.tab \subseteq Tabs /\ DOMAIN s.panes \subseteq Panes
         /\ DOMAIN s.tab = ToSet(s.tabs) /\ IsInjective(s.tabs)
         /\ s.tab[s.active] \in TabStates /\ ActiveTab(s).shown \in Surfaces
         /\ Key(s) \in Keys(s) /\ Active(s) = On(s, Key(s))
BY DEF Good, Snapshots, Valid, ActiveTab, TabStates, Key, Keys, Active

\* Its surfaces: each pane is a leaf of exactly one.
LEMMA GoodSurfaces ==
  ASSUME NEW s, Good(s)
  PROVE  /\ \A key \in Keys(s) :
              /\ On(s, key) \in SurfaceStates
              /\ On(s, key).leaves \in Seq(Panes) /\ On(s, key).active \in Leaves(s, key)
              /\ IsInjective(On(s, key).leaves)
              /\ Leaves(s, key) \subseteq DOMAIN s.panes
              /\ Leaves(s, key) = ToSet(On(s, key).leaves)
         /\ \A k1, k2 \in Keys(s) : k1 # k2 => Leaves(s, k1) \cap Leaves(s, k2) = {}
         /\ DOMAIN s.panes = UNION {Leaves(s, key) : key \in Keys(s)}
<1>1. \A key \in Keys(s) : On(s, key) \in SurfaceStates
  <2> TAKE key \in Keys(s)
  <2>1. key[1] \in DOMAIN s.tab /\ key[2] \in Surfaces
    BY DEF Keys
  <2>2. s.tab[key[1]] \in TabStates
    BY <2>1, GoodTypes
  <2> QED
    BY <2>1, <2>2 DEF TabStates, On
<1>2. \A key \in Keys(s) : On(s, key).leaves \in Seq(Panes)
  BY <1>1 DEF SurfaceStates
<1>3. /\ \A key \in Keys(s) : /\ On(s, key).active \in Leaves(s, key)
                              /\ IsInjective(On(s, key).leaves)
      /\ \A k1, k2 \in Keys(s) : k1 # k2 => Leaves(s, k1) \cap Leaves(s, k2) = {}
      /\ DOMAIN s.panes = UNION {Leaves(s, key) : key \in Keys(s)}
  BY DEF Good, Valid
<1>4. \A key \in Keys(s) : /\ Leaves(s, key) \subseteq DOMAIN s.panes
                           /\ Leaves(s, key) = ToSet(On(s, key).leaves)
  BY <1>3 DEF Leaves
<1> QED
  BY <1>1, <1>2, <1>3, <1>4

\* The active surface and the panes change, the panes that it gains are new.
LEMMA SurfaceReplaced ==
  ASSUME NEW s, Good(s), NEW surface \in SurfaceStates, NEW panes, NEW r,
         r = [tabs |-> s.tabs, active |-> s.active,
              tab |-> [s.tab EXCEPT ![s.active].surface[ActiveTab(s).shown] = surface],
              panes |-> panes],
         surface.active \in ToSet(surface.leaves), IsInjective(surface.leaves),
         panes \in [(DOMAIN s.panes \ Leaves(s, Key(s))) \cup ToSet(surface.leaves) -> Contents],
         (ToSet(surface.leaves) \ Leaves(s, Key(s))) \cap DOMAIN s.panes = {}
  PROVE  /\ Good(r) /\ Key(r) = Key(s) /\ Keys(r) = Keys(s) /\ On(r, Key(s)) = surface
         /\ \A key \in Keys(s) : key # Key(s) => On(r, key) = On(s, key)
<1> DEFINE t == s.active
           n == ActiveTab(s).shown
<1>1. /\ t \in DOMAIN s.tab /\ s.tab \in [DOMAIN s.tab -> TabStates] /\ n \in Surfaces
      /\ s.tab[t] \in TabStates /\ s.tab[t].surface \in [Surfaces -> SurfaceStates]
      /\ n = s.tab[t].shown
  BY GoodTypes DEF ActiveTab, TabStates
<1>2. PICK tab : tab = [s.tab[t] EXCEPT !.surface = [s.tab[t].surface EXCEPT ![n] = surface]]
  OBVIOUS
<1>3. /\ tab \in TabStates /\ tab.shown = n /\ tab.surface = [s.tab[t].surface EXCEPT ![n] = surface]
  BY <1>1, <1>2 DEF TabStates
<1>4. r.tab = [s.tab EXCEPT ![t] = tab]
  BY <1>1, <1>2
<1>5. /\ r.tabs = s.tabs /\ r.active = t /\ r.panes = panes
      /\ DOMAIN r.tab = DOMAIN s.tab /\ r.tab \in [DOMAIN s.tab -> TabStates]
      /\ r.tab[t] = tab /\ \A x \in DOMAIN s.tab : x # t => r.tab[x] = s.tab[x]
  BY <1>1, <1>3, <1>4
<1>6. Key(s) = <<t, n>> /\ Key(r) = <<t, n>> /\ Keys(r) = Keys(s)
  BY <1>3, <1>5 DEF Key, Keys, ActiveTab
<1>s. tab.surface[n] = surface
  BY <1>1, <1>3
<1>7. On(r, Key(s)) = surface
  <2>1. Key(s)[1] = t /\ Key(s)[2] = n
    BY <1>6
  <2>2. On(r, Key(s)) = r.tab[t].surface[n]
    BY <2>1 DEF On
  <2> QED
    BY <1>5, <1>s, <2>2
<1>8. ASSUME NEW key \in Keys(s), key # Key(s)
      PROVE  On(r, key) = On(s, key)
  <2>1. PICK x \in DOMAIN s.tab, m \in Surfaces : key = <<x, m>>
    BY DEF Keys
  <2>2. CASE x # t
    BY <1>5, <2>1, <2>2 DEF On
  <2>3. CASE x = t
    <3>1. m # n
      BY <1>6, <1>8, <2>1, <2>3
    <3>2. tab.surface[m] = s.tab[t].surface[m]
      BY <1>1, <1>3, <3>1
    <3>3. On(r, key) = r.tab[t].surface[m] /\ On(s, key) = s.tab[t].surface[m]
      BY <2>1, <2>3 DEF On
    <3> QED
      BY <1>5, <3>2, <3>3
  <2> QED
    BY <2>2, <2>3
<1>9. /\ DOMAIN panes = (DOMAIN s.panes \ Leaves(s, Key(s))) \cup ToSet(surface.leaves)
      /\ panes \in [DOMAIN panes -> Contents]
  OBVIOUS
<1>10. r \in Snapshots(DOMAIN r.tab, DOMAIN r.panes)
  BY <1>5, <1>9, GoodTypes DEF Snapshots
<1>11. ToSet(surface.leaves) \subseteq Panes
  BY DEF SurfaceStates, ToSet
<1>12. Valid(r)
  <2> HIDE DEF t, n
  <2>1. Key(s) \in Keys(s)
    BY GoodTypes
  <2>2. Leaves(r, Key(s)) = ToSet(surface.leaves)
    BY <1>7 DEF Leaves
  <2>3. \A key \in Keys(s) : key # Key(s) => Leaves(r, key) = Leaves(s, key)
    BY <1>8 DEF Leaves
  <2>4. \A key \in Keys(r) : /\ On(r, key).active \in Leaves(r, key)
                             /\ IsInjective(On(r, key).leaves)
    BY <1>6, <1>7, <1>8, <2>2, <2>3, GoodSurfaces
  <2>5. ASSUME NEW k1 \in Keys(r), NEW k2 \in Keys(r), k1 # k2
        PROVE  Leaves(r, k1) \cap Leaves(r, k2) = {}
    <3>1. \A a, b \in Keys(s) : a # b => Leaves(s, a) \cap Leaves(s, b) = {}
      BY GoodSurfaces
    <3>2. \A a \in Keys(s) : Leaves(s, a) \subseteq DOMAIN s.panes
      BY GoodSurfaces
    <3> QED
      BY <1>6, <2>1, <2>2, <2>3, <2>5, <3>1, <3>2
  <2>6. DOMAIN r.panes = UNION {Leaves(r, key) : key \in Keys(r)}
    <3>1. \A a, b \in Keys(s) : a # b => Leaves(s, a) \cap Leaves(s, b) = {}
      BY GoodSurfaces
    <3>2. DOMAIN s.panes = UNION {Leaves(s, key) : key \in Keys(s)}
      BY GoodSurfaces
    <3>3. \A x \in DOMAIN r.panes : \E key \in Keys(r) : x \in Leaves(r, key)
      <4> TAKE x \in DOMAIN r.panes
      <4>1. CASE x \in ToSet(surface.leaves)
        BY <1>6, <2>1, <2>2, <4>1
      <4>2. CASE x \notin ToSet(surface.leaves)
        <5>1. x \in DOMAIN s.panes /\ x \notin Leaves(s, Key(s))
          BY <1>5, <1>9, <4>2
        <5>2. PICK key \in Keys(s) : x \in Leaves(s, key)
          BY <3>2, <5>1
        <5> QED
          BY <1>6, <2>3, <5>1, <5>2
      <4> QED
        BY <4>1, <4>2
    <3>4. \A key \in Keys(r) : \A x \in Leaves(r, key) : x \in DOMAIN r.panes
      <4> SUFFICES ASSUME NEW key \in Keys(r), NEW x \in Leaves(r, key)
                   PROVE  x \in DOMAIN r.panes
        OBVIOUS
      <4>1. CASE key = Key(s)
        BY <1>5, <1>9, <2>2, <4>1
      <4>2. CASE key # Key(s)
        <5>1. key \in Keys(s) /\ x \in Leaves(s, key)
          BY <1>6, <2>3, <4>2
        <5>2. x \in DOMAIN s.panes /\ x \notin Leaves(s, Key(s))
          BY <2>1, <3>1, <3>2, <4>2, <5>1
        <5> QED
          BY <1>5, <1>9, <5>2
      <4> QED
        BY <4>1, <4>2
    <3> QED
      BY <3>3, <3>4
  <2>7. r.active \in ToSet(r.tabs) /\ IsInjective(r.tabs)
    BY <1>5, GoodTypes DEF Good, Valid, t
  <2> QED
    BY <2>4, <2>5, <2>6, <2>7 DEF Valid
<1>13. Good(r)
  BY <1>5, <1>9, <1>10, <1>11, <1>12, GoodTypes DEF Good
<1> QED
  BY <1>6, <1>7, <1>8, <1>13

\* The record that replaces the active surface.
LEMMA WithActiveIs ==
  ASSUME NEW s, Good(s), NEW surface, NEW panes
  PROVE  /\ WithActive(s, surface) =
              [tabs |-> s.tabs, active |-> s.active,
               tab |-> [s.tab EXCEPT ![s.active].surface[ActiveTab(s).shown] = surface],
               panes |-> s.panes]
         /\ [WithActive(s, surface) EXCEPT !.panes = panes] =
              [tabs |-> s.tabs, active |-> s.active,
               tab |-> [s.tab EXCEPT ![s.active].surface[ActiveTab(s).shown] = surface],
               panes |-> panes]
<1>1. PICK tab : tab = [s.tab EXCEPT ![s.active].surface[ActiveTab(s).shown] = surface]
  OBVIOUS
<1>2. s = [tabs |-> s.tabs, active |-> s.active, tab |-> s.tab, panes |-> s.panes]
  BY DEF Good, Snapshots
<1>3. WithActive(s, surface) = [s EXCEPT !.tab = tab]
  BY <1>1 DEF WithActive
<1>4. [s EXCEPT !.tab = tab] = [tabs |-> s.tabs, active |-> s.active, tab |-> tab, panes |-> s.panes]
  BY <1>2
<1>5. [[tabs |-> s.tabs, active |-> s.active, tab |-> tab, panes |-> s.panes] EXCEPT !.panes = panes]
        = [tabs |-> s.tabs, active |-> s.active, tab |-> tab, panes |-> panes]
  OBVIOUS
<1> QED
  BY <1>1, <1>3, <1>4, <1>5

\* The keys and the answers that the active surface takes.
LEMMA ActiveFacts ==
  ASSUME NEW s, Good(s)
  PROVE  /\ Active(s) = [leaves |-> Active(s).leaves, active |-> Active(s).active]
         /\ Active(s).leaves \in Seq(Panes) /\ Active(s).active \in Panes
         /\ ToSet(Active(s).leaves) = Leaves(s, Key(s)) /\ IsInjective(Active(s).leaves)
         /\ Active(s).active \in Leaves(s, Key(s)) /\ Leaves(s, Key(s)) \subseteq DOMAIN s.panes
<1>1. Key(s) \in Keys(s) /\ Active(s) = On(s, Key(s))
  BY GoodTypes
<1>2. Active(s) \in SurfaceStates
  BY <1>1, GoodSurfaces
<1> QED
  BY <1>1, <1>2, GoodSurfaces DEF SurfaceStates

\* The reducer, one lemma per action: the snapshot stays one that can be loaded
\* again, and the panes that stay keep their content.
LEMMA FocusKeeps ==
  ASSUME NEW s, Good(s), NEW p \in Leaves(s, Key(s)), NEW r, r = FocusPane(s, p)
  PROVE  /\ Good(r) /\ r.panes = s.panes /\ Key(r) = Key(s) /\ Keys(r) = Keys(s)
         /\ \A key \in Keys(s) : On(r, key).leaves = On(s, key).leaves
<1>1. PICK surface : surface = [Active(s) EXCEPT !.active = p]
  OBVIOUS
<1>2. surface = Surface(Active(s).leaves, p)
  BY <1>1, ActiveFacts DEF Surface
<1>3. /\ surface \in SurfaceStates /\ surface.leaves = Active(s).leaves /\ surface.active = p
      /\ ToSet(surface.leaves) = Leaves(s, Key(s)) /\ IsInjective(surface.leaves)
  <2>1. p \in Panes
    BY ActiveFacts, GoodTypes
  <2>2. surface.leaves = Active(s).leaves /\ surface.active = p
    BY <1>2 DEF Surface
  <2> QED
    BY <1>2, <2>1, <2>2, ActiveFacts DEF Surface, SurfaceStates
<1>4. r = [tabs |-> s.tabs, active |-> s.active,
           tab |-> [s.tab EXCEPT ![s.active].surface[ActiveTab(s).shown] = surface],
           panes |-> s.panes]
  BY <1>1, WithActiveIs DEF FocusPane
<1>5. s.panes \in [(DOMAIN s.panes \ Leaves(s, Key(s))) \cup ToSet(surface.leaves) -> Contents]
  <2>1. (DOMAIN s.panes \ Leaves(s, Key(s))) \cup ToSet(surface.leaves) = DOMAIN s.panes
    BY <1>3, ActiveFacts
  <2> QED
    BY <2>1, GoodTypes
<1>6. /\ Good(r) /\ Key(r) = Key(s) /\ Keys(r) = Keys(s) /\ On(r, Key(s)) = surface
      /\ \A key \in Keys(s) : key # Key(s) => On(r, key) = On(s, key)
  <2>1. surface.active \in ToSet(surface.leaves)
    BY <1>3
  <2>2. (ToSet(surface.leaves) \ Leaves(s, Key(s))) \cap DOMAIN s.panes = {}
    BY <1>3
  <2> QED
    BY <1>3, <1>4, <1>5, <2>1, <2>2, SurfaceReplaced
<1>7. r.panes = s.panes
  BY <1>4
<1> QED
  BY <1>3, <1>6, <1>7, GoodTypes

LEMMA SwapKeeps ==
  ASSUME NEW s, Good(s), NEW p \in Leaves(s, Key(s)), NEW q \in Leaves(s, Key(s)),
         NEW r, r = SwapPanes(s, p, q)
  PROVE  Good(r) /\ r.panes = s.panes
<1>1. PICK surface : surface = [Active(s) EXCEPT !.leaves = SwapPaneIds(@, p, q)]
  OBVIOUS
<1>2. surface = Surface(SwapPaneIds(Active(s).leaves, p, q), Active(s).active)
  BY <1>1, ActiveFacts DEF Surface
<1>3. /\ SwapPaneIds(Active(s).leaves, p, q) \in Seq(Panes)
      /\ ToSet(SwapPaneIds(Active(s).leaves, p, q)) = Leaves(s, Key(s))
      /\ IsInjective(SwapPaneIds(Active(s).leaves, p, q))
  BY ActiveFacts, Exchanged
<1>4. /\ surface \in SurfaceStates /\ surface.active = Active(s).active
      /\ ToSet(surface.leaves) = Leaves(s, Key(s)) /\ IsInjective(surface.leaves)
  BY <1>2, <1>3, ActiveFacts DEF Surface, SurfaceStates
<1>5. r = [tabs |-> s.tabs, active |-> s.active,
           tab |-> [s.tab EXCEPT ![s.active].surface[ActiveTab(s).shown] = surface],
           panes |-> s.panes]
  BY <1>1, WithActiveIs DEF SwapPanes
<1>6. s.panes \in [(DOMAIN s.panes \ Leaves(s, Key(s))) \cup ToSet(surface.leaves) -> Contents]
  <2>1. (DOMAIN s.panes \ Leaves(s, Key(s))) \cup ToSet(surface.leaves) = DOMAIN s.panes
    BY <1>4, ActiveFacts
  <2> QED
    BY <2>1, GoodTypes
<1>7. Good(r)
  <2>1. surface.active \in ToSet(surface.leaves)
    BY <1>4, ActiveFacts
  <2>2. (ToSet(surface.leaves) \ Leaves(s, Key(s))) \cap DOMAIN s.panes = {}
    BY <1>4
  <2> QED
    BY <1>4, <1>5, <1>6, <2>1, <2>2, SurfaceReplaced
<1> QED
  BY <1>5, <1>7

LEMMA SplitKeeps ==
  ASSUME NEW s, Good(s), NEW p \in Leaves(s, Key(s)), NEW q \in Panes \ DOMAIN s.panes,
         NEW pane \in Contents, NEW r, r = SplitPane(s, p, q, pane)
  PROVE  /\ Good(r) /\ DOMAIN r.panes = DOMAIN s.panes \cup {q}
         /\ \A x \in DOMAIN s.panes : r.panes[x] = s.panes[x]
<1> DEFINE leaves == Active(s).leaves
<1>1. leaves \in Seq(Panes) /\ IsInjective(leaves) /\ ToSet(leaves) = Leaves(s, Key(s))
  BY ActiveFacts
<1>2. Place(leaves, p) \in 1..Len(leaves)
  BY <1>1, PlaceFound
<1>3. q \notin ToSet(leaves)
  BY <1>1, ActiveFacts
<1>4. PICK after : after = ReplacePane(leaves, p, q)
  OBVIOUS
<1>5. after \in Seq(Panes) /\ ToSet(after) = ToSet(leaves) \cup {q} /\ IsInjective(after)
  BY <1>1, <1>2, <1>3, <1>4, Inserted DEF ReplacePane
<1>6. PICK surface : surface = Surface(after, q)
  OBVIOUS
<1>7. /\ surface \in SurfaceStates /\ surface.active = q
      /\ ToSet(surface.leaves) = Leaves(s, Key(s)) \cup {q} /\ IsInjective(surface.leaves)
  BY <1>1, <1>5, <1>6 DEF Surface, SurfaceStates
<1>8. PICK panes : panes = Put(s.panes, q, pane)
  OBVIOUS
<1>9. /\ panes \in [DOMAIN s.panes \cup {q} -> Contents]
      /\ \A x \in DOMAIN s.panes : panes[x] = s.panes[x]
  BY <1>8, GoodTypes DEF Put
<1>10. r = [tabs |-> s.tabs, active |-> s.active,
            tab |-> [s.tab EXCEPT ![s.active].surface[ActiveTab(s).shown] = surface],
            panes |-> panes]
  BY <1>4, <1>6, <1>8, WithActiveIs DEF SplitPane
<1>11. Good(r)
  <2>1. (DOMAIN s.panes \ Leaves(s, Key(s))) \cup ToSet(surface.leaves) = DOMAIN s.panes \cup {q}
    BY <1>7, ActiveFacts
  <2>2. panes \in [(DOMAIN s.panes \ Leaves(s, Key(s))) \cup ToSet(surface.leaves) -> Contents]
    BY <1>9, <2>1
  <2>3. surface.active \in ToSet(surface.leaves)
    BY <1>7
  <2>4. (ToSet(surface.leaves) \ Leaves(s, Key(s))) \cap DOMAIN s.panes = {}
    BY <1>7
  <2> QED
    BY <1>7, <1>10, <2>2, <2>3, <2>4, SurfaceReplaced
<1> QED
  BY <1>9, <1>10, <1>11

LEMMA CloseKeeps ==
  ASSUME NEW s, Good(s), NEW p \in Leaves(s, Key(s)), Len(Active(s).leaves) > 1,
         NEW r, r = ClosePane(s, p)
  PROVE  /\ Good(r) /\ DOMAIN r.panes = DOMAIN s.panes \ {p}
         /\ \A x \in DOMAIN r.panes : r.panes[x] = s.panes[x]
<1> DEFINE leaves == Active(s).leaves
<1>1. leaves \in Seq(Panes) /\ IsInjective(leaves) /\ ToSet(leaves) = Leaves(s, Key(s))
  BY ActiveFacts
<1>2. Place(leaves, p) \in 1..Len(leaves) /\ leaves[Place(leaves, p)] = p
  BY <1>1, PlaceFound
<1>3. PICK left : left = RemovePane(leaves, p)
  OBVIOUS
<1>4. /\ left \in Seq(Panes) /\ Len(left) = Len(leaves) - 1
      /\ ToSet(left) = ToSet(leaves) \ {p} /\ IsInjective(left)
  <2> HIDE DEF leaves
  <2> QED
    BY <1>1, <1>2, <1>3, Removed DEF RemovePane
<1>5. Head(left) \in ToSet(left)
  <2>1. Len(left) \in Nat /\ Len(left) # 0
    BY <1>1, <1>4
  <2>2. 1 \in DOMAIN left /\ Head(left) = left[1]
    BY <1>4, <2>1
  <2> QED
    BY <2>2 DEF ToSet
<1>6. PICK surface : surface = Surface(left, Head(left))
  OBVIOUS
<1>7. /\ surface \in SurfaceStates /\ surface.active \in ToSet(surface.leaves)
      /\ ToSet(surface.leaves) = Leaves(s, Key(s)) \ {p} /\ IsInjective(surface.leaves)
  <2>1. Head(left) \in Panes
    BY <1>1, <1>4, <1>5, ActiveFacts, GoodTypes
  <2> QED
    BY <1>1, <1>4, <1>5, <1>6, <2>1 DEF Surface, SurfaceStates
<1>8. PICK panes : panes = Restrict(s.panes, DOMAIN s.panes \ {p})
  OBVIOUS
<1>9. /\ panes \in [DOMAIN s.panes \ {p} -> Contents]
      /\ \A x \in DOMAIN s.panes \ {p} : panes[x] = s.panes[x]
  BY <1>8, GoodTypes DEF Restrict
<1>10. r = [tabs |-> s.tabs, active |-> s.active,
            tab |-> [s.tab EXCEPT ![s.active].surface[ActiveTab(s).shown] = surface],
            panes |-> panes]
  BY <1>3, <1>6, <1>8, WithActiveIs DEF ClosePane
<1>11. Good(r)
  <2>1. (DOMAIN s.panes \ Leaves(s, Key(s))) \cup ToSet(surface.leaves) = DOMAIN s.panes \ {p}
    BY <1>7, ActiveFacts
  <2>2. panes \in [(DOMAIN s.panes \ Leaves(s, Key(s))) \cup ToSet(surface.leaves) -> Contents]
    BY <1>9, <2>1
  <2>3. (ToSet(surface.leaves) \ Leaves(s, Key(s))) \cap DOMAIN s.panes = {}
    BY <1>7
  <2> QED
    BY <1>7, <1>10, <2>2, <2>3, SurfaceReplaced
<1> QED
  BY <1>9, <1>10, <1>11

\* The surfaces keep their leaves: another tab or surface is shown, or a pane changes.
LEMMA SurfacesStay ==
  ASSUME NEW s, Good(s), NEW a \in DOMAIN s.tab, NEW tab \in [DOMAIN s.tab -> TabStates],
         NEW panes \in [DOMAIN s.panes -> Contents],
         \A t \in DOMAIN s.tab : tab[t].surface = s.tab[t].surface,
         NEW r, r = [tabs |-> s.tabs, active |-> a, tab |-> tab, panes |-> panes]
  PROVE  /\ Good(r) /\ Keys(r) = Keys(s) /\ r.active = a /\ r.tab = tab /\ r.panes = panes
         /\ \A key \in Keys(s) : On(r, key) = On(s, key)
<1>1. r.tabs = s.tabs /\ r.active = a /\ r.tab = tab /\ r.panes = panes
  OBVIOUS
<1>2. Keys(r) = Keys(s) /\ DOMAIN tab = DOMAIN s.tab /\ DOMAIN panes = DOMAIN s.panes
  BY <1>1 DEF Keys
<1>3. \A key \in Keys(s) : On(r, key) = On(s, key)
  BY <1>1 DEF Keys, On
<1>4. \A key \in Keys(s) : Leaves(r, key) = Leaves(s, key)
  BY <1>3 DEF Leaves
<1>5. r \in Snapshots(DOMAIN r.tab, DOMAIN r.panes)
  BY <1>1, <1>2, GoodTypes DEF Snapshots
<1>6. Valid(r)
  <2>1. r.active \in ToSet(r.tabs) /\ IsInjective(r.tabs)
    BY <1>1, GoodTypes
  <2>2. \A key \in Keys(r) : On(r, key).active \in Leaves(r, key) /\ IsInjective(On(r, key).leaves)
    BY <1>2, <1>3, <1>4, GoodSurfaces
  <2>3. \A k1, k2 \in Keys(r) : k1 # k2 => Leaves(r, k1) \cap Leaves(r, k2) = {}
    BY <1>2, <1>4, GoodSurfaces
  <2>4. DOMAIN r.panes = UNION {Leaves(r, key) : key \in Keys(r)}
    <3>1. {Leaves(r, key) : key \in Keys(r)} = {Leaves(s, key) : key \in Keys(s)}
      BY <1>2, <1>4
    <3> QED
      BY <1>1, <1>2, <3>1, GoodSurfaces
  <2> QED
    BY <2>1, <2>2, <2>3, <2>4 DEF Valid
<1>7. Good(r)
  BY <1>1, <1>2, <1>5, <1>6, GoodTypes DEF Good
<1> QED
  BY <1>1, <1>2, <1>3, <1>7

LEMMA SnapshotIs ==
  ASSUME NEW s, Good(s)
  PROVE  s = [tabs |-> s.tabs, active |-> s.active, tab |-> s.tab, panes |-> s.panes]
BY DEF Good, Snapshots

LEMMA UpdateKeeps ==
  ASSUME NEW s, Good(s), NEW p \in DOMAIN s.panes, NEW pane \in Contents,
         NEW r, r = UpdatePane(s, p, pane)
  PROVE  /\ Good(r) /\ Keys(r) = Keys(s) /\ Key(r) = Key(s)
         /\ \A key \in Keys(s) : On(r, key) = On(s, key)
         /\ DOMAIN r.panes = DOMAIN s.panes
         /\ \A x \in DOMAIN s.panes : x # p => r.panes[x] = s.panes[x]
<1>1. PICK panes : panes = [s.panes EXCEPT ![p] = pane]
  OBVIOUS
<1>2. /\ panes \in [DOMAIN s.panes -> Contents]
      /\ \A x \in DOMAIN s.panes : x # p => panes[x] = s.panes[x]
  BY <1>1, GoodTypes
<1>3. r = [tabs |-> s.tabs, active |-> s.active, tab |-> s.tab, panes |-> panes]
  BY <1>1, SnapshotIs DEF UpdatePane
<1>4. /\ Good(r) /\ Keys(r) = Keys(s) /\ r.active = s.active /\ r.tab = s.tab /\ r.panes = panes
      /\ \A key \in Keys(s) : On(r, key) = On(s, key)
  BY <1>2, <1>3, GoodTypes, SurfacesStay
<1>5. Key(r) = Key(s)
  BY <1>4 DEF Key, ActiveTab
<1> QED
  BY <1>2, <1>4, <1>5

LEMMA ActivateKeeps ==
  ASSUME NEW s, Good(s), NEW t \in DOMAIN s.tab, NEW r, r = ActivateTab(s, t)
  PROVE  /\ Good(r) /\ Keys(r) = Keys(s) /\ r.active = t /\ r.panes = s.panes
         /\ \A key \in Keys(s) : On(r, key) = On(s, key)
<1>1. r = [tabs |-> s.tabs, active |-> t, tab |-> s.tab, panes |-> s.panes]
  BY SnapshotIs DEF ActivateTab
<1> QED
  BY <1>1, GoodTypes, SurfacesStay

LEMMA SetSurfaceKeeps ==
  ASSUME NEW s, Good(s), NEW name \in Surfaces, NEW r, r = SetSurface(s, name)
  PROVE  /\ Good(r) /\ Keys(r) = Keys(s) /\ r.active = s.active /\ r.panes = s.panes
         /\ Key(r) = <<s.active, name>>
         /\ \A key \in Keys(s) : On(r, key) = On(s, key)
<1>1. PICK tab : tab = [s.tab EXCEPT ![s.active].shown = name]
  OBVIOUS
<1>2. PICK x : x = [s.tab[s.active] EXCEPT !.shown = name]
  OBVIOUS
<1>3. x \in TabStates /\ x.shown = name /\ x.surface = s.tab[s.active].surface
  BY <1>2, GoodTypes DEF TabStates
<1>4. tab = [s.tab EXCEPT ![s.active] = x]
  BY <1>1, <1>2
<1>5. /\ tab \in [DOMAIN s.tab -> TabStates] /\ tab[s.active] = x
      /\ \A t \in DOMAIN s.tab : tab[t].surface = s.tab[t].surface
  BY <1>3, <1>4, GoodTypes
<1>6. r = [tabs |-> s.tabs, active |-> s.active, tab |-> tab, panes |-> s.panes]
  BY <1>1, SnapshotIs DEF SetSurface
<1>7. /\ Good(r) /\ Keys(r) = Keys(s) /\ r.active = s.active /\ r.tab = tab /\ r.panes = s.panes
      /\ \A key \in Keys(s) : On(r, key) = On(s, key)
  BY <1>5, <1>6, GoodTypes, SurfacesStay
<1>8. Key(r) = <<s.active, name>>
  BY <1>3, <1>5, <1>7 DEF Key, ActiveTab
<1> QED
  BY <1>7, <1>8

LEMMA PositionsOf ==
  ASSUME NEW S, NEW s \in Seq(S)
  PROVE  1..Len(s) \subseteq Nat /\ DOMAIN s = 1..Len(s)
OBVIOUS

LEMMA AppendFacts ==
  ASSUME NEW S, NEW s \in Seq(S), IsInjective(s), NEW x \in S, x \notin ToSet(s),
         NEW r, r = Append(s, x)
  PROVE  /\ r \in Seq(S) /\ IsInjective(r)
         /\ \A y : y \in ToSet(r) <=> (y \in ToSet(s) \/ y = x)
<1>1. /\ r \in Seq(S) /\ Len(r) = Len(s) + 1 /\ Len(s) \in Nat
      /\ r[Len(s) + 1] = x /\ \A i \in 1..Len(s) : r[i] = s[i]
  OBVIOUS
<1>2. DOMAIN s = 1..Len(s) /\ DOMAIN r = 1..(Len(s) + 1)
  BY <1>1
<1>3. \A y : y \in ToSet(r) <=> (y \in ToSet(s) \/ y = x)
  BY <1>1, <1>2 DEF ToSet
<1>4. \A i \in 1..Len(s) : s[i] # x
  BY <1>2 DEF ToSet
<1>5. IsInjective(r)
  BY <1>1, <1>2, <1>4 DEF IsInjective
<1> QED
  BY <1>1, <1>3, <1>5

LEMMA SingleFacts ==
  ASSUME NEW S, NEW x \in S, NEW r, r = <<x>>
  PROVE  r \in Seq(S) /\ ToSet(r) = {x} /\ IsInjective(r)
<1>1. r \in Seq(S) /\ DOMAIN r = 1..1 /\ r[1] = x
  OBVIOUS
<1>2. \A i \in DOMAIN r : i = 1
  BY <1>1
<1>3. 1 \in DOMAIN r
  BY <1>1
<1> QED
  BY ONLY <1>1, <1>2, <1>3 DEF ToSet, IsInjective

LEMMA AddTabKeeps ==
  ASSUME NEW s, Good(s), NEW t \in Tabs \ ToSet(s.tabs), NEW target \in Targets,
         NEW f \in FilesIds \ DOMAIN s.panes, NEW q \in TerminalIds \ DOMAIN s.panes,
         NEW r, r = AddTab(s, t, NewTab(target, f, q), NewPanes(target, f, q))
  PROVE  /\ Good(r) /\ r.active = t /\ DOMAIN r.panes = DOMAIN s.panes \cup {f, q}
         /\ \A x \in DOMAIN s.panes : r.panes[x] = s.panes[x]
<1> DEFINE tab == NewTab(target, f, q)
           new == NewPanes(target, f, q)
<1>1. f # q /\ f \in Panes /\ q \in Panes
  BY WorkspaceAssumption DEF Panes
<1>2. <<f>> \in Seq(Panes) /\ <<q>> \in Seq(Panes) /\ ToSet(<<f>>) = {f} /\ ToSet(<<q>>) = {q}
      /\ IsInjective(<<f>>) /\ IsInjective(<<q>>)
  BY <1>1, SingleFacts
<1>3. /\ tab \in TabStates
      /\ tab.surface["files"] = Surface(<<f>>, f) /\ tab.surface["terminal"] = Surface(<<q>>, q)
  BY <1>1, <1>2 DEF NewTab, Surface, Surfaces, TabStates, SurfaceStates
<1>4. new \in [{f, q} -> Contents]
  BY DEF NewPanes, FirstTerminal, Pane, Contents, Kinds, Targets
<1> HIDE DEF tab, new
<1>5. r = [tabs |-> Append(s.tabs, t), active |-> t, tab |-> Put(s.tab, t, tab),
           panes |-> Overlaid(s.panes, new)]
  BY DEF AddTab, tab, new
<1>6. /\ r.tab \in [DOMAIN s.tab \cup {t} -> TabStates] /\ r.tab[t] = tab
      /\ \A x \in DOMAIN s.tab : r.tab[x] = s.tab[x]
  BY <1>3, <1>5, GoodTypes DEF Put
<1>7. /\ r.panes \in [DOMAIN s.panes \cup {f, q} -> Contents]
      /\ \A x \in DOMAIN s.panes : r.panes[x] = s.panes[x]
  BY <1>4, <1>5, GoodTypes DEF Overlaid
<1>8. /\ r.tabs \in Seq(DOMAIN s.tab \cup {t}) /\ IsInjective(r.tabs)
      /\ ToSet(r.tabs) = DOMAIN s.tab \cup {t}
  <2>1. s.tabs \in Seq(DOMAIN s.tab \cup {t})
    BY GoodTypes
  <2>2. /\ IsInjective(s.tabs) /\ t \notin ToSet(s.tabs) /\ ToSet(s.tabs) = DOMAIN s.tab
        /\ r.tabs = Append(s.tabs, t)
    BY <1>5, GoodTypes
  <2>3. t \in DOMAIN s.tab \cup {t}
    OBVIOUS
  <2>4. /\ r.tabs \in Seq(DOMAIN s.tab \cup {t}) /\ IsInjective(r.tabs)
        /\ ToSet(r.tabs) = ToSet(s.tabs) \cup {t}
    <3> DEFINE S == DOMAIN s.tab \cup {t}
    <3>1. s.tabs \in Seq(S) /\ t \in S
      BY <2>1
    <3> HIDE DEF S
    <3>2. /\ r.tabs \in Seq(S) /\ IsInjective(r.tabs)
          /\ \A y : y \in ToSet(r.tabs) <=> (y \in ToSet(s.tabs) \/ y = t)
      BY <2>2, <3>1, AppendFacts, Zenon
    <3> QED
      BY <3>2 DEF S
  <2> QED
    BY <2>2, <2>4
<1>9. Keys(r) = Keys(s) \cup {<<t, "files">>, <<t, "terminal">>}
  BY <1>6 DEF Keys, Surfaces
<1>10. /\ On(r, <<t, "files">>) = Surface(<<f>>, f) /\ On(r, <<t, "terminal">>) = Surface(<<q>>, q)
       /\ \A key \in Keys(s) : On(r, key) = On(s, key)
  BY <1>3, <1>6 DEF On, Keys
<1>11. /\ Leaves(r, <<t, "files">>) = {f} /\ Leaves(r, <<t, "terminal">>) = {q}
       /\ \A key \in Keys(s) : Leaves(r, key) = Leaves(s, key)
  BY <1>2, <1>10 DEF Leaves, Surface
<1>12. Valid(r)
  <2>1. r.active \in ToSet(r.tabs) /\ IsInjective(r.tabs)
    BY <1>5, <1>8
  <2>2. \A key \in Keys(r) : On(r, key).active \in Leaves(r, key) /\ IsInjective(On(r, key).leaves)
    <3>1. \A key \in Keys(s) : On(r, key).active \in Leaves(r, key) /\ IsInjective(On(r, key).leaves)
      BY <1>10, <1>11, GoodSurfaces
    <3>2. /\ On(r, <<t, "files">>).active = f /\ On(r, <<t, "files">>).leaves = <<f>>
          /\ On(r, <<t, "terminal">>).active = q /\ On(r, <<t, "terminal">>).leaves = <<q>>
      BY <1>10 DEF Surface
    <3>3. \A key \in {<<t, "files">>, <<t, "terminal">>} :
            On(r, key).active \in Leaves(r, key) /\ IsInjective(On(r, key).leaves)
      BY <1>2, <1>11, <3>2
    <3> QED
      BY <1>9, <3>1, <3>3
  <2>3. \A k1, k2 \in Keys(r) : k1 # k2 => Leaves(r, k1) \cap Leaves(r, k2) = {}
    <3>1. \A a, b \in Keys(s) : a # b => Leaves(s, a) \cap Leaves(s, b) = {}
      BY GoodSurfaces
    <3>2. \A a \in Keys(s) : Leaves(s, a) \subseteq DOMAIN s.panes
      BY GoodSurfaces
    <3> QED
      BY <1>1, <1>9, <1>11, <3>1, <3>2
  <2>4. DOMAIN r.panes = UNION {Leaves(r, key) : key \in Keys(r)}
    <3>1. DOMAIN s.panes = UNION {Leaves(s, key) : key \in Keys(s)}
      BY GoodSurfaces
    <3>2. DOMAIN r.panes = DOMAIN s.panes \cup {f, q}
      BY <1>7
    <3>3. \A x \in DOMAIN r.panes : \E key \in Keys(r) : x \in Leaves(r, key)
      BY <1>9, <1>11, <3>1, <3>2
    <3>4. \A key \in Keys(r) : \A x \in Leaves(r, key) : x \in DOMAIN r.panes
      BY <1>9, <1>11, <3>1, <3>2
    <3> QED
      BY <3>3, <3>4
  <2> QED
    BY <2>1, <2>2, <2>3, <2>4 DEF Valid
<1>13. r \in Snapshots(DOMAIN r.tab, DOMAIN r.panes)
  BY <1>5, <1>6, <1>7, <1>8 DEF Snapshots
<1>14. Good(r)
  BY <1>1, <1>6, <1>7, <1>8, <1>12, <1>13, GoodTypes DEF Good
<1> QED
  BY <1>5, <1>7, <1>14

LEMMA SeqOfItsOwn ==
  ASSUME NEW S, NEW s \in Seq(S), NEW T, ToSet(s) \subseteq T
  PROVE  s \in Seq(T)
<1>1. \A i \in 1..Len(s) : s[i] \in T
  BY DEF ToSet
<1>2. Len(s) \in Nat /\ s = [i \in 1..Len(s) |-> s[i]]
  OBVIOUS
<1> QED
  BY ONLY <1>1, <1>2

LEMMA CloseTabKeeps ==
  ASSUME NEW s, Good(s), Len(s.tabs) > 1, NEW t \in ToSet(s.tabs), NEW r, r = CloseTab(s, t)
  PROVE  /\ Good(r) /\ DOMAIN r.panes \subseteq DOMAIN s.panes
         /\ \A x \in DOMAIN r.panes : r.panes[x] = s.panes[x]
<1> DEFINE at == Place(s.tabs, t)
           left == RemoveAt(s.tabs, at)
           gone == Leaves(s, <<t, "files">>) \cup Leaves(s, <<t, "terminal">>)
           rest == DOMAIN s.panes \ gone
<1>1. /\ s.tabs \in Seq(DOMAIN s.tab) /\ IsInjective(s.tabs) /\ DOMAIN s.tab = ToSet(s.tabs)
      /\ at \in 1..Len(s.tabs) /\ s.tabs[at] = t
  <2>1. s.tabs \in Seq(DOMAIN s.tab) /\ IsInjective(s.tabs) /\ DOMAIN s.tab = ToSet(s.tabs)
    BY GoodTypes
  <2> QED
    BY <2>1, PlaceFound
<1>2. /\ left \in Seq(DOMAIN s.tab) /\ Len(left) = Len(s.tabs) - 1
      /\ ToSet(left) = ToSet(s.tabs) \ {t} /\ IsInjective(left)
  <2> HIDE DEF at
  <2> QED
    BY <1>1, Removed
<1>3. r.tabs = left /\ r.tab = Restrict(s.tab, ToSet(left)) /\ r.panes = Restrict(s.panes, rest)
      /\ r.active = (IF s.active # t THEN s.active
                     ELSE left[IF at <= Len(left) THEN at ELSE Len(left)])
      /\ r = [tabs |-> r.tabs, active |-> r.active, tab |-> r.tab, panes |-> r.panes]
  BY DEF CloseTab
<1> HIDE DEF at, left, gone
<1>4. /\ r.tab \in [ToSet(left) -> TabStates]
      /\ \A x \in ToSet(left) : r.tab[x] = s.tab[x]
  BY <1>1, <1>2, <1>3, GoodTypes DEF Restrict
<1>5. /\ r.panes \in [rest -> Contents] /\ \A x \in rest : r.panes[x] = s.panes[x]
  BY <1>3, GoodTypes DEF Restrict
<1>6. r.active \in ToSet(left)
  <2>1. CASE s.active # t
    BY <1>1, <1>2, <1>3, <2>1, GoodTypes
  <2>2. CASE s.active = t
    <3>1. (IF at <= Len(left) THEN at ELSE Len(left)) \in DOMAIN left
      BY <1>1, <1>2
    <3> QED
      BY <1>3, <2>2, <3>1 DEF ToSet
  <2> QED
    BY <2>1, <2>2
<1>7. /\ Keys(r) = {key \in Keys(s) : key[1] # t}
      /\ <<t, "files">> \in Keys(s) /\ <<t, "terminal">> \in Keys(s)
      /\ \A key \in Keys(s) : key[1] = t => key \in {<<t, "files">>, <<t, "terminal">>}
  BY <1>1, <1>2, <1>4 DEF Keys, Surfaces
<1>8. \A key \in Keys(r) : On(r, key) = On(s, key) /\ Leaves(r, key) = Leaves(s, key)
  BY <1>1, <1>2, <1>4, <1>7 DEF On, Leaves, Keys
<1>9. Valid(r)
  <2>1. r.active \in ToSet(r.tabs) /\ IsInjective(r.tabs)
    BY <1>2, <1>3, <1>6
  <2>2. \A key \in Keys(r) : On(r, key).active \in Leaves(r, key) /\ IsInjective(On(r, key).leaves)
    BY <1>7, <1>8, GoodSurfaces
  <2>3. \A a, b \in Keys(s) : a # b => Leaves(s, a) \cap Leaves(s, b) = {}
    BY GoodSurfaces
  <2>4. \A k1, k2 \in Keys(r) : k1 # k2 => Leaves(r, k1) \cap Leaves(r, k2) = {}
    BY <1>7, <1>8, <2>3
  <2>5. DOMAIN r.panes = UNION {Leaves(r, key) : key \in Keys(r)}
    <3>1. DOMAIN s.panes = UNION {Leaves(s, key) : key \in Keys(s)}
      BY GoodSurfaces
    <3>2. DOMAIN r.panes = DOMAIN s.panes \ gone
      BY <1>5
    <3>3. \A x \in DOMAIN r.panes : \E key \in Keys(r) : x \in Leaves(r, key)
      <4> TAKE x \in DOMAIN r.panes
      <4>1. PICK key \in Keys(s) : x \in Leaves(s, key)
        BY <3>1, <3>2
      <4>2. key[1] # t
        BY <1>7, <3>2, <4>1 DEF gone
      <4> QED
        BY <1>7, <1>8, <4>1, <4>2
    <3>4. \A key \in Keys(r) : \A x \in Leaves(r, key) : x \in DOMAIN r.panes
      <4> TAKE key \in Keys(r)
      <4> TAKE x \in Leaves(r, key)
      <4>1. key \in Keys(s) /\ key[1] # t /\ x \in Leaves(s, key)
        BY <1>7, <1>8
      <4>2. key # <<t, "files">> /\ key # <<t, "terminal">>
        BY <4>1
      <4>3. x \notin gone
        BY <1>7, <2>3, <4>1, <4>2 DEF gone
      <4> QED
        BY <3>1, <3>2, <4>1, <4>3
    <3> QED
      BY <3>3, <3>4
  <2> QED
    BY <2>1, <2>2, <2>4, <2>5 DEF Valid
<1>10. r \in Snapshots(DOMAIN r.tab, DOMAIN r.panes)
  <2>1. DOMAIN r.tab = ToSet(left) /\ DOMAIN r.panes = rest
    BY <1>4, <1>5
  <2>2. left \in Seq(ToSet(left))
    BY <1>2, SeqOfItsOwn
  <2> QED
    BY <1>3, <1>4, <1>5, <1>6, <2>1, <2>2 DEF Snapshots
<1>11. Good(r)
  BY <1>1, <1>2, <1>3, <1>4, <1>5, <1>9, <1>10, GoodTypes DEF Good
<1> QED
  BY <1>5, <1>11

-----------------------------------------------------------------------------
(* Screens                                                                 *)

\* The types of a screen.
Parts(u) ==
  /\ u = [views |-> u.views, layouts |-> u.layouts, visible |-> u.visible,
          presented |-> u.presented, made |-> u.made]
  /\ u.views \in [DOMAIN u.views -> Contents] /\ DOMAIN u.views \subseteq Panes
  /\ u.layouts \in [DOMAIN u.layouts -> Seq(Panes)]
  /\ u.made \subseteq Panes

\* The views are of what the panes are now, the layouts have the leaves of their surfaces.
ViewsFit(u, s) ==
  /\ DOMAIN u.views \subseteq DOMAIN s.panes
  /\ \A p \in DOMAIN u.views : u.views[p] = s.panes[p]
LayoutsFit(u, s) ==
  \A key \in DOMAIN u.layouts :
    /\ key \in Keys(s)
    /\ u.layouts[key] = On(s, key).leaves
    /\ ToSet(u.layouts[key]) \subseteq DOMAIN u.views
Fit(u, s) == Parts(u) /\ ViewsFit(u, s) /\ LayoutsFit(u, s)

\* The screen shows the snapshot.
Drawn(u, s) ==
  /\ Fit(u, s)
  /\ u.visible = Key(s) /\ u.visible \in DOMAIN u.layouts
  /\ u.presented = Leaves(s, u.visible)

\* From u to v no view is lost, or built again, that is of what its pane is in s.
Survive(u, v, s) ==
  \A p \in DOMAIN u.views \cap DOMAIN s.panes : u.views[p] = s.panes[p] =>
    p \in DOMAIN v.views /\ v.views[p] = s.panes[p] /\ (p \in v.made => p \in u.made)

\* keys are mounted, whose panes are ps.
HungIn(u, v, s, keys, ps) ==
  /\ Parts(v) /\ v.visible = u.visible /\ v.presented = u.presented
  /\ DOMAIN v.views = DOMAIN u.views \cup ps /\ ps \subseteq DOMAIN s.panes
  /\ \A p \in ps : v.views[p] = s.panes[p]
  /\ \A p \in DOMAIN u.views \ ps : v.views[p] = u.views[p]
  /\ DOMAIN v.layouts = DOMAIN u.layouts \cup keys
  /\ \A key \in keys : v.layouts[key] = On(s, key).leaves
  /\ \A key \in DOMAIN u.layouts \ keys : v.layouts[key] = u.layouts[key]
  /\ Survive(u, v, s)

\* Mounting hangs every pane of the keys into its frame.
LEMMA MountedFacts ==
  ASSUME NEW u, Parts(u), NEW s, Good(s), NEW keys \in SUBSET Keys(s), NEW ps,
         \A p : p \in ps <=> \E key \in keys : p \in Leaves(s, key),
         NEW v, v = Mounted(u, s, keys)
  PROVE  HungIn(u, v, s, keys, ps)
<1> DEFINE new == {p \in ps : p \notin DOMAIN u.views \/ u.views[p] # s.panes[p]}
           views == Overlaid(u.views, [p \in new |-> s.panes[p]])
           layouts == Overlaid(u.layouts, [key \in keys |-> BuildLayout(s, key)])
<1>p. ps = UNION {Leaves(s, key) : key \in keys}
  OBVIOUS
<1>1. ps \subseteq DOMAIN s.panes
  BY GoodSurfaces
<1>2. v = [views |-> views, layouts |-> layouts, visible |-> u.visible,
           presented |-> u.presented, made |-> u.made \cup new]
  <2>1. Framed(u, s, ps) = [u EXCEPT !.views = views, !.made = u.made \cup new]
    BY DEF Framed
  <2>2. v = [Framed(u, s, ps) EXCEPT !.layouts = layouts]
    BY <1>p DEF Mounted
  <2> HIDE DEF views, layouts, new
  <2>3. u = [views |-> u.views, layouts |-> u.layouts, visible |-> u.visible,
             presented |-> u.presented, made |-> u.made]
    BY DEF Parts
  <2>4. Framed(u, s, ps) = [views |-> views, layouts |-> u.layouts, visible |-> u.visible,
                            presented |-> u.presented, made |-> u.made \cup new]
    BY <2>1, <2>3
  <2>5. PICK f : f = Framed(u, s, ps)
    OBVIOUS
  <2>6. v = [f EXCEPT !.layouts = layouts]
    BY <2>2, <2>5
  <2>7. f = [views |-> views, layouts |-> u.layouts, visible |-> u.visible,
             presented |-> u.presented, made |-> u.made \cup new]
    BY <2>4, <2>5
  <2> QED
    BY <2>6, <2>7
<1>3. /\ DOMAIN views = DOMAIN u.views \cup new
      /\ \A p \in new : views[p] = s.panes[p]
      /\ \A p \in DOMAIN u.views \ new : views[p] = u.views[p]
  BY DEF Overlaid
<1>4. /\ DOMAIN layouts = DOMAIN u.layouts \cup keys
      /\ \A key \in keys : layouts[key] = On(s, key).leaves
      /\ \A key \in DOMAIN u.layouts \ keys : layouts[key] = u.layouts[key]
  BY DEF Overlaid, BuildLayout
<1>5. /\ DOMAIN views = DOMAIN u.views \cup ps
      /\ \A p \in ps : views[p] = s.panes[p]
      /\ \A p \in DOMAIN u.views \ ps : views[p] = u.views[p]
  BY <1>3
<1>6. views \in [DOMAIN views -> Contents]
  <2>1. \A p \in DOMAIN views : views[p] \in Contents
    <3>1. \A p \in ps : views[p] \in Contents
      BY <1>1, <1>5, GoodTypes
    <3>2. \A p \in DOMAIN u.views : u.views[p] \in Contents
      BY DEF Parts
    <3> QED
      BY <1>5, <3>1, <3>2
  <2>2. views = [p \in DOMAIN views |-> views[p]]
    BY DEF Overlaid
  <2> HIDE DEF views
  <2> QED
    BY <2>1, <2>2
<1>7. layouts \in [DOMAIN layouts -> Seq(Panes)]
  <2>1. \A key \in DOMAIN layouts : layouts[key] \in Seq(Panes)
    <3>1. \A key \in keys : layouts[key] \in Seq(Panes)
      BY <1>4, GoodSurfaces
    <3>2. \A key \in DOMAIN u.layouts : u.layouts[key] \in Seq(Panes)
      BY DEF Parts
    <3> QED
      BY <1>4, <3>1, <3>2
  <2>2. layouts = [key \in DOMAIN layouts |-> layouts[key]]
    BY DEF Overlaid
  <2> HIDE DEF layouts
  <2> QED
    BY <2>1, <2>2
<1> HIDE DEF views, layouts
<1>8. v.views = views /\ v.layouts = layouts /\ v.made = u.made \cup new
      /\ v.visible = u.visible /\ v.presented = u.presented
  BY <1>2
<1>9. Parts(v)
  BY <1>1, <1>2, <1>5, <1>6, <1>7, <1>8, GoodTypes DEF Parts
<1>10. Survive(u, v, s)
  BY <1>5, <1>8 DEF Survive
<1> QED
  BY <1>1, <1>4, <1>5, <1>8, <1>9, <1>10 DEF HungIn

\* rebuildMountedLayouts() makes everything fit.
LEMMA RebuiltFits ==
  ASSUME NEW u, Parts(u), NEW s, Good(s), DOMAIN u.views \subseteq DOMAIN s.panes,
         \A p \in DOMAIN u.views \ Leaves(s, Key(s)) : u.views[p] = s.panes[p],
         NEW v, v = Rebuilt(u, s)
  PROVE  Fit(v, s) /\ Key(s) \in DOMAIN v.layouts /\ Survive(u, v, s)
<1> DEFINE keys == (DOMAIN u.layouts \cap Keys(s)) \cup {Key(s)}
           bare == [u EXCEPT !.layouts = <<>>]
           ps == UNION {Leaves(s, key) : key \in keys}
<1>1. bare = [views |-> u.views, layouts |-> <<>>, visible |-> u.visible,
              presented |-> u.presented, made |-> u.made]
  BY DEF Parts
<1>2. <<>> \in [{} -> Seq(Panes)] /\ DOMAIN <<>> = {}
  OBVIOUS
<1>3. Parts(bare) /\ bare.views = u.views /\ bare.made = u.made /\ DOMAIN bare.layouts = {}
  BY <1>1, <1>2 DEF Parts
<1>4. keys \in SUBSET Keys(s) /\ Key(s) \in keys
  BY GoodTypes
<1>5. v = Mounted(bare, s, keys)
  BY DEF Rebuilt
<1> HIDE DEF keys, bare
<1>h. HungIn(bare, v, s, keys, ps)
  <2> HIDE DEF ps
  <2>1. \A p : p \in ps <=> \E key \in keys : p \in Leaves(s, key)
    BY DEF ps
  <2> QED
    BY <1>3, <1>4, <1>5, <2>1, MountedFacts
<1>6. /\ Parts(v) /\ DOMAIN v.views = DOMAIN u.views \cup ps /\ ps \subseteq DOMAIN s.panes
      /\ \A p \in ps : v.views[p] = s.panes[p]
      /\ \A p \in DOMAIN u.views \ ps : v.views[p] = u.views[p]
      /\ DOMAIN v.layouts = keys
      /\ \A key \in keys : v.layouts[key] = On(s, key).leaves
      /\ Survive(bare, v, s)
  <2> HIDE DEF ps
  <2> QED
    BY <1>3, <1>h DEF HungIn
<1>7. \A key \in keys : Leaves(s, key) \subseteq ps
  OBVIOUS
<1>8. ViewsFit(v, s)
  BY <1>4, <1>6, <1>7 DEF ViewsFit
<1>9. LayoutsFit(v, s)
  <2>1. \A key \in keys : ToSet(v.layouts[key]) \subseteq DOMAIN v.views
    BY <1>6, <1>7 DEF Leaves
  <2> QED
    BY <1>4, <1>6, <2>1 DEF LayoutsFit
<1>10. Survive(u, v, s)
  BY <1>3, <1>6 DEF Survive
<1> QED
  BY <1>4, <1>6, <1>8, <1>9, <1>10 DEF Fit

\* showActiveSurface() mounts the active surface when it is not mounted yet.
LEMMA ShownDraws ==
  ASSUME NEW u, NEW s, Good(s), Fit(u, s), NEW v, v = Shown(u, s)
  PROVE  Drawn(v, s) /\ Survive(u, v, s)
<1> DEFINE x == IF Key(s) \in DOMAIN u.layouts THEN u ELSE Mounted(u, s, {Key(s)})
<1>1. Fit(x, s) /\ Key(s) \in DOMAIN x.layouts /\ Survive(u, x, s)
  <2>1. CASE Key(s) \in DOMAIN u.layouts
    BY <2>1 DEF Fit, ViewsFit, Survive
  <2>2. CASE Key(s) \notin DOMAIN u.layouts
    <3> DEFINE keys == {Key(s)}
    <3>1. keys \in SUBSET Keys(s) /\ x = Mounted(u, s, keys)
      BY <2>2, GoodTypes
    <3>2. \A p : p \in Leaves(s, Key(s)) <=> \E key \in keys : p \in Leaves(s, key)
      OBVIOUS
    <3>3. Key(s) \in keys /\ \A key \in keys : key = Key(s)
      OBVIOUS
    <3> HIDE DEF keys, x
    <3>h. HungIn(u, x, s, keys, Leaves(s, Key(s)))
      BY <3>1, <3>2, MountedFacts DEF Fit
    <3>4. /\ Parts(x) /\ DOMAIN x.views = DOMAIN u.views \cup Leaves(s, Key(s))
          /\ Leaves(s, Key(s)) \subseteq DOMAIN s.panes
          /\ \A p \in Leaves(s, Key(s)) : x.views[p] = s.panes[p]
          /\ \A p \in DOMAIN u.views \ Leaves(s, Key(s)) : x.views[p] = u.views[p]
          /\ DOMAIN x.layouts = DOMAIN u.layouts \cup keys
          /\ \A key \in keys : x.layouts[key] = On(s, key).leaves
          /\ \A key \in DOMAIN u.layouts \ keys : x.layouts[key] = u.layouts[key]
          /\ Survive(u, x, s)
      BY <3>h DEF HungIn
    <3>5. ViewsFit(x, s)
      BY <3>4 DEF Fit, ViewsFit
    <3>6. LayoutsFit(x, s)
      <4>1. ASSUME NEW key \in DOMAIN x.layouts
            PROVE  key \in Keys(s) /\ x.layouts[key] = On(s, key).leaves
                   /\ ToSet(x.layouts[key]) \subseteq DOMAIN x.views
        <5>1. CASE key = Key(s)
          BY <3>3, <3>4, <5>1, GoodTypes DEF Leaves
        <5>2. CASE key # Key(s)
          BY <3>3, <3>4, <5>2 DEF Fit, LayoutsFit
        <5> QED
          BY <5>1, <5>2
      <4> QED
        BY <4>1 DEF LayoutsFit
    <3> QED
      BY <3>3, <3>4, <3>5, <3>6 DEF Fit
  <2> QED
    BY <2>1, <2>2
<1>2. v = [x EXCEPT !.visible = Key(s), !.presented = Leaves(s, Key(s))]
  BY DEF Shown
<1> HIDE DEF x
<1>3. v = [views |-> x.views, layouts |-> x.layouts, visible |-> Key(s),
           presented |-> Leaves(s, Key(s)), made |-> x.made]
  BY <1>1, <1>2 DEF Fit, Parts
<1>4. /\ v.views = x.views /\ v.layouts = x.layouts /\ v.visible = Key(s)
      /\ v.presented = Leaves(s, Key(s)) /\ v.made = x.made
  BY <1>3
<1>5. Parts(v)
  BY <1>1, <1>3, <1>4 DEF Fit, Parts
<1>6. Fit(v, s)
  BY <1>1, <1>4, <1>5 DEF Fit, ViewsFit, LayoutsFit
<1> QED
  BY <1>1, <1>4, <1>6 DEF Drawn, Survive

\* renderState() leaves a screen that shows the snapshot.
LEMMA RenderedDraws ==
  ASSUME NEW u, Parts(u), NEW s, Good(s), NEW type, NEW q,
         \A p \in DOMAIN u.views \cap DOMAIN s.panes :
           u.views[p] = s.panes[p] \/ (type = "update-pane" /\ p = q),
         type = "update-pane" => q \in Leaves(s, Key(s)),
         Structural(type) \/ (LayoutsFit(u, s) /\ \A key \in Keys(s) : Leaves(s, key) \subseteq DOMAIN s.panes),
         NEW v, v = Rendered(u, s, type, q)
  PROVE  Drawn(v, s) /\ Survive(u, v, s)
<1> DEFINE views == Restrict(u.views, DOMAIN u.views \cap DOMAIN s.panes)
           x == Reconciled(u, s)
           same == q \in DOMAIN x.views /\ x.views[q] = s.panes[q]
           again == Structural(type) \/ (type = "update-pane" /\ ~same)
           y == IF again THEN Rebuilt(x, s) ELSE x
<1>1. v = Shown(y, s)
  BY DEF Rendered
<1>2. /\ DOMAIN views = DOMAIN u.views \cap DOMAIN s.panes
      /\ views \in [DOMAIN u.views \cap DOMAIN s.panes -> Contents]
      /\ \A p \in DOMAIN views : views[p] = u.views[p]
  BY DEF Restrict, Parts
<1>3. x = [views |-> views, layouts |-> u.layouts, visible |-> u.visible,
           presented |-> u.presented, made |-> u.made]
  <2> HIDE DEF views
  <2>1. x = [u EXCEPT !.views = views]
    BY DEF Reconciled, views
  <2> QED
    BY <2>1 DEF Parts
<1> HIDE DEF views, x
<1>4. x.views = views /\ x.layouts = u.layouts /\ x.made = u.made
  BY <1>3
<1>5. Parts(x)
  BY <1>2, <1>3, <1>4 DEF Parts
<1>6. Survive(u, x, s)
  BY <1>2, <1>4 DEF Survive
<1>7. Fit(y, s) /\ Survive(x, y, s)
  <2>1. CASE again
    <3>1. y = Rebuilt(x, s)
      BY <2>1
    <3>2. DOMAIN x.views \subseteq DOMAIN s.panes
      BY <1>2, <1>4
    <3>3. \A p \in DOMAIN x.views \ Leaves(s, Key(s)) : x.views[p] = s.panes[p]
      BY <1>2, <1>4
    <3> HIDE DEF y, again
    <3> QED
      BY <1>5, <3>1, <3>2, <3>3, RebuiltFits
  <2>2. CASE ~again
    <3>1. y = x /\ ~Structural(type)
      BY <2>2
    <3>2. ViewsFit(x, s)
      BY <1>2, <1>4, <2>2 DEF ViewsFit
    <3>3. LayoutsFit(x, s)
      <4>1. LayoutsFit(u, s) /\ \A key \in Keys(s) : Leaves(s, key) \subseteq DOMAIN s.panes
        BY <3>1
      <4> QED
        BY <1>2, <1>4, <4>1 DEF LayoutsFit, Leaves
    <3> QED
      BY <1>5, <3>1, <3>2, <3>3 DEF Fit, Survive
  <2> QED
    BY <2>1, <2>2
<1> HIDE DEF y
<1>8. Drawn(v, s) /\ Survive(y, v, s)
  BY <1>1, <1>7, ShownDraws
<1> QED
  BY <1>6, <1>7, <1>8 DEF Survive

-----------------------------------------------------------------------------
(* Dispatches                                                              *)

\* A pair in the middle of a step: no view has changed but those of panes that are new.
Steady(w) ==
  \A p \in DOMAIN ui.views \cap DOMAIN w.s.panes :
    w.s.panes[p] = ui.views[p] /\ p \in DOMAIN w.u.views /\ p \notin w.u.made
Whole(w) == Good(w.s) /\ Drawn(w.u, w.s) /\ Steady(w)

\* A pair at the end of a step, which may have given one pane another content.
Kept(w) ==
  \A p \in DOMAIN ui.views \cap DOMAIN w.s.panes :
    w.s.panes[p] = ui.views[p] => p \in DOMAIN w.u.views /\ p \notin w.u.made
Complete(w) == Good(w.s) /\ Drawn(w.u, w.s) /\ Kept(w)

LEMMA WholeIsComplete ==
  ASSUME NEW w, Whole(w)
  PROVE  Complete(w)
BY DEF Whole, Complete, Steady, Kept

\* What a dispatch may do to the panes, and to the leaves unless it rebuilds the layouts.
Adds(s, r) ==
  /\ \A p \in DOMAIN s.panes \cap DOMAIN r.panes : r.panes[p] = s.panes[p]
  /\ \A p \in DOMAIN r.panes \ DOMAIN s.panes : p \notin DOMAIN ui.views
SameLeaves(s, r) ==
  Keys(r) = Keys(s) /\ \A key \in Keys(s) : On(r, key).leaves = On(s, key).leaves

\* A dispatch that is no update leaves the pair whole.
LEMMA DispatchKeeps ==
  ASSUME NEW w, Whole(w), NEW type, type # "update-pane", NEW q, NEW r, Good(r), Adds(w.s, r),
         Structural(type) \/ SameLeaves(w.s, r), NEW x, x = Dispatch(w, type, q, r)
  PROVE  Whole(x) /\ x.s = r
<1>1. CASE r = w.s
  BY <1>1 DEF Dispatch
<1>2. CASE r # w.s
  <2>1. x.s = r /\ x.u = Rendered(w.u, r, type, q)
    BY <1>2 DEF Dispatch
  <2>2. Parts(w.u) /\ ViewsFit(w.u, w.s) /\ LayoutsFit(w.u, w.s) /\ Steady(w)
    BY DEF Whole, Drawn, Fit
  <2>3. \A p \in DOMAIN w.u.views \cap DOMAIN r.panes : w.u.views[p] = r.panes[p]
    BY <2>2 DEF ViewsFit, Adds
  <2>4. SameLeaves(w.s, r) => LayoutsFit(w.u, r)
    BY <2>2 DEF SameLeaves, LayoutsFit
  <2>5. \A key \in Keys(r) : Leaves(r, key) \subseteq DOMAIN r.panes
    BY GoodSurfaces
  <2>6. Drawn(x.u, r) /\ Survive(w.u, x.u, r)
    BY <2>1, <2>2, <2>3, <2>4, <2>5, RenderedDraws
  <2>7. Steady(x)
    BY <2>1, <2>2, <2>3, <2>6 DEF Steady, Survive, Adds
  <2> QED
    BY <2>1, <2>6, <2>7 DEF Whole
<1> QED
  BY <1>1, <1>2

\* An update of a pane on screen ends a step.
LEMMA UpdateCompletes ==
  ASSUME NEW w, Whole(w), NEW q \in Leaves(w.s, Key(w.s)), NEW pane \in Contents,
         NEW x, x = Dispatch(w, "update-pane", q, UpdatePane(w.s, q, pane))
  PROVE  Complete(x)
<1> DEFINE r == UpdatePane(w.s, q, pane)
<1>1. CASE r = w.s
  <2>1. x = w
    BY <1>1 DEF Dispatch
  <2> QED
    BY <2>1, WholeIsComplete
<1>2. CASE r # w.s
  <2>0. Good(w.s) /\ q \in DOMAIN w.s.panes
    BY ActiveFacts DEF Whole
  <2>1. x.s = r /\ x.u = Rendered(w.u, r, "update-pane", q)
    BY <1>2 DEF Dispatch
  <2>2. /\ Good(r) /\ Keys(r) = Keys(w.s) /\ Key(r) = Key(w.s)
        /\ \A key \in Keys(w.s) : On(r, key) = On(w.s, key)
        /\ DOMAIN r.panes = DOMAIN w.s.panes
        /\ \A p \in DOMAIN w.s.panes : p # q => r.panes[p] = w.s.panes[p]
    BY <2>0, UpdateKeeps
  <2> HIDE DEF r
  <2>3. Parts(w.u) /\ ViewsFit(w.u, w.s) /\ LayoutsFit(w.u, w.s) /\ Steady(w)
    BY DEF Whole, Drawn, Fit
  <2>4. \A p \in DOMAIN w.u.views \cap DOMAIN r.panes : w.u.views[p] = r.panes[p] \/ p = q
    BY <2>2, <2>3 DEF ViewsFit
  <2>5. LayoutsFit(w.u, r) /\ q \in Leaves(r, Key(r))
    BY <2>0, <2>2, <2>3, GoodTypes DEF LayoutsFit, Leaves
  <2>6. \A key \in Keys(r) : Leaves(r, key) \subseteq DOMAIN r.panes
    BY <2>2, GoodSurfaces
  <2>7. Drawn(x.u, r) /\ Survive(w.u, x.u, r)
    BY <2>1, <2>2, <2>3, <2>4, <2>5, <2>6, RenderedDraws
  <2>8. Kept(x)
    <3> SUFFICES ASSUME NEW p \in DOMAIN ui.views \cap DOMAIN r.panes, r.panes[p] = ui.views[p]
                 PROVE  p \in DOMAIN x.u.views /\ p \notin x.u.made
      BY <2>1 DEF Kept
    <3>1. w.s.panes[p] = ui.views[p] /\ p \in DOMAIN w.u.views /\ p \notin w.u.made
      BY <2>2, <2>3 DEF Steady
    <3>2. w.u.views[p] = r.panes[p]
      BY <2>3, <3>1 DEF ViewsFit
    <3> QED
      BY <2>7, <3>1, <3>2 DEF Survive
  <2> QED
    BY <2>1, <2>2, <2>7, <2>8 DEF Complete
<1> QED
  BY <1>1, <1>2

LEMMA ForgetMade ==
  ASSUME NEW u, NEW s, Drawn(u, s), NEW v, v = [u EXCEPT !.made = {}]
  PROVE  Drawn(v, s) /\ v.made = {}
<1>1. Parts(u) /\ ViewsFit(u, s) /\ LayoutsFit(u, s)
  BY DEF Drawn, Fit
<1>2. v = [views |-> u.views, layouts |-> u.layouts, visible |-> u.visible,
           presented |-> u.presented, made |-> {}]
  BY <1>1 DEF Parts
<1>3. /\ v.views = u.views /\ v.layouts = u.layouts /\ v.visible = u.visible
      /\ v.presented = u.presented /\ v.made = {}
  BY <1>2
<1>4. Parts(v)
  BY <1>1, <1>2, <1>3 DEF Parts
<1>5. ViewsFit(v, s) /\ LayoutsFit(v, s)
  BY <1>1, <1>3 DEF ViewsFit, LayoutsFit
<1> QED
  BY <1>3, <1>4, <1>5 DEF Drawn, Fit

\* What is committed is what the dispatches made; the history shows no view lost.
LEMMA CommitKeeps ==
  ASSUME NEW w, Complete(w), Commit(w)
  PROVE  Good(state') /\ Drawn(ui', state') /\ ui'.made = {} /\ lost' = {} /\ state' = w.s
<1>1. /\ state' = w.s /\ ui' = [w.u EXCEPT !.made = {}]
      /\ lost' = {p \in DOMAIN ui.views \cap DOMAIN w.s.panes :
                    ui.views[p] = w.s.panes[p] /\ (p \in w.u.made \/ p \notin DOMAIN w.u.views)}
  BY DEF Commit
<1>2. lost' = {}
  BY <1>1 DEF Complete, Kept
<1>3. Drawn(ui', w.s) /\ ui'.made = {}
  BY <1>1, ForgetMade DEF Complete
<1> QED
  BY <1>1, <1>2, <1>3 DEF Complete

-----------------------------------------------------------------------------
(* The handlers                                                            *)

\* Between two steps: the snapshot can be saved, the screen shows it, no view was lost.
Scene == Good(state) /\ Drawn(ui, state) /\ ui.made = {} /\ lost = {}

NavTypes == navs \subseteq [tab : Tabs, latest : BOOLEAN]

\* Only the last click counts.
OneLatest == \A n, m \in navs : n.latest /\ m.latest => n.tab = m.tab

\* The inductive invariant.
IInv ==
  /\ Scene
  /\ creating \in 0..MaxWaiting
  /\ NavTypes /\ OneLatest
  /\ revealed \in (Tabs \X Panes) \cup {<<>>}

LEMMA CommitKeepsScene ==
  ASSUME NEW w, Complete(w), Commit(w)
  PROVE  Scene' /\ state' = w.s
BY CommitKeeps DEF Scene

LEMMA IdleKeepsScene ==
  ASSUME Scene, Idle
  PROVE  Scene'
BY DEF Scene, Idle

LEMMA NowIsWhole ==
  ASSUME Scene
  PROVE  Whole(Now) /\ Now.s = state /\ DOMAIN ui.views \subseteq DOMAIN state.panes
<1>1. Now.s = state /\ Now.u = ui
  BY DEF Now
<1>2. Good(state) /\ Drawn(ui, state) /\ ViewsFit(ui, state) /\ ui.made = {}
  BY DEF Scene, Drawn, Fit
<1>3. Steady(Now)
  BY <1>1, <1>2 DEF Steady, ViewsFit
<1> QED
  BY <1>1, <1>2, <1>3 DEF Whole, ViewsFit

\* The dispatches that several handlers make.
LEMMA ShownOnKeeps ==
  ASSUME NEW w, Whole(w), NEW name \in Surfaces, NEW x, x = ShownOn(w, name)
  PROVE  /\ Whole(x) /\ x.s = SetSurface(w.s, name)
         /\ x.s.panes = w.s.panes /\ x.s.active = w.s.active /\ Key(x.s) = <<w.s.active, name>>
<1> DEFINE r == SetSurface(w.s, name)
<1>1. /\ Good(r) /\ Keys(r) = Keys(w.s) /\ r.active = w.s.active /\ r.panes = w.s.panes
      /\ Key(r) = <<w.s.active, name>>
      /\ \A key \in Keys(w.s) : On(r, key) = On(w.s, key)
  BY SetSurfaceKeeps DEF Whole
<1>2. x = Dispatch(w, "set-active-surface", Nobody, r)
  BY DEF ShownOn
<1> HIDE DEF r
<1>3. Adds(w.s, r) /\ SameLeaves(w.s, r)
  BY <1>1 DEF Adds, SameLeaves
<1>4. Whole(x) /\ x.s = r
  <2>1. Good(r) /\ "set-active-surface" # "update-pane"
    BY <1>1
  <2> QED
    BY <1>2, <1>3, <2>1, DispatchKeeps
<1> QED
  BY <1>1, <1>4 DEF r

LEMMA ActivateDispatch ==
  ASSUME NEW w, Whole(w), NEW t \in DOMAIN w.s.tab, NEW x,
         x = Dispatch(w, "activate-tab", Nobody, ActivateTab(w.s, t))
  PROVE  Whole(x) /\ x.s = ActivateTab(w.s, t) /\ x.s.active = t /\ x.s.panes = w.s.panes
<1> DEFINE r == ActivateTab(w.s, t)
<1>1. /\ Good(r) /\ Keys(r) = Keys(w.s) /\ r.active = t /\ r.panes = w.s.panes
      /\ \A key \in Keys(w.s) : On(r, key) = On(w.s, key)
  BY ActivateKeeps DEF Whole
<1> HIDE DEF r
<1>2. Adds(w.s, r) /\ SameLeaves(w.s, r)
  BY <1>1 DEF Adds, SameLeaves
<1>3. x = Dispatch(w, "activate-tab", Nobody, r)
  BY DEF r
<1>4. Whole(x) /\ x.s = r
  BY <1>1, <1>2, <1>3, DispatchKeeps
<1> QED
  BY <1>1, <1>4 DEF r

LEMMA FocusDispatch ==
  ASSUME NEW w, Whole(w), NEW p \in Leaves(w.s, Key(w.s)), NEW x,
         x = Dispatch(w, "focus-pane", p, FocusPane(w.s, p))
  PROVE  Whole(x)
<1> DEFINE r == FocusPane(w.s, p)
<1>1. /\ Good(r) /\ r.panes = w.s.panes /\ Keys(r) = Keys(w.s)
      /\ \A key \in Keys(w.s) : On(r, key).leaves = On(w.s, key).leaves
  BY FocusKeeps DEF Whole
<1>2. x = Dispatch(w, "focus-pane", p, r)
  OBVIOUS
<1> HIDE DEF r
<1>3. Adds(w.s, r) /\ SameLeaves(w.s, r)
  BY <1>1 DEF Adds, SameLeaves
<1>4. Good(r) /\ "focus-pane" # "update-pane"
  BY <1>1
<1> QED
  BY <1>2, <1>3, <1>4, DispatchKeeps

LEMMA SplitDispatch ==
  ASSUME NEW w, Whole(w), NEW p \in Leaves(w.s, Key(w.s)), NEW q \in Panes \ DOMAIN w.s.panes,
         q \notin DOMAIN ui.views, NEW pane \in Contents, NEW x,
         x = Dispatch(w, "split-pane", q, SplitPane(w.s, p, q, pane))
  PROVE  Whole(x)
<1> DEFINE r == SplitPane(w.s, p, q, pane)
<1>1. /\ Good(r) /\ DOMAIN r.panes = DOMAIN w.s.panes \cup {q}
      /\ \A y \in DOMAIN w.s.panes : r.panes[y] = w.s.panes[y]
  BY SplitKeeps DEF Whole
<1>2. x = Dispatch(w, "split-pane", q, r)
  OBVIOUS
<1> HIDE DEF r
<1>3. Adds(w.s, r) /\ Structural("split-pane")
  BY <1>1 DEF Adds, Structural
<1> QED
  BY <1>1, <1>2, <1>3, DispatchKeeps

LEMMA OpenedKeeps ==
  ASSUME NEW w, Whole(w), NEW t \in Tabs \ ToSet(w.s.tabs), NEW target \in Targets,
         NEW f \in FilesIds \ DOMAIN w.s.panes, NEW q \in TerminalIds \ DOMAIN w.s.panes,
         f \notin DOMAIN ui.views, q \notin DOMAIN ui.views,
         NEW x, x = Opened(w, t, target, f, q)
  PROVE  Whole(x)
<1> DEFINE r == AddTab(w.s, t, NewTab(target, f, q), NewPanes(target, f, q))
<1>1. /\ Good(r) /\ DOMAIN r.panes = DOMAIN w.s.panes \cup {f, q}
      /\ \A y \in DOMAIN w.s.panes : r.panes[y] = w.s.panes[y]
  BY AddTabKeeps DEF Whole
<1>2. x = Dispatch(w, "add-tab", Nobody, r)
  BY DEF Opened
<1> HIDE DEF r
<1>3. Adds(w.s, r) /\ Structural("add-tab")
  BY <1>1 DEF Adds, Structural
<1> QED
  BY <1>1, <1>2, <1>3, DispatchKeeps

LEMMA EnsuredKeeps ==
  ASSUME Scene, NEW target \in Targets, NEW x \in Ensured(Now, target)
  PROVE  Whole(x)
<1> DEFINE first == SelectInSeq(state.tabs, LAMBDA t : state.tab[t].target = target)
           I == {i \in 1..Len(state.tabs) : state.tab[state.tabs[i]].target = target}
<1>0. Whole(Now) /\ Now.s = state /\ DOMAIN ui.views \subseteq DOMAIN state.panes /\ Good(state)
  BY NowIsWhole DEF Scene
<1>1. CASE first # 0
  <2>1. I # {} /\ first = Min(I)
    BY <1>1 DEF SelectInSeq
  <2>2. I \in SUBSET Nat
    OBVIOUS
  <2> HIDE DEF first
  <2>3. first \in I
    <3> HIDE DEF I
    <3> QED
      BY <2>1, <2>2, LeastPosition
  <2>4. state.tabs[first] \in DOMAIN state.tab
    BY <1>0, <2>3, GoodTypes DEF ToSet
  <2>5. x = Dispatch(Now, "activate-tab", Nobody, ActivateTab(state, state.tabs[first]))
    BY <1>0, <1>1 DEF Ensured, first
  <2> QED
    BY <1>0, <2>4, <2>5, ActivateDispatch
<1>2. CASE first = 0
  <2>1. PICK t \in FreeTabs, f \in Free("files"), q \in Free("terminal") :
          x = Opened(Now, t, target, f, q)
    BY <1>0, <1>2 DEF Ensured
  <2>2. /\ t \in Tabs \ ToSet(state.tabs)
        /\ f \in FilesIds \ DOMAIN state.panes /\ q \in TerminalIds \ DOMAIN state.panes
        /\ f \notin DOMAIN ui.views /\ q \notin DOMAIN ui.views
    BY <1>0 DEF FreeTabs, Free, Ids
  <2> QED
    BY <1>0, <2>1, <2>2, OpenedKeeps
<1> QED
  BY <1>1, <1>2

LEMMA AttachedKeeps ==
  ASSUME NEW w0, Whole(w0), NEW session \in {"", Session}, NEW inSplit \in BOOLEAN, NEW fresh,
         inSplit => fresh \in Panes \ DOMAIN w0.s.panes /\ fresh \notin DOMAIN ui.views,
         NEW x, x = Attached(w0, session, inSplit, fresh)
  PROVE  Complete(x)
<1> DEFINE w == ShownOn(w0, "terminal")
           here == Active(w.s)
           I == {i \in 1..Len(here.leaves) : session # "" /\
                   w.s.panes[here.leaves[i]].kind = "terminal" /\
                   w.s.panes[here.leaves[i]].session = session}
           open == SelectInSeq(here.leaves, LAMBDA p : session # "" /\
                     w.s.panes[p].kind = "terminal" /\ w.s.panes[p].session = session)
           pane == Pane("terminal", ActiveTab(w.s).target, session)
<1>1. Whole(w) /\ w.s.panes = w0.s.panes /\ Good(w.s)
  BY ShownOnKeeps DEF Surfaces, Whole
<1>2. x = CASE open # 0 -> Dispatch(w, "focus-pane", here.leaves[open], FocusPane(w.s, here.leaves[open]))
            [] open = 0 /\ inSplit ->
                 Dispatch(w, "split-pane", fresh, SplitPane(w.s, here.active, fresh, pane))
            [] OTHER -> Dispatch(w, "update-pane", here.active, UpdatePane(w.s, here.active, pane))
  BY DEF Attached
<1>3. open # 0 => I # {} /\ open = Min(I)
  BY DEF SelectInSeq
<1> HIDE DEF w, open
<1>5. /\ here.leaves \in Seq(Panes) /\ here.active \in Leaves(w.s, Key(w.s))
      /\ ToSet(here.leaves) = Leaves(w.s, Key(w.s))
  BY <1>1, ActiveFacts
<1>4. I \in SUBSET Nat /\ I \subseteq DOMAIN here.leaves
  <2> HIDE DEF here
  <2>1. 1..Len(here.leaves) \subseteq Nat /\ DOMAIN here.leaves = 1..Len(here.leaves)
    BY <1>5, PositionsOf, Zenon
  <2>2. I \subseteq 1..Len(here.leaves)
    OBVIOUS
  <2> HIDE DEF I
  <2> QED
    BY <2>1, <2>2
<1>6. pane \in Contents
  <2>1. ActiveTab(w.s).target \in Targets
    BY <1>1, GoodTypes DEF ActiveTab, TabStates
  <2> QED
    BY <2>1 DEF Pane, Contents, Kinds
<1>7. CASE open # 0
  <2>1. open \in I
    <3> HIDE DEF I
    <3> QED
      BY <1>3, <1>4, <1>7, LeastPosition
  <2>2. here.leaves[open] \in Leaves(w.s, Key(w.s))
    <3>1. open \in DOMAIN here.leaves
      BY <1>4, <2>1
    <3> QED
      BY <1>5, <3>1 DEF ToSet
  <2>3. x = Dispatch(w, "focus-pane", here.leaves[open], FocusPane(w.s, here.leaves[open]))
    BY <1>2, <1>7
  <2> QED
    BY <1>1, <2>2, <2>3, FocusDispatch, WholeIsComplete
<1>8. CASE open = 0 /\ inSplit
  <2>1. x = Dispatch(w, "split-pane", fresh, SplitPane(w.s, here.active, fresh, pane))
    BY <1>2, <1>8
  <2> HIDE DEF here, pane
  <2> QED
    BY <1>1, <1>5, <1>6, <1>8, <2>1, SplitDispatch, WholeIsComplete
<1>9. CASE open = 0 /\ ~inSplit
  <2>1. x = Dispatch(w, "update-pane", here.active, UpdatePane(w.s, here.active, pane))
    BY <1>2, <1>9
  <2> HIDE DEF here, pane
  <2> QED
    BY <1>1, <1>5, <1>6, <2>1, UpdateCompletes
<1> QED
  BY <1>7, <1>8, <1>9

-----------------------------------------------------------------------------
(* The start                                                               *)

\* A snapshot with one tab.
LEMMA OneTab ==
  ASSUME NEW t \in Tabs, NEW tab \in TabStates, NEW panes, NEW s,
         s = [tabs |-> <<t>>, active |-> t, tab |-> [x \in {t} |-> tab], panes |-> panes],
         \A n \in Surfaces : /\ tab.surface[n].active \in ToSet(tab.surface[n].leaves)
                             /\ IsInjective(tab.surface[n].leaves),
         ToSet(tab.surface["files"].leaves) \cap ToSet(tab.surface["terminal"].leaves) = {},
         panes \in [ToSet(tab.surface["files"].leaves) \cup ToSet(tab.surface["terminal"].leaves)
                      -> Contents]
  PROVE  Good(s)
<1> DEFINE a == tab.surface["files"]
           b == tab.surface["terminal"]
<1>1. /\ s.tabs = <<t>> /\ s.active = t /\ s.panes = panes
      /\ s.tab \in [{t} -> TabStates] /\ s.tab[t] = tab
  OBVIOUS
<1>2. <<t>> \in Seq({t}) /\ ToSet(<<t>>) = {t} /\ IsInjective(<<t>>)
  BY SingleFacts
<1>3. Keys(s) = {<<t, "files">>, <<t, "terminal">>}
  BY <1>1 DEF Keys, Surfaces
<1>4. On(s, <<t, "files">>) = a /\ On(s, <<t, "terminal">>) = b
  BY <1>1 DEF On
<1>5. Leaves(s, <<t, "files">>) = ToSet(a.leaves) /\ Leaves(s, <<t, "terminal">>) = ToSet(b.leaves)
  BY <1>4 DEF Leaves
<1>6. ToSet(a.leaves) \subseteq Panes /\ ToSet(b.leaves) \subseteq Panes
  <2>1. a.leaves \in Seq(Panes) /\ b.leaves \in Seq(Panes)
    BY DEF TabStates, SurfaceStates, Surfaces
  <2> QED
    BY <2>1 DEF ToSet
<1>7. DOMAIN s.panes = ToSet(a.leaves) \cup ToSet(b.leaves) /\ s.panes \in [DOMAIN s.panes -> Contents]
  BY <1>1
<1>8. Valid(s)
  <2>1. \A key \in Keys(s) : On(s, key).active \in Leaves(s, key) /\ IsInjective(On(s, key).leaves)
    BY <1>3, <1>4, <1>5 DEF Surfaces
  <2>2. \A k1, k2 \in Keys(s) : k1 # k2 => Leaves(s, k1) \cap Leaves(s, k2) = {}
    BY <1>3, <1>5
  <2>3. UNION {Leaves(s, key) : key \in Keys(s)} = ToSet(a.leaves) \cup ToSet(b.leaves)
    BY <1>3, <1>5
  <2> QED
    BY <1>1, <1>2, <1>7, <2>1, <2>2, <2>3 DEF Valid
<1>9. s \in Snapshots(DOMAIN s.tab, DOMAIN s.panes)
  BY <1>1, <1>2, <1>7 DEF Snapshots
<1> QED
  BY <1>1, <1>2, <1>6, <1>7, <1>8, <1>9 DEF Good

\* A first start.
LEMMA FirstStart ==
  ASSUME NEW t \in Tabs, NEW f \in FilesIds, NEW q \in TerminalIds, NEW s,
         s = [tabs |-> <<t>>, active |-> t, tab |-> [x \in {t} |-> NewTab(Local, f, q)],
              panes |-> NewPanes(Local, f, q)]
  PROVE  Good(s)
<1> DEFINE tab == NewTab(Local, f, q)
           panes == NewPanes(Local, f, q)
<1>1. f # q /\ f \in Panes /\ q \in Panes
  BY WorkspaceAssumption DEF Panes
<1>2. /\ <<f>> \in Seq(Panes) /\ <<q>> \in Seq(Panes) /\ ToSet(<<f>>) = {f} /\ ToSet(<<q>>) = {q}
      /\ IsInjective(<<f>>) /\ IsInjective(<<q>>)
  BY <1>1, SingleFacts
<1>3. /\ tab \in TabStates
      /\ tab.surface["files"] = Surface(<<f>>, f) /\ tab.surface["terminal"] = Surface(<<q>>, q)
  BY <1>1, <1>2 DEF NewTab, Surface, Surfaces, TabStates, SurfaceStates, Targets
<1>4. panes \in [{f, q} -> Contents]
  BY DEF NewPanes, FirstTerminal, Pane, Contents, Kinds, Targets
<1> HIDE DEF tab, panes
<1>5. /\ tab.surface["files"].leaves = <<f>> /\ tab.surface["files"].active = f
      /\ tab.surface["terminal"].leaves = <<q>> /\ tab.surface["terminal"].active = q
  BY <1>3 DEF Surface
<1>6. s = [tabs |-> <<t>>, active |-> t, tab |-> [x \in {t} |-> tab], panes |-> panes]
  BY DEF tab, panes
<1>7. \A n \in Surfaces : /\ tab.surface[n].active \in ToSet(tab.surface[n].leaves)
                          /\ IsInjective(tab.surface[n].leaves)
  BY <1>2, <1>5 DEF Surfaces
<1>8. ToSet(tab.surface["files"].leaves) = {f} /\ ToSet(tab.surface["terminal"].leaves) = {q}
  BY <1>2, <1>5
<1>9. panes \in [ToSet(tab.surface["files"].leaves) \cup ToSet(tab.surface["terminal"].leaves) -> Contents]
  <2>1. {f} \cup {q} = {f, q}
    OBVIOUS
  <2> QED
    BY <1>4, <1>8, <2>1
<1>10. ToSet(tab.surface["files"].leaves) \cap ToSet(tab.surface["terminal"].leaves) = {}
  BY <1>1, <1>8
<1> QED
  BY <1>3, <1>6, <1>7, <1>9, <1>10, OneTab

FirstFew(g, n) == SubSeq(g, 1, n)

\* The ids of the leaves of a stored tab: the first of those drawn.
LEMMA Prefix ==
  ASSUME NEW S, NEW m \in Nat, NEW g \in [1..m -> S], IsInjective(g), NEW n \in 1..m,
         NEW r, r = FirstFew(g, n)
  PROVE  /\ r \in Seq(S) /\ Len(r) = n /\ IsInjective(r)
         /\ DOMAIN r = 1..n /\ \A i \in 1..n : r[i] = g[i]
<1>1. g \in Seq(S) /\ Len(g) = m
  OBVIOUS
<1>2. r \in Seq(S) /\ Len(r) = n /\ \A i \in 1..n : r[i] = g[i]
  BY <1>1 DEF FirstFew
<1>3. DOMAIN r = 1..n
  BY <1>2
<1>4. IsInjective(r)
  BY <1>2, <1>3 DEF IsInjective
<1> QED
  BY <1>2, <1>3, <1>4

\* A start from a stored workspace.
LEMMA MigratedStart ==
  ASSUME NEW t \in Tabs, NEW v1 \in Legacy,
         NEW f \in [1..MaxLeaves -> FilesIds], IsInjective(f),
         NEW q \in [1..MaxLeaves -> TerminalIds], IsInjective(q),
         NEW id, id = [n \in Surfaces |-> IF n = "files" THEN f ELSE q],
         NEW s, s = Migrated(t, v1, id)
  PROVE  Good(s)
<1> DEFINE target == IF \E i \in DOMAIN v1.leaves : v1.leaves[i].target # Local
                     THEN Host ELSE Local
           kept == IF v1.leaves[v1.active].kind = "terminal" THEN "terminal" ELSE "files"
           other == IF kept = "files" THEN "terminal" ELSE "files"
           ids == SubSeq(id[kept], 1, Len(v1.leaves))
           p1 == id[other][1]
           placeholder == IF kept = "files" THEN FirstTerminal(target) ELSE Pane("files", target, "")
           pane(i) == IF v1.leaves[i].kind = "session-picker"
                      THEN Pane("terminal-launcher", target, "")
                      ELSE [v1.leaves[i] EXCEPT !.target = target]
           old == [p \in ToSet(ids) |-> pane(Place(ids, p))]
           panes == Put(old, p1, placeholder)
           tab == [target |-> target, shown |-> kept,
                   surface |-> [n \in Surfaces |-> IF n = kept THEN Surface(ids, ids[v1.active])
                                                   ELSE Surface(<<p1>>, p1)]]
<1>1. s = [tabs |-> <<t>>, active |-> t, tab |-> [x \in {t} |-> tab], panes |-> panes]
  BY DEF Migrated
<1>2. /\ v1.leaves \in Seq(Contents) /\ Len(v1.leaves) \in 1..MaxLeaves
      /\ v1.active \in DOMAIN v1.leaves /\ MaxLeaves \in Nat \ {0}
      /\ FilesIds \cap TerminalIds = {}
  BY WorkspaceAssumption
<1>3. target \in Targets /\ placeholder \in Contents
  BY DEF Targets, FirstTerminal, Pane, Contents, Kinds
<1>4. \A i \in 1..Len(v1.leaves) : pane(i) \in Contents
  <2>1. \A i \in 1..Len(v1.leaves) : v1.leaves[i] \in Contents
    BY <1>2
  <2> QED
    BY <1>3, <2>1 DEF Pane, Contents, Kinds
<1>5. /\ kept \in Surfaces /\ other \in Surfaces /\ other # kept /\ Surfaces = {kept, other}
      /\ id[kept] \in [1..MaxLeaves -> Ids(kept)] /\ IsInjective(id[kept])
      /\ id[other] \in [1..MaxLeaves -> Ids(other)] /\ Ids(kept) \cap Ids(other) = {}
      /\ Ids(kept) \subseteq Panes /\ Ids(other) \subseteq Panes
  BY <1>2 DEF Surfaces, Ids, Panes
<1> HIDE DEF target, placeholder, pane, kept, other
<1>6. /\ ids \in Seq(Ids(kept)) /\ Len(ids) = Len(v1.leaves) /\ IsInjective(ids)
      /\ DOMAIN ids = 1..Len(v1.leaves)
  <2>1. PICK g : g = id[kept]
    OBVIOUS
  <2>2. PICK n : n = Len(v1.leaves)
    OBVIOUS
  <2>3. ids = FirstFew(g, n)
    BY <2>1, <2>2 DEF FirstFew
  <2> HIDE DEF ids
  <2>4. PICK S : S = Ids(kept)
    OBVIOUS
  <2>5. g \in [1..MaxLeaves -> S] /\ IsInjective(g)
    BY <1>5, <2>1, <2>4
  <2>6. n \in 1..MaxLeaves /\ MaxLeaves \in Nat
    BY <1>2, <2>2
  <2>7. /\ ids \in Seq(S) /\ Len(ids) = n /\ IsInjective(ids) /\ DOMAIN ids = 1..n
    BY ONLY <2>3, <2>5, <2>6, Prefix
  <2> QED
    BY <2>2, <2>4, <2>7
<1>7. p1 \in Ids(other)
  BY <1>2, <1>5
<1> HIDE DEF ids, p1
<1>8. /\ ids \in Seq(Panes) /\ p1 \in Panes /\ p1 \notin ToSet(ids)
      /\ ids[v1.active] \in ToSet(ids) /\ ids[v1.active] \in Panes
  <2>1. ToSet(ids) \subseteq Ids(kept)
    BY <1>6 DEF ToSet
  <2>2. v1.active \in DOMAIN ids
    BY <1>2, <1>6
  <2>3. ids[v1.active] \in ToSet(ids)
    BY <2>2 DEF ToSet
  <2>4. ids \in Seq(Panes)
    BY <1>5, <1>6, <2>1, SeqOfItsOwn
  <2> QED
    BY <1>5, <1>7, <2>1, <2>3, <2>4
<1>9. old \in [ToSet(ids) -> Contents]
  <2>1. \A p \in ToSet(ids) : Place(ids, p) \in 1..Len(v1.leaves)
    BY <1>6, PlaceFound
  <2> QED
    BY <1>4, <2>1
<1> HIDE DEF old
<1>10. panes \in [ToSet(ids) \cup {p1} -> Contents]
  BY <1>3, <1>9 DEF Put
<1>11. /\ <<p1>> \in Seq(Panes) /\ ToSet(<<p1>>) = {p1} /\ IsInjective(<<p1>>)
  BY <1>8, SingleFacts
<1>12. Surface(ids, ids[v1.active]) \in SurfaceStates /\ Surface(<<p1>>, p1) \in SurfaceStates
  BY <1>8, <1>11 DEF Surface, SurfaceStates
<1>13. /\ tab \in TabStates
       /\ tab.surface[kept] = Surface(ids, ids[v1.active]) /\ tab.surface[other] = Surface(<<p1>>, p1)
  BY <1>3, <1>5, <1>12 DEF TabStates
<1> HIDE DEF tab, panes
<1>14. /\ tab.surface[kept].leaves = ids /\ tab.surface[kept].active = ids[v1.active]
       /\ tab.surface[other].leaves = <<p1>> /\ tab.surface[other].active = p1
  BY <1>13 DEF Surface
<1>15. \A n \in Surfaces : /\ tab.surface[n].active \in ToSet(tab.surface[n].leaves)
                           /\ IsInjective(tab.surface[n].leaves)
  BY <1>5, <1>6, <1>8, <1>11, <1>14
<1>16. ToSet(tab.surface[kept].leaves) = ToSet(ids) /\ ToSet(tab.surface[other].leaves) = {p1}
  BY <1>11, <1>14
<1>17. /\ ToSet(tab.surface["files"].leaves) \cap ToSet(tab.surface["terminal"].leaves) = {}
       /\ ToSet(tab.surface["files"].leaves) \cup ToSet(tab.surface["terminal"].leaves)
            = ToSet(ids) \cup {p1}
  <2>1. (kept = "files" /\ other = "terminal") \/ (kept = "terminal" /\ other = "files")
    BY DEF kept, other
  <2> QED
    BY <1>8, <1>16, <2>1
<1>18. panes \in [ToSet(tab.surface["files"].leaves) \cup ToSet(tab.surface["terminal"].leaves) -> Contents]
  BY <1>10, <1>17
<1> QED
  BY <1>1, <1>13, <1>15, <1>17, <1>18, OneTab

\* The initial states.
LEMMA StartHolds ==
  ASSUME Init
  PROVE  IInv
<1>1. PICK t \in Tabs, f \in [1..MaxLeaves -> FilesIds], q \in [1..MaxLeaves -> TerminalIds] :
        /\ IsInjective(f) /\ IsInjective(q)
        /\ state \in Starts(t, [n \in Surfaces |-> IF n = "files" THEN f ELSE q])
  BY DEF Init
<1>2. Good(state)
  <2>1. PICK id : id = [n \in Surfaces |-> IF n = "files" THEN f ELSE q]
    OBVIOUS
  <2>2. id["files"] = f /\ id["terminal"] = q
    BY <2>1 DEF Surfaces
  <2>3. CASE state = [tabs |-> <<t>>, active |-> t,
                      tab |-> [x \in {t} |-> NewTab(Local, f[1], q[1])],
                      panes |-> NewPanes(Local, f[1], q[1])]
    <3>1. f[1] \in FilesIds /\ q[1] \in TerminalIds
      BY WorkspaceAssumption
    <3> QED
      BY <2>3, <3>1, FirstStart
  <2>4. CASE \E v1 \in Legacy : state = Migrated(t, v1, id)
    BY <1>1, <2>1, <2>4, MigratedStart
  <2>5. state \in Starts(t, id)
    BY <1>1, <2>1
  <2> QED
    BY <2>2, <2>3, <2>4, <2>5 DEF Starts
<1>3. Parts(Blank) /\ DOMAIN Blank.views = {}
  <2>1. <<>> \in [{} -> Contents] /\ <<>> \in [{} -> Seq(Panes)] /\ DOMAIN <<>> = {}
    OBVIOUS
  <2> QED
    BY <2>1 DEF Parts, Blank
<1>4. Fit(Rebuilt(Blank, state), state)
  BY <1>2, <1>3, RebuiltFits
<1>5. Drawn(Shown(Rebuilt(Blank, state), state), state)
  BY <1>2, <1>4, ShownDraws
<1>6. Drawn(ui, state) /\ ui.made = {}
  BY <1>5, ForgetMade DEF Init
<1> QED
  BY <1>2, <1>6, WorkspaceAssumption DEF Init, IInv, Scene, NavTypes, OneLatest

-----------------------------------------------------------------------------
(* The steps                                                               *)

\* A step of the keys or the panes moves the snapshot and the screen only.
LEMMA CalmKeeps ==
  ASSUME IInv, Calm, Scene'
  PROVE  IInv'
BY DEF IInv, Calm, NavTypes, OneLatest

(* What the dispatches of the actions start from. *)
LEMMA SceneFacts ==
  ASSUME IInv
  PROVE  /\ Scene /\ Good(state) /\ Whole(Now) /\ Now.s = state
         /\ DOMAIN ui.views \subseteq DOMAIN state.panes
         /\ ui.presented = Leaves(state, Key(state))
         /\ ui.views \in [DOMAIN ui.views -> Contents]
         /\ \A p \in DOMAIN ui.views : ui.views[p].target \in Targets
<1>1. Scene /\ Whole(Now) /\ Now.s = state /\ DOMAIN ui.views \subseteq DOMAIN state.panes
  BY NowIsWhole DEF IInv
<1>2. Good(state) /\ Drawn(ui, state)
  BY <1>1 DEF Scene
<1>3. ui.presented = Leaves(state, Key(state)) /\ ui.views \in [DOMAIN ui.views -> Contents]
  BY <1>2 DEF Drawn, Fit, Parts
<1>4. \A p \in DOMAIN ui.views : ui.views[p].target \in Targets
  BY <1>3 DEF Contents
<1> QED
  BY <1>1, <1>2, <1>3, <1>4

(* A step that commits what its dispatches made of the workspace. *)
LEMMA WholeCommit ==
  ASSUME NEW w, Whole(w), Commit(w)
  PROVE  Scene' /\ state' = w.s
BY WholeIsComplete, CommitKeepsScene

LEMMA SwitchSurfaceKeeps ==
  ASSUME IInv, SwitchSurface
  PROVE  IInv'
<1>1. PICK name \in Surfaces : Commit(ShownOn(Now, name))
  BY SceneFacts DEF SwitchSurface, ShownOn
<1>2. Whole(ShownOn(Now, name))
  BY SceneFacts, ShownOnKeeps
<1>3. Scene'
  BY <1>1, <1>2, WholeCommit
<1> QED
  BY <1>3, CalmKeeps DEF SwitchSurface

LEMMA SplitStepKeeps ==
  ASSUME IInv, Split
  PROVE  IInv'
<1>1. PICK q \in Free(ActiveTab(state).shown) :
        Commit(Dispatch(Now, "split-pane", q,
                 SplitPane(state, Active(state).active, q, state.panes[Active(state).active])))
  BY DEF Split
<1>2. q \in Panes \ DOMAIN state.panes /\ q \notin DOMAIN ui.views
  BY SceneFacts DEF Free, Ids, Panes
<1>3. /\ Active(state).active \in Leaves(state, Key(state))
      /\ state.panes[Active(state).active] \in Contents
  BY SceneFacts, ActiveFacts, GoodTypes
<1>4. Whole(Dispatch(Now, "split-pane", q,
              SplitPane(state, Active(state).active, q, state.panes[Active(state).active])))
  BY <1>2, <1>3, SceneFacts, SplitDispatch
<1>5. Scene'
  BY <1>1, <1>4, WholeCommit
<1> QED
  BY <1>5, CalmKeeps DEF Split

LEMMA CloseActivePaneKeeps ==
  ASSUME IInv, CloseActivePane
  PROVE  IInv'
<1> DEFINE r == ClosePane(state, Active(state).active)
<1>1. Active(state).active \in Leaves(state, Key(state)) /\ Len(Active(state).leaves) > 1
  BY SceneFacts, ActiveFacts DEF CloseActivePane
<1>2. /\ Good(r) /\ DOMAIN r.panes = DOMAIN state.panes \ {Active(state).active}
      /\ \A x \in DOMAIN r.panes : r.panes[x] = state.panes[x]
  BY <1>1, SceneFacts, CloseKeeps
<1>3. Commit(Dispatch(Now, "close-pane", Nobody, r))
  BY DEF CloseActivePane
<1> HIDE DEF r
<1>4. Adds(state, r) /\ Structural("close-pane")
  BY <1>2 DEF Adds, Structural
<1>5. Whole(Dispatch(Now, "close-pane", Nobody, r))
  BY <1>2, <1>4, SceneFacts, DispatchKeeps
<1>6. Scene'
  BY <1>3, <1>5, WholeCommit
<1> QED
  BY <1>6, CalmKeeps DEF CloseActivePane

LEMMA FocusStepKeeps ==
  ASSUME IInv, Focus
  PROVE  IInv'
<1>1. PICK p \in Leaves(state, Key(state)) : Commit(Dispatch(Now, "focus-pane", p, FocusPane(state, p)))
  BY DEF Focus
<1>2. Whole(Dispatch(Now, "focus-pane", p, FocusPane(state, p)))
  BY SceneFacts, FocusDispatch
<1>3. Scene'
  BY <1>1, <1>2, WholeCommit
<1> QED
  BY <1>3, CalmKeeps DEF Focus

\* The place behind k, around the end.
LEMMA NextPlace ==
  ASSUME NEW k \in Nat, NEW n \in Nat, n > 0
  PROVE  (k % n) + 1 \in 1..n
OBVIOUS

LEMMA ExchangeActivePaneKeeps ==
  ASSUME IInv, ExchangeActivePane
  PROVE  IInv'
<1> DEFINE leaves == Active(state).leaves
           p == Active(state).active
           q == leaves[(Place(leaves, p) % Len(leaves)) + 1]
           r == SwapPanes(state, p, q)
<1>1. Len(leaves) > 1 /\ Commit(Dispatch(Now, "swap-panes", p, r))
  BY DEF ExchangeActivePane
<1>2. /\ leaves \in Seq(Panes) /\ p \in Leaves(state, Key(state))
      /\ ToSet(leaves) = Leaves(state, Key(state))
  BY SceneFacts, ActiveFacts
<1>3. q \in Leaves(state, Key(state))
  <2> HIDE DEF leaves, p
  <2>1. Place(leaves, p) \in Nat /\ Len(leaves) \in Nat /\ Len(leaves) > 0
    BY <1>1, <1>2, PlaceFound
  <2>2. (Place(leaves, p) % Len(leaves)) + 1 \in 1..Len(leaves)
    BY <2>1, NextPlace
  <2>3. DOMAIN leaves = 1..Len(leaves)
    BY <1>2
  <2> QED
    BY <1>2, <2>2, <2>3 DEF ToSet
<1> HIDE DEF leaves, p, q
<1>4. Good(r) /\ r.panes = state.panes
  BY <1>2, <1>3, SceneFacts, SwapKeeps
<1> HIDE DEF r
<1>5. Adds(state, r) /\ Structural("swap-panes")
  BY <1>4 DEF Adds, Structural
<1>6. Whole(Dispatch(Now, "swap-panes", p, r))
  BY <1>4, <1>5, SceneFacts, DispatchKeeps
<1>7. Scene'
  BY <1>1, <1>6, WholeCommit
<1> QED
  BY <1>7, CalmKeeps DEF ExchangeActivePane

LEMMA ActivateRelativeTabKeeps ==
  ASSUME IInv, ActivateRelativeTab
  PROVE  IInv'
<1>1. PICK t \in ToSet(state.tabs) :
        Commit(Dispatch(Now, "activate-tab", Nobody, ActivateTab(state, t)))
  BY DEF ActivateRelativeTab
<1>2. t \in DOMAIN state.tab
  BY SceneFacts, GoodTypes
<1>3. Whole(Dispatch(Now, "activate-tab", Nobody, ActivateTab(state, t)))
  BY <1>2, SceneFacts, ActivateDispatch
<1>4. Scene'
  BY <1>1, <1>3, WholeCommit
<1> QED
  BY <1>4, CalmKeeps DEF ActivateRelativeTab

LEMMA CloseActiveTabKeeps ==
  ASSUME IInv, CloseActiveTab
  PROVE  IInv'
<1> DEFINE r == CloseTab(state, state.active)
<1>1. state.active \in ToSet(state.tabs) /\ Len(state.tabs) > 1
  BY SceneFacts, GoodTypes DEF CloseActiveTab
<1>2. /\ Good(r) /\ DOMAIN r.panes \subseteq DOMAIN state.panes
      /\ \A x \in DOMAIN r.panes : r.panes[x] = state.panes[x]
  BY <1>1, SceneFacts, CloseTabKeeps
<1>3. Commit(Dispatch(Now, "close-tab", Nobody, r))
  BY DEF CloseActiveTab
<1> HIDE DEF r
<1>4. Adds(state, r) /\ Structural("close-tab")
  BY <1>2 DEF Adds, Structural
<1>5. Whole(Dispatch(Now, "close-tab", Nobody, r))
  BY <1>2, <1>4, SceneFacts, DispatchKeeps
<1>6. Scene'
  BY <1>3, <1>5, WholeCommit
<1> QED
  BY <1>6, CalmKeeps DEF CloseActiveTab

LEMMA AddLocalTabKeeps ==
  ASSUME IInv, AddLocalTab
  PROVE  IInv'
<1>1. PICK t \in FreeTabs, f \in Free("files"), q \in Free("terminal") :
        Commit(Opened(Now, t, Local, f, q))
  BY DEF AddLocalTab
<1>2. /\ t \in Tabs \ ToSet(state.tabs) /\ Local \in Targets
      /\ f \in FilesIds \ DOMAIN state.panes /\ q \in TerminalIds \ DOMAIN state.panes
      /\ f \notin DOMAIN ui.views /\ q \notin DOMAIN ui.views
  BY SceneFacts DEF FreeTabs, Free, Ids, Targets
<1>3. Whole(Opened(Now, t, Local, f, q))
  BY <1>2, SceneFacts, OpenedKeeps
<1>4. Scene'
  BY <1>1, <1>3, WholeCommit
<1> QED
  BY <1>4, CalmKeeps DEF AddLocalTab

LEMMA SelectKeeps ==
  ASSUME IInv, Select
  PROVE  IInv'
<1>1. PICK target \in Entries : \E w \in Ensured(Now, target) : Commit(ShownOn(w, "files"))
  BY DEF Select
<1>2. PICK w \in Ensured(Now, target) : Commit(ShownOn(w, "files"))
  BY <1>1
<1>3. Whole(w)
  BY SceneFacts, EnsuredKeeps DEF Entries, Targets
<1>4. Whole(ShownOn(w, "files"))
  BY <1>3, ShownOnKeeps DEF Surfaces
<1>5. Scene'
  BY <1>2, <1>4, WholeCommit
<1> QED
  BY <1>5, CalmKeeps DEF Select

LEMMA LaunchKeeps ==
  ASSUME IInv, Launch
  PROVE  IInv'
<1>1. PICK p \in Usable("terminal-launcher"), kind \in {"terminal", "session-picker"} :
        Commit(Dispatch(Now, "update-pane", p, UpdatePane(state, p, Pane(kind, ui.views[p].target, ""))))
  BY DEF Launch
<1>2. PICK pane : pane = Pane(kind, ui.views[p].target, "")
  OBVIOUS
<1>3. p \in Leaves(state, Key(state)) /\ pane \in Contents
  <2>1. p \in Leaves(state, Key(state)) /\ p \in DOMAIN ui.views
    BY SceneFacts DEF Usable
  <2>2. ui.views[p].target \in Targets
    BY <2>1, SceneFacts
  <2> QED
    BY <1>2, <2>1, <2>2 DEF Pane, Contents, Kinds
<1>4. Complete(Dispatch(Now, "update-pane", p, UpdatePane(state, p, pane)))
  BY <1>3, SceneFacts, UpdateCompletes
<1>5. Scene'
  BY <1>1, <1>2, <1>4, CommitKeepsScene
<1> QED
  BY <1>5, CalmKeeps DEF Launch

LEMMA OpenKeeps ==
  ASSUME IInv, Open
  PROVE  IInv'
<1>1. PICK p \in Usable("session-picker"), session \in {Session, ""}, inSplit \in BOOLEAN :
        \E w \in Ensured(Now, ui.views[p].target), fresh \in Free("terminal") :
          fresh \notin DOMAIN w.s.panes /\ Commit(Attached(w, session, inSplit, fresh))
  BY DEF Open
<1>2. PICK w \in Ensured(Now, ui.views[p].target), fresh \in Free("terminal") :
        fresh \notin DOMAIN w.s.panes /\ Commit(Attached(w, session, inSplit, fresh))
  BY <1>1
<1>3. ui.views[p].target \in Targets
  <2>1. p \in DOMAIN ui.views
    BY DEF Usable
  <2> QED
    BY <2>1, SceneFacts
<1>4. Whole(w)
  BY <1>3, SceneFacts, EnsuredKeeps
<1>5. fresh \in Panes \ DOMAIN w.s.panes /\ fresh \notin DOMAIN ui.views
  BY <1>2, SceneFacts DEF Free, Ids, Panes
<1>6. Complete(Attached(w, session, inSplit, fresh))
  BY <1>4, <1>5, AttachedKeeps
<1>7. Scene'
  BY <1>2, <1>6, CommitKeepsScene
<1> QED
  BY <1>7, CalmKeeps DEF Open

LEMMA OpenPreviewKeeps ==
  ASSUME IInv, OpenPreview
  PROVE  IInv'
<1>1. PICK p \in Usable("files"), q \in Free(ActiveTab(state).shown) :
        Commit(Dispatch(Now, "split-pane", q,
                 SplitPane(state, p, q, Pane("preview", ui.views[p].target, ""))))
  BY DEF OpenPreview
<1>2. PICK pane : pane = Pane("preview", ui.views[p].target, "")
  OBVIOUS
<1>3. p \in Leaves(state, Key(state)) /\ pane \in Contents
  <2>1. p \in Leaves(state, Key(state)) /\ p \in DOMAIN ui.views
    BY SceneFacts DEF Usable
  <2>2. ui.views[p].target \in Targets
    BY <2>1, SceneFacts
  <2> QED
    BY <1>2, <2>1, <2>2 DEF Pane, Contents, Kinds
<1>4. q \in Panes \ DOMAIN state.panes /\ q \notin DOMAIN ui.views
  BY SceneFacts DEF Free, Ids, Panes
<1>5. Whole(Dispatch(Now, "split-pane", q, SplitPane(state, p, q, pane)))
  BY <1>3, <1>4, SceneFacts, SplitDispatch
<1>6. Scene'
  BY <1>1, <1>2, <1>5, WholeCommit
<1> QED
  BY <1>6, CalmKeeps DEF OpenPreview

LEMMA PromptNewSessionKeeps ==
  ASSUME IInv, PromptNewSession
  PROVE  IInv'
<1>1. Scene'
  BY IdleKeepsScene DEF IInv, PromptNewSession
<1>2. creating' \in 0..MaxWaiting
  BY WorkspaceAssumption DEF IInv, PromptNewSession
<1> QED
  BY <1>1, <1>2 DEF IInv, PromptNewSession, NavTypes, OneLatest

LEMMA SessionCreatedKeeps ==
  ASSUME IInv, SessionCreated
  PROVE  IInv'
<1>1. Scene'
  <2>1. CASE Idle
    BY <2>1, IdleKeepsScene DEF IInv
  <2>2. CASE \E w \in Ensured(Now, Host) : Commit(Attached(w, Session, FALSE, Nobody))
    <3>1. PICK w \in Ensured(Now, Host) : Commit(Attached(w, Session, FALSE, Nobody))
      BY <2>2
    <3>2. Whole(w)
      BY SceneFacts, EnsuredKeeps DEF Targets
    <3>3. Complete(Attached(w, Session, FALSE, Nobody))
      BY <3>2, AttachedKeeps
    <3> QED
      BY <3>1, <3>3, CommitKeepsScene
  <2> QED
    BY <2>1, <2>2 DEF SessionCreated
<1>2. creating' \in 0..MaxWaiting
  BY WorkspaceAssumption DEF IInv, SessionCreated
<1> QED
  BY <1>1, <1>2 DEF IInv, SessionCreated, NavTypes, OneLatest

(* The tab a navigation starts from: the one that has the clicked pane. *)
LEMMA HomeFound ==
  ASSUME Scene, NEW p \in Leaves(state, Key(state)), NEW home,
         home = CHOOSE t \in DOMAIN state.tab : \E n \in Surfaces : p \in Leaves(state, <<t, n>>)
  PROVE  home \in DOMAIN state.tab
<1>1. /\ state.active \in DOMAIN state.tab /\ ActiveTab(state).shown \in Surfaces
  BY GoodTypes DEF Scene
<1>2. p \in Leaves(state, <<state.active, ActiveTab(state).shown>>)
  BY DEF Key
<1>3. \E t \in DOMAIN state.tab : \E n \in Surfaces : p \in Leaves(state, <<t, n>>)
  BY <1>1, <1>2
<1> QED
  BY <1>3

(* A navigation brings the files of its tab to the front. *)
LEMMA BroughtForward ==
  ASSUME Scene, NEW t \in DOMAIN state.tab, NEW w,
         w = ShownOn(Dispatch(Now, "activate-tab", Nobody, ActivateTab(state, t)), "files")
  PROVE  Whole(w) /\ Key(w.s) = <<t, "files">>
<1>1. PICK x : x = Dispatch(Now, "activate-tab", Nobody, ActivateTab(state, t))
  OBVIOUS
<1>2. Whole(x) /\ x.s.active = t
  BY <1>1, NowIsWhole, ActivateDispatch
<1>3. w = ShownOn(x, "files") /\ "files" \in Surfaces
  BY <1>1 DEF Surfaces
<1> QED
  BY <1>2, <1>3, ShownOnKeeps

LEMMA NavigateKeeps ==
  ASSUME IInv, Navigate
  PROVE  IInv'
<1> DEFINE home(p) == CHOOSE t \in DOMAIN state.tab : \E n \in Surfaces : p \in Leaves(state, <<t, n>>)
<1>1. PICK p \in Usable("terminal") :
        /\ Commit(ShownOn(Dispatch(Now, "activate-tab", Nobody, ActivateTab(state, home(p))), "files"))
        /\ navs' = Overtaken(navs) \cup {[tab |-> home(p), latest |-> TRUE]}
  BY DEF Navigate
<1>2. PICK h : h = home(p)
  OBVIOUS
<1>3. h \in DOMAIN state.tab /\ h \in Tabs
  <2>1. p \in Leaves(state, Key(state))
    BY SceneFacts DEF Usable
  <2> QED
    BY <1>2, <2>1, SceneFacts, HomeFound, GoodTypes
<1> HIDE DEF home
<1>4. Scene'
  <2>1. Whole(ShownOn(Dispatch(Now, "activate-tab", Nobody, ActivateTab(state, h)), "files"))
    BY <1>3, SceneFacts, BroughtForward
  <2> QED
    BY <1>1, <1>2, <2>1, WholeCommit
<1>5. navs \subseteq [tab : Tabs, latest : BOOLEAN]
  BY DEF IInv, NavTypes
<1>6. \A n \in Overtaken(navs) : n \in [tab : Tabs, latest : BOOLEAN] /\ ~n.latest
  BY <1>5 DEF Overtaken
<1>7. NavTypes'
  <2>1. PICK m : m = [tab |-> h, latest |-> TRUE]
    OBVIOUS
  <2>2. m \in [tab : Tabs, latest : BOOLEAN]
    BY <1>3, <2>1
  <2>3. navs' = Overtaken(navs) \cup {m}
    BY <1>1, <1>2, <2>1
  <2> QED
    BY <1>6, <2>2, <2>3 DEF NavTypes
<1>8. OneLatest'
  BY <1>1, <1>6 DEF OneLatest
<1> QED
  BY <1>4, <1>7, <1>8 DEF IInv, Navigate

(* The pane that reveals a path is one of the files surface of its tab. *)
LEMMA BrowserFound ==
  ASSUME NEW s, Good(s), NEW t \in DOMAIN s.tab, FilesPane(s, t) # Nobody
  PROVE  FilesPane(s, t) \in Leaves(s, <<t, "files">>) /\ FilesPane(s, t) \in Panes
<1> DEFINE surface == On(s, <<t, "files">>)
           candidates == <<surface.active>> \o surface.leaves
           I == {i \in 1..Len(candidates) : s.panes[candidates[i]].kind = "files"}
           first == SelectInSeq(candidates, LAMBDA p : s.panes[p].kind = "files")
<1>1. first # 0 /\ FilesPane(s, t) = candidates[first]
  BY DEF FilesPane
<1>2. I # {} /\ first = Min(I)
  BY <1>1 DEF SelectInSeq
<1>3. <<t, "files">> \in Keys(s)
  BY DEF Keys, Surfaces
<1>4. /\ surface.leaves \in Seq(Panes) /\ surface.active \in Leaves(s, <<t, "files">>)
      /\ Leaves(s, <<t, "files">>) = ToSet(surface.leaves)
      /\ Leaves(s, <<t, "files">>) \subseteq Panes
  BY <1>3, GoodSurfaces, GoodTypes
<1> HIDE DEF surface, first
<1>5. /\ Len(candidates) = Len(surface.leaves) + 1 /\ Len(surface.leaves) \in Nat
      /\ candidates[1] = surface.active
      /\ \A i \in 2..Len(candidates) : candidates[i] = surface.leaves[i - 1]
  BY <1>4
<1> HIDE DEF candidates
<1>6. first \in 1..Len(candidates)
  <2>1. I \in SUBSET Nat
    BY <1>5
  <2>2. I \subseteq 1..Len(candidates)
    OBVIOUS
  <2> HIDE DEF I
  <2> QED
    BY <1>2, <2>1, <2>2, LeastPosition
<1>7. CASE first = 1
  BY <1>1, <1>4, <1>5, <1>7
<1>8. CASE first # 1
  <2>1. first - 1 \in 1..Len(surface.leaves) /\ first \in 2..Len(candidates)
    BY <1>5, <1>6, <1>8
  <2>2. candidates[first] = surface.leaves[first - 1]
    BY <1>5, <2>1
  <2>3. first - 1 \in DOMAIN surface.leaves
    BY <1>4, <2>1
  <2> QED
    BY <1>1, <1>4, <2>2, <2>3 DEF ToSet
<1> QED
  BY <1>7, <1>8

(* What an answer does, unless it has no effect. *)
Reveals(n) ==
  /\ n.latest /\ n.tab \in Tabs
  /\ Scene'
  /\ Key(state') = <<n.tab, "files">>
  /\ revealed' # <<>> =>
       /\ revealed' = <<revealed'[1], revealed'[2]>> /\ revealed'[1] = n.tab
       /\ revealed'[2] \in Leaves(state', <<n.tab, "files">>) /\ revealed'[2] \in Panes

LEMMA AnswerReveals ==
  ASSUME IInv, Answered
  PROVE  \E n \in navs : /\ navs' = navs \ {n} /\ UNCHANGED creating
                         /\ (Scene' /\ revealed' = <<>>) \/ Reveals(n)
<1>1. PICK n \in navs :
        /\ navs' = navs \ {n} /\ UNCHANGED creating
        /\ \/ Idle /\ revealed' = <<>>
           \/ /\ n.latest
              /\ n.tab \in DOMAIN state.tab
              /\ LET w == ShownOn(Dispatch(Now, "activate-tab", Nobody, ActivateTab(state, n.tab)), "files")
                     browser == FilesPane(w.s, n.tab)
                 IN  /\ Commit(w)
                     /\ revealed' = IF browser = Nobody THEN <<>> ELSE <<n.tab, browser>>
  BY DEF Answered
<1>2. CASE Idle /\ revealed' = <<>>
  BY <1>1, <1>2, IdleKeepsScene DEF IInv
<1>3. CASE ~(Idle /\ revealed' = <<>>)
  <2>1. PICK w : w = ShownOn(Dispatch(Now, "activate-tab", Nobody, ActivateTab(state, n.tab)), "files")
    OBVIOUS
  <2>2. /\ n.latest /\ n.tab \in DOMAIN state.tab /\ Commit(w)
        /\ revealed' = IF FilesPane(w.s, n.tab) = Nobody THEN <<>> ELSE <<n.tab, FilesPane(w.s, n.tab)>>
    BY <1>1, <1>3, <2>1
  <2>3. Whole(w) /\ Key(w.s) = <<n.tab, "files">>
    BY <2>1, <2>2, SceneFacts, BroughtForward
  <2>4. Scene' /\ state' = w.s
    BY <2>2, <2>3, WholeCommit
  <2>5. Good(w.s) /\ n.tab \in DOMAIN w.s.tab /\ n.tab \in Tabs
    <3>1. Good(w.s) /\ w.s.active \in DOMAIN w.s.tab
      BY <2>3, GoodTypes DEF Whole
    <3>2. w.s.active = n.tab
      BY <2>3 DEF Key
    <3> QED
      BY <3>1, <3>2, <2>2, SceneFacts, GoodTypes
  <2>6. revealed' # <<>> =>
          /\ revealed' = <<revealed'[1], revealed'[2]>> /\ revealed'[1] = n.tab
          /\ revealed'[2] \in Leaves(state', <<n.tab, "files">>) /\ revealed'[2] \in Panes
    <3>1. PICK b : b = FilesPane(w.s, n.tab)
      OBVIOUS
    <3>2. b # Nobody => b \in Leaves(w.s, <<n.tab, "files">>) /\ b \in Panes
      BY <2>5, <3>1, BrowserFound
    <3>3. revealed' = IF b = Nobody THEN <<>> ELSE <<n.tab, b>>
      BY <2>2, <3>1
    <3> QED
      BY <2>4, <3>2, <3>3
  <2>7. Reveals(n)
    BY <2>2, <2>3, <2>4, <2>5, <2>6 DEF Reveals
  <2> QED
    BY <1>1, <2>7
<1> QED
  BY <1>2, <1>3

LEMMA AnsweredKeeps ==
  ASSUME IInv, Answered
  PROVE  IInv'
<1>1. PICK n \in navs : /\ navs' = navs \ {n} /\ UNCHANGED creating
                        /\ (Scene' /\ revealed' = <<>>) \/ Reveals(n)
  BY AnswerReveals
<1>2. Scene' /\ revealed' \in (Tabs \X Panes) \cup {<<>>}
  BY <1>1 DEF Reveals
<1>3. NavTypes' /\ OneLatest'
  BY <1>1 DEF IInv, NavTypes, OneLatest
<1> QED
  BY <1>1, <1>2, <1>3 DEF IInv

LEMMA UnchangedKeeps ==
  ASSUME IInv, UNCHANGED vars
  PROVE  IInv'
<1>1. Scene'
  BY IdleKeepsScene DEF IInv, Idle, vars
<1> QED
  BY <1>1 DEF IInv, vars, NavTypes, OneLatest

LEMMA StepKeeps ==
  ASSUME IInv, [Next]_vars
  PROVE  IInv'
<1>1. CASE Keymap
  BY <1>1, SwitchSurfaceKeeps, SplitStepKeeps, CloseActivePaneKeeps, FocusStepKeeps,
     ExchangeActivePaneKeeps, ActivateRelativeTabKeeps, CloseActiveTabKeeps, AddLocalTabKeeps
     DEF Keymap
<1>2. CASE Select \/ Launch \/ Open \/ OpenPreview
  BY <1>2, SelectKeeps, LaunchKeeps, OpenKeeps, OpenPreviewKeeps
<1>3. CASE PromptNewSession \/ SessionCreated \/ Navigate \/ Answered
  BY <1>3, PromptNewSessionKeeps, SessionCreatedKeeps, NavigateKeeps, AnsweredKeeps
<1>4. CASE UNCHANGED vars
  BY <1>4, UnchangedKeeps
<1> QED
  BY <1>1, <1>2, <1>3, <1>4 DEF Next

\* The inductive invariant holds in every reachable state.
THEOREM Inductive == Spec => []IInv
<1>1. Init => IInv
  BY StartHolds
<1>2. IInv /\ [Next]_vars => IInv'
  BY StepKeeps
<1> QED
  BY <1>1, <1>2, PTL DEF Spec

\* The inductive invariant holds the types.
LEMMA IInvTypes ==
  ASSUME IInv
  PROVE  TypeOK
<1>1. Good(state) /\ Drawn(ui, state) /\ ui.made = {} /\ lost = {}
  BY DEF IInv, Scene
<1>2. /\ state \in Snapshots(DOMAIN state.tab, DOMAIN state.panes)
      /\ DOMAIN state.tab = ToSet(state.tabs)
      /\ DOMAIN state.tab \subseteq Tabs /\ DOMAIN state.panes \subseteq Panes
  BY <1>1 DEF Good
<1>3. ui \in Screens(DOMAIN ui.views, DOMAIN ui.layouts)
  <2>1. Parts(ui) /\ ui.visible = Key(state) /\ ui.presented = Leaves(state, Key(state))
    BY <1>1 DEF Drawn, Fit
  <2>2. Key(state) \in Tabs \X Surfaces
    BY <1>1, GoodTypes DEF Key
  <2>3. Leaves(state, Key(state)) \subseteq Panes
    BY <1>1, GoodTypes, GoodSurfaces
  <2> QED
    BY <2>1, <2>2, <2>3 DEF Parts, Screens
<1> QED
  BY <1>1, <1>2, <1>3 DEF IInv, NavTypes, TypeOK

\* Whatever the keys, the panes and the late answers dispatch, and in whatever order,
\* the snapshot passes the checks of its schema when it is loaded again, and no step
\* destroys or rebuilds the view of a pane that stays (reducer.ts, pane-registry.ts).
THEOREM SnapshotCanBeLoaded == Spec => []Consistent
<1>1. IInv => Consistent
  BY IInvTypes DEF Consistent, SnapshotValid, HiddenViewsSurvive, IInv, Scene, Good
<1> QED
  BY <1>1, Inductive, PTL

\* The mounted layouts, their views and the surface in front are those of the snapshot:
\* rebuilding on structural actions and on changed panes only is enough
\* (workspace-app.ts renderState).
THEOREM ScreenShowsTheSnapshot == Spec => []ScreenIsSnapshot
<1>1. IInv => ScreenIsSnapshot
  BY DEF IInv, Scene, Drawn, Fit, ViewsFit, LayoutsFit, ScreenIsSnapshot
<1> QED
  BY <1>1, Inductive, PTL

\* Only an answer reveals a path, and only where the last click asked for it.
LEMMA RevealedAtHome ==
  ASSUME IInv, [Next]_vars, revealed' \notin {revealed, <<>>}
  PROVE  /\ \A n \in navs : n.latest => n.tab = revealed'[1]
         /\ Key(state') = <<revealed'[1], "files">>
         /\ revealed'[2] \in Leaves(state', Key(state'))
<1>1. Answered
  BY DEF Next, vars, Keymap, Calm, SwitchSurface, Split, CloseActivePane, Focus, ExchangeActivePane,
         ActivateRelativeTab, CloseActiveTab, AddLocalTab, Select, Launch, Open, OpenPreview,
         PromptNewSession, SessionCreated, Navigate
<1>2. PICK n \in navs : Reveals(n)
  BY <1>1, AnswerReveals
<1>3. revealed'[1] = n.tab
  BY <1>2 DEF Reveals
<1>4. \A m \in navs : m.latest => m.tab = n.tab
  BY <1>2 DEF IInv, OneLatest, Reveals
<1> QED
  BY <1>2, <1>3, <1>4 DEF Reveals

\* A path that was verified late is revealed in the files of the tab of the last click,
\* which is in front then (workspace-app.ts navigateTerminalPath).
THEOREM PathsAreRevealedAtHome == Spec => NavigationGoesHome
<1>1. IInv /\ [Next]_vars =>
        [revealed' \notin {revealed, <<>>} =>
           /\ \A n \in navs : n.latest => n.tab = revealed'[1]
           /\ Key(state') = <<revealed'[1], "files">>
           /\ revealed'[2] \in Leaves(state', Key(state'))]_vars
  BY RevealedAtHome
<1> QED
  BY <1>1, Inductive, PTL DEF Spec, NavigationGoesHome

-----------------------------------------------------------------------------
(* The saves: the inductive invariant                                      *)

Running == process \in {"up", "disposing", "flushing"}

\* A program that does not run has no worker, timer, error or dialog.
StoppedIsBlank ==
  ~Running => worker = "none" /\ ~timer /\ ~error /\ ~dialog /\ ~quitting

\* Disk and memory: what is persisted is on the disk, and the disk is not ahead of
\* the workspace.
DiskIsBetween ==
  Running =>
    /\ disk \in Nat \cup {None}
    /\ persisted <= Version(disk) /\ Version(disk) <= revision

\* A save in flight holds a change that is not persisted yet.
SaveIsNeeded ==
  /\ worker \in {"saving", "renamed"} => persisted < saving /\ saving <= revision
  /\ worker = "renamed" => disk = saving

\* A document of an older schema has not been read or written yet.
LegacyIsUntouched ==
  /\ process \in {"backup", "migrate"} => disk \in LegacyDocuments /\ outcome = "none"
  /\ disk \in LegacyDocuments => disk = found.disk /\ revision = 0 /\ persisted = 0
  /\ disk = Invalid => process = "off"

\* A backup that was found stays; the one that is made holds what was found.
BackupOfFound ==
  /\ backup \in {found.backup, found.disk}
  /\ found.backup # None => backup = found.backup
  /\ process = "backup" => backup = None
  /\ process = "migrate" => backup # None

CleanIsOff == outcome = "clean" => process = "off"

\* UnsavedIsKnown, and until the program has quit.
ErrorIsUnsaved ==
  /\ process = "up" /\ Unsaved => timer \/ worker # "none" \/ error
  /\ error => Unsaved

SavesIInv ==
  /\ SavesTypeOK
  /\ StoppedIsBlank
  /\ DiskIsBetween
  /\ SaveIsNeeded
  /\ LegacyIsUntouched
  /\ BackupOfFound
  /\ FoundIsKept
  /\ CleanIsOff
  /\ ErrorIsUnsaved
  /\ CleanQuitIsSaved

-----------------------------------------------------------------------------
(* The saves: the invariant is kept, one lemma per action                  *)

\* The program ends in one of its ways.
LEMMA EndKeeps ==
  ASSUME SavesIInv, process # "off", NEW how \in {"discarded", "reported", "clean", "crashed"},
         how = "clean" => worker = "none" /\ ~Unsaved /\ Running,
         End(how)
  PROVE  SavesIInv'
<1> USE RevisionAssumption, DocumentsAssumption DEF SavesIInv
<1>1. SavesTypeOK'
  <2>1. /\ disk' \in Documents
        /\ backup' \in LegacyDocuments \cup {None}
        /\ found' \in [disk : Documents, backup : LegacyDocuments \cup {None}]
    BY DEF End, SavesTypeOK, Documents
  <2>2. /\ process' \in {"off", "backup", "migrate", "up", "disposing", "flushing"}
        /\ outcome' \in {"none", "refused", "discarded", "reported", "clean", "crashed"}
        /\ worker' \in {"none", "saving", "renamed", "ended"}
    BY DEF End
  <2>3. /\ revision' \in 0..MaxRevision
        /\ persisted' \in 0..MaxRevision
        /\ saving' \in 0..MaxRevision
    BY DEF End, SavesTypeOK
  <2>4. timer' \in BOOLEAN /\ error' \in BOOLEAN
    BY DEF End, disks, saver, quits, SavesTypeOK
  <2>5. dialog' \in BOOLEAN /\ quitting' \in BOOLEAN /\ returned' \in BOOLEAN
    BY DEF End, disks, saver, quits, SavesTypeOK
  <2> QED
    BY <2>1, <2>2, <2>3, <2>4, <2>5 DEF SavesTypeOK
<1>2. StoppedIsBlank'
  BY DEF StoppedIsBlank, End
<1>3. DiskIsBetween'
  BY DEF DiskIsBetween, End, Running
<1>4. SaveIsNeeded'
  BY DEF SaveIsNeeded, End
<1>5. LegacyIsUntouched'
  BY DEF LegacyIsUntouched, SavesTypeOK, End
<1>6. BackupOfFound'
  BY DEF BackupOfFound, End
<1>7. FoundIsKept'
  BY DEF FoundIsKept, DiskIsBetween, StoppedIsBlank, End
<1>8. CleanIsOff'
  BY DEF CleanIsOff, End
<1>9. ErrorIsUnsaved'
  BY DEF ErrorIsUnsaved, End
<1>10. CleanQuitIsSaved'
  BY DEF CleanQuitIsSaved, SavesTypeOK, DiskIsBetween, End, Version, Unsaved
<1> QED
  BY <1>1, <1>2, <1>3, <1>4, <1>5, <1>6, <1>7, <1>8, <1>9, <1>10

LEMMA KeepsLoad ==
  ASSUME SavesIInv, Load
  PROVE  SavesIInv'
<1> USE RevisionAssumption, DocumentsAssumption DEF SavesIInv
<1>1. SavesTypeOK'
  BY DEF SavesTypeOK, Load, Loaded, Refused, Version, Documents, disks, quits
<1>2. StoppedIsBlank'
  BY DEF StoppedIsBlank, Load, Running, quits
<1>3. DiskIsBetween'
  BY DEF DiskIsBetween, Load, Loaded, Refused, Running, Version, disks
<1>4. SaveIsNeeded'
  BY DEF SaveIsNeeded, StoppedIsBlank, Load, Running
<1>5. LegacyIsUntouched'
  BY DEF LegacyIsUntouched, Load, Loaded, Refused, disks
<1>6. BackupOfFound'
  BY DEF BackupOfFound, Load, Loaded, Refused, disks
<1>7. FoundIsKept'
  BY DEF FoundIsKept, Load, disks
<1>8. CleanIsOff'
  BY DEF CleanIsOff, Load, Refused
<1>9. ErrorIsUnsaved'
  BY DEF ErrorIsUnsaved, StoppedIsBlank, Load, Loaded, Refused, Running, Version,
         Unsaved
<1>10. CleanQuitIsSaved'
  BY DEF CleanQuitIsSaved, Load, Refused
<1> QED
  BY <1>1, <1>2, <1>3, <1>4, <1>5, <1>6, <1>7, <1>8, <1>9, <1>10

LEMMA KeepsWriteBackup ==
  ASSUME SavesIInv, WriteBackup
  PROVE  SavesIInv'
<1> USE RevisionAssumption, DocumentsAssumption DEF SavesIInv
<1>1. SavesTypeOK'
  BY DEF SavesTypeOK, LegacyIsUntouched, WriteBackup, Refused, quits
<1>2. StoppedIsBlank'
  BY DEF StoppedIsBlank, WriteBackup, Running, quits
<1>3. DiskIsBetween'
  BY DEF DiskIsBetween, WriteBackup, Refused, Running
<1>4. SaveIsNeeded'
  BY DEF SaveIsNeeded, DiskIsBetween, StoppedIsBlank, LegacyIsUntouched, WriteBackup
<1>5. LegacyIsUntouched'
  BY DEF LegacyIsUntouched, WriteBackup, Refused
<1>6. BackupOfFound'
  BY DEF BackupOfFound, LegacyIsUntouched, WriteBackup, Refused
<1>7. FoundIsKept'
  BY DEF FoundIsKept, LegacyIsUntouched, WriteBackup
<1>8. CleanIsOff'
  BY DEF CleanIsOff, WriteBackup, Refused
<1>9. ErrorIsUnsaved'
  BY DEF ErrorIsUnsaved, StoppedIsBlank, WriteBackup, Refused, Running
<1>10. CleanQuitIsSaved'
  BY DEF CleanQuitIsSaved, WriteBackup, Refused
<1> QED
  BY <1>1, <1>2, <1>3, <1>4, <1>5, <1>6, <1>7, <1>8, <1>9, <1>10

LEMMA KeepsWriteMigrated ==
  ASSUME SavesIInv, WriteMigrated
  PROVE  SavesIInv'
<1> USE RevisionAssumption, DocumentsAssumption DEF SavesIInv
<1>1. SavesTypeOK'
  BY DEF SavesTypeOK, WriteMigrated, Loaded, Refused, Documents, quits
<1>2. StoppedIsBlank'
  BY DEF StoppedIsBlank, WriteMigrated, Running, quits
<1>3. DiskIsBetween'
  BY DEF DiskIsBetween, WriteMigrated, Loaded, Refused, Running, Version
<1>4. SaveIsNeeded'
  BY DEF SaveIsNeeded, DiskIsBetween, StoppedIsBlank, LegacyIsUntouched,
         WriteMigrated
<1>5. LegacyIsUntouched'
  BY DEF LegacyIsUntouched, WriteMigrated, Loaded, Refused
<1>6. BackupOfFound'
  BY DEF BackupOfFound, WriteMigrated, Loaded, Refused
<1>7. FoundIsKept'
  BY DEF FoundIsKept, LegacyIsUntouched, BackupOfFound, WriteMigrated
<1>8. CleanIsOff'
  BY DEF CleanIsOff, WriteMigrated, Refused
<1>9. ErrorIsUnsaved'
  BY DEF ErrorIsUnsaved, StoppedIsBlank, WriteMigrated, Loaded, Refused, Running,
         Unsaved
<1>10. CleanQuitIsSaved'
  BY DEF CleanQuitIsSaved, WriteMigrated, Loaded, Refused, Version
<1> QED
  BY <1>1, <1>2, <1>3, <1>4, <1>5, <1>6, <1>7, <1>8, <1>9, <1>10

LEMMA KeepsDispatch ==
  ASSUME SavesIInv, DispatchChange
  PROVE  SavesIInv'
<1> USE RevisionAssumption, DocumentsAssumption DEF SavesIInv
<1>1. SavesTypeOK'
  BY DEF SavesTypeOK, DispatchChange, disks, saver, quits
<1>2. StoppedIsBlank'
  BY DEF StoppedIsBlank, DispatchChange, Running
<1>3. DiskIsBetween'
  BY DEF DiskIsBetween, SavesTypeOK, DispatchChange, Running, Version, disks, saver
<1>4. SaveIsNeeded'
  BY DEF SaveIsNeeded, SavesTypeOK, DispatchChange, disks, saver
<1>5. LegacyIsUntouched'
  BY DEF LegacyIsUntouched, DiskIsBetween, DispatchChange, Running, disks
<1>6. BackupOfFound'
  BY DEF BackupOfFound, DispatchChange, disks
<1>7. FoundIsKept'
  BY DEF FoundIsKept, DispatchChange, disks
<1>8. CleanIsOff'
  BY DEF CleanIsOff, DispatchChange
<1>9. ErrorIsUnsaved'
  BY DEF ErrorIsUnsaved, SavesTypeOK, DispatchChange, Unsaved, saver
<1>10. CleanQuitIsSaved'
  BY DEF CleanQuitIsSaved, CleanIsOff, DispatchChange
<1> QED
  BY <1>1, <1>2, <1>3, <1>4, <1>5, <1>6, <1>7, <1>8, <1>9, <1>10

LEMMA KeepsSaveTimerFires ==
  ASSUME SavesIInv, SaveTimerFires
  PROVE  SavesIInv'
<1> USE RevisionAssumption, DocumentsAssumption DEF SavesIInv
<1>1. SavesTypeOK'
  <2>1. /\ disk' \in Documents
        /\ backup' \in LegacyDocuments \cup {None}
        /\ found' \in [disk : Documents, backup : LegacyDocuments \cup {None}]
    BY DEF SaveTimerFires, StartSaveWorker, OpenTemporary, SavesTypeOK
  <2>2. /\ process' \in {"off", "backup", "migrate", "up", "disposing", "flushing"}
        /\ outcome' \in {"none", "refused", "discarded", "reported", "clean", "crashed"}
        /\ worker' \in {"none", "saving", "renamed", "ended"}
    BY DEF SaveTimerFires, StartSaveWorker, saver, SavesTypeOK
  <2>3. /\ revision' \in 0..MaxRevision
        /\ persisted' \in 0..MaxRevision
        /\ saving' \in 0..MaxRevision
    BY DEF SaveTimerFires, StartSaveWorker, saver, SavesTypeOK
  <2>4. timer' \in BOOLEAN /\ error' \in BOOLEAN
    BY DEF SaveTimerFires, StartSaveWorker, OpenTemporary, disks, saver, quits, SavesTypeOK
  <2>5. dialog' \in BOOLEAN /\ quitting' \in BOOLEAN /\ returned' \in BOOLEAN
    BY DEF SaveTimerFires, quits, SavesTypeOK
  <2> QED
    BY <2>1, <2>2, <2>3, <2>4, <2>5 DEF SavesTypeOK
<1>2. StoppedIsBlank'
  BY DEF StoppedIsBlank, SaveTimerFires, Running
<1>3. DiskIsBetween'
  BY DEF DiskIsBetween, StoppedIsBlank, SaveTimerFires, StartSaveWorker, OpenTemporary, saver
<1>4. SaveIsNeeded'
  BY DEF SaveIsNeeded, SavesTypeOK, SaveTimerFires, StartSaveWorker, Unsaved, saver
<1>5. LegacyIsUntouched'
  BY DEF LegacyIsUntouched, DiskIsBetween, StoppedIsBlank, SaveTimerFires,
         StartSaveWorker, OpenTemporary
<1>6. BackupOfFound'
  BY DEF BackupOfFound, SaveTimerFires
<1>7. FoundIsKept'
  BY DEF FoundIsKept, DiskIsBetween, StoppedIsBlank, SaveTimerFires
<1>8. CleanIsOff'
  BY DEF CleanIsOff, SaveTimerFires
<1>9. ErrorIsUnsaved'
  BY DEF ErrorIsUnsaved, SaveTimerFires, StartSaveWorker, Unsaved, saver
<1>10. CleanQuitIsSaved'
  BY DEF CleanQuitIsSaved, SaveTimerFires, StartSaveWorker, OpenTemporary
<1> QED
  BY <1>1, <1>2, <1>3, <1>4, <1>5, <1>6, <1>7, <1>8, <1>9, <1>10

LEMMA KeepsRename ==
  ASSUME SavesIInv, Rename
  PROVE  SavesIInv'
<1> USE RevisionAssumption, DocumentsAssumption DEF SavesIInv
<1>1. SavesTypeOK'
  BY DEF SavesTypeOK, Rename, Documents, quits
<1>2. StoppedIsBlank'
  BY DEF StoppedIsBlank, Rename, Running
<1>3. DiskIsBetween'
  BY DEF DiskIsBetween, SavesTypeOK, SaveIsNeeded, Rename, Version
<1>4. SaveIsNeeded'
  BY DEF SaveIsNeeded, Rename
<1>5. LegacyIsUntouched'
  BY DEF LegacyIsUntouched, SavesTypeOK, SaveIsNeeded, Rename
<1>6. BackupOfFound'
  BY DEF BackupOfFound, Rename
<1>7. FoundIsKept'
  BY DEF FoundIsKept, DiskIsBetween, StoppedIsBlank, Rename
<1>8. CleanIsOff'
  BY DEF CleanIsOff, Rename
<1>9. ErrorIsUnsaved'
  BY DEF ErrorIsUnsaved, Rename, Unsaved
<1>10. CleanQuitIsSaved'
  BY DEF CleanQuitIsSaved, CleanIsOff, StoppedIsBlank, Rename, Running
<1> QED
  BY <1>1, <1>2, <1>3, <1>4, <1>5, <1>6, <1>7, <1>8, <1>9, <1>10

LEMMA KeepsSaveSucceeds ==
  ASSUME SavesIInv, SaveSucceeds
  PROVE  SavesIInv'
<1> USE RevisionAssumption, DocumentsAssumption DEF SavesIInv
<1>1. SavesTypeOK'
  <2>1. /\ disk' \in Documents
        /\ backup' \in LegacyDocuments \cup {None}
        /\ found' \in [disk : Documents, backup : LegacyDocuments \cup {None}]
    BY DEF SaveSucceeds, OpenTemporary, SavesTypeOK
  <2>2. /\ process' \in {"off", "backup", "migrate", "up", "disposing", "flushing"}
        /\ outcome' \in {"none", "refused", "discarded", "reported", "clean", "crashed"}
        /\ worker' \in {"none", "saving", "renamed", "ended"}
    BY DEF SaveSucceeds, SavesTypeOK
  <2>3. /\ revision' \in 0..MaxRevision
        /\ persisted' \in 0..MaxRevision
        /\ saving' \in 0..MaxRevision
    BY DEF SaveSucceeds, Persisted, SavesTypeOK
  <2>4. timer' \in BOOLEAN /\ error' \in BOOLEAN
    BY DEF SaveSucceeds, Persisted, Recovered, OpenTemporary, disks, saver, quits, SavesTypeOK
  <2>5. dialog' \in BOOLEAN /\ quitting' \in BOOLEAN /\ returned' \in BOOLEAN
    BY DEF SaveSucceeds, quits, SavesTypeOK
  <2> QED
    BY <2>1, <2>2, <2>3, <2>4, <2>5 DEF SavesTypeOK
<1>2. StoppedIsBlank'
  BY DEF StoppedIsBlank, SaveSucceeds, Running
<1>3. DiskIsBetween'
  BY DEF DiskIsBetween, SavesTypeOK, SaveIsNeeded, SaveSucceeds, OpenTemporary, Persisted, Version
<1>4. SaveIsNeeded'
  BY DEF SaveIsNeeded, SavesTypeOK, SaveSucceeds
<1>5. LegacyIsUntouched'
  BY DEF LegacyIsUntouched, SavesTypeOK, SaveIsNeeded, SaveSucceeds, OpenTemporary
<1>6. BackupOfFound'
  BY DEF BackupOfFound, SaveSucceeds
<1>7. FoundIsKept'
  BY DEF FoundIsKept, DiskIsBetween, StoppedIsBlank, SaveSucceeds
<1>8. CleanIsOff'
  BY DEF CleanIsOff, SaveSucceeds
<1>9. ErrorIsUnsaved'
  BY DEF ErrorIsUnsaved, SaveSucceeds, Recovered
<1>10. CleanQuitIsSaved'
  BY DEF CleanQuitIsSaved, SaveSucceeds, OpenTemporary
<1> QED
  BY <1>1, <1>2, <1>3, <1>4, <1>5, <1>6, <1>7, <1>8, <1>9, <1>10

LEMMA KeepsSaveFails ==
  ASSUME SavesIInv, SaveFails
  PROVE  SavesIInv'
<1> USE RevisionAssumption, DocumentsAssumption DEF SavesIInv
<1>1. SavesTypeOK'
  BY DEF SavesTypeOK, SaveFails, disks, quits
<1>2. StoppedIsBlank'
  BY DEF StoppedIsBlank, SaveFails, Running
<1>3. DiskIsBetween'
  BY DEF DiskIsBetween, StoppedIsBlank, SaveFails, disks
<1>4. SaveIsNeeded'
  BY DEF SaveIsNeeded, SaveFails
<1>5. LegacyIsUntouched'
  BY DEF LegacyIsUntouched, SaveFails, disks
<1>6. BackupOfFound'
  BY DEF BackupOfFound, SaveFails, disks
<1>7. FoundIsKept'
  BY DEF FoundIsKept, SaveFails, disks
<1>8. CleanIsOff'
  BY DEF CleanIsOff, SaveFails
<1>9. ErrorIsUnsaved'
  BY DEF ErrorIsUnsaved, SavesTypeOK, SaveIsNeeded, SaveFails, Unsaved
<1>10. CleanQuitIsSaved'
  BY DEF CleanQuitIsSaved, SaveFails, disks
<1> QED
  BY <1>1, <1>2, <1>3, <1>4, <1>5, <1>6, <1>7, <1>8, <1>9, <1>10

LEMMA KeepsWorkerEnds ==
  ASSUME SavesIInv, WorkerEnds
  PROVE  SavesIInv'
<1> USE RevisionAssumption, DocumentsAssumption DEF SavesIInv
<1>1. SavesTypeOK'
  BY DEF SavesTypeOK, WorkerEnds, disks, quits
<1>2. StoppedIsBlank'
  BY DEF StoppedIsBlank, WorkerEnds, Running
<1>3. DiskIsBetween'
  BY DEF DiskIsBetween, StoppedIsBlank, WorkerEnds, disks
<1>4. SaveIsNeeded'
  BY DEF SaveIsNeeded, WorkerEnds
<1>5. LegacyIsUntouched'
  BY DEF LegacyIsUntouched, WorkerEnds, disks
<1>6. BackupOfFound'
  BY DEF BackupOfFound, WorkerEnds, disks
<1>7. FoundIsKept'
  BY DEF FoundIsKept, WorkerEnds, disks
<1>8. CleanIsOff'
  BY DEF CleanIsOff, WorkerEnds
<1>9. ErrorIsUnsaved'
  BY DEF ErrorIsUnsaved, SavesTypeOK, SaveIsNeeded, StoppedIsBlank, DiskIsBetween,
         WorkerEnds, Running, Version, Unsaved, Documents, disks, saver, quits
<1>10. CleanQuitIsSaved'
  BY DEF CleanQuitIsSaved, WorkerEnds, disks
<1> QED
  BY <1>1, <1>2, <1>3, <1>4, <1>5, <1>6, <1>7, <1>8, <1>9, <1>10

LEMMA KeepsRequestQuit ==
  ASSUME SavesIInv, RequestQuit
  PROVE  SavesIInv'
<1> USE RevisionAssumption, DocumentsAssumption DEF SavesIInv
<1>1. SavesTypeOK'
  <2>1. /\ UNCHANGED <<disk, persisted, error>>
        /\ worker' \in {"none", "saving", "renamed", "ended"}
        /\ saving' \in 0..MaxRevision
    BY DEF SavesTypeOK, RequestQuit, Flush, StartSaveWorker, OpenTemporary, saver
  <2> QED
    BY <2>1 DEF SavesTypeOK, RequestQuit, Flush
<1>2. StoppedIsBlank'
  BY DEF StoppedIsBlank, RequestQuit, Running
<1>3. DiskIsBetween'
  BY DEF DiskIsBetween, RequestQuit, Flush, StartSaveWorker, OpenTemporary, Running, saver
<1>4. SaveIsNeeded'
  BY DEF SaveIsNeeded, SavesTypeOK, RequestQuit, Flush, StartSaveWorker, Unsaved, saver
<1>5. LegacyIsUntouched'
  BY DEF LegacyIsUntouched, DiskIsBetween, RequestQuit, Flush, StartSaveWorker,
         OpenTemporary, Running
<1>6. BackupOfFound'
  BY DEF BackupOfFound, RequestQuit
<1>7. FoundIsKept'
  BY DEF FoundIsKept, RequestQuit, Flush, StartSaveWorker, OpenTemporary
<1>8. CleanIsOff'
  BY DEF CleanIsOff, RequestQuit
<1>9. ErrorIsUnsaved'
  BY DEF ErrorIsUnsaved, RequestQuit, Flush, StartSaveWorker, Unsaved, saver
<1>10. CleanQuitIsSaved'
  BY DEF CleanQuitIsSaved, CleanIsOff, RequestQuit
<1> QED
  BY <1>1, <1>2, <1>3, <1>4, <1>5, <1>6, <1>7, <1>8, <1>9, <1>10

LEMMA KeepsReturnToTermLoom ==
  ASSUME SavesIInv, ReturnToTermLoom
  PROVE  SavesIInv'
<1> USE RevisionAssumption, DocumentsAssumption DEF SavesIInv
<1>1. SavesTypeOK'
  <2>1. /\ disk' \in Documents
        /\ backup' \in LegacyDocuments \cup {None}
        /\ found' \in [disk : Documents, backup : LegacyDocuments \cup {None}]
    BY DEF ReturnToTermLoom, disks, SavesTypeOK
  <2>2. /\ process' \in {"off", "backup", "migrate", "up", "disposing", "flushing"}
        /\ outcome' \in {"none", "refused", "discarded", "reported", "clean", "crashed"}
        /\ worker' \in {"none", "saving", "renamed", "ended"}
    BY DEF ReturnToTermLoom, saver, SavesTypeOK
  <2>3. /\ revision' \in 0..MaxRevision
        /\ persisted' \in 0..MaxRevision
        /\ saving' \in 0..MaxRevision
    BY DEF ReturnToTermLoom, saver, SavesTypeOK
  <2>4. timer' \in BOOLEAN /\ error' \in BOOLEAN
    BY DEF ReturnToTermLoom, saver, SavesTypeOK
  <2>5. dialog' \in BOOLEAN /\ quitting' \in BOOLEAN /\ returned' \in BOOLEAN
    BY DEF ReturnToTermLoom, disks, saver, quits, SavesTypeOK
  <2> QED
    BY <2>1, <2>2, <2>3, <2>4, <2>5 DEF SavesTypeOK
<1>2. StoppedIsBlank'
  BY DEF StoppedIsBlank, ReturnToTermLoom, Running
<1>3. DiskIsBetween'
  BY DEF DiskIsBetween, StoppedIsBlank, ReturnToTermLoom, disks, saver
<1>4. SaveIsNeeded'
  BY DEF SaveIsNeeded, ReturnToTermLoom, disks, saver
<1>5. LegacyIsUntouched'
  BY DEF LegacyIsUntouched, DiskIsBetween, StoppedIsBlank, ReturnToTermLoom, disks
<1>6. BackupOfFound'
  BY DEF BackupOfFound, ReturnToTermLoom, disks
<1>7. FoundIsKept'
  BY DEF FoundIsKept, ReturnToTermLoom, disks
<1>8. CleanIsOff'
  BY DEF CleanIsOff, ReturnToTermLoom
<1>9. ErrorIsUnsaved'
  BY DEF ErrorIsUnsaved, ReturnToTermLoom, Unsaved, saver
<1>10. CleanQuitIsSaved'
  BY DEF CleanQuitIsSaved, CleanIsOff, ReturnToTermLoom
<1> QED
  BY <1>1, <1>2, <1>3, <1>4, <1>5, <1>6, <1>7, <1>8, <1>9, <1>10

LEMMA KeepsFlushReturns ==
  ASSUME SavesIInv, FlushReturns
  PROVE  SavesIInv'
<1> USE RevisionAssumption, DocumentsAssumption DEF SavesIInv
<1>1. SavesTypeOK'
  <2>1. /\ disk' \in Documents
        /\ backup' \in LegacyDocuments \cup {None}
        /\ found' \in [disk : Documents, backup : LegacyDocuments \cup {None}]
    BY DEF FlushReturns, disks, SavesTypeOK
  <2>2. /\ process' \in {"off", "backup", "migrate", "up", "disposing", "flushing"}
        /\ outcome' \in {"none", "refused", "discarded", "reported", "clean", "crashed"}
        /\ worker' \in {"none", "saving", "renamed", "ended"}
    BY DEF FlushReturns, saver, SavesTypeOK
  <2>3. /\ revision' \in 0..MaxRevision
        /\ persisted' \in 0..MaxRevision
        /\ saving' \in 0..MaxRevision
    BY DEF FlushReturns, saver, SavesTypeOK
  <2>4. timer' \in BOOLEAN /\ error' \in BOOLEAN
    BY DEF FlushReturns, saver, SavesTypeOK
  <2>5. dialog' \in BOOLEAN /\ quitting' \in BOOLEAN /\ returned' \in BOOLEAN
    BY DEF FlushReturns, disks, saver, quits, SavesTypeOK
  <2> QED
    BY <2>1, <2>2, <2>3, <2>4, <2>5 DEF SavesTypeOK
<1>2. StoppedIsBlank'
  BY DEF StoppedIsBlank, FlushReturns, Running
<1>3. DiskIsBetween'
  BY DEF DiskIsBetween, StoppedIsBlank, FlushReturns, disks, saver
<1>4. SaveIsNeeded'
  BY DEF SaveIsNeeded, FlushReturns, saver
<1>5. LegacyIsUntouched'
  BY DEF LegacyIsUntouched, DiskIsBetween, StoppedIsBlank, FlushReturns, disks
<1>6. BackupOfFound'
  BY DEF BackupOfFound, FlushReturns, disks
<1>7. FoundIsKept'
  BY DEF FoundIsKept, FlushReturns, disks
<1>8. CleanIsOff'
  BY DEF CleanIsOff, FlushReturns
<1>9. ErrorIsUnsaved'
  BY DEF ErrorIsUnsaved, FlushReturns, Unsaved, saver
<1>10. CleanQuitIsSaved'
  BY DEF CleanQuitIsSaved, FlushReturns, disks
<1> QED
  BY <1>1, <1>2, <1>3, <1>4, <1>5, <1>6, <1>7, <1>8, <1>9, <1>10

LEMMA KeepsRendererDestroyed ==
  ASSUME SavesIInv, RendererDestroyed
  PROVE  SavesIInv'
<1> USE RevisionAssumption, DocumentsAssumption DEF SavesIInv
<1>1. SavesTypeOK'
  <2>1. /\ disk' \in Documents
        /\ backup' \in LegacyDocuments \cup {None}
        /\ found' \in [disk : Documents, backup : LegacyDocuments \cup {None}]
    BY DEF RendererDestroyed, disks, SavesTypeOK
  <2>2. /\ process' \in {"off", "backup", "migrate", "up", "disposing", "flushing"}
        /\ outcome' \in {"none", "refused", "discarded", "reported", "clean", "crashed"}
        /\ worker' \in {"none", "saving", "renamed", "ended"}
    BY DEF RendererDestroyed, saver, SavesTypeOK
  <2>3. /\ revision' \in 0..MaxRevision
        /\ persisted' \in 0..MaxRevision
        /\ saving' \in 0..MaxRevision
    BY DEF RendererDestroyed, saver, SavesTypeOK
  <2>4. timer' \in BOOLEAN /\ error' \in BOOLEAN
    BY DEF RendererDestroyed, saver, SavesTypeOK
  <2>5. dialog' \in BOOLEAN /\ quitting' \in BOOLEAN /\ returned' \in BOOLEAN
    BY DEF RendererDestroyed, disks, saver, quits, SavesTypeOK
  <2> QED
    BY <2>1, <2>2, <2>3, <2>4, <2>5 DEF SavesTypeOK
<1>2. StoppedIsBlank'
  BY DEF StoppedIsBlank, RendererDestroyed, Running
<1>3. DiskIsBetween'
  BY DEF DiskIsBetween, RendererDestroyed, Running, disks, saver
<1>4. SaveIsNeeded'
  BY DEF SaveIsNeeded, RendererDestroyed, disks, saver
<1>5. LegacyIsUntouched'
  BY DEF LegacyIsUntouched, RendererDestroyed, disks, saver
<1>6. BackupOfFound'
  BY DEF BackupOfFound, RendererDestroyed, disks
<1>7. FoundIsKept'
  BY DEF FoundIsKept, RendererDestroyed, disks
<1>8. CleanIsOff'
  BY DEF CleanIsOff, RendererDestroyed
<1>9. ErrorIsUnsaved'
  BY DEF ErrorIsUnsaved, RendererDestroyed, Unsaved, saver
<1>10. CleanQuitIsSaved'
  BY DEF CleanQuitIsSaved, CleanIsOff, RendererDestroyed
<1> QED
  BY <1>1, <1>2, <1>3, <1>4, <1>5, <1>6, <1>7, <1>8, <1>9, <1>10

LEMMA KeepsClose ==
  ASSUME SavesIInv, Close
  PROVE  SavesIInv'
<1> USE RevisionAssumption, DocumentsAssumption DEF SavesIInv
<1>1. SavesTypeOK'
  <2>1. /\ disk' \in Documents
        /\ backup' \in LegacyDocuments \cup {None}
        /\ found' \in [disk : Documents, backup : LegacyDocuments \cup {None}]
    BY DEF Close, Flush, StartSaveWorker, OpenTemporary, SavesTypeOK
  <2>2. /\ process' \in {"off", "backup", "migrate", "up", "disposing", "flushing"}
        /\ outcome' \in {"none", "refused", "discarded", "reported", "clean", "crashed"}
        /\ worker' \in {"none", "saving", "renamed", "ended"}
    BY DEF Close, Flush, StartSaveWorker, saver, SavesTypeOK
  <2>3. /\ revision' \in 0..MaxRevision
        /\ persisted' \in 0..MaxRevision
        /\ saving' \in 0..MaxRevision
    BY DEF Close, Flush, StartSaveWorker, saver, SavesTypeOK
  <2>4. timer' \in BOOLEAN /\ error' \in BOOLEAN
    BY DEF Close, Flush, StartSaveWorker, OpenTemporary, disks, saver, quits, SavesTypeOK
  <2>5. dialog' \in BOOLEAN /\ quitting' \in BOOLEAN /\ returned' \in BOOLEAN
    BY DEF Close, quits, SavesTypeOK
  <2> QED
    BY <2>1, <2>2, <2>3, <2>4, <2>5 DEF SavesTypeOK
<1>2. StoppedIsBlank'
  BY DEF StoppedIsBlank, Close, Running
<1>3. DiskIsBetween'
  BY DEF DiskIsBetween, Close, Flush, StartSaveWorker, OpenTemporary, Running, saver
<1>4. SaveIsNeeded'
  BY DEF SaveIsNeeded, SavesTypeOK, Close, Flush, StartSaveWorker, Unsaved, saver
<1>5. LegacyIsUntouched'
  BY DEF LegacyIsUntouched, DiskIsBetween, Close, Flush, StartSaveWorker, OpenTemporary,
         Running
<1>6. BackupOfFound'
  BY DEF BackupOfFound, Close
<1>7. FoundIsKept'
  BY DEF FoundIsKept, Close, Flush, StartSaveWorker, OpenTemporary
<1>8. CleanIsOff'
  BY DEF CleanIsOff, Close
<1>9. ErrorIsUnsaved'
  BY DEF ErrorIsUnsaved, Close, Flush, StartSaveWorker, Unsaved, saver
<1>10. CleanQuitIsSaved'
  BY DEF CleanQuitIsSaved, CleanIsOff, Close
<1> QED
  BY <1>1, <1>2, <1>3, <1>4, <1>5, <1>6, <1>7, <1>8, <1>9, <1>10

LEMMA KeepsVars ==
  ASSUME SavesIInv, UNCHANGED savesVars
  PROVE  SavesIInv'
<1> USE RevisionAssumption, DocumentsAssumption DEF SavesIInv
<1>1. SavesTypeOK'
  BY DEF SavesTypeOK, savesVars, disks, saver, quits
<1>2. StoppedIsBlank'
  BY DEF StoppedIsBlank, savesVars, Running, saver, quits
<1>3. DiskIsBetween'
  BY DEF DiskIsBetween, savesVars, Running, disks, saver
<1>4. SaveIsNeeded'
  BY DEF SaveIsNeeded, savesVars, disks, saver
<1>5. LegacyIsUntouched'
  BY DEF LegacyIsUntouched, savesVars, disks, saver
<1>6. BackupOfFound'
  BY DEF BackupOfFound, savesVars, disks
<1>7. FoundIsKept'
  BY DEF FoundIsKept, savesVars, disks
<1>8. CleanIsOff'
  BY DEF CleanIsOff, savesVars
<1>9. ErrorIsUnsaved'
  BY DEF ErrorIsUnsaved, savesVars, Unsaved, saver
<1>10. CleanQuitIsSaved'
  BY DEF CleanQuitIsSaved, savesVars, disks
<1> QED
  BY <1>1, <1>2, <1>3, <1>4, <1>5, <1>6, <1>7, <1>8, <1>9, <1>10


LEMMA KeepsQuitWithoutSaving ==
  ASSUME SavesIInv, QuitWithoutSaving
  PROVE  SavesIInv'
<1> QED
  BY EndKeeps DEF QuitWithoutSaving

LEMMA KeepsExit ==
  ASSUME SavesIInv, Exit
  PROVE  SavesIInv'
<1>1. process # "off" /\ worker = "none" /\ Running
  BY DEF Exit, Running
<1>2. CASE FlushThrows
  BY <1>1, <1>2, EndKeeps DEF Exit
<1>3. CASE ~FlushThrows
  BY <1>1, EndKeeps DEF Exit, FlushThrows
<1> QED
  BY <1>2, <1>3

LEMMA KeepsCrash ==
  ASSUME SavesIInv, Crash
  PROVE  SavesIInv'
<1> QED
  BY EndKeeps DEF Crash

LEMMA InitHolds == SavesInit => SavesIInv
<1> SUFFICES ASSUME SavesInit PROVE SavesIInv
  OBVIOUS
<1> USE RevisionAssumption, DocumentsAssumption DEF SavesInit
<1>1. SavesTypeOK
  <2>1. /\ disk \in Documents
        /\ backup \in LegacyDocuments \cup {None}
        /\ found \in [disk : Documents, backup : LegacyDocuments \cup {None}]
    BY DEF SavesTypeOK, Documents
  <2>2. /\ process \in {"off", "backup", "migrate", "up", "disposing", "flushing"}
        /\ outcome \in {"none", "refused", "discarded", "reported", "clean", "crashed"}
        /\ worker \in {"none", "saving", "renamed", "ended"}
    BY DEF SavesTypeOK
  <2>3. /\ revision \in 0..MaxRevision
        /\ persisted \in 0..MaxRevision
        /\ saving \in 0..MaxRevision
    BY DEF SavesTypeOK
  <2>4. timer \in BOOLEAN /\ error \in BOOLEAN
    BY DEF SavesTypeOK
  <2>5. dialog \in BOOLEAN /\ quitting \in BOOLEAN /\ returned \in BOOLEAN
    BY DEF SavesTypeOK
  <2> QED
    BY <2>1, <2>4, <2>5 DEF SavesTypeOK
<1>2. StoppedIsBlank /\ DiskIsBetween /\ SaveIsNeeded
  BY DEF StoppedIsBlank, DiskIsBetween, SaveIsNeeded, Running
<1>3. LegacyIsUntouched /\ BackupOfFound /\ FoundIsKept
  BY DEF LegacyIsUntouched, BackupOfFound, FoundIsKept
<1>4. CleanIsOff /\ ErrorIsUnsaved /\ CleanQuitIsSaved
  BY DEF CleanIsOff, ErrorIsUnsaved, CleanQuitIsSaved, Unsaved
<1> QED
  BY <1>1, <1>2, <1>3, <1>4 DEF SavesIInv

-----------------------------------------------------------------------------
(* The theorems                                                            *)

\* The invariant holds in every state, through failures of every write, crashes
\* and restarts (controller.ts:96-150, store.ts:20-59).
THEOREM SavesInductive == SavesSpec => []SavesIInv
<1>1. SavesIInv /\ [SavesNext]_savesVars => SavesIInv'
  <2> SUFFICES ASSUME SavesIInv, [SavesNext]_savesVars PROVE SavesIInv'
    OBVIOUS
  <2>1. CASE Load \/ WriteBackup \/ WriteMigrated
    BY <2>1, KeepsLoad, KeepsWriteBackup, KeepsWriteMigrated
  <2>2. CASE DispatchChange \/ SaveTimerFires \/ Rename
    BY <2>2, KeepsDispatch, KeepsSaveTimerFires, KeepsRename
  <2>3. CASE SaveSucceeds \/ SaveFails \/ WorkerEnds
    BY <2>3, KeepsSaveSucceeds, KeepsSaveFails, KeepsWorkerEnds
  <2>4. CASE RequestQuit \/ QuitPersistenceDialog \/ FlushReturns
    BY <2>4, KeepsRequestQuit, KeepsQuitWithoutSaving, KeepsReturnToTermLoom,
       KeepsFlushReturns
      DEF QuitPersistenceDialog
  <2>5. CASE RendererDestroyed \/ Close \/ Exit \/ Crash
    BY <2>5, KeepsRendererDestroyed, KeepsClose, KeepsExit, KeepsCrash
  <2>6. CASE UNCHANGED savesVars
    BY <2>6, KeepsVars
  <2> QED
    BY <2>1, <2>2, <2>3, <2>4, <2>5, <2>6 DEF SavesNext
<1> QED
  BY <1>1, InitHolds, PTL DEF SavesSpec

LEMMA ConsistencyFollows == SavesIInv => SavesConsistent
<1> SUFFICES ASSUME SavesIInv PROVE SavesConsistent
  OBVIOUS
<1>1. PersistedIsOnDisk
  BY DEF SavesIInv, PersistedIsOnDisk, DiskIsBetween, LegacyIsUntouched, Running, SavesTypeOK,
         Version
<1>2. UnsavedIsKnown
  BY DEF SavesIInv, UnsavedIsKnown, ErrorIsUnsaved
<1> QED
  BY <1>1, <1>2 DEF SavesIInv, SavesConsistent

\* The disk, the backup and what the controller believes of them agree: nothing
\* is taken for saved that is not, no change is forgotten, a quiet quit has saved
\* everything, and what was found at first is not lost.
THEOREM DiskAndMemoryAgree == SavesSpec => []SavesConsistent
<1> QED
  BY SavesInductive, ConsistencyFollows, PTL
=============================================================================
