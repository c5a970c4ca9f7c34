------------------------- MODULE ResourceCacheProofs -------------------------
(***************************************************************************)
(* Theorems about ResourceCache, for any finite number of calls and keys,  *)
(* any sizes and any limits.                                               *)
(***************************************************************************)
EXTENDS ResourceCache, FiniteSetTheorems, WellFoundedInduction, TLAPS

-----------------------------------------------------------------------------
(* Sums over finite sets                                                   *)

\* A family of subsets of a finite set that has {}, and every set whose sets
\* with one element less it has, has the set itself.
LEMMA SubsetInduction ==
  ASSUME NEW S, IsFiniteSet(S), NEW Good \in SUBSET SUBSET S,
         \A T \in SUBSET S : (\A x \in T : T \ {x} \in Good) => T \in Good
  PROVE  Good = SUBSET S
<1> DEFINE Bad == (SUBSET S) \ Good
<1>1. SUFFICES ASSUME Bad # {} PROVE FALSE
  OBVIOUS
<1>2. IsWellFoundedOn(StrictSubsetOrdering(S), SUBSET S)
  BY FS_StrictSubsetOrderingWellFounded, FS_FiniteSubsetsOfFinite
<1>3. PICK T \in Bad : \A U \in Bad : <<U, T>> \notin StrictSubsetOrdering(S)
  <2> HIDE DEF Bad
  <2>1. Bad \subseteq SUBSET S
    BY DEF Bad
  <2> QED
    BY <1>1, <1>2, <2>1, WFMin
<1>4. \A x \in T : T \ {x} \notin Bad
  <2> SUFFICES ASSUME NEW x \in T, T \ {x} \in Bad PROVE FALSE
    OBVIOUS
  <2>1. <<T \ {x}, T>> \in StrictSubsetOrdering(S)
    BY DEF StrictSubsetOrdering
  <2> QED
    BY <1>3, <2>1
<1> QED
  BY <1>3, <1>4

\* The sum of d over each subset of S, by the recursion of the folds.
Pick(s) == CHOOSE x \in s : TRUE

IsTable(g, d, S) ==
  g = [s \in SUBSET S |-> IF s = {} THEN 0 ELSE d[Pick(s)] + g[s \ {Pick(s)}]]

LEMMA PickIsElement == ASSUME NEW s, s # {} PROVE Pick(s) \in s
  BY DEF Pick

\* The same for the subsets of at most n elements.
Small(S, n) == {s \in SUBSET S : Cardinality(s) <= n}

IsSmallTable(g, d, S, n) ==
  g = [s \in Small(S, n) |-> IF s = {} THEN 0 ELSE d[Pick(s)] + g[s \ {Pick(s)}]]

LEMMA SmallTableGrows ==
  ASSUME NEW S, IsFiniteSet(S), NEW d, NEW n \in Nat, NEW g, IsSmallTable(g, d, S, n)
  PROVE  \E h : IsSmallTable(h, d, S, n + 1)
<1> DEFINE h == [s \in Small(S, n + 1) |->
                   IF s = {} THEN 0 ELSE d[Pick(s)] + g[s \ {Pick(s)}]]
<1>1. ASSUME NEW s \in Small(S, n + 1), s # {}
      PROVE  s \ {Pick(s)} \in Small(S, n) /\ s \ {Pick(s)} \in Small(S, n + 1)
  <2>1. IsFiniteSet(s) /\ s \in SUBSET S /\ Cardinality(s) <= n + 1
    BY FS_Subset DEF Small
  <2>2. Cardinality(s \ {Pick(s)}) = Cardinality(s) - 1 /\ Cardinality(s) \in Nat
    BY <2>1, <1>1, FS_RemoveElement, FS_CardinalityType, PickIsElement
  <2> QED
    BY <2>1, <2>2 DEF Small
<1>2. ASSUME NEW s \in Small(S, n)
      PROVE  s \in Small(S, n + 1) /\ h[s] = g[s]
  <2>1. IsFiniteSet(s) /\ s \in SUBSET S /\ Cardinality(s) <= n
    BY FS_Subset DEF Small
  <2>2. Cardinality(s) \in Nat
    BY <2>1, FS_CardinalityType
  <2>3. s \in Small(S, n + 1)
    BY <2>1, <2>2 DEF Small
  <2>4. g[s] = IF s = {} THEN 0 ELSE d[Pick(s)] + g[s \ {Pick(s)}]
    BY DEF IsSmallTable
  <2> QED
    BY <2>3, <2>4
<1>3. ASSUME NEW s \in Small(S, n + 1)
      PROVE  h[s] = IF s = {} THEN 0 ELSE d[Pick(s)] + h[s \ {Pick(s)}]
  BY <1>1, <1>2
<1>4. h = [s \in Small(S, n + 1) |->
             IF s = {} THEN 0 ELSE d[Pick(s)] + h[s \ {Pick(s)}]]
  <2>1. h = [s \in Small(S, n + 1) |-> h[s]]
    OBVIOUS
  <2> HIDE DEF h
  <2> QED
    BY <1>3, <2>1
<1> HIDE DEF h
<1> QED
  BY <1>4 DEF IsSmallTable

\* The recursion has a solution.
LEMMA TableExists ==
  ASSUME NEW S, IsFiniteSet(S), NEW d
  PROVE  \E g : IsTable(g, d, S)
<1> DEFINE Without == {n \in Nat : ~\E g : IsSmallTable(g, d, S, n)}
<1>1. Without = {}
  <2>1. SUFFICES ASSUME Without # {} PROVE FALSE
    OBVIOUS
  <2>2. PICK n \in Without : \A m \in Without : <<m, n>> \notin OpToRel(<, Nat)
    <3>1. Without \subseteq Nat
      OBVIOUS
    <3> HIDE DEF Without
    <3> QED
      BY <2>1, <3>1, WFMin, NatLessThanWellFounded
  <2>3. n # 0
    <3> DEFINE g == [s \in Small(S, 0) |-> 0]
    <3>1. ASSUME NEW s \in Small(S, 0) PROVE s = {}
      <4>1. IsFiniteSet(s) /\ Cardinality(s) <= 0
        BY FS_Subset DEF Small
      <4>2. Cardinality(s) \in Nat
        BY <4>1, FS_CardinalityType
      <4>3. Cardinality(s) = 0
        BY <4>1, <4>2
      <4> QED
        BY <4>1, <4>3, FS_EmptySet
    <3>2. IsSmallTable(g, d, S, 0)
      BY <3>1 DEF IsSmallTable
    <3> QED
      BY <3>2
  <2>4. n - 1 \in Nat /\ n - 1 + 1 = n /\ n \in Nat
    BY <2>3
  <2>5. <<n - 1, n>> \in OpToRel(<, Nat)
    BY <2>4 DEF OpToRel
  <2>6. PICK g : IsSmallTable(g, d, S, n - 1)
    BY <2>2, <2>4, <2>5
  <2>7. \E h : IsSmallTable(h, d, S, n)
    BY <2>4, <2>6, SmallTableGrows
  <2> QED
    BY <2>7
<1>2. Cardinality(S) \in Nat
  BY FS_CardinalityType
<1>3. PICK g : IsSmallTable(g, d, S, Cardinality(S))
  BY <1>1, <1>2
<1>4. Small(S, Cardinality(S)) = SUBSET S
  BY FS_Subset DEF Small
<1> QED
  BY <1>3, <1>4 DEF IsTable, IsSmallTable

LEMMA TableStep ==
  ASSUME NEW S, NEW d, NEW g, IsTable(g, d, S)
  PROVE  /\ g[{}] = 0
         /\ \A s \in SUBSET S : s # {} =>
              /\ Pick(s) \in s
              /\ s \ {Pick(s)} \in SUBSET S
              /\ g[s] = d[Pick(s)] + g[s \ {Pick(s)}]
<1>1. ASSUME NEW s \in SUBSET S
      PROVE  g[s] = IF s = {} THEN 0 ELSE d[Pick(s)] + g[s \ {Pick(s)}]
  BY DEF IsTable
<1>2. {} \in SUBSET S
  OBVIOUS
<1> QED
  BY <1>1, <1>2, PickIsElement

LEMMA TableType ==
  ASSUME NEW S, IsFiniteSet(S), NEW d \in [S -> Nat], NEW g, IsTable(g, d, S)
  PROVE  \A T \in SUBSET S : g[T] \in Nat
<1> DEFINE Good == {T \in SUBSET S : g[T] \in Nat}
<1>1. ASSUME NEW T \in SUBSET S, \A x \in T : T \ {x} \in Good
      PROVE  T \in Good
  <2>1. CASE T = {}
    BY <2>1, TableStep
  <2>2. CASE T # {}
    <3>1. Pick(T) \in T /\ g[T] = d[Pick(T)] + g[T \ {Pick(T)}]
      BY <2>2, TableStep
    <3>2. d[Pick(T)] \in Nat /\ g[T \ {Pick(T)}] \in Nat
      BY <1>1, <3>1
    <3> QED
      BY <3>1, <3>2
  <2> QED
    BY <2>1, <2>2
<1>2. Good \in SUBSET SUBSET S
  OBVIOUS
<1> HIDE DEF Good
<1>3. Good = SUBSET S
  BY <1>1, <1>2, SubsetInduction
<1> QED
  BY <1>3 DEF Good

\* The order of the summands does not matter.
LEMMA TableRemoves ==
  ASSUME NEW S, IsFiniteSet(S), NEW d \in [S -> Nat], NEW g, IsTable(g, d, S)
  PROVE  \A T \in SUBSET S : \A y \in T : g[T] = d[y] + g[T \ {y}]
<1> DEFINE Good == {T \in SUBSET S : \A y \in T : g[T] = d[y] + g[T \ {y}]}
<1>1. ASSUME NEW T \in SUBSET S, \A x \in T : T \ {x} \in Good
      PROVE  T \in Good
  <2> SUFFICES ASSUME NEW y \in T PROVE g[T] = d[y] + g[T \ {y}]
    OBVIOUS
  <2> DEFINE x == Pick(T)
  <2>1. x \in T /\ g[T] = d[x] + g[T \ {x}]
    BY TableStep
  <2>2. CASE x = y
    BY <2>1, <2>2
  <2>3. CASE x # y
    <3>1. g[T \ {x}] = d[y] + g[(T \ {x}) \ {y}]
      BY <1>1, <2>1, <2>3
    <3>2. g[T \ {y}] = d[x] + g[(T \ {y}) \ {x}]
      BY <1>1, <2>1, <2>3
    <3>3. (T \ {x}) \ {y} = (T \ {y}) \ {x}
      OBVIOUS
    <3>4. g[(T \ {y}) \ {x}] \in Nat /\ d[x] \in Nat /\ d[y] \in Nat
      BY <2>1, TableType
    <3> QED
      BY <2>1, <3>1, <3>2, <3>3, <3>4
  <2> QED
    BY <2>2, <2>3
<1>2. Good \in SUBSET SUBSET S
  OBVIOUS
<1> HIDE DEF Good
<1>3. Good = SUBSET S
  BY <1>1, <1>2, SubsetInduction
<1> QED
  BY <1>3 DEF Good

\* f gives each summand that is not 0 one of its own that is as large.
Covers(f, d, S, e, R) ==
  LET A == {x \in S : d[x] > 0}
  IN  /\ f \in [A -> R]
      /\ \A x, y \in A : x # y => f[x] # f[y]
      /\ \A x \in A : d[x] <= e[f[x]]

\* A sum is at most another one when the other covers it.
LEMMA TableBounds ==
  ASSUME NEW S, IsFiniteSet(S), NEW d \in [S -> Nat], NEW g, IsTable(g, d, S),
         NEW R, IsFiniteSet(R), NEW e \in [R -> Nat], NEW h, IsTable(h, e, R),
         NEW f, Covers(f, d, S, e, R)
  PROVE  g[S] <= h[R]
<1> DEFINE A == {x \in S : d[x] > 0}
<1>0. /\ f \in [A -> R]
      /\ \A x, y \in A : x # y => f[x] # f[y]
      /\ \A x \in A : d[x] <= e[f[x]]
  BY DEF Covers
<1> DEFINE Good == {T \in SUBSET S : \A U \in SUBSET R :
                      (\A x \in T \cap A : f[x] \in U) => g[T] <= h[U]}
<1>1. ASSUME NEW T \in SUBSET S, \A x \in T : T \ {x} \in Good
      PROVE  T \in Good
  <2> SUFFICES ASSUME NEW U \in SUBSET R, \A x \in T \cap A : f[x] \in U
               PROVE  g[T] <= h[U]
    OBVIOUS
  <2>1. h[U] \in Nat
    BY TableType
  <2>2. CASE T = {}
    BY <2>1, <2>2, TableStep
  <2>3. CASE T # {}
    <3> DEFINE x == Pick(T)
    <3>1. x \in T /\ T \ {x} \in SUBSET S /\ g[T] = d[x] + g[T \ {x}]
      <4>1. /\ Pick(T) \in T /\ T \ {Pick(T)} \in SUBSET S
            /\ g[T] = d[Pick(T)] + g[T \ {Pick(T)}]
        BY <1>1, <2>3, TableStep
      <4> QED
        BY <4>1
    <3>2. d[x] \in Nat /\ g[T \ {x}] \in Nat
      BY <3>1, TableType
    <3> HIDE DEF x
    <3>3. CASE x \notin A
      <4>1. d[x] = 0
        BY <3>1, <3>2, <3>3
      <4>2. g[T \ {x}] <= h[U]
        BY <1>1, <3>1
      <4> QED
        BY <3>1, <3>2, <4>1, <4>2
    <3>4. CASE x \in A
      <4>1. f[x] \in U /\ d[x] <= e[f[x]] /\ e[f[x]] \in Nat
        BY <1>0, <3>1, <3>4
      <4>2. h[U] = e[f[x]] + h[U \ {f[x]}]
        BY <4>1, TableRemoves
      <4>3. \A y \in (T \ {x}) \cap A : f[y] \in U \ {f[x]}
        BY <1>0, <3>1, <3>4
      <4>4. g[T \ {x}] <= h[U \ {f[x]}] /\ U \ {f[x]} \in SUBSET R
        BY <1>1, <3>1, <4>3
      <4>5. h[U \ {f[x]}] \in Nat
        BY <4>4, TableType
      <4> QED
        BY <3>1, <3>2, <4>1, <4>2, <4>4, <4>5
    <3> QED
      BY <3>3, <3>4
  <2> QED
    BY <2>2, <2>3
<1>2. Good \in SUBSET SUBSET S
  OBVIOUS
<1>3. Good = SUBSET S
  <2> HIDE DEF Good
  <2> QED
    BY <1>1, <1>2, SubsetInduction
<1>4. \A x \in S \cap A : f[x] \in R
  BY <1>0
<1> QED
  BY <1>3, <1>4

LEMMA UsedIsSum ==
  ASSUME IsFiniteSet(Keys), NEW d \in [Keys -> Nat]
  PROVE  \E g : IsTable(g, d, Keys) /\ Used(d) = g[Keys]
<1> DEFINE g == CHOOSE g : IsTable(g, d, Keys)
<1>1. IsTable(g, d, Keys)
  BY TableExists
<1>2. Used(d) = g[Keys]
  BY DEF Used, MapThenSumSet, MapThenFoldSet, IsTable, Pick
<1> QED
  BY <1>1, <1>2

SizeOf(files) == [f \in files |-> f.size]

LEMMA TotalIsSum ==
  ASSUME NEW p, NEW files, IsFiniteSet(files), SizeOf(files) \in [files -> Nat]
  PROVE  \E g : IsTable(g, SizeOf(files), files) /\ Total(p, files) = g[files]
<1> DEFINE Follows(g) ==
      g = [s \in SUBSET files |-> IF s = {} THEN 0 ELSE Pick(s).size + g[s \ {Pick(s)}]]
           g == CHOOSE g : Follows(g)
<1>1. ASSUME NEW h PROVE Follows(h) <=> IsTable(h, SizeOf(files), files)
  <2>1. \A s \in SUBSET files : s # {} => SizeOf(files)[Pick(s)] = Pick(s).size
    BY PickIsElement DEF SizeOf
  <2>2. [s \in SUBSET files |-> IF s = {} THEN 0 ELSE Pick(s).size + h[s \ {Pick(s)}]]
        = [s \in SUBSET files |->
             IF s = {} THEN 0 ELSE SizeOf(files)[Pick(s)] + h[s \ {Pick(s)}]]
    BY <2>1
  <2> QED
    BY <2>2 DEF IsTable
<1>2. \E h : Follows(h)
  BY <1>1, TableExists
<1>3. Follows(g)
  <2> HIDE DEF Follows
  <2> QED
    BY <1>2
<1>4. Total(p, files) = g[files]
  BY DEF Total, MapThenSumSet, MapThenFoldSet, Pick
<1> HIDE DEF Follows, g
<1> QED
  BY <1>1, <1>3, <1>4

\* What the directory holds is a number, no file of it is larger, it grows with its
\* files, and it is the only file when there is but one.
LEMMA UsedBounds ==
  ASSUME IsFiniteSet(Keys), NEW d \in [Keys -> Nat]
  PROVE  /\ Used(d) \in Nat
         /\ \A k \in Keys : d[k] <= Used(d)
         /\ \A k \in Keys : (\A l \in Keys : l # k => d[l] = 0) => Used(d) <= d[k]
<1>1. PICK g : IsTable(g, d, Keys) /\ Used(d) = g[Keys]
  BY UsedIsSum
<1>2. Used(d) \in Nat
  BY <1>1, TableType
<1>3. ASSUME NEW k \in Keys PROVE d[k] <= Used(d)
  <2>1. Used(d) = d[k] + g[Keys \ {k}]
    BY <1>1, TableRemoves
  <2>2. g[Keys \ {k}] \in Nat
    BY <1>1, TableType
  <2> QED
    BY <2>1, <2>2
<1>4. ASSUME NEW k \in Keys, \A l \in Keys : l # k => d[l] = 0
      PROVE  Used(d) <= d[k]
  <2>1. Used(d) = d[k] + g[Keys \ {k}]
    BY <1>1, TableRemoves
  <2> DEFINE Good == {T \in SUBSET Keys : k \in T \/ g[T] = 0}
  <2>2. ASSUME NEW T \in SUBSET Keys, \A x \in T : T \ {x} \in Good
        PROVE  T \in Good
    <3>1. CASE T = {}
      BY <1>1, <3>1, TableStep
    <3>2. CASE T # {} /\ k \notin T
      <4>1. Pick(T) \in T /\ g[T] = d[Pick(T)] + g[T \ {Pick(T)}]
        BY <1>1, <3>2, TableStep
      <4>2. d[Pick(T)] = 0
        BY <1>4, <3>2, <4>1
      <4>3. g[T \ {Pick(T)}] = 0
        BY <2>2, <3>2, <4>1
      <4> QED
        BY <4>1, <4>2, <4>3
    <3> QED
      BY <3>1, <3>2
  <2>3. Good \in SUBSET SUBSET Keys
    OBVIOUS
  <2>4. Good = SUBSET Keys
    <3> HIDE DEF Good
    <3> QED
      BY <2>2, <2>3, SubsetInduction
  <2>5. g[Keys \ {k}] = 0
    BY <2>4
  <2> QED
    BY <2>1, <2>5
<1> QED
  BY <1>2, <1>3, <1>4

LEMMA UsedGrows ==
  ASSUME IsFiniteSet(Keys), NEW d \in [Keys -> Nat], NEW e \in [Keys -> Nat],
         \A k \in Keys : d[k] <= e[k]
  PROVE  Used(d) <= Used(e)
<1>1. PICK g : IsTable(g, d, Keys) /\ Used(d) = g[Keys]
  BY UsedIsSum
<1>2. PICK h : IsTable(h, e, Keys) /\ Used(e) = h[Keys]
  BY UsedIsSum
<1> DEFINE f == [x \in {y \in Keys : d[y] > 0} |-> x]
<1>3. Covers(f, d, Keys, e, Keys)
  BY DEF Covers
<1> HIDE DEF f
<1>4. g[Keys] <= h[Keys]
  BY <1>1, <1>2, <1>3, TableBounds
<1> QED
  BY <1>1, <1>2, <1>4

\* An eviction that found every file, or a larger one in its place, has counted at
\* least what there is.
LEMMA UsedIsCounted ==
  ASSUME IsFiniteSet(Keys), NEW d \in [Keys -> Nat],
         NEW p, NEW files \in SUBSET [key : Keys, size : Nat], IsFiniteSet(files),
         \A k \in Keys : d[k] > 0 => \E f \in files : f.key = k /\ d[k] <= f.size
  PROVE  Used(d) <= Total(p, files) /\ Total(p, files) \in Nat
<1>1. PICK g : IsTable(g, d, Keys) /\ Used(d) = g[Keys]
  BY UsedIsSum
<1>2. SizeOf(files) \in [files -> Nat]
  BY DEF SizeOf
<1>3. PICK h : IsTable(h, SizeOf(files), files) /\ Total(p, files) = h[files]
  BY <1>2, TotalIsSum
<1> DEFINE A == {x \in Keys : d[x] > 0}
           f == [k \in A |-> CHOOSE e \in files : e.key = k /\ d[k] <= e.size]
<1>4. \A k \in A : f[k] \in files /\ f[k].key = k /\ d[k] <= f[k].size
  OBVIOUS
<1>5. f \in [A -> files]
  BY <1>4
<1>6. Covers(f, d, Keys, SizeOf(files), files)
  <2> HIDE DEF f
  <2> QED
    BY <1>4, <1>5 DEF Covers, SizeOf
<1>7. g[Keys] <= h[files]
  <2> HIDE DEF f
  <2> QED
    BY <1>1, <1>2, <1>3, <1>6, TableBounds
<1>8. h[files] \in Nat
  BY <1>2, <1>3, TableType
<1> QED
  BY <1>1, <1>3, <1>7, <1>8

-----------------------------------------------------------------------------
(* The inductive invariant                                                 *)

\* The types of what calls and producers hold.
CallTypes ==
  /\ call \in [Consumers -> {"none", "waiting", "resolved", "rejected"}]
  /\ key \in [Consumers -> Keys \cup {None}]
  /\ entry \in [Consumers -> Consumers \cup {None}]
  /\ inflight \in [Keys -> Consumers \cup {None}]
  /\ consumers \in [Consumers -> 0..Cardinality(Consumers)]
  /\ aborted \in [Consumers -> BOOLEAN]
  /\ at \in [Consumers -> Awaits \cup {"unborn", "over"}]

\* A producer that runs has a key, and one that does not has left no trace: nobody
\* waits for it and the map does not name it.
ProducersAreKnown ==
  /\ \A c \in Consumers : call[c] = "waiting" <=> entry[c] # None
  /\ \A c \in Consumers : call[c] = "none" => at[c] = "unborn"
  /\ \A p \in Consumers : at[p] \in Awaits => key[p] \in Keys
  /\ \A p \in Consumers : at[p] \notin Awaits => consumers[p] = 0 /\ ~aborted[p]
  /\ \A k \in Keys : inflight[k] # None =>
       at[inflight[k]] \in Awaits /\ key[inflight[k]] = k

Calling == CallTypes /\ ProducersAreKnown /\ SharedWhileWanted

\* The types of the files and of what the evictions found; a survey is finite.
FileTypes ==
  /\ partial \in [Consumers -> {0} \cup Sizes]
  /\ fails \in [Consumers -> BOOLEAN]
  /\ unseen \in [Consumers -> SUBSET Keys]
  /\ seen \in [Consumers -> SUBSET [key : Keys, size : Sizes]]
  /\ \A p \in Consumers : IsFiniteSet(seen[p])
  /\ victim \in [Consumers -> Keys \cup {None}]
  /\ size \in [Keys -> {s \in {0} \cup Sizes : s <= peak}]
  /\ maxBytes \in Limits /\ peak \in Limits /\ maxBytes <= peak
  /\ broken \in SUBSET Consumers

\* Where a producer has a temporary file, at each await; what it is about to
\* publish was measured.
PartialStage ==
  \A p \in Consumers :
    /\ at[p] \in {"unborn", "stat", "utimes", "write", "readdir", "survey", "rm"} =>
         partial[p] = 0
    /\ at[p] \in {"measure", "rename"} => partial[p] \in Sizes
    /\ at[p] = "rename" => partial[p] <= peak
    /\ at[p] = "over" => partial[p] = 0 \/ p \in broken
    /\ at[p] = "rm" => unseen[p] = {}

\* This eviction still has to look at every file there is, or found it, or a larger
\* one in its place.
Counts(p) ==
  \A k \in Keys : size[k] > 0 =>
    k \in unseen[p] \/ \E f \in seen[p] : f.key = k /\ size[k] <= f.size

\* The directory is within the limit, or an eviction is under way that counts all
\* of it: the one of the file published last is always such a one.
DirectoryIsCounted ==
  broken = {} =>
    \/ Used(size) <= peak
    \/ \E p \in Consumers : at[p] = "readdir" \/ (at[p] \in {"survey", "rm"} /\ Counts(p))

Storing == FileTypes /\ PartialStage /\ DirectoryIsCounted

IInv == Calling /\ Storing

LEMMA InitHolds == Init => IInv
<1> SUFFICES ASSUME Init PROVE IInv
  OBVIOUS
<1> USE DEF Init
<1>1. \A p \in Consumers : WaitingFor(p) = {}
  BY NoneAssumption DEF WaitingFor
<1>2. Cardinality(Consumers) \in Nat
  BY FiniteAssumption, FS_CardinalityType
<1>3. CallTypes
  BY <1>2 DEF CallTypes
<1>4. ProducersAreKnown
  BY DEF ProducersAreKnown, Awaits
<1>5. SharedWhileWanted
  BY DEF SharedWhileWanted, Awaits
<1>6. FileTypes
  <2>1. size \in [Keys -> Nat] /\ maxBytes \in Nat
    <3>1. size \in [Keys -> Sizes \cup {0}] /\ maxBytes \in Limits
      OBVIOUS
    <3>2. Sizes \cup {0} \subseteq Nat /\ Limits \subseteq Nat
      BY SizesAssumption, LimitsAssumption
    <3> HIDE DEF Init
    <3> QED
      BY <3>1, <3>2
  <2>2. \A k \in Keys : size[k] <= Used(size) /\ Used(size) \in Nat
    BY <2>1, FiniteAssumption, UsedBounds
  <2>3. Used(size) <= maxBytes
    OBVIOUS
  <2>4. \A k \in Keys : size[k] <= maxBytes
    BY <2>1, <2>2, <2>3
  <2>5. size \in [Keys -> {s \in {0} \cup Sizes : s <= peak}]
    BY <2>4
  <2>6. IsFiniteSet({})
    BY FS_EmptySet
  <2> QED
    BY <2>1, <2>5, <2>6 DEF FileTypes
<1>7. PartialStage
  BY DEF PartialStage
<1>8. DirectoryIsCounted
  BY DEF DirectoryIsCounted
<1> QED
  BY <1>3, <1>4, <1>5, <1>6, <1>7, <1>8 DEF IInv, Calling, Storing

-----------------------------------------------------------------------------
(* Calls and producers                                                     *)

LEMMA WaitersAreFinite ==
  ASSUME NEW S \in SUBSET Consumers
  PROVE  /\ IsFiniteSet(S)
         /\ Cardinality(S) \in 0..Cardinality(Consumers)
         /\ Cardinality(Consumers) \in Nat
  BY FiniteAssumption, FS_Subset, FS_CardinalityType

\* A producer goes on to its next await.
LEMMA MoveKeepsCalling ==
  ASSUME Calling, UNCHANGED calls, NEW p \in Consumers, NEW next \in Awaits,
         at[p] \in Awaits, GoTo(p, next)
  PROVE  Calling'
<1> USE DEF Calling, calls, GoTo
<1>1. CallTypes'
  BY DEF CallTypes, Awaits
<1>2. \A q \in Consumers : at'[q] \in Awaits <=> at[q] \in Awaits
  BY DEF CallTypes
<1>3. ProducersAreKnown'
  <2>1. \A c \in Consumers : call'[c] = "none" => at'[c] = "unborn"
    BY DEF CallTypes, ProducersAreKnown, Awaits
  <2>2. \A k \in Keys : inflight[k] # None => inflight[k] \in Consumers
    BY DEF CallTypes
  <2> QED
    BY <1>2, <2>1, <2>2 DEF ProducersAreKnown
<1>4. SharedWhileWanted'
  <2>1. \A c \in Consumers : call[c] = "waiting" => entry[c] \in Consumers
    BY DEF CallTypes, ProducersAreKnown
  <2> QED
    BY <1>2, <2>1 DEF SharedWhileWanted, WaitingFor, CallTypes
<1> QED
  BY <1>1, <1>3, <1>4

LEMMA StutterKeepsCalling ==
  ASSUME Calling, UNCHANGED <<calls, at>>
  PROVE  Calling'
<1> USE DEF Calling, calls
<1>1. CallTypes'
  BY DEF CallTypes
<1>2. ProducersAreKnown'
  BY DEF ProducersAreKnown
<1>3. SharedWhileWanted'
  <2>1. \A p \in Consumers : WaitingFor(p)' = WaitingFor(p)
    BY DEF WaitingFor
  <2> QED
    BY <2>1 DEF SharedWhileWanted
<1> QED
  BY <1>1, <1>2, <1>3

LEMMA SettleKeepsCalling ==
  ASSUME Calling, NEW p \in Consumers, NEW outcome \in {"resolved", "rejected"},
         at[p] \in Awaits, Settle(p, outcome)
  PROVE  Calling'
<1> USE DEF Calling, Settle, GoTo
<1>1. CallTypes'
  <2>1. Cardinality(Consumers) \in Nat
    BY FiniteAssumption, FS_CardinalityType
  <2> QED
    BY <2>1 DEF CallTypes
<1>2. at'[p] = "over" /\ \A q \in Consumers \ {p} : at'[q] = at[q] /\ key'[q] = key[q]
  BY DEF CallTypes
<1>3. \A c \in Consumers : /\ entry[c] = p => entry'[c] = None
                           /\ entry[c] # p => entry'[c] = entry[c] /\ call'[c] = call[c]
  BY DEF WaitingFor
<1>4. "over" \notin Awaits /\ p # None
  BY NoneAssumption DEF Awaits
<1>5. ProducersAreKnown'
  <2>1. \A c \in Consumers : call'[c] = "waiting" <=> entry'[c] # None
    BY <1>3, <1>4 DEF ProducersAreKnown, WaitingFor
  <2>2. \A c \in Consumers : call'[c] = "none" => at'[c] = "unborn"
    <3>1. call[p] # "none"
      BY DEF ProducersAreKnown, Awaits
    <3> QED
      BY <1>2, <3>1 DEF ProducersAreKnown, WaitingFor
  <2>3. \A q \in Consumers : at'[q] \in Awaits => key'[q] \in Keys
    BY <1>2, <1>4 DEF ProducersAreKnown
  <2>4. \A q \in Consumers : at'[q] \notin Awaits => consumers'[q] = 0 /\ ~aborted'[q]
    BY <1>2 DEF ProducersAreKnown, CallTypes
  <2>5. \A k \in Keys : inflight'[k] # None =>
          at'[inflight'[k]] \in Awaits /\ key'[inflight'[k]] = k
    BY <1>2 DEF ProducersAreKnown, CallTypes
  <2> QED
    BY <2>1, <2>2, <2>3, <2>4, <2>5 DEF ProducersAreKnown
<1>6. SharedWhileWanted'
  <2>1. ASSUME NEW c \in Consumers, call'[c] = "waiting"
        PROVE  /\ at'[entry'[c]] \in Awaits
               /\ inflight'[key'[entry'[c]]] = entry'[c]
               /\ ~aborted'[entry'[c]]
    <3>1. entry[c] # p /\ entry'[c] = entry[c] /\ call[c] = "waiting"
      BY <1>3, <2>1 DEF WaitingFor
    <3>2. entry[c] \in Consumers \ {p}
      BY <3>1 DEF CallTypes, ProducersAreKnown
    <3>3. at[entry[c]] \in Awaits /\ inflight[key[entry[c]]] = entry[c] /\ ~aborted[entry[c]]
      BY <3>1 DEF SharedWhileWanted
    <3>4. key[entry[c]] \in Keys
      BY <3>2, <3>3 DEF ProducersAreKnown
    <3> QED
      BY <1>2, <3>1, <3>2, <3>3, <3>4 DEF CallTypes
  <2>2. ASSUME NEW q \in Consumers, at'[q] \in Awaits
        PROVE  /\ consumers'[q] = Cardinality(WaitingFor(q)')
               /\ aborted'[q] <=> WaitingFor(q)' = {}
    <3>1. q # p /\ at[q] \in Awaits
      BY <1>2, <1>4, <2>2
    <3>2. WaitingFor(q)' = WaitingFor(q)
      BY <1>3, <1>4, <3>1, NoneAssumption DEF WaitingFor
    <3>3. consumers'[q] = consumers[q] /\ aborted'[q] = aborted[q]
      BY <3>1 DEF CallTypes
    <3> QED
      BY <3>1, <3>2, <3>3 DEF SharedWhileWanted
  <2> QED
    BY <2>1, <2>2 DEF SharedWhileWanted
<1> QED
  BY <1>1, <1>5, <1>6

LEMMA LeaveKeepsCalling ==
  ASSUME Calling, NEW c \in Consumers, Leave(c)
  PROVE  Calling'
<1> USE DEF Calling, Leave
<1>0. PICK p \in Consumers : p = entry[c]
  BY DEF CallTypes, ProducersAreKnown
<1>1. at[p] \in Awaits /\ ~aborted[p] /\ inflight[key[p]] = p
  BY <1>0 DEF SharedWhileWanted
<1>2. /\ IsFiniteSet(WaitingFor(p)) /\ c \in WaitingFor(p)
      /\ consumers[p] = Cardinality(WaitingFor(p)) /\ consumers[p] \in Nat
  <2>1. WaitingFor(p) \in SUBSET Consumers /\ c \in WaitingFor(p)
    BY <1>0 DEF WaitingFor
  <2>2. consumers[p] = Cardinality(WaitingFor(p)) /\ consumers[p] \in Nat
    BY <1>1 DEF SharedWhileWanted, CallTypes
  <2> QED
    BY <2>1, <2>2, WaitersAreFinite
<1>3. WaitingFor(p)' = WaitingFor(p) \ {c}
  BY <1>0, NoneAssumption DEF WaitingFor, CallTypes
<1>4. \A q \in Consumers \ {p} : WaitingFor(q)' = WaitingFor(q)
  BY <1>0, NoneAssumption DEF WaitingFor, CallTypes
<1>5. Cardinality(WaitingFor(p)') = consumers[p] - 1
  BY <1>2, <1>3, FS_RemoveElement
<1>6. consumers[p] = 1 <=> WaitingFor(p)' = {}
  <2>1. IsFiniteSet(WaitingFor(p)')
    BY <1>2, <1>3, FS_RemoveElement
  <2>2. Cardinality(WaitingFor(p)') = 0 <=> WaitingFor(p)' = {}
    BY <2>1, FS_EmptySet
  <2> QED
    BY <1>2, <1>5, <2>2
<1>7. /\ consumers'[p] = consumers[p] - 1 /\ aborted'[p] = (consumers[p] = 1)
      /\ \A q \in Consumers \ {p} : consumers'[q] = consumers[q] /\ aborted'[q] = aborted[q]
  BY <1>0 DEF CallTypes
<1>8. CallTypes'
  <2>1. consumers[p] - 1 \in 0..Cardinality(Consumers)
    <3>1. Cardinality(WaitingFor(p)') \in 0..Cardinality(Consumers)
      BY WaitersAreFinite, <1>3 DEF WaitingFor
    <3> QED
      BY <1>5, <3>1
  <2>2. consumers' \in [Consumers -> 0..Cardinality(Consumers)]
    BY <1>0, <2>1 DEF CallTypes
  <2>3. call' \in [Consumers -> {"none", "waiting", "resolved", "rejected"}]
        /\ entry' \in [Consumers -> Consumers \cup {None}]
    BY DEF CallTypes
  <2>4. aborted' \in [Consumers -> BOOLEAN]
    BY <1>0 DEF CallTypes
  <2> QED
    BY <2>2, <2>3, <2>4 DEF CallTypes
<1>9. ProducersAreKnown'
  <2>1. \A d \in Consumers : call'[d] = "waiting" <=> entry'[d] # None
    BY DEF CallTypes, ProducersAreKnown
  <2>2. \A d \in Consumers : call'[d] = "none" => at'[d] = "unborn"
    BY DEF CallTypes, ProducersAreKnown
  <2>3. \A q \in Consumers : at'[q] \notin Awaits => consumers'[q] = 0 /\ ~aborted'[q]
    BY <1>1, <1>7 DEF ProducersAreKnown
  <2> QED
    BY <2>1, <2>2, <2>3 DEF ProducersAreKnown
<1>10. SharedWhileWanted'
  <2>1. ASSUME NEW d \in Consumers, call'[d] = "waiting"
        PROVE  /\ at'[entry'[d]] \in Awaits
               /\ inflight'[key'[entry'[d]]] = entry'[d]
               /\ ~aborted'[entry'[d]]
    <3>1. d # c /\ entry'[d] = entry[d] /\ call[d] = "waiting" /\ entry[d] \in Consumers
      BY <1>0, <2>1 DEF CallTypes, ProducersAreKnown
    <3>2. at[entry[d]] \in Awaits /\ inflight[key[entry[d]]] = entry[d] /\ ~aborted[entry[d]]
      BY <3>1 DEF SharedWhileWanted
    <3>3. ~aborted'[entry[d]]
      <4>1. CASE entry[d] = p
        <5>1. d \in WaitingFor(p)'
          BY <1>3, <3>1, <4>1 DEF WaitingFor
        <5> QED
          BY <1>6, <1>7, <4>1, <5>1
      <4>2. CASE entry[d] # p
        BY <1>7, <3>1, <3>2, <4>2
      <4> QED
        BY <4>1, <4>2
    <3> QED
      BY <3>1, <3>2, <3>3
  <2>2. ASSUME NEW q \in Consumers, at'[q] \in Awaits
        PROVE  /\ consumers'[q] = Cardinality(WaitingFor(q)')
               /\ aborted'[q] <=> WaitingFor(q)' = {}
    <3>1. CASE q = p
      BY <1>5, <1>6, <1>7, <3>1
    <3>2. CASE q # p
      BY <1>4, <1>7, <2>2, <3>2 DEF SharedWhileWanted
    <3> QED
      BY <3>1, <3>2
  <2> QED
    BY <2>1, <2>2 DEF SharedWhileWanted
<1> QED
  BY <1>8, <1>9, <1>10

LEMMA MaterializeKeepsCalling ==
  ASSUME Calling, NEW c \in Consumers, NEW k \in Keys, Materialize(c, k)
  PROVE  Calling'
<1> USE DEF Calling
<1>0. PICK p : p = IF Joins(k) THEN inflight[k] ELSE c
  OBVIOUS
<1>1. /\ call[c] = "none" /\ at[c] = "unborn" /\ entry[c] = None
      /\ consumers[c] = 0 /\ ~aborted[c]
  BY DEF Materialize, ProducersAreKnown, Awaits
<1>2. /\ call' = [call EXCEPT ![c] = "waiting"]
      /\ entry' = [entry EXCEPT ![c] = p]
      /\ consumers' = [consumers EXCEPT ![p] = @ + 1]
      /\ inflight' = [inflight EXCEPT ![k] = p]
      /\ key' = [key EXCEPT ![p] = k]
      /\ at' = IF p = c THEN [at EXCEPT ![c] = "stat"] ELSE at
      /\ aborted' = aborted
  BY <1>0 DEF Materialize
<1>3. /\ p \in Consumers
      /\ p # c => at[p] \in Awaits /\ key[p] = k /\ ~aborted[p] /\ inflight[k] = p
  BY <1>0 DEF Joins, CallTypes, ProducersAreKnown
<1>4. ~aborted[p]
  BY <1>1, <1>3
<1>5. /\ WaitingFor(p)' = WaitingFor(p) \cup {c} /\ c \notin WaitingFor(p)
      /\ \A q \in Consumers \ {p} : WaitingFor(q)' = WaitingFor(q)
  BY <1>1, <1>2, <1>3, NoneAssumption DEF WaitingFor, CallTypes
<1>6. consumers[p] = Cardinality(WaitingFor(p)) /\ IsFiniteSet(WaitingFor(p))
  <2>1. CASE p # c
    BY <1>3, <2>1, WaitersAreFinite DEF SharedWhileWanted, WaitingFor
  <2>2. CASE p = c
    <3>1. WaitingFor(p) = {}
      <4> SUFFICES ASSUME NEW d \in Consumers, entry[d] = c PROVE FALSE
        BY <2>2 DEF WaitingFor
      <4>1. call[d] = "waiting"
        BY NoneAssumption DEF ProducersAreKnown
      <4> QED
        BY <1>1, <4>1 DEF SharedWhileWanted, Awaits
    <3> QED
      BY <1>1, <2>2, <3>1, FS_EmptySet
  <2> QED
    BY <2>1, <2>2
<1>7. consumers'[p] = Cardinality(WaitingFor(p)')
  <2>1. consumers'[p] = consumers[p] + 1
    BY <1>2, <1>3 DEF CallTypes
  <2> QED
    BY <1>5, <1>6, <2>1, FS_AddElement
<1>8. /\ at'[p] \in Awaits /\ key'[p] = k /\ inflight'[k] = p
      /\ \A q \in Consumers \ {p} : at'[q] = at[q] /\ key'[q] = key[q]
                                    /\ consumers'[q] = consumers[q]
      /\ \A l \in Keys \ {k} : inflight'[l] = inflight[l]
  BY <1>2, <1>3 DEF CallTypes, Awaits
<1>9. CallTypes'
  <2>1. consumers'[p] \in 0..Cardinality(Consumers)
    <3>1. WaitingFor(p)' \in SUBSET Consumers
      BY DEF WaitingFor
    <3> QED
      BY <1>7, <3>1, WaitersAreFinite
  <2>2. consumers' \in [Consumers -> 0..Cardinality(Consumers)]
    BY <1>2, <1>3, <2>1 DEF CallTypes
  <2> QED
    BY <1>2, <1>3, <2>2 DEF CallTypes, Awaits
<1>10. ProducersAreKnown'
  <2>1. \A d \in Consumers : call'[d] = "waiting" <=> entry'[d] # None
    BY <1>2, <1>3, NoneAssumption DEF CallTypes, ProducersAreKnown
  <2>2. \A d \in Consumers : call'[d] = "none" => at'[d] = "unborn"
    BY <1>2 DEF CallTypes, ProducersAreKnown
  <2>3. \A q \in Consumers : at'[q] \in Awaits => key'[q] \in Keys
    BY <1>3, <1>8 DEF ProducersAreKnown
  <2>4. \A q \in Consumers : at'[q] \notin Awaits => consumers'[q] = 0 /\ ~aborted'[q]
    BY <1>2, <1>8 DEF ProducersAreKnown
  <2>5. \A l \in Keys : inflight'[l] # None =>
          at'[inflight'[l]] \in Awaits /\ key'[inflight'[l]] = l
    <3> SUFFICES ASSUME NEW l \in Keys, inflight'[l] # None
                 PROVE  at'[inflight'[l]] \in Awaits /\ key'[inflight'[l]] = l
      OBVIOUS
    <3>1. CASE l = k
      BY <1>8, <3>1
    <3>2. CASE l # k
      <4>1. inflight'[l] = inflight[l] /\ inflight[l] \in Consumers
            /\ at[inflight[l]] \in Awaits /\ key[inflight[l]] = l
        BY <1>8, <3>2 DEF CallTypes, ProducersAreKnown
      <4>2. inflight[l] # p
        BY <1>1, <1>3, <3>2, <4>1 DEF Awaits
      <4> QED
        BY <1>8, <4>1, <4>2
    <3> QED
      BY <3>1, <3>2
  <2> QED
    BY <2>1, <2>2, <2>3, <2>4, <2>5 DEF ProducersAreKnown
<1>11. SharedWhileWanted'
  <2>1. ASSUME NEW d \in Consumers, call'[d] = "waiting"
        PROVE  /\ at'[entry'[d]] \in Awaits
               /\ inflight'[key'[entry'[d]]] = entry'[d]
               /\ ~aborted'[entry'[d]]
    <3>1. CASE entry'[d] = p
      BY <1>2, <1>4, <1>8, <3>1
    <3>2. CASE entry'[d] # p
      <4>1. d # c /\ entry'[d] = entry[d] /\ call[d] = "waiting" /\ entry[d] \in Consumers \ {p}
        BY <1>2, <2>1, <3>2 DEF CallTypes, ProducersAreKnown
      <4>2. at[entry[d]] \in Awaits /\ inflight[key[entry[d]]] = entry[d] /\ ~aborted[entry[d]]
        BY <4>1 DEF SharedWhileWanted
      <4>3. key[entry[d]] \in Keys
        BY <4>1, <4>2 DEF ProducersAreKnown
      <4>4. key[entry[d]] # k
        <5> SUFFICES ASSUME inflight[k] = entry[d] PROVE FALSE
          BY <4>2
        <5>1. Joins(k)
          BY <4>1, <4>2, NoneAssumption DEF Joins
        <5> QED
          BY <1>0, <4>1, <5>1
      <4> QED
        BY <1>2, <1>8, <4>1, <4>2, <4>3, <4>4
    <3> QED
      BY <3>1, <3>2
  <2>2. ASSUME NEW q \in Consumers, at'[q] \in Awaits
        PROVE  /\ consumers'[q] = Cardinality(WaitingFor(q)')
               /\ aborted'[q] <=> WaitingFor(q)' = {}
    <3>1. CASE q = p
      BY <1>2, <1>4, <1>5, <1>7, <3>1
    <3>2. CASE q # p
      BY <1>2, <1>5, <1>8, <2>2, <3>2 DEF SharedWhileWanted
    <3> QED
      BY <3>1, <3>2
  <2> QED
    BY <2>1, <2>2 DEF SharedWhileWanted
<1> QED
  BY <1>9, <1>10, <1>11

-----------------------------------------------------------------------------
(* Files and evictions                                                     *)

\* Sizes and limits are numbers.
LEMMA SizesAreNumbers ==
  ASSUME FileTypes
  PROVE  /\ size \in [Keys -> Nat] /\ partial \in [Consumers -> Nat]
         /\ peak \in Nat /\ maxBytes \in Nat
         /\ \A k \in Keys : size[k] <= peak
<1>1. Sizes \cup {0} \subseteq Nat /\ Limits \subseteq Nat
  BY SizesAssumption, LimitsAssumption
<1> QED
  BY <1>1 DEF FileTypes

LEMMA StutterKeepsStoring ==
  ASSUME Storing, UNCHANGED <<at, partial, fails, eviction, size, limits>>
  PROVE  Storing'
<1> USE DEF Storing, eviction, limits
<1>1. FileTypes'
  BY DEF FileTypes
<1>2. PartialStage'
  BY DEF PartialStage
<1>3. DirectoryIsCounted'
  <2>1. \A p \in Consumers : Counts(p)' = Counts(p)
    BY DEF Counts
  <2> QED
    BY <2>1 DEF DirectoryIsCounted
<1> QED
  BY <1>1, <1>2, <1>3

\* A step of one producer, or of none, that leaves the files and the evictions as
\* they are.
LEMMA OtherStepsKeepStoring ==
  ASSUME CallTypes, Storing, UNCHANGED <<partial, eviction, size, limits>>,
         fails' \in [Consumers -> BOOLEAN],
         NEW p \in Consumers, at[p] \in {"unborn", "stat", "utimes", "write"},
         \A q \in Consumers \ {p} : at'[q] = at[q],
         at'[p] \in {"unborn", "stat", "utimes", "write", "over"}
  PROVE  Storing'
<1> USE DEF Storing, eviction, limits
<1>1. FileTypes'
  BY DEF FileTypes
<1>2. PartialStage'
  BY DEF PartialStage
<1>3. DirectoryIsCounted'
  <2>1. \A q \in Consumers : at[q] \in {"readdir", "survey", "rm"} => at'[q] = at[q]
    OBVIOUS
  <2>2. \A q \in Consumers : Counts(q)' = Counts(q)
    BY DEF Counts
  <2> QED
    BY <2>1, <2>2 DEF DirectoryIsCounted
<1> QED
  BY <1>1, <1>2, <1>3

\* The same when a producer is past its temporary file.
LEMMA LateStepsKeepStoring ==
  ASSUME CallTypes, Storing, UNCHANGED <<unseen, seen, victim, broken, size, limits>>,
         fails' \in [Consumers -> BOOLEAN],
         NEW p \in Consumers, at[p] \in {"write", "measure", "rename", "cleanup"},
         \A q \in Consumers \ {p} : at'[q] = at[q] /\ partial'[q] = partial[q],
         partial' \in [Consumers -> {0} \cup Sizes],
         \/ at'[p] = "measure" /\ partial'[p] \in Sizes
         \/ at'[p] = "rename" /\ partial'[p] \in Sizes /\ partial'[p] <= peak
         \/ at'[p] = "cleanup"
         \/ at'[p] = "over" /\ partial'[p] = 0
  PROVE  Storing'
<1> USE DEF Storing, limits
<1>1. FileTypes'
  BY DEF FileTypes
<1>2. PartialStage'
  BY DEF PartialStage
<1>3. DirectoryIsCounted'
  <2>1. \A q \in Consumers : at[q] \in {"readdir", "survey", "rm"} => at'[q] = at[q]
    OBVIOUS
  <2>2. \A q \in Consumers : Counts(q)' = Counts(q)
    BY DEF Counts
  <2> QED
    BY <2>1, <2>2 DEF DirectoryIsCounted
<1> QED
  BY <1>1, <1>2, <1>3

\* A step that breaks a producer: what the directory holds is not bounded any more.
LEMMA BrokenStepsKeepStoring ==
  ASSUME CallTypes, FileTypes', PartialStage', broken' # {}
  PROVE  Storing'
BY DEF Storing, DirectoryIsCounted

LEMMA EvictionFailureKeepsStoring ==
  ASSUME CallTypes, Storing, NEW p \in Consumers, EvictionFails(p),
         UNCHANGED <<partial, size, limits>>, at[p] \in {"readdir", "survey", "rm"}
  PROVE  Storing'
<1> USE DEF Storing, EvictionFails, Throw, GoTo, limits
<1>1. /\ at'[p] = "cleanup" /\ \A q \in Consumers \ {p} : at'[q] = at[q]
      /\ \A q \in Consumers \ {p} : unseen'[q] = unseen[q]
  BY DEF CallTypes, FileTypes
<1>2. FileTypes'
  <2>1. seen' \in [Consumers -> SUBSET [key : Keys, size : Sizes]]
    BY DEF FileTypes
  <2>2. \A q \in Consumers : IsFiniteSet(seen'[q])
    BY FS_EmptySet DEF FileTypes
  <2>3. unseen' \in [Consumers -> SUBSET Keys] /\ victim' \in [Consumers -> Keys \cup {None}]
    BY DEF FileTypes
  <2>4. fails' \in [Consumers -> BOOLEAN]
    BY DEF FileTypes
  <2>5. broken' \in SUBSET Consumers
    BY DEF FileTypes
  <2> QED
    BY <2>1, <2>2, <2>3, <2>4, <2>5 DEF FileTypes
<1>3. PartialStage'
  BY <1>1 DEF PartialStage
<1>4. broken' # {}
  OBVIOUS
<1> QED
  BY <1>2, <1>3, <1>4, BrokenStepsKeepStoring

\* The loop of an eviction goes on with files that count the whole directory, as far
\* as it counted before: when it stops, they are within the limit.
LEMMA ContinueKeepsStoring ==
  ASSUME CallTypes, Storing, NEW p \in Consumers,
         at[p] \in {"readdir", "survey", "rm"}, key[p] \in Keys,
         NEW files \in SUBSET [key : Keys, size : Sizes], IsFiniteSet(files),
         Continue(p, files),
         UNCHANGED <<partial, fails, broken, limits>>,
         unseen' = [unseen EXCEPT ![p] = {}],
         size' \in [Keys -> {s \in {0} \cup Sizes : s <= peak}],
         \A k \in Keys : size'[k] = size[k] \/ size'[k] = 0,
         (at[p] = "readdir" \/ Counts(p)) =>
           \A k \in Keys : size'[k] > 0 => \E f \in files : f.key = k /\ size'[k] <= f.size
  PROVE  Storing'
<1> USE DEF Storing, limits
<1>1. /\ at' = [at EXCEPT ![p] = "rm"] \/ at' = [at EXCEPT ![p] = "cleanup"]
      /\ seen' = [seen EXCEPT ![p] = files] \/ seen' = [seen EXCEPT ![p] = {}]
      /\ victim' \in [Consumers -> Keys \cup {None}]
  <2>1. \A f \in Others(p, files) : f.key \in Keys
    BY DEF Others
  <2> QED
    BY <2>1 DEF Continue, GoTo, FileTypes
<1>2. /\ at'[p] \in {"rm", "cleanup"} /\ unseen'[p] = {}
      /\ \A q \in Consumers \ {p} :
           at'[q] = at[q] /\ unseen'[q] = unseen[q] /\ seen'[q] = seen[q]
  BY <1>1 DEF CallTypes, FileTypes
<1>3. FileTypes'
  <2>1. seen' \in [Consumers -> SUBSET [key : Keys, size : Sizes]]
    BY <1>1 DEF FileTypes
  <2>2. \A q \in Consumers : IsFiniteSet(seen'[q])
    BY <1>1, FS_EmptySet DEF FileTypes
  <2>3. unseen' \in [Consumers -> SUBSET Keys]
    BY DEF FileTypes
  <2> QED
    BY <1>1, <2>1, <2>2, <2>3 DEF FileTypes
<1>4. PartialStage'
  BY <1>2 DEF PartialStage
<1>5. size \in [Keys -> Nat] /\ size' \in [Keys -> Nat] /\ peak \in Nat /\ maxBytes \in Nat
  BY <1>3, SizesAreNumbers, SizesAssumption, LimitsAssumption DEF FileTypes
<1>6. DirectoryIsCounted'
  <2> SUFFICES ASSUME broken = {}
               PROVE  \/ Used(size') <= peak
                      \/ \E q \in Consumers : at'[q] = "readdir" \/
                           (at'[q] \in {"survey", "rm"} /\ Counts(q)')
    BY DEF DirectoryIsCounted
  <2>1. CASE Used(size) <= peak
    <3>1. Used(size') <= Used(size) /\ Used(size) \in Nat /\ Used(size') \in Nat
      BY <1>5, FiniteAssumption, UsedGrows, UsedBounds
    <3> QED
      BY <1>5, <2>1, <3>1
  <2>2. ASSUME NEW q \in Consumers \ {p},
               at[q] = "readdir" \/ (at[q] \in {"survey", "rm"} /\ Counts(q))
        PROVE  at'[q] = "readdir" \/ (at'[q] \in {"survey", "rm"} /\ Counts(q)')
    BY <1>2, <1>5, <2>2 DEF Counts
  <2>3. CASE at[p] = "readdir" \/ Counts(p)
    <3>1. \A k \in Keys : size'[k] > 0 => \E f \in files : f.key = k /\ size'[k] <= f.size
      BY <2>3
    <3>2. CASE at' = [at EXCEPT ![p] = "rm"] /\ seen' = [seen EXCEPT ![p] = files]
      <4>1. at'[p] = "rm" /\ seen'[p] = files
        BY <3>2 DEF CallTypes, FileTypes
      <4>2. Counts(p)'
        BY <3>1, <4>1 DEF Counts
      <4> QED
        BY <4>1, <4>2
    <3>3. CASE Total(p, files) <= maxBytes
      <4>1. files \in SUBSET [key : Keys, size : Nat]
        BY SizesAssumption
      <4>2. Used(size') <= Total(p, files) /\ Total(p, files) \in Nat
        BY <1>5, <3>1, <4>1, FiniteAssumption, UsedIsCounted
      <4>3. Used(size') \in Nat
        BY <1>5, FiniteAssumption, UsedBounds
      <4> QED
        BY <1>5, <3>3, <4>2, <4>3 DEF FileTypes
    <3>4. CASE Others(p, files) = {}
      <4>1. \A k \in Keys : size'[k] > 0 => k = key[p]
        BY <3>1, <3>4 DEF Others
      <4>2. \A l \in Keys : l # key[p] => size'[l] = 0
        BY <1>5, <4>1
      <4>3. Used(size') <= size'[key[p]] /\ Used(size') \in Nat
        BY <1>5, <4>2, FiniteAssumption, UsedBounds
      <4>4. size'[key[p]] <= peak /\ size'[key[p]] \in Nat
        BY <1>5
      <4> QED
        BY <1>5, <4>3, <4>4
    <3> QED
      BY <3>2, <3>3, <3>4 DEF Continue, GoTo
  <2> QED
    BY <2>1, <2>2, <2>3 DEF DirectoryIsCounted
<1> QED
  BY <1>3, <1>4, <1>6

-----------------------------------------------------------------------------
(* One lemma for each action                                               *)

LEMMA KeepsMaterialize ==
  ASSUME IInv, NEW c \in Consumers, NEW k \in Keys, Materialize(c, k)
  PROVE  IInv'
<1>1. Calling'
  BY MaterializeKeepsCalling DEF IInv
<1>2. Storing'
  <2>1. at[c] = "unborn"
    BY DEF IInv, Calling, ProducersAreKnown, Materialize
  <2>2. at'[c] \in {"unborn", "stat"} /\ \A q \in Consumers \ {c} : at'[q] = at[q]
    BY <2>1 DEF IInv, Calling, CallTypes, Materialize
  <2>3. UNCHANGED <<partial, eviction, size, limits>> /\ fails' \in [Consumers -> BOOLEAN]
    BY DEF IInv, Storing, FileTypes, Materialize
  <2> QED
    BY <2>1, <2>2, <2>3, OtherStepsKeepStoring DEF IInv, Calling
<1> QED
  BY <1>1, <1>2 DEF IInv

LEMMA KeepsLeave ==
  ASSUME IInv, NEW c \in Consumers, Leave(c)
  PROVE  IInv'
<1>1. Calling'
  BY LeaveKeepsCalling DEF IInv
<1>2. Storing'
  BY StutterKeepsStoring DEF Leave, IInv
<1> QED
  BY <1>1, <1>2 DEF IInv

\* A producer looks, or touches its hit: it moves on or settles, and the directory
\* is not written.
LEMMA KeepsLookAndHit ==
  ASSUME IInv, NEW p \in Consumers, Look(p) \/ Hit(p)
  PROVE  IInv'
<1>1. at[p] \in {"stat", "utimes"} /\ UNCHANGED <<partial, fails, eviction, size, limits>>
  BY DEF Look, Hit
<1>2. \/ /\ UNCHANGED calls
         /\ GoTo(p, "utimes") \/ GoTo(p, "write")
      \/ Settle(p, "resolved") \/ Settle(p, "rejected")
  BY DEF Look, Hit
<1>3. at[p] \in Awaits /\ {"utimes", "write"} \subseteq Awaits
  BY <1>1 DEF Awaits
<1>4. Calling'
  BY <1>2, <1>3, MoveKeepsCalling, SettleKeepsCalling DEF IInv
<1>5. /\ at'[p] \in {"utimes", "write", "over"}
      /\ \A q \in Consumers \ {p} : at'[q] = at[q]
  BY <1>2 DEF Settle, GoTo, IInv, Calling, CallTypes
<1>6. Storing'
  <2>1. fails' \in [Consumers -> BOOLEAN]
    BY <1>1 DEF IInv, Storing, FileTypes
  <2> QED
    BY <1>1, <1>5, <2>1, OtherStepsKeepStoring DEF IInv, Calling
<1> QED
  BY <1>4, <1>6 DEF IInv

\* The caller writes, the file is measured: it is published only within the limit.
LEMMA KeepsWriteAndMeasure ==
  ASSUME IInv, NEW p \in Consumers, Write(p) \/ Measure(p)
  PROVE  IInv'
<1>1. at[p] \in {"write", "measure"} /\ UNCHANGED <<calls, eviction, size, limits>>
  BY DEF Write, Measure
<1>2. GoTo(p, "measure") \/ GoTo(p, "rename") \/ GoTo(p, "cleanup")
  BY DEF Write, Measure, Throw
<1>3. at[p] \in Awaits /\ {"measure", "rename", "cleanup"} \subseteq Awaits
  BY <1>1 DEF Awaits
<1>4. Calling'
  BY <1>1, <1>2, <1>3, MoveKeepsCalling DEF IInv
<1>5. Storing'
  <2>1. fails' \in [Consumers -> BOOLEAN]
    BY DEF Write, Measure, Throw, IInv, Storing, FileTypes
  <2>2. \A q \in Consumers \ {p} : at'[q] = at[q] /\ partial'[q] = partial[q]
    BY <1>2 DEF Write, Measure, GoTo, IInv, Storing, FileTypes, Calling, CallTypes
  <2>3. partial' \in [Consumers -> {0} \cup Sizes]
    BY DEF Write, Measure, IInv, Storing, FileTypes
  <2>4. \/ at'[p] = "measure" /\ partial'[p] \in Sizes
        \/ at'[p] = "rename" /\ partial'[p] \in Sizes /\ partial'[p] <= peak
        \/ at'[p] = "cleanup"
    <3>1. CASE Write(p)
      BY <3>1 DEF Write, Throw, GoTo, IInv, Storing, FileTypes, Calling, CallTypes
    <3>2. CASE Measure(p)
      <4>1. partial[p] \in Sizes /\ partial[p] \in Nat /\ maxBytes <= peak
            /\ maxBytes \in Nat /\ peak \in Nat
        BY <3>2, SizesAreNumbers DEF Measure, IInv, Storing, PartialStage, FileTypes
      <4> QED
        BY <3>2, <4>1 DEF Measure, Throw, GoTo, IInv, Calling, CallTypes
    <3> QED
      BY <3>1, <3>2
  <2> QED
    BY <1>1, <2>1, <2>2, <2>3, <2>4, LateStepsKeepStoring
    DEF IInv, Calling, eviction
<1> QED
  BY <1>4, <1>5 DEF IInv

\* The file is published, no larger than the limit, and its eviction follows.
LEMMA KeepsPublish ==
  ASSUME IInv, NEW p \in Consumers, Publish(p)
  PROVE  IInv'
<1>1. at[p] = "rename" /\ UNCHANGED <<calls, eviction, limits>>
  BY DEF Publish
<1>2. at[p] \in Awaits /\ {"readdir", "cleanup"} \subseteq Awaits
  BY <1>1 DEF Awaits
<1>3. Calling'
  BY <1>1, <1>2, MoveKeepsCalling DEF IInv, Publish, Throw
<1>4. CASE Throw(p) /\ UNCHANGED <<size, partial>>
  <2>1. fails' \in [Consumers -> BOOLEAN] /\ partial' \in [Consumers -> {0} \cup Sizes]
    BY <1>4 DEF Throw, IInv, Storing, FileTypes
  <2>2. /\ at'[p] = "cleanup"
        /\ \A q \in Consumers \ {p} : at'[q] = at[q] /\ partial'[q] = partial[q]
    BY <1>4 DEF Throw, GoTo, IInv, Calling, CallTypes
  <2>3. Storing'
    BY <1>1, <1>4, <2>1, <2>2, LateStepsKeepStoring DEF IInv, Calling, eviction
  <2> QED
    BY <1>3, <2>3 DEF IInv
<1>5. CASE /\ size' = [size EXCEPT ![key[p]] = partial[p]]
           /\ partial' = [partial EXCEPT ![p] = 0]
           /\ GoTo(p, "readdir")
           /\ UNCHANGED fails
  <2>1. partial[p] \in Sizes /\ partial[p] <= peak
    BY <1>1 DEF IInv, Storing, PartialStage
  <2>2. /\ at'[p] = "readdir" /\ partial'[p] = 0
        /\ \A q \in Consumers \ {p} : at'[q] = at[q] /\ partial'[q] = partial[q]
    BY <1>5 DEF GoTo, IInv, Calling, CallTypes, Storing, FileTypes
  <2>3. FileTypes'
    BY <1>1, <1>5, <2>1 DEF IInv, Storing, FileTypes, eviction, limits
  <2>4. PartialStage'
    BY <1>1, <2>2 DEF IInv, Storing, PartialStage, eviction, limits
  <2>5. DirectoryIsCounted'
    BY <2>2 DEF DirectoryIsCounted
  <2> QED
    BY <1>3, <2>3, <2>4, <2>5 DEF IInv, Storing
<1> QED
  BY <1>4, <1>5 DEF Publish

LEMMA KeepsCleanup ==
  ASSUME IInv, NEW p \in Consumers, Cleanup(p)
  PROVE  IInv'
<1>1. at[p] = "cleanup" /\ at[p] \in Awaits
  BY DEF Cleanup, Awaits
<1>2. Settle(p, "resolved") \/ Settle(p, "rejected")
  BY DEF Cleanup
<1>3. Calling'
  BY <1>1, <1>2, SettleKeepsCalling DEF IInv
<1>4. at'[p] = "over" /\ \A q \in Consumers \ {p} : at'[q] = at[q]
  BY <1>2 DEF Settle, GoTo, IInv, Calling, CallTypes
<1>5. fails' \in [Consumers -> BOOLEAN] /\ UNCHANGED <<unseen, seen, victim, size, limits>>
  BY DEF Cleanup, IInv, Storing, FileTypes
<1>6. CASE partial' = [partial EXCEPT ![p] = 0] /\ UNCHANGED broken
  <2>1. /\ partial' \in [Consumers -> {0} \cup Sizes] /\ partial'[p] = 0
        /\ \A q \in Consumers \ {p} : partial'[q] = partial[q]
    BY <1>6 DEF IInv, Storing, FileTypes
  <2>2. Storing'
    BY <1>1, <1>4, <1>5, <1>6, <2>1, LateStepsKeepStoring DEF IInv, Calling
  <2> QED
    BY <1>3, <2>2 DEF IInv
<1>7. CASE broken' = broken \cup {p} /\ UNCHANGED partial
  <2>1. FileTypes'
    BY <1>5, <1>7 DEF IInv, Storing, FileTypes, limits
  <2>2. PartialStage'
    BY <1>4, <1>5, <1>7 DEF IInv, Storing, PartialStage, limits
  <2>3. Storing'
    BY <1>7, <2>1, <2>2, BrokenStepsKeepStoring DEF IInv, Calling
  <2> QED
    BY <1>3, <2>3 DEF IInv
<1> QED
  BY <1>6, <1>7 DEF Cleanup

-----------------------------------------------------------------------------
(* The steps of an eviction                                                *)

\* An await of an eviction: the calls see nothing of it.
LEMMA EvictionKeepsCalling ==
  ASSUME Calling, UNCHANGED calls, NEW p \in Consumers,
         at[p] \in {"readdir", "survey", "rm"},
         at' = at \/ \E next \in {"survey", "rm", "cleanup"} : GoTo(p, next)
  PROVE  Calling'
<1>1. at[p] \in Awaits /\ {"survey", "rm", "cleanup"} \subseteq Awaits
  BY DEF Awaits
<1>2. CASE at' = at
  BY <1>2, StutterKeepsCalling
<1>3. ASSUME NEW next \in {"survey", "rm", "cleanup"}, GoTo(p, next)
      PROVE  Calling'
  BY <1>1, <1>3, MoveKeepsCalling
<1> QED
  BY <1>2, <1>3

LEMMA KeepsReadDirectory ==
  ASSUME IInv, NEW p \in Consumers, ReadDirectory(p)
  PROVE  IInv'
<1>1. at[p] = "readdir" /\ UNCHANGED <<calls, partial, size, limits>>
  BY DEF ReadDirectory
<1>2. Calling'
  BY <1>1, EvictionKeepsCalling
  DEF IInv, ReadDirectory, EvictionFails, Throw, Continue
<1>3. key[p] \in Keys
  BY <1>1 DEF IInv, Calling, ProducersAreKnown, Awaits
<1> DEFINE names == {k \in Keys : size[k] > 0}
<1>4. CASE EvictionFails(p)
  BY <1>1, <1>2, <1>4, EvictionFailureKeepsStoring DEF IInv, Calling
<1>5. CASE /\ unseen' = [unseen EXCEPT ![p] = names] /\ names = {}
           /\ Continue(p, {}) /\ UNCHANGED <<fails, broken>>
  <2>1. size \in [Keys -> Nat] /\ size' \in [Keys -> {s \in {0} \cup Sizes : s <= peak}]
    BY <1>1, SizesAreNumbers DEF IInv, Storing, FileTypes
  <2>2. \A k \in Keys : ~(size'[k] > 0)
    BY <1>1, <1>5
  <2>3. IsFiniteSet({}) /\ {} \in SUBSET [key : Keys, size : Sizes]
    BY FS_EmptySet
  <2>4. Storing'
    BY <1>1, <1>3, <1>5, <2>1, <2>2, <2>3, ContinueKeepsStoring DEF IInv, Calling
  <2> QED
    BY <1>2, <2>4 DEF IInv
<1>6. CASE /\ unseen' = [unseen EXCEPT ![p] = names] /\ GoTo(p, "survey")
           /\ UNCHANGED <<seen, victim, fails, broken>>
  <2>1. /\ at'[p] = "survey" /\ unseen'[p] = names
        /\ \A q \in Consumers \ {p} : at'[q] = at[q] /\ unseen'[q] = unseen[q]
    BY <1>6 DEF GoTo, IInv, Calling, CallTypes, Storing, FileTypes
  <2>2. FileTypes'
    BY <1>1, <1>6 DEF IInv, Storing, FileTypes, limits
  <2>3. PartialStage'
    BY <1>1, <1>6, <2>1 DEF IInv, Storing, PartialStage, limits
  <2>4. Counts(p)'
    BY <1>1, <2>1 DEF Counts
  <2>5. DirectoryIsCounted'
    BY <2>1, <2>4 DEF DirectoryIsCounted
  <2> QED
    BY <1>2, <2>2, <2>3, <2>5 DEF IInv, Storing
<1> QED
  BY <1>4, <1>5, <1>6 DEF ReadDirectory, IInv, Storing, FileTypes

LEMMA KeepsSurvey ==
  ASSUME IInv, NEW p \in Consumers, Survey(p)
  PROVE  IInv'
<1>1. at[p] = "survey" /\ UNCHANGED <<calls, partial, size, limits>>
  BY DEF Survey
<1>2. Calling'
  BY <1>1, EvictionKeepsCalling DEF IInv, Survey, EvictionFails, Throw, Continue
<1>3. key[p] \in Keys
  BY <1>1 DEF IInv, Calling, ProducersAreKnown, Awaits
<1>4. CASE EvictionFails(p)
  BY <1>1, <1>2, <1>4, EvictionFailureKeepsStoring DEF IInv, Calling
<1>5. CASE ~EvictionFails(p)
  <2>1. PICK k \in unseen[p] :
          LET files == seen[p] \cup {f \in {[key |-> k, size |-> size[k]]} : f.size > 0}
          IN  /\ unseen' = [unseen EXCEPT ![p] = @ \ {k}]
              /\ IF unseen'[p] = {} THEN Continue(p, files)
                 ELSE seen' = [seen EXCEPT ![p] = files] /\ UNCHANGED <<at, victim>>
              /\ UNCHANGED <<fails, broken>>
    BY <1>5 DEF Survey
  <2> DEFINE files == seen[p] \cup {f \in {[key |-> k, size |-> size[k]]} : f.size > 0}
  <2>2. /\ k \in Keys /\ size \in [Keys -> Nat] /\ size[k] \in Sizes \cup {0}
        /\ seen[p] \in SUBSET [key : Keys, size : Sizes] /\ IsFiniteSet(seen[p])
        /\ unseen \in [Consumers -> SUBSET Keys]
        /\ seen \in [Consumers -> SUBSET [key : Keys, size : Sizes]]
    BY SizesAreNumbers DEF IInv, Storing, FileTypes
  <2>3. files \in SUBSET [key : Keys, size : Sizes] /\ IsFiniteSet(files)
    <3>1. CASE size[k] > 0
      <4>1. files = seen[p] \cup {[key |-> k, size |-> size[k]]}
        BY <3>1
      <4>2. [key |-> k, size |-> size[k]] \in [key : Keys, size : Sizes]
        BY <2>2, <3>1
      <4> QED
        BY <2>2, <4>1, <4>2, FS_AddElement
    <3>2. CASE ~(size[k] > 0)
      <4>1. files = seen[p]
        BY <3>2
      <4> QED
        BY <2>2, <4>1
    <3> QED
      BY <3>1, <3>2
  <2>4. Counts(p) => \A l \in Keys : size[l] > 0 =>
          l \in unseen[p] \ {k} \/ \E f \in files : f.key = l /\ size[l] <= f.size
    <3> SUFFICES ASSUME Counts(p), NEW l \in Keys, size[l] > 0, l \notin unseen[p] \ {k}
                 PROVE  \E f \in files : f.key = l /\ size[l] <= f.size
      OBVIOUS
    <3>1. CASE l = k
      <4> DEFINE f == [key |-> k, size |-> size[k]]
      <4>1. f \in files /\ f.key = l /\ f.size = size[l]
        BY <3>1
      <4>2. size[l] <= size[l]
        BY <2>2
      <4> QED
        BY <4>1, <4>2
    <3>2. CASE l # k
      BY <3>2 DEF Counts
    <3> QED
      BY <3>1, <3>2
  <2>5. /\ unseen'[p] = unseen[p] \ {k}
        /\ \A q \in Consumers \ {p} : unseen'[q] = unseen[q]
        /\ unseen' \in [Consumers -> SUBSET Keys]
    BY <2>1, <2>2
  <2>6. CASE unseen'[p] = {} /\ Continue(p, files)
    <3> HIDE DEF files
    <3>1. unseen' = [unseen EXCEPT ![p] = {}]
      BY <2>1, <2>5, <2>6
    <3>2. size' = size /\ size' \in [Keys -> {s \in {0} \cup Sizes : s <= peak}]
      BY <1>1 DEF IInv, Storing, FileTypes
    <3>3. (at[p] = "readdir" \/ Counts(p)) =>
            \A l \in Keys : size'[l] > 0 => \E f \in files : f.key = l /\ size'[l] <= f.size
      BY <1>1, <2>4, <2>5, <2>6, <3>2
    <3>4. UNCHANGED <<partial, fails, broken, limits>>
      BY <1>1, <2>1
    <3>5. Storing'
      BY <1>1, <1>3, <2>3, <2>6, <3>1, <3>2, <3>3, <3>4, ContinueKeepsStoring
      DEF IInv, Calling
    <3> QED
      BY <1>2, <3>5 DEF IInv
  <2>7. CASE seen' = [seen EXCEPT ![p] = files] /\ UNCHANGED <<at, victim>>
    <3> HIDE DEF files
    <3>1. seen'[p] = files /\ \A q \in Consumers \ {p} : seen'[q] = seen[q]
      BY <2>2, <2>7
    <3>2. FileTypes'
      <4>1. seen' \in [Consumers -> SUBSET [key : Keys, size : Sizes]]
        BY <2>2, <2>3, <2>7
      <4>2. \A q \in Consumers : IsFiniteSet(seen'[q])
        BY <2>3, <3>1 DEF IInv, Storing, FileTypes
      <4> QED
        BY <1>1, <2>1, <2>5, <2>7, <4>1, <4>2 DEF IInv, Storing, FileTypes, limits
    <3>3. PartialStage'
      BY <1>1, <2>1, <2>5, <2>7 DEF IInv, Storing, PartialStage, limits
    <3>4. \A q \in Consumers : Counts(q) => Counts(q)'
      BY <1>1, <2>4, <2>5, <3>1 DEF Counts
    <3>5. DirectoryIsCounted'
      BY <1>1, <2>1, <2>7, <3>4 DEF IInv, Storing, DirectoryIsCounted, limits
    <3> QED
      BY <1>2, <3>2, <3>3, <3>5 DEF IInv, Storing
  <2> QED
    BY <2>1, <2>6, <2>7
<1> QED
  BY <1>4, <1>5

LEMMA KeepsEvict ==
  ASSUME IInv, NEW p \in Consumers, Evict(p)
  PROVE  IInv'
<1>1. at[p] = "rm" /\ UNCHANGED <<calls, partial, limits>>
  BY DEF Evict
<1>2. Calling'
  BY <1>1, EvictionKeepsCalling DEF IInv, Evict, EvictionFails, Throw, Continue
<1>3. key[p] \in Keys
  BY <1>1 DEF IInv, Calling, ProducersAreKnown, Awaits
<1>4. CASE EvictionFails(p) /\ UNCHANGED size
  BY <1>1, <1>2, <1>4, EvictionFailureKeepsStoring DEF IInv, Calling
<1> DEFINE files == {f \in seen[p] : f.key # victim[p]}
<1>5. CASE /\ size' = [size EXCEPT ![victim[p]] = 0] /\ Continue(p, files)
           /\ UNCHANGED <<fails, unseen, broken>>
  <2>1. /\ seen[p] \in SUBSET [key : Keys, size : Sizes] /\ IsFiniteSet(seen[p])
        /\ size \in [Keys -> {s \in {0} \cup Sizes : s <= peak}] /\ size \in [Keys -> Nat]
        /\ unseen \in [Consumers -> SUBSET Keys] /\ unseen[p] = {} /\ peak \in Nat
    BY <1>1, SizesAreNumbers DEF IInv, Storing, FileTypes, PartialStage
  <2>2. files \in SUBSET [key : Keys, size : Sizes] /\ IsFiniteSet(files)
    BY <2>1, FS_Subset
  <2>3. unseen' = [unseen EXCEPT ![p] = {}]
    BY <1>5, <2>1
  <2>4. /\ size' \in [Keys -> {s \in {0} \cup Sizes : s <= peak}]
        /\ \A k \in Keys : size'[k] = IF k = victim[p] THEN 0 ELSE size[k]
    <3>1. 0 \in {s \in {0} \cup Sizes : s <= peak}
      BY <2>1
    <3>2. size' = [k \in Keys |-> IF k = victim[p] THEN 0 ELSE size[k]]
      BY <1>5, <2>1
    <3>3. \A k \in Keys : size[k] \in {s \in {0} \cup Sizes : s <= peak}
      BY <2>1
    <3> QED
      BY <3>1, <3>2, <3>3
  <2>5. Counts(p) =>
          \A k \in Keys : size'[k] > 0 => \E f \in files : f.key = k /\ size'[k] <= f.size
    BY <2>1, <2>4 DEF Counts
  <2>6. UNCHANGED <<partial, fails, broken, limits>> /\ at[p] # "readdir"
    BY <1>1, <1>5
  <2> HIDE DEF files
  <2>7. Storing'
    BY <1>1, <1>3, <1>5, <2>2, <2>3, <2>4, <2>5, <2>6, ContinueKeepsStoring
    DEF IInv, Calling
  <2> QED
    BY <1>2, <2>7 DEF IInv
<1> QED
  BY <1>4, <1>5 DEF Evict

LEMMA KeepsUpdateMaxBytes ==
  ASSUME IInv, NEW m \in Limits, UpdateMaxBytes(m)
  PROVE  IInv'
<1> USE DEF UpdateMaxBytes
<1>1. Calling'
  BY StutterKeepsCalling DEF IInv
<1>2. /\ size \in [Keys -> Nat] /\ partial \in [Consumers -> Nat]
      /\ peak \in Nat /\ peak' \in Nat /\ m \in Nat /\ peak <= peak' /\ m <= peak'
      /\ peak' \in Limits
  BY SizesAreNumbers, LimitsAssumption DEF IInv, Storing, FileTypes
<1>3. FileTypes'
  <2>1. size' \in [Keys -> {s \in {0} \cup Sizes : s <= peak'}]
    BY <1>2 DEF IInv, Storing, FileTypes
  <2> QED
    BY <1>2, <2>1 DEF IInv, Storing, FileTypes, eviction
<1>4. PartialStage'
  BY <1>2 DEF IInv, Storing, PartialStage, eviction
<1>5. DirectoryIsCounted'
  <2>1. Used(size) \in Nat
    BY <1>2, FiniteAssumption, UsedBounds
  <2>2. \A p \in Consumers : Counts(p)' = Counts(p)
    BY DEF Counts, eviction
  <2> QED
    BY <1>2, <2>1, <2>2 DEF IInv, Storing, DirectoryIsCounted, eviction
<1> QED
  BY <1>1, <1>3, <1>4, <1>5 DEF IInv, Storing

LEMMA KeepsVars == IInv /\ UNCHANGED vars => IInv'
<1> SUFFICES ASSUME IInv, UNCHANGED vars PROVE IInv'
  OBVIOUS
<1>1. Calling'
  BY StutterKeepsCalling DEF IInv, vars
<1>2. Storing'
  BY StutterKeepsStoring DEF IInv, vars
<1> QED
  BY <1>1, <1>2 DEF IInv

-----------------------------------------------------------------------------
(* Theorems                                                                *)

\* IInv is an inductive invariant of the cache.
THEOREM Inductive == Spec => []IInv
<1>1. IInv /\ [Next]_vars => IInv'
  BY KeepsMaterialize, KeepsLeave, KeepsLookAndHit, KeepsWriteAndMeasure, KeepsPublish,
     KeepsCleanup, KeepsReadDirectory, KeepsSurvey, KeepsEvict, KeepsUpdateMaxBytes,
     KeepsVars
  DEF Next, Step
<1> QED
  BY InitHolds, <1>1, PTL DEF Spec

\* Whoever waits, waits for the one producer of his key that is in the map, which is
\* not aborted, the count of its consumers is exact, and a producer that nobody waits
\* for is aborted (materialize(), resource-cache.ts), for any number of calls.
THEOREM ProducersAreShared == Spec => []SharedWhileWanted
<1>1. IInv => SharedWhileWanted
  BY DEF IInv, Calling
<1> QED
  BY Inductive, <1>1, PTL

\* The directory holds nothing it should not: no temporary file of a producer that is
\* over, and, when no eviction runs and none has failed, no more than the limit,
\* however many evictions overlapped (evict(), resource-cache.ts).
THEOREM DirectoryIsBounded == Spec => []Consistent
<1>1. IInv => Consistent
  <2> SUFFICES ASSUME IInv PROVE Consistent
    OBVIOUS
  <2>1. TypeOK
    BY DEF IInv, Calling, Storing, CallTypes, FileTypes, TypeOK
  <2>2. PartialsRemoved
    BY DEF IInv, Storing, PartialStage, PartialsRemoved
  <2>3. DirectoryBounded
    BY DEF IInv, Storing, DirectoryIsCounted, DirectoryBounded
  <2> QED
    BY <2>1, <2>2, <2>3 DEF Consistent
<1> QED
  BY Inductive, <1>1, PTL
=============================================================================
