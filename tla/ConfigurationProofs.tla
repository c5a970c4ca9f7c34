------------------------- MODULE ConfigurationProofs -------------------------
(***************************************************************************)
(* Theorems about Configuration, for any aliases, domains and number of    *)
(* saves, edits and crashes.                                               *)
(***************************************************************************)
EXTENDS Configuration, SequenceTheorems, FiniteSetTheorems, WellFoundedInduction, TLAPS

-----------------------------------------------------------------------------
(* The inductive invariant                                                 *)

Up    == phase \in {"opening", "running"}
Calm  == Up /\ odd \cap {"stale", "crossed"} = {}
Clean == odd \cap {"stale", "crossed", "outdated", "reclaimed"} = {}

SetKept  == Up /\ "stale" \notin odd
GateKept == Up /\ "swapped" \notin odd

Under(s)   == saves[s] # None
At(s, a)   == saves[s] # None /\ saves[s].at = a
Prompts(s) == saves[s] # None /\ saves[s].by \in {"prompt", "form"}

\* Who does what, and only while the program runs.
Shapes ==
  /\ panel # None => panel.draft.hosts = panel.original.hosts
  /\ modal # None /\ modal.kind # "add" => modal.profile # None
  /\ \A s \in Slots : At(s, "refreshing") => Prompts(s)
  /\ \A s \in Slots : At(s, "applying") => saves[s].by # "permission"
  /\ phase # "running" => /\ saves = NoSaves /\ panel = None /\ modal = None
                          /\ refreshes = NoRefreshes /\ ~timer
  /\ file.version = 2 => file.backup

SshFollows == Up /\ UniqueIds(Known(catalog)) => ssh = Known(catalog)

\* The gate lags behind the file only between a rename and what follows it.
GateFollows == GateKept =>
  /\ \A s, t \in Slots : At(s, "landed") /\ At(t, "landed") => s = t
  /\ \A s \in Slots : At(s, "landed") => saves[s].next.domains = file.config.domains
  /\ (\A s \in Slots : ~At(s, "landed")) => gate = file.config.domains

Same(c) == c.setting = file.config.setting /\ c.hosts = file.config.hosts

\* The copies lag behind the file only between a rename and what follows it.
Lags(s) == At(s, "landed") /\ saves[s].by # "permission"
Alone   == \A s, t \in Slots : Under(s) /\ Under(t) => s = t
InStep  == (\A s \in Slots : ~Lags(s)) => \A c \in {run, app, sidebar} : Same(c)

\* What is or was written: a permission changes the domains alone.
Settled(s) == Under(s) /\ (~At(s, "writing") \/ saves[s].by = "permission") => Same(saves[s].next)

\* The settings panel leaves the hosts alone.
KeepsHosts(s) == Under(s) /\ saves[s].by = "panel" =>
                   /\ saves[s].next.hosts = file.config.hosts
                   /\ \A c \in {run, app, sidebar} : c.hosts = file.config.hosts

CopiesFollow == SetKept => Alone /\ InStep /\ \A s \in Slots : Settled(s) /\ KeepsHosts(s)

\* A prompt's save is past its rename: refreshes may have started from older hosts.
Past(s) == Prompts(s) /\ ~At(s, "writing")
Fresh(seen) == sshConfig \in seen /\ (seen = {sshConfig} \/ timer)

\* Whatever the SSH config was read for is what the file holds now, and a change
\* that may have been missed has set the timer.
CatalogFollows == Calm =>
  /\ \A s \in Slots : At(s, "refreshing") => refreshes = NoRefreshes /\ Fresh(saves[s].seen)
  /\ (\A s \in Slots : ~Past(s)) =>
       /\ \A r \in DOMAIN refreshes : refreshes[r] # None =>
            refreshes[r].hosts = file.config.hosts /\ Fresh(refreshes[r].seen)
       /\ refreshes = NoRefreshes /\ ~timer =>
            catalog = BuildHostCatalog(file.config.hosts, sshConfig)

\* What the program may start from: no two entries of one id, and no id that an
\* SSH host claims.
Good(hosts, seen) == EntryIdsUnique(hosts) /\ ~Reclaimed(hosts, seen)

StartsFollow == Clean =>
  /\ phase # "refused"
  /\ Good(file.config.hosts, sshConfig)
  /\ \A s \in Slots : Under(s) =>
       EntryIdsUnique(saves[s].next.hosts) \/ Reclaimed(saves[s].next.hosts, {})
  /\ \A s \in Slots : At(s, "refreshing") =>
       \A seen \in saves[s].seen : ~Reclaimed(file.config.hosts, seen)
  /\ Up /\ (\A s \in Slots : ~Past(s)) =>
       /\ \A r \in DOMAIN refreshes : refreshes[r] # None =>
            \A seen \in refreshes[r].seen : ~Reclaimed(file.config.hosts, seen)
       /\ \E seen \in SUBSET Aliases : /\ ~Reclaimed(file.config.hosts, seen)
                                       /\ catalog = BuildHostCatalog(file.config.hosts, seen)

Typed == TypeOK /\ Shapes
IInv == Typed /\ SshFollows /\ GateFollows /\ CopiesFollow /\ CatalogFollows /\ StartsFollow

-----------------------------------------------------------------------------
(* Positions                                                               *)

\* The first of some positions.
LEMMA FirstOf ==
  ASSUME NEW S \in SUBSET Nat, S # {}
  PROVE  \E i \in S : \A j \in S : i <= j
<1>1. PICK i \in S : \A j \in S : <<j, i>> \notin OpToRel(<, Nat)
  BY WFMin, NatLessThanWellFounded
<1>2. \A j \in S : ~(j < i)
  BY <1>1 DEF OpToRel
<1> QED
  BY <1>2

\* A set of natural numbers that has 0, and n + 1 with every n, has all of them.
LEMMA Counting ==
  ASSUME NEW Right, 0 \in Right, \A n \in Nat : n \in Right => n + 1 \in Right
  PROVE  Nat \subseteq Right
<1> DEFINE Wrong == Nat \ Right
<1>1. SUFFICES ASSUME Wrong # {} PROVE FALSE
  OBVIOUS
<1>2. PICK n \in Wrong : \A m \in Wrong : n <= m
  BY <1>1, FirstOf
<1>3. n - 1 \in Nat /\ n - 1 + 1 = n
  OBVIOUS
<1> QED
  BY <1>2, <1>3

\* Of any n chosen positions, each has its turn.
LEMMA EachHasItsTurn ==
  ASSUME NEW n \in Nat, NEW K \in SUBSET (1..n)
  PROVE  \A k \in 1..Cardinality(K) : \E i \in K : Cardinality(K \cap (1..i)) = k
<1> DEFINE Upto(i) == K \cap (1..i)
           Right == {m \in Nat : \A k \in 1..Cardinality(Upto(m)) :
                                   \E i \in K : Cardinality(Upto(i)) = k}
<1>f. ASSUME NEW i \in Nat PROVE IsFiniteSet(Upto(i)) /\ Cardinality(Upto(i)) \in Nat
  <2>1. IsFiniteSet(1..i) /\ Upto(i) \in SUBSET (1..i)
    BY FS_Interval
  <2> HIDE DEF Upto
  <2> QED
    BY <2>1, FS_Subset, FS_CardinalityType
<1>1. 0 \in Right
  <2>1. Upto(0) = {}
    OBVIOUS
  <2>2. Cardinality(Upto(0)) = 0
    BY <2>1, FS_EmptySet
  <2> QED
    BY <2>2
<1>2. ASSUME NEW m \in Nat, m \in Right PROVE m + 1 \in Right
  <2> SUFFICES \A k \in 1..Cardinality(Upto(m + 1)) : \E i \in K : Cardinality(Upto(i)) = k
    <3> HIDE DEF Upto
    <3> QED
      OBVIOUS
  <2>1. CASE m + 1 \in K
    <3>1. Upto(m + 1) = Upto(m) \cup {m + 1} /\ m + 1 \notin Upto(m)
      BY <2>1
    <3>2. Cardinality(Upto(m + 1)) = Cardinality(Upto(m)) + 1
      <4> HIDE DEF Upto
      <4> QED
        BY <1>f, <3>1, FS_AddElement
    <3>3. ASSUME NEW k \in 1..Cardinality(Upto(m + 1))
          PROVE  \E i \in K : Cardinality(Upto(i)) = k
      <4>1. k = Cardinality(Upto(m + 1)) \/ k \in 1..Cardinality(Upto(m))
        BY <1>f, <3>2
      <4> QED
        BY <1>2, <2>1, <4>1
    <3> QED
      BY <3>3
  <2>2. CASE m + 1 \notin K
    <3>1. Upto(m + 1) = Upto(m)
      BY <2>2
    <3> QED
      BY <1>2, <3>1
  <2> QED
    BY <2>1, <2>2
<1> HIDE DEF Right
<1>3. n \in Right
  BY <1>1, <1>2, Counting
<1>4. Upto(n) = K
  OBVIOUS
<1> QED
  BY <1>3, <1>4 DEF Right

-----------------------------------------------------------------------------
(* What the prompts make of the host entries                               *)

LEMMA WithoutFacts ==
  ASSUME NEW hosts \in Seq(Entries), NEW ids
  PROVE  /\ Without(hosts, ids) \in Seq(Entries)
         /\ EntryIdsUnique(hosts) => EntryIdsUnique(Without(hosts, ids))
<1> DEFINE kept == {i \in DOMAIN hosts : hosts[i].id \notin ids}
           rank(i) == Cardinality(kept \cap (1..i))
           place(k) == CHOOSE i \in kept : rank(i) = k
           size == Cardinality(kept)
<1>1. kept \in SUBSET (1..Len(hosts)) /\ Len(hosts) \in Nat
  OBVIOUS
<1>2. size \in Nat
  <2>1. IsFiniteSet(1..Len(hosts))
    BY FS_Interval
  <2> HIDE DEF kept
  <2> QED
    BY <1>1, <2>1, FS_Subset, FS_CardinalityType
<1>3. \A k \in 1..size : place(k) \in kept /\ rank(place(k)) = k
  <2>1. \A k \in 1..size : \E i \in kept : rank(i) = k
    <3> HIDE DEF kept
    <3> QED
      BY <1>1, EachHasItsTurn
  <2> HIDE DEF kept, rank
  <2> QED
    BY <2>1
<1>4. Without(hosts, ids) = [k \in 1..size |-> hosts[place(k)]]
  BY DEF Without
<1>5. \A k \in 1..size : hosts[place(k)] \in Entries /\ place(k) \in DOMAIN hosts
  <2>1. \A i \in kept : hosts[i] \in Entries /\ i \in DOMAIN hosts
    OBVIOUS
  <2> HIDE DEF kept, place
  <2> QED
    BY <1>3, <2>1
<1> HIDE DEF place, size, kept, rank
<1>6. Without(hosts, ids) \in Seq(Entries)
  BY <1>2, <1>4, <1>5
<1>7. ASSUME EntryIdsUnique(hosts), NEW k \in 1..size, NEW l \in 1..size,
             hosts[place(k)].id = hosts[place(l)].id
      PROVE  k = l
  BY <1>3, <1>5, <1>7 DEF EntryIdsUnique
<1>8. DOMAIN Without(hosts, ids) = 1..size
  BY <1>4
<1> QED
  BY <1>4, <1>6, <1>7, <1>8 DEF EntryIdsUnique

LEMMA PutAtFacts ==
  ASSUME NEW hosts \in Seq(Entries), NEW places \in SUBSET DOMAIN hosts, NEW entry \in Entries
  PROVE  /\ PutAt(hosts, places, entry) \in Seq(Entries)
         /\ places = {} => PutAt(hosts, places, entry) = Append(hosts, entry)
         /\ EntryIdsUnique(hosts) /\ places # {}
              /\ (\A i \in places : (\A j \in places : i <= j) => hosts[i].id = entry.id)
            => EntryIdsUnique(PutAt(hosts, places, entry))
<1>1. CASE places = {}
  BY <1>1 DEF PutAt
<1>2. CASE places # {}
  <2> DEFINE i == CHOOSE k \in places : \A j \in places : k <= j
  <2>1. i \in places /\ \A j \in places : i <= j
    BY <1>2, FirstOf
  <2>2. PutAt(hosts, places, entry) = [hosts EXCEPT ![i] = entry]
    BY <1>2 DEF PutAt
  <2> HIDE DEF i
  <2>3. [hosts EXCEPT ![i] = entry] \in Seq(Entries)
    BY <2>1
  <2>4. ASSUME EntryIdsUnique(hosts), hosts[i].id = entry.id
        PROVE  EntryIdsUnique([hosts EXCEPT ![i] = entry])
    <3>1. \A k \in DOMAIN hosts : [hosts EXCEPT ![i] = entry][k].id = hosts[k].id
      BY <2>1, <2>4
    <3> QED
      BY <2>4, <3>1 DEF EntryIdsUnique
  <2> QED
    BY <1>2, <2>1, <2>2, <2>3, <2>4
<1> QED
  BY <1>1, <1>2

\* A new entry under its own name has an id of its own, unless a remapped host has it.
LEMMA AppendedIds ==
  ASSUME NEW hosts \in Seq(Entries), NEW entry \in Entries, EntryIdsUnique(hosts),
         entry.id = entry.alias, \A i \in DOMAIN hosts : hosts[i].alias # entry.alias
  PROVE  EntryIdsUnique(Append(hosts, entry)) \/ Reclaimed(Append(hosts, entry), {})
<1> DEFINE new == Append(hosts, entry)
           n == Len(hosts)
<1>1. /\ n \in Nat /\ DOMAIN hosts = 1..n /\ DOMAIN new = 1..(n + 1)
      /\ new[n + 1] = entry /\ \A i \in 1..n : new[i] = hosts[i]
  OBVIOUS
<1> HIDE DEF new, n
<1>2. CASE \E i \in 1..n : hosts[i].id = entry.id
  <2>1. PICK i \in 1..n : hosts[i].id = entry.id
    BY <1>2
  <2>2. i \in DOMAIN new /\ n + 1 \in DOMAIN new /\ new[i].id # new[i].alias
        /\ new[i].id = new[n + 1].alias
    BY <1>1, <2>1
  <2>3. Reclaimed(new, {})
    BY <2>2 DEF Reclaimed
  <2> QED
    BY <2>3 DEF new
<1>3. CASE \A i \in 1..n : hosts[i].id # entry.id
  <2>1. EntryIdsUnique(new)
    <3> SUFFICES ASSUME NEW i \in DOMAIN new, NEW j \in DOMAIN new, new[i].id = new[j].id
                 PROVE  i = j
      BY DEF EntryIdsUnique
    <3>1. CASE i \in 1..n /\ j \in 1..n
      BY <1>1, <3>1 DEF EntryIdsUnique
    <3>2. CASE i = n + 1 /\ j \in 1..n
      BY <1>1, <1>3, <3>2
    <3>3. CASE j = n + 1 /\ i \in 1..n
      BY <1>1, <1>3, <3>3
    <3> QED
      BY <1>1, <3>1, <3>2, <3>3
  <2> QED
    BY <2>1 DEF new
<1> QED
  BY <1>2, <1>3

-----------------------------------------------------------------------------
(* The catalog                                                             *)

\* The first entry of an alias.
Leads(hosts, k) == k \in DOMAIN hosts /\ \A j \in 1..(k - 1) : hosts[j].alias # hosts[k].alias

LEMMA LeaderExists ==
  ASSUME NEW hosts \in Seq(Entries), NEW i \in DOMAIN hosts
  PROVE  \E k \in DOMAIN hosts : Leads(hosts, k) /\ hosts[k].alias = hosts[i].alias
<1> DEFINE S == {k \in DOMAIN hosts : hosts[k].alias = hosts[i].alias}
<1>1. PICK k \in S : \A j \in S : k <= j
  <2>1. S \in SUBSET Nat /\ S # {}
    OBVIOUS
  <2> HIDE DEF S
  <2> QED
    BY <2>1, FirstOf
<1>2. \A j \in 1..(k - 1) : j \in DOMAIN hosts /\ j \notin S
  BY <1>1
<1> QED
  BY <1>1, <1>2 DEF Leads

LEMMA OneLeader ==
  ASSUME NEW hosts \in Seq(Entries), NEW k, NEW l, Leads(hosts, k), Leads(hosts, l),
         hosts[k].alias = hosts[l].alias
  PROVE  k = l
<1>1. k \in Nat /\ l \in Nat /\ k >= 1 /\ l >= 1
  BY DEF Leads
<1>2. ~(k < l) /\ ~(l < k)
  BY <1>1 DEF Leads
<1> QED
  BY <1>1, <1>2

LEMMA MetadataIsLeaders ==
  ASSUME NEW hosts \in Seq(Entries)
  PROVE  /\ \A h \in Metadata(hosts) :
              h \in Entries /\ \E k \in DOMAIN hosts : Leads(hosts, k) /\ h = hosts[k]
         /\ \A k : Leads(hosts, k) => hosts[k] \in Metadata(hosts)
BY DEF Metadata, Leads

\* The profile stands for the first entry of its alias.
Stands(hosts, p) ==
  \E k \in DOMAIN hosts : Leads(hosts, k) /\ hosts[k].alias = p.alias /\ hosts[k].id = p.id

\* Nobody has configured the host.
Unknown(hosts, p) == p.id = p.alias /\ \A i \in DOMAIN hosts : hosts[i].alias # p.alias

LEMMA DiscoveredFacts ==
  ASSUME NEW hosts \in Seq(Entries), NEW a \in Aliases
  PROVE  /\ Discovered(hosts, a) \in Profiles /\ Discovered(hosts, a).alias = a
         /\ Stands(hosts, Discovered(hosts, a)) \/ Unknown(hosts, Discovered(hosts, a))
<1> DEFINE known == {h \in Metadata(hosts) : h.alias = a}
           d == Discovered(hosts, a)
<1>1. d = [id |-> IF known = {} THEN a ELSE (CHOOSE h \in known : TRUE).id,
           alias |-> a, source |-> "ssh-config", hidden |-> \E h \in known : h.hidden]
  BY DEF Discovered
<1>2. CASE known = {}
  <2>1. d.id = a /\ d.alias = a /\ d \in Profiles
    BY <1>1, <1>2 DEF Profiles, Sources
  <2>2. ASSUME NEW i \in DOMAIN hosts PROVE hosts[i].alias # a
    <3>1. PICK k \in DOMAIN hosts : Leads(hosts, k) /\ hosts[k].alias = hosts[i].alias
      BY LeaderExists
    <3>2. hosts[k] \in Metadata(hosts)
      BY <3>1, MetadataIsLeaders
    <3> QED
      BY <1>2, <3>1, <3>2
  <2> QED
    BY <2>1, <2>2 DEF Unknown
<1>3. CASE known # {}
  <2>1. PICK h \in known : h = CHOOSE g \in known : TRUE
    BY <1>3
  <2>2. h \in Entries /\ h.alias = a
    BY MetadataIsLeaders
  <2>3. PICK k \in DOMAIN hosts : Leads(hosts, k) /\ h = hosts[k]
    BY MetadataIsLeaders
  <2> HIDE DEF known
  <2>4. d.id = h.id /\ d.alias = a /\ d \in Profiles
    BY <1>1, <1>3, <2>1, <2>2 DEF Profiles, Sources, Entries
  <2> QED
    BY <2>2, <2>3, <2>4 DEF Stands
<1> QED
  BY <1>2, <1>3

LEMMA CatalogFacts ==
  ASSUME NEW hosts \in Seq(Entries), NEW seen \in SUBSET Aliases
  PROVE  /\ BuildHostCatalog(hosts, seen) \subseteq Profiles
         /\ \A p \in BuildHostCatalog(hosts, seen) :
              Stands(hosts, p) \/ (Unknown(hosts, p) /\ p.alias \in seen)
         /\ \A i \in DOMAIN hosts :
              \E p \in BuildHostCatalog(hosts, seen) : p.alias = hosts[i].alias
<1>1. ASSUME NEW h \in Metadata(hosts)
      PROVE  /\ Configured(h) \in Profiles /\ Configured(h).alias = h.alias
             /\ Stands(hosts, Configured(h))
  <2>1. h \in Entries /\ \E k \in DOMAIN hosts : Leads(hosts, k) /\ h = hosts[k]
    BY MetadataIsLeaders
  <2> QED
    BY <2>1 DEF Configured, Profiles, Sources, Entries, Stands
<1>2. ASSUME NEW p \in BuildHostCatalog(hosts, seen)
      PROVE  p \in Profiles /\ (Stands(hosts, p) \/ (Unknown(hosts, p) /\ p.alias \in seen))
  BY <1>1, DiscoveredFacts DEF BuildHostCatalog
<1>3. ASSUME NEW i \in DOMAIN hosts
      PROVE  \E p \in BuildHostCatalog(hosts, seen) : p.alias = hosts[i].alias
  <2>1. PICK k \in DOMAIN hosts : Leads(hosts, k) /\ hosts[k].alias = hosts[i].alias
    BY LeaderExists
  <2>2. hosts[k] \in Metadata(hosts)
    BY <2>1, MetadataIsLeaders
  <2>3. CASE hosts[k].alias \in seen
    BY <2>1, <2>3, DiscoveredFacts DEF BuildHostCatalog
  <2>4. CASE hosts[k].alias \notin seen
    BY <1>1, <2>1, <2>2, <2>4 DEF BuildHostCatalog
  <2> QED
    BY <2>3, <2>4
<1> QED
  BY <1>2, <1>3

\* Two hosts of the catalog have two ids when the entries do and no host is reclaimed.
LEMMA CatalogIds ==
  ASSUME NEW hosts \in Seq(Entries), NEW seen \in SUBSET Aliases, Good(hosts, seen)
  PROVE  UniqueIds(Known(BuildHostCatalog(hosts, seen)))
<1>1. ASSUME NEW p \in BuildHostCatalog(hosts, seen), NEW q \in BuildHostCatalog(hosts, seen),
             p.id = q.id
      PROVE  p.alias = q.alias
  <2>1. /\ Stands(hosts, p) \/ (Unknown(hosts, p) /\ p.alias \in seen)
        /\ Stands(hosts, q) \/ (Unknown(hosts, q) /\ q.alias \in seen)
    BY CatalogFacts
  <2>2. CASE Stands(hosts, p) /\ Stands(hosts, q)
    BY <1>1, <2>2 DEF Stands, Good, EntryIdsUnique
  <2>3. ASSUME NEW x, NEW y, x.id = y.id, Stands(hosts, x), Unknown(hosts, y), y.alias \in seen
        PROVE  FALSE
    <3>1. PICK k \in DOMAIN hosts : hosts[k].id = x.id
      BY <2>3 DEF Stands
    <3>2. hosts[k].alias # y.alias /\ hosts[k].id = y.alias
      BY <2>3, <3>1 DEF Unknown
    <3> QED
      BY <2>3, <3>2 DEF Good, Reclaimed
  <2>4. CASE Unknown(hosts, p) /\ Unknown(hosts, q)
    BY <1>1, <2>4 DEF Unknown
  <2> QED
    BY <1>1, <2>1, <2>2, <2>3, <2>4
<1> QED
  BY <1>1 DEF UniqueIds, Known

-----------------------------------------------------------------------------
(* What a prompt asks to be saved                                          *)

LEMMA UpsertFacts ==
  ASSUME NEW hosts \in Seq(Entries), NEW p \in Profiles
  PROVE  /\ UpsertHostMetadata(hosts, p) \in Seq(Entries)
         /\ EntryIdsUnique(hosts) /\ (Stands(hosts, p) \/ Unknown(hosts, p)) =>
              \/ EntryIdsUnique(UpsertHostMetadata(hosts, p))
              \/ Reclaimed(UpsertHostMetadata(hosts, p), {})
<1> DEFINE entry == MetadataForProfile(p)
           places == {i \in DOMAIN hosts : hosts[i].alias = p.alias}
           new == UpsertHostMetadata(hosts, p)
<1>1. entry \in Entries /\ entry.id = p.id /\ entry.alias = p.alias
  BY DEF MetadataForProfile, Entries, Profiles
<1>2. new = PutAt(hosts, places, entry)
  BY DEF UpsertHostMetadata
<1>3. places \in SUBSET DOMAIN hosts
  OBVIOUS
<1> HIDE DEF entry, new
<1>4. new \in Seq(Entries) /\ (places = {} => new = Append(hosts, entry))
  <2> HIDE DEF places
  <2> QED
    BY <1>1, <1>2, <1>3, PutAtFacts
<1>5. ASSUME EntryIdsUnique(hosts), Stands(hosts, p) PROVE EntryIdsUnique(new)
  <2>1. PICK k \in DOMAIN hosts : Leads(hosts, k) /\ hosts[k].alias = p.alias /\ hosts[k].id = p.id
    BY <1>5 DEF Stands
  <2>2. ASSUME NEW i \in places, \A j \in places : i <= j PROVE i = k
    <3>1. \A j \in 1..(i - 1) : j \in DOMAIN hosts /\ j \notin places
      BY <2>2
    <3>2. Leads(hosts, i) /\ hosts[i].alias = hosts[k].alias
      BY <2>1, <3>1 DEF Leads
    <3> QED
      BY <2>1, <3>2, OneLeader
  <2>3. places # {}
    BY <2>1
  <2> HIDE DEF places
  <2> QED
    BY <1>1, <1>2, <1>3, <1>5, <2>1, <2>2, <2>3, PutAtFacts
<1>6. ASSUME EntryIdsUnique(hosts), Unknown(hosts, p)
      PROVE  EntryIdsUnique(new) \/ Reclaimed(new, {})
  <2>1. places = {} /\ entry.id = entry.alias
        /\ \A i \in DOMAIN hosts : hosts[i].alias # entry.alias
    BY <1>1, <1>6 DEF Unknown
  <2>2. new = Append(hosts, entry)
    BY <1>4, <2>1
  <2> QED
    BY <1>1, <1>6, <2>1, <2>2, AppendedIds
<1> QED
  BY <1>4, <1>5, <1>6 DEF new

LEMMA RemapFacts ==
  ASSUME NEW hosts \in Seq(Entries), NEW p \in Profiles, NEW a \in Aliases
  PROVE  /\ RemapAlias(hosts, p, a) \in Seq(Entries)
         /\ EntryIdsUnique(hosts) => EntryIdsUnique(RemapAlias(hosts, p, a))
<1> DEFINE ids == {q.id : q \in {r \in catalog : r.id # p.id /\ r.alias = a}}
           kept == Without(hosts, ids)
           places == {i \in DOMAIN kept : kept[i].id = p.id}
           entry == [id |-> p.id, alias |-> a, manual |-> TRUE, hidden |-> FALSE]
           new == RemapAlias(hosts, p, a)
<1>1. new = PutAt(kept, places, entry)
  BY DEF RemapAlias
<1>2. entry \in Entries /\ entry.id = p.id
  BY DEF Entries, Profiles
<1>3. kept \in Seq(Entries) /\ (EntryIdsUnique(hosts) => EntryIdsUnique(kept))
  BY WithoutFacts
<1> HIDE DEF ids, kept, entry, new
<1>4. places \in SUBSET DOMAIN kept /\ \A i \in places : kept[i].id = entry.id
  BY <1>2
<1> HIDE DEF places
<1>5. new \in Seq(Entries)
  BY <1>1, <1>2, <1>3, <1>4, PutAtFacts
<1>6. ASSUME EntryIdsUnique(hosts) PROVE EntryIdsUnique(new)
  <2>1. CASE places # {}
    BY <1>1, <1>2, <1>3, <1>4, <1>6, <2>1, PutAtFacts
  <2>2. CASE places = {}
    <3>1. new = Append(kept, entry)
      BY <1>1, <1>2, <1>3, <1>4, <2>2, PutAtFacts
    <3>2. \A i \in 1..Len(kept) : kept[i].id # entry.id
      BY <1>2, <1>3, <2>2 DEF places
    <3>3. /\ Len(kept) \in Nat /\ DOMAIN kept = 1..Len(kept)
          /\ DOMAIN new = 1..(Len(kept) + 1) /\ new[Len(kept) + 1] = entry
          /\ \A i \in 1..Len(kept) : new[i] = kept[i]
      BY <1>3, <3>1
    <3>4. ASSUME NEW i \in DOMAIN new, NEW j \in DOMAIN new, new[i].id = new[j].id PROVE i = j
      <4>1. CASE i \in 1..Len(kept) /\ j \in 1..Len(kept)
        BY <1>3, <1>6, <3>3, <3>4, <4>1 DEF EntryIdsUnique
      <4>2. CASE i = Len(kept) + 1 \/ j = Len(kept) + 1
        BY <3>2, <3>3, <3>4, <4>2
      <4> QED
        BY <3>3, <4>1, <4>2
    <3> QED
      BY <3>4 DEF EntryIdsUnique
  <2> QED
    BY <2>1, <2>2
<1> QED
  BY <1>5, <1>6 DEF new

\* Whatever prompt is confirmed, the entries that it saves have ids of their own,
\* unless a remapped host is reclaimed.
LEMMA SubmissionFacts ==
  ASSUME TypeOK, Shapes, modal # None, NEW next \in Submissions(modal)
  PROVE  /\ next \in Configs /\ next.setting = sidebar.setting /\ next.domains = sidebar.domains
         /\ \A seen \in SUBSET Aliases :
              catalog = BuildHostCatalog(sidebar.hosts, seen) /\ EntryIdsUnique(sidebar.hosts)
                /\ Outdated(modal) = {}
              => EntryIdsUnique(next.hosts) \/ Reclaimed(next.hosts, {})
<1> DEFINE hosts == sidebar.hosts
           p == modal.profile
           Allowed(new) == new \in Seq(Entries) /\
             \A seen \in SUBSET Aliases :
               catalog = BuildHostCatalog(hosts, seen) /\ EntryIdsUnique(hosts)
                 /\ Outdated(modal) = {}
               => EntryIdsUnique(new) \/ Reclaimed(new, {})
<1>1. /\ sidebar \in Configs /\ hosts \in Seq(Entries) /\ modal \in Modals
      /\ modal.kind \in {"add", "remap", "edit", "hide"}
      /\ modal.kind # "add" => p \in Profiles
  BY DEF TypeOK, Shapes, Modals, Configs
<1>2. ASSUME NEW a \in Aliases, \A q \in catalog : q.alias # a PROVE Allowed(AddAlias(hosts, a))
  <2> DEFINE entry == [id |-> a, alias |-> a, manual |-> TRUE, hidden |-> FALSE]
  <2>1. AddAlias(hosts, a) = Append(hosts, entry) /\ entry \in Entries
        /\ entry.id = a /\ entry.alias = a
    BY DEF AddAlias, Entries
  <2>2. Append(hosts, entry) \in Seq(Entries)
    BY <1>1, <2>1
  <2>3. ASSUME NEW seen \in SUBSET Aliases, catalog = BuildHostCatalog(hosts, seen),
               EntryIdsUnique(hosts)
        PROVE  EntryIdsUnique(Append(hosts, entry)) \/ Reclaimed(Append(hosts, entry), {})
    <3>1. \A i \in DOMAIN hosts : hosts[i].alias # a
      <4> HIDE DEF hosts
      <4> QED
        BY <1>1, <1>2, <2>3, CatalogFacts
    <3> HIDE DEF entry, hosts
    <3> QED
      BY <1>1, <2>1, <2>3, <3>1, AppendedIds
  <2> QED
    BY <2>1, <2>2, <2>3
<1>3. ASSUME modal.kind = "remap", NEW a \in Aliases PROVE Allowed(RemapAlias(hosts, p, a))
  <2> HIDE DEF hosts, p
  <2> QED
    BY <1>1, <1>3, RemapFacts
<1>4. ASSUME modal.kind \in {"edit", "hide"}, NEW q \in Profiles, q.id = p.id, q.alias = p.alias
      PROVE  Allowed(UpsertHostMetadata(hosts, q))
  <2>1. ASSUME NEW seen \in SUBSET Aliases, catalog = BuildHostCatalog(hosts, seen),
               Outdated(modal) = {}
        PROVE  Stands(hosts, q) \/ Unknown(hosts, q)
    <3>1. p \in catalog
      BY <1>4, <2>1 DEF Outdated
    <3>2. Stands(hosts, p) \/ Unknown(hosts, p)
      <4> HIDE DEF hosts, p
      <4> QED
        BY <1>1, <2>1, <3>1, CatalogFacts
    <3> QED
      BY <1>4, <3>2 DEF Stands, Unknown
  <2> HIDE DEF hosts, p
  <2> QED
    BY <1>1, <1>4, <2>1, UpsertFacts
<1>5. ASSUME modal.kind = "hide" PROVE Allowed(RemoveAlias(hosts, p))
  <2> HIDE DEF hosts, p
  <2> QED
    BY <1>1, WithoutFacts DEF RemoveAlias
<1>6. modal.kind = "hide" => [p EXCEPT !.hidden = TRUE] \in Profiles
        /\ [p EXCEPT !.hidden = TRUE].id = p.id /\ [p EXCEPT !.hidden = TRUE].alias = p.alias
  BY <1>1 DEF Profiles
<1>7. PICK new : next = [sidebar EXCEPT !.hosts = new] /\ Allowed(new)
  <2>1. CASE modal.kind = "add"
    BY <1>2, <2>1 DEF Submissions
  <2>2. CASE modal.kind = "remap"
    BY <1>3, <2>2 DEF Submissions
  <2>3. CASE modal.kind = "edit"
    BY <1>1, <1>4, <2>3 DEF Submissions
  <2>4. CASE modal.kind = "hide"
    <3>1. PICK new : next = [sidebar EXCEPT !.hosts = new] /\
             new = IF p.source = "manual" THEN RemoveAlias(hosts, p)
                   ELSE UpsertHostMetadata(hosts, [p EXCEPT !.hidden = TRUE])
      BY <2>4 DEF Submissions
    <3> QED
      BY <1>4, <1>5, <1>6, <2>4, <3>1
  <2> QED
    BY <1>1, <2>1, <2>2, <2>3, <2>4
<1>8. /\ next \in Configs /\ next.hosts = new /\ next.setting = sidebar.setting
      /\ next.domains = sidebar.domains
  BY <1>1, <1>7 DEF Configs
<1> QED
  BY <1>7, <1>8

-----------------------------------------------------------------------------
(* Types                                                                   *)

\* One step of a save.
LEMMA SaveSteps ==
  ASSUME TypeOK, NEW s \in Slots, saves[s] # None
  PROVE  /\ saves[s] \in Saves /\ saves[s].next \in Configs
         /\ saves[s].seen \subseteq SUBSET Aliases
         /\ \A a \in {"landed", "applying", "refreshing"}, v \in SUBSET SUBSET Aliases :
              /\ [saves[s] EXCEPT !.at = a] \in Saves
              /\ [saves[s] EXCEPT !.at = a, !.seen = v] \in Saves
              /\ [saves[s] EXCEPT !.seen = v] \in Saves
<1>1. saves[s] \in Saves
  BY DEF TypeOK
<1>2. ASSUME NEW r \in Saves, NEW a \in {"landed", "applying", "refreshing"},
             NEW v \in SUBSET SUBSET Aliases
      PROVE  /\ r.next \in Configs /\ r.seen \subseteq SUBSET Aliases
             /\ [r EXCEPT !.at = a] \in Saves
             /\ [r EXCEPT !.at = a, !.seen = v] \in Saves
             /\ [r EXCEPT !.seen = v] \in Saves
  <2>1. r.next \in Configs /\ r.seen \subseteq SUBSET Aliases
    BY DEF Saves
  <2>2. [r EXCEPT !.at = a] \in Saves
    BY DEF Saves
  <2>3. [r EXCEPT !.at = a, !.seen = v] \in Saves
    BY DEF Saves
  <2>4. [r EXCEPT !.seen = v] \in Saves
    BY DEF Saves
  <2> QED
    BY <2>1, <2>2, <2>3, <2>4
<1> QED
  BY <1>1, <1>2

LEMMA CatalogTypes ==
  ASSUME NEW hosts \in Seq(Entries), NEW seen \in SUBSET Aliases,
        catalog' = BuildHostCatalog(hosts, seen),
         ssh \subseteq [id : Aliases, alias : Aliases]
  PROVE  /\ catalog' \subseteq Profiles
         /\ Known(catalog') \subseteq [id : Aliases, alias : Aliases]
         /\ SyncHosts(catalog') \subseteq [id : Aliases, alias : Aliases]
<1>1. catalog' \subseteq Profiles
  BY CatalogFacts
<1>2. Known(catalog') \subseteq [id : Aliases, alias : Aliases]
  BY <1>1 DEF Known, Profiles
<1> QED
  BY <1>1, <1>2 DEF SyncHosts

LEMMA InitIsTyped == Init => Typed
<1> SUFFICES ASSUME Init PROVE Typed
  OBVIOUS
<1>1. DefaultConfig \in Configs /\ {} \subseteq Domains
  BY DEF DefaultConfig, Configs
<1>2. /\ file \in [version : 1..2, backup : BOOLEAN, config : Configs]
      /\ saves \in [Slots -> Saves \cup {None}]
      /\ refreshes \in [{"monitor", "key"} -> Discoveries \cup {None}]
  <2>1. 1 \in 1..2
    OBVIOUS
  <2>2. file \in [version : 1..2, backup : BOOLEAN, config : Configs]
    BY <1>1, <2>1 DEF Init
  <2> QED
    BY <2>2 DEF Init, NoSaves, NoRefreshes
<1>4. TypeOK
  BY <1>1, <1>2 DEF Init, TypeOK
<1>3. Shapes
  BY DEF Init, Shapes, At, NoSaves, NoRefreshes
<1> QED
  BY <1>3, <1>4 DEF Typed

\* A save begins: who asks for what.
LEMMA Begins ==
  ASSUME Typed, NEW s \in Slots, PersistSave(s) \/ Submit(s) \/ AllowAlways(s)
  PROVE  /\ \E by \in {"panel", "prompt", "form", "permission"}, next \in Configs,
              unusual \in SUBSET {"stale", "outdated"} :
              /\ Begin(s, by, next, unusual)
              /\ [by |-> by, next |-> next, at |-> "writing", seen |-> {}] \in Saves
              /\ by = "panel" => PersistSave(s) /\ next = panel.draft
                                /\ (panel.original # app => "stale" \in unusual)
              /\ by \in {"prompt", "form"} => Submit(s) /\ next \in Submissions(modal)
                                              /\ unusual = Outdated(modal)
              /\ by = "permission" => /\ AllowAlways(s) /\ next = run'
                                     /\ run'.setting = run.setting /\ run'.hosts = run.hosts
              /\ by # "permission" => run' = run
         /\ run' \in Configs /\ panel' \in Panels \cup {None} /\ modal' \in Modals \cup {None}
<1>t. TypeOK /\ Shapes
  BY DEF Typed
<1>r. \A by \in {"panel", "prompt", "form", "permission"}, next \in Configs :
        [by |-> by, next |-> next, at |-> "writing", seen |-> {}] \in Saves
  BY DEF Saves
<1>1. CASE PersistSave(s)
  <2>1. panel.draft \in Configs /\ panel' \in Panels
    BY <1>t, <1>1 DEF PersistSave, TypeOK, Panels
  <2>2. Begin(s, "panel", panel.draft, IF panel.original # app THEN {"stale"} ELSE {}) /\ run' = run
    BY <1>1 DEF PersistSave
  <2>3. (IF panel.original # app THEN {"stale"} ELSE {}) \in SUBSET {"stale", "outdated"}
    OBVIOUS
  <2>4. run' \in Configs /\ modal' \in Modals \cup {None}
    BY <1>t, <1>1 DEF PersistSave, TypeOK
  <2> QED
    BY <1>1, <1>r, <2>1, <2>2, <2>3, <2>4
<1>2. CASE Submit(s)
  <2>1. modal' \in Modals
    BY <1>t, <1>2 DEF Submit, TypeOK, Modals
  <2>2. PICK next \in Submissions(modal) :
          Begin(s, IF modal.kind = "edit" THEN "form" ELSE "prompt", next, Outdated(modal))
    BY <1>2 DEF Submit
  <2>3. next \in Configs
    BY <1>t, <1>2, SubmissionFacts DEF Submit
  <2>4. Outdated(modal) \in SUBSET {"stale", "outdated"} /\ run' = run
    BY <1>2 DEF Outdated, Submit
  <2>5. run' \in Configs /\ panel' \in Panels \cup {None}
    BY <1>t, <1>2 DEF Submit, TypeOK
  <2>6. PICK by \in {"prompt", "form"} : Begin(s, by, next, Outdated(modal))
    BY <2>2
  <2> QED
    BY <1>2, <1>r, <2>1, <2>2, <2>3, <2>4, <2>5, <2>6
<1>3. CASE AllowAlways(s)
  <2>1. PICK d \in Domains : run' = [run EXCEPT !.domains = gate \cup {d}]
                             /\ Begin(s, "permission", run', {})
    BY <1>3 DEF AllowAlways
  <2>2. run \in Configs /\ gate \cup {d} \in SUBSET Domains
    BY <1>t DEF TypeOK
  <2>3. run' \in Configs /\ run'.setting = run.setting /\ run'.hosts = run.hosts
    BY <2>1, <2>2 DEF Configs
  <2>4. panel' \in Panels \cup {None} /\ modal' \in Modals \cup {None}
    BY <1>t, <1>3 DEF AllowAlways, TypeOK
  <2> QED
    BY <1>3, <1>r, <2>1, <2>3, <2>4
<1> QED
  BY <1>1, <1>2, <1>3

LEMMA TypesKept == Typed /\ [Next]_vars => TypeOK'
<1> SUFFICES ASSUME Typed, [Next]_vars PROVE TypeOK'
  OBVIOUS
<1>t. TypeOK /\ Shapes
  BY DEF Typed
<1>d. DefaultConfig \in Configs
  BY DEF DefaultConfig, Configs
<1>f. file \in [version : 1..2, backup : BOOLEAN, config : Configs] /\ file.config \in Configs
      /\ file.config.domains \subseteq Domains /\ file.config.hosts \in Seq(Entries)
  BY <1>t DEF TypeOK, Configs
<1>n. NoSaves \in [Slots -> Saves \cup {None}]
      /\ NoRefreshes \in [{"monitor", "key"} -> Discoveries \cup {None}]
  BY DEF NoSaves, NoRefreshes
<1>h. /\ run.hosts \in Seq(Entries) /\ sidebar.hosts \in Seq(Entries)
      /\ sshConfig \in SUBSET Aliases
  BY <1>t DEF TypeOK, Configs
<1>1. CASE UNCHANGED vars
  BY <1>t, <1>1 DEF TypeOK, vars, memory
<1>2. CASE BackUp \/ Migrate
  <2>0. 2 \in 1..2
    OBVIOUS
  <2>1. /\ [file EXCEPT !.backup = TRUE] \in [version : 1..2, backup : BOOLEAN, config : Configs]
        /\ [file EXCEPT !.version = 2] \in [version : 1..2, backup : BOOLEAN, config : Configs]
    BY <1>f, <2>0
  <2>2. file' \in [version : 1..2, backup : BOOLEAN, config : Configs]
    BY <1>2, <2>1 DEF BackUp, Migrate
  <2>3. UNCHANGED <<phase, sshConfig, memory, used, odd>>
    BY <1>2 DEF BackUp, Migrate
  <2> QED
    BY <1>t, <2>2, <2>3 DEF TypeOK, memory
<1>3. CASE Load
  <2>1. catalog' = BuildHostCatalog(file.config.hosts, sshConfig)
    BY <1>3 DEF Load
  <2>2. catalog' \subseteq Profiles /\ Known(catalog') \subseteq [id : Aliases, alias : Aliases]
    BY <1>t, <1>f, <1>h, <2>1, CatalogTypes DEF TypeOK
  <2> QED
    BY <1>t, <1>3, <1>f, <2>2 DEF TypeOK, Load
<1>4. CASE Open \/ Crash
  BY <1>t, <1>4, <1>d, <1>n DEF TypeOK, Open, Crash, memory
<1>5. CASE OpenSettings \/ CloseSettings
  <2>1. Panel(app) \in Panels
    BY <1>t DEF TypeOK, Panel, Panels
  <2>2. panel' \in Panels \cup {None}
    BY <1>5, <2>1 DEF OpenSettings, CloseSettings
  <2> QED
    BY <1>t, <1>5, <2>2 DEF TypeOK, OpenSettings, CloseSettings
<1>6. CASE ToggleSetting \/ AskToSave \/ KeepEditing
  <2>0. panel \in Panels
    BY <1>t, <1>6 DEF TypeOK, ToggleSetting, AskToSave, KeepEditing
  <2>1. panel' \in Panels
    <3>1. CASE ToggleSetting
      <4>1. panel.draft \in Configs
        BY <2>0 DEF Panels
      <4>2. Written(panel.draft) \in Configs
        BY <4>1 DEF Written, Configs
      <4>3. panel' = [panel EXCEPT !.draft = Written(panel.draft)]
        BY <3>1 DEF ToggleSetting
      <4> QED
        BY <2>0, <4>2, <4>3 DEF Panels
    <3>2. CASE AskToSave \/ KeepEditing
      BY <2>0, <3>2 DEF AskToSave, KeepEditing, Panels
    <3> QED
      BY <1>6, <3>1, <3>2
  <2> QED
    BY <1>t, <1>6, <2>1 DEF TypeOK, ToggleSetting, AskToSave, KeepEditing
<1>7. CASE OpenPrompt \/ CloseModal
  <2>1. modal' \in Modals \cup {None}
    BY <1>t, <1>7 DEF TypeOK, OpenPrompt, CloseModal, Prompt, Modals
  <2> QED
    BY <1>t, <1>7, <2>1 DEF TypeOK, OpenPrompt, CloseModal
<1>8. CASE EditSshConfig
  <2>0. Edit(phase = "running")
    BY <1>8 DEF EditSshConfig
  <2>1. sshConfig' \in SUBSET Aliases
    BY <1>h, <2>0 DEF Edit
  <2>2. ASSUME NEW r \in {"monitor", "key"}
        PROVE  (IF refreshes[r] = None THEN None ELSE MayRead(refreshes[r]))
                 \in Discoveries \cup {None}
    BY <1>t, <2>1 DEF TypeOK, MayRead, Discoveries
  <2>3. ASSUME NEW s \in Slots
        PROVE  (IF saves[s] # None /\ saves[s].at = "refreshing"
                THEN MayRead(saves[s]) ELSE saves[s])
                 \in Saves \cup {None}
    <3>1. CASE saves[s] # None
      <4>1. MayRead(saves[s]) = [saves[s] EXCEPT !.seen = saves[s].seen \cup {sshConfig'}]
        BY DEF MayRead
      <4>2. saves[s].seen \cup {sshConfig'} \in SUBSET SUBSET Aliases
        BY <1>t, <2>1, <3>1, SaveSteps
      <4>3. [saves[s] EXCEPT !.seen = saves[s].seen \cup {sshConfig'}] \in Saves
        BY <1>t, <3>1, <4>2, SaveSteps
      <4> QED
        BY <1>t, <3>1, <4>1, <4>3, SaveSteps
    <3>2. CASE saves[s] = None
      BY <3>2
    <3> QED
      BY <3>1, <3>2
  <2>4. /\ refreshes' \in [{"monitor", "key"} -> Discoveries \cup {None}]
        /\ saves' \in [Slots -> Saves \cup {None}]
    BY <1>t, <2>0, <2>2, <2>3 DEF Edit, TypeOK
  <2>5. timer' \in BOOLEAN
        /\ odd' \subseteq {"stale", "swapped", "crossed", "outdated", "reclaimed"}
    BY <1>t, <2>0 DEF Edit, TypeOK, Claims
  <2> QED
    BY <1>t, <2>0, <2>1, <2>4, <2>5 DEF Edit, TypeOK
<1>9. CASE TimerFires \/ Focus \/ RefreshKey
  <2>1. Discovering(run.hosts) \in Discoveries /\ Discovering(sidebar.hosts) \in Discoveries
    BY <1>h DEF Discovering, Discoveries
  <2>2. refreshes' \in [{"monitor", "key"} -> Discoveries \cup {None}]
    BY <1>t, <1>9, <2>1 DEF TypeOK, TimerFires, Focus, RefreshKey, Monitor
  <2> QED
    BY <1>t, <1>9, <2>2 DEF TypeOK, TimerFires, Focus, RefreshKey, Crossing
<1>10. ASSUME NEW r \in {"monitor", "key"}, Refreshed(r) PROVE TypeOK'
  <2>1. PICK seen \in refreshes[r].seen : catalog' = BuildHostCatalog(refreshes[r].hosts, seen)
    BY <1>10 DEF Refreshed
  <2>2. refreshes[r].hosts \in Seq(Entries) /\ seen \in SUBSET Aliases
    BY <1>t, <1>10 DEF Refreshed, TypeOK, Discoveries
  <2>3. catalog' \subseteq Profiles /\ SyncHosts(catalog') \subseteq [id : Aliases, alias : Aliases]
    BY <1>t, <2>1, <2>2, CatalogTypes DEF TypeOK
  <2> QED
    BY <1>t, <1>10, <2>3 DEF Refreshed, TypeOK
<1>11. ASSUME NEW s \in Slots, PersistSave(s) \/ Submit(s) \/ AllowAlways(s) PROVE TypeOK'
  <2>1. PICK by \in {"panel", "prompt", "form", "permission"}, next \in Configs,
             unusual \in SUBSET {"stale", "outdated"} :
          /\ Begin(s, by, next, unusual)
          /\ [by |-> by, next |-> next, at |-> "writing", seen |-> {}] \in Saves
    BY <1>11, Begins DEF Typed
  <2>2. run' \in Configs /\ panel' \in Panels \cup {None} /\ modal' \in Modals \cup {None}
    BY <1>11, Begins DEF Typed
  <2>3. saves' \in [Slots -> Saves \cup {None}]
    BY <1>t, <2>1 DEF Begin, TypeOK
  <2>4. odd' \subseteq {"stale", "swapped", "crossed", "outdated", "reclaimed"}
    BY <1>t, <2>1 DEF Begin, TypeOK
  <2> QED
    BY <1>t, <1>11, <2>2, <2>3, <2>4 DEF PersistSave, Submit, AllowAlways, TypeOK
<1>12. ASSUME NEW s \in Slots, Land(s) PROVE TypeOK'
  <2>1. saves[s] # None
    BY <1>12 DEF Land
  <2>2. saves[s].next \in Configs /\ [saves[s] EXCEPT !.at = "landed"] \in Saves
    BY <1>t, <2>1, SaveSteps
  <2>3. /\ saves' \in [Slots -> Saves \cup {None}]
        /\ file' \in [version : 1..2, backup : BOOLEAN, config : Configs]
    BY <1>t, <1>12, <2>2 DEF Land, TypeOK
  <2>4. odd' \subseteq {"stale", "swapped", "crossed", "outdated", "reclaimed"}
    BY <1>t, <1>12 DEF Land, TypeOK, Claims
  <2> QED
    BY <1>t, <1>12, <2>3, <2>4 DEF Land, TypeOK
<1>13. ASSUME NEW s \in Slots, Fail(s) \/ ApplyPanel(s) PROVE TypeOK'
  <2>1. saves[s] # None
    BY <1>13 DEF Fail, ApplyPanel
  <2>2. saves[s].next \in Configs
    BY <1>t, <2>1, SaveSteps
  <2>p. ASSUME NEW r \in Panels, NEW c \in Configs
        PROVE  /\ [r EXCEPT !.slot = None] \in Panels
               /\ [r EXCEPT !.original = c, !.draft = c, !.slot = None] \in Panels
    BY DEF Panels
  <2>m. ASSUME NEW r \in Modals PROVE [r EXCEPT !.slot = None] \in Modals
    BY DEF Modals
  <2>3. panel' \in Panels \cup {None} /\ modal' \in Modals \cup {None}
    <3>1. panel \in Panels \cup {None} /\ modal \in Modals \cup {None}
      BY <1>t DEF TypeOK
    <3>2. CASE Fail(s)
      BY <2>2, <2>p, <2>m, <3>1, <3>2 DEF Fail, PanelEnds, ModalEnds
    <3>3. CASE ApplyPanel(s)
      BY <2>2, <2>p, <3>1, <3>3 DEF ApplyPanel, PanelEnds
    <3> QED
      BY <1>13, <3>2, <3>3
  <2>4. saves' \in [Slots -> Saves \cup {None}]
    BY <1>t, <1>13 DEF Fail, ApplyPanel, TypeOK
  <2> QED
    BY <1>t, <1>13, <2>3, <2>4 DEF Fail, ApplyPanel, TypeOK
<1>14. ASSUME NEW s \in Slots, Resume(s) PROVE TypeOK'
  <2>1. saves[s] # None
    BY <1>14 DEF Resume
  <2>2. saves[s].next \in Configs /\ [saves[s] EXCEPT !.at = "applying"] \in Saves
    BY <1>t, <2>1, SaveSteps
  <2>3. saves[s].next.domains \subseteq Domains
    BY <2>2 DEF Configs
  <2>4. saves' \in [Slots -> Saves \cup {None}]
    BY <1>t, <1>14, <2>2 DEF Resume, TypeOK
  <2>5. {run', app', sidebar'} \subseteq Configs /\ gate' \subseteq Domains
    BY <1>t, <1>14, <2>2, <2>3 DEF Resume, TypeOK, Adopt
  <2> QED
    BY <1>t, <1>14, <2>4, <2>5 DEF Resume, TypeOK
<1>15. ASSUME NEW s \in Slots, ApplyPrompt(s) PROVE TypeOK'
  <2>1. saves[s] # None
    BY <1>15 DEF ApplyPrompt
  <2>2. saves[s].next \in Configs
        /\ [saves[s] EXCEPT !.at = "refreshing", !.seen = {sshConfig}] \in Saves
    BY <1>t, <1>h, <2>1, SaveSteps
  <2>3. saves' \in [Slots -> Saves \cup {None}]
    BY <1>t, <1>15, <2>2 DEF ApplyPrompt, TypeOK
  <2>4. odd' \subseteq {"stale", "swapped", "crossed", "outdated", "reclaimed"}
    BY <1>t, <1>15 DEF ApplyPrompt, TypeOK, Crossing
  <2> QED
    BY <1>t, <1>15, <2>2, <2>3, <2>4 DEF ApplyPrompt, TypeOK
<1>16. ASSUME NEW s \in Slots, RefreshPrompt(s) PROVE TypeOK'
  <2>1. saves[s] # None
    BY <1>16 DEF RefreshPrompt
  <2>2. PICK seen \in saves[s].seen : catalog' = BuildHostCatalog(saves[s].next.hosts, seen)
    BY <1>16 DEF RefreshPrompt
  <2>3. saves[s].next.hosts \in Seq(Entries) /\ seen \in SUBSET Aliases
    BY <1>t, <2>1, SaveSteps DEF Configs
  <2>4. catalog' \subseteq Profiles /\ SyncHosts(catalog') \subseteq [id : Aliases, alias : Aliases]
    BY <1>t, <2>2, <2>3, CatalogTypes DEF TypeOK
  <2>5. modal' \in Modals \cup {None} /\ saves' \in [Slots -> Saves \cup {None}]
    BY <1>t, <1>16 DEF RefreshPrompt, TypeOK, ModalEnds, Modals
  <2> QED
    BY <1>t, <1>16, <2>4, <2>5 DEF RefreshPrompt, TypeOK
<1> QED
  BY <1>1, <1>2, <1>3, <1>4, <1>5, <1>6, <1>7, <1>8, <1>9, <1>10, <1>11, <1>12, <1>13, <1>14,
     <1>15, <1>16 DEF Next

-----------------------------------------------------------------------------
(* The saves                                                               *)

\* The steps that change none of the saves but perhaps the versions they may read.
Elsewhere ==
  \/ UNCHANGED vars
  \/ BackUp \/ Migrate \/ Load \/ Open
  \/ OpenSettings \/ ToggleSetting \/ AskToSave \/ KeepEditing \/ CloseSettings
  \/ OpenPrompt \/ CloseModal
  \/ EditSshConfig \/ TimerFires \/ Focus \/ RefreshKey
  \/ \E r \in {"monitor", "key"} : Refreshed(r)

LEMMA Steps ==
  ASSUME [Next]_vars
  PROVE  \/ Elsewhere \/ Crash
         \/ \E s \in Slots : PersistSave(s) \/ Submit(s) \/ AllowAlways(s)
         \/ \E s \in Slots : Land(s) \/ Fail(s) \/ Resume(s)
         \/ \E s \in Slots : ApplyPanel(s) \/ ApplyPrompt(s) \/ RefreshPrompt(s)
BY DEF Next, Elsewhere

\* The other saves are left alone.
OnlySave(s) == \A t \in Slots : t # s => saves'[t] = saves[t]

\* The save goes on.
Goes(s, from, to) ==
  /\ saves[s] # None /\ saves'[s] # None /\ saves[s].at = from /\ saves'[s].at = to
  /\ saves'[s].by = saves[s].by /\ saves'[s].next = saves[s].next

Starts(s, by, next) ==
  /\ saves[s] = None /\ saves'[s] # None /\ saves'[s].at = "writing"
  /\ saves'[s].by = by /\ saves'[s].next = next

Ends(s) == saves[s] # None /\ saves'[s] = None

LEMMA SaveStarts ==
  ASSUME Typed, NEW s \in Slots, NEW by, NEW next, NEW unusual, Begin(s, by, next, unusual),
         [by |-> by, next |-> next, at |-> "writing", seen |-> {}] \in Saves
  PROVE  Starts(s, by, next) /\ OnlySave(s)
<1>1. saves \in [Slots -> Saves \cup {None}] /\ None \notin Saves
  BY NoneAssumption DEF Typed, TypeOK
<1>2. /\ saves[s] = None
      /\ saves' = [saves EXCEPT ![s] = [by |-> by, next |-> next, at |-> "writing", seen |-> {}]]
  BY DEF Begin, Free
<1> QED
  BY <1>1, <1>2 DEF Starts, OnlySave

LEMMA SaveBegins ==
  ASSUME Typed, NEW s \in Slots, PersistSave(s) \/ Submit(s) \/ AllowAlways(s)
  PROVE  saves[s] = None /\ saves'[s] # None /\ saves'[s].at = "writing" /\ OnlySave(s)
<1>1. PICK by, next, unusual :
        /\ Begin(s, by, next, unusual)
        /\ [by |-> by, next |-> next, at |-> "writing", seen |-> {}] \in Saves
  BY Begins
<1> QED
  BY <1>1, SaveStarts DEF Starts

LEMMA SaveGoesOn ==
  ASSUME Typed, NEW s \in Slots
  PROVE  /\ Land(s) => Goes(s, "writing", "landed") /\ OnlySave(s)
         /\ Resume(s) /\ saves[s].by # "permission" => Goes(s, "landed", "applying") /\ OnlySave(s)
         /\ ApplyPrompt(s) => /\ Goes(s, "applying", "refreshing") /\ OnlySave(s)
                              /\ saves'[s].seen = {sshConfig}
         /\ (\/ Fail(s) \/ ApplyPanel(s) \/ RefreshPrompt(s)
             \/ Resume(s) /\ saves[s].by = "permission") =>
              Ends(s) /\ OnlySave(s)
<1>1. saves \in [Slots -> Saves \cup {None}] /\ None \notin Saves /\ TypeOK
  BY NoneAssumption DEF Typed, TypeOK
<1>2. ASSUME saves[s] # None, NEW a \in {"landed", "applying", "refreshing"},
             saves' = [saves EXCEPT ![s].at = a]
      PROVE  Goes(s, saves[s].at, a) /\ OnlySave(s)
  <2>1. [saves[s] EXCEPT !.at = a] \in Saves /\ saves[s] \in Saves
    BY <1>1, <1>2, SaveSteps
  <2>2. saves'[s] = [saves[s] EXCEPT !.at = a] /\ OnlySave(s)
    BY <1>1, <1>2 DEF OnlySave
  <2>3. saves'[s].at = a /\ saves'[s].by = saves[s].by /\ saves'[s].next = saves[s].next
    BY <2>1, <2>2 DEF Saves
  <2> QED
    BY <1>1, <1>2, <2>1, <2>2, <2>3 DEF Goes
<1>3. ASSUME Land(s) PROVE Goes(s, "writing", "landed") /\ OnlySave(s)
  BY <1>2, <1>3 DEF Land
<1>4. ASSUME Resume(s), saves[s].by # "permission"
      PROVE  Goes(s, "landed", "applying") /\ OnlySave(s)
  BY <1>2, <1>4 DEF Resume
<1>5. ASSUME ApplyPrompt(s)
      PROVE  Goes(s, "applying", "refreshing") /\ OnlySave(s) /\ saves'[s].seen = {sshConfig}
  <2>1. saves[s] # None /\ saves[s].at = "applying"
        /\ saves' = [saves EXCEPT ![s].at = "refreshing", ![s].seen = {sshConfig}]
    BY <1>5 DEF ApplyPrompt
  <2>2. {sshConfig} \in SUBSET SUBSET Aliases
    BY <1>1 DEF TypeOK
  <2>3. [saves[s] EXCEPT !.at = "refreshing", !.seen = {sshConfig}] \in Saves /\ saves[s] \in Saves
    BY <1>1, <2>1, <2>2, SaveSteps
  <2>4. saves'[s] = [saves[s] EXCEPT !.at = "refreshing", !.seen = {sshConfig}] /\ OnlySave(s)
    BY <1>1, <2>1 DEF OnlySave
  <2>5. /\ saves'[s].at = "refreshing" /\ saves'[s].by = saves[s].by
        /\ saves'[s].next = saves[s].next /\ saves'[s].seen = {sshConfig}
    BY <2>3, <2>4 DEF Saves
  <2> QED
    BY <1>1, <2>1, <2>3, <2>4, <2>5 DEF Goes
<1>6. ASSUME \/ Fail(s) \/ ApplyPanel(s) \/ RefreshPrompt(s)
             \/ Resume(s) /\ saves[s].by = "permission"
      PROVE  Ends(s) /\ OnlySave(s)
  <2>1. saves[s] # None /\ saves' = [saves EXCEPT ![s] = None]
    BY <1>6 DEF Fail, ApplyPanel, RefreshPrompt, Resume
  <2> QED
    BY <1>1, <2>1 DEF Ends, OnlySave
<1> QED
  BY <1>3, <1>4, <1>5, <1>6

\* What a save is, without what it may have read.
LEMMA SavesElsewhere ==
  ASSUME Typed, Elsewhere, NEW s \in Slots
  PROVE  /\ saves'[s] = None <=> saves[s] = None
         /\ saves[s] # None => Goes(s, saves[s].at, saves[s].at)
         /\ ~EditSshConfig => saves' = saves
<1>t. TypeOK
  BY DEF Typed
<1>1. CASE EditSshConfig
  <2>1. /\ saves'[s] = IF saves[s] # None /\ saves[s].at = "refreshing"
                        THEN MayRead(saves[s]) ELSE saves[s]
        /\ sshConfig' \subseteq Aliases
    BY <1>t, <1>1 DEF EditSshConfig, Edit, TypeOK
  <2>2. CASE saves[s] # None /\ saves[s].at = "refreshing"
    <3>1. MayRead(saves[s]) = [saves[s] EXCEPT !.seen = saves[s].seen \cup {sshConfig'}]
      BY DEF MayRead
    <3>v. saves[s].seen \cup {sshConfig'} \in SUBSET SUBSET Aliases
      BY <1>t, <2>1, <2>2, SaveSteps
    <3>w. saves[s] # None
      BY <2>2
    <3>2. MayRead(saves[s]) \in Saves /\ saves[s] \in Saves
      <4>1. [saves[s] EXCEPT !.seen = saves[s].seen \cup {sshConfig'}] \in Saves
        BY <1>t, <3>w, <3>v, SaveSteps
      <4> QED
        BY <1>t, <3>w, <3>1, <4>1, SaveSteps
    <3>3. MayRead(saves[s]).at = saves[s].at /\ MayRead(saves[s]).by = saves[s].by
          /\ MayRead(saves[s]).next = saves[s].next
      BY <3>1, <3>2 DEF Saves
    <3> QED
      BY <1>1, <2>1, <2>2, <3>2, <3>3, NoneAssumption DEF Goes
  <2>3. CASE ~(saves[s] # None /\ saves[s].at = "refreshing")
    BY <1>1, <2>1, <2>3 DEF Goes
  <2> QED
    BY <2>2, <2>3
<1>2. CASE ~EditSshConfig
  <2>1. saves' = saves
    BY <1>2 DEF Elsewhere, vars, memory, BackUp, Migrate, Load, Open, OpenSettings, ToggleSetting,
       AskToSave, KeepEditing, CloseSettings, OpenPrompt, CloseModal, TimerFires, Focus, RefreshKey,
       Refreshed
  <2> QED
    BY <1>2, <2>1 DEF Goes
<1> QED
  BY <1>1, <1>2

-----------------------------------------------------------------------------
(* The panels and the prompts; what SshClient knows                        *)

LEMMA ShapesKept == Typed /\ [Next]_vars => Shapes'
<1> SUFFICES ASSUME Typed, [Next]_vars PROVE Shapes'
  OBVIOUS
<1>t. TypeOK /\ Shapes /\ TypeOK'
  BY TypesKept DEF Typed
\* The panel and the modal.
<1>p. (panel # None => panel.draft.hosts = panel.original.hosts)'
  <2>c. ASSUME NEW c \in Configs PROVE c.hosts = c.hosts /\ Written(c).hosts = c.hosts
    BY DEF Written, Configs
  <2>r. ASSUME NEW r \in Panels, NEW d, NEW e
        PROVE  /\ [r EXCEPT !.slot = d].draft = r.draft
               /\ [r EXCEPT !.slot = d].original = r.original
               /\ [r EXCEPT !.asked = d].draft = r.draft
               /\ [r EXCEPT !.asked = d].original = r.original
               /\ [r EXCEPT !.slot = d, !.asked = e].draft = r.draft
               /\ [r EXCEPT !.slot = d, !.asked = e].original = r.original
               /\ [r EXCEPT !.draft = d].draft = d /\ [r EXCEPT !.draft = d].original = r.original
               /\ [r EXCEPT !.original = e, !.draft = e, !.slot = d].draft = e
               /\ [r EXCEPT !.original = e, !.draft = e, !.slot = d].original = e
               /\ r.draft \in Configs
    BY DEF Panels
  <2>0. /\ panel \in Panels \cup {None} /\ app \in Configs
        /\ panel # None => panel.draft.hosts = panel.original.hosts
    BY <1>t DEF TypeOK, Shapes
  <2>1. CASE UNCHANGED panel \/ panel' = None
    BY <2>0, <2>1
  <2>2. CASE OpenSettings
    BY <2>0, <2>2 DEF OpenSettings, Panel
  <2>3. CASE ToggleSetting \/ AskToSave \/ KeepEditing
    <3>1. panel \in Panels
      BY <2>0, <2>3 DEF ToggleSetting, AskToSave, KeepEditing
    <3>2. CASE ToggleSetting
      <4>1. panel' = [panel EXCEPT !.draft = Written(panel.draft)]
        BY <3>2 DEF ToggleSetting
      <4>2. panel'.draft = Written(panel.draft) /\ panel'.original = panel.original
            /\ panel.draft \in Configs
        BY <2>r, <3>1, <4>1
      <4>3. Written(panel.draft).hosts = panel.draft.hosts
        BY <2>c, <4>2
      <4> QED
        BY <2>0, <3>1, <4>2, <4>3, NoneAssumption
    <3>3. CASE AskToSave \/ KeepEditing
      <4>1. PICK d : panel' = [panel EXCEPT !.asked = d]
        BY <3>3 DEF AskToSave, KeepEditing
      <4>2. panel'.draft = panel.draft /\ panel'.original = panel.original
        BY <2>r, <3>1, <4>1
      <4> QED
        BY <2>0, <3>1, <4>2, NoneAssumption
    <3> QED
      BY <2>3, <3>2, <3>3
  <2>4. ASSUME NEW s \in Slots, PersistSave(s) \/ Fail(s) \/ ApplyPanel(s)
        PROVE  (panel # None => panel.draft.hosts = panel.original.hosts)'
    <3>1. CASE panel' = panel
      BY <2>0, <3>1
    <3>2. CASE panel' # panel
      <4>1. panel \in Panels
        BY <2>0, <2>4, <3>2 DEF PersistSave, Fail, ApplyPanel, PanelEnds
      <4>2. CASE PersistSave(s)
        <5>1. panel' = [panel EXCEPT !.slot = s, !.asked = FALSE]
          BY <4>2 DEF PersistSave
        <5>2. panel'.draft = panel.draft /\ panel'.original = panel.original
          BY <2>r, <4>1, <5>1
        <5> QED
          BY <2>0, <4>1, <5>2, NoneAssumption
      <4>3. CASE Fail(s)
        <5>1. panel' = [panel EXCEPT !.slot = None]
          BY <3>2, <4>3 DEF Fail
        <5>2. panel'.draft = panel.draft /\ panel'.original = panel.original
          BY <2>r, <4>1, <5>1
        <5> QED
          BY <2>0, <4>1, <5>2, NoneAssumption
      <4>4. CASE ApplyPanel(s)
        <5>1. panel' = [panel EXCEPT !.original = saves[s].next, !.draft = saves[s].next,
                                     !.slot = None]
          BY <3>2, <4>4 DEF ApplyPanel
        <5>2. panel'.draft = panel'.original
          BY <2>r, <4>1, <5>1
        <5> QED
          BY <5>2
      <4> QED
        BY <2>4, <4>2, <4>3, <4>4
    <3> QED
      BY <3>1, <3>2
  <2>5. \/ UNCHANGED panel \/ panel' = None
        \/ OpenSettings \/ ToggleSetting \/ AskToSave \/ KeepEditing
        \/ \E s \in Slots : PersistSave(s) \/ Fail(s) \/ ApplyPanel(s)
    BY DEF Next, vars, memory, BackUp, Migrate, Load, Open, Crash, CloseSettings, OpenPrompt,
       CloseModal, EditSshConfig, Edit, TimerFires, Focus, RefreshKey, Refreshed, Submit,
       AllowAlways, Land, Resume, ApplyPrompt, RefreshPrompt
  <2> QED
    BY <2>1, <2>2, <2>3, <2>4, <2>5
<1>m. (modal # None /\ modal.kind # "add" => modal.profile # None)'
  <2>r. ASSUME NEW r \in Modals, NEW d
        PROVE  [r EXCEPT !.slot = d].kind = r.kind /\ [r EXCEPT !.slot = d].profile = r.profile
    BY DEF Modals
  <2>0. /\ modal \in Modals \cup {None}
        /\ modal # None /\ modal.kind # "add" => modal.profile # None
    BY <1>t DEF TypeOK, Shapes
  <2>1. CASE UNCHANGED modal \/ modal' = None
    BY <2>0, <2>1
  <2>2. CASE OpenPrompt
    <3>1. \A p \in catalog : p # None
      BY <1>t, NoneAssumption DEF TypeOK
    <3> QED
      BY <2>2, <3>1 DEF OpenPrompt, Prompt
  <2>3. ASSUME NEW s \in Slots, Submit(s) \/ Fail(s) \/ RefreshPrompt(s)
        PROVE  (modal # None /\ modal.kind # "add" => modal.profile # None)'
    <3>1. CASE modal' = modal \/ modal' = None
      BY <2>0, <3>1
    <3>2. CASE modal' # modal /\ modal' # None
      <4>1. modal \in Modals /\ \E d : modal' = [modal EXCEPT !.slot = d]
        BY <2>0, <2>3, <3>2 DEF Submit, Fail, RefreshPrompt, ModalEnds
      <4>2. modal'.kind = modal.kind /\ modal'.profile = modal.profile
        BY <2>r, <4>1
      <4> QED
        BY <2>0, <4>1, <4>2, NoneAssumption
    <3> QED
      BY <3>1, <3>2
  <2>4. \/ UNCHANGED modal \/ modal' = None \/ OpenPrompt
        \/ \E s \in Slots : Submit(s) \/ Fail(s) \/ RefreshPrompt(s)
    BY DEF Next, vars, memory, BackUp, Migrate, Load, Open, Crash, OpenSettings, ToggleSetting,
       AskToSave, KeepEditing, CloseSettings, CloseModal, EditSshConfig, Edit, TimerFires, Focus,
       RefreshKey, Refreshed, PersistSave, AllowAlways, Land, Resume, ApplyPanel, ApplyPrompt
  <2> QED
    BY <2>1, <2>2, <2>3, <2>4
\* The saves.
<1>s. ASSUME NEW t \in Slots
      PROVE  (/\ At(t, "refreshing") => Prompts(t)
              /\ At(t, "applying") => saves[t].by # "permission")'
  <2>0. /\ At(t, "refreshing") => Prompts(t)
        /\ At(t, "applying") => saves[t].by # "permission"
    BY <1>t DEF Shapes
  <2>1. CASE Elsewhere
    BY <2>0, <2>1, SavesElsewhere DEF At, Prompts, Goes
  <2>2. CASE Crash
    BY <2>2 DEF Crash, NoSaves, At
  <2>3. ASSUME NEW s \in Slots, PersistSave(s) \/ Submit(s) \/ AllowAlways(s)
        PROVE  (/\ At(t, "refreshing") => Prompts(t)
                /\ At(t, "applying") => saves[t].by # "permission")'
    BY <2>0, <2>3, SaveBegins DEF At, Prompts, OnlySave
  <2>4. ASSUME NEW s \in Slots,
               \/ Land(s) \/ Fail(s) \/ Resume(s)
               \/ ApplyPanel(s) \/ ApplyPrompt(s) \/ RefreshPrompt(s)
        PROVE  (/\ At(t, "refreshing") => Prompts(t)
                /\ At(t, "applying") => saves[t].by # "permission")'
    <3>1. CASE t # s
      BY <2>0, <2>4, <3>1, SaveGoesOn DEF At, Prompts, OnlySave
    <3>2. CASE t = s
      BY <2>0, <2>4, <3>2, SaveGoesOn DEF At, Prompts, Goes, Ends, ApplyPrompt
    <3> QED
      BY <3>1, <3>2
  <2> QED
    BY <2>1, <2>2, <2>3, <2>4, Steps
<1>r. (phase # "running" => /\ saves = NoSaves /\ panel = None /\ modal = None
                            /\ refreshes = NoRefreshes /\ ~timer)'
  <2>0. phase # "running" => /\ saves = NoSaves /\ panel = None /\ modal = None
                             /\ refreshes = NoRefreshes /\ ~timer
    BY <1>t DEF Shapes
  <2>1. CASE phase' = "running"
    BY <2>1
  <2>2. CASE Crash
    BY <2>2 DEF Crash
  <2>3. CASE phase # "running" /\ UNCHANGED memory
    BY <2>0, <2>3 DEF memory
  <2>4. CASE phase # "running" /\ (Load \/ EditSshConfig)
    <3>1. \A r \in {"monitor", "key"} : NoRefreshes[r] = None
      BY DEF NoRefreshes
    <3>2. \A s \in Slots : NoSaves[s] = None
      BY DEF NoSaves
    <3>3. CASE Load
      BY <2>0, <2>4, <3>3 DEF Load
    <3>4. CASE EditSshConfig
      <4>1. /\ refreshes' = [r \in {"monitor", "key"} |-> None] /\ saves' = [s \in Slots |-> None]
            /\ ~timer' /\ UNCHANGED <<panel, modal>>
        BY <2>0, <2>4, <3>1, <3>2, <3>4, <1>t DEF EditSshConfig, Edit, NoRefreshes, NoSaves, TypeOK
      <4> QED
        BY <2>0, <2>4, <4>1 DEF NoRefreshes, NoSaves
    <3> QED
      BY <2>4, <3>3, <3>4
  <2>5. CASE phase = "running" \/ ~(UNCHANGED memory \/ Crash \/ Load \/ EditSshConfig)
    <3>1. phase = "running" /\ phase' # "running" => Crash
      BY DEF Next, vars, memory, BackUp, Migrate, Load, Open, OpenSettings, ToggleSetting,
         AskToSave, KeepEditing, CloseSettings, OpenPrompt, CloseModal, EditSshConfig, Edit,
         TimerFires, Focus, RefreshKey, Refreshed, PersistSave, Submit, AllowAlways, Land, Fail,
         Resume, ApplyPanel, ApplyPrompt, RefreshPrompt
    <3>2. CASE phase # "running"
      <4>1. /\ \A s \in Slots : saves[s] = None
            /\ \A r \in {"monitor", "key"} : refreshes[r] = None
        BY <2>0, <3>2 DEF NoSaves, NoRefreshes
      <4> QED
        BY <2>0, <2>1, <2>5, <3>2, <4>1 DEF Next, vars, memory, BackUp, Migrate, Open,
           OpenSettings, ToggleSetting, AskToSave, KeepEditing, CloseSettings, OpenPrompt,
           CloseModal, TimerFires, Focus, RefreshKey, Refreshed, PersistSave, Submit, AllowAlways,
           Begin, Land, Fail, Resume, ApplyPanel, ApplyPrompt, RefreshPrompt
    <3> QED
      BY <2>1, <2>2, <3>1, <3>2
  <2> QED
    BY <2>1, <2>2, <2>3, <2>4, <2>5
<1>b. (file.version = 2 => file.backup)'
  <2>0. file.version = 2 => file.backup
    BY <1>t DEF Shapes
  <2>f. file \in [version : 1..2, backup : BOOLEAN, config : Configs]
    BY <1>t DEF TypeOK
  <2>1. \/ UNCHANGED file \/ BackUp \/ Migrate
        \/ \E s \in Slots : Land(s)
    BY DEF Next, vars, memory, Load, Open, Crash, OpenSettings, ToggleSetting, AskToSave,
       KeepEditing, CloseSettings, OpenPrompt, CloseModal, EditSshConfig, Edit, TimerFires, Focus,
       RefreshKey, Refreshed, PersistSave, Submit, AllowAlways, Fail, Resume, ApplyPanel,
       ApplyPrompt, RefreshPrompt
  <2> QED
    BY <2>0, <2>f, <2>1 DEF BackUp, Migrate, Land
<1> QED
  BY <1>p, <1>m, <1>s, <1>r, <1>b DEF Shapes

LEMMA SshFollowsKept == Typed /\ SshFollows /\ [Next]_vars => SshFollows'
<1> SUFFICES ASSUME Typed, SshFollows, [Next]_vars PROVE SshFollows'
  OBVIOUS
<1>1. CASE Load
  BY <1>1 DEF Load, SshFollows
<1>2. CASE Crash
  BY <1>2 DEF Crash, SshFollows, Up
<1>3. ASSUME ssh' = SyncHosts(catalog') PROVE SshFollows'
  BY <1>3 DEF SyncHosts, SshFollows
<1>4. CASE UNCHANGED <<catalog, ssh>> /\ (Up' => Up)
  BY <1>4 DEF SshFollows
<1>5. CASE Elsewhere
  <2>1. CASE \E r \in {"monitor", "key"} : Refreshed(r)
    BY <1>3, <2>1 DEF Refreshed
  <2>2. CASE EditSshConfig \/ TimerFires \/ Focus \/ RefreshKey
    BY <1>4, <2>2 DEF Up, EditSshConfig, Edit, TimerFires, Focus, RefreshKey
  <2>3. CASE UNCHANGED vars \/ BackUp \/ Migrate \/ Open
    BY <1>4, <2>3 DEF Up, vars, memory, BackUp, Migrate, Open
  <2>4. CASE \/ OpenSettings \/ ToggleSetting \/ AskToSave \/ KeepEditing \/ CloseSettings
             \/ OpenPrompt \/ CloseModal
    BY <1>4, <2>4 DEF Up, OpenSettings, ToggleSetting, AskToSave, KeepEditing, CloseSettings,
       OpenPrompt, CloseModal
  <2> QED
    BY <1>1, <1>5, <2>1, <2>2, <2>3, <2>4 DEF Elsewhere
<1>6. ASSUME NEW s \in Slots, RefreshPrompt(s) PROVE SshFollows'
  BY <1>3, <1>6 DEF RefreshPrompt
<1>7. ASSUME NEW s \in Slots, PersistSave(s) \/ Submit(s) \/ AllowAlways(s) \/ Land(s) \/ Fail(s)
      PROVE  SshFollows'
  BY <1>4, <1>7 DEF Up, PersistSave, Submit, AllowAlways, Land, Fail
<1>8. ASSUME NEW s \in Slots, Resume(s) \/ ApplyPanel(s) \/ ApplyPrompt(s) PROVE SshFollows'
  BY <1>4, <1>8 DEF Up, Resume, ApplyPanel, ApplyPrompt
<1> QED
  BY <1>2, <1>5, <1>6, <1>7, <1>8, Steps

-----------------------------------------------------------------------------
(* The gate and the copies                                                 *)

\* Steps that have nothing to do with the file, its copies, the catalog and the saves.
Aside == /\ UNCHANGED <<file, sshConfig, run, app, sidebar, gate, saves, catalog, timer,
                        refreshes, odd>>
         /\ (Up' <=> Up) /\ (phase' = "refused" => phase = "refused")

LEMMA Frames ==
  ASSUME Typed, [Next]_vars
  PROVE  /\ odd \subseteq odd'
         /\ Load \/ ((Up' => Up) /\ (phase' = "refused" => phase = "refused"))
         /\ Elsewhere => \/ Aside \/ BackUp \/ Migrate \/ Load
                         \/ EditSshConfig \/ TimerFires \/ Focus \/ RefreshKey
                         \/ \E r \in {"monitor", "key"} : Refreshed(r)
<1>3. ASSUME \/ UNCHANGED vars \/ Open \/ OpenSettings \/ ToggleSetting \/ AskToSave \/ KeepEditing
             \/ CloseSettings \/ OpenPrompt \/ CloseModal
      PROVE  Aside
  BY <1>3 DEF Aside, Up, vars, memory, Open, OpenSettings, ToggleSetting, AskToSave,
     KeepEditing, CloseSettings, OpenPrompt, CloseModal
<1> DEFINE Goal == /\ odd \subseteq odd'
                   /\ Load \/ ((Up' => Up) /\ (phase' = "refused" => phase = "refused"))
<1>4. ASSUME Elsewhere PROVE Goal
  <2>1. CASE Aside
    BY <2>1 DEF Aside
  <2>2. CASE BackUp \/ Migrate \/ Load
    BY <2>2 DEF Up, BackUp, Migrate, Load
  <2>3. CASE EditSshConfig \/ TimerFires \/ Focus \/ RefreshKey
    BY <2>3 DEF Up, EditSshConfig, Edit, TimerFires, Focus, RefreshKey
  <2>4. CASE \E r \in {"monitor", "key"} : Refreshed(r)
    BY <2>4 DEF Up, Refreshed
  <2> QED
    BY <1>3, <1>4, <2>1, <2>2, <2>3, <2>4 DEF Elsewhere
<1>5. ASSUME Crash PROVE Goal
  BY <1>5 DEF Crash, Up
<1>6. ASSUME NEW s \in Slots, PersistSave(s) \/ Submit(s) \/ AllowAlways(s) PROVE Goal
  BY <1>6 DEF Up, PersistSave, Submit, AllowAlways, Begin
<1>7. ASSUME NEW s \in Slots, Land(s) \/ Fail(s) \/ Resume(s) PROVE Goal
  BY <1>7 DEF Up, Land, Fail, Resume
<1>8. ASSUME NEW s \in Slots, ApplyPanel(s) \/ ApplyPrompt(s) \/ RefreshPrompt(s) PROVE Goal
  BY <1>8 DEF Up, ApplyPanel, ApplyPrompt, RefreshPrompt
<1>9. Goal
  BY <1>4, <1>5, <1>6, <1>7, <1>8, Steps
<1> QED
  BY <1>3, <1>9 DEF Elsewhere

\* A program that starts has no saves under way and reads nothing.
LEMMA Loaded ==
  ASSUME Typed, Load
  PROVE  /\ \A s \in Slots : saves[s] = None /\ saves'[s] = None
         /\ refreshes' = NoRefreshes /\ \A r \in DOMAIN refreshes' : refreshes'[r] = None
         /\ file' = file /\ sshConfig' = sshConfig /\ odd' = odd /\ ~timer'
         /\ catalog' = BuildHostCatalog(file.config.hosts, sshConfig)
         /\ run' = file.config /\ app' = file.config /\ sidebar' = file.config
         /\ gate' = file.config.domains
         /\ phase' = IF EntryIdsUnique(file.config.hosts) /\ UniqueIds(Known(catalog'))
                     THEN "opening" ELSE "refused"
BY DEF Typed, Shapes, Load, NoSaves, NoRefreshes

LEMMA GateFollowsKept == Typed /\ GateFollows /\ [Next]_vars => GateFollows'
<1> SUFFICES ASSUME Typed, GateFollows, [Next]_vars, GateKept'
             PROVE  (/\ \A s, t \in Slots : At(s, "landed") /\ At(t, "landed") => s = t
                     /\ \A s \in Slots : At(s, "landed") =>
                          saves[s].next.domains = file.config.domains
                     /\ (\A s \in Slots : ~At(s, "landed")) => gate = file.config.domains)'
  BY DEF GateFollows
<1> DEFINE Goal == (/\ \A s, t \in Slots : At(s, "landed") /\ At(t, "landed") => s = t
                    /\ \A s \in Slots : At(s, "landed") =>
                         saves[s].next.domains = file.config.domains
                    /\ (\A s \in Slots : ~At(s, "landed")) => gate = file.config.domains)'
<1>1. CASE Load
  BY <1>1, Loaded DEF At
<1>2. CASE ~Load
  <2>1. GateKept
    BY <1>2, Frames DEF GateKept
  <2>2. /\ \A s, t \in Slots : At(s, "landed") /\ At(t, "landed") => s = t
        /\ \A s \in Slots : At(s, "landed") => saves[s].next.domains = file.config.domains
        /\ (\A s \in Slots : ~At(s, "landed")) => gate = file.config.domains
    BY <2>1 DEF GateFollows
  \* A step that renames nothing and resumes nothing.
  <2>3. ASSUME \A t \in Slots : /\ At(t, "landed")' <=> At(t, "landed")
                                /\ At(t, "landed") => saves'[t].next = saves[t].next,
               file'.config = file.config, gate' = gate
        PROVE  Goal
    <3> HIDE DEF At
    <3> QED
      BY <2>2, <2>3
  <2>4. CASE Elsewhere
    <3>1. \A t \in Slots : /\ At(t, "landed")' <=> At(t, "landed")
                           /\ At(t, "landed") => saves'[t].next = saves[t].next
      BY <2>4, SavesElsewhere DEF At, Goes
    <3>2. file'.config = file.config /\ gate' = gate
      <4>1. ~(BackUp \/ Migrate)
        BY DEF GateKept, Up, BackUp, Migrate
      <4> QED
        BY <1>2, <2>4, <4>1, Frames DEF Aside, EditSshConfig, Edit, TimerFires, Focus, RefreshKey,
           Refreshed
    <3> QED
      BY <2>3, <3>1, <3>2
  <2>5. CASE Crash
    BY <2>5 DEF Crash, GateKept, Up
  <2>6. ASSUME NEW s \in Slots, PersistSave(s) \/ Submit(s) \/ AllowAlways(s) PROVE Goal
    <3>1. \A t \in Slots : /\ At(t, "landed")' <=> At(t, "landed")
                           /\ At(t, "landed") => saves'[t].next = saves[t].next
      BY <2>6, SaveBegins DEF At, OnlySave
    <3>2. file'.config = file.config /\ gate' = gate
      BY <2>6 DEF PersistSave, Submit, AllowAlways
    <3> QED
      BY <2>3, <3>1, <3>2
  <2>7. ASSUME NEW s \in Slots, Land(s) PROVE Goal
    <3>1. Goes(s, "writing", "landed") /\ OnlySave(s)
      BY <2>7, SaveGoesOn
    <3>2. \A t \in Slots : ~At(t, "landed")
      BY <2>7 DEF Land, GateKept, At
    <3>3. file'.config = saves[s].next
      BY <2>7 DEF Land, Typed, TypeOK
    <3>4. \A t \in Slots : At(t, "landed")' => t = s
      BY <3>1, <3>2 DEF At, OnlySave
    <3>5. At(s, "landed")' /\ saves'[s].next.domains = file'.config.domains
      BY <3>1, <3>3 DEF At, Goes
    <3> HIDE DEF At
    <3> QED
      BY <3>4, <3>5
  <2>8. ASSUME NEW s \in Slots, Resume(s) PROVE Goal
    <3>1. At(s, "landed") /\ gate' = saves[s].next.domains /\ file' = file
      BY <2>8 DEF Resume, At, Adopt
    <3>2. OnlySave(s) /\ ~At(s, "landed")'
      BY <2>8, SaveGoesOn DEF At, Goes, Ends
    <3>3. \A t \in Slots : ~At(t, "landed")'
      BY <2>2, <3>1, <3>2 DEF At, OnlySave
    <3>4. gate' = file'.config.domains
      BY <2>2, <3>1
    <3> HIDE DEF At
    <3> QED
      BY <3>3, <3>4
  <2>9. ASSUME NEW s \in Slots, Fail(s) \/ ApplyPanel(s) \/ ApplyPrompt(s) \/ RefreshPrompt(s)
        PROVE Goal
    <3>1. ~At(s, "landed") /\ ~At(s, "landed")' /\ OnlySave(s)
      BY <2>9, SaveGoesOn DEF At, Goes, Ends, Fail, ApplyPanel, RefreshPrompt
    <3>2. \A t \in Slots : /\ At(t, "landed")' <=> At(t, "landed")
                           /\ At(t, "landed") => saves'[t].next = saves[t].next
      BY <3>1 DEF At, OnlySave
    <3>3. file'.config = file.config /\ gate' = gate
      BY <2>9 DEF Fail, ApplyPanel, ApplyPrompt, RefreshPrompt
    <3> QED
      BY <2>3, <3>2, <3>3
  <2> QED
    BY <2>4, <2>5, <2>6, <2>7, <2>8, <2>9, Steps
<1> QED
  BY <1>1, <1>2

LEMMA CopiesFollowKept == Typed /\ CopiesFollow /\ [Next]_vars => CopiesFollow'
<1> DEFINE Goal == (Alone /\ InStep /\ \A s \in Slots : Settled(s) /\ KeepsHosts(s))'
<1> SUFFICES ASSUME Typed, CopiesFollow, [Next]_vars, SetKept' PROVE Goal
  BY DEF CopiesFollow
<1>1. CASE Load
  <2>1. /\ \A s \in Slots : ~Under(s)' /\ ~Lags(s)'
        /\ \A c \in {run', app', sidebar'} : c = file'.config
    BY <1>1, Loaded DEF Under, Lags, At
  <2> QED
    BY <2>1 DEF Alone, InStep, Settled, KeepsHosts, Same
<1>2. CASE ~Load
  <2>1. SetKept
    BY <1>2, Frames DEF SetKept
  <2>2. Alone /\ InStep /\ \A s \in Slots : Settled(s) /\ KeepsHosts(s)
    BY <2>1 DEF CopiesFollow
  <2>t. saves \in [Slots -> Saves \cup {None}]
    BY DEF Typed, TypeOK
  <2>3. CASE Elsewhere
    <3>1. \A t \in Slots : /\ Under(t)' <=> Under(t)
                           /\ At(t, "writing")' <=> At(t, "writing")
                           /\ Lags(t)' <=> Lags(t)
                           /\ Under(t) =>
                                saves'[t].next = saves[t].next /\ saves'[t].by = saves[t].by
      BY <2>3, SavesElsewhere DEF Under, At, Lags, Goes
    <3>2. file'.config = file.config /\ run' = run /\ app' = app /\ sidebar' = sidebar
      <4>1. ~(BackUp \/ Migrate)
        BY DEF SetKept, Up, BackUp, Migrate
      <4> QED
        BY <1>2, <2>3, <4>1, Frames DEF Aside, EditSshConfig, Edit, TimerFires, Focus, RefreshKey,
           Refreshed
    <3>3. Alone' /\ InStep'
      BY <2>2, <3>1, <3>2 DEF Alone, InStep, Same
    <3>4. ASSUME NEW t \in Slots PROVE Settled(t)' /\ KeepsHosts(t)'
      BY <2>2, <3>1, <3>2 DEF Settled, KeepsHosts, Same
    <3> QED
      BY <3>3, <3>4
  <2>4. CASE Crash
    BY <2>4 DEF Crash, SetKept, Up
  <2>5. ASSUME NEW s \in Slots, PersistSave(s) \/ Submit(s) \/ AllowAlways(s) PROVE Goal
    <3>1. PICK by \in {"panel", "prompt", "form", "permission"}, next \in Configs,
               unusual \in SUBSET {"stale", "outdated"} :
            /\ Begin(s, by, next, unusual)
            /\ [by |-> by, next |-> next, at |-> "writing", seen |-> {}] \in Saves
            /\ by = "panel" => PersistSave(s) /\ next = panel.draft
                              /\ (panel.original # app => "stale" \in unusual)
            /\ by = "permission" => /\ AllowAlways(s) /\ next = run'
                                   /\ run'.setting = run.setting /\ run'.hosts = run.hosts
            /\ by # "permission" => run' = run
      BY <2>5, Begins
    <3>2. Starts(s, by, next) /\ OnlySave(s)
      BY <3>1, SaveStarts
    <3>3. \A t \in Slots : saves[t] = None
      BY <3>1 DEF Begin, Busy, SetKept
    <3>4. "stale" \notin unusual
      BY <3>1 DEF Begin, SetKept
    <3>5. Same(run) /\ Same(app) /\ Same(sidebar)
      BY <2>2, <3>3 DEF InStep, Lags, At
    <3>6. file' = file /\ app' = app /\ sidebar' = sidebar
      BY <2>5 DEF PersistSave, Submit, AllowAlways
    <3>7. Same(run)' /\ Same(app)' /\ Same(sidebar)'
      BY <3>1, <3>5, <3>6 DEF Same
    <3>8. \A t \in Slots : Under(t)' => t = s
      BY <3>2, <3>3 DEF Under, OnlySave
    <3>9. by = "panel" => next.hosts = file'.config.hosts
      BY <3>1, <3>4, <3>5, <3>6 DEF Typed, Shapes, PersistSave, Same
    <3>10. At(s, "writing")' /\ saves'[s].next = next /\ saves'[s].by = by
      BY <3>2 DEF At, Starts
    <3>11. by = "permission" => Same(next)'
      BY <3>1, <3>7 DEF Same
    <3>12. Alone' /\ InStep'
      BY <3>7, <3>8 DEF Alone, InStep
    <3>13. ASSUME NEW t \in Slots, Under(t)' PROVE Settled(t)' /\ KeepsHosts(t)'
      <4>1. t = s
        BY <3>8, <3>13
      <4> QED
        BY <3>7, <3>9, <3>10, <3>11, <4>1 DEF Settled, KeepsHosts, Same
    <3>14. ASSUME NEW t \in Slots, ~Under(t)' PROVE Settled(t)' /\ KeepsHosts(t)'
      BY <3>14 DEF Settled, KeepsHosts
    <3> QED
      BY <3>12, <3>13, <3>14
  \* The one save that is under way goes on or ends.
  <2>6. ASSUME NEW s \in Slots, saves[s] # None, OnlySave(s),
               (saves'[s] # None => saves'[s].by = saves[s].by /\ saves'[s].next = saves[s].next),
               InStep', Settled(s)', KeepsHosts(s)'
        PROVE  Goal
    <3>1. \A t \in Slots : t # s => ~Under(t) /\ ~Under(t)'
      BY <2>2, <2>6 DEF Alone, Under, OnlySave
    <3>2. Alone'
      BY <3>1 DEF Alone
    <3>3. \A t \in Slots : t # s => Settled(t)' /\ KeepsHosts(t)'
      BY <3>1 DEF Settled, KeepsHosts
    <3> QED
      BY <2>6, <3>2, <3>3
  <2>7. ASSUME NEW s \in Slots, Land(s) PROVE Goal
    <3>1. Goes(s, "writing", "landed") /\ OnlySave(s)
      BY <2>7, SaveGoesOn
    <3>2. file'.config = saves[s].next /\ run' = run /\ app' = app /\ sidebar' = sidebar
      BY <2>7 DEF Land, Typed, TypeOK
    <3>3. Same(run) /\ Same(app) /\ Same(sidebar)
      <4>1. \A t \in Slots : ~Lags(t)
        BY <2>2, <3>1 DEF Alone, Under, Lags, At, Goes
      <4> QED
        BY <2>2, <4>1 DEF InStep
    <3>4. Settled(s)'
      BY <3>1, <3>2 DEF Settled, Same, Goes
    <3>5. InStep'
      <4>1. CASE saves[s].by = "permission"
        <5>1. Same(saves[s].next)
          BY <2>2, <3>1, <4>1 DEF Settled, Under, Goes
        <5> QED
          BY <3>2, <3>3, <5>1 DEF InStep, Same
      <4>2. CASE saves[s].by # "permission"
        <5>1. Lags(s)'
          BY <3>1, <4>2 DEF Lags, At, Goes
        <5> QED
          BY <5>1 DEF InStep
      <4> QED
        BY <4>1, <4>2
    <3>6. KeepsHosts(s)'
      <4>1. saves[s].by = "panel" => saves[s].next.hosts = file.config.hosts
        BY <2>2, <3>1 DEF KeepsHosts, Under, Goes
      <4> QED
        BY <3>1, <3>2, <3>3, <4>1 DEF KeepsHosts, Same, Goes
    <3> QED
      BY <2>6, <3>1, <3>4, <3>5, <3>6 DEF Goes
  <2>8. ASSUME NEW s \in Slots, Resume(s), saves[s].by # "permission" PROVE Goal
    <3>1. Goes(s, "landed", "applying") /\ OnlySave(s)
      BY <2>8, SaveGoesOn
    <3>2. file' = file /\ \A c \in {run', app', sidebar'} : c = saves[s].next
      BY <2>8 DEF Resume, Adopt
    <3>3. Same(saves[s].next)
      BY <2>2, <3>1 DEF Settled, Under, At, Goes
    <3>4. \A c \in {run', app', sidebar'} : Same(c)'
      BY <3>2, <3>3 DEF Same
    <3>5. InStep'
      BY <3>4 DEF InStep
    <3>6. Settled(s)' /\ KeepsHosts(s)'
      BY <3>1, <3>2, <3>3 DEF Settled, KeepsHosts, Same, Goes
    <3> QED
      BY <2>6, <3>1, <3>5, <3>6 DEF Goes
  <2>9. ASSUME NEW s \in Slots,
               \/ Fail(s) \/ ApplyPanel(s) \/ RefreshPrompt(s)
               \/ Resume(s) /\ saves[s].by = "permission"
        PROVE  Goal
    <3>1. Ends(s) /\ OnlySave(s)
      BY <2>9, SaveGoesOn
    <3>2. file' = file /\ run' = run /\ app' = app /\ sidebar' = sidebar
      BY <2>9 DEF Fail, ApplyPanel, RefreshPrompt, Resume
    <3>3. ~Lags(s)
      BY <2>9 DEF Lags, At, Fail, ApplyPanel, RefreshPrompt
    <3>4. Same(run) /\ Same(app) /\ Same(sidebar)
      <4>1. \A t \in Slots : ~Lags(t)
        BY <2>2, <3>1, <3>3 DEF Alone, Under, Lags, At, Ends
      <4> QED
        BY <2>2, <4>1 DEF InStep
    <3>5. InStep'
      BY <3>2, <3>4 DEF InStep, Same
    <3>6. Settled(s)' /\ KeepsHosts(s)'
      BY <3>1 DEF Settled, KeepsHosts, Under, Ends
    <3> QED
      BY <2>6, <3>1, <3>5, <3>6 DEF Ends
  <2>10. ASSUME NEW s \in Slots, ApplyPrompt(s) PROVE Goal
    <3>1. Goes(s, "applying", "refreshing") /\ OnlySave(s)
      BY <2>10, SaveGoesOn
    <3>2. file' = file /\ run' = run /\ app' = app /\ sidebar' = saves[s].next
      BY <2>10 DEF ApplyPrompt
    <3>3. Same(saves[s].next)
      BY <2>2, <3>1 DEF Settled, Under, At, Goes
    <3>4. Same(run) /\ Same(app)
      <4>1. \A t \in Slots : ~Lags(t)
        BY <2>2, <3>1 DEF Alone, Under, Lags, At, Goes
      <4> QED
        BY <2>2, <4>1 DEF InStep
    <3>5. InStep'
      BY <3>2, <3>3, <3>4 DEF InStep, Same
    <3>6. Settled(s)' /\ KeepsHosts(s)'
      BY <2>10, <3>1, <3>2, <3>3 DEF Settled, KeepsHosts, Same, Goes, ApplyPrompt
    <3> QED
      BY <2>6, <3>1, <3>5, <3>6 DEF Goes
  <2> QED
    BY <2>3, <2>4, <2>5, <2>7, <2>8, <2>9, <2>10, Steps
<1> QED
  BY <1>1, <1>2

-----------------------------------------------------------------------------
(* The catalog                                                             *)

\* What is left of a calm program once nothing of the past may still be read.
Reads(r) == refreshes[r] # None =>
    refreshes[r].hosts = file.config.hosts /\ Fresh(refreshes[r].seen)
Rereads(s) == At(s, "refreshing") => refreshes = NoRefreshes /\ Fresh(saves[s].seen)
Settles == (\A s \in Slots : ~Past(s)) =>
             /\ \A r \in DOMAIN refreshes : Reads(r)
             /\ refreshes = NoRefreshes /\ ~timer =>
                  catalog = BuildHostCatalog(file.config.hosts, sshConfig)

LEMMA CatalogParts == CatalogFollows <=> (Calm => Settles /\ \A s \in Slots : Rereads(s))
BY DEF CatalogFollows, Settles, Reads, Rereads

\* Unless a prompt's save is past its rename, every copy has the hosts of the file.
LEMMA HostsOfCopies ==
  ASSUME Typed, CopiesFollow, SetKept, \A s \in Slots : ~Past(s)
  PROVE  run.hosts = file.config.hosts /\ sidebar.hosts = file.config.hosts
<1>1. InStep /\ \A s \in Slots : KeepsHosts(s)
  BY DEF CopiesFollow
<1>2. CASE \E s \in Slots : Lags(s)
  <2>1. PICK s \in Slots : Lags(s)
    BY <1>2
  <2>2. saves[s].by = "panel" /\ Under(s)
    <3>1. saves[s] \in Saves /\ ~Prompts(s) /\ saves[s].by # "permission" /\ saves[s] # None
      BY <2>1, SaveSteps DEF Lags, At, Past, Typed
    <3> QED
      BY <3>1 DEF Saves, Prompts, Under
  <2> QED
    BY <1>1, <2>2 DEF KeepsHosts
<1>3. CASE \A s \in Slots : ~Lags(s)
  BY <1>1, <1>3 DEF InStep, Same
<1> QED
  BY <1>2, <1>3

\* The refreshes that are under way.
LEMMA RefreshTypes ==
  ASSUME Typed
  PROVE  /\ DOMAIN refreshes = {"monitor", "key"}
         /\ refreshes = NoRefreshes <=> \A r \in {"monitor", "key"} : refreshes[r] = None
         /\ \A r \in {"monitor", "key"} : refreshes[r] # None =>
              /\ refreshes[r] \in Discoveries /\ refreshes[r].hosts \in Seq(Entries)
              /\ refreshes[r].seen \subseteq SUBSET Aliases
<1>1. refreshes \in [{"monitor", "key"} -> Discoveries \cup {None}]
  BY DEF Typed, TypeOK
<1>2. DOMAIN refreshes = {"monitor", "key"}
  BY <1>1
<1>3. refreshes = NoRefreshes <=> \A r \in {"monitor", "key"} : refreshes[r] = None
  BY <1>1 DEF NoRefreshes
<1>4. ASSUME NEW r \in {"monitor", "key"}, refreshes[r] # None
      PROVE  /\ refreshes[r] \in Discoveries /\ refreshes[r].hosts \in Seq(Entries)
             /\ refreshes[r].seen \subseteq SUBSET Aliases
  BY <1>1, <1>4 DEF Discoveries
<1> QED
  BY <1>2, <1>3, <1>4

\* A change of the SSH config while the program runs.
LEMMA Edited ==
  ASSUME Typed, EditSshConfig
  PROVE  /\ file' = file /\ catalog' = catalog /\ sshConfig' \in SUBSET Aliases
         /\ phase' = phase
         /\ phase = "opening" => "crossed" \in odd'
         /\ phase = "running" => timer'
         /\ refreshes = NoRefreshes => refreshes' = NoRefreshes
         /\ \A r \in {"monitor", "key"} :
              /\ refreshes'[r] = None <=> refreshes[r] = None
              /\ refreshes[r] # None => /\ refreshes'[r].hosts = refreshes[r].hosts
                                        /\ refreshes'[r].seen = refreshes[r].seen \cup {sshConfig'}
         /\ \A s \in Slots : At(s, "refreshing") => saves'[s].seen = saves[s].seen \cup {sshConfig'}
         /\ odd \cup Claims(file.config.hosts, sshConfig') \subseteq odd'
<1>0. TypeOK
  BY DEF Typed
<1>1. /\ file' = file /\ catalog' = catalog /\ phase' = phase
      /\ phase = "opening" => "crossed" \in odd'
      /\ phase = "running" => timer'
      /\ odd \cup Claims(file.config.hosts, sshConfig') \subseteq odd'
  BY DEF EditSshConfig, Edit
<1>2. sshConfig' \in SUBSET Aliases
  BY <1>0 DEF EditSshConfig, Edit, TypeOK
<1>3. ASSUME NEW r \in {"monitor", "key"}
      PROVE  refreshes'[r] = IF refreshes[r] = None THEN None ELSE MayRead(refreshes[r])
  BY RefreshTypes DEF EditSshConfig, Edit
<1>4. refreshes = NoRefreshes => refreshes' = NoRefreshes
  <2>1. refreshes' = [r \in DOMAIN refreshes |->
                        IF refreshes[r] = None THEN None ELSE MayRead(refreshes[r])]
    BY DEF EditSshConfig, Edit
  <2> QED
    BY <2>1, RefreshTypes DEF NoRefreshes
<1>5. ASSUME NEW r \in {"monitor", "key"}, refreshes[r] # None
      PROVE  /\ refreshes'[r] # None /\ refreshes'[r].hosts = refreshes[r].hosts
             /\ refreshes'[r].seen = refreshes[r].seen \cup {sshConfig'}
  <2>1. refreshes[r] \in Discoveries /\ refreshes[r].seen \subseteq SUBSET Aliases
    BY <1>5, RefreshTypes
  <2>2. refreshes'[r] = [refreshes[r] EXCEPT !.seen = refreshes[r].seen \cup {sshConfig'}]
    BY <1>3, <1>5 DEF MayRead
  <2>3. ASSUME NEW d \in Discoveries, NEW v \in SUBSET SUBSET Aliases
        PROVE  /\ [d EXCEPT !.seen = v] \in Discoveries /\ [d EXCEPT !.seen = v].seen = v
               /\ [d EXCEPT !.seen = v].hosts = d.hosts
    BY DEF Discoveries
  <2>4. refreshes[r].seen \cup {sshConfig'} \in SUBSET SUBSET Aliases
    BY <1>2, <2>1
  <2> DEFINE d == refreshes[r]
             v == refreshes[r].seen \cup {sshConfig'}
  <2>5. refreshes'[r] = [d EXCEPT !.seen = v] /\ d \in Discoveries /\ v \in SUBSET SUBSET Aliases
    BY <2>1, <2>2, <2>4
  <2> HIDE DEF d, v
  <2>6. refreshes'[r] \in Discoveries /\ refreshes'[r].seen = v /\ refreshes'[r].hosts = d.hosts
    BY <2>3, <2>5
  <2> QED
    BY <2>6, NoneAssumption DEF d, v
<1>6. ASSUME NEW s \in Slots, At(s, "refreshing")
      PROVE  saves'[s].seen = saves[s].seen \cup {sshConfig'}
  <2>1. saves'[s] = [saves[s] EXCEPT !.seen = saves[s].seen \cup {sshConfig'}]
    BY <1>0, <1>6 DEF EditSshConfig, Edit, At, MayRead
  <2>2. saves[s] \in Saves
    BY <1>0, <1>6, SaveSteps DEF At
  <2>3. ASSUME NEW r \in Saves, NEW v PROVE [r EXCEPT !.seen = v].seen = v
    BY DEF Saves
  <2> QED
    BY <2>1, <2>2, <2>3
<1> QED
  BY <1>1, <1>2, <1>3, <1>4, <1>5, <1>6

\* A refresh starts alone, or is odd.
LEMMA RefreshStarts ==
  ASSUME Typed, TimerFires \/ Focus \/ RefreshKey, "crossed" \notin odd'
  PROVE  /\ refreshes = NoRefreshes /\ \A s \in Slots : ~At(s, "refreshing")
         /\ file' = file /\ sshConfig' = sshConfig /\ catalog' = catalog /\ saves' = saves
         /\ phase' = phase /\ (timer' = timer \/ ~timer')
         /\ TimerFires => ~timer'
         /\ \A r \in {"monitor", "key"} : refreshes'[r] # None =>
              refreshes'[r] = Discovering(run.hosts) \/ refreshes'[r] = Discovering(sidebar.hosts)
         /\ refreshes' # NoRefreshes
<1>1. ~Refreshing
  BY DEF TimerFires, Focus, RefreshKey, Crossing
<1>2. refreshes = NoRefreshes /\ \A s \in Slots : ~At(s, "refreshing")
  BY <1>1, RefreshTypes DEF Refreshing, At
<1>3. /\ file' = file /\ sshConfig' = sshConfig /\ catalog' = catalog /\ saves' = saves
      /\ phase' = phase /\ (timer' = timer \/ ~timer') /\ (TimerFires => ~timer')
  BY DEF TimerFires, Focus, RefreshKey
<1>4. \E r \in {"monitor", "key"}, d \in {Discovering(run.hosts), Discovering(sidebar.hosts)} :
        refreshes' = [refreshes EXCEPT ![r] = d]
  BY <1>2, RefreshTypes DEF TimerFires, Focus, RefreshKey, Monitor
<1>5. Discovering(run.hosts) # None /\ Discovering(sidebar.hosts) # None
  <2>1. \A hosts \in Seq(Entries) : Discovering(hosts) \in Discoveries
    BY DEF Discovering, Discoveries, Typed, TypeOK
  <2> QED
    BY <2>1, NoneAssumption DEF Typed, TypeOK, Configs
<1>6. /\ \A r \in {"monitor", "key"} : refreshes'[r] # None =>
              refreshes'[r] = Discovering(run.hosts) \/ refreshes'[r] = Discovering(sidebar.hosts)
      /\ refreshes' # NoRefreshes
  <2>1. PICK r \in {"monitor", "key"}, d \in {Discovering(run.hosts), Discovering(sidebar.hosts)} :
          refreshes' = [refreshes EXCEPT ![r] = d]
    BY <1>4
  <2>2. refreshes'[r] = d /\ d # None /\ \A q \in {"monitor", "key"} : q # r => refreshes'[q] = None
    BY <1>2, <1>5, <2>1, RefreshTypes
  <2>3. NoRefreshes[r] = None
    BY DEF NoRefreshes
  <2> QED
    BY <2>2, <2>3
<1> QED
  BY <1>2, <1>3, <1>6

LEMMA CatalogFollowsKept ==
  Typed /\ CopiesFollow /\ CatalogFollows /\ [Next]_vars => CatalogFollows'
<1> DEFINE Goal == (Settles /\ \A s \in Slots : Rereads(s))'
<1> SUFFICES ASSUME Typed, CopiesFollow, CatalogFollows, [Next]_vars, Calm' PROVE Goal
  BY CatalogParts, PTL
<1>1. CASE Load
  <2>1. /\ \A s \in Slots : ~At(s, "refreshing")'
        /\ \A r \in DOMAIN refreshes' : refreshes'[r] = None
        /\ catalog' = BuildHostCatalog(file'.config.hosts, sshConfig')
    BY <1>1, Loaded DEF At
  <2> QED
    BY <2>1 DEF Settles, Reads, Rereads
<1>2. CASE ~Load
  <2>1. Calm /\ SetKept /\ Settles /\ (\A s \in Slots : Rereads(s))
        /\ Alone /\ InStep /\ \A s \in Slots : Settled(s) /\ KeepsHosts(s)
    BY <1>2, Frames, CatalogParts DEF Calm, SetKept, CopiesFollow
  \* Steps that leave what is read, and what it is read for, alone.
  <2>2. ASSUME file'.config.hosts = file.config.hosts, sshConfig' = sshConfig, timer' = timer,
               refreshes' = refreshes, catalog' = catalog,
               \A t \in Slots : Past(t)' <=> Past(t),
               \A t \in Slots : At(t, "refreshing")' =>
                  At(t, "refreshing") /\ saves'[t].seen = saves[t].seen
        PROVE  Goal
    <3>1. Settles'
      <4> HIDE DEF Past
      <4> QED
        BY <2>1, <2>2 DEF Settles, Reads, Fresh
    <3>2. \A t \in Slots : Rereads(t)'
      <4> HIDE DEF At
      <4> QED
        BY <2>1, <2>2 DEF Rereads, Fresh
    <3> QED
      BY <3>1, <3>2
  <2>3. CASE Elsewhere
    <3>0. \A t \in Slots : /\ Past(t)' <=> Past(t)
                           /\ At(t, "refreshing")' <=> At(t, "refreshing")
      BY <2>3, SavesElsewhere DEF Past, Prompts, At, Goes
    <3>1. CASE Aside
      BY <2>2, <3>0, <3>1 DEF Aside
    <3>2. ~(BackUp \/ Migrate)
      BY DEF Calm, Up, BackUp, Migrate
    <3>3. CASE EditSshConfig
      <4>1. /\ file' = file /\ timer' /\ (refreshes = NoRefreshes => refreshes' = NoRefreshes)
            /\ \A r \in {"monitor", "key"} :
                 /\ refreshes'[r] = None <=> refreshes[r] = None
                 /\ refreshes[r] # None => /\ refreshes'[r].hosts = refreshes[r].hosts
                                           /\ refreshes'[r].seen =
                                               refreshes[r].seen \cup {sshConfig'}
            /\ \A s \in Slots : At(s, "refreshing") =>
                 saves'[s].seen = saves[s].seen \cup {sshConfig'}
            /\ DOMAIN refreshes' = {"monitor", "key"} /\ DOMAIN refreshes = {"monitor", "key"}
        BY <2>1, <3>3, Edited, RefreshTypes DEF Calm, Up, EditSshConfig, Edit
      <4>2. Settles'
        BY <2>1, <3>0, <4>1 DEF Settles, Reads, Fresh
      <4>3. \A t \in Slots : Rereads(t)'
        BY <2>1, <3>0, <4>1 DEF Rereads, Fresh
      <4> QED
        BY <4>2, <4>3
    <3>4. CASE TimerFires \/ Focus \/ RefreshKey
      <4>1. /\ refreshes = NoRefreshes /\ \A s \in Slots : ~At(s, "refreshing")
            /\ file' = file /\ sshConfig' = sshConfig /\ refreshes' # NoRefreshes
            /\ \A r \in {"monitor", "key"} : refreshes'[r] # None =>
                 \/ refreshes'[r] = Discovering(run.hosts)
                 \/ refreshes'[r] = Discovering(sidebar.hosts)
            /\ DOMAIN refreshes' = {"monitor", "key"}
        <5>1. "crossed" \notin odd'
          BY DEF Calm
        <5>2. DOMAIN refreshes' = {"monitor", "key"}
          BY <3>4, RefreshTypes DEF TimerFires, Focus, RefreshKey, Monitor
        <5> QED
          BY <3>4, <5>1, <5>2, RefreshStarts
      <4>2. ASSUME \A s \in Slots : ~Past(s)
            PROVE  \A r \in {"monitor", "key"} : Reads(r)'
        <5>1. run.hosts = file.config.hosts /\ sidebar.hosts = file.config.hosts
          BY <2>1, <4>2, HostsOfCopies
        <5> QED
          BY <4>1, <5>1 DEF Reads, Discovering, Fresh
      <4>3. Settles'
        <5> HIDE DEF Past
        <5> QED
          BY <3>0, <4>1, <4>2 DEF Settles
      <4>4. \A t \in Slots : Rereads(t)'
        BY <3>0, <4>1 DEF Rereads
      <4> QED
        BY <4>3, <4>4
    <3>5. ASSUME NEW r \in {"monitor", "key"}, Refreshed(r) PROVE Goal
      <4>1. PICK seen \in refreshes[r].seen : catalog' = BuildHostCatalog(refreshes[r].hosts, seen)
        BY <3>5 DEF Refreshed
      <4>2. /\ refreshes[r] # None /\ file' = file /\ sshConfig' = sshConfig /\ timer' = timer
            /\ refreshes' = [refreshes EXCEPT ![r] = None]
        BY <3>5 DEF Refreshed
      <4>3. refreshes # NoRefreshes
        BY <4>2 DEF NoRefreshes
      <4>4. DOMAIN refreshes = {"monitor", "key"}
            /\ \A q \in {"monitor", "key"} : refreshes'[q] = refreshes[q] \/ refreshes'[q] = None
        BY <4>2, RefreshTypes
      <4>5. Settles'
        <5>1. SUFFICES ASSUME \A s \in Slots : ~Past(s)
                       PROVE  /\ \A q \in {"monitor", "key"} : Reads(q)'
                              /\ ~timer => catalog' = BuildHostCatalog(file.config.hosts, sshConfig)
          BY <3>0, <4>2, <4>4 DEF Settles
        <5>2. \A q \in {"monitor", "key"} : Reads(q)
          BY <2>1, <4>4, <5>1 DEF Settles
        <5>3. \A q \in {"monitor", "key"} : Reads(q)'
          BY <4>2, <4>4, <5>2 DEF Reads, Fresh
        <5>4. refreshes[r].hosts = file.config.hosts /\ (~timer => seen = sshConfig)
          BY <4>1, <4>2, <5>2 DEF Reads, Fresh
        <5> QED
          BY <4>1, <5>3, <5>4
      <4>6. \A t \in Slots : Rereads(t)'
        BY <2>1, <3>0, <4>3 DEF Rereads
      <4> QED
        BY <4>5, <4>6
    <3> QED
      BY <1>2, <2>3, <3>1, <3>2, <3>3, <3>4, <3>5, Frames
  <2>4. CASE Crash
    BY <2>4 DEF Crash, Calm, Up
  <2>5. ASSUME NEW s \in Slots, PersistSave(s) \/ Submit(s) \/ AllowAlways(s) PROVE Goal
    <3>1. OnlySave(s) /\ saves[s] = None /\ saves'[s].at = "writing"
      BY <2>5, SaveBegins
    <3>2. \A t \in Slots : /\ Past(t)' <=> Past(t)
                           /\ At(t, "refreshing")' =>
                                At(t, "refreshing") /\ saves'[t].seen = saves[t].seen
      BY <3>1 DEF Past, Prompts, At, OnlySave
    <3>3. /\ file' = file /\ sshConfig' = sshConfig /\ timer' = timer
          /\ refreshes' = refreshes /\ catalog' = catalog
      BY <2>5 DEF PersistSave, Submit, AllowAlways
    <3> QED
      BY <2>2, <3>2, <3>3
  <2>6. ASSUME NEW s \in Slots, saves[s] # None, OnlySave(s)
        PROVE  \A t \in Slots : t # s => ~Past(t) /\ ~Past(t)' /\ ~At(t, "refreshing")'
    BY <2>1, <2>6 DEF Alone, Under, Past, Prompts, At, OnlySave
  <2>7. ASSUME NEW s \in Slots, Land(s) PROVE Goal
    <3>1. Goes(s, "writing", "landed") /\ OnlySave(s)
      BY <2>7, SaveGoesOn
    <3>2. /\ file'.config = saves[s].next /\ sshConfig' = sshConfig /\ timer' = timer
          /\ refreshes' = refreshes /\ catalog' = catalog
      BY <2>7 DEF Land, Typed, TypeOK
    <3>3. \A t \in Slots : ~At(t, "refreshing")'
      BY <2>6, <3>1 DEF At, Goes
    <3>4. CASE Prompts(s)
      <4>1. Past(s)'
        BY <3>1, <3>4 DEF Past, Prompts, At, Goes
      <4> QED
        BY <3>3, <4>1 DEF Settles, Rereads
    <3>5. CASE ~Prompts(s)
      <4>1. saves[s] \in Saves /\ saves[s] # None
        BY <3>1, SaveSteps DEF Goes, Typed
      <4>2. saves[s].by \in {"panel", "permission"}
        BY <3>5, <4>1 DEF Saves, Prompts
      <4>3. saves[s].next.hosts = file.config.hosts
        BY <2>1, <4>1, <4>2 DEF Settled, KeepsHosts, Under, Same
      <4>4. \A t \in Slots : Past(t)' <=> Past(t)
        BY <2>6, <3>1, <3>5 DEF Past, Prompts, At, Goes
      <4> QED
        BY <2>2, <3>2, <3>3, <4>3, <4>4
    <3> QED
      BY <3>4, <3>5
  <2>8. ASSUME NEW s \in Slots, Fail(s) \/ Resume(s) \/ ApplyPanel(s) PROVE Goal
    <3>1. /\ file' = file /\ sshConfig' = sshConfig /\ timer' = timer
          /\ refreshes' = refreshes /\ catalog' = catalog
      BY <2>8 DEF Fail, Resume, ApplyPanel
    <3>2. OnlySave(s) /\ saves[s] # None /\ (Past(s)' <=> Past(s)) /\ ~At(s, "refreshing")'
      BY <2>8, SaveGoesOn DEF Goes, Ends, Past, Prompts, At, Fail, Resume, ApplyPanel
    <3>3. \A t \in Slots : (Past(t)' <=> Past(t)) /\ ~At(t, "refreshing")'
      BY <2>6, <3>2
    <3> QED
      BY <2>2, <3>1, <3>3
  <2>9. ASSUME NEW s \in Slots, ApplyPrompt(s) PROVE Goal
    <3>1. Goes(s, "applying", "refreshing") /\ OnlySave(s) /\ saves'[s].seen = {sshConfig}
      BY <2>9, SaveGoesOn
    <3>2. Past(s)'
      BY <2>9, <3>1 DEF Past, Prompts, At, Goes, ApplyPrompt
    <3>3. refreshes' = refreshes /\ sshConfig' = sshConfig /\ ~Refreshing
      BY <2>9 DEF ApplyPrompt, Calm, Crossing
    <3>4. refreshes' = NoRefreshes
      BY <3>3, RefreshTypes DEF Refreshing
    <3>5. \A t \in Slots : Rereads(t)'
      BY <2>6, <3>1, <3>3, <3>4 DEF Rereads, Fresh, Goes
    <3> QED
      BY <3>2, <3>5 DEF Settles
  <2>10. ASSUME NEW s \in Slots, RefreshPrompt(s) PROVE Goal
    <3>1. Ends(s) /\ OnlySave(s)
      BY <2>10, SaveGoesOn
    <3>2. At(s, "refreshing") /\ refreshes = NoRefreshes /\ Fresh(saves[s].seen)
          /\ Same(saves[s].next)
      BY <2>1, <2>10 DEF RefreshPrompt, Rereads, Settled, Under, At
    <3>3. PICK seen \in saves[s].seen : catalog' = BuildHostCatalog(saves[s].next.hosts, seen)
      BY <2>10 DEF RefreshPrompt
    <3>4. file' = file /\ sshConfig' = sshConfig /\ timer' = timer /\ refreshes' = refreshes
      BY <2>10 DEF RefreshPrompt
    <3>5. ~timer => catalog' = BuildHostCatalog(file.config.hosts, sshConfig)
      BY <3>2, <3>3 DEF Fresh, Same
    <3>6. \A t \in Slots : ~At(t, "refreshing")'
      BY <2>6, <3>1 DEF At, Ends
    <3>7. \A r \in DOMAIN refreshes' : refreshes'[r] = None
      BY <3>2, <3>4 DEF NoRefreshes
    <3> QED
      BY <3>4, <3>5, <3>6, <3>7 DEF Settles, Reads, Rereads
  <2> QED
    BY <2>3, <2>4, <2>5, <2>7, <2>8, <2>9, <2>10, Steps
<1> QED
  BY <1>1, <1>2

-----------------------------------------------------------------------------
(* Starting again                                                          *)

\* A larger set of SSH hosts reclaims no less.
LEMMA ReclaimedGrows ==
  ASSUME NEW hosts, NEW S, NEW T, S \subseteq T, Reclaimed(hosts, S)
  PROVE  Reclaimed(hosts, T)
BY DEF Reclaimed

OwnIds(s)  == Under(s) => EntryIdsUnique(saves[s].next.hosts) \/ Reclaimed(saves[s].next.hosts, {})
Unclaimed(s) == At(s, "refreshing") =>
    \A seen \in saves[s].seen : ~Reclaimed(file.config.hosts, seen)
FreeReads(r) == refreshes[r] # None =>
    \A seen \in refreshes[r].seen : ~Reclaimed(file.config.hosts, seen)
CatalogIsFree == \E seen \in SUBSET Aliases : /\ ~Reclaimed(file.config.hosts, seen)
                                              /\ catalog = BuildHostCatalog(file.config.hosts, seen)
FreeCatalog == Up /\ (\A s \in Slots : ~Past(s)) =>
    (\A r \in DOMAIN refreshes : FreeReads(r)) /\ CatalogIsFree

LEMMA StartsParts ==
  StartsFollow <=> (Clean => /\ phase # "refused" /\ Good(file.config.hosts, sshConfig)
                             /\ (\A s \in Slots : OwnIds(s) /\ Unclaimed(s)) /\ FreeCatalog)
BY DEF StartsFollow, OwnIds, Unclaimed, FreeReads, CatalogIsFree, FreeCatalog

LEMMA StartsFollowKept ==
  Typed /\ CopiesFollow /\ CatalogFollows /\ StartsFollow /\ [Next]_vars => StartsFollow'
<1> DEFINE Goal == (/\ phase # "refused" /\ Good(file.config.hosts, sshConfig)
                    /\ (\A s \in Slots : OwnIds(s) /\ Unclaimed(s)) /\ FreeCatalog)'
<1> SUFFICES ASSUME Typed, CopiesFollow, CatalogFollows, StartsFollow, [Next]_vars, Clean'
             PROVE  Goal
  BY StartsParts, PTL
<1>0. /\ Clean /\ phase # "refused" /\ Good(file.config.hosts, sshConfig)
      /\ (\A s \in Slots : OwnIds(s) /\ Unclaimed(s)) /\ FreeCatalog
  BY Frames, StartsParts DEF Clean
<1>t. /\ file.config \in Configs /\ file.config.hosts \in Seq(Entries)
      /\ sshConfig \in SUBSET Aliases
      /\ DOMAIN refreshes = {"monitor", "key"}
  BY RefreshTypes DEF Typed, TypeOK, Configs
<1>k. Up => /\ SetKept /\ Calm /\ Alone /\ InStep /\ Settles
            /\ \A s \in Slots : Settled(s) /\ KeepsHosts(s) /\ Rereads(s)
  BY <1>0, CatalogParts DEF Clean, SetKept, Calm, CopiesFollow
<1>u. ASSUME NEW s \in Slots, saves[s] # None PROVE Up
  <2>1. NoSaves[s] = None
    BY DEF NoSaves
  <2> QED
    BY <1>u, <2>1 DEF Typed, Shapes, Up
<1>1. CASE Load
  <2>1. /\ \A s \in Slots : ~Under(s)' /\ ~At(s, "refreshing")'
        /\ \A r \in DOMAIN refreshes' : refreshes'[r] = None
        /\ catalog' = BuildHostCatalog(file.config.hosts, sshConfig)
        /\ file' = file /\ sshConfig' = sshConfig
    BY <1>1, Loaded DEF At, Under
  <2>2. EntryIdsUnique(file.config.hosts) /\ UniqueIds(Known(catalog'))
    BY <1>0, <1>t, <2>1, CatalogIds DEF Good
  <2>3. phase' # "refused"
    BY <1>1, <2>2, Loaded
  <2>4. CatalogIsFree'
    BY <1>0, <1>t, <2>1 DEF CatalogIsFree, Good
  <2> QED
    BY <1>0, <2>1, <2>3, <2>4 DEF OwnIds, Unclaimed, FreeCatalog, FreeReads
<1>2. CASE ~Load
  <2>p. (Up' => Up) /\ phase' # "refused"
    BY <1>0, <1>2, Frames
  \* Steps that leave the file's hosts, the SSH config and the catalog alone.
  <2>2. ASSUME file'.config.hosts = file.config.hosts, sshConfig' = sshConfig,
               refreshes' = refreshes, catalog' = catalog,
               \A t \in Slots : Past(t)' <=> Past(t),
               \A t \in Slots : OwnIds(t)' /\ Unclaimed(t)'
        PROVE  Goal
    <3>1. FreeCatalog'
      <4> HIDE DEF Past
      <4> QED
        BY <1>0, <2>p, <2>2 DEF FreeCatalog, FreeReads, CatalogIsFree
    <3> QED
      BY <1>0, <2>p, <2>2, <3>1
  <2>3. CASE Elsewhere
    <3>0. \A t \in Slots : /\ Past(t)' <=> Past(t)
                           /\ At(t, "refreshing")' <=> At(t, "refreshing")
                           /\ Under(t)' <=> Under(t)
                           /\ Under(t) => saves'[t].next = saves[t].next
                           /\ ~EditSshConfig => saves' = saves
      BY <2>3, SavesElsewhere DEF Past, Prompts, At, Goes, Under
    <3>1. \A t \in Slots : OwnIds(t)'
      BY <1>0, <3>0 DEF OwnIds
    <3>2. ASSUME ~EditSshConfig, file'.config = file.config PROVE \A t \in Slots : Unclaimed(t)'
      BY <1>0, <3>0, <3>2 DEF Unclaimed
    <3>3. CASE Aside
      <4>1. ~EditSshConfig \/ sshConfig' = sshConfig
        BY <3>3 DEF Aside
      <4>2. ~EditSshConfig
        BY <3>3, <4>1 DEF Aside, EditSshConfig, Edit
      <4> QED
        BY <2>2, <3>0, <3>1, <3>2, <3>3, <4>2 DEF Aside
    <3>4. CASE BackUp \/ Migrate
      <4>1. /\ file'.config = file.config /\ sshConfig' = sshConfig /\ refreshes' = refreshes
            /\ catalog' = catalog /\ ~EditSshConfig
        BY <3>4 DEF BackUp, Migrate, memory, EditSshConfig, Edit, Typed, TypeOK
      <4> QED
        BY <2>2, <3>0, <3>1, <3>2, <4>1
    <3>5. CASE EditSshConfig
      <4>1. /\ file' = file /\ catalog' = catalog
            /\ \A r \in {"monitor", "key"} :
                 /\ refreshes'[r] = None <=> refreshes[r] = None
                 /\ refreshes[r] # None => refreshes'[r].seen = refreshes[r].seen \cup {sshConfig'}
            /\ \A s \in Slots : At(s, "refreshing") =>
                 saves'[s].seen = saves[s].seen \cup {sshConfig'}
            /\ Claims(file.config.hosts, sshConfig') \subseteq odd'
        BY <3>5, Edited
      <4>2. DOMAIN refreshes' = {"monitor", "key"}
        BY <1>t, <3>5 DEF EditSshConfig, Edit
      <4>3. ~Reclaimed(file.config.hosts, sshConfig')
        BY <4>1 DEF Claims, Clean
      <4>4. Good(file'.config.hosts, sshConfig')
        BY <1>0, <4>1, <4>3 DEF Good
      <4>5. \A t \in Slots : Unclaimed(t)'
        BY <1>0, <3>0, <4>1, <4>3 DEF Unclaimed
      <4>6. FreeCatalog'
        BY <1>0, <1>t, <2>p, <3>0, <4>1, <4>2, <4>3 DEF FreeCatalog, FreeReads, CatalogIsFree
      <4> QED
        BY <2>p, <3>1, <4>4, <4>5, <4>6
    <3>6. CASE TimerFires \/ Focus \/ RefreshKey
      <4>1. /\ file' = file /\ sshConfig' = sshConfig /\ catalog' = catalog
            /\ \A r \in {"monitor", "key"} : refreshes'[r] # None =>
                 \/ refreshes'[r] = Discovering(run.hosts)
                 \/ refreshes'[r] = Discovering(sidebar.hosts)
            /\ DOMAIN refreshes' = {"monitor", "key"} /\ ~EditSshConfig
        <5>1. "crossed" \notin odd'
          BY DEF Clean
        <5>2. DOMAIN refreshes' = {"monitor", "key"}
          BY <3>6, RefreshTypes DEF TimerFires, Focus, RefreshKey, Monitor
        <5>3. file' = file /\ sshConfig' = sshConfig /\ catalog' = catalog
          BY <3>6 DEF TimerFires, Focus, RefreshKey
        <5>4. ~EditSshConfig
          BY <1>t, <5>3 DEF EditSshConfig, Edit
        <5> QED
          BY <3>6, <5>1, <5>2, <5>4, RefreshStarts
      <4>2. \A r \in {"monitor", "key"} : FreeReads(r)'
        BY <1>0, <4>1 DEF FreeReads, Discovering, Good
      <4>3. FreeCatalog'
        <5> HIDE DEF Past
        <5> QED
          BY <1>0, <2>p, <3>0, <4>1, <4>2 DEF FreeCatalog, CatalogIsFree
      <4> QED
        BY <1>0, <2>p, <3>1, <3>2, <4>1, <4>3
    <3>7. ASSUME NEW r \in {"monitor", "key"}, Refreshed(r) PROVE Goal
      <4>1. PICK seen \in refreshes[r].seen : catalog' = BuildHostCatalog(refreshes[r].hosts, seen)
        BY <3>7 DEF Refreshed
      <4>2. /\ refreshes[r] # None /\ file' = file /\ sshConfig' = sshConfig
            /\ refreshes' = [refreshes EXCEPT ![r] = None]
        BY <3>7 DEF Refreshed
      <4>3. /\ seen \in SUBSET Aliases /\ ~EditSshConfig
            /\ \A q \in {"monitor", "key"} : refreshes'[q] = refreshes[q] \/ refreshes'[q] = None
            /\ DOMAIN refreshes' = {"monitor", "key"}
        BY <4>1, <4>2, RefreshTypes DEF EditSshConfig, Edit
      <4>4. FreeCatalog'
        <5>1. SUFFICES ASSUME Up, \A s \in Slots : ~Past(s)
                       PROVE  (\A q \in {"monitor", "key"} : FreeReads(q)') /\ CatalogIsFree'
          BY <2>p, <3>0, <4>3 DEF FreeCatalog
        <5>2. \A q \in {"monitor", "key"} : FreeReads(q) /\ Reads(q)
          BY <1>0, <1>k, <1>t, <5>1 DEF FreeCatalog, Settles
        <5>3. \A q \in {"monitor", "key"} : FreeReads(q)'
          BY <4>2, <4>3, <5>2 DEF FreeReads
        <5>4. CatalogIsFree'
          BY <4>1, <4>2, <4>3, <5>2 DEF CatalogIsFree, FreeReads, Reads
        <5> QED
          BY <5>3, <5>4
      <4> QED
        BY <1>0, <2>p, <3>1, <3>2, <4>2, <4>3, <4>4
    <3> QED
      BY <1>2, <2>3, <3>3, <3>4, <3>5, <3>6, <3>7, Frames
  <2>4. CASE Crash
    <3>1. /\ file' = file /\ sshConfig' = sshConfig /\ ~Up' /\ \A t \in Slots : saves'[t] = None
      BY <2>4 DEF Crash, Up, NoSaves
    <3> QED
      BY <1>0, <2>p, <3>1 DEF OwnIds, Unclaimed, FreeCatalog, Under, At
  <2>5. ASSUME NEW s \in Slots, PersistSave(s) \/ Submit(s) \/ AllowAlways(s) PROVE Goal
    <3>1. PICK by \in {"panel", "prompt", "form", "permission"}, next \in Configs,
               unusual \in SUBSET {"stale", "outdated"} :
            /\ Begin(s, by, next, unusual)
            /\ [by |-> by, next |-> next, at |-> "writing", seen |-> {}] \in Saves
            /\ by \in {"prompt", "form"} => Submit(s) /\ next \in Submissions(modal)
                                            /\ unusual = Outdated(modal)
      BY <2>5, Begins
    <3>2. Starts(s, by, next) /\ OnlySave(s)
      BY <3>1, SaveStarts
    <3>3. Up /\ \A t \in Slots : saves[t] = None
      BY <3>1 DEF Begin, Busy, Clean, Up
    <3>4. /\ file' = file /\ sshConfig' = sshConfig /\ refreshes' = refreshes /\ catalog' = catalog
      BY <2>5 DEF PersistSave, Submit, AllowAlways
    <3>5. \A t \in Slots : ~Past(t) /\ ~Past(t)' /\ Unclaimed(t)'
      BY <3>2, <3>3 DEF Past, Prompts, At, Starts, OnlySave, Unclaimed
    <3>6. EntryIdsUnique(next.hosts) \/ Reclaimed(next.hosts, {})
      <4>1. CASE by \in {"prompt", "form"}
        <5>1. PICK seen \in SUBSET Aliases : catalog = BuildHostCatalog(file.config.hosts, seen)
          BY <1>0, <3>3, <3>5 DEF FreeCatalog, CatalogIsFree
        <5>2. sidebar.hosts = file.config.hosts
          BY <1>k, <3>3 DEF InStep, Lags, At, Same
        <5>3. Outdated(modal) = {}
          BY <3>1, <4>1 DEF Begin, Clean, Outdated
        <5> QED
          BY <1>0, <3>1, <4>1, <5>1, <5>2, <5>3, SubmissionFacts DEF Good, Submit, Typed
      <4>2. CASE by \in {"panel", "permission"}
        <5>1. SetKept'
          <6>1. phase' = phase
            BY <2>5 DEF PersistSave, Submit, AllowAlways
          <6> QED
            BY <3>3, <6>1 DEF SetKept, Clean, Up
        <5>2. Settled(s)' /\ KeepsHosts(s)'
          BY <5>1, CopiesFollowKept DEF CopiesFollow
        <5>3. next.hosts = file'.config.hosts
          BY <3>2, <4>2, <5>2 DEF Settled, KeepsHosts, Same, Starts, Under
        <5> QED
          BY <1>0, <3>4, <5>3 DEF Good
      <4> QED
        BY <4>1, <4>2
    <3>7. \A t \in Slots : OwnIds(t)'
      BY <3>2, <3>3, <3>6 DEF OwnIds, Under, Starts, OnlySave
    <3> QED
      BY <2>2, <3>4, <3>5, <3>7
  <2>6. ASSUME NEW s \in Slots, saves[s] # None, OnlySave(s)
        PROVE  \A t \in Slots : t # s => ~Past(t) /\ ~Past(t)' /\ OwnIds(t)' /\ Unclaimed(t)'
    BY <1>u, <1>k, <2>6 DEF Alone, Under, Past, Prompts, At, OnlySave, OwnIds, Unclaimed
  <2>7. ASSUME NEW s \in Slots, Land(s) PROVE Goal
    <3>1. Goes(s, "writing", "landed") /\ OnlySave(s)
      BY <2>7, SaveGoesOn
    <3>2. /\ file'.config = saves[s].next /\ sshConfig' = sshConfig
          /\ refreshes' = refreshes /\ catalog' = catalog
          /\ Claims(saves[s].next.hosts, sshConfig) \subseteq odd'
      BY <2>7 DEF Land, Typed, TypeOK
    <3>3. ~Reclaimed(saves[s].next.hosts, sshConfig)
      BY <3>2 DEF Claims, Clean
    <3>4. OwnIds(s) /\ Under(s)
      BY <1>0, <3>1 DEF Goes, Under
    <3>5. Good(file'.config.hosts, sshConfig')
      BY <3>2, <3>3, <3>4, ReclaimedGrows DEF OwnIds, Good
    <3>6. OwnIds(s)' /\ Unclaimed(s)'
      BY <3>1, <3>4 DEF OwnIds, Unclaimed, At, Goes, Under
    <3>7. \A t \in Slots : OwnIds(t)' /\ Unclaimed(t)'
      BY <2>6, <3>1, <3>6 DEF Goes
    <3>8. CASE Prompts(s)
      <4>1. Past(s)'
        BY <3>1, <3>8 DEF Past, Prompts, At, Goes
      <4> QED
        BY <2>p, <3>5, <3>7, <4>1 DEF FreeCatalog
    <3>9. CASE ~Prompts(s)
      <4>1. saves[s] \in Saves /\ saves[s] # None /\ Up
        BY <1>u, <3>1, SaveSteps DEF Goes, Typed
      <4>2. saves[s].by \in {"panel", "permission"}
        BY <3>9, <4>1 DEF Saves, Prompts
      <4>3. saves[s].next.hosts = file.config.hosts
        BY <1>k, <4>1, <4>2 DEF Settled, KeepsHosts, Under, Same
      <4>4. \A t \in Slots : Past(t)' <=> Past(t)
        BY <2>6, <3>1, <3>9 DEF Past, Prompts, At, Goes
      <4> QED
        BY <2>2, <3>2, <3>7, <4>3, <4>4
    <3> QED
      BY <3>8, <3>9
  <2>8. ASSUME NEW s \in Slots, Fail(s) \/ Resume(s) \/ ApplyPanel(s) PROVE Goal
    <3>1. /\ file' = file /\ sshConfig' = sshConfig /\ refreshes' = refreshes /\ catalog' = catalog
      BY <2>8 DEF Fail, Resume, ApplyPanel
    <3>2. OnlySave(s) /\ saves[s] # None /\ (Past(s)' <=> Past(s)) /\ OwnIds(s)' /\ Unclaimed(s)'
      BY <1>0, <2>8, SaveGoesOn
      DEF Goes, Ends, Past, Prompts, At, OwnIds, Unclaimed, Under, Fail, Resume, ApplyPanel
    <3>3. \A t \in Slots : (Past(t)' <=> Past(t)) /\ OwnIds(t)' /\ Unclaimed(t)'
      BY <2>6, <3>2
    <3> QED
      BY <2>2, <3>1, <3>3
  <2>9. ASSUME NEW s \in Slots, ApplyPrompt(s) PROVE Goal
    <3>1. Goes(s, "applying", "refreshing") /\ OnlySave(s) /\ saves'[s].seen = {sshConfig}
      BY <2>9, SaveGoesOn
    <3>2. Past(s)'
      BY <2>9, <3>1 DEF Past, Prompts, At, Goes, ApplyPrompt
    <3>3. file' = file /\ sshConfig' = sshConfig
      BY <2>9 DEF ApplyPrompt
    <3>4. OwnIds(s)' /\ Unclaimed(s)'
      BY <1>0, <3>1, <3>3 DEF OwnIds, Unclaimed, Under, Goes, Good
    <3>5. \A t \in Slots : OwnIds(t)' /\ Unclaimed(t)'
      BY <2>6, <3>1, <3>4 DEF Goes
    <3> QED
      BY <1>0, <2>p, <3>2, <3>3, <3>5 DEF FreeCatalog
  <2>10. ASSUME NEW s \in Slots, RefreshPrompt(s) PROVE Goal
    <3>1. Ends(s) /\ OnlySave(s) /\ Up
      BY <1>u, <2>10, SaveGoesOn DEF Ends
    <3>2. At(s, "refreshing") /\ refreshes = NoRefreshes /\ Same(saves[s].next)
      BY <1>k, <2>10, <3>1 DEF RefreshPrompt, Rereads, Settled, Under, At
    <3>3. PICK seen \in saves[s].seen : catalog' = BuildHostCatalog(saves[s].next.hosts, seen)
      BY <2>10 DEF RefreshPrompt
    <3>4. file' = file /\ sshConfig' = sshConfig /\ refreshes' = refreshes
      BY <2>10 DEF RefreshPrompt
    <3>5. seen \in SUBSET Aliases
      BY <2>10, <3>3, SaveSteps DEF Typed, RefreshPrompt
    <3>6. CatalogIsFree'
      BY <1>0, <3>2, <3>3, <3>4, <3>5 DEF CatalogIsFree, Unclaimed, Same
    <3>7. \A r \in DOMAIN refreshes' : refreshes'[r] = None
      BY <3>2, <3>4 DEF NoRefreshes
    <3>8. OwnIds(s)' /\ Unclaimed(s)'
      BY <3>1 DEF OwnIds, Unclaimed, Under, At, Ends
    <3>9. \A t \in Slots : OwnIds(t)' /\ Unclaimed(t)'
      BY <2>6, <3>1, <3>8 DEF Ends
    <3> QED
      BY <1>0, <2>p, <3>4, <3>6, <3>7, <3>9 DEF FreeCatalog, FreeReads
  <2> QED
    BY <2>3, <2>4, <2>5, <2>7, <2>8, <2>9, <2>10, Steps
<1> QED
  BY <1>1, <1>2

-----------------------------------------------------------------------------
(* The theorems                                                            *)

LEMMA InitHolds == Init => IInv
<1> SUFFICES ASSUME Init PROVE IInv
  OBVIOUS
<1>1. Typed
  BY InitIsTyped
<1>2. ~Up /\ \A s \in Slots : saves[s] = None
  BY DEF Init, Up, NoSaves
<1>3. SshFollows /\ GateFollows /\ CopiesFollow /\ CatalogFollows
  BY <1>2 DEF SshFollows, GateFollows, CopiesFollow, CatalogFollows, GateKept, SetKept, Calm
<1>4. StartsFollow
  <2>1. phase # "refused" /\ file.config.hosts = <<>>
    BY DEF Init, DefaultConfig
  <2>2. Good(file.config.hosts, sshConfig)
    BY <2>1 DEF Good, EntryIdsUnique, Reclaimed
  <2> QED
    BY <1>2, <2>1, <2>2 DEF StartsFollow, Under, At
<1> QED
  BY <1>1, <1>3, <1>4 DEF IInv

LEMMA NextKeepsInvariant == IInv /\ [Next]_vars => IInv'
<1> SUFFICES ASSUME IInv, [Next]_vars PROVE IInv'
  OBVIOUS
<1>1. Typed /\ SshFollows /\ GateFollows /\ CopiesFollow /\ CatalogFollows /\ StartsFollow
  BY DEF IInv
<1>2. Typed'
  BY <1>1, TypesKept, ShapesKept DEF Typed
<1>3. SshFollows' /\ GateFollows' /\ CopiesFollow'
  BY <1>1, SshFollowsKept, GateFollowsKept, CopiesFollowKept
<1>4. CatalogFollows' /\ StartsFollow'
  BY <1>1, CatalogFollowsKept, StartsFollowKept
<1> QED
  BY <1>2, <1>3, <1>4 DEF IInv

THEOREM Inductive == Spec => []IInv
<1>1. Init => IInv
  BY InitHolds
<1>2. IInv /\ [Next]_vars => IInv'
  BY NextKeepsInvariant
<1> QED
  BY <1>1, <1>2, PTL DEF Spec

\* Every variable has a value of its type; SshClient knows the hosts of the catalog
\* (client.ts:55-80); and TermLoom never writes a configuration with which it refuses
\* to start, nor loses the original one (config/store.ts:20-50), with the exceptions
\* that StartsAgain names.
THEOREM ConfigurationsStartAgain == Spec => []Consistent
<1>1. IInv => Consistent
  <2> SUFFICES ASSUME IInv PROVE Consistent
    OBVIOUS
  <2>1. TypeOK /\ SshKnowsCatalog
    BY DEF IInv, Typed, SshFollows, SshKnowsCatalog, Up
  <2>2. StartsAgain
    BY DEF IInv, Typed, Shapes, StartsFollow, StartsAgain, Clean
  <2> QED
    BY <2>1, <2>2 DEF Consistent
<1> QED
  BY <1>1, Inductive, PTL

\* When nothing is being saved, the domains a document may load from without asking
\* are those of the file (run.ts:219-240, domain-permission.ts:37-50), unless a save
\* resumed after one that landed later.
THEOREM GateShowsTheFile == Spec => []GateIsFile
<1>1. IInv => GateIsFile
  BY DEF IInv, GateFollows, GateKept, GateIsFile, Quiet, Busy, Up, At
<1> QED
  BY <1>1, Inductive, PTL

\* When nothing is being saved, the copies of the configuration agree with the file,
\* whichever party saved last (workspace-app.ts:1477-1501, sidebar-renderable.ts:537-546),
\* unless a save was composed while another was under way.
THEOREM NoSaveUndoesAnother == Spec => []CopiesAgree
<1>1. IInv => CopiesAgree
  BY DEF IInv, CopiesFollow, SetKept, InStep, Lags, Same, CopiesAgree, Quiet, Busy, Up, At
<1> QED
  BY <1>1, Inductive, PTL

\* Once every watcher event and every refresh is dealt with, the catalog is the one
\* that the configuration and the SSH files give (host-catalog.ts:146-207), unless
\* refreshes overlapped.
THEOREM NoChangeOfTheHostsIsLost == Spec => []CatalogIsCurrent
<1>1. IInv => CatalogIsCurrent
  <2> SUFFICES ASSUME IInv, Quiet, ~timer, ~Refreshing, odd \cap {"stale", "crossed"} = {}
               PROVE  catalog = BuildHostCatalog(file.config.hosts, sshConfig)
    BY DEF CatalogIsCurrent
  <2>1. Calm /\ \A s \in Slots : ~Past(s)
    BY DEF Calm, Up, Quiet, Busy, Past, Prompts
  <2>2. refreshes = NoRefreshes
    BY RefreshTypes DEF IInv, Refreshing
  <2> QED
    BY <2>1, <2>2 DEF IInv, CatalogFollows
<1> QED
  BY <1>1, Inductive, PTL
=============================================================================
