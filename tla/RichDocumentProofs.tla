-------------------------- MODULE RichDocumentProofs -------------------------
(***************************************************************************)
(* Theorems about the preview pane: RichDocument, for any document,        *)
(* viewport and number of loads, and MediaSurfaces, for any surfaces,      *)
(* regions and number of frames.                                           *)
(***************************************************************************)
EXTENDS RichDocument, MediaSurfaces, SequenceTheorems, FiniteSetTheorems,
        WellFoundedInduction, TLAPS

-----------------------------------------------------------------------------
(* The inductive invariant                                                 *)

Slots == [range : BOOLEAN, status : {"none", "idle", "queued", "running", "stopping", "done"}]
Renders == [at : {"idle", "reading", "clearing", "laying"}, gen : Nat]

\* TypeOK, in parts.
ViewTypes == /\ presented \in BOOLEAN /\ destroyed \in BOOLEAN /\ evaluate \in BOOLEAN
             /\ near \in Views /\ missed \subseteq Blocks
LazyTypes == /\ sched \in [Blocks -> Slots] /\ queue \in Seq(Blocks) /\ asking \subseteq Remote
             /\ block \in [Blocks -> {"idle", "loading", "shown", "denied"}]
LoadTypes == /\ generation \in 1..MaxGeneration /\ rendered \subseteq 1..MaxGeneration
             /\ load \in Renders /\ more \in Renders
             /\ apply \in {"idle", "waiting", "clearing"} /\ doc \in Nat
             /\ apply # "idle" => generation + 1 <= MaxGeneration
GateTypes == /\ allowed \in BOOLEAN /\ dropped \in BOOLEAN
             /\ entry \in {0} \cup Entries /\ saving \in {0} \cup Entries
             /\ retries \in [Entries -> SUBSET Blocks]
Typed == ViewTypes /\ LazyTypes /\ LoadTypes /\ GateTypes

\* Only a pane that is shown looks at its blocks.
HiddenRests == /\ destroyed => ~presented
               /\ evaluate => presented
               /\ HiddenIsCancelled

\* A queued block is in range and has an entry in the queue.
QueuedIsListed == \A b \in Blocks : sched[b].status = "queued" =>
                    sched[b].range /\ b \in Range(queue)

\* What a task has done to its block.
TaskHasBlock == \A b \in Blocks :
  /\ sched[b].status \in {"running", "stopping"} => block[b] \in {"loading", "shown"}
  /\ sched[b].status = "done" => block[b] \in {"shown", "denied"}

\* Unless new settings dropped it, the entry that is being approved is the pending one.
SavingIsPending == ~dropped /\ saving # 0 => entry = saving

RenderedIsCurrent == ~destroyed /\ apply = "idle" => rendered \subseteq {generation}

Blocked == AtMostTwo /\ QueuedIsListed /\ TaskHasBlock
Answered == SavingIsPending /\ DeniedIsAsked

IInv == Typed /\ HiddenRests /\ Blocked /\ Answered /\ RenderedIsCurrent /\ NearIsScheduled

-----------------------------------------------------------------------------
(* Folds over sequences                                                    *)

\* A set of natural numbers that has 0, and n + 1 with every n, has all of them.
LEMMA Counting ==
  ASSUME NEW Good, 0 \in Good, \A n \in Nat : n \in Good => n + 1 \in Good
  PROVE  Nat \subseteq Good
<1> DEFINE Bad == Nat \ Good
<1>1. SUFFICES ASSUME Bad # {} PROVE FALSE
  OBVIOUS
<1>2. PICK n \in Bad : \A m \in Bad : <<m, n>> \notin OpToRel(<, Nat)
  <2>1. Bad \subseteq Nat
    OBVIOUS
  <2> HIDE DEF Bad
  <2> QED
    BY <1>1, <2>1, WFMin, NatLessThanWellFounded
<1>3. n - 1 \in Nat /\ n - 1 + 1 = n
  OBVIOUS
<1>4. <<n - 1, n>> \in OpToRel(<, Nat)
  BY <1>3 DEF OpToRel
<1>5. n - 1 \notin Bad
  BY <1>2, <1>4
<1> QED
  BY <1>3, <1>5

\* The sets of positions up to n, and the table that FoldLeft tabulates over them:
\* the greatest position is taken last.
Upto(n) == SUBSET (1..n)

IsTable(g, step, base, n) ==
  g = [s \in Upto(n) |-> IF s = {} THEN base ELSE step[Max(s)][g[s \ {Max(s)}]]]

LEMMA MaxOfUpto ==
  ASSUME NEW n \in Nat, NEW s \in Upto(n), s # {}
  PROVE  Max(s) \in s /\ \A y \in s : Max(s) >= y
<1> DEFINE Reach == {k \in Nat : \A t \in Upto(k) : t # {} => \E x \in t : \A y \in t : x >= y}
<1>1. 0 \in Reach
  <2>1. 1..0 = {}
    OBVIOUS
  <2> QED
    BY <2>1 DEF Upto
<1>2. ASSUME NEW k \in Nat, k \in Reach PROVE k + 1 \in Reach
  <2> SUFFICES ASSUME NEW t \in Upto(k + 1), t # {} PROVE \E x \in t : \A y \in t : x >= y
    OBVIOUS
  <2>1. CASE k + 1 \in t
    BY <2>1 DEF Upto
  <2>2. CASE k + 1 \notin t
    <3>1. t \in Upto(k)
      BY <2>2 DEF Upto
    <3> QED
      BY <1>2, <3>1
  <2> QED
    BY <2>1, <2>2
<1> HIDE DEF Reach
<1>3. n \in Reach
  BY <1>1, <1>2, Counting
<1>4. \E x \in s : \A y \in s : x >= y
  BY <1>3 DEF Reach
<1> QED
  BY <1>4 DEF Max

\* The recursion of a fold has a solution.
LEMMA TableExists ==
  ASSUME NEW n \in Nat, NEW V, NEW base \in V, NEW step \in [1..n -> [V -> V]]
  PROVE  \E g \in [Upto(n) -> V] : IsTable(g, step, base, n)
<1> DEFINE Good == {k \in Nat : k <= n => \E g \in [Upto(k) -> V] : IsTable(g, step, base, k)}
<1>1. 0 \in Good
  <2> DEFINE g == [s \in Upto(0) |-> base]
  <2>1. \A s \in Upto(0) : s = {}
    BY DEF Upto
  <2>2. g \in [Upto(0) -> V] /\ IsTable(g, step, base, 0)
    BY <2>1 DEF IsTable
  <2> QED
    BY <2>2
<1>2. ASSUME NEW k \in Nat, k \in Good PROVE k + 1 \in Good
  <2> SUFFICES ASSUME k + 1 <= n
               PROVE  \E h \in [Upto(k + 1) -> V] : IsTable(h, step, base, k + 1)
    OBVIOUS
  <2>k. k + 1 <= n
    OBVIOUS
  <2>1. PICK g \in [Upto(k) -> V] : IsTable(g, step, base, k)
    BY <1>2
  <2> DEFINE h == [s \in Upto(k + 1) |-> IF s \in Upto(k) THEN g[s]
                                         ELSE step[k + 1][g[s \ {k + 1}]]]
  <2>2. ASSUME NEW s \in Upto(k + 1), s # {}
        PROVE  /\ Max(s) \in 1..n /\ s \ {Max(s)} \in Upto(k)
               /\ h[s] = step[Max(s)][h[s \ {Max(s)}]] /\ h[s] \in V
    <3>1. Max(s) \in s /\ \A y \in s : Max(s) >= y
      <4>1. k + 1 \in Nat
        OBVIOUS
      <4> HIDE DEF Good, h
      <4> QED
        BY <2>2, <4>1, MaxOfUpto
    <3>0. \A y \in s : y \in 1..(k + 1)
      BY DEF Upto
    <3>m. Max(s) \in 1..(k + 1)
      BY <3>0, <3>1
    <3> HIDE DEF Good
    <3>2. CASE s \in Upto(k)
      <4>1. s \ {Max(s)} \in Upto(k) /\ Max(s) \in 1..n
        <5> HIDE DEF h
        <5>1. \A y \in s : y \in 1..k
          BY <3>2 DEF Upto
        <5>2. Max(s) \in 1..k
          BY <3>1, <5>1
        <5>3. Max(s) \in 1..n
          BY <5>2, <2>k
        <5> QED
          BY <5>1, <5>3 DEF Upto
      <4>2. g[s] = step[Max(s)][g[s \ {Max(s)}]]
        BY <2>1, <2>2, <3>2 DEF IsTable
      <4>3. h[s] = g[s] /\ h[s \ {Max(s)}] = g[s \ {Max(s)}]
        BY <3>2, <4>1 DEF Upto
      <4> QED
        BY <3>2, <4>1, <4>2, <4>3
    <3>3. CASE s \notin Upto(k)
      <4>1. Max(s) = k + 1 /\ s \ {k + 1} \in Upto(k) /\ k + 1 \in 1..n
        <5> HIDE DEF h
        <5>1. PICK y \in s : y \notin 1..k
          BY <3>3 DEF Upto
        <5>2. y = k + 1
          BY <3>0, <5>1
        <5>3. Max(s) = k + 1
          <6>1. Max(s) >= k + 1
            BY <3>1, <5>2
          <6> QED
            BY <3>m, <6>1
        <5>4. \A z \in s \ {k + 1} : z \in 1..k
          BY <3>0
        <5> QED
          BY <5>3, <5>4, <2>k DEF Upto
      <4>2. s \ {k + 1} \in Upto(k + 1)
        BY DEF Upto
      <4>3. h[s] = step[k + 1][g[s \ {k + 1}]] /\ h[s \ {k + 1}] = g[s \ {k + 1}]
        BY <3>3, <4>1, <4>2
      <4> QED
        BY <4>1, <4>3
    <3> QED
      BY <3>2, <3>3
  <2>3. {} \in Upto(k + 1) /\ {} \in Upto(k) /\ g[{}] = base
    BY <2>1 DEF IsTable, Upto
  <2>4. h[{}] = base
    BY <2>3
  <2>5. h = [s \in Upto(k + 1) |-> h[s]] /\ h \in [Upto(k + 1) -> V]
    <3>1. h = [s \in Upto(k + 1) |-> h[s]]
      OBVIOUS
    <3> HIDE DEF h, Good
    <3>2. \A s \in Upto(k + 1) : h[s] \in V
      BY <2>2, <2>4
    <3> QED
      BY <3>1, <3>2
  <2> HIDE DEF h
  <2>6. IsTable(h, step, base, k + 1)
    BY <2>2, <2>4, <2>5 DEF IsTable
  <2> QED
    BY <2>5, <2>6
<1> HIDE DEF Good
<1>3. n \in Good
  BY <1>1, <1>2, Counting
<1> QED
  BY <1>3 DEF Good

\* A fold starts from the base and ends after the last position.
LEMMA PrefixStep ==
  ASSUME NEW n \in Nat, NEW k \in 1..n
  PROVE  /\ 1..k \in Upto(n) /\ 1..k # {}
         /\ Max(1..k) = k /\ (1..k) \ {k} = 1..(k - 1)
<1>1. 1..k \in Upto(n) /\ 1..k # {} /\ (1..k) \ {k} = 1..(k - 1)
  BY DEF Upto
<1>2. Max(1..k) \in 1..k /\ \A y \in 1..k : Max(1..k) >= y
  BY <1>1, MaxOfUpto
<1> QED
  BY <1>1, <1>2
\* A fact that each step of a fold keeps holds of its result.
LEMMA PrefixesKeep ==
  ASSUME NEW n \in Nat, NEW f, NEW Good, f[{}] \in Good[0],
         \A k \in 1..n : f[1..(k - 1)] \in Good[k - 1] => f[1..k] \in Good[k]
  PROVE  f[1..n] \in Good[n]
<1> DEFINE Reach == {k \in Nat : k <= n => f[1..k] \in Good[k]}
<1>1. 0 \in Reach
  <2>1. 1..0 = {}
    OBVIOUS
  <2> QED
    BY <2>1
<1>2. ASSUME NEW k \in Nat, k \in Reach PROVE k + 1 \in Reach
  <2>1. (k + 1) - 1 = k /\ (k + 1 <= n => k + 1 \in 1..n /\ k <= n)
    OBVIOUS
  <2> QED
    BY <1>2, <2>1
<1> HIDE DEF Reach
<1>3. n \in Reach
  BY <1>1, <1>2, Counting
<1> QED
  BY <1>3 DEF Reach

-----------------------------------------------------------------------------
(* The pump                                                                *)

Schedules == [Blocks -> Slots]
Pumps     == [sched : Schedules, left : Seq(Blocks)]
Waits     == [status |-> "queued", range |-> TRUE]
Runs      == [status |-> "running", range |-> TRUE]
BusyIn(s) == {b \in Blocks : s[b].status \in {"running", "stopping"}}

\* Only a block that waits in range is started.
StartedFrom(s, t) == \A b \in Blocks : t[b] = s[b] \/ (s[b] = Waits /\ t[b] = Runs)

LEMMA RangeOfAppend ==
  ASSUME NEW S, NEW q \in Seq(S), NEW x \in S
  PROVE  Append(q, x) \in Seq(S) /\ Range(Append(q, x)) = Range(q) \cup {x}
<1>1. Append(q, x) \in Seq(S) /\ Len(Append(q, x)) = Len(q) + 1
  OBVIOUS
<1>2. Append(q, x)[Len(q) + 1] = x /\ \A i \in 1..Len(q) : Append(q, x)[i] = q[i]
  OBVIOUS
<1> QED
  BY <1>1, <1>2 DEF Range

\* One entry of the queue: its block is started, dropped, or left in the queue.
LEMMA PumpedStep ==
  ASSUME NEW p \in Pumps, NEW b \in Blocks
  PROVE  /\ Pumped(p, b) \in Pumps
         /\ StartedFrom(p.sched, Pumped(p, b).sched)
         /\ Busy(p.sched) <= 2 => Busy(Pumped(p, b).sched) <= 2
         /\ Range(p.left) \subseteq Range(Pumped(p, b).left)
         /\ Pumped(p, b).sched[b] = Waits => b \in Range(Pumped(p, b).left)
<1>p. p.sched \in Schedules /\ p.left \in Seq(Blocks)
  BY DEF Pumps
<1>1. CASE Busy(p.sched) >= 2
  <2>1. Pumped(p, b) = [p EXCEPT !.left = Append(@, b)]
    BY <1>1 DEF Pumped
  <2>2. Pumped(p, b).sched = p.sched /\ Pumped(p, b).left = Append(p.left, b)
    BY <2>1 DEF Pumps
  <2>3. Append(p.left, b) \in Seq(Blocks) /\ Range(Append(p.left, b)) = Range(p.left) \cup {b}
    BY <1>p, RangeOfAppend
  <2>4. Pumped(p, b) \in Pumps
    BY <2>1, <2>3 DEF Pumps
  <2> QED
    BY <2>2, <2>3, <2>4 DEF StartedFrom
<1>2. CASE ~(Busy(p.sched) >= 2) /\ p.sched[b] = Waits
  <2>1. Pumped(p, b) = [p EXCEPT !.sched[b].status = "running"]
    BY <1>2 DEF Pumped, Waits
  <2>2. /\ Pumped(p, b).left = p.left
        /\ Pumped(p, b).sched = [p.sched EXCEPT ![b].status = "running"]
    BY <2>1 DEF Pumps
  <2>3. Pumped(p, b).sched = [p.sched EXCEPT ![b] = Runs]
    <3>1. ASSUME NEW r \in Slots
          PROVE  [r EXCEPT !.status = "running"] = [status |-> "running", range |-> r.range]
      BY DEF Slots
    <3>2. p.sched[b] \in Slots /\ p.sched[b].range = TRUE
      BY <1>p, <1>2 DEF Schedules, Waits
    <3>3. [p.sched[b] EXCEPT !.status = "running"] = Runs
      BY <3>1, <3>2 DEF Runs
    <3> QED
      BY <2>2, <3>3
  <2>4. Pumped(p, b).sched \in Schedules /\ Pumped(p, b) \in Pumps
    <3>1. Pumped(p, b).sched \in Schedules
      BY <1>p, <2>3 DEF Schedules, Slots, Runs
    <3> QED
      BY <2>1, <2>2, <3>1 DEF Pumps
  <2>5. BusyIn(Pumped(p, b).sched) = BusyIn(p.sched) \cup {b}
    BY <1>p, <2>3 DEF BusyIn, Runs, Schedules
  <2>6. b \notin BusyIn(p.sched)
    BY <1>2 DEF BusyIn, Waits
  <2>7. IsFiniteSet(BusyIn(p.sched))
    BY RichDocumentAssumption, FS_Subset DEF BusyIn
  <2>8. Busy(Pumped(p, b).sched) = Busy(p.sched) + 1 /\ Busy(p.sched) \in Nat
    BY <2>5, <2>6, <2>7, FS_AddElement, FS_CardinalityType DEF Busy, BusyIn
  <2>9. StartedFrom(p.sched, Pumped(p, b).sched) /\ Pumped(p, b).sched[b] # Waits
    BY <1>p, <1>2, <2>3 DEF StartedFrom, Schedules, Waits, Runs
  <2> QED
    BY <1>2, <2>2, <2>4, <2>8, <2>9
<1>3. CASE ~(Busy(p.sched) >= 2) /\ p.sched[b] # Waits
  BY <1>3 DEF Pumped, Waits, StartedFrom
<1> QED
  BY <1>1, <1>2, <1>3

\* The pump starts blocks that wait in range, two at most with those that run, and
\* leaves no waiting block out of the queue.
LEMMA PumpFacts ==
  ASSUME NEW s \in Schedules, NEW q \in Seq(Blocks)
  PROVE  /\ Pump(s, q) \in Pumps
         /\ StartedFrom(s, Pump(s, q).sched)
         /\ Busy(s) <= 2 => Busy(Pump(s, q).sched) <= 2
         /\ \A b \in Range(q) : Pump(s, q).sched[b] = Waits => b \in Range(Pump(s, q).left)
<1> DEFINE n == Len(q)
           base == [sched |-> s, left |-> <<>>]
           Table(g) == g = [d \in SUBSET DOMAIN q |->
                              IF d = {} THEN base ELSE Pumped(g[d \ {Max(d)}], q[Max(d)])]
           iter == CHOOSE g : Table(g)
<1>n. n \in Nat /\ DOMAIN q = 1..n /\ \A i \in 1..n : q[i] \in Blocks
  OBVIOUS
<1>1. Pump(s, q) = iter[DOMAIN q]
  BY DEF Pump, FoldLeft, MapThenFoldSet
<1>2. base \in Pumps
  BY DEF Pumps
<1> HIDE DEF base
<1>3. \E g : Table(g)
  <2> DEFINE step == [i \in 1..n |-> [p \in Pumps |-> Pumped(p, q[i])]]
  <2>1. step \in [1..n -> [Pumps -> Pumps]]
    BY <1>n, PumpedStep
  <2>2. PICK g \in [Upto(n) -> Pumps] : IsTable(g, step, base, n)
    <3> HIDE DEF n, step
    <3> QED
      BY <1>n, <1>2, <2>1, TableExists
  <2>3. ASSUME NEW d \in Upto(n), d # {}
        PROVE  step[Max(d)][g[d \ {Max(d)}]] = Pumped(g[d \ {Max(d)}], q[Max(d)])
    <3>1. Max(d) \in 1..n /\ d \ {Max(d)} \in Upto(n)
      BY <1>n, <2>3, MaxOfUpto DEF Upto
    <3> QED
      BY <3>1
  <2>4. Table(g)
    BY <1>n, <2>2, <2>3 DEF IsTable, Upto
  <2> QED
    BY <2>4
<1>4. Table(iter)
  BY <1>3
<1> HIDE DEF iter
<1> DEFINE Good == [k \in Nat |-> {p \in Pumps :
             /\ StartedFrom(s, p.sched)
             /\ Busy(s) <= 2 => Busy(p.sched) <= 2
             /\ \A i \in 1..n : i <= k /\ p.sched[q[i]] = Waits => q[i] \in Range(p.left)}]
<1>5. iter[{}] \in Good[0]
  <2>1. iter[{}] = base /\ base.sched = s
    BY <1>4 DEF base
  <2> QED
    BY <1>2, <2>1 DEF StartedFrom
<1>6. ASSUME NEW k \in 1..n, iter[1..(k - 1)] \in Good[k - 1]
      PROVE  iter[1..k] \in Good[k]
  <2> DEFINE p == iter[1..(k - 1)]
             t == Pumped(p, q[k])
  <2>1. iter[1..k] = t
    <3>1. 1..k \in SUBSET DOMAIN q /\ 1..k # {} /\ Max(1..k) = k /\ (1..k) \ {k} = 1..(k - 1)
      <4> HIDE DEF n
      <4> QED
        BY <1>n, PrefixStep DEF Upto
    <3> QED
      BY <1>4, <3>1
  <2>2. /\ p \in Pumps /\ StartedFrom(s, p.sched)
        /\ Busy(s) <= 2 => Busy(p.sched) <= 2
        /\ \A i \in 1..n : i < k /\ p.sched[q[i]] = Waits => q[i] \in Range(p.left)
    BY <1>6
  <2>3. /\ t \in Pumps /\ StartedFrom(p.sched, t.sched)
        /\ Busy(p.sched) <= 2 => Busy(t.sched) <= 2
        /\ Range(p.left) \subseteq Range(t.left)
        /\ t.sched[q[k]] = Waits => q[k] \in Range(t.left)
    <3> HIDE DEF p
    <3> QED
      BY <1>n, <2>2, PumpedStep
  <2> HIDE DEF p, t
  <2>4. StartedFrom(s, t.sched)
    BY <2>2, <2>3 DEF StartedFrom, Waits, Runs
  <2>5. ASSUME NEW i \in 1..n, i <= k, t.sched[q[i]] = Waits
        PROVE  q[i] \in Range(t.left)
    <3>1. CASE i = k
      BY <2>3, <2>5, <3>1
    <3>2. CASE i < k
      <4>1. p.sched[q[i]] = Waits
        BY <1>n, <2>3, <2>5 DEF StartedFrom, Waits, Runs
      <4> QED
        BY <2>2, <2>3, <3>2, <4>1
    <3> QED
      BY <2>5, <3>1, <3>2
  <2> QED
    BY <2>1, <2>2, <2>3, <2>4, <2>5
<1> HIDE DEF Good
<1>7. iter[1..n] \in Good[n]
  <2> HIDE DEF n
  <2> QED
    BY <1>n, <1>5, <1>6, PrefixesKeep
<1>8. /\ Pump(s, q) \in Good[n]
      /\ \A b \in Range(q) : \E i \in 1..n : q[i] = b
  BY <1>1, <1>7, <1>n DEF Range
<1> QED
  BY <1>8, <1>n DEF Good

\* The blocks that come into range are all put into the queue.
LEMMA QueuedSet ==
  ASSUME NEW q \in Seq(Blocks), NEW S \in SUBSET Blocks
  PROVE  /\ q \o SetToSeq(S) \in Seq(Blocks)
         /\ Range(q \o SetToSeq(S)) = Range(q) \cup S
<1> DEFINE n == Cardinality(S)
           t == SetToSeq(S)
<1>1. IsFiniteSet(S) /\ n \in Nat /\ ExistsBijection(1..n, S)
  BY RichDocumentAssumption, FS_Subset, FS_CardinalityType
<1>2. t \in [1..n -> S] /\ IsInjective(t)
  <2>1. \E f \in [1..n -> S] : IsInjective(f)
    BY <1>1 DEF ExistsBijection, Bijection, Injection
  <2> QED
    BY <2>1 DEF SetToSeq
<1>3. \A x \in S : \E i \in 1..n : t[i] = x
  <2>1. t \in Injection(1..n, S)
    BY <1>2 DEF Injection
  <2>2. Cardinality(1..n) = n
    BY <1>1, FS_Interval
  <2>3. t \in Surjection(1..n, S)
    <3> HIDE DEF t
    <3> QED
      BY <1>1, <2>1, <2>2, FS_Injection
  <2> QED
    BY <2>3 DEF Surjection
<1> HIDE DEF t, n
<1>4. t \in Seq(Blocks) /\ Len(t) = n
  BY <1>1, <1>2
<1>5. /\ q \o t \in Seq(Blocks) /\ Len(q \o t) = Len(q) + n
      /\ \A i \in 1..Len(q) : (q \o t)[i] = q[i]
      /\ \A i \in 1..n : (q \o t)[Len(q) + i] = t[i]
  BY <1>1, <1>4
<1>6. ASSUME NEW x \in Range(q \o t) PROVE x \in Range(q) \cup S
  <2>1. PICK i \in 1..(Len(q) + n) : (q \o t)[i] = x
    BY <1>5 DEF Range
  <2>2. CASE i <= Len(q)
    BY <1>5, <2>1, <2>2 DEF Range
  <2>3. CASE i > Len(q)
    <3>1. i - Len(q) \in 1..n /\ Len(q) + (i - Len(q)) = i
      BY <1>1, <2>3
    <3> QED
      BY <1>2, <1>5, <2>1, <3>1
  <2> QED
    BY <2>2, <2>3
<1>7. ASSUME NEW x \in S PROVE x \in Range(q \o t)
  <2>1. PICK i \in 1..n : t[i] = x
    BY <1>3
  <2>2. Len(q) + i \in 1..(Len(q) + n) /\ (q \o t)[Len(q) + i] = x
    BY <1>1, <1>5, <2>1
  <2> QED
    BY <1>5, <2>2 DEF Range
<1>8. ASSUME NEW x \in Range(q) PROVE x \in Range(q \o t)
  <2>1. PICK i \in 1..Len(q) : q[i] = x
    BY DEF Range
  <2>2. i \in 1..(Len(q) + n) /\ (q \o t)[i] = x
    BY <1>1, <1>5, <2>1
  <2> QED
    BY <1>5, <2>2 DEF Range
<1> QED
  BY <1>5, <1>6, <1>7, <1>8 DEF t

-----------------------------------------------------------------------------
(* A step of the scheduler                                                 *)

BlockStates == [Blocks -> {"idle", "loading", "shown", "denied"}]

\* What the pump leaves of the blocks s, their states bs and the queue q.
LEMMA StartedFacts ==
  ASSUME NEW s \in Schedules, NEW q \in Seq(Blocks), NEW bs \in BlockStates,
         asking \subseteq Remote, Started(s, q, bs)
  PROVE  /\ sched' \in Schedules /\ queue' \in Seq(Blocks) /\ asking' \subseteq Remote
         /\ block' \in BlockStates
         /\ Busy(s) <= 2 => Busy(sched') <= 2
         /\ \A b \in Blocks :
              \/ sched'[b] = s[b] /\ block'[b] = bs[b]
              \/ /\ presented /\ s[b] = Waits /\ sched'[b] = Runs
                 /\ block'[b] = IF bs[b] = "shown" THEN "shown" ELSE "loading"
         /\ \A b \in Range(q) : sched'[b] = Waits => b \in Range(queue')
<1> DEFINE p == IF destroyed \/ ~presented THEN [sched |-> s, left |-> q] ELSE Pump(s, q)
           start == {b \in Blocks : p.sched[b].status = "running" /\ s[b].status # "running"}
<1>1. /\ p \in Pumps
      /\ Busy(s) <= 2 => Busy(p.sched) <= 2
      /\ \A b \in Blocks : p.sched[b] = s[b] \/ (presented /\ s[b] = Waits /\ p.sched[b] = Runs)
      /\ \A b \in Range(q) : p.sched[b] = Waits => b \in Range(p.left)
  <2>1. CASE destroyed \/ ~presented
    BY <2>1 DEF Pumps
  <2>2. CASE ~(destroyed \/ ~presented)
    BY <2>2, PumpFacts DEF StartedFrom
  <2> QED
    BY <2>1, <2>2
<1>2. /\ sched' = p.sched /\ queue' = p.left
      /\ asking' \subseteq asking \cup Remote
      /\ block' = [b \in Blocks |-> IF b \in start /\ bs[b] # "shown" THEN "loading" ELSE bs[b]]
  BY DEF Started
<1> HIDE DEF p
<1>3. \A b \in Blocks : b \in start <=> sched'[b] # s[b]
  BY <1>1, <1>2 DEF Waits, Runs
<1>4. \A b \in Blocks : p.sched[b] # s[b] => presented /\ s[b] = Waits /\ p.sched[b] = Runs
  BY <1>1
<1> HIDE DEF start
<1>5. block' \in BlockStates
  BY <1>2 DEF BlockStates
<1>6. ASSUME NEW b \in Blocks
      PROVE  \/ sched'[b] = s[b] /\ block'[b] = bs[b]
             \/ /\ presented /\ s[b] = Waits /\ sched'[b] = Runs
                /\ block'[b] = IF bs[b] = "shown" THEN "shown" ELSE "loading"
  BY <1>2, <1>3, <1>4
<1> QED
  BY <1>1, <1>2, <1>5, <1>6 DEF Pumps

\* What the scheduler is given: its blocks s, their states bs and its queue q.
Ordered(s, q) == \A b \in Blocks : s[b].status = "queued" => s[b].range /\ b \in Range(q)
Loaded(s, bs) == \A b \in Blocks :
  /\ s[b].status \in {"running", "stopping"} => bs[b] \in {"loading", "shown"}
  /\ s[b].status = "done" => bs[b] \in {"shown", "denied"}
Resting(s) == \A b \in Blocks : s[b].status \notin {"queued", "running"}
Covered(v, s, q, bs) == \A b \in v : s[b].status # "none" =>
  \/ bs[b] \in {"shown", "denied"}
  \/ s[b].status \in {"running", "stopping"} /\ s[b].range
  \/ s[b].status = "queued" /\ b \in Range(q)

LEMMA StartedKeeps ==
  ASSUME NEW s \in Schedules, NEW q \in Seq(Blocks), NEW bs \in BlockStates,
         NEW v \in SUBSET Blocks, asking \subseteq Remote, UNCHANGED presented,
         Busy(s) <= 2, Ordered(s, q), Loaded(s, bs), ~presented => Resting(s),
         Started(s, q, bs)
  PROVE  /\ LazyTypes' /\ AtMostTwo' /\ QueuedIsListed' /\ TaskHasBlock'
         /\ HiddenIsCancelled'
         /\ \A b \in Blocks : block'[b] = "denied" => bs[b] = "denied"
         /\ Covered(v, s, q, bs) => Covered(v, sched', queue', block')
<1>1. /\ sched' \in Schedules /\ queue' \in Seq(Blocks) /\ asking' \subseteq Remote
      /\ block' \in BlockStates /\ Busy(sched') <= 2
      /\ \A b \in Blocks :
           \/ sched'[b] = s[b] /\ block'[b] = bs[b]
           \/ /\ presented /\ s[b] = Waits /\ sched'[b] = Runs
              /\ block'[b] = IF bs[b] = "shown" THEN "shown" ELSE "loading"
      /\ \A b \in Range(q) : sched'[b] = Waits => b \in Range(queue')
  BY StartedFacts
<1>2. LazyTypes' /\ AtMostTwo'
  BY <1>1 DEF LazyTypes, AtMostTwo, Running, Busy, Schedules, BlockStates
<1>3. ASSUME NEW b \in Blocks, s[b].status = "queued" PROVE s[b] = Waits
  BY <1>3 DEF Ordered, Schedules, Slots, Waits
<1>4. QueuedIsListed'
  <2> SUFFICES ASSUME NEW b \in Blocks, sched'[b].status = "queued"
               PROVE  sched'[b].range /\ b \in Range(queue')
    BY DEF QueuedIsListed
  <2>1. sched'[b] = s[b]
    BY <1>1 DEF Runs
  <2>2. sched'[b] = Waits /\ b \in Range(q)
    BY <1>3, <2>1 DEF Ordered
  <2> QED
    BY <1>1, <2>2 DEF Waits
<1>5. TaskHasBlock'
  BY <1>1 DEF TaskHasBlock, Loaded, Runs
<1>6. HiddenIsCancelled'
  BY <1>1 DEF HiddenIsCancelled, Resting
<1>7. \A b \in Blocks : block'[b] = "denied" => bs[b] = "denied"
  BY <1>1
<1>8. ASSUME Covered(v, s, q, bs), NEW b \in v, sched'[b].status # "none"
      PROVE  \/ block'[b] \in {"shown", "denied"}
             \/ sched'[b].status \in {"running", "stopping"} /\ sched'[b].range
             \/ sched'[b].status = "queued" /\ b \in Range(queue')
  <2>1. CASE sched'[b] = s[b] /\ block'[b] = bs[b]
    <3>1. sched'[b].status = "queued" => b \in Range(queue')
      BY <1>4 DEF QueuedIsListed
    <3> QED
      BY <1>8, <2>1, <3>1 DEF Covered
  <2>2. CASE sched'[b] = Runs
    BY <2>2 DEF Runs
  <2> QED
    BY <1>1, <2>1, <2>2
<1>9. Covered(v, s, q, bs) => Covered(v, sched', queue', block')
  BY <1>8 DEF Covered
<1> QED
  BY <1>2, <1>4, <1>5, <1>6, <1>7, <1>9

\* The parts of NearIsScheduled.
Calm == presented /\ ~evaluate /\ "clearing" \notin {load.at, more.at, apply}

LEMMA NearFacts ==
  ASSUME LazyTypes, near \subseteq Blocks
  PROVE  NearIsScheduled <=> (Calm => Covered(near \ missed, sched, queue, block))
<1>1. \A b \in near : b \in Running <=> sched[b].status \in {"running", "stopping"}
  BY DEF Running
<1> QED
  BY <1>1 DEF NearIsScheduled, Scheduled, Calm, Covered

LEMMA NearFactsNext ==
  ASSUME LazyTypes', near' \subseteq Blocks
  PROVE  NearIsScheduled' <=> (Calm' => Covered(near' \ missed', sched', queue', block'))
<1>1. \A b \in near' : b \in Running' <=> sched'[b].status \in {"running", "stopping"}
  BY DEF Running
<1> QED
  BY <1>1 DEF NearIsScheduled, Scheduled, Calm, Covered, LazyTypes

LEMMA EvaluateStep ==
  ASSUME IInv, Evaluate
  PROVE  IInv'
<1> DEFINE known == {b \in Blocks : sched[b].status # "none"}
           enter == {b \in known \cap near : sched[b].status = "idle" /\ block[b] # "shown"}
           Status(b) == CASE b \in enter -> "queued"
                          [] b \notin near /\ sched[b].status = "queued" -> "idle"
                          [] b \notin near /\ sched[b].status = "running" -> "stopping"
                          [] OTHER -> sched[b].status
           s == [b \in Blocks |-> IF b \in known THEN [status |-> Status(b), range |-> b \in near]
                                  ELSE sched[b]]
           q == queue \o SetToSeq(enter)
<1>1. /\ Started(s, q, block)
      /\ evaluate /\ ~evaluate' /\ evaluate' \in BOOLEAN /\ missed' = {}
      /\ UNCHANGED <<presented, destroyed, near, generation, load, more, apply, rendered, doc,
                     allowed, entry, saving, retries, dropped>>
  BY DEF Evaluate, loading, permission
<1>2. presented /\ near \subseteq Blocks /\ sched \in Schedules /\ block \in BlockStates
  BY <1>1, RichDocumentAssumption
    DEF IInv, Typed, HiddenRests, ViewTypes, LazyTypes, Schedules, BlockStates
<1>3. q \in Seq(Blocks) /\ Range(q) = Range(queue) \cup enter
  BY QueuedSet DEF IInv, Typed, LazyTypes
<1>4. ASSUME NEW b \in Blocks
      PROVE  /\ s[b] \in Slots
             /\ s[b].status \in {"running", "stopping"} <=>
                  sched[b].status \in {"running", "stopping"}
             /\ s[b].status = "done" <=> sched[b].status = "done"
             /\ s[b].status = "none" <=> sched[b].status = "none"
             /\ s[b].status = "queued" => s[b].range /\ (b \in enter \/ sched[b].status = "queued")
             /\ s[b].status = "idle" /\ b \in near => block[b] = "shown"
             /\ s[b].status # "none" => s[b].range = (b \in near)
  <2>1. sched[b] \in Slots
    BY <1>2 DEF Schedules
  <2>2. CASE b \notin known
    BY <2>1, <2>2 DEF Slots
  <2>3. CASE b \in known
    <3>1. s[b].status = Status(b) /\ s[b].range = (b \in near)
      BY <2>3
    <3>2. s[b] \in Slots
      BY <2>1, <2>3 DEF Slots
    <3> QED
      BY <2>1, <2>3, <3>1, <3>2 DEF Slots
  <2> QED
    BY <2>2, <2>3
<1>5. s \in Schedules
  BY <1>4 DEF Schedules
<1>6. Busy(s) <= 2
  <2>1. {b \in Blocks : s[b].status \in {"running", "stopping"}} = Running
    BY <1>4 DEF Running
  <2> QED
    BY <2>1 DEF Busy, IInv, Blocked, AtMostTwo
<1>7. Ordered(s, q)
  BY <1>3, <1>4 DEF Ordered, IInv, Blocked, QueuedIsListed
<1>8. Loaded(s, block)
  BY <1>4 DEF Loaded, IInv, Blocked, TaskHasBlock
<1>9. Covered(near, s, q, block)
  <2> SUFFICES ASSUME NEW b \in near, s[b].status # "none"
               PROVE  \/ block[b] \in {"shown", "denied"}
                      \/ s[b].status \in {"running", "stopping"} /\ s[b].range
                      \/ s[b].status = "queued" /\ b \in Range(q)
    BY DEF Covered
  <2>1. b \in Blocks
    BY <1>2
  <2>2. s[b] \in Slots /\ s[b].range
    BY <1>4, <2>1
  <2>3. s[b].status = "done" => block[b] \in {"shown", "denied"}
    BY <1>8, <2>1 DEF Loaded
  <2>4. s[b].status = "queued" => b \in Range(q)
    BY <1>7, <2>1 DEF Ordered
  <2>5. s[b].status = "idle" => block[b] = "shown"
    BY <1>4, <2>1
  <2> QED
    BY <2>2, <2>3, <2>4, <2>5 DEF Slots
<1> HIDE DEF s, q
<1>10. /\ LazyTypes' /\ AtMostTwo' /\ QueuedIsListed' /\ TaskHasBlock' /\ HiddenIsCancelled'
       /\ \A b \in Blocks : block'[b] = "denied" => block[b] = "denied"
       /\ Covered(near, s, q, block) => Covered(near, sched', queue', block')
  <2>1. asking \subseteq Remote
    BY DEF IInv, Typed, LazyTypes
  <2> QED
    BY <1>1, <1>2, <1>3, <1>5, <1>6, <1>7, <1>8, <2>1, StartedKeeps
<1>11. Typed'
  BY <1>1, <1>10 DEF IInv, Typed, ViewTypes, LoadTypes, GateTypes
<1>12. HiddenRests' /\ RenderedIsCurrent'
  BY <1>1, <1>10 DEF IInv, HiddenRests, RenderedIsCurrent
<1>13. Answered'
  BY <1>1, <1>10 DEF IInv, Answered, SavingIsPending, DeniedIsAsked
<1>14. NearIsScheduled'
  <2>1. near' \subseteq Blocks /\ near' \ missed' = near
    BY <1>1, <1>2
  <2>2. NearIsScheduled' <=> (Calm' => Covered(near' \ missed', sched', queue', block'))
    BY <1>10, <2>1, NearFactsNext
  <2>3. Covered(near, sched', queue', block')
    BY <1>9, <1>10
  <2> QED
    BY <2>1, <2>2, <2>3
<1> QED
  BY <1>10, <1>11, <1>12, <1>13, <1>14 DEF IInv, Blocked

LEMMA NotePermissionFacts ==
  ASSUME GateTypes, NEW b \in Blocks, NotePermission(b)
  PROVE  /\ entry' \in Entries /\ retries' \in [Entries -> SUBSET Blocks]
         /\ entry # 0 => entry' = entry
         /\ b \in retries'[entry']
         /\ \A e \in Entries : retries[e] \subseteq retries'[e]
<1>1. \E e \in Entries : e # saving
  BY DEF Entries
<1>2. entry' \in Entries /\ (entry # 0 => entry' = entry)
  BY <1>1 DEF NotePermission, GateTypes
<1>3. retries' = [retries EXCEPT ![entry'] = retries[entry'] \cup {b}]
  BY DEF NotePermission
<1> QED
  BY <1>2, <1>3 DEF GateTypes

LEMMA TaskSettlesStep ==
  ASSUME IInv, NEW b \in Blocks, TaskSettles(b)
  PROVE  IInv'
<1>1. PICK outcome \in Outcomes(b) :
        /\ IF outcome = "denied" THEN NotePermission(b) ELSE UNCHANGED <<entry, retries>>
        /\ Started([sched EXCEPT ![b].status = Settled(b)],
                   IF Settled(b) = "queued" THEN Append(queue, b) ELSE queue,
                   [block EXCEPT ![b] = IF @ = "loading" THEN outcome ELSE @])
        /\ UNCHANGED <<view, evaluate, loading, allowed, saving, dropped>>
  BY DEF TaskSettles
<1>2. /\ b \in Running
      /\ UNCHANGED <<presented, destroyed, near, evaluate, generation, load, more, apply,
                     rendered, doc, allowed, saving, dropped, missed>>
  BY <1>1 DEF TaskSettles, view, loading
<1> DEFINE s == [sched EXCEPT ![b].status = Settled(b)]
           q == IF Settled(b) = "queued" THEN Append(queue, b) ELSE queue
           bs == [block EXCEPT ![b] = IF @ = "loading" THEN outcome ELSE @]
           v == near \ missed
<1>3. /\ sched \in Schedules /\ block \in BlockStates /\ queue \in Seq(Blocks)
      /\ asking \subseteq Remote /\ near \subseteq Blocks /\ v \in SUBSET Blocks
      /\ sched[b].status \in {"running", "stopping"} /\ block[b] \in {"loading", "shown"}
  BY <1>2, RichDocumentAssumption
    DEF IInv, Typed, ViewTypes, LazyTypes, Schedules, BlockStates, Running, Blocked, TaskHasBlock
<1>4. /\ Settled(b) \in {"done", "queued", "idle"}
      /\ Settled(b) = "done" <=> sched[b].status = "running"
      /\ Settled(b) = "queued" => sched[b].range /\ presented
      /\ Settled(b) = "idle" /\ presented => ~sched[b].range
  BY <1>3 DEF Settled
<1>5. /\ outcome \in {"denied", "shown", "idle"}
      /\ sched[b].status = "running" => outcome \in {"denied", "shown"}
  BY <1>3 DEF Outcomes, AbortedLoad
<1>6. /\ s \in Schedules
      /\ s[b].status = Settled(b) /\ s[b].range = sched[b].range
      /\ \A c \in Blocks \ {b} : s[c] = sched[c]
  BY <1>3, <1>4 DEF Schedules, Slots
<1>7. /\ bs \in BlockStates
      /\ bs[b] = IF block[b] = "loading" THEN outcome ELSE "shown"
      /\ \A c \in Blocks \ {b} : bs[c] = block[c]
  BY <1>3, <1>5 DEF BlockStates
<1>8. /\ q \in Seq(Blocks) /\ Range(queue) \subseteq Range(q)
      /\ Settled(b) = "queued" => b \in Range(q)
  BY <1>3, RangeOfAppend
<1>9. Busy(s) <= 2
  <2> DEFINE B == {c \in Blocks : s[c].status \in {"running", "stopping"}}
  <2>1. B \subseteq Running
    BY <1>2, <1>6 DEF Running
  <2>2. IsFiniteSet(Running)
    BY RichDocumentAssumption, FS_Subset DEF Running
  <2>3. Cardinality(B) <= Cardinality(Running) /\ Cardinality(Running) \in Nat
        /\ Cardinality(B) \in Nat
    <3> HIDE DEF B
    <3> QED
      BY <2>1, <2>2, FS_Subset, FS_CardinalityType
  <2>4. Cardinality(Running) <= 2
    BY DEF IInv, Blocked, AtMostTwo
  <2>5. Busy(s) = Cardinality(B)
    BY DEF Busy
  <2> HIDE DEF B
  <2> QED
    BY <2>3, <2>4, <2>5
<1>10. Ordered(s, q)
  <2> SUFFICES ASSUME NEW c \in Blocks, s[c].status = "queued"
               PROVE  s[c].range /\ c \in Range(q)
    BY DEF Ordered
  <2>1. CASE c = b
    BY <1>4, <1>6, <1>8, <2>1
  <2>2. CASE c # b
    <3>1. sched[c].range /\ c \in Range(queue)
      BY <1>6, <2>2 DEF IInv, Blocked, QueuedIsListed
    <3> QED
      BY <1>6, <1>8, <2>2, <3>1
  <2> QED
    BY <2>1, <2>2
<1>11. Loaded(s, bs)
  <2> SUFFICES ASSUME NEW c \in Blocks
               PROVE  /\ s[c].status \in {"running", "stopping"} => bs[c] \in {"loading", "shown"}
                      /\ s[c].status = "done" => bs[c] \in {"shown", "denied"}
    BY DEF Loaded
  <2>1. CASE c = b
    BY <1>4, <1>5, <1>6, <1>7, <2>1
  <2>2. CASE c # b
    BY <1>6, <1>7, <2>2 DEF IInv, Blocked, TaskHasBlock
  <2> QED
    BY <2>1, <2>2
<1>12. ~presented => Resting(s)
  <2> SUFFICES ASSUME ~presented, NEW c \in Blocks
               PROVE  s[c].status \notin {"queued", "running"}
    BY DEF Resting
  <2>1. sched[c].status \notin {"queued", "running"} /\ sched[b].status # "running"
    BY DEF IInv, HiddenRests, HiddenIsCancelled
  <2> QED
    BY <1>4, <1>6, <2>1
<1>13. presented /\ Covered(v, sched, queue, block) => Covered(v, s, q, bs)
  <2> SUFFICES ASSUME presented, Covered(v, sched, queue, block), NEW c \in v,
                      s[c].status # "none"
               PROVE  \/ bs[c] \in {"shown", "denied"}
                      \/ s[c].status \in {"running", "stopping"} /\ s[c].range
                      \/ s[c].status = "queued" /\ c \in Range(q)
    BY DEF Covered
  <2>1. CASE c = b
    <3>1. CASE Settled(b) = "idle"
      <4>1. block[b] = "shown"
        BY <1>3, <1>4, <2>1, <3>1 DEF Covered
      <4> QED
        BY <1>7, <2>1, <4>1
    <3>2. CASE Settled(b) # "idle"
      BY <1>4, <1>5, <1>6, <1>7, <1>8, <2>1, <3>2
    <3> QED
      BY <3>1, <3>2
  <2>2. CASE c # b
    <3>1. s[c] = sched[c] /\ bs[c] = block[c]
      BY <1>3, <1>6, <1>7, <2>2
    <3> QED
      BY <1>8, <3>1 DEF Covered
  <2> QED
    BY <2>1, <2>2
<1>14. Started(s, q, bs)
  BY <1>1
<1> HIDE DEF s, q, bs, v
<1>15. /\ LazyTypes' /\ AtMostTwo' /\ QueuedIsListed' /\ TaskHasBlock' /\ HiddenIsCancelled'
       /\ \A c \in Blocks : block'[c] = "denied" => bs[c] = "denied"
       /\ Covered(v, s, q, bs) => Covered(v, sched', queue', block')
  BY <1>2, <1>3, <1>6, <1>7, <1>8, <1>9, <1>10, <1>11, <1>12, <1>14, StartedKeeps
<1>16. /\ GateTypes' /\ (entry # 0 => entry' = entry)
       /\ \A e \in Entries : retries[e] \subseteq retries'[e]
       /\ outcome = "denied" => entry' # 0 /\ b \in retries'[entry']
       /\ entry' # entry => entry = 0
  <2>1. GateTypes
    BY DEF IInv, Typed
  <2>2. CASE outcome = "denied"
    <3>1. NotePermission(b)
      BY <1>1, <2>2
    <3> QED
      BY <1>2, <2>1, <3>1, NotePermissionFacts DEF GateTypes, Entries
  <2>3. CASE outcome # "denied"
    BY <1>1, <1>2, <2>1, <2>3 DEF GateTypes
  <2> QED
    BY <2>2, <2>3
<1>17. Typed'
  BY <1>2, <1>15, <1>16 DEF IInv, Typed, ViewTypes, LoadTypes
<1>18. HiddenRests' /\ RenderedIsCurrent'
  BY <1>2, <1>15 DEF IInv, HiddenRests, RenderedIsCurrent
<1>19. SavingIsPending'
  BY <1>2, <1>16 DEF IInv, Answered, SavingIsPending
<1>20. DeniedIsAsked'
  <2> SUFFICES ASSUME ~destroyed, ~dropped, apply # "clearing",
                      NEW c \in Blocks, block'[c] = "denied"
               PROVE  \E e \in {entry', saving} \ {0} : c \in retries'[e]
    BY <1>2 DEF DeniedIsAsked
  <2>1. bs[c] = "denied"
    BY <1>15
  <2>2. CASE c = b
    BY <1>7, <1>16, <2>1, <2>2
  <2>3. CASE c # b
    <3>1. PICK e \in {entry, saving} \ {0} : c \in retries[e]
      BY <1>7, <2>1, <2>3 DEF IInv, Answered, DeniedIsAsked
    <3>2. e \in Entries
      BY DEF IInv, Typed, GateTypes
    <3> QED
      BY <1>16, <3>1, <3>2
  <2> QED
    BY <2>2, <2>3
<1>21. NearIsScheduled'
  <2>1. NearIsScheduled <=> (Calm => Covered(v, sched, queue, block))
    BY <1>3, NearFacts DEF IInv, Typed, v
  <2>2. NearIsScheduled' <=> (Calm' => Covered(v, sched', queue', block'))
    <3>1. near' \subseteq Blocks /\ near' \ missed' = v
      BY <1>2, <1>3 DEF v
    <3> QED
      BY <1>15, <3>1, NearFactsNext
  <2>3. Calm' <=> Calm
    BY <1>2 DEF Calm
  <2> QED
    BY <1>13, <1>15, <2>1, <2>2, <2>3 DEF IInv, Calm
<1> QED
  BY <1>15, <1>17, <1>18, <1>19, <1>20, <1>21 DEF IInv, Blocked, Answered

-----------------------------------------------------------------------------
(* The other steps                                                         *)

\* A cancelled block is out of range, and its task, if it runs, is stopping.
LEMMA CancelledFacts ==
  ASSUME LazyTypes, AtMostTwo, TaskHasBlock, Cancelled
  PROVE  /\ LazyTypes' /\ AtMostTwo' /\ QueuedIsListed' /\ TaskHasBlock' /\ HiddenIsCancelled'
         /\ block' = block
<1>1. ASSUME NEW b \in Blocks
      PROVE  /\ sched'[b] \in Slots
             /\ sched'[b].status \notin {"queued", "running"}
             /\ sched'[b].status \in {"running", "stopping"} <=>
                  sched[b].status \in {"running", "stopping"}
             /\ sched'[b].status = "done" <=> sched[b].status = "done"
  <2>1. sched[b] \in Slots
    BY DEF LazyTypes
  <2>2. sched'[b] = [status |-> Withdrawn(sched[b].status), range |-> FALSE]
    BY DEF Cancelled
  <2> QED
    BY <2>1, <2>2 DEF Slots, Withdrawn
<1>2. sched' = [b \in Blocks |-> sched'[b]] /\ queue' = <<>> /\ block' = block /\ asking' = asking
  BY DEF Cancelled
<1>3. LazyTypes'
  BY <1>1, <1>2 DEF LazyTypes
<1>4. Running' = Running
  BY <1>1 DEF Running
<1> QED
  BY <1>1, <1>2, <1>3, <1>4 DEF AtMostTwo, QueuedIsListed, TaskHasBlock, HiddenIsCancelled

\* A cleared document has no block.
LEMMA ClearedFacts ==
  ASSUME Cleared
  PROVE  /\ LazyTypes' /\ AtMostTwo' /\ QueuedIsListed' /\ TaskHasBlock' /\ HiddenIsCancelled'
         /\ \A b \in Blocks : block'[b] = "idle" /\ sched'[b].status = "none"
         /\ retries' \in [Entries -> SUBSET Blocks] /\ rendered' = {}
<1>1. /\ sched' = [b \in Blocks |-> Unregistered] /\ queue' = <<>> /\ asking' = {}
      /\ block' = [b \in Blocks |-> "idle"] /\ rendered' = {}
      /\ retries' = [e \in Entries |-> {}]
  BY DEF Cleared
<1>2. \A b \in Blocks : sched'[b] = Unregistered /\ sched'[b].status = "none"
  BY <1>1 DEF Unregistered
<1>3. LazyTypes'
  BY <1>1 DEF LazyTypes, Unregistered, Slots
<1>4. Running' = {} /\ Cardinality(Running') = 0
  BY <1>2, FS_EmptySet DEF Running
<1> QED
  BY <1>1, <1>2, <1>3, <1>4
    DEF AtMostTwo, QueuedIsListed, TaskHasBlock, HiddenIsCancelled

\* The retried blocks wait for the next frame.
LEMMA RetriedFacts ==
  ASSUME IInv, NEW e \in Entries, Retried(e), UNCHANGED presented
  PROVE  /\ LazyTypes' /\ AtMostTwo' /\ QueuedIsListed' /\ TaskHasBlock' /\ HiddenIsCancelled'
         /\ evaluate' \in BOOLEAN /\ (evaluate' => presented)
         /\ retries' \in [Entries -> SUBSET Blocks]
         /\ \A b \in Blocks : block'[b] = "denied" => block[b] = "denied" /\ b \notin retries[e]
         /\ \A d \in Entries \ {e} : retries'[d] = retries[d]
         /\ ~evaluate' /\ presented => ~evaluate /\ block' = block /\ sched' = sched
         /\ queue' = queue
<1>1. /\ block' = [b \in Blocks |-> IF b \in retries[e] THEN "idle" ELSE block[b]]
      /\ sched' = [b \in Blocks |-> IF b \in retries[e] THEN [sched[b] EXCEPT !.status = "idle"]
                                    ELSE sched[b]]
      /\ evaluate' = (evaluate \/ (retries[e] # {} /\ presented))
      /\ retries' = [retries EXCEPT ![e] = {}] /\ queue' = queue /\ asking' = asking
  BY DEF Retried
<1>2. LazyTypes /\ GateTypes /\ evaluate \in BOOLEAN /\ presented \in BOOLEAN
  BY DEF IInv, Typed, ViewTypes
<1>3. ASSUME NEW b \in Blocks
      PROVE  /\ sched'[b] \in Slots
             /\ b \in retries[e] => block'[b] = "idle" /\ sched'[b].status = "idle"
             /\ b \notin retries[e] => block'[b] = block[b] /\ sched'[b] = sched[b]
  BY <1>1, <1>2 DEF LazyTypes, Slots
<1>4. LazyTypes'
  BY <1>1, <1>2, <1>3 DEF LazyTypes
<1>5. AtMostTwo'
  <2>1. Running' \subseteq Running
    BY <1>3 DEF Running
  <2>2. IsFiniteSet(Running)
    BY RichDocumentAssumption, FS_Subset DEF Running
  <2>3. /\ Cardinality(Running') <= Cardinality(Running) /\ Cardinality(Running) \in Nat
        /\ Cardinality(Running') \in Nat
    BY <2>1, <2>2, FS_Subset, FS_CardinalityType
  <2> QED
    BY <2>3 DEF IInv, Blocked, AtMostTwo
<1>6. QueuedIsListed' /\ TaskHasBlock' /\ HiddenIsCancelled'
  BY <1>1, <1>3
    DEF IInv, HiddenRests, Blocked, QueuedIsListed, TaskHasBlock, HiddenIsCancelled
<1>7. evaluate' \in BOOLEAN /\ (evaluate' => presented)
  BY <1>1, <1>2 DEF IInv, HiddenRests
<1>8. retries' \in [Entries -> SUBSET Blocks] /\ \A d \in Entries \ {e} : retries'[d] = retries[d]
  BY <1>1, <1>2 DEF GateTypes
<1>9. ASSUME ~evaluate', presented PROVE ~evaluate /\ block' = block /\ sched' = sched
  <2>1. ~evaluate /\ retries[e] = {}
    BY <1>1, <1>9
  <2> QED
    BY <1>1, <1>2, <2>1 DEF LazyTypes
<1> QED
  BY <1>1, <1>3, <1>4, <1>5, <1>6, <1>7, <1>8, <1>9

\* The answer of the user retries the blocks that asked.
LEMMA AllowedStep ==
  ASSUME IInv, AllowOnce \/ Saved
  PROVE  IInv'
<1>1. PICK e \in Entries :
        /\ Retried(e) /\ entry' = 0 /\ saving' = 0 /\ allowed' = TRUE
        /\ UNCHANGED <<presented, destroyed, near, missed, generation, load, more, apply, rendered,
                       doc, dropped>>
        /\ (entry # 0 /\ saving = 0 /\ e = entry) \/ (saving # 0 /\ e = saving)
  <2>1. CASE AllowOnce
    BY <2>1 DEF AllowOnce, view, loading, IInv, Typed, GateTypes
  <2>2. CASE Saved
    BY <2>2 DEF Saved, view, loading, IInv, Typed, GateTypes
  <2> QED
    BY <2>1, <2>2
<1>2. /\ LazyTypes' /\ AtMostTwo' /\ QueuedIsListed' /\ TaskHasBlock' /\ HiddenIsCancelled'
      /\ evaluate' \in BOOLEAN /\ (evaluate' => presented)
      /\ retries' \in [Entries -> SUBSET Blocks]
      /\ \A b \in Blocks : block'[b] = "denied" => block[b] = "denied" /\ b \notin retries[e]
      /\ ~evaluate' /\ presented => ~evaluate /\ block' = block /\ sched' = sched
      /\ queue' = queue
  BY <1>1, RetriedFacts
<1>3. Typed'
  <2>1. ViewTypes'
    <3>1. ViewTypes /\ evaluate' \in BOOLEAN /\ UNCHANGED <<presented, destroyed, near, missed>>
      BY <1>1, <1>2 DEF IInv, Typed
    <3> QED
      BY <3>1 DEF ViewTypes
  <2>3. LoadTypes'
    BY <1>1 DEF IInv, Typed, LoadTypes
  <2>2. GateTypes'
    BY <1>1, <1>2 DEF IInv, Typed, GateTypes
  <2> QED
    BY <1>2, <2>1, <2>2, <2>3 DEF Typed
<1>4. HiddenRests' /\ RenderedIsCurrent' /\ SavingIsPending'
  BY <1>1, <1>2 DEF IInv, HiddenRests, RenderedIsCurrent, SavingIsPending
<1>5. DeniedIsAsked'
  <2> SUFFICES ASSUME ~destroyed, ~dropped, apply # "clearing",
                      NEW b \in Blocks, block'[b] = "denied"
               PROVE  FALSE
    BY <1>1 DEF DeniedIsAsked
  <2>1. PICK d \in {entry, saving} \ {0} : b \in retries[d]
    BY <1>2 DEF IInv, Answered, DeniedIsAsked
  <2>2. d = e
    BY <1>1, <2>1 DEF IInv, Answered, SavingIsPending
  <2> QED
    BY <1>2, <2>1, <2>2
<1>6. NearIsScheduled'
  <2>1. Running' = Running \/ evaluate' \/ ~presented
    BY <1>2 DEF Running
  <2> QED
    BY <1>1, <1>2, <2>1 DEF IInv, NearIsScheduled, Scheduled
<1> QED
  BY <1>2, <1>3, <1>4, <1>5, <1>6 DEF IInv, Blocked, Answered

\* Nothing that the scheduler keeps is touched.
LEMMA LazyUnchanged ==
  ASSUME IInv, UNCHANGED <<sched, queue, asking, block>>
  PROVE  LazyTypes' /\ AtMostTwo' /\ QueuedIsListed' /\ TaskHasBlock' /\ Running' = Running
<1>1. Running' = Running
  BY DEF Running
<1> QED
  BY <1>1 DEF IInv, Typed, LazyTypes, Blocked, AtMostTwo, QueuedIsListed, TaskHasBlock

LEMMA ViewStep ==
  ASSUME IInv, Scroll \/ Show \/ AllowAlways \/ SaveFails \/ LoadMore \/ ApplyServices
  PROVE  IInv'
<1>1. UNCHANGED <<sched, queue, asking, block>>
  BY DEF Scroll, Show, AllowAlways, SaveFails, LoadMore, ApplyServices, lazy
<1>2. LazyTypes' /\ AtMostTwo' /\ QueuedIsListed' /\ TaskHasBlock' /\ Running' = Running
  BY <1>1, LazyUnchanged
<1>3. CASE Scroll \/ Show
  <2>1. /\ evaluate' /\ presented' /\ ~destroyed' /\ UNCHANGED destroyed /\ near' \in Views
        /\ UNCHANGED <<missed, generation, load, more, apply, rendered, doc, allowed, entry, saving,
                       retries, dropped>>
    BY <1>3
      DEF Scroll, Show, view, loading, permission, IInv, Typed, ViewTypes, HiddenRests
  <2>2. Typed'
    <3>1. evaluate' \in BOOLEAN /\ presented' \in BOOLEAN
      BY <1>3 DEF Scroll, Show, IInv, Typed, ViewTypes
    <3> QED
      BY <1>2, <2>1, <3>1 DEF IInv, Typed, ViewTypes, LoadTypes, GateTypes
  <2>3. HiddenRests' /\ RenderedIsCurrent' /\ Answered' /\ NearIsScheduled'
    BY <1>1, <2>1
      DEF IInv, HiddenRests, HiddenIsCancelled, RenderedIsCurrent, Answered, SavingIsPending,
          DeniedIsAsked, NearIsScheduled, Scheduled
  <2> QED
    BY <1>2, <2>2, <2>3 DEF IInv, Blocked
<1>4. CASE AllowAlways \/ SaveFails
  <2>1. /\ UNCHANGED <<presented, destroyed, near, missed, evaluate, generation, load, more, apply,
                       rendered, doc, allowed, entry, retries, dropped>>
        /\ saving' = 0 \/ (saving = 0 /\ saving' = entry /\ entry # 0)
    BY <1>4 DEF AllowAlways, SaveFails, view, loading
  <2>2. Typed'
    BY <1>2, <2>1 DEF IInv, Typed, ViewTypes, LoadTypes, GateTypes
  <2>3. HiddenRests' /\ RenderedIsCurrent' /\ SavingIsPending'
    BY <1>1, <2>1 DEF IInv, HiddenRests, HiddenIsCancelled, RenderedIsCurrent, SavingIsPending
  <2>4. DeniedIsAsked'
    <3> SUFFICES ASSUME ~destroyed, ~dropped, apply # "clearing",
                        NEW b \in Blocks, block[b] = "denied"
                 PROVE  \E e \in {entry', saving'} \ {0} : b \in retries'[e]
      BY <1>1, <2>1 DEF DeniedIsAsked
    <3>1. PICK e \in {entry, saving} \ {0} : b \in retries[e]
      BY DEF IInv, Answered, DeniedIsAsked
    <3>2. e = entry
      BY <3>1 DEF IInv, Answered, SavingIsPending
    <3> QED
      BY <2>1, <3>1, <3>2
  <2>5. NearIsScheduled'
    BY <1>1, <1>2, <2>1 DEF IInv, NearIsScheduled, Scheduled
  <2> QED
    BY <1>2, <2>2, <2>3, <2>4, <2>5 DEF IInv, Blocked, Answered
<1>5. CASE LoadMore \/ ApplyServices
  <2>1. /\ UNCHANGED <<presented, destroyed, near, missed, evaluate, load, rendered, doc, allowed,
                       entry, saving, retries, dropped>>
        /\ apply = "idle" /\ generation' \in Nat /\ more' \in Renders
        /\ \/ apply' = "idle" /\ generation' = generation /\ more.at = "idle"
           \/ /\ apply' = "waiting" /\ generation' = generation + 1 /\ more' = more
              /\ generation + 2 <= MaxGeneration
    BY <1>5
      DEF LoadMore, ApplyServices, view, permission, IInv, Typed, LoadTypes, Renders
  <2>2. Typed'
    <3>1. LoadTypes
      BY DEF IInv, Typed
    <3>2. generation \in 1..MaxGeneration /\ MaxGeneration \in Nat
      BY <3>1, RichDocumentAssumption DEF LoadTypes
    <3>3. /\ generation' \in 1..MaxGeneration
          /\ apply' # "idle" => generation' + 1 <= MaxGeneration
      <4>1. CASE apply' = "idle" /\ generation' = generation
        BY <3>2, <4>1
      <4>2. CASE generation' = generation + 1 /\ generation + 2 <= MaxGeneration
        BY <3>2, <4>2
      <4> QED
        BY <2>1, <4>1, <4>2
    <3>4. LoadTypes'
      BY <2>1, <3>1, <3>3 DEF LoadTypes
    <3>5. ViewTypes' /\ GateTypes'
      BY <2>1 DEF IInv, Typed, ViewTypes, GateTypes
    <3> QED
      BY <1>2, <3>4, <3>5 DEF Typed
  <2>3. HiddenRests' /\ RenderedIsCurrent' /\ Answered'
    BY <1>1, <2>1
      DEF IInv, HiddenRests, HiddenIsCancelled, RenderedIsCurrent, Answered, SavingIsPending,
          DeniedIsAsked
  <2>4. NearIsScheduled'
    BY <1>1, <1>2, <2>1 DEF IInv, NearIsScheduled, Scheduled
  <2> QED
    BY <1>2, <2>2, <2>3, <2>4 DEF IInv, Blocked
<1> QED
  BY <1>3, <1>4, <1>5

\* The view moves, or a frame passes, and nothing is asked of the scheduler.
LEMMA UnseenStep ==
  ASSUME IInv, ScrollIntoView \/ FrameWithoutHeight
  PROVE  IInv'
<1>1. /\ UNCHANGED <<sched, queue, asking, block>>
      /\ UNCHANGED <<presented, destroyed, generation, load, more, apply, rendered, doc, allowed,
                     entry, saving, retries, dropped>>
  BY DEF ScrollIntoView, FrameWithoutHeight, lazy, loading, permission
<1>2. LazyTypes' /\ AtMostTwo' /\ QueuedIsListed' /\ TaskHasBlock' /\ Running' = Running
  BY <1>1, LazyUnchanged
<1>3. /\ near' \in Views /\ near' \subseteq Blocks /\ missed' \subseteq Blocks
      /\ evaluate' \in BOOLEAN /\ (evaluate' => evaluate)
  <2>1. near \in Views /\ missed \subseteq Blocks /\ evaluate \in BOOLEAN
    BY DEF IInv, Typed, ViewTypes
  <2>2. \A v \in Views : v \subseteq Blocks
    BY RichDocumentAssumption
  <2>3. CASE ScrollIntoView
    <3>1. near' \in Views /\ missed' = missed \cup (near' \ near) /\ evaluate' = evaluate
      BY <2>3 DEF ScrollIntoView
    <3> QED
      BY <2>1, <2>2, <3>1
  <2>4. CASE FrameWithoutHeight
    <3>1. near' = near /\ missed' = Blocks /\ evaluate' = FALSE
      BY <2>4 DEF FrameWithoutHeight
    <3> QED
      BY <2>1, <2>2, <3>1
  <2> QED
    BY <2>3, <2>4
<1>4. Typed'
  BY <1>1, <1>2, <1>3 DEF IInv, Typed, ViewTypes, LoadTypes, GateTypes
<1>5. HiddenRests' /\ RenderedIsCurrent' /\ Answered'
  BY <1>1, <1>3
    DEF IInv, HiddenRests, HiddenIsCancelled, RenderedIsCurrent, Answered, SavingIsPending,
        DeniedIsAsked
<1>6. NearIsScheduled'
  <2>1. CASE FrameWithoutHeight
    <3>1. near' \ missed' = {}
      BY <1>3, <2>1 DEF FrameWithoutHeight
    <3> QED
      BY <3>1 DEF NearIsScheduled
  <2>2. CASE ScrollIntoView
    <3>1. near' \ missed' \subseteq near \ missed /\ evaluate' = evaluate
      BY <2>2 DEF ScrollIntoView
    <3> QED
      BY <1>1, <1>2, <3>1 DEF IInv, NearIsScheduled, Scheduled
  <2> QED
    BY <2>1, <2>2
<1> QED
  BY <1>2, <1>4, <1>5, <1>6 DEF IInv, Blocked

LEMMA ClosingStep ==
  ASSUME IInv, Hide \/ Destroy \/ ApplyWaited
  PROVE  IInv'
<1>1. Cancelled
  BY DEF Hide, Destroy, ApplyWaited
<1>2. /\ LazyTypes' /\ AtMostTwo' /\ QueuedIsListed' /\ TaskHasBlock' /\ HiddenIsCancelled'
      /\ block' = block
  BY <1>1, CancelledFacts DEF IInv, Typed, Blocked
<1>3. CASE Hide
  <2>1. /\ ~presented' /\ ~evaluate' /\ presented' \in BOOLEAN /\ evaluate' \in BOOLEAN
        /\ UNCHANGED <<destroyed, near, missed, generation, load, more, apply, rendered, doc,
                       allowed, entry, saving, retries, dropped>>
    BY <1>3 DEF Hide, loading, permission
  <2>2. Typed'
    BY <1>2, <2>1 DEF IInv, Typed, ViewTypes, LoadTypes, GateTypes
  <2>3. HiddenRests' /\ RenderedIsCurrent' /\ Answered' /\ NearIsScheduled'
    BY <1>2, <2>1
      DEF IInv, HiddenRests, RenderedIsCurrent, Answered, SavingIsPending, DeniedIsAsked,
          NearIsScheduled, Scheduled
  <2> QED
    BY <1>2, <2>2, <2>3 DEF IInv, Blocked
<1>4. CASE Destroy
  <2>1. /\ ~presented' /\ ~evaluate' /\ presented' \in BOOLEAN /\ evaluate' \in BOOLEAN
        /\ destroyed' = TRUE /\ load' = Rest /\ more' = Rest /\ apply' = "idle"
        /\ entry' = 0 /\ saving' = 0 /\ retries' = [e \in Entries |-> {}]
        /\ UNCHANGED <<near, missed, generation, rendered, doc, allowed, dropped>>
    BY <1>4 DEF Destroy
  <2>2. Typed'
    BY <1>2, <2>1 DEF IInv, Typed, ViewTypes, LoadTypes, GateTypes, Rest, Renders
  <2>3. HiddenRests' /\ RenderedIsCurrent' /\ Answered' /\ NearIsScheduled'
    BY <1>2, <2>1
      DEF HiddenRests, RenderedIsCurrent, Answered, SavingIsPending, DeniedIsAsked,
          NearIsScheduled, Scheduled
  <2> QED
    BY <1>2, <2>2, <2>3 DEF IInv, Blocked
<1>5. CASE ApplyWaited
  <2>1. /\ apply = "waiting" /\ apply' = "clearing" /\ entry' = 0
        /\ retries' = [e \in Entries |-> IF e = saving THEN retries[e] ELSE {}]
        /\ dropped' = (dropped \/ saving # 0)
        /\ UNCHANGED <<presented, destroyed, near, missed, evaluate, generation, load, more,
                       rendered, doc, allowed, saving>>
    BY <1>5 DEF ApplyWaited, view
  <2>2. Typed'
    BY <1>2, <2>1 DEF IInv, Typed, ViewTypes, LoadTypes, GateTypes
  <2>3. HiddenRests' /\ RenderedIsCurrent' /\ Answered' /\ NearIsScheduled'
    BY <1>2, <2>1
      DEF IInv, HiddenRests, RenderedIsCurrent, Answered, SavingIsPending, DeniedIsAsked,
          NearIsScheduled, Scheduled
  <2> QED
    BY <1>2, <2>2, <2>3 DEF IInv, Blocked
<1> QED
  BY <1>3, <1>4, <1>5

\* A step of load() or of "load more".
LEMMA RenderingStep ==
  ASSUME IInv, NEW p \in Renders, NEW next,
         \/ p = load /\ next = load' /\ UNCHANGED more
         \/ p = more /\ next = more' /\ UNCHANGED load,
         RenderStep(p, next)
  PROVE  IInv'
<1>1. /\ UNCHANGED <<presented, destroyed, near, missed, generation, apply, allowed, entry, saving,
                     dropped>>
      /\ next \in Renders
  BY DEF RenderStep, BytesRead, ScrollCleared, LaidOut, ReadFails, view, permission, loading,
         Rest, Renders
<1>2. load' \in Renders /\ more' \in Renders
  BY <1>1 DEF IInv, Typed, LoadTypes
<1>3. CASE UNCHANGED <<sched, queue, asking, block, evaluate, rendered, doc, retries>>
           /\ p.at # "clearing" /\ next.at # "clearing"
  <2>1. LazyTypes' /\ AtMostTwo' /\ QueuedIsListed' /\ TaskHasBlock' /\ Running' = Running
    BY <1>3, LazyUnchanged
  <2>2. Typed'
    <3>1. LoadTypes'
      BY <1>1, <1>2, <1>3 DEF IInv, Typed, LoadTypes
    <3>2. ViewTypes' /\ GateTypes'
      BY <1>1, <1>3 DEF IInv, Typed, ViewTypes, GateTypes
    <3> QED
      BY <2>1, <3>1, <3>2 DEF Typed
  <2>3. HiddenRests' /\ RenderedIsCurrent' /\ Answered'
    BY <1>1, <1>3
      DEF IInv, HiddenRests, HiddenIsCancelled, RenderedIsCurrent, Answered, SavingIsPending,
          DeniedIsAsked
  <2>4. Calm' <=> Calm
    BY <1>1, <1>3 DEF Calm
  <2>5. NearIsScheduled'
    BY <1>1, <1>3, <2>1, <2>4 DEF IInv, NearIsScheduled, Scheduled, Calm
  <2> QED
    BY <2>1, <2>2, <2>3, <2>5 DEF IInv, Blocked
<1>4. CASE BytesRead(p, next) /\ ~Stale(p)
  <2>1. /\ Cancelled /\ next.at = "clearing"
        /\ UNCHANGED <<evaluate, rendered, doc, retries>>
    BY <1>4 DEF BytesRead, permission, Renders
  <2>2. /\ LazyTypes' /\ AtMostTwo' /\ QueuedIsListed' /\ TaskHasBlock' /\ HiddenIsCancelled'
        /\ block' = block
    BY <2>1, CancelledFacts DEF IInv, Typed, Blocked
  <2>3. Typed'
    <3>1. LoadTypes'
      BY <1>1, <1>2, <2>1 DEF IInv, Typed, LoadTypes
    <3>2. ViewTypes' /\ GateTypes'
      BY <1>1, <2>1 DEF IInv, Typed, ViewTypes, GateTypes
    <3> QED
      BY <2>2, <3>1, <3>2 DEF Typed
  <2>4. HiddenRests' /\ RenderedIsCurrent' /\ Answered'
    BY <1>1, <2>1, <2>2
      DEF IInv, HiddenRests, RenderedIsCurrent, Answered, SavingIsPending, DeniedIsAsked
  <2>5. NearIsScheduled'
    BY <2>1 DEF NearIsScheduled, Scheduled
  <2> QED
    BY <2>2, <2>3, <2>4, <2>5 DEF IInv, Blocked
<1>5. CASE ScrollCleared(p, next)
  <2>1. Cleared /\ UNCHANGED <<evaluate, doc>>
    BY <1>5 DEF ScrollCleared
  <2>2. /\ LazyTypes' /\ AtMostTwo' /\ QueuedIsListed' /\ TaskHasBlock' /\ HiddenIsCancelled'
        /\ \A b \in Blocks : block'[b] = "idle" /\ sched'[b].status = "none"
        /\ retries' \in [Entries -> SUBSET Blocks] /\ rendered' = {}
    BY <2>1, ClearedFacts
  <2>3. Typed'
    <3>1. LoadTypes'
      BY <1>1, <1>2, <2>1, <2>2 DEF IInv, Typed, LoadTypes
    <3>2. ViewTypes' /\ GateTypes'
      BY <1>1, <2>1, <2>2 DEF IInv, Typed, ViewTypes, GateTypes
    <3> QED
      BY <2>2, <3>1, <3>2 DEF Typed
  <2>4. HiddenRests' /\ RenderedIsCurrent' /\ Answered'
    BY <1>1, <2>1, <2>2
      DEF IInv, HiddenRests, RenderedIsCurrent, Answered, SavingIsPending, DeniedIsAsked
  <2>5. NearIsScheduled'
    BY <1>1, <2>2, RichDocumentAssumption DEF NearIsScheduled, Scheduled, IInv, Typed, ViewTypes
  <2> QED
    BY <2>2, <2>3, <2>4, <2>5 DEF IInv, Blocked
<1>6. CASE LaidOut(p, next) /\ ~Stale(p)
  <2>1. /\ rendered' = rendered \cup {p.gen} /\ doc' = doc + 1 /\ p.gen = generation
        /\ sched' = Registered /\ evaluate' = presented
        /\ UNCHANGED <<queue, asking, block, retries>>
    BY <1>6 DEF LaidOut, Stale, permission
  <2>2. ASSUME NEW b \in Blocks PROVE sched'[b].status = "idle"
    BY <2>1 DEF Registered
  <2>3. LazyTypes' /\ QueuedIsListed' /\ TaskHasBlock' /\ HiddenIsCancelled'
    <3>1. LazyTypes'
      BY <2>1 DEF IInv, Typed, LazyTypes, Registered, Slots
    <3> QED
      BY <2>2, <3>1 DEF QueuedIsListed, TaskHasBlock, HiddenIsCancelled
  <2>4. AtMostTwo'
    <3>1. Running' = {} /\ Cardinality(Running') = 0
      BY <2>2, FS_EmptySet DEF Running
    <3> QED
      BY <3>1 DEF AtMostTwo
  <2>5. Typed'
    <3>1. LoadTypes'
      BY <1>1, <1>2, <2>1 DEF IInv, Typed, LoadTypes
    <3>2. GateTypes'
      BY <1>1, <2>1 DEF IInv, Typed, GateTypes
    <3>3. ViewTypes'
      BY <1>1, <2>1 DEF IInv, Typed, ViewTypes
    <3> QED
      BY <2>3, <3>1, <3>2, <3>3 DEF Typed
  <2>6. HiddenRests' /\ RenderedIsCurrent' /\ Answered'
    BY <1>1, <2>1, <2>3
      DEF IInv, HiddenRests, RenderedIsCurrent, Answered, SavingIsPending, DeniedIsAsked
  <2>7. NearIsScheduled'
    BY <1>1, <2>1 DEF NearIsScheduled, Scheduled
  <2> QED
    BY <2>3, <2>4, <2>5, <2>6, <2>7 DEF IInv, Blocked
<1>7. CASE \/ BytesRead(p, next) /\ Stale(p)
           \/ LaidOut(p, next) /\ Stale(p)
           \/ ReadFails(p, next)
  <2>1. /\ UNCHANGED <<sched, queue, asking, block, evaluate, rendered, doc, retries>>
        /\ p.at # "clearing" /\ next.at # "clearing"
    BY <1>7 DEF BytesRead, LaidOut, ReadFails, lazy, permission, Rest
  <2> QED
    BY <1>3, <2>1
<1> QED
  BY <1>4, <1>5, <1>6, <1>7 DEF RenderStep

LEMMA ApplyClearedStep ==
  ASSUME IInv, ApplyCleared
  PROVE  IInv'
<1>1. /\ Cleared /\ apply = "clearing" /\ apply' = "idle" /\ generation' = generation + 1
      /\ load' = [at |-> "reading", gen |-> generation + 1]
      /\ UNCHANGED <<presented, destroyed, near, missed, evaluate, more, doc, allowed, entry,
                     saving, dropped>>
  BY DEF ApplyCleared, view
<1>2. /\ LazyTypes' /\ AtMostTwo' /\ QueuedIsListed' /\ TaskHasBlock' /\ HiddenIsCancelled'
      /\ \A b \in Blocks : block'[b] = "idle" /\ sched'[b].status = "none"
      /\ retries' \in [Entries -> SUBSET Blocks] /\ rendered' = {}
  BY <1>1, ClearedFacts
<1>3. LoadTypes'
  <2>1. LoadTypes /\ MaxGeneration \in Nat
    BY RichDocumentAssumption DEF IInv, Typed
  <2>2. generation' \in 1..MaxGeneration /\ load' \in Renders
    BY <1>1, <2>1 DEF LoadTypes, Renders
  <2> QED
    BY <1>1, <1>2, <2>1, <2>2 DEF LoadTypes
<1>4. ViewTypes' /\ GateTypes'
  BY <1>1, <1>2 DEF IInv, Typed, ViewTypes, GateTypes
<1>5. HiddenRests' /\ RenderedIsCurrent' /\ Answered'
  BY <1>1, <1>2
    DEF IInv, HiddenRests, RenderedIsCurrent, Answered, SavingIsPending, DeniedIsAsked
<1>6. NearIsScheduled'
  BY <1>1, <1>2, RichDocumentAssumption DEF NearIsScheduled, Scheduled, IInv, Typed, ViewTypes
<1> QED
  BY <1>2, <1>3, <1>4, <1>5, <1>6 DEF IInv, Typed, Blocked

-----------------------------------------------------------------------------
(* The theorems                                                            *)

LEMMA InitHolds == Init => IInv
<1> SUFFICES ASSUME Init PROVE IInv
  OBVIOUS
<1>1. \A b \in Blocks : sched[b] = Unregistered /\ sched[b].status = "none"
  BY DEF Init, Unregistered
<1>2. LazyTypes
  BY DEF Init, LazyTypes, Unregistered, Slots
<1>3. LoadTypes
  BY RichDocumentAssumption DEF Init, LoadTypes, Renders, Rest
<1>4. ViewTypes /\ GateTypes
  BY DEF Init, ViewTypes, GateTypes
<1>5. Blocked
  <2>1. Running = {} /\ Cardinality(Running) = 0
    BY <1>1, FS_EmptySet DEF Running
  <2> QED
    BY <1>1, <2>1 DEF Blocked, AtMostTwo, QueuedIsListed, TaskHasBlock
<1>6. HiddenRests /\ Answered /\ RenderedIsCurrent
  BY <1>1
    DEF Init, HiddenRests, HiddenIsCancelled, Answered, SavingIsPending, DeniedIsAsked,
        RenderedIsCurrent
<1>7. NearIsScheduled
  BY <1>1, RichDocumentAssumption DEF Init, NearIsScheduled, Scheduled
<1> QED
  BY <1>2, <1>3, <1>4, <1>5, <1>6, <1>7 DEF IInv, Typed

LEMMA NextKeepsInvariant == IInv /\ [Next]_vars => IInv'
<1> SUFFICES ASSUME IInv, [Next]_vars PROVE IInv'
  OBVIOUS
<1>1. CASE Evaluate
  BY <1>1, EvaluateStep
<1>2. CASE \E b \in Blocks : TaskSettles(b)
  BY <1>2, TaskSettlesStep
<1>3. CASE Scroll \/ Show \/ AllowAlways \/ SaveFails \/ LoadMore \/ ApplyServices
  BY <1>3, ViewStep
<1>4. CASE Hide \/ Destroy \/ ApplyWaited
  BY <1>4, ClosingStep
<1>5. CASE AllowOnce \/ Saved
  BY <1>5, AllowedStep
<1>6. CASE LoadStep \/ MoreStep
  <2>1. load \in Renders /\ more \in Renders
    BY DEF IInv, Typed, LoadTypes
  <2>2. CASE LoadStep
    BY <2>1, <2>2, RenderingStep DEF LoadStep
  <2>3. CASE MoreStep
    BY <2>1, <2>3, RenderingStep DEF MoreStep
  <2> QED
    BY <1>6, <2>2, <2>3
<1>7. CASE ApplyCleared
  BY <1>7, ApplyClearedStep
<1>8. CASE ScrollIntoView \/ FrameWithoutHeight
  BY <1>8, UnseenStep
<1>9. CASE UNCHANGED vars
  <2>1. LazyTypes' /\ AtMostTwo' /\ QueuedIsListed' /\ TaskHasBlock' /\ Running' = Running
    BY <1>9, LazyUnchanged DEF vars
  <2>2. LoadTypes' /\ ViewTypes' /\ GateTypes'
    BY <1>9 DEF vars, IInv, Typed, LoadTypes, ViewTypes, GateTypes
  <2>3. HiddenRests' /\ Answered' /\ RenderedIsCurrent'
    BY <1>9
      DEF vars, IInv, HiddenRests, HiddenIsCancelled, Answered, SavingIsPending, DeniedIsAsked,
          RenderedIsCurrent
  <2>4. NearIsScheduled'
    BY <1>9, <2>1 DEF vars, IInv, NearIsScheduled, Scheduled
  <2> QED
    BY <2>1, <2>2, <2>3, <2>4 DEF IInv, Typed, Blocked
<1> QED
  BY <1>1, <1>2, <1>3, <1>4, <1>5, <1>6, <1>7, <1>8, <1>9 DEF Next

LEMMA Inductive == Spec => []IInv
BY InitHolds, NextKeepsInvariant, PTL DEF Spec

\* However long the document and however it is scrolled, hidden, answered and loaded
\* again, two loads run at most, and a block that asks can still be answered.
THEOREM TwoLoadsAndEveryQuestionKept == Spec => []Consistent
<1>1. IInv => Consistent
  <2> SUFFICES ASSUME IInv PROVE Consistent
    OBVIOUS
  <2>1. LazyTypes /\ LoadTypes /\ ViewTypes /\ GateTypes
    BY DEF IInv, Typed
  <2>2. TypeOK
    BY <2>1 DEF TypeOK, LazyTypes, LoadTypes, ViewTypes, GateTypes, Slots, Renders
  <2> QED
    BY <2>2 DEF IInv, Blocked, Answered, Consistent
<1> QED
  BY <1>1, Inductive, PTL

\* Behind a hidden or closed pane no load goes on.
THEOREM HiddenPaneLoadsNothing == Spec => []HiddenIsCancelled
<1>1. IInv => HiddenIsCancelled
  BY DEF IInv, HiddenRests
<1> QED
  BY <1>1, Inductive, PTL

\* Nothing that was read under old settings comes back on the screen.
THEOREM OldSettingsAreNotRendered == Spec => []OnlyCurrentIsRendered
<1>1. IInv => OnlyCurrentIsRendered
  BY DEF IInv, RenderedIsCurrent, OnlyCurrentIsRendered
<1> QED
  BY <1>1, Inductive, PTL

\* No block in the preload range is forgotten by the scheduler.
THEOREM NearBlocksAreScheduled == Spec => []NearIsScheduled
<1>1. IInv => NearIsScheduled
  BY DEF IInv
<1> QED
  BY <1>1, Inductive, PTL

-----------------------------------------------------------------------------
(* The media surfaces: the inductive invariant                             *)

Spots == [of : Surfaces \cup {Out}, version : 0..MaxFrame]

\* SurfacesTypeOK, in parts.
PlaceTypes == /\ adapter \in {"kitty", "iterm2"} /\ region \in [Surfaces -> Regions \cup {Out}]
              /\ displayed \in [Surfaces -> BOOLEAN] /\ disposed \in [Surfaces -> BOOLEAN]
FrameTypes == /\ frame \in [Surfaces -> 0..MaxFrame] /\ last \in [Surfaces -> Regions \cup {Out}]
              /\ frameDirty \in [Surfaces -> BOOLEAN] /\ placementDirty \in [Surfaces -> BOOLEAN]
              /\ kitty \in [Surfaces -> BOOLEAN] /\ due \in [Surfaces -> BOOLEAN]
StreamTypes == /\ blocked \in [Surfaces -> BOOLEAN] /\ pending \in [Surfaces -> Seq(Chunk)]
               /\ closed \in [Surfaces -> BOOLEAN]
TerminalTypes == /\ cells \in [Regions -> Spots] /\ image \in [Surfaces -> 0..MaxFrame]
                 /\ overdrawn \in [Surfaces -> BOOLEAN]
SurfacesTyped == PlaceTypes /\ FrameTypes /\ StreamTypes /\ TerminalTypes

\* Only a surface that is displayed is flushed; one that is not has taken its image away.
ShownOnly == \A s \in Surfaces :
  /\ due[s] => displayed[s]
  /\ disposed[s] => ~displayed[s]
  /\ closed[s] => disposed[s]
  /\ ~displayed[s] => ~kitty[s] /\ last[s] = Out

\* Two displayed surfaces do not overlap.
Apart == \A s, t \in Surfaces :
  s # t /\ displayed[s] /\ displayed[t] => region[s] = Out \/ region[s] # region[t]

ClearAt(s, r) == [kind |-> "clear", of |-> s, to |-> r, version |-> 0]

\* A full stream holds back a teardown, the only one, of a surface that has drawn
\* nothing since.
HeldBack == \A s \in Surfaces :
  \/ pending[s] = <<>>
  \/ /\ blocked[s] /\ last[s] = Out /\ ~kitty[s] /\ (frame[s] > 0 => frameDirty[s])
     /\ \/ adapter = "kitty" /\ pending[s] = <<Delete(s)>>
        \/ adapter = "iterm2" /\ \E r \in Regions : pending[s] = <<ClearAt(s, r)>>

\* What a surface has placed is there, unless it was drawn over, and it is drawn over
\* when the surface has moved on.
Placed == \A s \in Surfaces : last[s] # Out =>
  /\ cells[last[s]].of = s \/ overdrawn[s]
  /\ region[s] # last[s] => overdrawn[s]
  /\ adapter = "kitty" => kitty[s]

\* kitty: an image on the terminal belongs to a surface that has it, or its deletion is
\* held back; it is the newest frame unless the surface knows better.
KittyImages == adapter = "kitty" => \A s \in Surfaces :
  /\ image[s] > 0 => kitty[s] \/ pending[s] # <<>>
  /\ kitty[s] => frame[s] > 0
  /\ frame[s] > 0 /\ ~frameDirty[s] => kitty[s] /\ image[s] = frame[s]
  /\ \A r \in Regions : cells[r].of = s => r = region[s]

\* iterm2: an image on the terminal is where its surface put it last, or its removal is
\* held back.
ItermImages == adapter = "iterm2" => \A s \in Surfaces :
  /\ ~kitty[s] /\ image[s] = 0
  /\ \A r \in Regions : cells[r].of = s =>
       /\ frame[s] > 0
       /\ r = last[s] \/ pending[s] = <<ClearAt(s, r)>>
       /\ r = last[s] /\ ~frameDirty[s] => cells[r].version = frame[s]

\* A displayed surface that nothing is on its way for has painted its frame.
QuietIsPainted == \A s \in Surfaces : Quiet(s) /\ displayed[s] =>
  IF region[s] = Out THEN last[s] = Out /\ ~kitty[s] ELSE frame[s] = 0 \/ Current(s)

SurfacesIInv == /\ SurfacesTyped /\ ShownOnly /\ Apart /\ HeldBack /\ Placed
                /\ KittyImages /\ ItermImages /\ QuietIsPainted

-----------------------------------------------------------------------------
(* The media surfaces: what reaches the terminal                           *)

Terminals == [cells : [Regions -> Spots], image : [Surfaces -> 0..MaxFrame],
              overdrawn : [Surfaces -> BOOLEAN]]
OnTerminal == [cells |-> cells, image |-> image, overdrawn |-> overdrawn]

Drawn(t, q) == FoldLeft(Draws, t, q)

LEMMA DrawsTyped ==
  ASSUME NEW t \in Terminals, NEW c \in Chunk
  PROVE  Draws(t, c) \in Terminals
<1>1. CASE c.kind \in {"image", "place"}
  <2>1. Draws(t, c) = [t EXCEPT !.cells[c.to] = [of |-> c.of, version |-> c.version],
                                !.overdrawn[c.of] = FALSE]
    BY <1>1 DEF Draws
  <2>2. [of |-> c.of, version |-> c.version] \in Spots
    BY DEF Spots, Chunk
  <2>3. /\ Draws(t, c).cells = [t.cells EXCEPT ![c.to] = [of |-> c.of, version |-> c.version]]
        /\ Draws(t, c).image = t.image
        /\ Draws(t, c).overdrawn = [t.overdrawn EXCEPT ![c.of] = FALSE]
        /\ Draws(t, c) = [cells |-> Draws(t, c).cells, image |-> t.image,
                          overdrawn |-> Draws(t, c).overdrawn]
    BY <2>1 DEF Terminals
  <2>4. /\ Draws(t, c).cells \in [Regions -> Spots]
        /\ Draws(t, c).overdrawn \in [Surfaces -> BOOLEAN]
        /\ t.image \in [Surfaces -> 0..MaxFrame]
    BY <2>2, <2>3 DEF Terminals
  <2> QED
    BY <2>3, <2>4 DEF Terminals
<1>2. CASE c.kind = "clear"
  <2>1. PICK owner : Draws(t, c) =
          [t EXCEPT !.cells[c.to] = Blank,
                    !.overdrawn = [s \in Surfaces |-> @[s] \/ (s = owner /\ s # c.of)]]
    BY <1>2 DEF Draws
  <2>2. Blank \in Spots
    BY MediaSurfacesAssumption DEF Blank, Spots
  <2>3. [s \in Surfaces |-> t.overdrawn[s] \/ (s = owner /\ s # c.of)]
          \in [Surfaces -> BOOLEAN]
    OBVIOUS
  <2>4. /\ Draws(t, c).cells = [t.cells EXCEPT ![c.to] = Blank]
        /\ Draws(t, c).image = t.image
        /\ Draws(t, c).overdrawn
             = [s \in Surfaces |-> t.overdrawn[s] \/ (s = owner /\ s # c.of)]
        /\ Draws(t, c) = [cells |-> Draws(t, c).cells, image |-> t.image,
                          overdrawn |-> Draws(t, c).overdrawn]
    BY <2>1 DEF Terminals
  <2> QED
    BY <2>2, <2>3, <2>4 DEF Terminals
<1>3. CASE c.kind \in {"data", "delete"}
  BY <1>3 DEF Draws, Terminals, Chunk
<1> QED
  BY <1>1, <1>2, <1>3 DEF Chunk

\* The terminal takes the chunks in order.
LEMMA DrawingInOrder ==
  ASSUME NEW t \in Terminals, NEW q \in Seq(Chunk)
  PROVE  \E g : /\ g[{}] = t /\ Drawn(t, q) = g[1..Len(q)]
                /\ \A k \in 1..Len(q) : g[1..k] = Draws(g[1..(k - 1)], q[k])
<1> DEFINE n == Len(q)
           Table(g) == g = [d \in SUBSET DOMAIN q |->
                              IF d = {} THEN t ELSE Draws(g[d \ {Max(d)}], q[Max(d)])]
           iter == CHOOSE g : Table(g)
<1>n. n \in Nat /\ DOMAIN q = 1..n /\ \A i \in 1..n : q[i] \in Chunk
  OBVIOUS
<1>1. Drawn(t, q) = iter[DOMAIN q]
  BY DEF Drawn, FoldLeft, MapThenFoldSet
<1>2. \E g : Table(g)
  <2> DEFINE step == [i \in 1..n |-> [p \in Terminals |-> Draws(p, q[i])]]
  <2>1. step \in [1..n -> [Terminals -> Terminals]]
    BY <1>n, DrawsTyped
  <2>2. PICK g \in [Upto(n) -> Terminals] : IsTable(g, step, t, n)
    <3> HIDE DEF n, step
    <3> QED
      BY <1>n, <2>1, TableExists
  <2>3. ASSUME NEW d \in Upto(n), d # {}
        PROVE  step[Max(d)][g[d \ {Max(d)}]] = Draws(g[d \ {Max(d)}], q[Max(d)])
    <3>1. Max(d) \in 1..n /\ d \ {Max(d)} \in Upto(n)
      BY <1>n, <2>3, MaxOfUpto DEF Upto
    <3> QED
      BY <3>1
  <2>4. Table(g)
    BY <1>n, <2>2, <2>3 DEF IsTable, Upto
  <2> QED
    BY <2>4
<1>3. Table(iter)
  BY <1>2
<1> HIDE DEF iter
<1>4. ASSUME NEW k \in 1..n
      PROVE  iter[1..k] = Draws(iter[1..(k - 1)], q[k])
  <2>1. 1..k \in SUBSET DOMAIN q /\ 1..k # {} /\ Max(1..k) = k /\ (1..k) \ {k} = 1..(k - 1)
    <3> HIDE DEF n
    <3> QED
      BY <1>n, PrefixStep DEF Upto
  <2> QED
    BY <1>3, <2>1
<1>5. iter[{}] = t
  BY <1>3
<1> QED
  BY <1>1, <1>4, <1>5, <1>n

LEMMA DrawFew ==
  ASSUME NEW t \in Terminals, NEW c \in Chunk, NEW d \in Chunk
  PROVE  /\ Drawn(t, <<>>) = t
         /\ Drawn(t, <<c>>) = Draws(t, c)
         /\ Drawn(t, <<c, d>>) = Draws(Draws(t, c), d)
<1>1. 1..0 = {} /\ 1..1 = {1} /\ 1..(1 - 1) = {} /\ 1..(2 - 1) = 1..1 /\ 1 \in 1..1
  OBVIOUS
<1>2. Drawn(t, <<>>) = t
  <2> DEFINE q == <<>>
  <2>1. q \in Seq(Chunk) /\ Len(q) = 0
    OBVIOUS
  <2> HIDE DEF q
  <2>2. PICK g : /\ g[{}] = t /\ Drawn(t, q) = g[1..Len(q)]
                 /\ \A k \in 1..Len(q) : g[1..k] = Draws(g[1..(k - 1)], q[k])
    BY <2>1, DrawingInOrder
  <2> QED
    BY <1>1, <2>1, <2>2 DEF q
<1>3. Drawn(t, <<c>>) = Draws(t, c)
  <2> DEFINE q == <<c>>
  <2>1. q \in Seq(Chunk) /\ Len(q) = 1 /\ q[1] = c
    OBVIOUS
  <2> HIDE DEF q
  <2>2. PICK g : /\ g[{}] = t /\ Drawn(t, q) = g[1..Len(q)]
                 /\ \A k \in 1..Len(q) : g[1..k] = Draws(g[1..(k - 1)], q[k])
    BY <2>1, DrawingInOrder
  <2>3. g[1..1] = Draws(g[1..(1 - 1)], q[1])
    BY <2>1, <2>2
  <2> QED
    BY <1>1, <2>1, <2>2, <2>3 DEF q
<1>4. Drawn(t, <<c, d>>) = Draws(Draws(t, c), d)
  <2> DEFINE q == <<c, d>>
  <2>1. q \in Seq(Chunk) /\ Len(q) = 2 /\ q[1] = c /\ q[2] = d
    OBVIOUS
  <2> HIDE DEF q
  <2>2. PICK g : /\ g[{}] = t /\ Drawn(t, q) = g[1..Len(q)]
                 /\ \A k \in 1..Len(q) : g[1..k] = Draws(g[1..(k - 1)], q[k])
    BY <2>1, DrawingInOrder
  <2>3. g[1..1] = Draws(g[1..(1 - 1)], q[1]) /\ g[1..2] = Draws(g[1..(2 - 1)], q[2])
    BY <2>1, <2>2
  <2> QED
    BY <1>1, <2>1, <2>2, <2>3 DEF q
<1> QED
  BY <1>2, <1>3, <1>4

TerminalIs(t) == cells' = t.cells /\ image' = t.image /\ overdrawn' = t.overdrawn
GateIs(s, b)  == blocked' = [blocked EXCEPT ![s] = b] /\ pending' = [pending EXCEPT ![s] = <<>>]

LEMMA PairAppended ==
  ASSUME NEW c \in Chunk, NEW d \in Chunk
  PROVE  Append(<<c>>, d) = <<c, d>>
<1> DEFINE q == Append(<<c>>, d)
           p == <<c, d>>
<1>1. <<c>> \in Seq(Chunk) /\ Len(<<c>>) = 1 /\ <<c>>[1] = c
  OBVIOUS
<1>2. q \in Seq(Chunk) /\ Len(q) = 2 /\ q[1] = c /\ q[2] = d
  BY <1>1
<1>3. p \in Seq(Chunk) /\ Len(p) = 2 /\ p[1] = c /\ p[2] = d
  OBVIOUS
<1> HIDE DEF q, p
<1>4. \A i \in 1..2 : q[i] = p[i]
  <2>1. \A i \in 1..2 : i = 1 \/ i = 2
    OBVIOUS
  <2> QED
    BY <1>2, <1>3, <2>1
<1>5. q = p
  BY <1>2, <1>3, <1>4, SeqEqual
<1> QED
  BY <1>5 DEF q, p

LEMMA WholeSubSeq ==
  ASSUME NEW q \in Seq(Chunk)
  PROVE  SubSeq(q, 1, Len(q)) = q /\ SubSeq(q, Len(q) + 1, Len(q)) = <<>>
<1>1. /\ SubSeq(q, 1, Len(q)) \in Seq(Chunk) /\ Len(SubSeq(q, 1, Len(q))) = Len(q)
      /\ \A i \in 1..Len(q) : SubSeq(q, 1, Len(q))[i] = q[i]
  OBVIOUS
<1>2. SubSeq(q, 1, Len(q)) = q
  BY <1>1, SeqEqual
<1>3. SubSeq(q, Len(q) + 1, Len(q)) = <<>>
  BY SubSeqEmpty
<1> QED
  BY <1>2, <1>3

\* A step that writes nothing, its one chunk, or its two.
LEMMA WritesNone ==
  ASSUME TerminalTypes, NEW s \in Surfaces, Writes(s, <<>>, 0)
  PROVE  TerminalIs(OnTerminal) /\ GateIs(s, FALSE)
<1>1. OnTerminal \in Terminals
  BY DEF OnTerminal, Terminals, TerminalTypes
<1>2. TerminalIs(Drawn(OnTerminal, <<>>))
  BY DEF Writes, Drawn, TerminalIs, OnTerminal
<1>3. Drawn(OnTerminal, <<>>) = OnTerminal
  <2>1. Delete(s) \in Chunk
    BY MediaSurfacesAssumption DEF Delete, Chunk
  <2> QED
    BY <1>1, <2>1, DrawFew
<1>4. GateIs(s, FALSE)
  <2>1. (0 > 0) = FALSE
    OBVIOUS
  <2>2. GateIs(s, 0 > 0)
    BY DEF Writes, GateIs
  <2> QED
    BY <2>1, <2>2
<1> QED
  BY <1>2, <1>3, <1>4

LEMMA WritesOne ==
  ASSUME TerminalTypes, NEW s \in Surfaces, NEW full \in 0..1, NEW c \in Chunk,
         Writes(s, <<c>>, full)
  PROVE  TerminalIs(Draws(OnTerminal, c)) /\ GateIs(s, full = 1)
<1>1. OnTerminal \in Terminals
  BY DEF OnTerminal, Terminals, TerminalTypes
<1>2. Drawn(OnTerminal, <<c>>) = Draws(OnTerminal, c)
  BY <1>1, DrawFew
<1>3. SubSeq(<<c>>, 1, 1) = <<c>> /\ SubSeq(<<c>>, 1 + 1, Len(<<c>>)) = <<>>
  <2>1. <<c>> \in Seq(Chunk) /\ Len(<<c>>) = 1
    OBVIOUS
  <2> QED
    BY <2>1, WholeSubSeq
<1>4. (full = 0 \/ full = 1) /\ (full > 0) = (full = 1)
  OBVIOUS
<1>5. TerminalIs(Drawn(OnTerminal, <<c>>)) /\ GateIs(s, full > 0)
  BY <1>3, <1>4 DEF Writes, Drawn, TerminalIs, GateIs, OnTerminal
<1> QED
  BY <1>2, <1>4, <1>5

LEMMA WritesTwo ==
  ASSUME TerminalTypes, NEW s \in Surfaces, NEW full \in {0, 2},
         NEW c \in Chunk, NEW d \in Chunk, Writes(s, <<c, d>>, full)
  PROVE  TerminalIs(Draws(Draws(OnTerminal, c), d)) /\ GateIs(s, full = 2)
<1>1. OnTerminal \in Terminals
  BY DEF OnTerminal, Terminals, TerminalTypes
<1>2. Drawn(OnTerminal, <<c, d>>) = Draws(Draws(OnTerminal, c), d)
  BY <1>1, DrawFew
<1>3. SubSeq(<<c, d>>, 1, 2) = <<c, d>> /\ SubSeq(<<c, d>>, 2 + 1, Len(<<c, d>>)) = <<>>
  <2>1. <<c, d>> \in Seq(Chunk) /\ Len(<<c, d>>) = 2
    OBVIOUS
  <2> QED
    BY <2>1, WholeSubSeq
<1>4. (full = 0 \/ full = 2) /\ (full > 0) = (full = 2)
  OBVIOUS
<1>5. TerminalIs(Drawn(OnTerminal, <<c, d>>)) /\ GateIs(s, full > 0)
  BY <1>3, <1>4 DEF Writes, Drawn, TerminalIs, GateIs, OnTerminal
<1> QED
  BY <1>2, <1>4, <1>5

\* What each kind of chunk does to the terminal.
Paints(s, r, v) == /\ cells' = [cells EXCEPT ![r] = [of |-> s, version |-> v]]
                   /\ overdrawn' = [overdrawn EXCEPT ![s] = FALSE]
Overlaid(r, s) == [x \in Surfaces |-> overdrawn[x] \/ (x = cells[r].of /\ x # s)]
Wipes(s, r) == cells' = [cells EXCEPT ![r] = Blank] /\ overdrawn' = Overlaid(r, s)

LEMMA ChunkEffects ==
  ASSUME NEW s \in Surfaces, NEW r \in Regions \cup {Out}, NEW v \in 0..MaxFrame,
         NEW kind \in {"image", "place", "data", "delete", "clear"},
         NEW c, c = [kind |-> kind, of |-> s, to |-> r, version |-> v],
         TerminalIs(Draws(OnTerminal, c))
  PROVE  /\ kind \in {"image", "place"} => Paints(s, r, v) /\ UNCHANGED image
         /\ kind \in {"data", "delete"} =>
              image' = [image EXCEPT ![s] = v] /\ UNCHANGED <<cells, overdrawn>>
         /\ kind = "clear" => Wipes(s, r) /\ UNCHANGED image
  BY DEF Draws, OnTerminal, TerminalIs, Paints, Wipes, Overlaid

\* clearExternalPlacement(): the surface takes away what it has, now or when the stream
\* drains; what it had is written off at once.
Forgets(s) == /\ kitty' = [kitty EXCEPT ![s] = FALSE] /\ last' = [last EXCEPT ![s] = Out]
              /\ frameDirty' = [frameDirty EXCEPT ![s] = frame[s] > 0]
              /\ placementDirty' = [placementDirty EXCEPT ![s] = TRUE]
Withholds(s, c) == /\ blocked[s] /\ pending[s] = <<>> /\ pending' = [pending EXCEPT ![s] = <<c>>]
                   /\ UNCHANGED <<terminal, blocked>>

LEMMA Teardown ==
  ASSUME SurfacesTyped, HeldBack, KittyImages, ItermImages, NEW s \in Surfaces,
         ClearExternalPlacement(s)
  PROVE  /\ Forgets(s)
         /\ \/ /\ UNCHANGED <<terminal, blocked, pending>>
               /\ IF adapter = "kitty" THEN ~kitty[s] ELSE last[s] = Out
            \/ /\ adapter = "kitty" /\ kitty[s] /\ pending[s] = <<>>
               /\ \/ Withholds(s, Delete(s))
                  \/ /\ image' = [image EXCEPT ![s] = 0] /\ UNCHANGED <<cells, overdrawn>>
                     /\ \E b \in BOOLEAN : GateIs(s, b)
            \/ /\ adapter = "iterm2" /\ last[s] # Out /\ pending[s] = <<>>
               /\ \/ Withholds(s, ClearAt(s, last[s]))
                  \/ /\ Wipes(s, last[s]) /\ UNCHANGED image
                     /\ \E b \in BOOLEAN : GateIs(s, b)
<1> USE DEF SurfacesTyped, PlaceTypes, FrameTypes, StreamTypes
<1>1. Forgets(s)
  BY DEF ClearExternalPlacement, Forgets
<1>2. Delete(s) \in Chunk /\ ClearAt(s, last[s]) \in Chunk /\ Clear(s) = ClearAt(s, last[s])
  BY MediaSurfacesAssumption DEF Delete, ClearAt, Clear, Chunk
<1> DEFINE chunks == (IF kitty[s] THEN <<Delete(s)>> ELSE <<>>)
                     \o (IF adapter = "iterm2" /\ last[s] # Out THEN <<Clear(s)>> ELSE <<>>)
<1>3. Buffers(s, chunks)
  BY DEF ClearExternalPlacement
<1>4. chunks = IF adapter = "kitty" THEN IF kitty[s] THEN <<Delete(s)>> ELSE <<>>
               ELSE IF last[s] # Out THEN <<ClearAt(s, last[s])>> ELSE <<>>
  <2>1. adapter = "iterm2" => ~kitty[s]
    BY DEF ItermImages
  <2>2. /\ <<Delete(s)>> \o <<>> = <<Delete(s)>> /\ <<>> \o <<>> = <<>>
        /\ <<>> \o <<ClearAt(s, last[s])>> = <<ClearAt(s, last[s])>>
    BY <1>2, ConcatEmptySeq
  <2> QED
    BY <1>2, <2>1, <2>2
<1> HIDE DEF chunks
<1>5. ASSUME NEW c \in Chunk, chunks = <<c>>, pending[s] = <<>>
      PROVE  \/ Withholds(s, c)
             \/ TerminalIs(Draws(OnTerminal, c)) /\ \E b \in BOOLEAN : GateIs(s, b)
  <2>1. chunks # <<>> /\ Len(chunks) = 1 /\ <<>> \o <<c>> = <<c>>
    BY <1>5, ConcatEmptySeq
  <2>2. CASE blocked[s]
    BY <1>3, <1>5, <2>1, <2>2 DEF Buffers, Withholds
  <2>3. CASE ~blocked[s]
    <3>1. PICK full \in 0..1 : Writes(s, chunks, full)
      BY <1>3, <2>1, <2>3 DEF Buffers
    <3>2. Writes(s, <<c>>, full)
      BY <1>5, <3>1
    <3>3. TerminalIs(Draws(OnTerminal, c)) /\ GateIs(s, full = 1)
      BY <3>1, <3>2, WritesOne
    <3> QED
      BY <3>3
  <2> QED
    BY <2>2, <2>3
<1>6. CASE adapter = "kitty"
  <2>1. CASE ~kitty[s]
    BY <1>1, <1>3, <1>4, <1>6, <2>1 DEF Buffers
  <2>2. CASE kitty[s]
    <3>1. pending[s] = <<>> /\ chunks = <<Delete(s)>>
      BY <1>4, <1>6, <2>2 DEF HeldBack
    <3>2. TerminalIs(Draws(OnTerminal, Delete(s))) =>
            image' = [image EXCEPT ![s] = 0] /\ UNCHANGED <<cells, overdrawn>>
      BY MediaSurfacesAssumption, ChunkEffects DEF Delete
    <3> QED
      BY <1>1, <1>2, <1>5, <1>6, <2>2, <3>1, <3>2
  <2> QED
    BY <2>1, <2>2
<1>7. CASE adapter = "iterm2"
  <2>1. CASE last[s] = Out
    BY <1>1, <1>3, <1>4, <1>7, <2>1 DEF Buffers
  <2>2. CASE last[s] # Out
    <3>1. pending[s] = <<>> /\ chunks = <<ClearAt(s, last[s])>>
      BY <1>4, <1>7, <2>2 DEF HeldBack
    <3>2. TerminalIs(Draws(OnTerminal, ClearAt(s, last[s]))) =>
            Wipes(s, last[s]) /\ UNCHANGED image
      BY MediaSurfacesAssumption, ChunkEffects DEF ClearAt
    <3> QED
      BY <1>1, <1>2, <1>5, <1>7, <2>2, <3>1, <3>2
  <2> QED
    BY <2>1, <2>2
<1> QED
  BY <1>6, <1>7

\* flushKitty(): the frame is on the terminal; it is placed unless the stream filled.
LEMMA KittyFlush ==
  ASSUME SurfacesTyped, NEW s \in Surfaces, region[s] \in Regions, FlushKitty(s)
  PROVE  /\ image' = IF frameDirty[s] THEN [image EXCEPT ![s] = frame[s]] ELSE image
         /\ kitty' = [kitty EXCEPT ![s] = TRUE]
         /\ frameDirty' = [frameDirty EXCEPT ![s] = FALSE]
         /\ \/ /\ \E b \in BOOLEAN : GateIs(s, b)
               /\ Paints(s, region[s], 0) /\ last' = [last EXCEPT ![s] = region[s]]
               /\ placementDirty' = [placementDirty EXCEPT ![s] = FALSE]
            \/ /\ GateIs(s, TRUE) /\ UNCHANGED <<cells, overdrawn, last>>
               /\ placementDirty' = [placementDirty EXCEPT ![s] = @ \/ ~kitty[s]]
<1> USE DEF SurfacesTyped, PlaceTypes, FrameTypes, StreamTypes
<1>1. Data(s) \in Chunk /\ Place(s) \in Chunk
  BY MediaSurfacesAssumption DEF Data, Place, Chunk
<1>2. OnTerminal \in Terminals
  BY DEF OnTerminal, Terminals, TerminalTypes
<1> DEFINE data == IF frameDirty[s] THEN <<Data(s)>> ELSE <<>>
           done(full) == full # 1 \/ data = <<>>
<1>3. PICK full \in 0..(Len(data) + 1) :
        /\ Writes(s, IF done(full) THEN Append(data, Place(s)) ELSE data, full)
        /\ IF done(full)
           THEN /\ last' = [last EXCEPT ![s] = region[s]]
                /\ placementDirty' = [placementDirty EXCEPT ![s] = FALSE]
           ELSE /\ placementDirty' = [placementDirty EXCEPT ![s] = @ \/ ~kitty[s]]
                /\ UNCHANGED last
  BY DEF FlushKitty
<1>4. /\ kitty' = [kitty EXCEPT ![s] = TRUE]
      /\ frameDirty' = [frameDirty EXCEPT ![s] = FALSE]
  BY DEF FlushKitty
<1>5. CASE ~frameDirty[s]
  <2>1. data = <<>> /\ Append(data, Place(s)) = <<Place(s)>> /\ full \in 0..1
    BY <1>3, <1>5
  <2>2. TerminalIs(Draws(OnTerminal, Place(s))) /\ GateIs(s, full = 1)
    <3>1. Writes(s, <<Place(s)>>, full) /\ full \in 0..1
      BY <1>3, <2>1
    <3>2. TerminalTypes
      OBVIOUS
    <3> HIDE DEF data, SurfacesTyped
    <3> QED
      BY <1>1, <3>1, <3>2, WritesOne
  <2>3. Paints(s, region[s], 0) /\ UNCHANGED image
    <3>1. 0 \in 0..MaxFrame
      BY MediaSurfacesAssumption
    <3> HIDE DEF data
    <3> QED
      BY <2>2, <3>1, ChunkEffects DEF Place
  <2> QED
    BY <1>3, <1>4, <1>5, <2>1, <2>2, <2>3
<1>6. CASE frameDirty[s]
  <2>1. /\ data = <<Data(s)>> /\ data # <<>> /\ full \in 0..2
        /\ Append(data, Place(s)) = <<Data(s), Place(s)>>
    <3>1. data = <<Data(s)>> /\ data # <<>> /\ Len(data) + 1 = 2
      BY <1>6
    <3>2. full \in 0..(Len(data) + 1)
      OBVIOUS
    <3>3. Append(<<Data(s)>>, Place(s)) = <<Data(s), Place(s)>>
      BY <1>1, PairAppended
    <3> HIDE DEF data
    <3> QED
      BY <3>1, <3>2, <3>3
  <2>2. CASE full = 1
    <3>1. TerminalIs(Draws(OnTerminal, Data(s))) /\ GateIs(s, full = 1)
      <4>1. Writes(s, <<Data(s)>>, full) /\ full \in 0..1
        BY <1>3, <2>1, <2>2
      <4> QED
        BY <1>1, <4>1, WritesOne
    <3>2. image' = [image EXCEPT ![s] = frame[s]] /\ UNCHANGED <<cells, overdrawn>>
      BY <3>1, ChunkEffects DEF Data
    <3>3. GateIs(s, TRUE)
      BY <2>2, <3>1
    <3> QED
      BY <1>3, <1>4, <1>6, <2>1, <2>2, <3>2, <3>3
  <2>3. CASE full # 1
    <3>1. TerminalIs(Draws(Draws(OnTerminal, Data(s)), Place(s))) /\ GateIs(s, full = 2)
      <4>1. full \in {0, 2} /\ done(full)
        BY <2>1, <2>3
      <4>2. Writes(s, <<Data(s), Place(s)>>, full)
        BY <1>3, <2>1, <4>1
      <4> QED
        BY <1>1, <4>1, <4>2, WritesTwo
    <3> DEFINE t == Draws(OnTerminal, Data(s))
    <3>2. /\ t.cells = cells /\ t.overdrawn = overdrawn
          /\ t.image = [image EXCEPT ![s] = frame[s]] /\ t \in Terminals
      <4>1. t = [OnTerminal EXCEPT !.image[s] = frame[s]]
        BY DEF Draws, Data
      <4>2. t \in Terminals
        BY <1>1, <1>2, DrawsTyped
      <4> QED
        BY <4>1, <4>2 DEF OnTerminal
    <3> HIDE DEF t
    <3>3. image' = [image EXCEPT ![s] = frame[s]] /\ Paints(s, region[s], 0)
      <4>1. TerminalIs(Draws(t, Place(s)))
        BY <3>1 DEF t
      <4> QED
        BY <3>2, <4>1 DEF Draws, Place, TerminalIs, Paints, Terminals
    <3> QED
      BY <1>3, <1>4, <1>6, <2>1, <2>3, <3>1, <3>3
  <2> QED
    BY <2>2, <2>3
<1> QED
  BY <1>5, <1>6

\* flushItermImage(): the region the surface left is wiped, and its image is drawn
\* unless that filled the stream.
LEMMA ItermFlush ==
  ASSUME SurfacesTyped, NEW s \in Surfaces, region[s] \in Regions, FlushIterm(s)
  PROVE  /\ UNCHANGED <<image, kitty>>
         /\ \/ /\ \E b \in BOOLEAN : GateIs(s, b)
               /\ IF last[s] \in {Out, region[s]}
                  THEN Paints(s, region[s], frame[s])
                  ELSE /\ cells' = [cells EXCEPT ![last[s]] = Blank,
                                       ![region[s]] = [of |-> s, version |-> frame[s]]]
                       /\ overdrawn' = [Overlaid(last[s], s) EXCEPT ![s] = FALSE]
               /\ last' = [last EXCEPT ![s] = region[s]]
               /\ frameDirty' = [frameDirty EXCEPT ![s] = FALSE]
               /\ placementDirty' = [placementDirty EXCEPT ![s] = FALSE]
            \/ /\ last[s] \notin {Out, region[s]} /\ GateIs(s, TRUE) /\ Wipes(s, last[s])
               /\ last' = [last EXCEPT ![s] = Out] /\ UNCHANGED <<frameDirty, placementDirty>>
<1> USE DEF SurfacesTyped, PlaceTypes, FrameTypes, StreamTypes
<1>1. Clear(s) \in Chunk /\ Image(s) \in Chunk /\ Clear(s) = ClearAt(s, last[s])
  BY MediaSurfacesAssumption DEF Clear, ClearAt, Image, Chunk
<1>2. OnTerminal \in Terminals
  BY DEF OnTerminal, Terminals, TerminalTypes
<1> DEFINE clear == IF last[s] \notin {Out, region[s]} THEN <<Clear(s)>> ELSE <<>>
           done(full) == full # 1 \/ clear = <<>>
<1>3. PICK full \in 0..(Len(clear) + 1) :
        /\ Writes(s, IF done(full) THEN Append(clear, Image(s)) ELSE clear, full)
        /\ IF done(full)
           THEN /\ last' = [last EXCEPT ![s] = region[s]]
                /\ frameDirty' = [frameDirty EXCEPT ![s] = FALSE]
                /\ placementDirty' = [placementDirty EXCEPT ![s] = FALSE]
           ELSE last' = [last EXCEPT ![s] = Out] /\ UNCHANGED <<frameDirty, placementDirty>>
  BY DEF FlushIterm
<1>4. UNCHANGED kitty
  BY DEF FlushIterm
<1>5. CASE last[s] \in {Out, region[s]}
  <2>1. clear = <<>> /\ Append(clear, Image(s)) = <<Image(s)>> /\ full \in 0..1
    BY <1>3, <1>5
  <2>2. TerminalIs(Draws(OnTerminal, Image(s))) /\ GateIs(s, full = 1)
    <3>1. Writes(s, <<Image(s)>>, full) /\ full \in 0..1
      BY <1>3, <2>1
    <3>2. TerminalTypes
      OBVIOUS
    <3> HIDE DEF clear, SurfacesTyped
    <3> QED
      BY <1>1, <3>1, <3>2, WritesOne
  <2>3. Paints(s, region[s], frame[s]) /\ UNCHANGED image
    BY <2>2, ChunkEffects DEF Image
  <2> QED
    BY <1>3, <1>4, <1>5, <2>1, <2>2, <2>3
<1>6. CASE last[s] \notin {Out, region[s]}
  <2>1. /\ clear = <<Clear(s)>> /\ clear # <<>> /\ full \in 0..2
        /\ Append(clear, Image(s)) = <<Clear(s), Image(s)>>
    <3>1. clear = <<Clear(s)>> /\ clear # <<>> /\ Len(clear) + 1 = 2
      BY <1>6
    <3>2. full \in 0..(Len(clear) + 1)
      OBVIOUS
    <3>3. Append(<<Clear(s)>>, Image(s)) = <<Clear(s), Image(s)>>
      BY <1>1, PairAppended
    <3> HIDE DEF clear
    <3> QED
      BY <3>1, <3>2, <3>3
  <2>2. CASE full = 1
    <3>1. TerminalIs(Draws(OnTerminal, Clear(s))) /\ GateIs(s, full = 1)
      <4>1. Writes(s, <<Clear(s)>>, full) /\ full \in 0..1
        BY <1>3, <2>1, <2>2
      <4> QED
        BY <1>1, <4>1, WritesOne
    <3>2. Wipes(s, last[s]) /\ UNCHANGED image
      BY <1>1, <3>1, MediaSurfacesAssumption, ChunkEffects DEF ClearAt
    <3>3. GateIs(s, TRUE)
      BY <2>2, <3>1
    <3> QED
      BY <1>3, <1>4, <1>6, <2>1, <2>2, <3>2, <3>3
  <2>3. CASE full # 1
    <3>1. TerminalIs(Draws(Draws(OnTerminal, Clear(s)), Image(s))) /\ GateIs(s, full = 2)
      <4>1. full \in {0, 2} /\ done(full)
        BY <2>1, <2>3
      <4>2. Writes(s, <<Clear(s), Image(s)>>, full)
        BY <1>3, <2>1, <4>1
      <4> QED
        BY <1>1, <4>1, <4>2, WritesTwo
    <3> DEFINE t == Draws(OnTerminal, Clear(s))
    <3>2. t = [OnTerminal EXCEPT !.cells[last[s]] = Blank, !.overdrawn = Overlaid(last[s], s)]
      BY DEF Draws, Clear, OnTerminal, Overlaid
    <3>3. /\ t.cells = [cells EXCEPT ![last[s]] = Blank] /\ t.image = image
          /\ t.overdrawn = Overlaid(last[s], s)
      BY <3>2 DEF OnTerminal
    <3> HIDE DEF t
    <3>4. /\ cells' = [t.cells EXCEPT ![region[s]] = [of |-> s, version |-> frame[s]]]
          /\ overdrawn' = [t.overdrawn EXCEPT ![s] = FALSE]
          /\ image' = t.image
      <4>1. TerminalIs(Draws(t, Image(s)))
        BY <3>1 DEF t
      <4>2. t \in Terminals
        BY <1>1, <1>2, DrawsTyped DEF t
      <4> QED
        BY <4>1, <4>2 DEF Draws, Image, TerminalIs, Terminals
    <3>5. /\ cells' = [cells EXCEPT ![last[s]] = Blank,
                          ![region[s]] = [of |-> s, version |-> frame[s]]]
          /\ overdrawn' = [Overlaid(last[s], s) EXCEPT ![s] = FALSE]
          /\ UNCHANGED image
      BY <3>3, <3>4
    <3> QED
      BY <1>3, <1>4, <1>6, <2>1, <2>3, <3>1, <3>5
  <2> QED
    BY <2>2, <2>3
<1> QED
  BY <1>5, <1>6

\* handleDrain(): what was held back reaches the terminal; the gate is empty again.
LEMMA DrainEffects ==
  ASSUME SurfacesTyped, HeldBack, NEW s \in Surfaces, Drain(s)
  PROVE  /\ blocked[s]
         /\ \E b \in BOOLEAN : /\ GateIs(s, b)
              /\ IF ~b /\ ~closed[s] /\ displayed[s] /\ ~disposed[s]
                 THEN due' = [x \in Surfaces |-> displayed[x] /\ ~disposed[x]] ELSE UNCHANGED due
         /\ \/ pending[s] = <<>> /\ UNCHANGED terminal
            \/ /\ adapter = "kitty" /\ pending[s] = <<Delete(s)>>
               /\ image' = [image EXCEPT ![s] = 0] /\ UNCHANGED <<cells, overdrawn>>
            \/ /\ adapter = "iterm2" /\ UNCHANGED image
               /\ \E r \in Regions : pending[s] = <<ClearAt(s, r)>> /\ Wipes(s, r)
<1>0. TerminalTypes
  BY DEF SurfacesTyped
<1>1. PICK full \in 0..Len(pending[s]) :
        /\ Writes(s, pending[s], full)
        /\ IF full = 0 /\ ~closed[s] /\ displayed[s] /\ ~disposed[s]
           THEN due' = [x \in Surfaces |-> displayed[x] /\ ~disposed[x]] ELSE UNCHANGED due
  BY DEF Drain
<1>2. blocked[s]
  BY DEF Drain
<1>3. CASE pending[s] = <<>>
  <2>1. full = 0
    BY <1>1, <1>3
  <2>2. Writes(s, <<>>, 0)
    BY <1>1, <1>3, <2>1
  <2>3. TerminalIs(OnTerminal) /\ GateIs(s, FALSE)
    BY <1>0, <2>2, WritesNone
  <2>4. UNCHANGED terminal
    BY <2>3 DEF TerminalIs, OnTerminal, terminal
  <2> QED
    BY <1>1, <1>2, <1>3, <2>1, <2>3, <2>4
<1>4. ASSUME NEW c \in Chunk, pending[s] = <<c>>
      PROVE  /\ TerminalIs(Draws(OnTerminal, c))
             /\ \E b \in BOOLEAN : /\ GateIs(s, b)
                  /\ IF ~b /\ ~closed[s] /\ displayed[s] /\ ~disposed[s]
                     THEN due' = [x \in Surfaces |-> displayed[x] /\ ~disposed[x]]
                     ELSE UNCHANGED due
  <2>1. full \in 0..1 /\ Writes(s, <<c>>, full)
    BY <1>1, <1>4
  <2>2. TerminalIs(Draws(OnTerminal, c)) /\ GateIs(s, full = 1)
    BY <1>0, <2>1, WritesOne
  <2>3. (full = 1) \in BOOLEAN /\ (~(full = 1) <=> full = 0)
    BY <2>1
  <2> QED
    BY <1>1, <2>2, <2>3
<1>5. CASE adapter = "kitty" /\ pending[s] = <<Delete(s)>>
  <2>1. Delete(s) \in Chunk
    BY MediaSurfacesAssumption DEF Delete, Chunk
  <2>2. TerminalIs(Draws(OnTerminal, Delete(s))) =>
          image' = [image EXCEPT ![s] = 0] /\ UNCHANGED <<cells, overdrawn>>
    BY MediaSurfacesAssumption, ChunkEffects DEF Delete
  <2> QED
    BY <1>2, <1>4, <1>5, <2>1, <2>2
<1>6. CASE adapter = "iterm2" /\ \E r \in Regions : pending[s] = <<ClearAt(s, r)>>
  <2>1. PICK r \in Regions : pending[s] = <<ClearAt(s, r)>>
    BY <1>6
  <2>2. ClearAt(s, r) \in Chunk
    BY MediaSurfacesAssumption DEF ClearAt, Chunk
  <2>3. TerminalIs(Draws(OnTerminal, ClearAt(s, r))) => Wipes(s, r) /\ UNCHANGED image
    BY MediaSurfacesAssumption, ChunkEffects DEF ClearAt
  <2> QED
    BY <1>2, <1>4, <1>6, <2>1, <2>2, <2>3
<1> QED
  BY <1>3, <1>5, <1>6 DEF HeldBack

-----------------------------------------------------------------------------
(* The media surfaces: the invariant holds                                 *)

LEMMA SurfacesStart == SurfacesInit => SurfacesIInv
<1> SUFFICES ASSUME SurfacesInit PROVE SurfacesIInv
  OBVIOUS
<1>1. SurfacesTyped
  BY MediaSurfacesAssumption DEF SurfacesInit, No, Blank, SurfacesTyped, PlaceTypes,
     FrameTypes, StreamTypes, TerminalTypes, Spots
<1>2. ShownOnly /\ Apart /\ HeldBack /\ Placed /\ KittyImages /\ ItermImages
  BY MediaSurfacesAssumption DEF SurfacesInit, No, Blank, ShownOnly, Apart, HeldBack,
     Placed, KittyImages, ItermImages
<1>3. QuietIsPainted
  BY DEF SurfacesInit, No, QuietIsPainted
<1> QED
  BY <1>1, <1>2, <1>3 DEF SurfacesIInv

\* What a write may do to the terminal keeps its types.
LEMMA EffectsTyped ==
  ASSUME SurfacesTyped, NEW s \in Surfaces, NEW r \in Regions \cup {Out}, NEW v \in 0..MaxFrame
  PROVE  /\ Paints(s, r, v) => cells' \in [Regions -> Spots]
                              /\ overdrawn' \in [Surfaces -> BOOLEAN]
         /\ Wipes(s, r) => cells' \in [Regions -> Spots] /\ overdrawn' \in [Surfaces -> BOOLEAN]
         /\ \A b \in BOOLEAN : GateIs(s, b) =>
              blocked' \in [Surfaces -> BOOLEAN] /\ pending' \in [Surfaces -> Seq(Chunk)]
         /\ Forgets(s) => /\ kitty' \in [Surfaces -> BOOLEAN]
                          /\ last' \in [Surfaces -> Regions \cup {Out}]
                          /\ frameDirty' \in [Surfaces -> BOOLEAN]
                          /\ placementDirty' \in [Surfaces -> BOOLEAN]
<1> USE DEF SurfacesTyped, PlaceTypes, FrameTypes, StreamTypes, TerminalTypes
<1>1. [of |-> s, version |-> v] \in Spots /\ Blank \in Spots
  BY MediaSurfacesAssumption DEF Spots, Blank
<1>2. Paints(s, r, v) => cells' \in [Regions -> Spots] /\ overdrawn' \in [Surfaces -> BOOLEAN]
  BY <1>1 DEF Paints
<1>3. Wipes(s, r) => cells' \in [Regions -> Spots] /\ overdrawn' \in [Surfaces -> BOOLEAN]
  BY <1>1 DEF Wipes, Overlaid
<1>4. \A b \in BOOLEAN : GateIs(s, b) =>
         blocked' \in [Surfaces -> BOOLEAN] /\ pending' \in [Surfaces -> Seq(Chunk)]
  BY DEF GateIs
<1>5. Forgets(s) => /\ kitty' \in [Surfaces -> BOOLEAN]
                    /\ last' \in [Surfaces -> Regions \cup {Out}]
                    /\ frameDirty' \in [Surfaces -> BOOLEAN]
                    /\ placementDirty' \in [Surfaces -> BOOLEAN]
  <2>1. (frame[s] > 0) \in BOOLEAN
    OBVIOUS
  <2> QED
    BY <2>1 DEF Forgets
<1> QED
  BY <1>2, <1>3, <1>4, <1>5

\* A teardown writes off all that its surface had.
LEMMA TeardownKeeps ==
  ASSUME SurfacesIInv, NEW s \in Surfaces, ClearExternalPlacement(s),
         UNCHANGED <<adapter, region, frame>>
  PROVE  /\ Forgets(s)
         /\ HeldBack' /\ Placed' /\ KittyImages' /\ ItermImages'
         /\ TerminalTypes'
         /\ blocked' \in [Surfaces -> BOOLEAN] /\ pending' \in [Surfaces -> Seq(Chunk)]
         /\ \A x \in Surfaces \ {s} : blocked'[x] = blocked[x]
<1>0. SurfacesTyped /\ HeldBack /\ Placed /\ KittyImages /\ ItermImages
  BY DEF SurfacesIInv
<1> USE DEF SurfacesTyped, PlaceTypes, FrameTypes, StreamTypes
<1>1. Forgets(s)
  BY <1>0, Teardown
<1>2. /\ kitty' = [kitty EXCEPT ![s] = FALSE] /\ last' = [last EXCEPT ![s] = Out]
      /\ frameDirty' = [frameDirty EXCEPT ![s] = frame[s] > 0]
  BY <1>1 DEF Forgets
<1>3. ASSUME UNCHANGED <<terminal, blocked, pending>>,
             IF adapter = "kitty" THEN ~kitty[s] ELSE last[s] = Out
      PROVE  HeldBack' /\ Placed' /\ KittyImages' /\ ItermImages'
  <2> USE DEF terminal
  <2>1. HeldBack'
    BY <1>0, <1>2, <1>3 DEF HeldBack, Delete, ClearAt
  <2>2. Placed'
    BY <1>0, <1>2, <1>3 DEF Placed
  <2>3. KittyImages'
    BY <1>0, <1>2, <1>3 DEF KittyImages
  <2>4. ItermImages'
    BY <1>0, <1>2, <1>3 DEF ItermImages, ClearAt
  <2> QED
    BY <2>1, <2>2, <2>3, <2>4
<1>4. ASSUME adapter = "kitty", kitty[s], pending[s] = <<>>, Withholds(s, Delete(s))
      PROVE  HeldBack' /\ Placed' /\ KittyImages' /\ ItermImages'
  <2> USE DEF terminal, Withholds
  <2>1. HeldBack'
    BY <1>0, <1>2, <1>4 DEF HeldBack, Delete, ClearAt
  <2>2. Placed'
    BY <1>0, <1>2, <1>4 DEF Placed
  <2>3. KittyImages'
    <3>1. pending'[s] = <<Delete(s)>> /\ <<Delete(s)>> # <<>>
      BY <1>0, <1>4
    <3> QED
      BY <1>0, <1>2, <1>4, <3>1 DEF KittyImages, TerminalTypes
  <2>4. ItermImages'
    BY <1>0, <1>2, <1>4 DEF ItermImages
  <2> QED
    BY <2>1, <2>2, <2>3, <2>4
<1>5. ASSUME adapter = "kitty", kitty[s], pending[s] = <<>>, NEW b \in BOOLEAN, GateIs(s, b),
             image' = [image EXCEPT ![s] = 0], UNCHANGED <<cells, overdrawn>>
      PROVE  HeldBack' /\ Placed' /\ KittyImages' /\ ItermImages'
  <2> USE DEF GateIs
  <2>1. HeldBack'
    BY <1>0, <1>2, <1>5 DEF HeldBack, Delete, ClearAt
  <2>2. Placed'
    BY <1>0, <1>2, <1>5 DEF Placed
  <2>3. KittyImages'
    BY <1>0, <1>2, <1>5 DEF KittyImages, TerminalTypes
  <2>4. ItermImages'
    BY <1>0, <1>2, <1>5 DEF ItermImages
  <2> QED
    BY <2>1, <2>2, <2>3, <2>4
<1>7. ASSUME adapter = "iterm2", last[s] # Out, pending[s] = <<>>,
             Withholds(s, ClearAt(s, last[s]))
      PROVE  HeldBack' /\ Placed' /\ KittyImages' /\ ItermImages'
  <2> USE DEF terminal, Withholds
  <2>1. HeldBack'
    <3>1. ~kitty[s]
      BY <1>0, <1>7 DEF ItermImages
    <3>2. pending'[s] = <<ClearAt(s, last[s])>> /\ last[s] \in Regions
      BY <1>0, <1>7
    <3> QED
      BY <1>0, <1>2, <1>7, <3>1, <3>2 DEF HeldBack, Delete, ClearAt
  <2>2. Placed'
    BY <1>0, <1>2, <1>7 DEF Placed
  <2>3. KittyImages'
    BY <1>0, <1>2, <1>7 DEF KittyImages
  <2>4. ItermImages'
    <3>1. pending'[s] = <<ClearAt(s, last[s])>> /\ last[s] \in Regions /\ last'[s] = Out
      BY <1>0, <1>2, <1>7
    <3> QED
      BY <1>0, <1>2, <1>7, <3>1, MediaSurfacesAssumption DEF ItermImages, ClearAt
  <2> QED
    BY <2>1, <2>2, <2>3, <2>4
<1>8. ASSUME adapter = "iterm2", last[s] # Out, pending[s] = <<>>, NEW b \in BOOLEAN,
             GateIs(s, b), Wipes(s, last[s]), UNCHANGED image
      PROVE  HeldBack' /\ Placed' /\ KittyImages' /\ ItermImages'
  <2> USE DEF GateIs
  <2>1. HeldBack'
    BY <1>0, <1>2, <1>8 DEF HeldBack, Delete, ClearAt
  <2>0. /\ last[s] \in Regions /\ s # Out
        /\ \A r \in Regions : cells'[r].of =
             IF r = last[s] THEN Out ELSE cells[r].of
        /\ \A r \in Regions : r # last[s] => cells'[r] = cells[r]
        /\ \A x \in Surfaces : overdrawn'[x] <=> overdrawn[x] \/ (x = cells[last[s]].of /\ x # s)
    BY <1>0, <1>8, MediaSurfacesAssumption DEF Wipes, Overlaid, Blank, TerminalTypes
  <2>2. Placed'
    <3> SUFFICES ASSUME NEW x \in Surfaces, last'[x] # Out
                 PROVE  /\ cells'[last'[x]].of = x \/ overdrawn'[x]
                        /\ region'[x] # last'[x] => overdrawn'[x]
                        /\ adapter' = "kitty" => kitty'[x]
      BY DEF Placed
    <3>1. x # s /\ last'[x] = last[x] /\ last[x] \in Regions /\ UNCHANGED <<region, adapter>>
      BY <1>0, <1>2
    <3>2. /\ cells[last[x]].of = x \/ overdrawn[x]
          /\ region[x] # last[x] => overdrawn[x]
      BY <1>0, <3>1 DEF Placed
    <3> QED
      BY <1>8, <2>0, <3>1, <3>2
  <2>3. KittyImages'
    BY <1>0, <1>2, <1>8 DEF KittyImages
  <2>4. ItermImages'
    <3> SUFFICES ASSUME NEW x \in Surfaces
                 PROVE  /\ ~kitty'[x] /\ image'[x] = 0
                        /\ \A r \in Regions : cells'[r].of = x =>
                             /\ frame[x] > 0
                             /\ r = last'[x] \/ pending'[x] = <<ClearAt(x, r)>>
                             /\ r = last'[x] /\ ~frameDirty'[x] => cells'[r].version = frame[x]
      BY DEF ItermImages, ClearAt
    <3>1. /\ ~kitty[x] /\ image[x] = 0
          /\ \A r \in Regions : cells[r].of = x =>
               /\ frame[x] > 0
               /\ r = last[x] \/ pending[x] = <<ClearAt(x, r)>>
               /\ r = last[x] /\ ~frameDirty[x] => cells[r].version = frame[x]
      BY <1>0, <1>8 DEF ItermImages
    <3>2. x # Out /\ <<ClearAt(s, last[s])>> # <<>> /\ \A r : <<ClearAt(x, r)>> # <<>>
      BY MediaSurfacesAssumption
    <3>3. ~kitty'[x] /\ image'[x] = 0
      BY <1>0, <1>2, <1>8, <3>1
    <3>4. CASE x = s
      BY <1>0, <1>2, <1>8, <2>0, <3>1, <3>2, <3>3, <3>4
    <3>5. CASE x # s
      <4>1. last'[x] = last[x] /\ pending'[x] = pending[x] /\ frameDirty'[x] = frameDirty[x]
        BY <1>0, <1>2, <1>8, <3>5
      <4> QED
        BY <2>0, <3>1, <3>2, <3>3, <4>1
    <3> QED
      BY <3>4, <3>5
  <2> QED
    BY <2>1, <2>2, <2>3, <2>4
<1>6. /\ TerminalTypes'
      /\ blocked' \in [Surfaces -> BOOLEAN] /\ pending' \in [Surfaces -> Seq(Chunk)]
      /\ \A x \in Surfaces \ {s} : blocked'[x] = blocked[x]
  <2>1. Delete(s) \in Chunk /\ ClearAt(s, last[s]) \in Chunk /\ 0 \in 0..MaxFrame
    BY <1>0, MediaSurfacesAssumption DEF Delete, ClearAt, Chunk
  <2>2. ASSUME UNCHANGED <<terminal, blocked, pending>>
        PROVE  TerminalTypes' /\ blocked' = blocked /\ pending' \in [Surfaces -> Seq(Chunk)]
    BY <1>0, <2>2 DEF TerminalTypes, terminal
  <2>3. ASSUME NEW c \in Chunk, Withholds(s, c)
        PROVE  TerminalTypes' /\ blocked' = blocked /\ pending' \in [Surfaces -> Seq(Chunk)]
    <3>1. <<c>> \in Seq(Chunk)
      OBVIOUS
    <3> QED
      BY <1>0, <2>3, <3>1 DEF TerminalTypes, Withholds, terminal
  <2>4. ASSUME image' = [image EXCEPT ![s] = 0], UNCHANGED <<cells, overdrawn>>
        PROVE  TerminalTypes'
    BY <1>0, <2>1, <2>4 DEF TerminalTypes
  <2>5. ASSUME Wipes(s, last[s]), UNCHANGED image
        PROVE  TerminalTypes'
    BY <1>0, <2>1, <2>5, EffectsTyped DEF TerminalTypes
  <2>6. ASSUME NEW b \in BOOLEAN, GateIs(s, b)
        PROVE  /\ blocked' \in [Surfaces -> BOOLEAN] /\ pending' \in [Surfaces -> Seq(Chunk)]
               /\ \A x \in Surfaces \ {s} : blocked'[x] = blocked[x]
    BY <1>0, <2>6 DEF GateIs
  <2> HIDE DEF SurfacesTyped
  <2>7. blocked \in [Surfaces -> BOOLEAN]
    BY <1>0 DEF SurfacesTyped
  <2> QED
    BY <1>0, <2>1, <2>2, <2>3, <2>4, <2>5, <2>6, <2>7, Teardown
<1> HIDE DEF SurfacesTyped
<1> QED
  BY <1>0, <1>1, <1>3, <1>4, <1>5, <1>6, <1>7, <1>8, Teardown

\* A surface that a rendered frame calls is not quiet.
LEMMA DueIsNotQuiet ==
  ASSUME due' = [x \in Surfaces |-> displayed'[x] /\ ~disposed'[x]],
         \A x \in Surfaces : disposed'[x] => ~displayed'[x]
  PROVE  QuietIsPainted' /\ due' \in [Surfaces -> BOOLEAN]
         /\ \A x \in Surfaces : due'[x] => displayed'[x]
<1>1. \A x \in Surfaces : displayed'[x] => due'[x]
  OBVIOUS
<1> QED
  BY <1>1 DEF QuietIsPainted, Quiet

LEMMA SetFrameKeeps ==
  ASSUME SurfacesIInv, NEW s \in Surfaces, SetFrame(s)
  PROVE  SurfacesIInv'
<1>0. /\ SurfacesTyped /\ ShownOnly /\ Apart /\ HeldBack /\ Placed
      /\ KittyImages /\ ItermImages
  BY DEF SurfacesIInv
<1> USE DEF SurfacesTyped, PlaceTypes, FrameTypes, StreamTypes, TerminalTypes
<1>1. /\ frame' = [frame EXCEPT ![s] = frame[s] + 1] /\ frame[s] + 1 \in 1..MaxFrame
      /\ frameDirty' = [frameDirty EXCEPT ![s] = TRUE] /\ Rendered
      /\ UNCHANGED <<settings, placementDirty, last, kitty, gate, terminal>>
  BY <1>0, MediaSurfacesAssumption DEF SetFrame
<1> USE DEF settings, gate, terminal
<1>2. \A x \in Surfaces : disposed'[x] => ~displayed'[x]
  BY <1>0, <1>1 DEF ShownOnly
<1>3. QuietIsPainted' /\ due' \in [Surfaces -> BOOLEAN]
      /\ \A x \in Surfaces : due'[x] => displayed'[x]
  BY <1>1, <1>2, DueIsNotQuiet DEF Rendered
<1>4. SurfacesTyped'
  <2>1. frame' \in [Surfaces -> 0..MaxFrame] /\ frameDirty' \in [Surfaces -> BOOLEAN]
    BY <1>0, <1>1
  <2> QED
    BY <1>0, <1>1, <1>3, <2>1
<1>5. ShownOnly' /\ Apart' /\ Placed'
  BY <1>0, <1>1, <1>3 DEF ShownOnly, Apart, Placed
<1>6. HeldBack'
  BY <1>0, <1>1 DEF HeldBack, Delete, ClearAt
<1>7. KittyImages' /\ ItermImages'
  <2>1. \A x \in Surfaces : /\ frame[x] > 0 => frame'[x] > 0
                            /\ x = s => frame'[x] > 0 /\ frameDirty'[x]
                            /\ x # s => frame'[x] = frame[x] /\ (frameDirty'[x] <=> frameDirty[x])
    BY <1>0, <1>1
  <2>2. KittyImages'
    BY <1>0, <1>1, <2>1 DEF KittyImages
  <2>3. ItermImages'
    BY <1>0, <1>1, <2>1 DEF ItermImages, ClearAt
  <2> QED
    BY <2>2, <2>3
<1> QED
  BY <1>3, <1>4, <1>5, <1>6, <1>7 DEF SurfacesIInv

LEMMA ShowKeeps ==
  ASSUME SurfacesIInv, NEW s \in Surfaces, ShowSurface(s)
  PROVE  SurfacesIInv'
<1>0. /\ SurfacesTyped /\ ShownOnly /\ Apart /\ HeldBack /\ Placed
      /\ KittyImages /\ ItermImages
  BY DEF SurfacesIInv
<1> USE DEF SurfacesTyped, PlaceTypes, FrameTypes, StreamTypes, TerminalTypes
<1>1. /\ ~displayed[s] /\ ~disposed[s] /\ Free(s, region[s])
      /\ displayed' = [displayed EXCEPT ![s] = TRUE]
      /\ frameDirty' = [frameDirty EXCEPT ![s] = frame[s] > 0]
      /\ placementDirty' = [placementDirty EXCEPT ![s] = TRUE] /\ Rendered
      /\ UNCHANGED <<adapter, region, disposed, frame, last, kitty, gate, terminal>>
  BY DEF ShowSurface
<1> USE DEF gate, terminal
<1>2. \A x \in Surfaces : disposed'[x] => ~displayed'[x]
  BY <1>0, <1>1 DEF ShownOnly
<1>3. QuietIsPainted' /\ due' \in [Surfaces -> BOOLEAN]
      /\ \A x \in Surfaces : due'[x] => displayed'[x]
  BY <1>1, <1>2, DueIsNotQuiet DEF Rendered
<1>4. SurfacesTyped'
  <2>1. (frame[s] > 0) \in BOOLEAN
    OBVIOUS
  <2> QED
    BY <1>0, <1>1, <1>3, <2>1
<1>5. ShownOnly' /\ Placed'
  BY <1>0, <1>1, <1>2, <1>3 DEF ShownOnly, Placed
<1>6. Apart'
  BY <1>0, <1>1 DEF Apart, Free
<1>7. HeldBack'
  BY <1>0, <1>1 DEF HeldBack, Delete, ClearAt
<1>8. KittyImages'
  BY <1>0, <1>1 DEF KittyImages
<1>9. ItermImages'
  <2>1. \A x \in Surfaces : frame[x] > 0 /\ ~frameDirty'[x] => ~frameDirty[x]
    BY <1>0, <1>1
  <2> QED
    BY <1>0, <1>1, <2>1 DEF ItermImages, ClearAt
<1> QED
  BY <1>3, <1>4, <1>5, <1>6, <1>7, <1>8, <1>9 DEF SurfacesIInv

LEMMA HideKeeps ==
  ASSUME SurfacesIInv, NEW s \in Surfaces, HideSurface(s) \/ DestroySelf(s)
  PROVE  SurfacesIInv'
<1>0. /\ SurfacesTyped /\ ShownOnly /\ Apart /\ QuietIsPainted
  BY DEF SurfacesIInv
<1>1. /\ displayed' = [displayed EXCEPT ![s] = FALSE] /\ due' = [due EXCEPT ![s] = FALSE]
      /\ ClearExternalPlacement(s) /\ UNCHANGED <<adapter, region, frame>>
      /\ \/ UNCHANGED <<disposed, closed>>
         \/ /\ disposed' = [disposed EXCEPT ![s] = TRUE]
            /\ closed' = [closed EXCEPT ![s] = TRUE]
  BY DEF HideSurface, DestroySelf
<1>2. /\ Forgets(s)
      /\ HeldBack' /\ Placed' /\ KittyImages' /\ ItermImages'
      /\ TerminalTypes'
      /\ blocked' \in [Surfaces -> BOOLEAN] /\ pending' \in [Surfaces -> Seq(Chunk)]
      /\ \A x \in Surfaces \ {s} : blocked'[x] = blocked[x]
  BY <1>1, TeardownKeeps
<1>3. SurfacesTyped'
  <2>1. /\ kitty' \in [Surfaces -> BOOLEAN]
        /\ last' \in [Surfaces -> Regions \cup {Out}]
        /\ frameDirty' \in [Surfaces -> BOOLEAN]
        /\ placementDirty' \in [Surfaces -> BOOLEAN]
    <3>1. 0 \in 0..MaxFrame /\ Out \in Regions \cup {Out}
      BY MediaSurfacesAssumption
    <3> QED
      BY <1>0, <1>2, <3>1, EffectsTyped
  <2> QED
    BY <1>0, <1>1, <1>2, <2>1 DEF SurfacesTyped, PlaceTypes, FrameTypes, StreamTypes
<1> USE DEF SurfacesTyped, PlaceTypes, FrameTypes, StreamTypes
<1>4. ShownOnly'
  BY <1>0, <1>1, <1>2 DEF ShownOnly, Forgets
<1>5. Apart'
  BY <1>0, <1>1 DEF Apart
<1>6. QuietIsPainted'
  BY <1>0, <1>1, <1>2 DEF QuietIsPainted, Quiet, Current, Forgets
<1> QED
  BY <1>2, <1>3, <1>4, <1>5, <1>6 DEF SurfacesIInv

\* A surface that moves is drawn over where it was, and is called again.
LEMMA MoveKeeps ==
  ASSUME SurfacesIInv, NEW s \in Surfaces, NEW resized \in BOOLEAN, Move(s, resized)
  PROVE  SurfacesIInv'
<1>0. /\ SurfacesTyped /\ ShownOnly /\ Apart /\ HeldBack /\ Placed
      /\ KittyImages /\ ItermImages
  BY DEF SurfacesIInv
<1> USE DEF SurfacesTyped, PlaceTypes, FrameTypes, StreamTypes, TerminalTypes
<1>1. PICK r \in (Regions \cup {Out}) \ {region[s]} :
        Free(s, r) /\ region' = [region EXCEPT ![s] = r]
  BY DEF Move
<1>2. /\ ~disposed[s] /\ displayed[s] /\ ~due[s]
      /\ cells' = [q \in Regions |-> IF q = region[s] /\ cells[q].of = s THEN Blank ELSE cells[q]]
      /\ overdrawn' = [overdrawn EXCEPT ![s] = @ \/ last[s] = region[s]]
      /\ placementDirty' = [placementDirty EXCEPT ![s] = @ \/ resized]
      /\ frameDirty' = [frameDirty EXCEPT ![s] = @ \/ (resized /\ frame[s] > 0)]
      /\ UNCHANGED <<adapter, displayed, disposed, frame, last, kitty, gate, image>>
      /\ Rendered
  BY DEF Move
<1> USE DEF gate
<1>3. \A x \in Surfaces : disposed'[x] => ~displayed'[x]
  BY <1>0, <1>2 DEF ShownOnly
<1>4. QuietIsPainted' /\ due' \in [Surfaces -> BOOLEAN]
      /\ \A x \in Surfaces : due'[x] => displayed'[x]
  BY <1>2, <1>3, DueIsNotQuiet DEF Rendered
<1>5. SurfacesTyped'
  <2>1. Blank \in Spots
    BY MediaSurfacesAssumption DEF Spots, Blank
  <2>2. cells' \in [Regions -> Spots] /\ region' \in [Surfaces -> Regions \cup {Out}]
    BY <1>0, <1>1, <1>2, <2>1
  <2>3. overdrawn' \in [Surfaces -> BOOLEAN] /\ placementDirty' \in [Surfaces -> BOOLEAN]
    BY <1>0, <1>2
  <2>4. frameDirty' \in [Surfaces -> BOOLEAN]
    BY <1>0, <1>2
  <2> QED
    BY <1>0, <1>2, <1>4, <2>2, <2>3, <2>4
<1>6. ShownOnly'
  BY <1>0, <1>2, <1>3, <1>4 DEF ShownOnly
<1>7. Apart'
  BY <1>0, <1>1, <1>2 DEF Apart, Free
<1>8. HeldBack'
  <2>1. \A x \in Surfaces : frameDirty[x] => frameDirty'[x]
    BY <1>0, <1>2
  <2> QED
    BY <1>0, <1>2, <2>1 DEF HeldBack, Delete, ClearAt
<1>9. \A q \in Regions, x \in Surfaces : cells'[q].of = x =>
        cells[q].of = x /\ cells'[q] = cells[q] /\ (x = s => q # region[s])
  BY <1>0, <1>2, MediaSurfacesAssumption DEF Blank
<1>10. \A q \in Regions, x \in Surfaces : cells[q].of = x =>
         cells'[q].of = x \/ (x = s /\ q = region[s])
  BY <1>0, <1>2
<1>11. \A x \in Surfaces : /\ overdrawn[x] => overdrawn'[x]
                           /\ x = s /\ last[x] = region[x] => overdrawn'[x]
                           /\ x # s => region'[x] = region[x]
  BY <1>0, <1>1, <1>2
<1>12. Placed'
  BY <1>0, <1>2, <1>10, <1>11 DEF Placed
<1>13. \A x \in Surfaces : ~frameDirty'[x] => ~frameDirty[x]
  BY <1>0, <1>2
<1>14. KittyImages'
  <2> SUFFICES ASSUME adapter = "kitty", NEW x \in Surfaces
               PROVE  /\ image[x] > 0 => kitty[x] \/ pending[x] # <<>>
                      /\ kitty[x] => frame[x] > 0
                      /\ frame[x] > 0 /\ ~frameDirty'[x] => kitty[x] /\ image[x] = frame[x]
                      /\ \A q \in Regions : cells'[q].of = x => q = region'[x]
    BY <1>2 DEF KittyImages
  <2>1. /\ image[x] > 0 => kitty[x] \/ pending[x] # <<>>
        /\ kitty[x] => frame[x] > 0
        /\ frame[x] > 0 /\ ~frameDirty[x] => kitty[x] /\ image[x] = frame[x]
        /\ \A q \in Regions : cells[q].of = x => q = region[x]
    BY <1>0 DEF KittyImages
  <2> QED
    BY <1>9, <1>11, <1>13, <2>1
<1>15. ItermImages'
  <2> SUFFICES ASSUME adapter = "iterm2", NEW x \in Surfaces
               PROVE  /\ ~kitty[x] /\ image[x] = 0
                      /\ \A q \in Regions : cells'[q].of = x =>
                           /\ frame[x] > 0
                           /\ q = last[x] \/ pending[x] = <<ClearAt(x, q)>>
                           /\ q = last[x] /\ ~frameDirty'[x] => cells'[q].version = frame[x]
    BY <1>2 DEF ItermImages, ClearAt
  <2>1. /\ ~kitty[x] /\ image[x] = 0
        /\ \A q \in Regions : cells[q].of = x =>
             /\ frame[x] > 0
             /\ q = last[x] \/ pending[x] = <<ClearAt(x, q)>>
             /\ q = last[x] /\ ~frameDirty[x] => cells[q].version = frame[x]
    BY <1>0 DEF ItermImages
  <2> QED
    BY <1>9, <1>13, <2>1
<1> QED
  BY <1>4, <1>5, <1>6, <1>7, <1>8, <1>12, <1>14, <1>15 DEF SurfacesIInv

\* Two surfaces that are called do not place over each other.
LEMMA NobodyElseThere ==
  ASSUME SurfacesIInv, NEW s \in Surfaces, displayed[s], region[s] \in Regions,
         NEW x \in Surfaces, x # s, last[x] = region[s]
  PROVE  overdrawn[x]
<1>1. displayed[x]
  BY MediaSurfacesAssumption DEF SurfacesIInv, ShownOnly
<1>2. region[x] # last[x]
  BY <1>1, MediaSurfacesAssumption DEF SurfacesIInv, Apart
<1> QED
  BY <1>2, MediaSurfacesAssumption DEF SurfacesIInv, Placed

LEMMA KittyFlushKeeps ==
  ASSUME SurfacesIInv, NEW s \in Surfaces, due[s], due' = [due EXCEPT ![s] = FALSE],
         region[s] \in Regions, ~blocked[s], frame[s] > 0, adapter = "kitty", FlushKitty(s),
         UNCHANGED <<settings, frame, closed>>
  PROVE  SurfacesIInv'
<1>0. /\ SurfacesTyped /\ ShownOnly /\ Apart /\ HeldBack /\ Placed
      /\ KittyImages /\ QuietIsPainted
  BY DEF SurfacesIInv
<1>1. displayed[s] /\ pending[s] = <<>>
  BY <1>0 DEF ShownOnly, HeldBack
<1>2. /\ image' = IF frameDirty[s] THEN [image EXCEPT ![s] = frame[s]] ELSE image
      /\ kitty' = [kitty EXCEPT ![s] = TRUE]
      /\ frameDirty' = [frameDirty EXCEPT ![s] = FALSE]
  BY <1>0, KittyFlush
<1>3. PICK b \in BOOLEAN :
        /\ GateIs(s, b)
        /\ \/ /\ Paints(s, region[s], 0) /\ last' = [last EXCEPT ![s] = region[s]]
              /\ placementDirty' = [placementDirty EXCEPT ![s] = FALSE]
           \/ /\ b /\ UNCHANGED <<cells, overdrawn, last>>
              /\ placementDirty' = [placementDirty EXCEPT ![s] = @ \/ ~kitty[s]]
  BY <1>0, KittyFlush
<1>4. /\ cells' \in [Regions -> Spots] /\ overdrawn' \in [Surfaces -> BOOLEAN]
      /\ blocked' \in [Surfaces -> BOOLEAN] /\ pending' \in [Surfaces -> Seq(Chunk)]
  <2>1. 0 \in 0..MaxFrame
    BY MediaSurfacesAssumption
  <2>2. cells \in [Regions -> Spots] /\ overdrawn \in [Surfaces -> BOOLEAN]
    BY <1>0 DEF SurfacesTyped, TerminalTypes
  <2> QED
    BY <1>0, <1>3, <2>1, <2>2, EffectsTyped
<1> USE DEF SurfacesTyped, PlaceTypes, FrameTypes, StreamTypes, TerminalTypes, settings
<1>5. /\ image' \in [Surfaces -> 0..MaxFrame] /\ kitty' \in [Surfaces -> BOOLEAN]
      /\ frameDirty' \in [Surfaces -> BOOLEAN] /\ placementDirty' \in [Surfaces -> BOOLEAN]
      /\ last' \in [Surfaces -> Regions \cup {Out}] /\ due' \in [Surfaces -> BOOLEAN]
  BY <1>0, <1>2, <1>3
<1>6. SurfacesTyped'
  BY <1>0, <1>4, <1>5
<1>7. \A x \in Surfaces : x # s => /\ image'[x] = image[x] /\ (kitty'[x] <=> kitty[x])
                                  /\ (frameDirty'[x] <=> frameDirty[x]) /\ last'[x] = last[x]
                                  /\ (placementDirty'[x] <=> placementDirty[x])
                                  /\ (blocked'[x] <=> blocked[x]) /\ pending'[x] = pending[x]
                                  /\ (due'[x] <=> due[x])
  BY <1>0, <1>2, <1>3 DEF GateIs
<1>8. /\ kitty'[s] /\ ~frameDirty'[s] /\ pending'[s] = <<>> /\ ~due'[s]
      /\ (blocked'[s] <=> b) /\ last'[s] \in {last[s], region[s]}
  BY <1>0, <1>2, <1>3 DEF GateIs
<1>9. image'[s] = frame[s]
  BY <1>0, <1>2 DEF KittyImages
<1>10. /\ ShownOnly' /\ Apart'
  <2>1. ShownOnly'
    BY <1>0, <1>1, <1>7, <1>8 DEF ShownOnly
  <2>2. Apart'
    BY <1>0 DEF Apart
  <2> QED
    BY <2>1, <2>2
<1>11. HeldBack'
  BY <1>0, <1>7, <1>8 DEF HeldBack, Delete, ClearAt
<1>12. /\ \A r \in Regions, x \in Surfaces : cells'[r].of = x =>
            cells[r].of = x \/ (x = s /\ r = region[s])
       /\ \A x \in Surfaces : last[x] \in Regions /\ cells[last[x]].of = x /\ x # s =>
            cells'[last[x]].of = x \/ last[x] = region[s]
       /\ \A x \in Surfaces : x # s => (overdrawn'[x] <=> overdrawn[x])
       /\ \/ cells'[region[s]].of = s /\ last'[s] = region[s]
          \/ UNCHANGED <<cells, overdrawn, last>>
  BY <1>0, <1>3 DEF Paints, Spots
<1>13. Placed'
  <2> SUFFICES ASSUME NEW x \in Surfaces, last'[x] # Out
               PROVE  /\ cells'[last'[x]].of = x \/ overdrawn'[x]
                      /\ region[x] # last'[x] => overdrawn'[x]
                      /\ kitty'[x]
    BY DEF Placed
  <2>1. last[x] # Out => /\ cells[last[x]].of = x \/ overdrawn[x]
                         /\ region[x] # last[x] => overdrawn[x]
                         /\ kitty[x]
    BY <1>0 DEF Placed
  <2>2. CASE x = s
    BY <1>8, <1>12, <2>1, <2>2
  <2>3. CASE x # s
    <3>1. last[x] \in Regions /\ last'[x] = last[x] /\ kitty'[x]
      BY <1>0, <1>7, <2>1, <2>3
    <3>2. last[x] = region[s] => overdrawn[x]
      BY <1>1, <2>3, NobodyElseThere
    <3> QED
      BY <1>12, <2>1, <2>3, <3>1, <3>2
  <2> QED
    BY <2>2, <2>3
<1>14. KittyImages'
  <2> SUFFICES ASSUME NEW x \in Surfaces
               PROVE  /\ image'[x] > 0 => kitty'[x] \/ pending'[x] # <<>>
                      /\ kitty'[x] => frame[x] > 0
                      /\ frame[x] > 0 /\ ~frameDirty'[x] => kitty'[x] /\ image'[x] = frame[x]
                      /\ \A r \in Regions : cells'[r].of = x => r = region[x]
    BY DEF KittyImages
  <2>1. /\ image[x] > 0 => kitty[x] \/ pending[x] # <<>>
        /\ kitty[x] => frame[x] > 0
        /\ frame[x] > 0 /\ ~frameDirty[x] => kitty[x] /\ image[x] = frame[x]
        /\ \A r \in Regions : cells[r].of = x => r = region[x]
    BY <1>0 DEF KittyImages
  <2>2. \A r \in Regions : cells'[r].of = x => r = region[x]
    BY <1>12, <2>1
  <2>3. CASE x = s
    BY <1>8, <1>9, <2>2, <2>3
  <2>4. CASE x # s
    BY <1>7, <2>1, <2>2, <2>4
  <2> QED
    BY <2>3, <2>4
<1>15. ItermImages'
  BY DEF ItermImages
<1>16. QuietIsPainted'
  <2>1. ~blocked'[s] => ~placementDirty'[s] /\ last'[s] = region[s]
    BY <1>0, <1>3, <1>8
  <2>2. region[s] # Out
    BY MediaSurfacesAssumption
  <2> QED
    BY <1>0, <1>7, <1>8, <2>1, <2>2 DEF QuietIsPainted, Quiet, Current
<1> QED
  BY <1>6, <1>10, <1>11, <1>13, <1>14, <1>15, <1>16 DEF SurfacesIInv

LEMMA ItermFlushKeeps ==
  ASSUME SurfacesIInv, NEW s \in Surfaces, due[s], due' = [due EXCEPT ![s] = FALSE],
         region[s] \in Regions, ~blocked[s], frame[s] > 0, adapter = "iterm2", FlushIterm(s),
         UNCHANGED <<settings, frame, closed>>
  PROVE  SurfacesIInv'
<1>0. /\ SurfacesTyped /\ ShownOnly /\ Apart /\ HeldBack /\ Placed
      /\ ItermImages /\ QuietIsPainted
  BY DEF SurfacesIInv
<1>1. displayed[s] /\ pending[s] = <<>>
  BY <1>0 DEF ShownOnly, HeldBack
<1>2. UNCHANGED <<image, kitty>>
  BY <1>0, ItermFlush
<1> DEFINE Done == /\ last' = [last EXCEPT ![s] = region[s]]
                   /\ frameDirty' = [frameDirty EXCEPT ![s] = FALSE]
                   /\ placementDirty' = [placementDirty EXCEPT ![s] = FALSE]
           Waiting == last' = [last EXCEPT ![s] = Out] /\ UNCHANGED <<frameDirty, placementDirty>>
<1>3. PICK b \in BOOLEAN :
        /\ GateIs(s, b)
        /\ \/ /\ last[s] \in {Out, region[s]} /\ Paints(s, region[s], frame[s]) /\ Done
           \/ /\ last[s] \notin {Out, region[s]} /\ Done
              /\ cells' = [cells EXCEPT ![last[s]] = Blank,
                              ![region[s]] = [of |-> s, version |-> frame[s]]]
              /\ overdrawn' = [Overlaid(last[s], s) EXCEPT ![s] = FALSE]
           \/ b /\ last[s] \notin {Out, region[s]} /\ Wipes(s, last[s]) /\ Waiting
  BY <1>0, ItermFlush
<1> USE DEF SurfacesTyped, PlaceTypes, FrameTypes, StreamTypes, TerminalTypes, settings
<1>4. /\ cells' \in [Regions -> Spots] /\ overdrawn' \in [Surfaces -> BOOLEAN]
  <2>1. [of |-> s, version |-> frame[s]] \in Spots /\ Blank \in Spots
    BY <1>0, MediaSurfacesAssumption DEF Spots, Blank
  <2>2. Overlaid(last[s], s) \in [Surfaces -> BOOLEAN]
    BY <1>0 DEF Overlaid
  <2>3. CASE Paints(s, region[s], frame[s])
    BY <1>0, <2>1, <2>3 DEF Paints
  <2>4. CASE /\ cells' = [cells EXCEPT ![last[s]] = Blank,
                              ![region[s]] = [of |-> s, version |-> frame[s]]]
             /\ overdrawn' = [Overlaid(last[s], s) EXCEPT ![s] = FALSE]
    <3>1. cells' \in [Regions -> Spots]
      BY <1>0, <2>1, <2>4
    <3> QED
      BY <2>2, <2>4, <3>1
  <2>5. CASE Wipes(s, last[s])
    BY <1>0, <2>1, <2>2, <2>5 DEF Wipes
  <2> QED
    BY <1>3, <2>3, <2>4, <2>5
<1>5. /\ frameDirty' \in [Surfaces -> BOOLEAN] /\ placementDirty' \in [Surfaces -> BOOLEAN]
      /\ last' \in [Surfaces -> Regions \cup {Out}] /\ due' \in [Surfaces -> BOOLEAN]
      /\ blocked' \in [Surfaces -> BOOLEAN] /\ pending' \in [Surfaces -> Seq(Chunk)]
  <2> DEFINE Fine == /\ frameDirty' \in [Surfaces -> BOOLEAN]
                     /\ placementDirty' \in [Surfaces -> BOOLEAN]
                     /\ last' \in [Surfaces -> Regions \cup {Out}]
  <2>1. ASSUME Done PROVE Fine
    BY <1>0, <2>1
  <2>2. ASSUME Waiting PROVE Fine
    BY <1>0, <2>2
  <2> HIDE DEF Done, Waiting
  <2>3. due' \in [Surfaces -> BOOLEAN]
    BY <1>0
  <2>4. blocked' \in [Surfaces -> BOOLEAN] /\ pending' \in [Surfaces -> Seq(Chunk)]
    <3>1. <<>> \in Seq(Chunk)
      OBVIOUS
    <3> QED
      BY <1>0, <1>3, <3>1 DEF GateIs
  <2> HIDE DEF Fine
  <2>5. Fine
    BY <1>3, <2>1, <2>2
  <2> QED
    BY <2>3, <2>4, <2>5 DEF Fine
<1>6. SurfacesTyped'
  BY <1>0, <1>2, <1>4, <1>5
<1>7. \A x \in Surfaces : x # s => /\ (frameDirty'[x] <=> frameDirty[x]) /\ last'[x] = last[x]
                                  /\ (placementDirty'[x] <=> placementDirty[x])
                                  /\ (blocked'[x] <=> blocked[x]) /\ pending'[x] = pending[x]
                                  /\ (due'[x] <=> due[x])
  BY <1>0, <1>3 DEF GateIs
<1>8. /\ pending'[s] = <<>> /\ ~due'[s] /\ (blocked'[s] <=> b)
      /\ \/ last'[s] = region[s] /\ ~frameDirty'[s] /\ ~placementDirty'[s]
         \/ last'[s] = Out /\ b
  BY <1>0, <1>3 DEF GateIs
<1>9. \A r \in Regions : cells[r].of = s => r = last[s]
  <2> SUFFICES ASSUME NEW r \in Regions, cells[r].of = s PROVE r = last[s]
    OBVIOUS
  <2>1. r = last[s] \/ pending[s] = <<ClearAt(s, r)>>
    BY <1>0 DEF ItermImages
  <2>2. <<ClearAt(s, r)>> # <<>>
    OBVIOUS
  <2> QED
    BY <1>1, <2>1, <2>2
<1>10. \A r \in Regions, x \in Surfaces : cells'[r].of = x =>
         \/ x = s /\ r = region[s] /\ r = last'[s] /\ cells'[r].version = frame[s]
         \/ x # s /\ cells'[r] = cells[r]
  <2> SUFFICES ASSUME NEW r \in Regions, NEW x \in Surfaces, cells'[r].of = x
               PROVE  \/ x = s /\ r = region[s] /\ r = last'[s] /\ cells'[r].version = frame[s]
                      \/ x # s /\ cells'[r] = cells[r]
    OBVIOUS
  <2>1. cells[r].of = s => r = last[s]
    BY <1>9
  <2>2. x # Out /\ (r = last[s] => last[s] # Out)
    BY MediaSurfacesAssumption
  <2>3. CASE last[s] \in {Out, region[s]} /\ Paints(s, region[s], frame[s]) /\ Done
    BY <1>0, <2>1, <2>2, <2>3 DEF Paints
  <2>4. CASE /\ last[s] \notin {Out, region[s]} /\ Done
             /\ cells' = [cells EXCEPT ![last[s]] = Blank,
                             ![region[s]] = [of |-> s, version |-> frame[s]]]
    BY <1>0, <2>1, <2>2, <2>4 DEF Blank
  <2>5. CASE last[s] \notin {Out, region[s]} /\ Wipes(s, last[s])
    BY <1>0, <2>1, <2>2, <2>5 DEF Wipes, Blank
  <2> QED
    BY <1>3, <2>3, <2>4, <2>5
<1>11. \A r \in Regions, x \in Surfaces : x # s /\ cells[r].of = x /\ r # region[s] =>
         cells'[r].of = x \/ overdrawn'[x]
  <2>1. CASE Paints(s, region[s], frame[s])
    BY <1>0, <2>1 DEF Paints
  <2>2. CASE /\ cells' = [cells EXCEPT ![last[s]] = Blank,
                              ![region[s]] = [of |-> s, version |-> frame[s]]]
             /\ overdrawn' = [Overlaid(last[s], s) EXCEPT ![s] = FALSE]
    BY <1>0, <2>2 DEF Overlaid
  <2>3. CASE Wipes(s, last[s])
    BY <1>0, <2>3 DEF Wipes, Overlaid
  <2> HIDE DEF Done, Waiting
  <2> QED
    BY <1>3, <2>1, <2>2, <2>3
<1>12. /\ \A x \in Surfaces : x # s => (overdrawn[x] => overdrawn'[x])
       /\ last'[s] # Out => cells'[region[s]].of = s
  <2>1. CASE Paints(s, region[s], frame[s])
    BY <1>0, <2>1 DEF Paints
  <2>2. CASE /\ cells' = [cells EXCEPT ![last[s]] = Blank,
                              ![region[s]] = [of |-> s, version |-> frame[s]]]
             /\ overdrawn' = [Overlaid(last[s], s) EXCEPT ![s] = FALSE]
    BY <1>0, <2>2 DEF Overlaid
  <2>3. CASE Wipes(s, last[s]) /\ Waiting
    BY <1>0, <2>3 DEF Wipes, Overlaid
  <2> QED
    BY <1>3, <2>1, <2>2, <2>3
<1>13. ShownOnly' /\ Apart'
  <2>1. ShownOnly'
    BY <1>0, <1>1, <1>2, <1>7, <1>8 DEF ShownOnly
  <2>2. Apart'
    BY <1>0 DEF Apart
  <2> QED
    BY <2>1, <2>2
<1>14. HeldBack'
  <2> SUFFICES ASSUME NEW x \in Surfaces, x # s
               PROVE  \/ pending'[x] = <<>>
                      \/ /\ blocked'[x] /\ last'[x] = Out /\ ~kitty[x]
                         /\ frame[x] > 0 => frameDirty'[x]
                         /\ \/ adapter = "kitty" /\ pending'[x] = <<Delete(x)>>
                            \/ /\ adapter = "iterm2"
                               /\ \E r \in Regions : pending'[x] = <<ClearAt(x, r)>>
    BY <1>2, <1>8 DEF HeldBack, Delete, ClearAt
  <2>1. \/ pending[x] = <<>>
        \/ /\ blocked[x] /\ last[x] = Out /\ ~kitty[x] /\ (frame[x] > 0 => frameDirty[x])
           /\ \/ adapter = "kitty" /\ pending[x] = <<Delete(x)>>
              \/ adapter = "iterm2" /\ \E r \in Regions : pending[x] = <<ClearAt(x, r)>>
    BY <1>0 DEF HeldBack
  <2> QED
    BY <1>2, <1>7, <2>1
<1>15. Placed'
  <2> SUFFICES ASSUME NEW x \in Surfaces, last'[x] # Out
               PROVE  /\ cells'[last'[x]].of = x \/ overdrawn'[x]
                      /\ region[x] # last'[x] => overdrawn'[x]
    BY DEF Placed
  <2>1. CASE x = s
    BY <1>8, <1>12, <2>1
  <2>2. CASE x # s
    <3>1. last[x] \in Regions /\ last'[x] = last[x]
      BY <1>0, <1>7, <2>2
    <3>2. last[x] = region[s] => overdrawn[x]
      BY <1>1, <2>2, NobodyElseThere
    <3>3. /\ cells[last[x]].of = x \/ overdrawn[x]
          /\ region[x] # last[x] => overdrawn[x]
      BY <1>0, <3>1, MediaSurfacesAssumption DEF Placed
    <3> QED
      BY <1>11, <1>12, <2>2, <3>1, <3>2, <3>3
  <2> QED
    BY <2>1, <2>2
<1>16. ItermImages'
  <2> SUFFICES ASSUME NEW x \in Surfaces
               PROVE  /\ ~kitty[x] /\ image[x] = 0
                      /\ \A r \in Regions : cells'[r].of = x =>
                           /\ frame[x] > 0
                           /\ r = last'[x] \/ pending'[x] = <<ClearAt(x, r)>>
                           /\ r = last'[x] /\ ~frameDirty'[x] => cells'[r].version = frame[x]
    BY <1>2 DEF ItermImages, ClearAt
  <2>1. /\ ~kitty[x] /\ image[x] = 0
        /\ \A r \in Regions : cells[r].of = x =>
             /\ frame[x] > 0
             /\ r = last[x] \/ pending[x] = <<ClearAt(x, r)>>
             /\ r = last[x] /\ ~frameDirty[x] => cells[r].version = frame[x]
    BY <1>0 DEF ItermImages
  <2>2. CASE x = s
    BY <1>10, <2>1, <2>2
  <2>3. CASE x # s
    BY <1>7, <1>10, <2>1, <2>3
  <2> QED
    BY <2>2, <2>3
<1>17. KittyImages'
  BY DEF KittyImages
<1>18. QuietIsPainted'
  <2>1. region[s] # Out
    BY MediaSurfacesAssumption
  <2> QED
    BY <1>0, <1>2, <1>7, <1>8, <2>1 DEF QuietIsPainted, Quiet, Current
<1> QED
  BY <1>6, <1>13, <1>14, <1>15, <1>16, <1>17, <1>18 DEF SurfacesIInv

LEMMA FlushKeeps ==
  ASSUME SurfacesIInv, NEW s \in Surfaces, Flush(s)
  PROVE  SurfacesIInv'
<1>0. SurfacesTyped /\ ShownOnly /\ Apart /\ QuietIsPainted
  BY DEF SurfacesIInv
<1>1. due[s] /\ due' = [due EXCEPT ![s] = FALSE] /\ UNCHANGED <<settings, frame, closed>>
  BY DEF Flush
<1>2. CASE ~Visible(s) /\ ClearExternalPlacement(s)
  <2>1. region[s] = Out
    BY <1>2 DEF Visible
  <2>2. /\ Forgets(s)
        /\ HeldBack' /\ Placed' /\ KittyImages' /\ ItermImages'
        /\ TerminalTypes'
        /\ blocked' \in [Surfaces -> BOOLEAN] /\ pending' \in [Surfaces -> Seq(Chunk)]
        /\ \A x \in Surfaces \ {s} : blocked'[x] = blocked[x]
    BY <1>1, <1>2, TeardownKeeps DEF settings
  <2>3. SurfacesTyped'
    <3>1. /\ kitty' \in [Surfaces -> BOOLEAN]
          /\ last' \in [Surfaces -> Regions \cup {Out}]
          /\ frameDirty' \in [Surfaces -> BOOLEAN]
          /\ placementDirty' \in [Surfaces -> BOOLEAN]
      <4>1. 0 \in 0..MaxFrame /\ Out \in Regions \cup {Out}
        BY MediaSurfacesAssumption
      <4> QED
        BY <1>0, <2>2, <4>1, EffectsTyped
    <3> QED
      BY <1>0, <1>1, <2>2, <3>1
         DEF SurfacesTyped, PlaceTypes, FrameTypes, StreamTypes, settings
  <2> USE DEF SurfacesTyped, PlaceTypes, FrameTypes, StreamTypes, settings
  <2>4. ShownOnly'
    BY <1>0, <1>1, <2>2 DEF ShownOnly, Forgets
  <2>5. Apart'
    BY <1>0, <1>1 DEF Apart
  <2>6. QuietIsPainted'
    BY <1>0, <1>1, <2>1, <2>2 DEF QuietIsPainted, Quiet, Current, Forgets
  <2> QED
    BY <2>2, <2>3, <2>4, <2>5, <2>6 DEF SurfacesIInv
<1>3. CASE /\ Visible(s) /\ (blocked[s] \/ frame[s] = 0 \/ Current(s))
           /\ UNCHANGED <<frameDirty, placementDirty, last, kitty, blocked, pending, terminal>>
  <2> USE DEF settings, terminal
  <2>1. SurfacesTyped'
    BY <1>0, <1>1, <1>3
       DEF SurfacesTyped, PlaceTypes, FrameTypes, StreamTypes, TerminalTypes
  <2>2. ShownOnly' /\ Apart'
    BY <1>0, <1>1, <1>3 DEF ShownOnly, Apart, SurfacesTyped, FrameTypes
  <2>3. HeldBack' /\ Placed' /\ KittyImages' /\ ItermImages'
    <3>1. /\ UNCHANGED <<adapter, region, frame, frameDirty, last, kitty, blocked, pending>>
          /\ UNCHANGED <<cells, image, overdrawn>>
      BY <1>1, <1>3
    <3>2. HeldBack'
      BY <3>1 DEF SurfacesIInv, HeldBack, ClearAt, Delete
    <3>3. Placed' /\ KittyImages' /\ ItermImages'
      BY <3>1 DEF SurfacesIInv, Placed, KittyImages, ItermImages, ClearAt
    <3> QED
      BY <3>2, <3>3
  <2>4. QuietIsPainted'
    BY <1>0, <1>1, <1>3
       DEF QuietIsPainted, Quiet, Current, Visible, SurfacesTyped, FrameTypes
  <2> QED
    BY <2>1, <2>2, <2>3, <2>4 DEF SurfacesIInv
<1>4. CASE /\ Visible(s) /\ ~blocked[s] /\ frame[s] > 0 /\ ~Current(s)
           /\ IF adapter = "kitty" THEN FlushKitty(s) ELSE FlushIterm(s)
  <2>1. region[s] \in Regions /\ (adapter # "kitty" => adapter = "iterm2")
    BY <1>0, <1>4 DEF Visible, SurfacesTyped, PlaceTypes
  <2> QED
    BY <1>1, <1>4, <2>1, KittyFlushKeeps, ItermFlushKeeps
<1> QED
  BY <1>2, <1>3, <1>4 DEF Flush

LEMMA DrainKeeps ==
  ASSUME SurfacesIInv, NEW s \in Surfaces, Drain(s)
  PROVE  SurfacesIInv'
<1>0. /\ SurfacesTyped /\ ShownOnly /\ Apart /\ HeldBack /\ Placed
      /\ KittyImages /\ ItermImages /\ QuietIsPainted
  BY DEF SurfacesIInv
<1>1. PICK b \in BOOLEAN : /\ GateIs(s, b)
        /\ IF ~b /\ ~closed[s] /\ displayed[s] /\ ~disposed[s]
           THEN due' = [x \in Surfaces |-> displayed[x] /\ ~disposed[x]] ELSE UNCHANGED due
  BY <1>0, DrainEffects
<1>2. \/ pending[s] = <<>> /\ UNCHANGED terminal
      \/ /\ adapter = "kitty" /\ pending[s] = <<Delete(s)>>
         /\ image' = [image EXCEPT ![s] = 0] /\ UNCHANGED <<cells, overdrawn>>
      \/ /\ adapter = "iterm2" /\ UNCHANGED image
         /\ \E r \in Regions : pending[s] = <<ClearAt(s, r)>> /\ Wipes(s, r)
  BY <1>0, DrainEffects
<1>3. blocked[s] /\ UNCHANGED <<settings, surface, closed>>
  BY DEF Drain
<1> USE DEF SurfacesTyped, PlaceTypes, FrameTypes, StreamTypes, TerminalTypes,
        settings, surface, terminal
<1>4. SurfacesTyped'
  <2>1. 0 \in 0..MaxFrame /\ Blank \in Spots
    BY MediaSurfacesAssumption DEF Blank, Spots
  <2>2. /\ cells' \in [Regions -> Spots] /\ overdrawn' \in [Surfaces -> BOOLEAN]
        /\ image' \in [Surfaces -> 0..MaxFrame]
    <3>1. CASE UNCHANGED terminal
      BY <1>0, <3>1
    <3>2. CASE image' = [image EXCEPT ![s] = 0] /\ UNCHANGED <<cells, overdrawn>>
      BY <1>0, <2>1, <3>2
    <3>3. ASSUME NEW r \in Regions, Wipes(s, r), UNCHANGED image
          PROVE  /\ cells' \in [Regions -> Spots] /\ overdrawn' \in [Surfaces -> BOOLEAN]
                 /\ image' \in [Surfaces -> 0..MaxFrame]
      <4>1. Overlaid(r, s) \in [Surfaces -> BOOLEAN]
        BY <1>0 DEF Overlaid
      <4> QED
        BY <1>0, <2>1, <3>3, <4>1 DEF Wipes
    <3> QED
      BY <1>2, <3>1, <3>2, <3>3
  <2>3. /\ blocked' \in [Surfaces -> BOOLEAN] /\ pending' \in [Surfaces -> Seq(Chunk)]
        /\ due' \in [Surfaces -> BOOLEAN]
    <3>1. <<>> \in Seq(Chunk)
      OBVIOUS
    <3>2. [x \in Surfaces |-> displayed[x] /\ ~disposed[x]] \in [Surfaces -> BOOLEAN]
      BY <1>0
    <3>3. due' \in [Surfaces -> BOOLEAN]
      BY <1>0, <1>1, <3>2
    <3> QED
      BY <1>0, <1>1, <3>1, <3>3 DEF GateIs
  <2> QED
    BY <1>0, <1>3, <2>2, <2>3
<1>5. /\ \A x \in Surfaces : x # s => (blocked'[x] <=> blocked[x]) /\ pending'[x] = pending[x]
      /\ pending'[s] = <<>> /\ (blocked'[s] <=> b)
  BY <1>0, <1>1 DEF GateIs
<1>6. ShownOnly' /\ Apart'
  BY <1>0, <1>1, <1>3 DEF ShownOnly, Apart
<1>7. HeldBack'
  <2> SUFFICES ASSUME NEW x \in Surfaces, x # s
               PROVE  \/ pending'[x] = <<>>
                      \/ /\ blocked'[x] /\ last'[x] = Out /\ ~kitty[x]
                         /\ frame[x] > 0 => frameDirty'[x]
                         /\ \/ adapter = "kitty" /\ pending'[x] = <<Delete(x)>>
                            \/ /\ adapter = "iterm2"
                               /\ \E r \in Regions : pending'[x] = <<ClearAt(x, r)>>
    BY <1>3, <1>5 DEF HeldBack, Delete, ClearAt
  <2>1. \/ pending[x] = <<>>
        \/ /\ blocked[x] /\ last[x] = Out /\ ~kitty[x] /\ (frame[x] > 0 => frameDirty[x])
           /\ \/ adapter = "kitty" /\ pending[x] = <<Delete(x)>>
              \/ adapter = "iterm2" /\ \E r \in Regions : pending[x] = <<ClearAt(x, r)>>
    BY <1>0 DEF HeldBack
  <2> QED
    BY <1>3, <1>5, <2>1
<1>8. /\ \A x \in Surfaces : x # s => image'[x] = image[x]
      /\ \A r \in Regions, x \in Surfaces : cells'[r].of = x => cells'[r] = cells[r]
      /\ \A r \in Regions, x \in Surfaces :
           cells[r].of = x => cells'[r].of = x \/ overdrawn'[x] \/ x = s
      /\ \A x \in Surfaces : overdrawn[x] => overdrawn'[x]
  <2>1. CASE UNCHANGED terminal
    BY <2>1
  <2>2. CASE image' = [image EXCEPT ![s] = 0] /\ UNCHANGED <<cells, overdrawn>>
    BY <1>0, <2>2
  <2>3. ASSUME NEW r \in Regions, Wipes(s, r), UNCHANGED image
        PROVE  /\ \A q \in Regions, x \in Surfaces : cells'[q].of = x => cells'[q] = cells[q]
               /\ \A q \in Regions, x \in Surfaces :
                    cells[q].of = x => cells'[q].of = x \/ overdrawn'[x] \/ x = s
               /\ \A x \in Surfaces : overdrawn[x] => overdrawn'[x]
    BY <1>0, <2>3, MediaSurfacesAssumption DEF Wipes, Overlaid, Blank
  <2> QED
    BY <1>2, <2>1, <2>2, <2>3
<1>9. Placed'
  <2> SUFFICES ASSUME NEW x \in Surfaces, last[x] # Out
               PROVE  /\ cells'[last[x]].of = x \/ overdrawn'[x]
                      /\ region[x] # last[x] => overdrawn'[x]
                      /\ adapter = "kitty" => kitty[x]
    BY <1>3 DEF Placed
  <2>1. /\ cells[last[x]].of = x \/ overdrawn[x]
        /\ region[x] # last[x] => overdrawn[x]
        /\ adapter = "kitty" => kitty[x]
    BY <1>0 DEF Placed
  <2>2. last[x] \in Regions
    BY <1>0
  <2>3. CASE UNCHANGED cells
    BY <1>8, <2>1, <2>3
  <2>4. CASE x = s
    <3>1. pending[s] = <<>>
      BY <1>0, <2>4 DEF HeldBack
    <3> QED
      BY <1>2, <2>1, <3>1
  <2>5. CASE x # s
    BY <1>8, <2>1, <2>2, <2>5
  <2> QED
    BY <2>4, <2>5
<1>10. KittyImages'
  <2> SUFFICES ASSUME adapter = "kitty", NEW x \in Surfaces
               PROVE  /\ image'[x] > 0 => kitty[x] \/ pending'[x] # <<>>
                      /\ kitty[x] => frame[x] > 0
                      /\ frame[x] > 0 /\ ~frameDirty[x] => kitty[x] /\ image'[x] = frame[x]
                      /\ \A r \in Regions : cells'[r].of = x => r = region[x]
    BY <1>3 DEF KittyImages
  <2>1. /\ image[x] > 0 => kitty[x] \/ pending[x] # <<>>
        /\ kitty[x] => frame[x] > 0
        /\ frame[x] > 0 /\ ~frameDirty[x] => kitty[x] /\ image[x] = frame[x]
        /\ \A r \in Regions : cells[r].of = x => r = region[x]
    BY <1>0 DEF KittyImages
  <2>2. \A r \in Regions : cells'[r].of = x => r = region[x]
    BY <1>8, <2>1
  <2>3. CASE x # s
    BY <1>5, <1>8, <2>1, <2>2, <2>3
  <2>4. CASE x = s /\ pending[s] = <<>>
    <3>1. <<Delete(s)>> # <<>>
      OBVIOUS
    <3>2. UNCHANGED image
      BY <1>2, <2>4, <3>1
    <3> QED
      BY <1>5, <2>1, <2>2, <2>4, <3>2
  <2>5. CASE x = s /\ pending[s] = <<Delete(s)>>
    <3>1. <<Delete(s)>> # <<>>
      OBVIOUS
    <3>2. image'[s] = 0
      BY <1>0, <1>2, <2>5, <3>1
    <3>3. ~kitty[s] /\ (frame[s] > 0 => frameDirty[s])
      BY <1>0, <2>5, <3>1 DEF HeldBack
    <3> QED
      BY <1>5, <2>1, <2>2, <2>5, <3>2, <3>3
  <2> QED
    BY <1>2, <2>3, <2>4, <2>5
<1>12. ItermImages'
  <2> SUFFICES ASSUME adapter = "iterm2", NEW x \in Surfaces
               PROVE  /\ ~kitty[x] /\ image'[x] = 0
                      /\ \A r \in Regions : cells'[r].of = x =>
                           /\ frame[x] > 0
                           /\ r = last[x] \/ pending'[x] = <<ClearAt(x, r)>>
                           /\ r = last[x] /\ ~frameDirty[x] => cells'[r].version = frame[x]
    BY <1>3 DEF ItermImages, ClearAt
  <2>1. /\ ~kitty[x] /\ image[x] = 0
        /\ \A r \in Regions : cells[r].of = x =>
             /\ frame[x] > 0
             /\ r = last[x] \/ pending[x] = <<ClearAt(x, r)>>
             /\ r = last[x] /\ ~frameDirty[x] => cells[r].version = frame[x]
    BY <1>0 DEF ItermImages
  <2>2. image'[x] = 0
    BY <1>2, <2>1
  <2>3. CASE x # s
    BY <1>5, <1>8, <2>1, <2>2, <2>3
  <2>4. CASE x = s
    <3>1. \A r : <<ClearAt(s, r)>> # <<>>
      OBVIOUS
    <3> SUFFICES ASSUME NEW r \in Regions, cells'[r].of = s PROVE r = last[s]
      BY <1>8, <2>1, <2>2, <2>4
    <3>2. CASE pending[s] = <<>>
      BY <1>8, <2>1, <2>4, <3>1, <3>2
    <3>3. ASSUME NEW q \in Regions, pending[s] = <<ClearAt(s, q)>>, Wipes(s, q), r # last[s]
          PROVE  FALSE
      <4>1. pending[s] = <<ClearAt(s, r)>>
        BY <1>8, <2>1, <2>4, <3>3
      <4>2. ClearAt(s, q) = ClearAt(s, r)
        BY <3>3, <4>1
      <4>3. q = r
        BY <4>2 DEF ClearAt
      <4>4. cells'[r] = Blank
        BY <1>0, <3>3, <4>3 DEF Wipes
      <4> QED
        BY <4>4, MediaSurfacesAssumption DEF Blank
    <3> QED
      BY <1>2, <3>2, <3>3
  <2> QED
    BY <2>3, <2>4
<1>11. QuietIsPainted'
  BY <1>0, <1>1, <1>3, <1>5 DEF QuietIsPainted, Quiet, Current, ShownOnly
<1> QED
  BY <1>4, <1>6, <1>7, <1>9, <1>10, <1>11, <1>12 DEF SurfacesIInv

LEMMA SurfacesKeep == SurfacesIInv /\ [SurfacesNext]_surfacesVars => SurfacesIInv'
<1> SUFFICES ASSUME SurfacesIInv, [SurfacesNext]_surfacesVars PROVE SurfacesIInv'
  OBVIOUS
<1>1. ASSUME NEW s \in Surfaces, SetFrame(s) PROVE SurfacesIInv'
  BY <1>1, SetFrameKeeps
<1>2. ASSUME NEW s \in Surfaces, Move(s, TRUE) \/ Move(s, FALSE) PROVE SurfacesIInv'
  BY <1>2, MoveKeeps
<1>3. ASSUME NEW s \in Surfaces, HideSurface(s) \/ DestroySelf(s) PROVE SurfacesIInv'
  BY <1>3, HideKeeps
<1>4. ASSUME NEW s \in Surfaces, ShowSurface(s) PROVE SurfacesIInv'
  BY <1>4, ShowKeeps
<1>5. ASSUME NEW s \in Surfaces, Flush(s) PROVE SurfacesIInv'
  BY <1>5, FlushKeeps
<1>6. ASSUME NEW s \in Surfaces, Drain(s) PROVE SurfacesIInv'
  BY <1>6, DrainKeeps
<1>7. CASE UNCHANGED surfacesVars
  <2>1. SurfacesTyped'
    BY <1>7 DEF surfacesVars, SurfacesIInv, SurfacesTyped, PlaceTypes, FrameTypes,
       StreamTypes, TerminalTypes
  <2>2. ShownOnly' /\ Apart' /\ Placed' /\ KittyImages' /\ ItermImages'
    BY <1>7 DEF surfacesVars, SurfacesIInv, ShownOnly, Apart, Placed, KittyImages,
       ItermImages, ClearAt
  <2>3. HeldBack'
    BY <1>7 DEF surfacesVars, SurfacesIInv, HeldBack, ClearAt, Delete
  <2>4. QuietIsPainted'
    BY <1>7 DEF surfacesVars, SurfacesIInv, QuietIsPainted, Quiet, Current
  <2> QED
    BY <2>1, <2>2, <2>3, <2>4 DEF SurfacesIInv
<1> QED
  BY <1>1, <1>2, <1>3, <1>4, <1>5, <1>6, <1>7 DEF SurfacesNext

THEOREM SurfacesInductive == SurfacesSpec => []SurfacesIInv
<1> QED
  BY SurfacesStart, SurfacesKeep, PTL DEF SurfacesSpec

\* The newest frame of a surface is on the terminal once the surface has settled,
\* whatever a full stream held back (flushExternal(), handleDrain()).
THEOREM NewestFrameGetsThrough == SurfacesSpec => []SurfacesConsistent
<1>1. SurfacesIInv => SurfacesConsistent
  <2> SUFFICES ASSUME SurfacesIInv PROVE SurfacesConsistent
    OBVIOUS
  <2>1. SurfacesTypeOK
    BY DEF SurfacesIInv, SurfacesTyped, PlaceTypes, FrameTypes, StreamTypes, TerminalTypes,
       SurfacesTypeOK, Spots
  <2>2. NewestIsShown
    <3> SUFFICES ASSUME NEW s \in Surfaces, Quiet(s), displayed[s], region[s] # Out, frame[s] > 0
                 PROVE  region[s] \in SeenAt(s) \/ overdrawn[s]
      BY DEF NewestIsShown
    <3>1. Current(s) /\ region[s] \in Regions
      BY DEF SurfacesIInv, QuietIsPainted, SurfacesTyped, PlaceTypes, FrameTypes
    <3>2. cells[region[s]].of = s \/ overdrawn[s]
      BY <3>1 DEF SurfacesIInv, Placed, Current
    <3>3. adapter = "kitty" => image[s] > 0
      BY <3>1 DEF SurfacesIInv, KittyImages, Current
    <3> QED
      BY <3>1, <3>2, <3>3 DEF SeenAt
  <2> QED
    BY <2>1, <2>2 DEF SurfacesConsistent
<1> QED
  BY <1>1, SurfacesInductive, PTL

\* The image of a settled surface is nowhere but where the layout has the surface, and in
\* its newest version; a hidden or destroyed surface leaves nothing behind
\* (clearExternalPlacement(), destroySelf()).
THEOREM NothingStaleStays == SurfacesSpec => []NothingStaleShown
<1>1. SurfacesIInv => NothingStaleShown
  <2> SUFFICES ASSUME SurfacesIInv, NEW s \in Surfaces, Quiet(s)
               PROVE  /\ \A r \in SeenAt(s) :
                           displayed[s] /\ r = region[s] /\ SeenVersion(s, r) = frame[s]
                      /\ disposed[s] => image[s] = 0
    BY DEF NothingStaleShown
  <2>0. /\ adapter \in {"kitty", "iterm2"} /\ frame[s] \in Nat /\ image[s] \in Nat
        /\ SurfacesTyped /\ ShownOnly /\ HeldBack /\ KittyImages /\ ItermImages
        /\ QuietIsPainted
    BY MediaSurfacesAssumption
       DEF SurfacesIInv, SurfacesTyped, PlaceTypes, FrameTypes, TerminalTypes
  <2>1. /\ pending[s] = <<>> /\ (disposed[s] => ~displayed[s])
        /\ ~displayed[s] => ~kitty[s] /\ last[s] = Out
    BY <2>0 DEF HeldBack, Quiet, ShownOnly
  <2>2. displayed[s] => IF region[s] = Out THEN last[s] = Out /\ ~kitty[s]
                        ELSE frame[s] = 0 \/ Current(s)
    BY <2>0 DEF QuietIsPainted
  <2>3. CASE adapter = "kitty"
    BY <2>0, <2>1, <2>2, <2>3 DEF KittyImages, SeenAt, SeenVersion, Current
  <2>4. CASE adapter = "iterm2"
    <3>1. ASSUME NEW r \in SeenAt(s)
          PROVE  displayed[s] /\ r = region[s] /\ SeenVersion(s, r) = frame[s]
      <4>1. r \in Regions /\ cells[r].of = s
        BY <3>1 DEF SeenAt
      <4>2. /\ frame[s] > 0
            /\ r = last[s] \/ pending[s] = <<ClearAt(s, r)>>
            /\ r = last[s] /\ ~frameDirty[s] => cells[r].version = frame[s]
        BY <2>0, <2>4, <4>1 DEF ItermImages
      <4>3. <<ClearAt(s, r)>> # <<>> /\ r # Out
        BY <4>1, MediaSurfacesAssumption
      <4>4. r = last[s] /\ displayed[s]
        BY <2>1, <4>2, <4>3
      <4> QED
        BY <2>0, <2>2, <2>4, <4>2, <4>3, <4>4 DEF Current, SeenVersion
    <3>2. image[s] = 0
      BY <2>0, <2>4 DEF ItermImages
    <3> QED
      BY <3>1, <3>2
  <2> QED
    BY <2>0, <2>3, <2>4
<1> QED
  BY <1>1, SurfacesInductive, PTL
=============================================================================
