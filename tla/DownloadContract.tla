-------------------------- MODULE DownloadContract --------------------------
(***************************************************************************)
(* What a caller of the download queue may rely on, without slots,         *)
(* microtasks, history or clocks: a download waits in line, is started in  *)
(* its turn while fewer than Capacity run, and its handle is settled once; *)
(* a handle whose cancellation was accepted is never resolved.             *)
(***************************************************************************)
EXTENDS Naturals, FiniteSets, Sequences

CONSTANTS Downloads, Capacity

VARIABLES
  line,       \* the downloads that wait, in the order they were accepted
  running,    \* the downloads being transferred
  condemned,  \* running or over, and the caller was told it is cancelled
  resolved,   \* handles settled with a result
  rejected    \* handles settled with an error

vars == <<line, running, condemned, resolved, rejected>>

Waiting == {line[i] : i \in 1..Len(line)}
Known   == Waiting \cup running \cup resolved \cup rejected

Init ==
  /\ line = <<>>
  /\ running = {}
  /\ condemned = {}
  /\ resolved = {}
  /\ rejected = {}

Accept(d) ==
  /\ d \notin Known
  /\ line' = Append(line, d)
  /\ UNCHANGED <<running, condemned, resolved, rejected>>

\* The first n in line start together.
Start(n) ==
  /\ running' = running \cup {line[i] : i \in 1..n}
  /\ Cardinality(running') <= Capacity
  /\ line' = SubSeq(line, n + 1, Len(line))
  /\ UNCHANGED <<condemned, resolved, rejected>>

\* A cancelled download leaves the line; the others keep their places.
Withdraw(n) ==
  /\ line' = SubSeq(line, 1, n - 1) \o SubSeq(line, n + 1, Len(line))
  /\ rejected' = rejected \cup {line[n]}
  /\ UNCHANGED <<running, condemned, resolved>>

Condemn(d) ==
  /\ d \in running
  /\ condemned' = condemned \cup {d}
  /\ UNCHANGED <<line, running, resolved, rejected>>

Succeed(d) ==
  /\ d \in running \ condemned
  /\ running' = running \ {d}
  /\ resolved' = resolved \cup {d}
  /\ UNCHANGED <<line, condemned, rejected>>

Fail(d) ==
  /\ d \in running
  /\ running' = running \ {d}
  /\ rejected' = rejected \cup {d}
  /\ UNCHANGED <<line, condemned, resolved>>

Next ==
  \/ \E d \in Downloads : Accept(d) \/ Condemn(d) \/ Succeed(d) \/ Fail(d)
  \/ \E n \in 1..Len(line) : Start(n) \/ Withdraw(n)

Spec == Init /\ [][Next]_vars
=============================================================================
