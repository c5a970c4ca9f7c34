--------------------------- MODULE HostConnection ---------------------------
(***************************************************************************)
(* Authentication of SSH hosts: HostConnectionCoordinator                  *)
(* (src/src/ssh/connection-coordinator.ts), the resolution cache it calls  *)
(* (src/src/ssh/client.ts) and the one authentication panel of the         *)
(* application that listens to it (src/src/ui/workspace-app.ts).           *)
(*                                                                         *)
(* connect() is suspended at four awaits: ssh -G, ssh -O check, the exit   *)
(* of the ssh PTY, and the probes that wait for the master.  Each returns  *)
(* in an action of its own, between which users and panes act.  Microtasks *)
(* run before any of them: a reconnect() whose attempt has ended resumes   *)
(* first (Quiet).                                                          *)
(***************************************************************************)
EXTENDS Integers, FiniteSets

CONSTANTS
  Hosts,        \* host ids
  MaxAttempts,  \* bound on the connection attempts, over all hosts
  MaxWaiting,   \* bound on the retries that wait for one attempt
  None

ASSUME BoundsAssumption == MaxAttempts \in Nat /\ MaxWaiting \in Nat
ASSUME NoneAssumption == None \notin Hosts /\ None \notin Nat

Attempts == 1..MaxAttempts

VARIABLES
  known,        \* the catalog and the SSH client have the host
  resolved,     \* SshClient.hosts has the answer of ssh -G
  master,       \* the host's ControlMaster is up
  status,       \* this.statuses
  attempt,      \* this.attempts
  host,         \* host of an attempt, None while it is not made
  at,           \* the await connect() is suspended at
  wasConnected, \* the local of connect(), while it runs
  cancelled,    \* attempt.cancelled, and its signal, while connect() runs
  pty,          \* the ssh PTY of the attempt; "dying" once it is killed
  waiting,      \* reconnect() calls that wait for the attempt to end
  panel,        \* authentication panel: its host, PTY and error message
  heard         \* flips with every "connected" event that listeners get

vars == <<known, resolved, master, status, attempt, host, at, wasConnected,
          cancelled, pty, waiting, panel, heard>>

world == <<known, resolved, master>>

Closed == [host |-> None, shows |-> None, error |-> None]

Init ==
  /\ known = [h \in Hosts |-> TRUE]
  /\ resolved = [h \in Hosts |-> FALSE]
  /\ master \in [Hosts -> BOOLEAN]
  /\ status = [h \in Hosts |-> "idle"]
  /\ attempt = [h \in Hosts |-> None]
  /\ host = [a \in Attempts |-> None]
  /\ at = [a \in Attempts |-> "start"]
  /\ wasConnected = [a \in Attempts |-> FALSE]
  /\ cancelled = [a \in Attempts |-> FALSE]
  /\ pty = [a \in Attempts |-> "none"]
  /\ waiting = [a \in Attempts |-> 0]
  /\ panel = Closed
  /\ heard = [h \in Hosts |-> FALSE]

\* No reconnect() is ready to resume.
Quiet == \A a \in Attempts : at[a] = "over" => waiting[a] = 0

Fresh(a) == host[a] = None /\ \A b \in Attempts : host[b] = None => a <= b

\* The bound: an attempt is left for every retry that waits, and one more.
AttemptsLeft ==
  Cardinality({a \in Attempts : host[a] = None})
    > Cardinality({a \in Attempts : waiting[a] > 0})

-----------------------------------------------------------------------------
(* The panel, as the listener of "change" events drives it.                *)

Terminate(a) == IF a # None /\ pty[a] = "running" THEN [pty EXCEPT ![a] = "dying"] ELSE pty

\* The panel: a message, the terminal of its PTY, Retry and Cancel.
Prompt(h, a) == [host |-> h, shows |-> a, error |-> None]

\* PtyBackend.spawn().
Spawned(ptys, a) == [ptys EXCEPT ![a] = "running"]

\* showAuthentication: a panel that is open is destroyed, and its PTY with it.
ShowAuthentication(h, a) ==
  /\ panel' = Prompt(h, a)
  /\ pty' = Spawned(Terminate(panel.shows), a)

\* closeAuthentication: only the panel of this host.
CloseAuthentication(h) ==
  \/ panel.host = h /\ panel' = Closed /\ pty' = Terminate(panel.shows)
  \/ panel.host # h /\ UNCHANGED <<panel, pty>>

SetError(h) == panel' = IF panel = Closed THEN Closed ELSE [panel EXCEPT !.error = h]

-----------------------------------------------------------------------------
(* How an attempt ends.                                                    *)

Settle(a) ==
  /\ at' = [at EXCEPT ![a] = "over"]
  /\ cancelled' = [cancelled EXCEPT ![a] = FALSE]
  /\ wasConnected' = [wasConnected EXCEPT ![a] = FALSE]
  /\ attempt' = [attempt EXCEPT ![host[a]] = None]

\* The catch block.  transition() throws for a host the catalog has lost, and
\* then no listener is called.
Fail(a) ==
  /\ Settle(a)
  /\ status' = [status EXCEPT ![host[a]] = "error"]
  /\ IF known[host[a]] THEN SetError(host[a]) ELSE UNCHANGED panel
  /\ UNCHANGED heard

\* transition(hostId, "connected").
Succeed(a) ==
  /\ known[host[a]]
  /\ Settle(a)
  /\ status' = [status EXCEPT ![host[a]] = "connected"]
  /\ heard' = [heard EXCEPT ![host[a]] = ~@]
  /\ CloseAuthentication(host[a])

-----------------------------------------------------------------------------
(* Callers.                                                                *)

\* connect(), up to its first await, of a host with no attempt.
Connect(h) ==
  \E a \in Attempts :
    /\ Fresh(a)
    /\ host' = [host EXCEPT ![a] = h]
    /\ \/ /\ known[h] \/ status[h] = "connected"
          /\ attempt' = [attempt EXCEPT ![h] = a]
          /\ at' = [at EXCEPT ![a] = "resolve"]
       \/ /\ ~known[h] /\ status[h] # "connected"
          /\ at' = [at EXCEPT ![a] = "over"]
          /\ UNCHANGED attempt

\* ensureConnected(): one attempt per host, which later callers share.
EnsureConnected(h) ==
  /\ Quiet /\ AttemptsLeft
  /\ attempt[h] = None
  /\ Connect(h)
  /\ wasConnected' = [a \in Attempts |->
        IF host'[a] # host[a] THEN status[h] = "connected" ELSE wasConnected[a]]
  /\ status' = [status EXCEPT ![h] = IF @ = "connected" THEN @ ELSE "resolving"]
  /\ UNCHANGED <<world, cancelled, pty, waiting, panel, heard>>

\* transition(hostId, "reconnecting") and ensureConnected(), in reconnect().
Restart(h) ==
  \/ /\ ~known[h]
     /\ status' = [status EXCEPT ![h] = "reconnecting"]
     /\ UNCHANGED <<attempt, host, at>>
  \/ /\ known[h] /\ attempt[h] = None
     /\ status' = [status EXCEPT ![h] = "resolving"]
     /\ Connect(h)
  \/ /\ known[h] /\ attempt[h] # None
     /\ status' = [status EXCEPT ![h] = "reconnecting"]
     /\ UNCHANGED <<attempt, host, at>>

\* Mutant: the attempt is forgotten before it has ended.
CancelForgets(h) ==
  /\ cancelled' = [a \in Attempts |-> cancelled[a] \/ a = attempt[h]]
  /\ pty' = Terminate(attempt[h])
  /\ attempt' = [attempt EXCEPT ![h] = None]

\* cancel(): the signal, and SIGTERM to the PTY if there is one yet.
CancelAttempt(h) ==
  /\ cancelled' = [a \in Attempts |-> cancelled[a] \/ a = attempt[h]]
  /\ pty' = Terminate(attempt[h])
  /\ UNCHANGED attempt

\* The Cancel button of the panel.
Cancel ==
  /\ Quiet
  /\ panel # Closed
  /\ CancelAttempt(panel.host)
  /\ panel' = Closed
  /\ UNCHANGED <<world, status, host, at, wasConnected, waiting, heard>>

\* The Retry button: reconnect() waits for the attempt it cancelled.
Retry ==
  /\ Quiet /\ AttemptsLeft
  /\ panel # Closed
  /\ LET h == panel.host IN
     \/ /\ attempt[h] # None
        /\ waiting[attempt[h]] < MaxWaiting
        /\ CancelAttempt(h)
        /\ waiting' = [waiting EXCEPT ![attempt[h]] = @ + 1]
        /\ UNCHANGED <<status, host, at>>
     \/ /\ attempt[h] = None
        /\ Restart(h)
        /\ UNCHANGED <<cancelled, pty, waiting>>
  /\ UNCHANGED <<world, wasConnected, panel, heard>>

\* reconnect() resumes; a second one shares the attempt the first one made.
RetryResumes(a) ==
  /\ at[a] = "over"
  /\ waiting[a] > 0
  /\ waiting' = [waiting EXCEPT ![a] = @ - 1]
  /\ Restart(host[a])
  /\ UNCHANGED <<world, wasConnected, cancelled, pty, panel, heard>>

-----------------------------------------------------------------------------
(* connect().                                                              *)

\* runProcess(): a command whose signal was raised never succeeds, and any may
\* fail to start, time out, or exit with an error.
RunProcess(aborted) == {"failed"} \cup (IF aborted THEN {} ELSE {"done"})

\* ssh -G, and its answer parsed.
Resolution(a) == RunProcess(cancelled[a])

\* resolveHost() returns.  ssh -G obeys the signal; a cached answer does not.
Resolve(a) ==
  /\ Quiet
  /\ at[a] = "resolve"
  /\ \/ /\ resolved[host[a]] \/ "done" \in Resolution(a)
        /\ resolved' = [resolved EXCEPT ![host[a]] = TRUE]
        /\ at' = [at EXCEPT ![a] = "check"]
        /\ UNCHANGED <<status, attempt, wasConnected, cancelled, panel, heard>>
     \/ ~resolved[host[a]] /\ Fail(a) /\ UNCHANGED resolved
  /\ UNCHANGED <<known, master, host, pty, waiting>>

\* Mutant: a healthy master is announced on every check.
HealthyAnnounced(a) == Succeed(a)

\* The master is healthy: silence when it was known to be.
Healthy(a) ==
  \/ wasConnected[a] /\ Settle(a) /\ UNCHANGED <<status, panel, pty, heard>>
  \/ ~wasConnected[a] /\ Succeed(a)
  \/ ~wasConnected[a] /\ ~known[host[a]] /\ Fail(a) /\ UNCHANGED pty

\* The master is missing: spawnMaster() and the prompt.  The signal is not
\* looked at again.
Authenticate(a) ==
  /\ known[host[a]]
  /\ at' = [at EXCEPT ![a] = "exit"]
  /\ status' = [status EXCEPT ![host[a]] = "authenticating"]
  /\ ShowAuthentication(host[a], a)
  /\ UNCHANGED <<attempt, wasConnected, cancelled, heard>>

\* checkMaster() returns, or throws.
Check(a) ==
  /\ Quiet
  /\ at[a] = "check"
  /\ \/ master[host[a]] /\ Healthy(a)
     \/ ~master[host[a]] /\ Authenticate(a)
     \/ Fail(a) /\ UNCHANGED pty
  /\ UNCHANGED <<world, host, waiting>>

\* The PTY exits, on its own or because it was killed.  A kill may come too
\* late to change the exit code.
PtyExits(a) ==
  /\ Quiet
  /\ at[a] = "exit"
  /\ pty' = [pty EXCEPT ![a] = "none"]
  /\ \/ /\ ~cancelled[a]
        /\ at' = [at EXCEPT ![a] = "ready"]
        /\ UNCHANGED <<status, attempt, wasConnected, cancelled, panel, heard>>
     \/ Fail(a)
  /\ UNCHANGED <<world, host, waiting>>

\* Mutant: the wait for the master has no deadline.
MasterReadyAtLast(a) ==
  /\ Quiet
  /\ at[a] = "ready"
  /\ \/ master[host[a]] /\ Succeed(a)
     \/ cancelled[a] /\ Fail(a) /\ UNCHANGED pty
  /\ UNCHANGED <<world, host, waiting>>

\* waitForMasterReady(): a probe finds the master, or the deadline passes, or
\* the signal is raised, or a probe throws.
MasterReady(a) ==
  /\ Quiet
  /\ at[a] = "ready"
  /\ \/ master[host[a]] /\ Succeed(a)
     \/ Fail(a) /\ UNCHANGED pty
  /\ UNCHANGED <<world, host, waiting>>

-----------------------------------------------------------------------------
(* The world.                                                              *)

MasterChanges(h) ==
  /\ Quiet
  /\ master' = [master EXCEPT ![h] = ~@]
  /\ UNCHANGED <<known, resolved, status, attempt, host, at, wasConnected,
                 cancelled, pty, waiting, panel, heard>>

\* A refresh of the catalog finds the host gone, and syncHosts() drops it.
Forget(h) ==
  /\ Quiet
  /\ known[h]
  /\ known' = [known EXCEPT ![h] = FALSE]
  /\ resolved' = [resolved EXCEPT ![h] = FALSE]
  /\ UNCHANGED <<master, status, attempt, host, at, wasConnected, cancelled,
                 pty, waiting, panel, heard>>

Next ==
  \/ Cancel
  \/ Retry
  \/ \E h \in Hosts : EnsureConnected(h) \/ MasterChanges(h) \/ Forget(h)
  \/ \E a \in Attempts :
       Resolve(a) \/ Check(a) \/ PtyExits(a) \/ MasterReady(a) \/ RetryResumes(a)

\* Every ssh -G, ssh -O check and wait for the master has a timeout, a killed
\* PTY exits, and microtasks run.  A prompt may wait for ever.
Fairness ==
  \A a \in Attempts :
    /\ WF_vars(Resolve(a))
    /\ WF_vars(Check(a))
    /\ WF_vars(MasterReady(a))
    /\ WF_vars(RetryResumes(a))
    /\ WF_vars(pty[a] = "dying" /\ PtyExits(a))

Spec == Init /\ [][Next]_vars

FairSpec == Spec /\ Fairness

-----------------------------------------------------------------------------
(* Properties.                                                             *)

\* The types of the model's state.
TypeOK ==
  /\ known \in [Hosts -> BOOLEAN]
  /\ resolved \in [Hosts -> BOOLEAN]
  /\ master \in [Hosts -> BOOLEAN]
  /\ status \in [Hosts -> {"idle", "resolving", "authenticating", "connected",
                           "reconnecting", "error"}]
  /\ attempt \in [Hosts -> Attempts \cup {None}]
  /\ host \in [Attempts -> Hosts \cup {None}]
  /\ at \in [Attempts -> {"start", "resolve", "check", "exit", "ready", "over"}]
  /\ wasConnected \in [Attempts -> BOOLEAN]
  /\ cancelled \in [Attempts -> BOOLEAN]
  /\ pty \in [Attempts -> {"none", "running", "dying"}]
  /\ waiting \in [Attempts -> 0..MaxWaiting]
  /\ panel \in [host : Hosts \cup {None}, shows : Attempts \cup {None},
                error : Hosts \cup {None}]
  /\ heard \in [Hosts -> BOOLEAN]

\* However calls, retries and cancellations interleave, a host has one ssh PTY
\* at a time (docs/troubleshooting.md:109-111).
OneAuthentication ==
  \A a, b \in Attempts :
    pty[a] # "none" /\ pty[b] # "none" /\ host[a] = host[b] => a = b

\* No ssh waits at a prompt the user cannot see.
NoHiddenPrompt == \A a \in Attempts : pty[a] = "running" => panel.shows = a

\* A status that promises progress has an attempt behind it.
NoStrandedStatus ==
  \A h \in Hosts : Quiet /\ known[h] /\ attempt[h] = None =>
    status[h] \in {"idle", "connected", "error"}

\* A panel whose attempt is over says so, and offers Retry or Cancel.
NoDeadPanel ==
  \A h \in Hosts :
    Quiet /\ known[h] /\ panel.host = h /\ attempt[h] = None => panel.error # None

\* The attempts, the PTYs, the statuses and the panel tell one story: one prompt
\* per host, each in sight, and no status or panel of an attempt that is over.
Consistent ==
  /\ TypeOK
  /\ OneAuthentication
  /\ NoHiddenPrompt
  /\ NoStrandedStatus
  /\ NoDeadPanel

\* A master that stays healthy is never announced twice: a connected event
\* refreshes the Files panes, which call ensureConnected() again
\* (docs/architecture.md:151-157).
SilentReuse ==
  [][\A h \in Hosts : heard'[h] # heard[h] => status[h] # "connected"]_vars

\* Every request for a connection is answered, or a prompt waits for the user.
RequestsAnswered ==
  \A h \in Hosts : (attempt[h] # None) ~>
    (attempt[h] = None \/ pty[attempt[h]] = "running")

\* docs/troubleshooting.md:111-112 says "Cancel terminates the owned SSH PTY
\* and closes the panel": no cancelled attempt prompts the user.
\* The code does not keep this: README.md, "Known divergences".
CancelEndsPrompt == \A a \in Attempts : cancelled[a] => pty[a] # "running"

\* docs/architecture.md:338 says "A bad SSH alias affects only that Host": the
\* panel shows no other host's error.  The code does not keep this either.
PanelShowsOwnError == panel.error \in {None, panel.host}
=============================================================================
