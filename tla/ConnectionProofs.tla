-------------------------- MODULE ConnectionProofs -------------------------
(***************************************************************************)
(* Theorems about HostConnection, for any hosts and any number of attempts *)
(* and retries.                                                            *)
(***************************************************************************)
EXTENDS HostConnection, ReconnectSession, TLAPS

-----------------------------------------------------------------------------
(* The inductive invariant                                                 *)

\* connect() is suspended at one of its awaits.
Suspended == {"resolve", "check", "exit", "ready"}

\* The table of attempts holds the attempts that run, each under its host.
TableIsExact ==
  /\ \A h \in Hosts : attempt[h] # None =>
       host[attempt[h]] = h /\ at[attempt[h]] \in Suspended
  /\ \A a \in Attempts : at[a] \in Suspended =>
       host[a] # None /\ attempt[host[a]] = a

\* An attempt that was not made has left no trace.
UnmadeIsUnused ==
  \A a \in Attempts :
    /\ host[a] = None <=> at[a] = "start"
    /\ host[a] = None => ~wasConnected[a] /\ waiting[a] = 0

\* The ssh PTY of an attempt lives while connect() waits for its exit.
PtyIsAwaited == \A a \in Attempts : pty[a] # "none" => at[a] = "exit"

\* The panel is that of the attempt whose prompt it shows.
PanelOfAttempt ==
  /\ panel.host = None => panel = Closed
  /\ panel.host # None => panel.shows # None /\ panel.host = host[panel.shows]

\* The local of connect() is true to the status until the master is checked: no
\* retry of an earlier attempt is left that could change the status meanwhile.
LocalIsTrue ==
  \A a \in Attempts : at[a] \in Suspended =>
    /\ status[host[a]] = "connected" <=> wasConnected[a] /\ at[a] \in {"resolve", "check"}
    /\ wasConnected[a] => \A b \in Attempts :
         at[b] = "over" /\ host[b] = host[a] => waiting[b] = 0

\* A host that is connected has no panel.
ConnectedHasNoPanel == \A h \in Hosts : status[h] = "connected" => panel.host # h

\* NoStrandedStatus and NoDeadPanel, at every moment.
EndedIsSettled ==
  \A h \in Hosts : known[h] /\ attempt[h] = None =>
    /\ status[h] \in {"idle", "connected", "error"}
    /\ panel.host = h => panel.error # None

IInv ==
  /\ TypeOK
  /\ TableIsExact
  /\ UnmadeIsUnused
  /\ PtyIsAwaited
  /\ PanelOfAttempt
  /\ NoHiddenPrompt
  /\ LocalIsTrue
  /\ ConnectedHasNoPanel
  /\ EndedIsSettled

\* The attempt fails, its PTY being gone.
LEMMA FailKeeps ==
  ASSUME IInv, NEW a \in Attempts, at[a] \in Suspended, Fail(a),
         known' = known, host' = host, waiting' = waiting,
         resolved' \in [Hosts -> BOOLEAN], master' = master,
         pty' \in [Attempts -> {"none", "running", "dying"}], pty'[a] = "none",
         \A b \in Attempts : b # a => pty'[b] = pty[b]
  PROVE  IInv'
<1> USE NoneAssumption, BoundsAssumption DEF IInv, Attempts
<1>1. TypeOK'
  <2>1. host[a] \in Hosts
    BY DEF TypeOK, TableIsExact
  <2>2. panel' \in [host : Hosts \cup {None}, shows : Attempts \cup {None},
                    error : Hosts \cup {None}]
    BY <2>1 DEF TypeOK, Fail, SetError
  <2>3. UNCHANGED heard /\ status' = [status EXCEPT ![host[a]] = "error"] /\ Settle(a)
    BY DEF Fail
  <2> QED
    BY <2>1, <2>2, <2>3 DEF TypeOK, Settle
<1>2. TableIsExact'
  BY DEF TableIsExact, Fail, Settle, TypeOK, Suspended
<1>3. UnmadeIsUnused'
  BY DEF UnmadeIsUnused, Fail, Settle, TableIsExact
<1>4. PtyIsAwaited'
  BY DEF PtyIsAwaited, Fail, Settle
<1>5. PanelOfAttempt'
  <2>1. \/ UNCHANGED panel
        \/ panel # Closed /\ panel' = [panel EXCEPT !.error = host[a]]
    BY DEF Fail, SetError
  <2>2. panel'.host = panel.host /\ panel'.shows = panel.shows
    BY <2>1 DEF TypeOK
  <2> QED
    BY <2>1, <2>2 DEF PanelOfAttempt
<1>6. NoHiddenPrompt'
  BY DEF NoHiddenPrompt, Fail, SetError, TypeOK
<1>7. LocalIsTrue'
  BY DEF LocalIsTrue, Fail, Settle, TypeOK, TableIsExact
<1>8. ConnectedHasNoPanel'
  BY DEF ConnectedHasNoPanel, Fail, Settle, SetError, TypeOK, TableIsExact,
         PanelOfAttempt, EndedIsSettled, Closed
<1>9. EndedIsSettled'
  BY DEF EndedIsSettled, Fail, Settle, SetError, TypeOK, TableIsExact, Closed
<1> QED
  BY <1>1, <1>2, <1>3, <1>4, <1>5, <1>6, <1>7, <1>8, <1>9

\* The attempt succeeds.
LEMMA SucceedKeeps ==
  ASSUME IInv, NEW a \in Attempts, at[a] \in Suspended, at[a] # "exit", Succeed(a),
         UNCHANGED <<world, host, waiting>>
  PROVE  IInv'
<1> USE NoneAssumption, BoundsAssumption DEF IInv, Attempts
<1>0. /\ panel' \in {panel, Closed}
      /\ pty' \in [Attempts -> {"none", "running", "dying"}]
      /\ \A b \in Attempts : pty'[b] = "running" => pty[b] = "running" /\ panel' = panel
  <2>1. CASE panel.host = host[a] /\ panel' = Closed /\ pty' = Terminate(panel.shows)
    BY <2>1 DEF Terminate, TypeOK, NoHiddenPrompt
  <2>2. CASE UNCHANGED <<panel, pty>>
    BY <2>2 DEF TypeOK
  <2> QED
    BY <2>1, <2>2 DEF Succeed, CloseAuthentication
<1>1. TypeOK'
  <2>1. /\ host[a] \in Hosts
        /\ Closed \in [host : Hosts \cup {None}, shows : Attempts \cup {None},
                       error : Hosts \cup {None}]
    BY DEF TableIsExact, TypeOK, Closed
  <2> QED
    BY <1>0, <2>1 DEF TypeOK, Succeed, Settle, world
<1>2. TableIsExact'
  BY DEF TableIsExact, Succeed, Settle, TypeOK, Suspended
<1>3. UnmadeIsUnused'
  BY DEF UnmadeIsUnused, Succeed, Settle, TableIsExact
<1>4. PtyIsAwaited'
  BY DEF PtyIsAwaited, Succeed, Settle, CloseAuthentication, Terminate, TypeOK
<1>5. PanelOfAttempt'
  BY DEF PanelOfAttempt, Succeed, CloseAuthentication, Closed
<1>6. NoHiddenPrompt'
  BY <1>0 DEF NoHiddenPrompt
<1>7. LocalIsTrue'
  BY DEF LocalIsTrue, Succeed, Settle, TypeOK, TableIsExact, Suspended
<1>8. ConnectedHasNoPanel'
  BY DEF ConnectedHasNoPanel, Succeed, CloseAuthentication, Closed
<1>9. EndedIsSettled'
  BY DEF EndedIsSettled, Succeed, Settle, CloseAuthentication, world, TypeOK, Closed
<1> QED
  BY <1>1, <1>2, <1>3, <1>4, <1>5, <1>6, <1>7, <1>8, <1>9

LEMMA KeepsEnsureConnected ==
  ASSUME IInv, NEW h \in Hosts, EnsureConnected(h)
       
  PROVE  IInv'
<1> USE NoneAssumption, BoundsAssumption DEF IInv, Attempts
<1>a. PICK a \in Attempts : /\ Fresh(a) /\ host' = [host EXCEPT ![a] = h]
                            /\ \/ /\ known[h] \/ status[h] = "connected"
                                  /\ attempt' = [attempt EXCEPT ![h] = a]
                                  /\ at' = [at EXCEPT ![a] = "resolve"]
                               \/ /\ ~known[h] /\ status[h] # "connected"
                                  /\ at' = [at EXCEPT ![a] = "over"]
                                  /\ UNCHANGED attempt
  BY DEF EnsureConnected, Connect
<1>b. status' = [status EXCEPT ![h] = IF @ = "connected" THEN @ ELSE "resolving"]
  BY DEF EnsureConnected
<1>c. wasConnected' = [wasConnected EXCEPT ![a] = (status[h] = "connected")]
  <2>1. \A b \in Attempts : host'[b] # host[b] <=> b = a
    BY <1>a DEF Fresh, TypeOK
  <2>2. wasConnected' = [b \in Attempts |->
           IF host'[b] # host[b] THEN status[h] = "connected" ELSE wasConnected[b]]
    BY DEF EnsureConnected
  <2> QED
    BY <2>1, <2>2 DEF TypeOK
<1>d. UNCHANGED <<world, cancelled, pty, waiting, panel, heard>>
  BY DEF EnsureConnected
<1>1. TypeOK'
  <2>1. \/ status' = [status EXCEPT ![h] = "resolving"]
        \/ status' = status
    BY <1>b DEF TypeOK
  <2>2. status' \in [Hosts -> {"idle", "resolving", "authenticating", "connected",
                               "reconnecting", "error"}]
    BY <2>1 DEF TypeOK
  <2>3. wasConnected' \in [Attempts -> BOOLEAN]
    BY <1>c DEF TypeOK
  <2>4. host' \in [Attempts -> Hosts \cup {None}]
    BY <1>a DEF TypeOK
  <2>5. at' \in [Attempts -> {"start", "resolve", "check", "exit", "ready", "over"}]
    BY <1>a DEF TypeOK
  <2>6. attempt' \in [Hosts -> Attempts \cup {None}]
    BY <1>a DEF TypeOK
  <2> QED
    BY <1>d, <2>2, <2>3, <2>4, <2>5, <2>6 DEF TypeOK, world
<1>2. TableIsExact'
  BY DEF TableIsExact, EnsureConnected, Connect, Fresh, Quiet, world, TypeOK,
         UnmadeIsUnused, PtyIsAwaited, PanelOfAttempt, LocalIsTrue, EndedIsSettled,
         Suspended, Closed
<1>3. UnmadeIsUnused'
  BY DEF UnmadeIsUnused, EnsureConnected, Connect, TypeOK
<1>4. PtyIsAwaited'
  BY DEF PtyIsAwaited, EnsureConnected, Connect, Fresh, TypeOK, TableIsExact,
         Suspended
<1>5. PanelOfAttempt'
  BY DEF PanelOfAttempt, EnsureConnected, Connect, Fresh
<1>6. NoHiddenPrompt'
  BY DEF NoHiddenPrompt, EnsureConnected
<1>7. LocalIsTrue'
  <2>1. at[a] = "start"
    BY <1>a DEF Fresh, UnmadeIsUnused
  <2>2. \A b \in Attempts : at[b] \in Suspended => host[b] # h
    BY DEF TableIsExact, EnsureConnected
  <2>3. ASSUME NEW b \in Attempts, at'[b] \in Suspended, b = a
        PROVE  /\ status'[host'[b]] = "connected"
                    <=> wasConnected'[b] /\ at'[b] \in {"resolve", "check"}
               /\ \A c \in Attempts : at'[c] = "over" => waiting'[c] = 0
    <3>1. /\ host'[b] = h /\ at'[b] = "resolve" /\ (wasConnected'[b] <=> status[h] = "connected")
          /\ at' = [at EXCEPT ![a] = "resolve"]
      BY <1>a, <1>c, <2>3 DEF Suspended, TypeOK
    <3>2. \A c \in Attempts : at'[c] = "over" => waiting[c] = 0
      BY <3>1 DEF EnsureConnected, Quiet, TypeOK
    <3> QED
      BY <1>b, <1>d, <3>1, <3>2
  <2>4. ASSUME NEW b \in Attempts, at'[b] \in Suspended, b # a
        PROVE  /\ status'[host'[b]] = "connected"
                    <=> wasConnected'[b] /\ at'[b] \in {"resolve", "check"}
               /\ wasConnected'[b] => \A c \in Attempts :
                    at'[c] = "over" /\ host'[c] = host'[b] => waiting'[c] = 0
    <3>1. /\ at'[b] = at[b] /\ host'[b] = host[b] /\ wasConnected'[b] = wasConnected[b]
          /\ host[b] # h /\ host[b] \in Hosts
      BY <1>a, <1>c, <2>2, <2>4 DEF TypeOK, TableIsExact
    <3>2. status'[host[b]] = status[host[b]]
      BY <1>b, <3>1 DEF TypeOK
    <3>3. \A c \in Attempts : at'[c] = "over" /\ host'[c] = host[b] =>
            at[c] = "over" /\ host[c] = host[b]
      BY <1>a, <3>1 DEF TypeOK
    <3> QED
      BY <1>d, <2>4, <3>1, <3>2, <3>3 DEF LocalIsTrue
  <2> QED
    BY <2>3, <2>4 DEF LocalIsTrue
<1>8. ConnectedHasNoPanel'
  BY DEF ConnectedHasNoPanel, EnsureConnected
<1>9. EndedIsSettled'
  BY DEF EndedIsSettled, EnsureConnected, Connect, world, TypeOK
<1> QED
  BY <1>1, <1>2, <1>3, <1>4, <1>5, <1>6, <1>7, <1>8, <1>9

\* reconnect() announces itself, and shares an attempt that another one made.
LEMMA AnnouncementKeeps ==
  ASSUME IInv, NEW h \in Hosts, ~known[h] \/ attempt[h] # None,
         status' = [status EXCEPT ![h] = "reconnecting"],
         UNCHANGED <<attempt, host, at>>,
         attempt[h] = None \/ \E b \in Attempts : at[b] = "over" /\ host[b] = h /\ waiting[b] > 0,
         waiting' \in [Attempts -> 0..MaxWaiting], \A b \in Attempts : waiting'[b] <= waiting[b],
         UNCHANGED <<world, wasConnected, cancelled, pty, panel, heard>>
  PROVE  IInv'
<1> USE NoneAssumption, BoundsAssumption DEF IInv, Attempts
<1>1. TypeOK'
  BY DEF TypeOK, world
<1>2. TableIsExact'
  BY DEF TableIsExact
<1>3. UnmadeIsUnused'
  BY DEF UnmadeIsUnused
<1>4. PtyIsAwaited'
  BY DEF PtyIsAwaited
<1>5. PanelOfAttempt'
  BY DEF PanelOfAttempt
<1>6. NoHiddenPrompt'
  BY DEF NoHiddenPrompt
<1>7. LocalIsTrue'
  BY DEF LocalIsTrue, TableIsExact, TypeOK, Suspended
<1>8. ConnectedHasNoPanel'
  BY DEF ConnectedHasNoPanel
<1>9. EndedIsSettled'
  BY DEF EndedIsSettled, world
<1> QED
  BY <1>1, <1>2, <1>3, <1>4, <1>5, <1>6, <1>7, <1>8, <1>9

\* reconnect() makes an attempt of its own.
LEMMA ReconnectionKeeps ==
  ASSUME IInv, NEW h \in Hosts, known[h], attempt[h] = None,
         status' = [status EXCEPT ![h] = "resolving"], Connect(h),
         waiting' \in [Attempts -> 0..MaxWaiting], \A b \in Attempts : waiting'[b] <= waiting[b],
         UNCHANGED <<world, wasConnected, cancelled, pty, panel, heard>>
  PROVE  IInv'
<1> USE NoneAssumption, BoundsAssumption DEF IInv, Attempts
<1>a. PICK a \in Attempts : /\ host[a] = None /\ host' = [host EXCEPT ![a] = h]
                            /\ attempt' = [attempt EXCEPT ![h] = a]
                            /\ at' = [at EXCEPT ![a] = "resolve"]
  BY DEF Connect, Fresh
<1>1. TypeOK'
  BY <1>a DEF TypeOK, world
<1>2. TableIsExact'
  BY <1>a DEF TableIsExact, TypeOK, UnmadeIsUnused, EndedIsSettled, Suspended
<1>3. UnmadeIsUnused'
  BY <1>a DEF UnmadeIsUnused, TypeOK
<1>4. PtyIsAwaited'
  BY <1>a DEF PtyIsAwaited, UnmadeIsUnused
<1>5. PanelOfAttempt'
  BY <1>a DEF PanelOfAttempt
<1>6. NoHiddenPrompt'
  BY DEF NoHiddenPrompt
<1>7. LocalIsTrue'
  BY <1>a
    DEF LocalIsTrue, TypeOK, TableIsExact, UnmadeIsUnused, PtyIsAwaited,
        PanelOfAttempt, NoHiddenPrompt, ConnectedHasNoPanel, EndedIsSettled,
        Suspended, Closed, world
<1>8. ConnectedHasNoPanel'
  BY DEF ConnectedHasNoPanel
<1>9. EndedIsSettled'
  BY <1>a DEF EndedIsSettled, TypeOK, world
<1> QED
  BY <1>1, <1>2, <1>3, <1>4, <1>5, <1>6, <1>7, <1>8, <1>9

\* Either way: a reconnect() that finds no attempt, or resumes after the one it
\* waited for.
LEMMA RestartKeeps ==
  ASSUME IInv, NEW h \in Hosts, Restart(h),
         attempt[h] = None \/ \E b \in Attempts : at[b] = "over" /\ host[b] = h /\ waiting[b] > 0,
         waiting' \in [Attempts -> 0..MaxWaiting], \A b \in Attempts : waiting'[b] <= waiting[b],
         UNCHANGED <<world, wasConnected, cancelled, pty, panel, heard>>
  PROVE  IInv'
<1>1. CASE /\ ~known[h] \/ attempt[h] # None
           /\ status' = [status EXCEPT ![h] = "reconnecting"]
           /\ UNCHANGED <<attempt, host, at>>
  BY <1>1, AnnouncementKeeps
<1>2. CASE /\ known[h] /\ attempt[h] = None
           /\ status' = [status EXCEPT ![h] = "resolving"]
           /\ Connect(h)
  BY <1>2, ReconnectionKeeps
<1> QED
  BY <1>1, <1>2 DEF Restart

LEMMA KeepsCancel ==
  ASSUME IInv, Cancel
  PROVE  IInv'
<1> USE NoneAssumption, BoundsAssumption DEF IInv, Attempts
<1>1. TypeOK'
  BY DEF TypeOK, Cancel, CancelAttempt, Terminate, world, PanelOfAttempt, Closed
<1>2. TableIsExact'
  BY DEF TableIsExact, Cancel, CancelAttempt
<1>3. UnmadeIsUnused'
  BY DEF UnmadeIsUnused, Cancel
<1>4. PtyIsAwaited'
  BY DEF PtyIsAwaited, Cancel, CancelAttempt, Terminate
<1>5. PanelOfAttempt'
  BY DEF PanelOfAttempt, Cancel, Closed
<1>6. NoHiddenPrompt'
  BY DEF NoHiddenPrompt, Cancel, CancelAttempt, Terminate, TypeOK, TableIsExact,
         PtyIsAwaited, PanelOfAttempt, Suspended
<1>7. LocalIsTrue'
  BY DEF LocalIsTrue, Cancel
<1>8. ConnectedHasNoPanel'
  BY DEF ConnectedHasNoPanel, Cancel, Closed
<1>9. EndedIsSettled'
  BY DEF EndedIsSettled, Cancel, CancelAttempt, world, Closed
<1> QED
  BY <1>1, <1>2, <1>3, <1>4, <1>5, <1>6, <1>7, <1>8, <1>9

LEMMA AuthenticateKeeps ==
  ASSUME IInv, NEW a \in Attempts, at[a] = "check", Authenticate(a),
         UNCHANGED <<world, host, waiting>>
  PROVE  IInv'
<1> USE NoneAssumption, BoundsAssumption DEF IInv, Attempts
<1>1. TypeOK'
  BY DEF TypeOK, Authenticate, ShowAuthentication, Prompt, Spawned, Terminate,
         world, TableIsExact, LocalIsTrue, EndedIsSettled, Suspended
<1>2. TableIsExact'
  BY DEF TableIsExact, Authenticate, Suspended
<1>3. UnmadeIsUnused'
  BY DEF UnmadeIsUnused, Authenticate
<1>4. PtyIsAwaited'
  BY DEF PtyIsAwaited, Authenticate, ShowAuthentication, Spawned, Terminate, TypeOK
<1>5. PanelOfAttempt'
  BY DEF PanelOfAttempt, Authenticate, ShowAuthentication, Prompt, UnmadeIsUnused
<1>6. NoHiddenPrompt'
  BY DEF NoHiddenPrompt, Authenticate, ShowAuthentication, Prompt, Spawned,
         Terminate, TypeOK
<1>7. LocalIsTrue'
  BY DEF LocalIsTrue, Authenticate, TypeOK, TableIsExact, Suspended
<1>8. ConnectedHasNoPanel'
  BY DEF ConnectedHasNoPanel, Authenticate, ShowAuthentication, Prompt, TypeOK
<1>9. EndedIsSettled'
  BY DEF EndedIsSettled, Authenticate, ShowAuthentication, Prompt, world,
         TableIsExact, Suspended
<1> QED
  BY <1>1, <1>2, <1>3, <1>4, <1>5, <1>6, <1>7, <1>8, <1>9

LEMMA KeepsMasterChanges ==
  ASSUME IInv, NEW h \in Hosts, MasterChanges(h)
  PROVE  IInv'
<1> USE NoneAssumption, BoundsAssumption DEF IInv, Attempts
<1>1. TypeOK'
  BY DEF TypeOK, MasterChanges
<1>2. TableIsExact'
  BY DEF TableIsExact, MasterChanges
<1>3. UnmadeIsUnused'
  BY DEF UnmadeIsUnused, MasterChanges
<1>4. PtyIsAwaited'
  BY DEF PtyIsAwaited, MasterChanges
<1>5. PanelOfAttempt'
  BY DEF PanelOfAttempt, MasterChanges
<1>6. NoHiddenPrompt'
  BY DEF NoHiddenPrompt, MasterChanges
<1>7. LocalIsTrue'
  BY DEF LocalIsTrue, MasterChanges
<1>8. ConnectedHasNoPanel'
  BY DEF ConnectedHasNoPanel, MasterChanges
<1>9. EndedIsSettled'
  BY DEF EndedIsSettled, MasterChanges
<1> QED
  BY <1>1, <1>2, <1>3, <1>4, <1>5, <1>6, <1>7, <1>8, <1>9

LEMMA KeepsForget ==
  ASSUME IInv, NEW h \in Hosts, Forget(h)
  PROVE  IInv'
<1> USE NoneAssumption, BoundsAssumption DEF IInv, Attempts
<1>1. TypeOK'
  BY DEF TypeOK, Forget
<1>2. TableIsExact'
  BY DEF TableIsExact, Forget
<1>3. UnmadeIsUnused'
  BY DEF UnmadeIsUnused, Forget
<1>4. PtyIsAwaited'
  BY DEF PtyIsAwaited, Forget
<1>5. PanelOfAttempt'
  BY DEF PanelOfAttempt, Forget
<1>6. NoHiddenPrompt'
  BY DEF NoHiddenPrompt, Forget
<1>7. LocalIsTrue'
  BY DEF LocalIsTrue, Forget
<1>8. ConnectedHasNoPanel'
  BY DEF ConnectedHasNoPanel, Forget
<1>9. EndedIsSettled'
  BY DEF EndedIsSettled, Forget
<1> QED
  BY <1>1, <1>2, <1>3, <1>4, <1>5, <1>6, <1>7, <1>8, <1>9

LEMMA KeepsVars ==
  ASSUME IInv, UNCHANGED vars
  PROVE  IInv'
<1> USE NoneAssumption, BoundsAssumption DEF IInv, Attempts
<1>1. TypeOK'
  BY DEF TypeOK, vars
<1>2. TableIsExact'
  BY DEF TableIsExact, vars
<1>3. UnmadeIsUnused'
  BY DEF UnmadeIsUnused, vars
<1>4. PtyIsAwaited'
  BY DEF PtyIsAwaited, vars
<1>5. PanelOfAttempt'
  BY DEF PanelOfAttempt, vars
<1>6. NoHiddenPrompt'
  BY DEF NoHiddenPrompt, vars
<1>7. LocalIsTrue'
  BY DEF LocalIsTrue, vars
<1>8. ConnectedHasNoPanel'
  BY DEF ConnectedHasNoPanel, vars
<1>9. EndedIsSettled'
  BY DEF EndedIsSettled, vars
<1> QED
  BY <1>1, <1>2, <1>3, <1>4, <1>5, <1>6, <1>7, <1>8, <1>9

LEMMA KeepsRetry ==
  ASSUME IInv, Retry
  PROVE  IInv'
<1> DEFINE h == panel.host
<1> USE NoneAssumption, BoundsAssumption DEF Attempts
<1>0. h \in Hosts /\ UNCHANGED <<world, wasConnected, panel, heard>>
  BY DEF Retry, IInv, TypeOK, PanelOfAttempt
<1>1. CASE /\ attempt[h] # None
           /\ waiting[attempt[h]] < MaxWaiting
           /\ CancelAttempt(h)
           /\ waiting' = [waiting EXCEPT ![attempt[h]] = @ + 1]
           /\ UNCHANGED <<status, host, at>>
  <2> DEFINE a == attempt[h]
  <2>1. a \in Attempts /\ at[a] \in Suspended /\ host[a] = h /\ UNCHANGED attempt
    BY <1>0, <1>1 DEF IInv, TypeOK, TableIsExact, CancelAttempt
  <2>2. \A b \in Attempts : /\ pty'[b] = "running" => pty[b] = "running"
                            /\ pty'[b] = "none" <=> pty[b] = "none"
    BY <1>1 DEF CancelAttempt, Terminate
  <2>3. \A b \in Attempts : b # a => waiting'[b] = waiting[b]
    BY <1>1 DEF IInv, TypeOK
  <2>4. TypeOK'
    <3>1. pty' \in [Attempts -> {"none", "running", "dying"}]
      BY <1>1 DEF CancelAttempt, Terminate, IInv, TypeOK
    <3>2. cancelled' \in [Attempts -> BOOLEAN]
      BY <1>1 DEF CancelAttempt, IInv, TypeOK
    <3>3. waiting' \in [Attempts -> 0..MaxWaiting]
      BY <1>1, <2>1 DEF IInv, TypeOK
    <3> QED
      BY <1>0, <1>1, <2>1, <3>1, <3>2 DEF IInv, TypeOK, world
  <2>5. TableIsExact' /\ PanelOfAttempt' /\ ConnectedHasNoPanel' /\ EndedIsSettled'
    BY <1>0, <1>1, <2>1
      DEF IInv, TableIsExact, PanelOfAttempt, ConnectedHasNoPanel, EndedIsSettled,
          world
  <2>6. UnmadeIsUnused'
    BY <1>0, <1>1, <2>1 DEF IInv, UnmadeIsUnused
  <2>7. PtyIsAwaited' /\ NoHiddenPrompt'
    BY <1>0, <1>1, <2>2 DEF IInv, PtyIsAwaited, NoHiddenPrompt
  <2>8. LocalIsTrue'
    BY <1>0, <1>1, <2>1 DEF IInv, LocalIsTrue, Suspended
  <2> QED
    BY <2>4, <2>5, <2>6, <2>7, <2>8 DEF IInv
<1>2. CASE attempt[h] = None /\ Restart(h) /\ UNCHANGED <<cancelled, pty, waiting>>
  <2>1. waiting' \in [Attempts -> 0..MaxWaiting] /\ \A b \in Attempts : waiting'[b] <= waiting[b]
    BY <1>2 DEF IInv, TypeOK
  <2> QED
    BY <1>0, <1>2, <2>1, RestartKeeps
<1> QED
  BY <1>1, <1>2 DEF Retry

LEMMA KeepsRetryResumes ==
  ASSUME IInv, NEW a \in Attempts, RetryResumes(a)
  PROVE  IInv'
<1> USE NoneAssumption, BoundsAssumption DEF Attempts, RetryResumes
<1>1. host[a] \in Hosts /\ at[a] = "over" /\ waiting[a] > 0
  BY DEF IInv, TypeOK, UnmadeIsUnused
<1>2. waiting' \in [Attempts -> 0..MaxWaiting] /\ \A b \in Attempts : waiting'[b] <= waiting[b]
  BY <1>1 DEF IInv, TypeOK
<1> QED
  BY <1>1, <1>2, RestartKeeps

LEMMA KeepsResolve ==
  ASSUME IInv, NEW a \in Attempts, Resolve(a)
  PROVE  IInv'
<1> USE NoneAssumption, BoundsAssumption DEF Attempts
<1>0. /\ at[a] = "resolve" /\ host[a] \in Hosts /\ pty[a] = "none"
      /\ UNCHANGED <<known, master, host, pty, waiting>>
  BY DEF Resolve, IInv, TypeOK, TableIsExact, PtyIsAwaited, Suspended
<1>1. CASE /\ resolved' = [resolved EXCEPT ![host[a]] = TRUE]
           /\ at' = [at EXCEPT ![a] = "check"]
           /\ UNCHANGED <<status, attempt, wasConnected, cancelled, panel, heard>>
  <2>1. at'[a] = "check" /\ \A b \in Attempts : b # a => at'[b] = at[b]
    BY <1>1 DEF IInv, TypeOK
  <2>2. TypeOK'
    BY <1>0, <1>1 DEF IInv, TypeOK
  <2>3. TableIsExact' /\ UnmadeIsUnused' /\ PtyIsAwaited'
    BY <1>0, <1>1 DEF IInv, TableIsExact, UnmadeIsUnused, PtyIsAwaited, Suspended
  <2>4. PanelOfAttempt' /\ NoHiddenPrompt' /\ ConnectedHasNoPanel' /\ EndedIsSettled'
    BY <1>0, <1>1
      DEF IInv, PanelOfAttempt, NoHiddenPrompt, ConnectedHasNoPanel, EndedIsSettled
  <2>5. LocalIsTrue'
    BY <1>0, <1>1 DEF IInv, LocalIsTrue, Suspended
  <2> QED
    BY <2>2, <2>3, <2>4, <2>5 DEF IInv
<1>2. CASE Fail(a) /\ UNCHANGED resolved
  BY <1>0, <1>2, FailKeeps DEF IInv, TypeOK, Suspended
<1> QED
  BY <1>1, <1>2 DEF Resolve

LEMMA KeepsCheck ==
  ASSUME IInv, NEW a \in Attempts, Check(a)
  PROVE  IInv'
<1> USE NoneAssumption, BoundsAssumption DEF Attempts
<1>0. /\ at[a] = "check" /\ host[a] \in Hosts /\ pty[a] = "none" /\ at[a] \in Suspended
      /\ UNCHANGED <<world, host, waiting>>
  BY DEF Check, IInv, TypeOK, TableIsExact, PtyIsAwaited, Suspended
<1>1. CASE wasConnected[a] /\ Settle(a) /\ UNCHANGED <<status, panel, pty, heard>>
  <2>1. /\ at'[a] = "over" /\ \A b \in Attempts : b # a => at'[b] = at[b]
        /\ attempt'[host[a]] = None
        /\ \A h \in Hosts : h # host[a] => attempt'[h] = attempt[h]
        /\ status[host[a]] = "connected"
    BY <1>0, <1>1 DEF Settle, IInv, TypeOK, LocalIsTrue
  <2>2. TypeOK'
    BY <1>0, <1>1 DEF Settle, IInv, TypeOK, world
  <2>a. ASSUME NEW b \in Attempts, at'[b] \in Suspended
        PROVE  /\ b # a /\ at'[b] = at[b] /\ at[b] \in Suspended
               /\ host[b] \in Hosts /\ host[b] # host[a] /\ attempt[host[b]] = b
    <3>1. b # a
      BY <2>1, <2>a DEF Suspended
    <3>2. host[b] \in Hosts /\ attempt[host[b]] = b /\ attempt[host[a]] = a
      BY <1>0, <2>1, <2>a, <3>1 DEF IInv, TypeOK, TableIsExact
    <3> QED
      BY <2>1, <2>a, <3>1, <3>2
  <2>b. ASSUME NEW h \in Hosts, attempt'[h] # None
        PROVE  h # host[a] /\ attempt'[h] = attempt[h] /\ attempt[h] # a
    <3>1. h # host[a] /\ attempt'[h] = attempt[h]
      BY <2>1, <2>b
    <3> QED
      BY <2>b, <3>1 DEF IInv, TableIsExact
  <2>c. \A h \in Hosts : attempt[h] \in Attempts \cup {None}
    BY DEF IInv, TypeOK
  <2>3. TableIsExact'
    BY <1>0, <2>1, <2>a, <2>c DEF IInv, TableIsExact
  <2>4. UnmadeIsUnused' /\ PtyIsAwaited'
    BY <1>0, <1>1, <2>1 DEF Settle, IInv, TypeOK, UnmadeIsUnused, PtyIsAwaited
  <2>5. PanelOfAttempt' /\ NoHiddenPrompt' /\ ConnectedHasNoPanel'
    BY <1>0, <1>1 DEF IInv, PanelOfAttempt, NoHiddenPrompt, ConnectedHasNoPanel
  <2>6. EndedIsSettled'
    BY <1>0, <1>1, <2>1 DEF IInv, EndedIsSettled, ConnectedHasNoPanel, world
  <2>7. LocalIsTrue'
    <3>1. \A b \in Attempts : b # a => wasConnected'[b] = wasConnected[b]
      BY <1>1 DEF Settle, IInv, TypeOK
    <3> QED
      BY <1>0, <1>1, <2>1, <2>a, <3>1 DEF IInv, LocalIsTrue
  <2> QED
    BY <2>2, <2>3, <2>4, <2>5, <2>6, <2>7 DEF IInv
<1>2. CASE Succeed(a)
  BY <1>0, <1>2, SucceedKeeps
<1>3. CASE Authenticate(a)
  BY <1>0, <1>3, AuthenticateKeeps
<1>4. CASE Fail(a) /\ UNCHANGED pty
  BY <1>0, <1>4, FailKeeps DEF IInv, TypeOK, world
<1> QED
  BY <1>1, <1>2, <1>3, <1>4 DEF Check, Healthy

LEMMA KeepsPtyExits ==
  ASSUME IInv, NEW a \in Attempts, PtyExits(a)
  PROVE  IInv'
<1> USE NoneAssumption, BoundsAssumption DEF Attempts
<1>0. /\ at[a] = "exit" /\ host[a] \in Hosts /\ at[a] \in Suspended
      /\ pty' = [pty EXCEPT ![a] = "none"]
      /\ UNCHANGED <<world, host, waiting>>
  BY DEF PtyExits, IInv, TypeOK, TableIsExact, Suspended
<1>1. CASE /\ at' = [at EXCEPT ![a] = "ready"]
           /\ UNCHANGED <<status, attempt, wasConnected, cancelled, panel, heard>>
  <2>1. at'[a] = "ready" /\ \A b \in Attempts : b # a => at'[b] = at[b]
    BY <1>1 DEF IInv, TypeOK
  <2>2. TypeOK'
    BY <1>0, <1>1 DEF IInv, TypeOK, world
  <2>3. TableIsExact' /\ UnmadeIsUnused'
    BY <1>0, <1>1 DEF IInv, TableIsExact, UnmadeIsUnused, Suspended
  <2>4. PtyIsAwaited' /\ NoHiddenPrompt'
    BY <1>0, <1>1 DEF IInv, TypeOK, PtyIsAwaited, NoHiddenPrompt
  <2>5. PanelOfAttempt' /\ ConnectedHasNoPanel' /\ EndedIsSettled'
    BY <1>0, <1>1
      DEF IInv, PanelOfAttempt, ConnectedHasNoPanel, EndedIsSettled, world
  <2>6. LocalIsTrue'
    BY <1>0, <1>1 DEF IInv, LocalIsTrue
  <2> QED
    BY <2>2, <2>3, <2>4, <2>5, <2>6 DEF IInv
<1>2. CASE Fail(a)
  BY <1>0, <1>2, FailKeeps DEF IInv, TypeOK, world
<1> QED
  BY <1>1, <1>2 DEF PtyExits

LEMMA KeepsMasterReady ==
  ASSUME IInv, NEW a \in Attempts, MasterReady(a)
  PROVE  IInv'
<1>0. /\ at[a] = "ready" /\ pty[a] = "none" /\ at[a] \in Suspended
      /\ UNCHANGED <<world, host, waiting>>
  BY DEF MasterReady, IInv, PtyIsAwaited, Suspended
<1>1. CASE Succeed(a)
  BY <1>0, <1>1, SucceedKeeps
<1>2. CASE Fail(a) /\ UNCHANGED pty
  BY <1>0, <1>2, FailKeeps DEF IInv, TypeOK, world
<1> QED
  BY <1>1, <1>2 DEF MasterReady

LEMMA InitHolds == Init => IInv
<1> SUFFICES ASSUME Init PROVE IInv
  OBVIOUS
<1> USE NoneAssumption, BoundsAssumption DEF Init, Attempts, Closed
<1>1. TypeOK
  BY DEF TypeOK
<1>2. TableIsExact /\ UnmadeIsUnused /\ PtyIsAwaited
  BY DEF TableIsExact, UnmadeIsUnused, PtyIsAwaited, Suspended
<1>3. PanelOfAttempt /\ NoHiddenPrompt
  BY DEF PanelOfAttempt, NoHiddenPrompt
<1>4. LocalIsTrue /\ ConnectedHasNoPanel /\ EndedIsSettled
  BY DEF LocalIsTrue, ConnectedHasNoPanel, EndedIsSettled, Suspended
<1> QED
  BY <1>1, <1>2, <1>3, <1>4 DEF IInv

-----------------------------------------------------------------------------
(* The theorems                                                            *)

\* The invariant holds in every state, whatever users and panes do while
\* connect() is suspended (connection-coordinator.ts:92-195).
THEOREM Inductive == Spec => []IInv
<1>1. IInv /\ [Next]_vars => IInv'
  <2> SUFFICES ASSUME IInv, [Next]_vars PROVE IInv'
    OBVIOUS
  <2>1. CASE Cancel \/ Retry
    BY <2>1, KeepsCancel, KeepsRetry
  <2>2. ASSUME NEW h \in Hosts, EnsureConnected(h) \/ MasterChanges(h) \/ Forget(h)
        PROVE  IInv'
    BY <2>2, KeepsEnsureConnected, KeepsMasterChanges, KeepsForget
  <2>3. ASSUME NEW a \in Attempts, Resolve(a) \/ Check(a) \/ PtyExits(a)
        PROVE  IInv'
    BY <2>3, KeepsResolve, KeepsCheck, KeepsPtyExits
  <2>4. ASSUME NEW a \in Attempts, MasterReady(a) \/ RetryResumes(a)
        PROVE  IInv'
    BY <2>4, KeepsMasterReady, KeepsRetryResumes
  <2>5. CASE UNCHANGED vars
    BY <2>5, KeepsVars
  <2> QED
    BY <2>1, <2>2, <2>3, <2>4, <2>5 DEF Next
<1> QED
  BY <1>1, InitHolds, PTL DEF Spec

LEMMA ConsistencyFollows == IInv => Consistent
<1> SUFFICES ASSUME IInv PROVE Consistent
  OBVIOUS
<1>1. OneAuthentication
  BY DEF IInv, OneAuthentication, PtyIsAwaited, TableIsExact, Suspended
<1>2. NoStrandedStatus /\ NoDeadPanel
  BY DEF IInv, NoStrandedStatus, NoDeadPanel, EndedIsSettled
<1> QED
  BY <1>1, <1>2 DEF IInv, Consistent

\* A host has one ssh PTY at a time, the user sees every prompt, and no status
\* or panel outlives its attempt, however connections, retries and cancellations
\* interleave (connection-coordinator.ts, workspace-app.ts:1401-1478).
THEOREM OnePromptInSight == Spec => []Consistent
<1> QED
  BY Inductive, ConsistencyFollows, PTL

\* A connection that is announced was not known to be up: a check of a healthy
\* master is silent, so listeners that connect again do not go round in circles
\* (connection-coordinator.ts:133-141).
THEOREM HealthyMasterIsSilent == Spec => SilentReuse
<1>1. IInv /\ [Next]_vars =>
        [\A h \in Hosts : heard'[h] # heard[h] => status[h] # "connected"]_vars
  <2> SUFFICES ASSUME IInv, Next, NEW h \in Hosts, heard'[h] # heard[h]
               PROVE  status[h] # "connected"
    OBVIOUS
  <2>a. heard' # heard
    OBVIOUS
  <2>b. PICK a \in Attempts : heard' # heard /\ (Check(a) \/ MasterReady(a))
    BY DEF Next, Cancel, Retry, EnsureConnected, MasterChanges, Forget, Resolve,
           PtyExits, RetryResumes, Fail
  <2>c. Check(a) => Succeed(a) /\ at[a] = "check" /\ ~wasConnected[a]
    BY DEF Check, Healthy, Authenticate, Fail
  <2>d. MasterReady(a) => Succeed(a) /\ at[a] = "ready"
    BY <2>b DEF MasterReady, Fail
  <2>1. Succeed(a) /\ (at[a] = "ready" \/ (at[a] = "check" /\ ~wasConnected[a]))
    BY <2>b, <2>c, <2>d
  <2>2. host[a] = h
    BY <2>1 DEF Succeed, IInv, TypeOK
  <2> QED
    BY <2>1, <2>2 DEF IInv, LocalIsTrue, Suspended
<1> QED
  BY <1>1, Inductive, PTL DEF Spec, SilentReuse

-----------------------------------------------------------------------------
(* ReconnectSession.                                                       *)

(* The inductive invariant                                                 *)

Count(b) == IF b THEN 1 ELSE 0

\* Every generation was paid for by start(), a failure, a command or stop(),
\* and a timer that runs holds a failure that it has not spent yet.
GenerationsPaid ==
  generation + Count(timer # Absent)
    <= Count(state.phase # "idle") + failures + 2 * commands + Count(stopped)

\* The attempts are counted by failures, and a successful one starts anew.
AttemptsPaid == attempts <= failures /\ state.attempt <= failures

\* An answer is awaited only by connections that have begun.
AwaitingBegun == \A g \in awaiting : g <= generation

\* The backend is the running process of the present generation, the pane shows
\* it, and no other process runs.
BackendIsCurrent ==
  /\ backend # Absent =>
       /\ backend = generation /\ attached = generation
       /\ process[generation] = "running" /\ ~stopped
  /\ \A g \in Generations : process[g] = "running" => backend = g

AnswerAwaited == generation \in awaiting /\ ~stopped

\* Timer, answer and backend exclude each other, and the phase says whether there
\* is one of them.
OneCause ==
  /\ timer # Absent => backend = Absent /\ ~AnswerAwaited /\ state.phase = "reconnecting"
  /\ backend # Absent => ~AnswerAwaited
  /\ state.phase \in {"idle", "detached", "stopped"} =>
       timer = Absent /\ backend = Absent /\ ~AnswerAwaited
  /\ state.phase \in {"connecting", "connected"} => timer = Absent
  /\ state.phase \in {"connecting", "reconnecting"} =>
       timer # Absent \/ backend # Absent \/ AnswerAwaited
  /\ state.phase = "connected" => backend # Absent
  /\ stopped <=> state.phase = "stopped"

SessionIInv ==
  /\ SessionTypeOK
  /\ GenerationsPaid
  /\ AttemptsPaid
  /\ AwaitingBegun
  /\ BackendIsCurrent
  /\ OneCause
  /\ TimerFollowsConfig

-----------------------------------------------------------------------------
(* Lemmas about the operators of the model                                 *)

\* A delay is within its cap (reconnect-session.ts, the backoff).
LEMMA DelayType ==
  ASSUME NEW c \in Configs, NEW n \in 0..MaxFailures
  PROVE  Delay(c, n) \in 0..MaxDelay
<1> DEFINE k == IF n = 0 THEN 0 ELSE n - 1
<1>1. k \in 0..MaxFailures
  BY NumbersAssumption
<1>2. Multiplier ^ k \in Nat
  BY <1>1, PowersAssumption
<1>3. c.initialDelay \in Nat
  BY NumbersAssumption DEF Configs
<1>4. c.initialDelay * Multiplier ^ k \in Nat
  BY <1>2, <1>3
<1> QED
  BY <1>4, NumbersAssumption DEF Delay

\* What the named invariants say follows from the inductive one.
LEMMA CauseFollows == SessionIInv => PhaseHasCause
<1> SUFFICES ASSUME SessionIInv PROVE PhaseHasCause
  OBVIOUS
<1>1. /\ "timer" \in Pending <=> timer # Absent
      /\ "answer" \in Pending <=> AnswerAwaited
      /\ "backend" \in Pending <=> backend # Absent
  BY DEF Pending, AnswerAwaited
<1>2. Pending \subseteq {"timer", "answer", "backend"}
  BY DEF Pending
<1>3. CASE state.phase = "reconnecting"
  <2>1. \E what \in {"timer", "answer", "backend"} : Pending = {what}
    BY <1>1, <1>2, <1>3 DEF SessionIInv, OneCause
  <2> QED
    BY <1>3, <2>1 DEF PhaseHasCause
<1>4. CASE state.phase = "connecting"
  <2>1. \E what \in {"answer", "backend"} : Pending = {what}
    BY <1>1, <1>2, <1>4 DEF SessionIInv, OneCause
  <2> QED
    BY <1>4, <2>1 DEF PhaseHasCause
<1>5. CASE state.phase = "connected"
  <2>1. Pending = {"backend"}
    BY <1>1, <1>2, <1>5 DEF SessionIInv, OneCause
  <2> QED
    BY <1>5, <2>1 DEF PhaseHasCause
<1>6. CASE state.phase \notin {"connecting", "connected", "reconnecting"}
  <2>1. Pending = {}
    BY <1>1, <1>2, <1>6 DEF SessionIInv, OneCause, SessionTypeOK
  <2> QED
    BY <1>6, <2>1 DEF PhaseHasCause
<1> QED
  BY <1>3, <1>4, <1>5, <1>6

LEMMA BackendFollows == SessionIInv => OneBackend
<1> SUFFICES ASSUME SessionIInv, NEW g \in Generations
             PROVE  process[g] = "running" <=>
                      ~stopped /\ backend = g /\ attached = g /\ generation = g
  BY DEF OneBackend
<1>1. backend = g => backend # Absent
  BY AbsentAssumption DEF Generations
<1> QED
  BY <1>1 DEF SessionIInv, BackendIsCurrent

-----------------------------------------------------------------------------
(* The invariant is kept, one lemma per action                             *)

\* scheduleReconnect() detaches a session that must not reconnect, or starts a
\* timer within the cap (reconnect-session.ts:156-173).
LEMMA FailedSchedules ==
  ASSUME SessionIInv, Failed("nonzero")
  PROVE  /\ failures < MaxFailures /\ failures' = failures + 1
         /\ \/ /\ ~config.enabled
               /\ state' = State("detached", attempts, "nonzero")
               /\ UNCHANGED <<attempts, timer>>
            \/ /\ config.enabled
               /\ attempts' = attempts + 1 /\ attempts' \in 0..MaxFailures
               /\ state' = State("reconnecting", attempts', "nonzero")
               /\ timer' = Delay(config, attempts')
               /\ timer' \in 0..MaxDelay /\ timer' # Absent
<1>1. failures < MaxFailures => attempts + 1 \in 0..MaxFailures
  BY NumbersAssumption DEF SessionIInv, SessionTypeOK, AttemptsPaid
<1>2. failures < MaxFailures => Delay(config, attempts + 1) \in 0..MaxDelay
  BY <1>1, DelayType DEF SessionIInv, SessionTypeOK
<1>3. \A n \in 0..MaxDelay : n # Absent
  BY AbsentAssumption, NumbersAssumption
<1> QED
  BY <1>1, <1>2, <1>3 DEF Failed, ScheduleReconnect

LEMMA RescheduleAgain ==
  ASSUME SessionIInv, NEW c \in Configs, timer # Absent, c.enabled, Reschedule(c)
  PROVE  /\ attempts' = attempts
         /\ state' = State("reconnecting", attempts, "nonzero")
         /\ timer' = Delay(c, attempts)
         /\ timer' \in 0..MaxDelay /\ timer' # Absent
<1>1. Delay(c, attempts) \in 0..MaxDelay
  BY DelayType DEF SessionIInv, SessionTypeOK
<1>2. \A n \in 0..MaxDelay : n # Absent
  BY AbsentAssumption, NumbersAssumption
<1> QED
  BY <1>1, <1>2 DEF Reschedule, ScheduleReconnect, SessionIInv, TimerFollowsConfig

LEMMA KeepsStart ==
  ASSUME SessionIInv, Start
  PROVE  SessionIInv'
<1> USE NumbersAssumption, AbsentAssumption DEF SessionIInv
<1>1. GenerationsPaid' /\ AttemptsPaid'
  BY DEF Start, ConnectSession, State, bounds, SessionTypeOK, GenerationsPaid, AttemptsPaid, Count
<1>2. SessionTypeOK'
  BY DEF Start, ConnectSession, State, bounds, SessionTypeOK, GenerationsPaid, Count, OneCause,
         Generations
<1>3. AwaitingBegun' /\ BackendIsCurrent'
  BY <1>2 DEF Start, ConnectSession, State, bounds, SessionTypeOK, AwaitingBegun, BackendIsCurrent,
              OneCause, Generations
<1>4. OneCause'
  BY DEF Start, ConnectSession, State, OneCause, AnswerAwaited
<1>5. TimerFollowsConfig'
  BY DEF Start, OneCause, TimerFollowsConfig
<1> QED
  BY <1>1, <1>2, <1>3, <1>4, <1>5

LEMMA KeepsEnter ==
  ASSUME SessionIInv, Enter
  PROVE  SessionIInv'
<1> USE NumbersAssumption, AbsentAssumption DEF SessionIInv
<1>1. GenerationsPaid' /\ AttemptsPaid'
  BY DEF Enter, ReconnectNow, ConnectSession, State, SessionTypeOK, GenerationsPaid, AttemptsPaid,
         Count
<1>2. SessionTypeOK'
  BY DEF Enter, ReconnectNow, ClearBackend, ConnectSession, State, SessionTypeOK, GenerationsPaid,
         Count, OneCause, Generations
<1>3. AwaitingBegun' /\ BackendIsCurrent'
  BY <1>2
    DEF Enter, ReconnectNow, ClearBackend, ConnectSession, SessionTypeOK, AwaitingBegun,
        BackendIsCurrent
<1>4. OneCause'
  BY DEF Enter, ReconnectNow, ClearBackend, ConnectSession, State, OneCause, AnswerAwaited
<1>5. TimerFollowsConfig'
  BY DEF Enter, ReconnectNow, TimerFollowsConfig
<1> QED
  BY <1>1, <1>2, <1>3, <1>4, <1>5

LEMMA KeepsStop ==
  ASSUME SessionIInv, Stop
  PROVE  SessionIInv'
<1> USE NumbersAssumption, AbsentAssumption DEF SessionIInv
<1>1. GenerationsPaid' /\ AttemptsPaid'
  BY DEF Stop, State, bounds, SessionTypeOK, GenerationsPaid, AttemptsPaid, Count
<1>2. SessionTypeOK'
  BY DEF Stop, ClearBackend, State, bounds, SessionTypeOK, GenerationsPaid, Count
<1>3. AwaitingBegun' /\ BackendIsCurrent'
  BY <1>2 DEF Stop, ClearBackend, SessionTypeOK, AwaitingBegun, BackendIsCurrent
<1>4. OneCause'
  BY DEF Stop, ClearBackend, State, OneCause, AnswerAwaited
<1>5. TimerFollowsConfig'
  BY DEF Stop, TimerFollowsConfig
<1> QED
  BY <1>1, <1>2, <1>3, <1>4, <1>5

LEMMA KeepsFirstData ==
  ASSUME SessionIInv, FirstData
  PROVE  SessionIInv'
<1> USE NumbersAssumption, AbsentAssumption DEF SessionIInv
<1>1. GenerationsPaid' /\ AttemptsPaid'
  BY DEF FirstData, State, bounds, SessionTypeOK, GenerationsPaid, AttemptsPaid, OneCause
<1>2. SessionTypeOK'
  BY DEF FirstData, State, bounds, SessionTypeOK
<1>3. AwaitingBegun' /\ BackendIsCurrent'
  BY DEF FirstData, AwaitingBegun, BackendIsCurrent
<1>4. OneCause'
  BY DEF FirstData, State, OneCause, AnswerAwaited
<1>5. TimerFollowsConfig'
  BY DEF FirstData, OneCause, TimerFollowsConfig
<1> QED
  BY <1>1, <1>2, <1>3, <1>4, <1>5

LEMMA KeepsBackendExits ==
  ASSUME SessionIInv, BackendExits
  PROVE  SessionIInv'
<1> USE NumbersAssumption, AbsentAssumption DEF SessionIInv
<1>1. GenerationsPaid' /\ AttemptsPaid'
  BY FailedSchedules
    DEF BackendExits, State, SessionTypeOK, GenerationsPaid, AttemptsPaid, Count
<1>2. SessionTypeOK'
  <2>1. /\ state' \in [phase : {"idle", "connecting", "connected",
                                "reconnecting", "detached", "stopped"},
                       attempt : 0..MaxFailures, lastExit : {Absent, "zero", "nonzero"}]
        /\ attempts' \in 0..MaxFailures /\ failures' \in 0..MaxFailures
    BY FailedSchedules DEF BackendExits, State, SessionTypeOK
  <2>2. timer' \in 0..MaxDelay \cup {Absent}
    BY FailedSchedules DEF BackendExits, SessionTypeOK
  <2>3. /\ backend' \in Generations \cup {Absent}
        /\ process' \in [Generations -> {"none", "running", "killed", "exited"}]
    BY DEF BackendExits, SessionTypeOK
  <2> QED
    BY <2>1, <2>2, <2>3 DEF BackendExits, SessionTypeOK
<1>3. AwaitingBegun' /\ BackendIsCurrent'
  BY DEF BackendExits, SessionTypeOK, AwaitingBegun, BackendIsCurrent
<1>4. OneCause'
  BY FailedSchedules DEF BackendExits, State, OneCause, AnswerAwaited
<1>5. TimerFollowsConfig'
  BY FailedSchedules DEF BackendExits, State, OneCause, TimerFollowsConfig
<1> QED
  BY <1>1, <1>2, <1>3, <1>4, <1>5

LEMMA KeepsTimerFires ==
  ASSUME SessionIInv, TimerFires
  PROVE  SessionIInv'
<1> USE NumbersAssumption, AbsentAssumption DEF SessionIInv
<1>1. GenerationsPaid' /\ AttemptsPaid'
  BY DEF TimerFires, ConnectSession, State, bounds, SessionTypeOK, GenerationsPaid, AttemptsPaid,
         Count
<1>2. SessionTypeOK'
  <2>1. /\ generation \in Nat /\ failures \in Nat /\ failures <= MaxFailures
        /\ commands \in Nat /\ commands <= MaxCommands
        /\ generation + 1 <= 1 + failures + 2 * commands
    BY DEF TimerFires, SessionTypeOK, GenerationsPaid, OneCause, Count
  <2>2. generation + 1 \in Generations
    BY <2>1 DEF Generations
  <2>3. generation' = generation + 1 /\ awaiting' = awaiting \cup {generation + 1}
    BY DEF TimerFires, ConnectSession
  <2>4. timer' = Absent /\ state' = State("reconnecting", attempts, Absent)
    BY DEF TimerFires, ConnectSession
  <2> QED
    BY <2>2, <2>3, <2>4 DEF TimerFires, SessionTypeOK, State, bounds, Generations
<1>3. AwaitingBegun' /\ BackendIsCurrent'
  BY <1>2 DEF TimerFires, ConnectSession, State, bounds, SessionTypeOK, AwaitingBegun,
     BackendIsCurrent, OneCause, Generations
<1>4. OneCause'
  BY DEF TimerFires, ConnectSession, State, OneCause, AnswerAwaited
<1>5. TimerFollowsConfig'
  BY DEF TimerFires, TimerFollowsConfig
<1> QED
  BY <1>1, <1>2, <1>3, <1>4, <1>5

LEMMA KeepsUpdateConfig ==
  ASSUME SessionIInv, NEW c \in Configs, UpdateConfig(c)
  PROVE  SessionIInv'
<1> USE NumbersAssumption, AbsentAssumption DEF SessionIInv
<1>1. GenerationsPaid' /\ AttemptsPaid'
  BY RescheduleAgain
    DEF UpdateConfig, ReconnectNow, ConnectSession, State, SessionTypeOK, GenerationsPaid,
        AttemptsPaid, Count
<1>2. SessionTypeOK'
  <2>1. /\ state' \in [phase : {"idle", "connecting", "connected",
                                "reconnecting", "detached", "stopped"},
                       attempt : 0..MaxFailures, lastExit : {Absent, "zero", "nonzero"}]
        /\ attempts' \in 0..MaxFailures
    BY RescheduleAgain DEF UpdateConfig, ReconnectNow, ConnectSession, State, SessionTypeOK
  <2>2. timer' \in 0..MaxDelay \cup {Absent}
    BY RescheduleAgain DEF UpdateConfig, ReconnectNow
  <2>3. /\ generation' \in 0..(2 + MaxFailures + 2 * MaxCommands)
        /\ awaiting' \subseteq Generations
    <3>1. CASE UNCHANGED <<generation, awaiting>>
      BY <3>1 DEF SessionTypeOK
    <3>2. CASE ReconnectNow /\ state.phase = "detached"
      <4>1. /\ timer = Absent /\ ~stopped
            /\ generation <= 1 + failures + 2 * commands
        BY <3>2 DEF OneCause, GenerationsPaid, Count, SessionTypeOK
      <4>2. /\ generation \in Nat /\ failures \in Nat /\ failures <= MaxFailures
            /\ commands \in Nat /\ commands < MaxCommands
        BY DEF UpdateConfig, SessionTypeOK
      <4>3. generation + 2 \in Generations
        BY <4>1, <4>2 DEF Generations
      <4>4. generation' = generation + 2 /\ awaiting' = awaiting \cup {generation + 2}
        BY <3>2 DEF ReconnectNow, ConnectSession
      <4>5. generation' \in 0..(2 + MaxFailures + 2 * MaxCommands)
        BY <4>3, <4>4 DEF Generations
      <4>6. awaiting' \subseteq Generations
        BY <4>3, <4>4 DEF SessionTypeOK
      <4> QED
        BY <4>5, <4>6
    <3> QED
      BY <3>1, <3>2 DEF UpdateConfig, SwitchedOn
  <2>4. /\ backend' \in Generations \cup {Absent}
        /\ process' \in [Generations -> {"none", "running", "killed", "exited"}]
        /\ attached' \in Generations \cup {Absent}
    BY DEF UpdateConfig, ReconnectNow, ClearBackend, SessionTypeOK
  <2>5. /\ config' \in Configs /\ stopped' \in BOOLEAN /\ sawData' \in BOOLEAN
        /\ failures' \in 0..MaxFailures /\ commands' \in 0..MaxCommands
    BY DEF UpdateConfig, SessionTypeOK
  <2> QED
    BY <2>1, <2>2, <2>3, <2>4, <2>5 DEF SessionTypeOK
<1>3. AwaitingBegun' /\ BackendIsCurrent'
  BY RescheduleAgain, <1>2
    DEF UpdateConfig, SwitchedOn, ReconnectNow, ClearBackend, ConnectSession, State, bounds,
        SessionTypeOK, AwaitingBegun, BackendIsCurrent, OneCause, AnswerAwaited,
        Generations
<1>4. OneCause'
  BY RescheduleAgain
    DEF UpdateConfig, SwitchedOn, ReconnectNow, ClearBackend, ConnectSession, State,
        OneCause, AnswerAwaited
<1>5. TimerFollowsConfig'
  BY RescheduleAgain DEF UpdateConfig, ReconnectNow, State, TimerFollowsConfig
<1> QED
  BY <1>1, <1>2, <1>3, <1>4, <1>5

LEMMA KeepsPrerequisiteMet ==
  ASSUME SessionIInv, NEW g \in Generations, PrerequisiteMet(g)
  PROVE  SessionIInv'
<1> USE NumbersAssumption, AbsentAssumption DEF SessionIInv
<1>1. GenerationsPaid' /\ AttemptsPaid'
  BY FailedSchedules
    DEF PrerequisiteMet, State, SessionTypeOK, GenerationsPaid, AttemptsPaid, Count
<1>2. SessionTypeOK'
  <2>1. /\ state' \in [phase : {"idle", "connecting", "connected",
                                "reconnecting", "detached", "stopped"},
                       attempt : 0..MaxFailures, lastExit : {Absent, "zero", "nonzero"}]
        /\ attempts' \in 0..MaxFailures
    BY FailedSchedules DEF PrerequisiteMet, State, SessionTypeOK
  <2>2. timer' \in 0..MaxDelay \cup {Absent}
    BY FailedSchedules DEF PrerequisiteMet, SessionTypeOK
  <2>3. /\ generation' \in 0..(2 + MaxFailures + 2 * MaxCommands)
        /\ awaiting' \subseteq Generations
    BY DEF PrerequisiteMet, SessionTypeOK
  <2>4. /\ backend' \in Generations \cup {Absent}
        /\ process' \in [Generations -> {"none", "running", "killed", "exited"}]
        /\ attached' \in Generations \cup {Absent}
    BY DEF PrerequisiteMet, Current, State, SessionTypeOK
  <2>5. /\ config' \in Configs /\ stopped' \in BOOLEAN /\ sawData' \in BOOLEAN
        /\ failures' \in 0..MaxFailures /\ commands' \in 0..MaxCommands
    <3>1. failures' \in 0..MaxFailures
      <4>1. CASE Failed("nonzero")
        BY <4>1, FailedSchedules DEF SessionTypeOK
      <4> QED
        BY <4>1 DEF PrerequisiteMet, SessionTypeOK
    <3> QED
      BY <3>1 DEF PrerequisiteMet, SessionTypeOK
  <2> QED
    BY <2>1, <2>2, <2>3, <2>4, <2>5 DEF SessionTypeOK
<1>3. AwaitingBegun' /\ BackendIsCurrent'
  <2>1. AwaitingBegun'
    BY DEF PrerequisiteMet, AwaitingBegun
  <2>2. UNCHANGED <<generation, stopped>>
    BY DEF PrerequisiteMet
  <2>3. CASE UNCHANGED <<backend, process, attached>>
    BY <2>1, <2>2, <2>3 DEF BackendIsCurrent
  <2>4. CASE /\ Current(g) /\ backend' = g /\ attached' = g
             /\ process' = [process EXCEPT ![g] = "running"]
    <3>1. g = generation /\ ~stopped /\ backend = Absent
      BY <2>4 DEF PrerequisiteMet, Current, OneCause, AnswerAwaited
    <3> QED
      BY <2>1, <2>2, <2>4, <3>1 DEF BackendIsCurrent, SessionTypeOK, Generations
  <2> QED
    BY <2>1, <2>3, <2>4 DEF PrerequisiteMet
<1>4. OneCause'
  BY FailedSchedules, <1>2
    DEF PrerequisiteMet, Current, State, OneCause, AnswerAwaited, SessionTypeOK
<1>5. TimerFollowsConfig'
  BY FailedSchedules DEF PrerequisiteMet, State, TimerFollowsConfig
<1> QED
  BY <1>1, <1>2, <1>3, <1>4, <1>5

LEMMA KeepsPrerequisiteFails ==
  ASSUME SessionIInv, NEW g \in Generations, PrerequisiteFails(g)
  PROVE  SessionIInv'
<1> USE NumbersAssumption, AbsentAssumption DEF SessionIInv
<1>1. GenerationsPaid' /\ AttemptsPaid'
  BY FailedSchedules
    DEF PrerequisiteFails, State, SessionTypeOK, GenerationsPaid, AttemptsPaid, Count
<1>2. SessionTypeOK'
  <2>1. /\ state' \in [phase : {"idle", "connecting", "connected",
                                "reconnecting", "detached", "stopped"},
                       attempt : 0..MaxFailures, lastExit : {Absent, "zero", "nonzero"}]
        /\ attempts' \in 0..MaxFailures
    BY FailedSchedules DEF PrerequisiteFails, State, SessionTypeOK
  <2>2. timer' \in 0..MaxDelay \cup {Absent}
    BY FailedSchedules DEF PrerequisiteFails, SessionTypeOK
  <2>3. /\ generation' \in 0..(2 + MaxFailures + 2 * MaxCommands)
        /\ awaiting' \subseteq Generations
    BY DEF PrerequisiteFails, SessionTypeOK
  <2>4. /\ backend' \in Generations \cup {Absent}
        /\ process' \in [Generations -> {"none", "running", "killed", "exited"}]
        /\ attached' \in Generations \cup {Absent}
    BY DEF PrerequisiteFails, Current, State, SessionTypeOK
  <2>5. /\ config' \in Configs /\ stopped' \in BOOLEAN /\ sawData' \in BOOLEAN
        /\ failures' \in 0..MaxFailures /\ commands' \in 0..MaxCommands
    BY FailedSchedules DEF PrerequisiteFails, SessionTypeOK
  <2> QED
    BY <2>1, <2>2, <2>3, <2>4, <2>5 DEF SessionTypeOK
<1>3. AwaitingBegun' /\ BackendIsCurrent'
  BY DEF PrerequisiteFails, AwaitingBegun, BackendIsCurrent
<1>4. OneCause'
  BY FailedSchedules, <1>2 DEF PrerequisiteFails, Current, State, OneCause, AnswerAwaited,
     SessionTypeOK
<1>5. TimerFollowsConfig'
  BY FailedSchedules DEF PrerequisiteFails, State, TimerFollowsConfig
<1> QED
  BY <1>1, <1>2, <1>3, <1>4, <1>5

LEMMA SessionKeepsVars ==
  ASSUME SessionIInv, UNCHANGED sessionVars
  PROVE  SessionIInv'
BY DEF sessionVars, SessionIInv, SessionTypeOK, GenerationsPaid, AttemptsPaid, AwaitingBegun,
       BackendIsCurrent, OneCause, AnswerAwaited, TimerFollowsConfig

LEMMA SessionInitHolds == SessionInit => SessionIInv
<1> SUFFICES ASSUME SessionInit PROVE SessionIInv
  OBVIOUS
<1> USE NumbersAssumption, AbsentAssumption
<1>1. SessionTypeOK
  <2>1. state \in [phase : {"idle", "connecting", "connected",
                            "reconnecting", "detached", "stopped"},
                   attempt : 0..MaxFailures, lastExit : {Absent, "zero", "nonzero"}]
    BY DEF SessionInit, State
  <2>2. process \in [Generations -> {"none", "running", "killed", "exited"}]
    BY DEF SessionInit
  <2>3. 0 \in 0..MaxFailures /\ 0 \in 0..(2 + MaxFailures + 2 * MaxCommands) /\ 0 \in 0..MaxCommands
    OBVIOUS
  <2> QED
    BY <2>1, <2>2, <2>3, Zenon DEF SessionInit, SessionTypeOK
<1>2. GenerationsPaid /\ AttemptsPaid /\ AwaitingBegun
  BY DEF SessionInit, State, Count, GenerationsPaid, AttemptsPaid, AwaitingBegun
<1>3. BackendIsCurrent /\ OneCause /\ TimerFollowsConfig
  BY DEF SessionInit, State, BackendIsCurrent, OneCause, AnswerAwaited, TimerFollowsConfig
<1> QED
  BY <1>1, <1>2, <1>3 DEF SessionIInv

-----------------------------------------------------------------------------
(* The theorems                                                            *)

\* The strengthened invariant holds in every reachable state.
THEOREM SessionInductive == SessionSpec => []SessionIInv
<1>1. SessionIInv /\ [SessionNext]_sessionVars => SessionIInv'
  BY KeepsStart, KeepsEnter, KeepsStop, KeepsFirstData, KeepsBackendExits,
     KeepsTimerFires, KeepsUpdateConfig, KeepsPrerequisiteMet,
     KeepsPrerequisiteFails, SessionKeepsVars
    DEF SessionNext
<1> QED
  BY <1>1, SessionInitHolds, PTL DEF SessionSpec

\* At most one ssh runs, it is the one the pane shows, and none outlives the pane or
\* its successor, however answers, timers and retries are ordered
\* (reconnect-session.ts:92-154, 175-180).
THEOREM OneBackendRuns == SessionSpec => []OneBackend
BY SessionInductive, BackendFollows, PTL

\* A phase that promises progress has exactly one thing behind it that brings it
\* (reconnect-session.ts:49-180).
THEOREM PhasesHaveCauses == SessionSpec => []PhaseHasCause
BY SessionInductive, CauseFollows, PTL

\* All of it at once, as the run reconnect_session checks it.
THEOREM SessionIsConsistent == SessionSpec => []SessionConsistent
<1>1. SessionIInv => SessionTypeOK /\ TimerFollowsConfig
  BY DEF SessionIInv
<1>2. SessionIInv => SessionConsistent
  BY <1>1, BackendFollows, CauseFollows DEF SessionConsistent
<1> QED
  BY <1>2, SessionInductive, PTL

\* Exit code zero ends a session on purpose: nothing but Enter, a click or the
\* end of the pane changes its state (docs/architecture.md:263-266).
THEOREM CleanExitIsFinal == SessionSpec => CleanExitStays
<1>1. ASSUME SessionIInv, [SessionNext]_sessionVars,
             state.phase = "detached", state.lastExit = "zero"
      PROVE  UNCHANGED state \/ Enter \/ Stop
  <2> USE <1>1, AbsentAssumption
  <2>1. timer = Absent /\ backend = Absent /\ ~AnswerAwaited
    BY DEF SessionIInv, OneCause
  <2>2. CASE UNCHANGED sessionVars
    BY <2>2 DEF sessionVars
  <2>3. CASE Start \/ FirstData \/ BackendExits \/ TimerFires
    BY <2>1, <2>3 DEF Start, FirstData, BackendExits, TimerFires
  <2>4. ASSUME NEW c \in Configs, UpdateConfig(c)
        PROVE  UNCHANGED state
    BY <2>1, <2>4 DEF UpdateConfig, SwitchedOn
  <2>5. ASSUME NEW g \in Generations, PrerequisiteMet(g) \/ PrerequisiteFails(g)
        PROVE  UNCHANGED state
    BY <2>1, <2>5 DEF PrerequisiteMet, PrerequisiteFails, Current, AnswerAwaited
  <2> QED
    BY <2>2, <2>3, <2>4, <2>5 DEF SessionNext
<1>2. SessionIInv /\ [SessionNext]_sessionVars =>
        [state.phase = "detached" /\ state.lastExit = "zero" =>
           UNCHANGED state \/ Enter \/ Stop]_sessionVars
  BY <1>1
<1> QED
  BY <1>2, SessionInductive, PTL DEF SessionSpec, CleanExitStays

=============================================================================
