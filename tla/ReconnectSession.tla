-------------------------- MODULE ReconnectSession --------------------------
(***************************************************************************)
(* ReconnectSession (src/src/connection/reconnect-session.ts): the life of *)
(* a remote terminal pane over the ssh processes it spawns, one after the  *)
(* other.  A connection is named by its generation.  connect() is          *)
(* suspended while beforeConnect() runs (ensureConnected of the host), so  *)
(* its answer, the data and exit of a process, the retry timer, the user   *)
(* and a change of the configuration come in any order.                    *)
(***************************************************************************)
EXTENDS Integers

CONSTANTS
  Delays,       \* values of initialDelayMs
  MaxDelay,     \* maxDelayMs
  Multiplier,   \* multiplier
  MaxFailures,  \* bound on failed connections
  MaxCommands,  \* bound on configuration changes and requests to reconnect
  Absent

ASSUME NumbersAssumption ==
  /\ Delays \subseteq Nat
  /\ MaxDelay \in Nat /\ Multiplier \in Nat \ {0}
  /\ MaxFailures \in Nat /\ MaxCommands \in Nat
\* A fact of arithmetic, for the provers, which know no exponentiation.
ASSUME PowersAssumption == \A n \in 0..MaxFailures : Multiplier ^ n \in Nat
ASSUME AbsentAssumption == Absent \notin Nat

\* A connection follows start(), a failure, or a command, which takes two.
Generations == 1..(1 + MaxFailures + 2 * MaxCommands)

Configs == [enabled : BOOLEAN, initialDelay : Delays]

VARIABLES
  config,      \* this.config
  state,       \* this.state, without the delay
  attempts,     \* this.attempt
  generation,  \* this.connectionGeneration
  stopped,     \* this.stopped
  timer,       \* the delay, before jitter, that the retry timer runs with
  backend,     \* this.backend, by its generation
  awaiting,    \* generations whose beforeConnect() has not returned
  process,     \* the ssh process of a generation
  sawData,     \* the local of startBackend(), for this.backend
  attached,    \* the backend the pane shows and types into
  failures,    \* failed connections (bound)
  commands     \* commands (bound)

sessionVars == <<config, state, attempts, generation, stopped, timer, backend, awaiting,
          process, sawData, attached, failures, commands>>

bounds == <<failures, commands>>

State(phase, n, exit) == [phase |-> phase, attempt |-> n, lastExit |-> exit]

SessionInit ==
  /\ config \in Configs
  /\ state = State("idle", 0, Absent)
  /\ attempts = 0
  /\ generation = 0
  /\ stopped = FALSE
  /\ timer = Absent
  /\ backend = Absent
  /\ awaiting = {}
  /\ process = [g \in Generations |-> "none"]
  /\ sawData = FALSE
  /\ attached = Absent
  /\ failures = 0
  /\ commands = 0

-----------------------------------------------------------------------------
(* The private methods.                                                    *)

\* The backoff, before jitter.
Delay(c, n) ==
  LET grown == c.initialDelay * Multiplier ^ (IF n = 0 THEN 0 ELSE n - 1)
  IN  IF grown < MaxDelay THEN grown ELSE MaxDelay

\* scheduleReconnect(), under the configuration c.
ScheduleReconnect(c, exit, n) ==
  \/ /\ ~c.enabled
     /\ state' = State("detached", attempts, exit)
     /\ UNCHANGED <<attempts, timer>>
  \/ /\ c.enabled
     /\ attempts' = n
     /\ state' = State("reconnecting", n, exit)
     /\ timer' = Delay(c, n)

\* connect(), up to its await; g is the generation it takes.
ConnectSession(phase, g) ==
  /\ generation' = g
  /\ state' = State(phase, attempts, Absent)
  /\ awaiting' = awaiting \cup {g}

\* clearBackend(true): its events are no longer heard, and it is killed.
ClearBackend ==
  /\ backend' = Absent
  /\ process' = IF backend = Absent THEN process
                ELSE [process EXCEPT ![backend] = "killed"]

\* reconnectNow().
ReconnectNow ==
  /\ ClearBackend
  /\ ConnectSession("reconnecting", generation + 2)
  /\ timer' = Absent

-----------------------------------------------------------------------------
(* The pane.                                                               *)

Start ==
  /\ state.phase = "idle"
  /\ ConnectSession("connecting", generation + 1)
  /\ UNCHANGED <<config, attempts, stopped, timer, backend, process, sawData, attached, bounds>>

\* Enter, or a click, on a pane that is detached.
Enter ==
  /\ commands < MaxCommands /\ commands' = commands + 1
  /\ state.phase = "detached"
  /\ ReconnectNow
  /\ UNCHANGED <<config, attempts, stopped, sawData, attached, failures>>

\* Mutant: switching reconnection on wakes a session that has ended cleanly.
SwitchedOnAny(c) == c.enabled /\ ~config.enabled /\ state.phase = "detached"

\* Reconnection is switched on for a session that a failure has detached.
SwitchedOn(c) ==
  /\ c.enabled /\ ~config.enabled
  /\ state.phase = "detached"
  /\ state.lastExit # "zero"

\* The timer that runs is set anew, and the attempt is not counted again.
Reschedule(c) == ScheduleReconnect(c, state.lastExit, attempts)

UpdateConfig(c) ==
  /\ commands < MaxCommands /\ commands' = commands + 1
  /\ c # config
  /\ config' = c
  /\ \/ /\ timer # Absent /\ ~c.enabled
        /\ timer' = Absent
        /\ state' = State("detached", attempts, state.lastExit)
        /\ UNCHANGED <<attempts, generation, backend, awaiting, process>>
     \/ /\ timer # Absent /\ c.enabled
        /\ Reschedule(c)
        /\ UNCHANGED <<generation, backend, awaiting, process>>
     \/ /\ timer = Absent /\ SwitchedOn(c)
        /\ ReconnectNow
        /\ UNCHANGED attempts
     \/ /\ timer = Absent /\ ~SwitchedOn(c)
        /\ UNCHANGED <<state, attempts, timer, generation, backend, awaiting, process>>
  /\ UNCHANGED <<stopped, sawData, attached, failures>>

\* stop(), when the pane is destroyed.
Stop ==
  /\ ~stopped
  /\ stopped' = TRUE
  /\ generation' = generation + 1
  /\ timer' = Absent
  /\ ClearBackend
  /\ state' = State("stopped", attempts, Absent)
  /\ attached' = Absent
  /\ UNCHANGED <<config, attempts, awaiting, sawData, bounds>>

-----------------------------------------------------------------------------
(* Answers, events and the timer.                                          *)

\* Mutant: an answer is used whenever it comes.
CurrentAlways(g) == g \in Generations

Current(g) == ~stopped /\ g = generation

\* A connection of the current generation fails with this exit.
Failed(exit) ==
  /\ failures < MaxFailures /\ failures' = failures + 1
  /\ ScheduleReconnect(config, exit, attempts + 1)

\* beforeConnect() returns: startBackend() spawns ssh, or fails to.
PrerequisiteMet(g) ==
  /\ g \in awaiting
  /\ awaiting' = awaiting \ {g}
  /\ \/ /\ Current(g)
        /\ backend' = g
        /\ process' = [process EXCEPT ![g] = "running"]
        /\ sawData' = FALSE
        /\ attached' = g
        /\ UNCHANGED <<state, attempts, timer, failures>>
     \/ /\ Current(g)
        /\ Failed("nonzero")
        /\ UNCHANGED <<backend, process, sawData, attached>>
     \/ /\ ~Current(g)
        /\ UNCHANGED <<state, attempts, timer, backend, process, sawData, attached, failures>>
  /\ UNCHANGED <<config, generation, stopped, commands>>

\* Mutant: the error is shown and nothing is scheduled.
PrerequisiteFailsQuietly(g) ==
  /\ g \in awaiting
  /\ awaiting' = awaiting \ {g}
  /\ UNCHANGED <<config, state, attempts, generation, stopped, timer, backend,
                 process, sawData, attached, bounds>>

\* beforeConnect() rejects: the master is not reached, or the user cancels.
PrerequisiteFails(g) ==
  /\ g \in awaiting
  /\ awaiting' = awaiting \ {g}
  /\ \/ Current(g) /\ Failed("nonzero")
     \/ ~Current(g) /\ UNCHANGED <<state, attempts, timer, failures>>
  /\ UNCHANGED <<config, generation, stopped, backend, process, sawData, attached, commands>>

\* The first data of this.backend.
FirstData ==
  /\ backend # Absent /\ ~sawData
  /\ sawData' = TRUE
  /\ attempts' = 0
  /\ state' = State("connected", 0, Absent)
  /\ UNCHANGED <<config, generation, stopped, timer, backend, awaiting, process, attached, bounds>>

\* this.backend exits: on purpose, with 0, or not.
BackendExits ==
  /\ backend # Absent
  /\ backend' = Absent
  /\ process' = [process EXCEPT ![backend] = "exited"]
  /\ \/ /\ state' = State("detached", 0, "zero")
        /\ UNCHANGED <<attempts, timer, failures>>
     \/ Failed("nonzero")
  /\ UNCHANGED <<config, generation, stopped, awaiting, sawData, attached, commands>>

TimerFires ==
  /\ timer # Absent
  /\ timer' = Absent
  /\ ConnectSession("reconnecting", generation + 1)
  /\ UNCHANGED <<config, attempts, stopped, backend, process, sawData, attached, bounds>>

SessionNext ==
  \/ Start \/ Enter \/ Stop \/ FirstData \/ BackendExits \/ TimerFires
  \/ \E c \in Configs : UpdateConfig(c)
  \/ \E g \in Generations : PrerequisiteMet(g) \/ PrerequisiteFails(g)

\* Timers fire.  Of the world: the prompt behind beforeConnect() is answered,
\* and an ssh that is alive speaks.
SessionFairness ==
  /\ WF_sessionVars(TimerFires)
  /\ WF_sessionVars(FirstData)
  /\ \A g \in Generations : WF_sessionVars(PrerequisiteMet(g) \/ PrerequisiteFails(g))

SessionSpec == SessionInit /\ [][SessionNext]_sessionVars

SessionFairSpec == SessionSpec /\ SessionFairness

-----------------------------------------------------------------------------
(* Properties.                                                             *)

\* The types of the model's state.
SessionTypeOK ==
  /\ config \in Configs
  /\ state \in [phase : {"idle", "connecting", "connected", "reconnecting",
                         "detached", "stopped"},
                attempt : 0..MaxFailures, lastExit : {Absent, "zero", "nonzero"}]
  /\ attempts \in 0..MaxFailures
  /\ generation \in 0..(2 + MaxFailures + 2 * MaxCommands)
  /\ stopped \in BOOLEAN
  /\ timer \in 0..MaxDelay \cup {Absent}
  /\ backend \in Generations \cup {Absent}
  /\ awaiting \subseteq Generations
  /\ process \in [Generations -> {"none", "running", "killed", "exited"}]
  /\ sawData \in BOOLEAN
  /\ attached \in Generations \cup {Absent}
  /\ failures \in 0..MaxFailures
  /\ commands \in 0..MaxCommands

\* However answers, timers, retries and the end of the pane are ordered, an ssh
\* that runs is the one the pane shows; none outlives the pane or its successor.
OneBackend ==
  \A g \in Generations : process[g] = "running" <=>
    ~stopped /\ backend = g /\ attached = g /\ generation = g

\* What a session may be waiting for.
Pending ==
  {what \in {"timer", "answer", "backend"} :
    CASE what = "timer"   -> timer # Absent
      [] what = "answer"  -> generation \in awaiting /\ ~stopped
      [] what = "backend" -> backend # Absent}

\* A phase that promises progress has exactly one thing behind it that brings
\* it, and a session that is idle, detached or stopped has nothing in flight.
PhaseHasCause ==
  CASE state.phase = "reconnecting" -> \E what \in {"timer", "answer", "backend"} : Pending = {what}
    [] state.phase = "connecting"   -> \E what \in {"answer", "backend"} : Pending = {what}
    [] state.phase = "connected"    -> Pending = {"backend"}
    [] OTHER                        -> Pending = {}

\* A timer that runs obeys the present configuration, and knows its failure
\* (reconnect-session.test.ts:40).
TimerFollowsConfig ==
  timer # Absent =>
    config.enabled /\ timer = Delay(config, attempts) /\ state.lastExit = "nonzero"

\* The phase, the generation, the timer and the processes of a session agree,
\* whatever answers late.
SessionConsistent ==
  /\ SessionTypeOK
  /\ OneBackend
  /\ PhaseHasCause
  /\ TimerFollowsConfig

\* Exit code zero ends a session on purpose: only Enter or a click reconnects
\* it, whatever is changed or answered late (docs/architecture.md:263-266).
CleanExitStays ==
  [][state.phase = "detached" /\ state.lastExit = "zero" =>
       UNCHANGED state \/ Enter \/ Stop]_sessionVars

\* When connections fail only so many times, a session that connects or
\* retries gets its connection back, unless it is detached or stopped.
Recovers ==
  state.phase \in {"connecting", "reconnecting"} ~>
    state.phase \in {"connected", "detached", "stopped"}
=============================================================================
