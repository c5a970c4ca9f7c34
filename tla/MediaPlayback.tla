--------------------------- MODULE MediaPlayback ---------------------------
(***************************************************************************)
(* One playable media block: the playback controller of                    *)
(* src/src/media/playback-controller.ts, the ffmpeg frame stream of        *)
(* decoder.ts and the mpv clock of mpv-controller.ts below it, and the     *)
(* presentation switches of src/src/ui/media-block-renderable.ts above it. *)
(*                                                                         *)
(* play, pause and seek are async methods with no queue between them: each *)
(* reads the status, takes a generation, waits for the old stream and for  *)
(* mpv, and only then writes what it decided.  A call is therefore a       *)
(* process here, and one step of it is the code between two awaits.  A     *)
(* pump (the loop that shows the frames of one stream) is named by the     *)
(* generation of the call that started it.  mpv answers one socket in      *)
(* order; a call waits for its answer at the place it has in mpvQueue.     *)
(***************************************************************************)
EXTENDS Naturals, Sequences, FiniteSets, SequencesExt

CONSTANTS Calls,           \* slots for overlapping calls of the controller
          Autoplay,        \* the slot of the play() that initialize() appends
          MaxGeneration,   \* bound: generations a behaviour may use
          MaxFailures      \* bound: failures of ffmpeg and mpv

\* A call and a pump are told apart in the queue of mpv.
ASSUME PlaybackAssumption == /\ IsFiniteSet(Calls) /\ Autoplay \in Calls
                             /\ MaxGeneration \in Nat \ {0} /\ MaxFailures \in Nat
                             /\ Calls \cap (1..MaxGeneration) = {}

VARIABLES
  autoplay,     \* options.autoplay, fixed when the controller is created
  init,         \* initializePromise: none, probing, mpv, frame, ready, closing, failed
  status,       \* stateValue.status
  generation,   \* this.generation
  stream,       \* this.stream, 0 for undefined
  pumpRef,      \* this.pumpPromise, 0 for undefined
  pump,         \* the place of each pump in its loop
  running,      \* the streams whose ffmpeg process is alive
  closing,      \* the streams whose close() has been called
  mpv,          \* none, starting, up, closing, gone
  mpvQueue,     \* who waits for an answer of mpv, in the order of the commands
  call,         \* the calls in flight
  disposal,     \* none, stopping, closing, done
  shown,        \* the origin of the frame on the surface
  presented,    \* the block's presented flag
  cancelled,    \* the activation of the block was aborted while it loaded
  resume,       \* the block's resumeAfterPresentation flag
  failures,     \* failures so far
  overtaken     \* history: a play() has gone on although a later call had gone through

media   == <<autoplay, init, mpv, mpvQueue>>
streams == <<stream, pumpRef, pump, running, closing>>
block   == <<presented, cancelled, resume>>
vars    == <<autoplay, init, status, generation, stream, pumpRef, pump, running, closing, mpv,
             mpvQueue, call, disposal, shown, presented, cancelled, resume, failures, overtaken>>

Generations == 1..MaxGeneration
Fresh(op, at) == [op |-> op, at |-> at, gen |-> 0, kill |-> 0, wait |-> 0, was |-> "no"]
Idle     == Fresh("idle", "-")
disposed == disposal # "none"
Settled  == init \in {"ready", "failed"}
PumpDone(p) == p # 0 => pump[p] = "done"
Live(g)  == pump[g] \notin {"none", "done"}
Stale(g) == g # generation \/ disposed

TypeOK ==
  /\ autoplay \in BOOLEAN
  /\ init \in {"none", "probing", "mpv", "frame", "ready", "closing", "failed"}
  /\ status \in {"loading", "paused", "playing", "ended", "error"}
  /\ generation \in 0..MaxGeneration
  /\ {stream, pumpRef} \subseteq 0..MaxGeneration
  /\ pump \in [Generations -> {"none", "opening", "reading", "starting", "sync", "ahead",
                               "closing", "failing", "ending", "done"}]
  /\ closing \subseteq running /\ running \subseteq Generations
  /\ mpv \in {"none", "starting", "up", "closing", "gone"}
  /\ mpvQueue \in Seq(Calls \cup Generations)
  /\ call \in [Calls -> [op : {"idle", "play", "pause", "seek"},
                         at : {"-", "init", "stop", "mpv", "decode"},
                         gen : 0..MaxGeneration, kill : 0..MaxGeneration,
                         wait : 0..MaxGeneration, was : {"no", "yes", "start"}]]
  /\ disposal \in {"none", "stopping", "closing", "done"}
  /\ shown \in [by : {"nothing", "init", "seek", "pump"}, gen : 0..MaxGeneration]
  /\ {presented, cancelled} \subseteq BOOLEAN /\ resume \in BOOLEAN /\ failures \in 0..MaxFailures
  /\ overtaken \in BOOLEAN

Init ==
  /\ autoplay = FALSE /\ init = "none" /\ status = "loading" /\ generation = 0
  /\ stream = 0 /\ pumpRef = 0 /\ pump = [g \in Generations |-> "none"]
  /\ running = {} /\ closing = {} /\ mpv = "none" /\ mpvQueue = <<>>
  /\ call = [c \in Calls |-> Idle] /\ disposal = "none"
  /\ shown = [by |-> "nothing", gen |-> 0]
  /\ presented = TRUE /\ cancelled = FALSE /\ resume = FALSE /\ failures = 0
  /\ overtaken = FALSE

----------------------------------------------------------------------------
(* mpv: a command is queued, answered in order, or rejected with the process. *)

Answered(who) == mpv = "up" /\ mpvQueue # <<>> /\ Head(mpvQueue) = who
Rejected(who) == who \notin Range(mpvQueue)
Ask(who)      == mpvQueue' = IF mpv = "up" THEN Append(mpvQueue, who) ELSE mpvQueue
AskAfterAnswer(who) == mpvQueue' = Append(Tail(mpvQueue), who)
HasClock == mpv # "none"

\* (Mutant of MpvFails: the pending commands are forgotten, not rejected.)
MpvFailsSilently ==
  /\ mpv = "up" /\ ~disposed /\ failures < MaxFailures
  /\ mpv' = "gone" /\ failures' = failures + 1
  /\ UNCHANGED <<autoplay, init, mpvQueue, status, generation, streams, call, disposal, shown,
                 block, overtaken>>

\* mpv dies, or a command times out: the pending commands are rejected.
MpvFails ==
  /\ mpv = "up" /\ ~disposed /\ failures < MaxFailures
  /\ mpv' = "gone" /\ mpvQueue' = <<>> /\ failures' = failures + 1
  /\ UNCHANGED <<autoplay, init, status, generation, streams, call, disposal, shown, block,
                 overtaken>>

----------------------------------------------------------------------------
(* initialize(): probe, mpv, first frame. *)

Begin(c, op) == call' = [call EXCEPT ![c] = Fresh(op, "init")]
Ends(c)      == call' = [call EXCEPT ![c] = Idle]

InitializeStarts ==
  /\ init = "none" /\ ~disposed
  /\ init' = "probing" /\ \E wanted \in BOOLEAN : autoplay' = (wanted /\ presented)
  /\ UNCHANGED <<status, generation, streams, mpv, mpvQueue, call, disposal, shown, block,
                 failures, overtaken>>

\* Only a video with an audio stream gets mpv; everything else uses the ffmpeg clock.
Probed ==
  /\ init = "probing" /\ ~disposed
  /\ \/ init' = "mpv" /\ mpv' = "starting"
     \/ init' = "frame" /\ UNCHANGED mpv
  /\ UNCHANGED <<autoplay, status, generation, streams, mpvQueue, call, disposal, shown, block,
                 failures, overtaken>>

MpvStarted ==
  /\ init = "mpv" /\ mpv = "starting"
  /\ mpv' = "up" /\ init' = (IF disposed THEN "closing" ELSE "frame")
  /\ UNCHANGED <<autoplay, status, generation, streams, mpvQueue, call, disposal, shown, block,
                 failures, overtaken>>

\* load() looks at its signal first: an activation that was cancelled meanwhile
\* disposes the controller before the play() of autoplay goes on.
FirstFrame ==
  /\ init = "frame" /\ ~disposed
  /\ init' = "ready" /\ status' = "paused" /\ shown' = [by |-> "init", gen |-> 0]
  /\ IF cancelled THEN disposal' = "stopping" /\ generation' = generation + 1
                  ELSE UNCHANGED <<disposal, generation>>
  /\ IF autoplay THEN Begin(Autoplay, "play") ELSE UNCHANGED call
  /\ UNCHANGED <<autoplay, streams, mpv, mpvQueue, block, failures, overtaken>>

\* runBinary(): ffprobe or ffmpeg fails or times out, or dispose() has aborted it.
BinaryFails ==
  /\ disposed \/ failures < MaxFailures
  /\ failures' = IF disposed THEN failures ELSE failures + 1

\* The probe or the decoding of the first frame ends so.
InitializeFails ==
  /\ init \in {"probing", "frame"} /\ BinaryFails
  /\ status' = IF disposed THEN status ELSE "error"
  /\ init' = "closing"
  /\ UNCHANGED <<autoplay, generation, streams, mpv, mpvQueue, call, disposal, shown, block,
                 overtaken>>

\* mpv exits before its socket is ready, or the deadline of its start passes.
MpvStartFails ==
  /\ init = "mpv" /\ failures < MaxFailures
  /\ failures' = failures + 1 /\ status' = IF disposed THEN status ELSE "error"
  /\ init' = "closing"
  /\ UNCHANGED <<autoplay, generation, streams, mpv, mpvQueue, call, disposal, shown, block,
                 overtaken>>

\* The catch block closes mpv before the promise rejects.
InitializeRejects ==
  /\ init = "closing"
  /\ init' = "failed" /\ mpvQueue' = <<>>
  /\ mpv' = IF HasClock THEN "gone" ELSE mpv
  /\ UNCHANGED <<autoplay, status, generation, streams, call, disposal, shown, block, failures,
                 overtaken>>

----------------------------------------------------------------------------
(* play(), pause() and seek(). *)

Free(c) == c # Autoplay /\ call[c].op = "idle" /\ generation + Cardinality(Calls) < MaxGeneration

\* The user's controls (and autoplay) wait for the load of the block.
Control(c) ==
  /\ Free(c) /\ ~disposed /\ Settled
  /\ \E op \in {"play", "pause", "seek"} : Begin(c, op)
  /\ UNCHANGED <<media, status, generation, streams, disposal, shown, block, failures, overtaken>>

\* setPresented(): before the controller exists only a medium that would
\* start by itself is remembered.
Hide(c) ==
  /\ Free(c) /\ ~disposed /\ presented
  /\ presented' = FALSE /\ cancelled' = (cancelled \/ (init # "none" /\ ~Settled))
  /\ IF init = "none"
     THEN (\E wanted \in BOOLEAN : resume' = (resume \/ wanted)) /\ UNCHANGED call
     ELSE resume' = (resume \/ status = "playing") /\ Begin(c, "pause")
  /\ UNCHANGED <<media, status, generation, streams, disposal, shown, failures, overtaken>>

Show(c) ==
  /\ Free(c) /\ ~disposed /\ ~presented
  /\ presented' = TRUE
  /\ IF resume /\ init # "none" THEN resume' = FALSE /\ Begin(c, "play")
                               ELSE UNCHANGED <<resume, call>>
  /\ UNCHANGED <<media, cancelled, status, generation, streams, disposal, shown, failures,
                 overtaken>>

\* ++generation and the synchronous half of stopStream().
TakeStream(c, op, was) ==
  /\ generation < MaxGeneration
  /\ generation' = generation + 1
  /\ call' = [call EXCEPT ![c] = [op |-> op, at |-> "stop", gen |-> generation + 1,
                                  kill |-> stream, wait |-> pumpRef, was |-> was]]
  /\ stream' = 0 /\ closing' = closing \cup ({stream} \cap running)

\* The code behind `await this.initialize()`: the status decides once, here.
Decides(c) ==
  /\ call[c].at = "init" /\ Settled
  /\ IF \/ init = "failed" \/ disposed
        \/ call[c].op = "play" /\ status = "playing"
        \/ call[c].op = "pause" /\ status # "playing"
     THEN Ends(c) /\ UNCHANGED <<generation, stream, closing>>
     ELSE IF call[c].op = "play" /\ status = "ended"
          THEN TakeStream(c, "seek", "start")
          ELSE TakeStream(c, call[c].op, IF call[c].op = "seek" /\ status = "playing"
                                         THEN "yes" ELSE "no")
  /\ UNCHANGED <<media, status, pumpRef, pump, running, disposal, shown, block, failures,
                 overtaken>>

\* (Mutant of Awaits: the pump of the old stream is not awaited.)
AwaitsStream(k, p) == k \notin running

Awaits(k, p) == k \notin running /\ PumpDone(p)

\* A later call has gone through already: its generation is no longer in flight.
LaterIsThrough(c) ==
  \E g \in Generations : /\ call[c].gen < g /\ g <= generation
                         /\ \A d \in Calls : call[d].gen # g

\* What each method does once the stream is stopped and mpv has answered.  None
\* of them looks at the generation again.
StartPump(c) ==
  /\ status' = "playing" /\ pumpRef' = call[c].gen
  /\ pump' = [pump EXCEPT ![call[c].gen] = "opening"]
  /\ overtaken' = (overtaken \/ LaterIsThrough(c)) /\ Ends(c)

Acts(c) ==
  \/ call[c].op = "play" /\ StartPump(c)
  \/ call[c].op = "pause" /\ status' = "paused" /\ Ends(c) /\ UNCHANGED <<pump, overtaken>>
  \/ /\ call[c].op = "seek" /\ call' = [call EXCEPT ![c].at = "decode"]
     /\ UNCHANGED <<status, pump, overtaken>>

Stopped(c) ==
  /\ call[c].at = "stop" /\ Awaits(call[c].kill, call[c].wait)
  /\ LET cleared == IF pumpRef = call[c].wait THEN 0 ELSE pumpRef IN
       IF HasClock
       THEN /\ call' = [call EXCEPT ![c].at = "mpv"] /\ Ask(c)
            /\ pumpRef' = cleared /\ UNCHANGED <<status, pump, overtaken>>
       ELSE /\ Acts(c) /\ (call[c].op # "play" => pumpRef' = cleared)
            /\ UNCHANGED mpvQueue
  /\ UNCHANGED <<autoplay, init, mpv, generation, stream, running, closing, disposal, shown,
                 block, failures>>

\* pause and seek of mpv, one command here for the two or three round trips.
ClockSet(c) ==
  /\ call[c].at = "mpv" /\ Answered(c)
  /\ mpvQueue' = Tail(mpvQueue)
  /\ Acts(c) /\ (call[c].op # "play" => UNCHANGED pumpRef)
  /\ UNCHANGED <<autoplay, init, mpv, generation, stream, running, closing, disposal, shown,
                 block, failures>>

\* mpv rejected: the method throws and writes no status.
ClockLost(c) ==
  /\ call[c].at = "mpv" /\ Rejected(c) /\ Ends(c)
  /\ UNCHANGED <<media, status, generation, streams, disposal, shown, block, failures, overtaken>>

\* The frame of a seek is decoded; play() follows when it played before, or
\* when the seek is the rewind of an ended medium.
Decoded(c) ==
  /\ call[c].at = "decode" /\ ~disposed
  /\ shown' = [by |-> "seek", gen |-> call[c].gen] /\ status' = "paused"
  /\ \/ call[c].was = "no" /\ Ends(c) /\ UNCHANGED <<generation, stream, closing>>
     \/ call[c].was = "yes" /\ Begin(c, "play") /\ UNCHANGED <<generation, stream, closing>>
     \/ call[c].was = "start" /\ TakeStream(c, "play", "no")
  /\ UNCHANGED <<media, pumpRef, pump, running, disposal, block, failures, overtaken>>

DecodeFails(c) ==
  /\ call[c].at = "decode" /\ BinaryFails
  /\ Ends(c)
  /\ UNCHANGED <<media, status, generation, streams, disposal, shown, block, overtaken>>

----------------------------------------------------------------------------
(* pump(): one stream of frames. *)

\* (Mutant of PumpEnds: the status is left to the next call.)
PumpEndsSilently(g, newStatus) ==
  /\ pump' = [pump EXCEPT ![g] = "done"]
  /\ pumpRef' = IF pumpRef = g THEN 0 ELSE pumpRef
  /\ stream' = IF g = generation THEN 0 ELSE stream
  /\ UNCHANGED status

\* The end of a pump: catch, finally, and the reference play() kept.
PumpEnds(g, newStatus) ==
  /\ pump' = [pump EXCEPT ![g] = "done"]
  /\ pumpRef' = IF pumpRef = g THEN 0 ELSE pumpRef
  /\ stream' = IF g = generation THEN 0 ELSE stream
  /\ status' = IF Stale(g) THEN status ELSE newStatus

\* (Mutant of Opened: the generation is not compared when the stream opens.)
OpenedLate(g) ==
  /\ pump[g] = "opening" /\ ~disposed
  /\ running' = running \cup {g} /\ stream' = g
  /\ pump' = [pump EXCEPT ![g] = "reading"]
  /\ UNCHANGED <<media, closing, status, generation, pumpRef, call, disposal, shown, block,
                 failures, overtaken>>

\* openFrameStream() resolves: a pump that is no longer wanted closes its stream.
Opened(g) ==
  /\ pump[g] = "opening" /\ ~disposed
  /\ running' = running \cup {g}
  /\ IF Stale(g) THEN /\ pump' = [pump EXCEPT ![g] = "closing"]
                      /\ closing' = closing \cup {g} /\ UNCHANGED stream
                 ELSE /\ pump' = [pump EXCEPT ![g] = "reading"]
                      /\ stream' = g /\ UNCHANGED closing
  /\ UNCHANGED <<media, status, generation, pumpRef, call, disposal, shown, block, failures,
                 overtaken>>

OpenFails(g) ==
  /\ pump[g] = "opening" /\ (disposed \/ failures < MaxFailures)
  /\ failures' = IF disposed THEN failures ELSE failures + 1
  /\ PumpEnds(g, "error")
  /\ UNCHANGED <<media, generation, running, closing, call, disposal, shown, block, overtaken>>

Shows(g) == shown' = [by |-> "pump", gen |-> g]

\* A frame arrives.  The first one (and a wrap of a loop) starts the audio;
\* with a clock, a frame is shown only after mpv has told its position.
FrameArrives(g) ==
  /\ pump[g] = "reading" /\ g \in running \ closing
  /\ IF Stale(g)
     THEN /\ pump' = [pump EXCEPT ![g] = "closing"] /\ closing' = closing \cup {g}
          /\ UNCHANGED <<mpvQueue, shown>>
     ELSE IF HasClock
          THEN /\ \E next \in {"starting", "sync"} : pump' = [pump EXCEPT ![g] = next]
               /\ Ask(g) /\ UNCHANGED <<closing, shown>>
          ELSE Shows(g) /\ UNCHANGED <<pump, closing, mpvQueue>>
  /\ UNCHANGED <<autoplay, init, mpv, status, generation, stream, pumpRef, running, call,
                 disposal, block, failures, overtaken>>

AudioStarted(g) ==
  /\ pump[g] = "starting" /\ Answered(g)
  /\ pump' = [pump EXCEPT ![g] = "sync"] /\ AskAfterAnswer(g)
  /\ UNCHANGED <<autoplay, init, mpv, status, generation, stream, pumpRef, running, closing, call,
                 disposal, shown, block, failures, overtaken>>

\* synchronize(): the frame is on time and shown, late and dropped, or early.
Synchronized(g) ==
  /\ pump[g] = "sync" /\ Answered(g)
  /\ mpvQueue' = Tail(mpvQueue)
  /\ \/ Shows(g) /\ pump' = [pump EXCEPT ![g] = "reading"]
     \/ pump' = [pump EXCEPT ![g] = "reading"] /\ UNCHANGED shown
     \/ pump' = [pump EXCEPT ![g] = "ahead"] /\ UNCHANGED shown
  /\ UNCHANGED <<autoplay, init, mpv, status, generation, stream, pumpRef, running, closing, call,
                 disposal, block, failures, overtaken>>

\* The sleep of an early frame ends.
Waited(g) ==
  /\ pump[g] = "ahead"
  /\ IF Stale(g) THEN pump' = [pump EXCEPT ![g] = "reading"] /\ UNCHANGED mpvQueue
                 ELSE pump' = [pump EXCEPT ![g] = "sync"] /\ Ask(g)
  /\ UNCHANGED <<autoplay, init, mpv, status, generation, stream, pumpRef, running, closing, call,
                 disposal, shown, block, failures, overtaken>>

\* mpv rejected inside the loop: the loop leaves and closes its stream first.
PumpLosesClock(g) ==
  /\ pump[g] \in {"starting", "sync"} /\ Rejected(g)
  /\ pump' = [pump EXCEPT ![g] = "failing"] /\ closing' = closing \cup ({g} \cap running)
  /\ UNCHANGED <<media, status, generation, stream, pumpRef, running, call, disposal, shown,
                 block, failures, overtaken>>

\* ffmpeg reaches the end of the medium, or dies.
StreamEnds(g) ==
  /\ g \in running \ closing /\ Live(g)
  /\ running' = running \ {g}
  /\ UNCHANGED <<media, status, generation, stream, pumpRef, pump, closing, call, disposal,
                 shown, block, failures, overtaken>>

\* The loop has ended: its stream was closed by someone, is at its end, or broke.
\* At the end of a medium with a clock the status waits for mpv to pause.
LoopEnds(g) ==
  /\ \/ /\ pump[g] = "closing" /\ g \notin running
        /\ PumpEnds(g, status) /\ UNCHANGED <<mpvQueue, failures>>
     \/ /\ pump[g] = "reading" /\ Stale(g) /\ (g \in closing \/ g \notin running)
        /\ PumpEnds(g, status) /\ UNCHANGED <<mpvQueue, failures>>
     \/ /\ pump[g] = "failing" /\ (g \in closing \/ g \notin running)
        /\ PumpEnds(g, "error") /\ UNCHANGED <<mpvQueue, failures>>
     \/ /\ pump[g] = "reading" /\ ~Stale(g) /\ g \notin running
        /\ \/ /\ failures < MaxFailures /\ failures' = failures + 1
              /\ PumpEnds(g, "error") /\ UNCHANGED mpvQueue
           \/ /\ UNCHANGED failures
              /\ IF HasClock THEN /\ pump' = [pump EXCEPT ![g] = "ending"] /\ Ask(g)
                                  /\ UNCHANGED <<stream, pumpRef, status>>
                             ELSE PumpEnds(g, "ended") /\ UNCHANGED mpvQueue
  /\ UNCHANGED <<autoplay, init, mpv, generation, running, closing, call, disposal, shown, block,
                 overtaken>>

\* mpv has paused, or cannot: "ended" is written without another look at the generation.
EndConfirmed(g) ==
  /\ pump[g] = "ending"
  /\ \/ Answered(g) /\ mpvQueue' = Tail(mpvQueue)
     \/ Rejected(g) /\ UNCHANGED mpvQueue
  /\ pump' = [pump EXCEPT ![g] = "done"] /\ status' = "ended"
  /\ pumpRef' = IF pumpRef = g THEN 0 ELSE pumpRef
  /\ stream' = IF g = generation THEN 0 ELSE stream
  /\ UNCHANGED <<autoplay, init, mpv, generation, running, closing, call, disposal, shown, block,
                 failures, overtaken>>

\* SIGTERM, or SIGKILL 500 ms later: a closed stream's process exits.
StreamExits(g) ==
  /\ g \in closing
  /\ running' = running \ {g} /\ closing' = closing \ {g}
  /\ UNCHANGED <<media, status, generation, stream, pumpRef, pump, call, disposal, shown, block,
                 failures, overtaken>>

----------------------------------------------------------------------------
(* dispose(): the block is destroyed. *)

Dispose ==
  /\ ~disposed /\ init # "none" /\ generation < MaxGeneration
  /\ disposal' = "stopping" /\ generation' = generation + 1
  /\ stream' = 0 /\ closing' = closing \cup running
  /\ UNCHANGED <<media, status, pumpRef, pump, running, call, shown, block, failures, overtaken>>

\* stopStream() and the initialization have settled: close mpv.
DisposeStops ==
  /\ disposal = "stopping" /\ PumpDone(pumpRef) /\ Settled
  /\ disposal' = "closing" /\ pumpRef' = 0
  /\ mpv' = (IF mpv = "up" THEN "closing" ELSE mpv) /\ mpvQueue' = <<>>
  /\ UNCHANGED <<autoplay, init, status, generation, stream, pump, running, closing, call, shown,
                 block, failures, overtaken>>

Disposed ==
  /\ disposal = "closing"
  /\ disposal' = "done" /\ mpv' = IF mpv = "closing" THEN "gone" ELSE mpv
  /\ UNCHANGED <<autoplay, init, mpvQueue, status, generation, streams, call, shown, block,
                 failures, overtaken>>

Initializing == InitializeStarts \/ Probed \/ MpvStarted \/ MpvStartFails \/ FirstFrame
                \/ InitializeFails \/ InitializeRejects
CallStep(c)  == Decides(c) \/ Stopped(c) \/ ClockSet(c) \/ ClockLost(c) \/ Decoded(c)
                \/ DecodeFails(c)
PumpStep(g)  == Opened(g) \/ OpenFails(g) \/ FrameArrives(g) \/ AudioStarted(g)
                \/ Synchronized(g) \/ Waited(g) \/ PumpLosesClock(g) \/ LoopEnds(g)
                \/ EndConfirmed(g)

\* An await of something already settled is a microtask: it goes before any event.
Prompt(c) == \/ call[c].at = "init" /\ Settled
             \/ call[c].at = "stop" /\ call[c].kill = 0 /\ call[c].wait = 0

Event ==
  \/ Initializing \/ MpvFails \/ Dispose \/ DisposeStops \/ Disposed
  \/ \E c \in Calls : Control(c) \/ Hide(c) \/ Show(c) \/ CallStep(c)
  \/ \E g \in Generations : PumpStep(g) \/ StreamEnds(g) \/ StreamExits(g)

Next == \/ \E c \in Calls : Prompt(c) /\ CallStep(c)
        \/ (~\E c \in Calls : Prompt(c)) /\ Event

Spec == Init /\ [][Next]_vars

\* Promises settle, mpv answers within its timeout, ffmpeg exits when killed.
Fairness ==
  /\ WF_vars(Initializing \/ DisposeStops \/ Disposed)
  /\ \A c \in Calls : WF_vars(CallStep(c))
  /\ WF_vars(\E g \in Generations : StreamExits(g))
  /\ \A g \in Generations : WF_vars(PumpStep(g))

FairSpec == Spec /\ Fairness

----------------------------------------------------------------------------
(* Properties *)

\* No ffmpeg process runs without an owner: it is the controller's stream, or
\* close() has been called on it.  A pump that opens late must not leave one.
OwnedStreams == running \subseteq closing \cup {stream}

\* When dispose() has resolved every ffmpeg of the block has been told to go,
\* mpv is gone, and no pump can open another, however far the start of mpv or
\* a play() was when the block was destroyed.
DisposedIsQuiet ==
  disposal = "done" => /\ running \subseteq closing /\ mpv \in {"none", "gone"}
                       /\ Settled

\* Every process has an owner until it is told to go, also when the block is
\* destroyed in the middle of a call.
Consistent ==
  /\ TypeOK
  /\ OwnedStreams
  /\ DisposedIsQuiet

\* A pump never paints over the frame of a later request: once a seek has shown
\* its frame, frames of the stream it stopped do not come back.  The code keeps
\* this until a play() goes on that a later call has overtaken (README.md,
\* "Known divergences").
NoFrameFromThePast ==
  [][~overtaken /\ shown' # shown /\ shown'.by = "pump" => shown'.gen >= shown.gen]_vars

\* "playing" is not left behind: when no call is in flight and nothing failed,
\* the status says playing only while a pump of the current generation lives.
\* The play() that goes on too late breaks this as well.
PlayingIsLive ==
  (/\ status = "playing" /\ failures = 0 /\ ~disposed /\ ~overtaken
   /\ \A c \in Calls : call[c].op = "idle") => Live(generation)

\* A hidden block shows nothing and makes no sound once its calls have settled.  The code does
\* not keep this: README.md, "Known divergences".
HiddenIsQuiet ==
  (/\ ~presented /\ ~disposed /\ \A c \in Calls : call[c].op = "idle")
    => ~\E g \in Generations : g = generation /\ Live(g)

\* Every call settles and dispose() resolves: no wait of a call for a pump, of
\* a pump for mpv, or of dispose() for both is circular, with mpv dead too.
EverythingSettles ==
  /\ \A c \in Calls : call[c].op # "idle" ~> call[c].op = "idle"
  /\ disposed ~> disposal = "done"
=============================================================================
