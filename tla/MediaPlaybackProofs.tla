------------------------ MODULE MediaPlaybackProofs -------------------------
(***************************************************************************)
(* Theorems about MediaPlayback, for any number of overlapping calls,      *)
(* generations and failures.                                               *)
(***************************************************************************)
EXTENDS MediaPlayback, TLAPS

-----------------------------------------------------------------------------
(* The inductive invariant                                                 *)

\* TypeOK, in parts.
PlainTypes ==
  /\ init \in {"none", "probing", "mpv", "frame", "ready", "closing", "failed"}
  /\ status \in {"loading", "paused", "playing", "ended", "error"}
  /\ generation \in 0..MaxGeneration
  /\ {stream, pumpRef} \subseteq 0..MaxGeneration
  /\ closing \subseteq running /\ running \subseteq Generations
  /\ mpv \in {"none", "starting", "up", "closing", "gone"}
  /\ disposal \in {"none", "stopping", "closing", "done"}
  /\ failures \in 0..MaxFailures

FlagTypes ==
  /\ autoplay \in BOOLEAN /\ presented \in BOOLEAN /\ cancelled \in BOOLEAN
  /\ resume \in BOOLEAN /\ overtaken \in BOOLEAN

ShownType == shown \in [by : {"nothing", "init", "seek", "pump"}, gen : 0..MaxGeneration]

PumpType ==
  pump \in [Generations -> {"none", "opening", "reading", "starting", "sync", "ahead",
                            "closing", "failing", "ending", "done"}]

CallType ==
  call \in [Calls -> [op : {"idle", "play", "pause", "seek"},
                      at : {"-", "init", "stop", "mpv", "decode"},
                      gen : 0..MaxGeneration, kill : 0..MaxGeneration,
                      wait : 0..MaxGeneration, was : {"no", "yes", "start"}]]

QueueType == mpvQueue \in Seq(Calls \cup Generations)

\* A call that has taken a generation.
InFlight(c) == call[c].at \in {"stop", "mpv", "decode"}

\* Nothing has happened to the streams before the initialization has settled.
UnsettledIsEmpty ==
  ~Settled => /\ stream = 0 /\ pumpRef = 0 /\ running = {} /\ shown.gen = 0
              /\ \A g \in Generations : pump[g] = "none"
              /\ \A c \in Calls : ~InFlight(c)
              /\ ~disposed => generation = 0

\* mpv goes with the initialization that starts it and the dispose() that closes it.
MpvStage ==
  /\ init \in {"none", "probing"} => mpv = "none"
  /\ mpv = "starting" => init \in {"mpv", "closing"}
  /\ init = "mpv" => mpv = "starting"
  /\ mpv = "closing" => disposal = "closing"
  /\ disposal \in {"closing", "done"} => Settled /\ mpv \in {"none", "closing", "gone"}
  /\ disposal = "done" => mpv # "closing"

\* Each call in flight has a generation of its own, and no pump of it yet.
CallHasGeneration ==
  \A c \in Calls :
    /\ call[c].op = "idle" => call[c].at = "-"
    /\ ~InFlight(c) => call[c].gen = 0
    /\ InFlight(c) =>
         /\ call[c].gen \in Generations /\ call[c].gen <= generation
         /\ pump[call[c].gen] = "none"
         /\ \A d \in Calls \ {c} : call[d].gen # call[c].gen

\* A pump has a process only from the opening of its stream to the end of it.
PumpHasStream ==
  /\ \A g \in Generations : pump[g] # "none" => g <= generation
  /\ \A g \in Generations : pump[g] \in {"none", "opening", "ending"} => g \notin running

\* The controller's stream is that of the newest generation, or there is none.
StreamIsNewest ==
  /\ stream # 0 => stream = generation
  /\ disposed => stream = 0

\* Without a failure a call that waits for mpv has its command in the queue.
HealthyAnswers ==
  failures = 0 /\ ~disposed =>
    /\ init \notin {"closing", "failed"} /\ mpv # "gone"
    /\ \A c \in Calls : call[c].at = "mpv" => c \in Range(mpvQueue)

Typed == PlainTypes /\ FlagTypes /\ ShownType /\ CallType /\ PumpType /\ QueueType

Owned == /\ UnsettledIsEmpty /\ MpvStage /\ CallHasGeneration /\ PumpHasStream
         /\ StreamIsNewest /\ OwnedStreams

\* A pump that may still show a frame.
MayShow(g) == /\ pump[g] \notin {"none", "done", "closing"}
              /\ pump[g] = "opening" => g = generation

\* There is one such pump at most, the one stopStream() will wait for, and every
\* call in flight with a later generation is waiting for it.
OnePumpShows ==
  ~overtaken => \A g \in Generations : MayShow(g) =>
    /\ pumpRef = g
    /\ \A c \in Calls : InFlight(c) /\ g < call[c].gen => call[c].at = "stop" /\ call[c].wait = g

\* The frame on the surface is not newer than the pump that may paint over it.
ShownIsOlder ==
  /\ shown.gen <= generation
  /\ ~overtaken => \A g \in Generations : MayShow(g) => shown.gen <= g

\* "playing" has a pump, or the newest call is still to write its status.
PlayingHasCause ==
  /\ \A g \in Generations : pump[g] = "closing" => Stale(g)
  /\ status = "playing" /\ failures = 0 /\ ~disposed /\ ~overtaken =>
       \/ generation # 0 /\ Live(generation)
       \/ \E c \in Calls : InFlight(c) /\ call[c].gen = generation

Ordered == HealthyAnswers /\ OnePumpShows /\ ShownIsOlder /\ PlayingHasCause

IInv == Typed /\ Owned /\ Ordered

-----------------------------------------------------------------------------
(* The queue of mpv and the calls                                          *)

\* A command is queued at the end and answered at the head; no other is lost.
LEMMA QueueFacts ==
  ASSUME NEW S, NEW q \in Seq(S)
  PROVE  /\ \A x \in S : Append(q, x) \in Seq(S) /\ Range(Append(q, x)) = Range(q) \cup {x}
         /\ q # <<>> => /\ Tail(q) \in Seq(S)
                        /\ \A x \in Range(q) : x # Head(q) => x \in Range(Tail(q))
<1>1. ASSUME NEW x \in S
      PROVE  Append(q, x) \in Seq(S) /\ Range(Append(q, x)) = Range(q) \cup {x}
  <2>1. Append(q, x) \in Seq(S) /\ Len(Append(q, x)) = Len(q) + 1
    OBVIOUS
  <2>2. Append(q, x)[Len(q) + 1] = x /\ \A i \in 1..Len(q) : Append(q, x)[i] = q[i]
    OBVIOUS
  <2> QED
    BY <2>1, <2>2 DEF Range
<1>2. ASSUME q # <<>>, NEW x \in Range(q), x # Head(q)
      PROVE  x \in Range(Tail(q))
  <2>1. PICK i \in 1..Len(q) : q[i] = x
    BY DEF Range
  <2>2. i # 1 /\ i - 1 \in 1..Len(Tail(q)) /\ Tail(q)[i - 1] = x
    BY <1>2, <2>1
  <2>3. i - 1 \in DOMAIN Tail(q)
    BY <1>2, <2>2
  <2> QED
    BY <2>2, <2>3 DEF Range
<1> QED
  BY <1>1, <1>2

\* What a pump asks or is told leaves the commands of the calls in the queue.
LEMMA PumpsKeepCommands ==
  ASSUME PlaybackAssumption, QueueType, NEW g \in Generations,
         \/ Ask(g) \/ UNCHANGED mpvQueue
         \/ Answered(g) /\ (AskAfterAnswer(g) \/ mpvQueue' = Tail(mpvQueue))
  PROVE  QueueType' /\ \A c \in Calls : c \in Range(mpvQueue) => c \in Range(mpvQueue')
<1> g \in Calls \cup Generations /\ g \notin Calls
  BY DEF PlaybackAssumption, Generations
<1>1. CASE Ask(g) \/ UNCHANGED mpvQueue
  <2>1. Append(mpvQueue, g) \in Seq(Calls \cup Generations)
        /\ Range(mpvQueue) \subseteq Range(Append(mpvQueue, g))
    BY QueueFacts DEF QueueType
  <2> QED
    BY <1>1, <2>1 DEF Ask, QueueType
<1>2. ASSUME Answered(g), AskAfterAnswer(g) \/ mpvQueue' = Tail(mpvQueue)
      PROVE  QueueType' /\ \A c \in Calls : c \in Range(mpvQueue) => c \in Range(mpvQueue')
  <2> DEFINE rest == Tail(mpvQueue)
  <2>1. rest \in Seq(Calls \cup Generations)
    BY <1>2, QueueFacts DEF Answered, QueueType
  <2>2. \A c \in Calls : c \in Range(mpvQueue) => c \in Range(rest)
    BY <1>2, QueueFacts DEF Answered, QueueType
  <2> HIDE DEF rest
  <2>3. /\ Append(rest, g) \in Seq(Calls \cup Generations)
        /\ Range(rest) \subseteq Range(Append(rest, g))
    BY <2>1, QueueFacts
  <2> QED
    BY <1>2, <2>1, <2>2, <2>3 DEF AskAfterAnswer, QueueType, rest
<1> QED
  BY <1>1, <1>2

\* A call's own command: it is queued, or it is answered and the others stay.
LEMMA CallsKeepCommands ==
  ASSUME QueueType, NEW c \in Calls
  PROVE  /\ Ask(c) => /\ QueueType'
                      /\ \A d \in Calls : d \in Range(mpvQueue) => d \in Range(mpvQueue')
                      /\ mpv = "up" => c \in Range(mpvQueue')
         /\ Answered(c) /\ mpvQueue' = Tail(mpvQueue) =>
              /\ QueueType'
              /\ \A d \in Calls \ {c} : d \in Range(mpvQueue) => d \in Range(mpvQueue')
<1>1. Append(mpvQueue, c) \in Seq(Calls \cup Generations)
      /\ Range(Append(mpvQueue, c)) = Range(mpvQueue) \cup {c}
  BY QueueFacts DEF QueueType
<1>2. Answered(c) => /\ Tail(mpvQueue) \in Seq(Calls \cup Generations)
                     /\ \A d \in Range(mpvQueue) : d # c => d \in Range(Tail(mpvQueue))
  BY QueueFacts DEF Answered, QueueType
<1> QED
  BY <1>1, <1>2 DEF Ask, QueueType

\* No call takes a generation: each stays as it is, waits for the
\* initialization, or is over.
Calm == \A d \in Calls :
  \/ call'[d] = call[d]
  \/ /\ call'[d].at \in {"-", "init"} /\ call'[d].gen = 0
     /\ call'[d].op = "idle" => call'[d].at = "-"

LEMMA BeginIsCalm ==
  ASSUME CallType, NEW c \in Calls, NEW op \in {"play", "pause", "seek"}, Begin(c, op),
         PlaybackAssumption
  PROVE  CallType' /\ Calm /\ \A d \in Calls \ {c} : call'[d] = call[d]
<1>1. \A d \in Calls : call'[d] = IF d = c THEN Fresh(op, "init") ELSE call[d]
  BY DEF CallType, Begin
<1>2. CallType'
  BY DEF CallType, PlaybackAssumption, Begin, Fresh
<1> QED
  BY <1>1, <1>2 DEF Calm, Fresh

LEMMA EndIsCalm ==
  ASSUME CallType, NEW c \in Calls, Ends(c), PlaybackAssumption
  PROVE  CallType' /\ Calm /\ call'[c] = Idle /\ \A d \in Calls \ {c} : call'[d] = call[d]
<1>1. CallType'
  BY DEF CallType, Ends, Idle, Fresh, PlaybackAssumption
<1>2. \A d \in Calls : call'[d] = IF d = c THEN Idle ELSE call[d]
  BY DEF CallType, Ends
<1> QED
  BY <1>1, <1>2 DEF Calm, Idle, Fresh

\* A call in flight goes on to its next await.
LEMMA GoesOn ==
  ASSUME CallType, NEW c \in Calls, NEW at \in {"mpv", "decode"},
         call' = [call EXCEPT ![c].at = at]
  PROVE  /\ CallType'
         /\ \A d \in Calls : /\ call'[d].at = IF d = c THEN at ELSE call[d].at
                             /\ call'[d].op = call[d].op /\ call'[d].gen = call[d].gen
                             /\ call'[d].wait = call[d].wait
<1>1. \A d \in Calls : call'[d] = IF d = c THEN [call[c] EXCEPT !.at = at] ELSE call[d]
  BY DEF CallType
<1>2. CallType'
  BY <1>1 DEF CallType
<1> QED
  BY <1>1 DEF CallType

-----------------------------------------------------------------------------
(* The steps                                                               *)

\* The actions of a call that take a generation, and those that act on it.
LEMMA TakenIsKept ==
  ASSUME IInv, NEW c \in Calls,
         NEW op \in {"play", "pause", "seek"}, NEW was \in {"no", "yes", "start"},
         TakeStream(c, op, was), Settled, ~disposed,
         UNCHANGED <<media, pumpRef, pump, running, disposal, block, failures, overtaken>>,
         PlainTypes', ShownType',
         \/ shown' = shown
         \/ call[c].at = "decode" /\ shown'.gen = call[c].gen
  PROVE  IInv'
<1> USE IInv, PlaybackAssumption DEF IInv, Typed, Owned, Ordered
<1> DEFINE new == [op |-> op, at |-> "stop", gen |-> generation + 1,
                   kill |-> stream, wait |-> pumpRef, was |-> was]
<1>1. /\ new \in [op : {"idle", "play", "pause", "seek"},
                  at : {"-", "init", "stop", "mpv", "decode"},
                  gen : 0..MaxGeneration, kill : 0..MaxGeneration,
                  wait : 0..MaxGeneration, was : {"no", "yes", "start"}]
      /\ generation + 1 \in Generations
  BY DEF TakeStream, PlainTypes, Generations
<1>2. /\ CallType' /\ generation' = generation + 1
      /\ \A d \in Calls : call'[d] = IF d = c THEN new ELSE call[d]
  BY <1>1 DEF TakeStream, CallType
<1>3. /\ new.op = op /\ new.at = "stop" /\ new.gen = generation + 1 /\ new.wait = pumpRef
      /\ op # "idle"
  OBVIOUS
<1> HIDE DEF new
<1>4. /\ stream' = 0 /\ closing' = closing \cup ({stream} \cap running)
  BY DEF TakeStream
<1>5. FlagTypes' /\ PumpType' /\ QueueType'
  BY DEF FlagTypes, PumpType, QueueType, block, media
<1>6. UnsettledIsEmpty' /\ MpvStage'
  BY DEF UnsettledIsEmpty, MpvStage, Settled, disposed, media
<1>7. pump[generation + 1] = "none"
  BY <1>1 DEF PumpHasStream, PlainTypes
<1>8. CallHasGeneration'
  <2>1. \A d \in Calls : call[d].gen # generation + 1
    BY DEF CallHasGeneration, PlainTypes, InFlight
  <2>2. \A d \in Calls \ {c} : call'[d] = call[d] /\ call'[d].gen # call'[c].gen
    BY <1>2, <1>3, <2>1
  <2>3. call'[c].op # "idle" /\ call'[c].at = "stop" /\ call'[c].gen = generation'
    BY <1>2, <1>3
  <2>4. \A d \in Calls \ {c} : InFlight(d) => call[d].gen <= generation'
    BY <1>2 DEF CallHasGeneration, InFlight, PlainTypes, Generations
  <2> QED
    BY <1>1, <1>2, <1>7, <2>2, <2>3, <2>4 DEF CallHasGeneration, InFlight
<1>9. PumpHasStream' /\ StreamIsNewest' /\ OwnedStreams'
  BY <1>2, <1>4
    DEF PumpHasStream, StreamIsNewest, OwnedStreams, PlainTypes, Generations
<1>10. HealthyAnswers'
  BY <1>2, <1>3 DEF HealthyAnswers, disposed, media
<1>11. \A g \in Generations : MayShow(g)' => MayShow(g) /\ g <= generation
  BY <1>2 DEF MayShow, PumpHasStream, PlainTypes, Generations
<1>12. OnePumpShows'
  BY <1>2, <1>3, <1>11 DEF OnePumpShows, InFlight
<1>13. ShownIsOlder'
  <2>1. shown'.gen <= generation'
    BY <1>2 DEF ShownIsOlder, CallHasGeneration, PlainTypes, ShownType
  <2>2. CASE shown' = shown
    BY <2>1, <2>2, <1>11 DEF ShownIsOlder
  <2>3. CASE call[c].at = "decode" /\ shown'.gen = call[c].gen
    BY <2>1, <1>11 DEF ShownIsOlder, OnePumpShows, CallHasGeneration, Generations
  <2> QED
    BY <2>2, <2>3
<1>14. PlayingHasCause'
  BY <1>2, <1>3, <1>7 DEF PlayingHasCause, InFlight, Stale
<1> QED
  BY <1>2, <1>5, <1>6, <1>8, <1>9, <1>10, <1>12, <1>13, <1>14

LEMMA ActionIsKept ==
  ASSUME IInv, NEW c \in Calls, InFlight(c), Acts(c),
         call[c].at = "stop" => PumpDone(call[c].wait),
         call[c].op # "play" => pumpRef' = pumpRef \/ (pumpRef' = 0 /\ PumpDone(pumpRef)),
         QueueType', \A d \in Calls \ {c} : d \in Range(mpvQueue) => d \in Range(mpvQueue'),
         UNCHANGED <<autoplay, init, mpv, generation, stream, running, closing, disposal, shown,
                     block, failures>>
  PROVE  IInv'
<1> USE IInv, PlaybackAssumption DEF IInv, Typed, Owned, Ordered
<1> DEFINE k == call[c].gen
<1>k. /\ k \in Generations /\ k <= generation /\ pump[k] = "none" /\ k # 0
      /\ call[c].op # "idle" /\ Settled
      /\ \A d \in Calls \ {c} : call[d].gen # k
  BY DEF CallHasGeneration, InFlight, Generations, UnsettledIsEmpty
<1>t. ShownType' /\ MpvStage' /\ StreamIsNewest' /\ OwnedStreams' /\ Settled'
  BY <1>k DEF ShownType, MpvStage, StreamIsNewest, OwnedStreams, Settled, disposed
<1>1. CASE call[c].op = "play" /\ StartPump(c)
  <2> HIDE DEF k
  <2>1. /\ status' = "playing" /\ pumpRef' = k /\ overtaken' = (overtaken \/ LaterIsThrough(c))
        /\ pump' = [pump EXCEPT ![k] = "opening"]
    BY <1>1 DEF StartPump, k
  <2>o. ~overtaken' => ~overtaken /\ ~LaterIsThrough(c)
    BY <2>1
  <2>2. CallType' /\ Calm /\ call'[c] = Idle /\ \A d \in Calls \ {c} : call'[d] = call[d]
    BY <1>1, EndIsCalm DEF StartPump
  <2>3. Idle.op = "idle" /\ Idle.at = "-" /\ Idle.gen = 0
    BY DEF Idle, Fresh
  <2>4. PumpType' /\ \A g \in Generations : pump'[g] = IF g = k THEN "opening" ELSE pump[g]
    BY <1>k, <2>1 DEF PumpType
  <2>5. PlainTypes' /\ FlagTypes'
    BY <1>k, <2>1 DEF PlainTypes, FlagTypes, Generations, block
  <2>6. UnsettledIsEmpty'
    BY <1>t DEF UnsettledIsEmpty
  <2>7. CallHasGeneration'
    BY <1>k, <2>2, <2>3, <2>4 DEF CallHasGeneration, InFlight, Generations
  <2>8. PumpHasStream'
    BY <1>k, <2>4 DEF PumpHasStream
  <2>9. HealthyAnswers'
    BY <2>2, <2>3 DEF HealthyAnswers, disposed
  <2>10. ASSUME ~overtaken', NEW g \in Generations, MayShow(g), k <= generation
         PROVE  FALSE
    <3>1. ~overtaken /\ pumpRef = g
      BY <2>o, <2>10 DEF OnePumpShows
    <3>2. ~(g < k)
      BY <2>10, <3>1 DEF OnePumpShows, PumpDone, MayShow, Generations, k
    <3>3. g # k /\ g <= generation
      BY <1>k, <2>10 DEF MayShow, PumpHasStream
    <3>4. \E d \in Calls : call[d].gen = g
      BY <2>o, <2>10, <3>2, <3>3, <1>k DEF LaterIsThrough, Generations, k
    <3> QED
      BY <3>4, <2>10 DEF CallHasGeneration, MayShow, Generations
  <2>11. \A g \in Generations : MayShow(g)' /\ ~overtaken' => g = k /\ k = generation
    BY <1>k, <2>4, <2>10 DEF MayShow
  <2>12. OnePumpShows'
    BY <2>1, <2>2, <2>3, <2>11 DEF OnePumpShows, CallHasGeneration, Generations
  <2>13. ShownIsOlder'
    BY <2>11 DEF ShownIsOlder
  <2>14. PlayingHasCause'
    <3>1. \A g \in Generations : pump'[g] = "closing" => Stale(g)'
      BY <2>4 DEF PlayingHasCause, Stale, disposed
    <3>2. CASE k = generation
      BY <1>k, <2>4, <3>1, <3>2 DEF PlayingHasCause, Live
    <3>3. CASE k # generation /\ ~overtaken'
      <4>1. generation \in Generations /\ k < generation
        BY <1>k, <3>3 DEF Generations, PlainTypes
      <4>2. \E d \in Calls : call[d].gen = generation
        BY <2>o, <3>3, <4>1 DEF LaterIsThrough, Generations, k
      <4>3. \E d \in Calls \ {c} : InFlight(d) /\ call[d].gen = generation
        BY <4>1, <4>2 DEF CallHasGeneration, Generations, k
      <4> QED
        BY <2>2, <3>1, <4>3 DEF PlayingHasCause, InFlight
    <3> QED
      BY <3>1, <3>2, <3>3 DEF PlayingHasCause
  <2> QED
    BY <1>t, <2>2, <2>4, <2>5, <2>6, <2>7, <2>8, <2>9, <2>12, <2>13, <2>14
<1>2. CASE call[c].op # "play"
  <2>1. /\ UNCHANGED <<pump, overtaken>>
        /\ pumpRef' = pumpRef \/ (pumpRef' = 0 /\ PumpDone(pumpRef))
    BY <1>2 DEF Acts
  <2>2. PlainTypes' /\ FlagTypes' /\ PumpType'
    BY <1>2 DEF Acts, PlainTypes, FlagTypes, PumpType, block
  <2>3. UnsettledIsEmpty' /\ PumpHasStream'
    BY <1>t, <2>1 DEF UnsettledIsEmpty, PumpHasStream
  <2>4. \A g \in Generations : MayShow(g)' <=> MayShow(g)
    BY <2>1 DEF MayShow
  <2>5. ShownIsOlder'
    BY <2>1, <2>4 DEF ShownIsOlder
  <2>6. \A g \in Generations : MayShow(g) /\ ~overtaken => pumpRef' = g
    BY <2>1 DEF OnePumpShows, PumpDone, MayShow, Generations
  <2>7. CASE call[c].op = "pause" /\ status' = "paused" /\ Ends(c)
    <3>1. CallType' /\ Calm /\ call'[c] = Idle /\ \A d \in Calls \ {c} : call'[d] = call[d]
      BY <2>7, EndIsCalm
    <3>2. Idle.op = "idle" /\ Idle.at = "-" /\ Idle.gen = 0
      BY DEF Idle, Fresh
    <3>3. CallHasGeneration' /\ HealthyAnswers'
      BY <2>1, <3>1, <3>2
        DEF CallHasGeneration, HealthyAnswers, InFlight, Generations, disposed
    <3>4. OnePumpShows'
      BY <2>1, <2>4, <2>6, <3>1, <3>2 DEF OnePumpShows, InFlight
    <3>5. PlayingHasCause'
      BY <2>1, <2>7 DEF PlayingHasCause, Stale, disposed
    <3> QED
      BY <1>t, <2>2, <2>3, <2>5, <3>1, <3>3, <3>4, <3>5
  <2>8. CASE call[c].op = "seek" /\ call' = [call EXCEPT ![c].at = "decode"] /\ UNCHANGED status
    <3>1. /\ CallType'
          /\ \A d \in Calls : /\ call'[d].at = IF d = c THEN "decode" ELSE call[d].at
                              /\ call'[d].op = call[d].op /\ call'[d].gen = call[d].gen
                              /\ call'[d].wait = call[d].wait
      BY <2>8, GoesOn
    <3>2. CallHasGeneration' /\ HealthyAnswers'
      BY <2>1, <3>1 DEF CallHasGeneration, HealthyAnswers, InFlight, disposed
    <3>3. OnePumpShows'
      <4>1. \A g \in Generations : MayShow(g) /\ ~overtaken => ~(g < k)
        BY DEF OnePumpShows, PumpDone, MayShow, InFlight, Generations
      <4> QED
        BY <2>1, <2>4, <2>6, <3>1, <4>1 DEF OnePumpShows, InFlight
    <3>4. PlayingHasCause'
      BY <2>1, <2>8 DEF PlayingHasCause, Stale, Live, InFlight, disposed
    <3> QED
      BY <1>t, <2>2, <2>3, <2>5, <3>1, <3>2, <3>3, <3>4
  <2> QED
    BY <1>2, <2>7, <2>8 DEF Acts
<1> QED
  BY <1>1, <1>2 DEF Acts

LEMMA KeepsDecides ==
  ASSUME IInv, NEW c \in Calls, Decides(c)
  PROVE  IInv'
<1> USE IInv, PlaybackAssumption DEF IInv, Typed, Owned, Ordered
<1>0. /\ call[c].at = "init" /\ Settled
      /\ UNCHANGED <<media, status, pumpRef, pump, running, disposal,
                     shown, block, failures, overtaken>>
  BY DEF Decides
<1>1. CASE Ends(c) /\ UNCHANGED <<generation, stream, closing>>
  <2>1. CallType' /\ Calm /\ call'[c] = Idle /\ \A d \in Calls \ {c} : call'[d] = call[d]
    BY <1>1, EndIsCalm
  <2>2. Idle.op = "idle" /\ Idle.at = "-" /\ Idle.gen = 0 /\ ~InFlight(c)
    BY <1>0 DEF Idle, Fresh, InFlight
  <2>3. PlainTypes' /\ FlagTypes' /\ ShownType' /\ PumpType' /\ QueueType'
    BY <1>0, <1>1
      DEF PlainTypes, FlagTypes, ShownType, PumpType, QueueType, media, block
  <2>4. UnsettledIsEmpty' /\ MpvStage' /\ PumpHasStream' /\ StreamIsNewest' /\ OwnedStreams'
    BY <1>0, <1>1
      DEF UnsettledIsEmpty, MpvStage, PumpHasStream, StreamIsNewest, OwnedStreams,
          Settled, disposed, media
  <2>5. CallHasGeneration' /\ HealthyAnswers'
    BY <1>0, <1>1, <2>1, <2>2
      DEF CallHasGeneration, HealthyAnswers, InFlight, disposed, media
  <2>6. OnePumpShows' /\ ShownIsOlder'
    BY <1>0, <1>1, <2>1, <2>2 DEF OnePumpShows, ShownIsOlder, MayShow, InFlight
  <2>7. PlayingHasCause'
    BY <1>0, <1>1, <2>1 DEF PlayingHasCause, InFlight, Stale, Live, disposed
  <2> QED
    BY <2>1, <2>3, <2>4, <2>5, <2>6, <2>7
<1>2. ASSUME NEW op \in {"play", "pause", "seek"}, NEW was \in {"no", "yes", "start"},
             TakeStream(c, op, was), ~disposed
      PROVE  IInv'
  <2>1. PlainTypes' /\ ShownType'
    BY <1>0, <1>2 DEF TakeStream, PlainTypes, ShownType, media
  <2> QED
    BY <1>0, <1>2, <2>1, TakenIsKept
<1>3. call[c].op \in {"play", "pause", "seek"}
  BY <1>0 DEF CallHasGeneration, CallType
<1> QED
  BY <1>1, <1>2, <1>3 DEF Decides

LEMMA KeepsStopped ==
  ASSUME IInv, NEW c \in Calls, Stopped(c)
  PROVE  IInv'
<1> USE IInv, PlaybackAssumption DEF IInv, Typed, Owned, Ordered
<1>0. /\ call[c].at = "stop" /\ InFlight(c) /\ PumpDone(call[c].wait) /\ Settled
      /\ UNCHANGED <<autoplay, init, mpv, generation, stream, running, closing, disposal, shown,
                     block, failures>>
  BY DEF Stopped, Awaits, InFlight, UnsettledIsEmpty
<1>1. CASE ~HasClock
  <2>1. /\ Acts(c) /\ UNCHANGED mpvQueue
        /\ call[c].op # "play" => pumpRef' = pumpRef \/ (pumpRef' = 0 /\ PumpDone(pumpRef))
    BY <1>0, <1>1 DEF Stopped
  <2> QED
    BY <1>0, <2>1, ActionIsKept DEF QueueType
<1>2. CASE HasClock
  <2>1. /\ call' = [call EXCEPT ![c].at = "mpv"] /\ Ask(c) /\ UNCHANGED <<status, pump, overtaken>>
        /\ pumpRef' = pumpRef \/ (pumpRef' = 0 /\ PumpDone(pumpRef))
    BY <1>0, <1>2 DEF Stopped
  <2>2. /\ CallType'
        /\ \A d \in Calls : /\ call'[d].at = IF d = c THEN "mpv" ELSE call[d].at
                            /\ call'[d].op = call[d].op /\ call'[d].gen = call[d].gen
                            /\ call'[d].wait = call[d].wait
    BY <2>1, GoesOn
  <2>3. PlainTypes' /\ FlagTypes' /\ ShownType' /\ PumpType'
    BY <1>0, <2>1 DEF PlainTypes, FlagTypes, ShownType, PumpType, block
  <2>4. UnsettledIsEmpty' /\ MpvStage' /\ PumpHasStream' /\ StreamIsNewest' /\ OwnedStreams'
    BY <1>0, <2>1
      DEF UnsettledIsEmpty, MpvStage, PumpHasStream, StreamIsNewest, OwnedStreams,
          Settled, disposed
  <2>5. CallHasGeneration'
    BY <1>0, <2>1, <2>2 DEF CallHasGeneration, InFlight
  <2>6. failures = 0 /\ ~disposed => mpv = "up"
    BY <1>0, <1>2
      DEF HasClock, HealthyAnswers, MpvStage, Settled, PlainTypes, disposed
  <2>7. QueueType' /\ HealthyAnswers'
    BY <1>0, <2>1, <2>6, CallsKeepCommands DEF HealthyAnswers, disposed
  <2>8. \A g \in Generations : MayShow(g) /\ ~overtaken => pumpRef' = g /\ ~(g < call[c].gen)
    BY <1>0, <2>1 DEF OnePumpShows, PumpDone, MayShow, Generations
  <2>9. OnePumpShows' /\ ShownIsOlder'
    BY <1>0, <2>1, <2>8 DEF OnePumpShows, ShownIsOlder, MayShow, InFlight
  <2>10. PlayingHasCause'
    BY <1>0, <2>1 DEF PlayingHasCause, Stale, Live, InFlight, disposed
  <2> QED
    BY <2>2, <2>3, <2>4, <2>5, <2>7, <2>9, <2>10
<1> QED
  BY <1>1, <1>2

LEMMA KeepsClockSet ==
  ASSUME IInv, NEW c \in Calls, ClockSet(c)
  PROVE  IInv'
<1>1. QueueType' /\ \A d \in Calls \ {c} : d \in Range(mpvQueue) => d \in Range(mpvQueue')
  BY CallsKeepCommands DEF IInv, Typed, ClockSet
<1>2. /\ InFlight(c) /\ call[c].at # "stop" /\ Acts(c) /\ (call[c].op # "play" => UNCHANGED pumpRef)
      /\ UNCHANGED <<autoplay, init, mpv, generation, stream, running, closing, disposal, shown,
                     block, failures>>
  BY DEF ClockSet, InFlight
<1> QED
  BY <1>1, <1>2, ActionIsKept

LEMMA KeepsDecoded ==
  ASSUME IInv, NEW c \in Calls, Decoded(c)
  PROVE  IInv'
<1> USE IInv, PlaybackAssumption DEF IInv, Typed, Owned, Ordered
<1>0. /\ call[c].at = "decode" /\ InFlight(c) /\ Settled /\ ~disposed
      /\ shown' = [by |-> "seek", gen |-> call[c].gen] /\ status' = "paused"
      /\ UNCHANGED <<media, pumpRef, pump, running, disposal, block, failures, overtaken>>
  BY DEF Decoded, InFlight, UnsettledIsEmpty
<1>1. ShownType' /\ shown'.gen = call[c].gen
  BY <1>0 DEF ShownType, CallType
<1>2. CASE UNCHANGED <<generation, stream, closing>> /\ (Ends(c) \/ Begin(c, "play"))
  <2>1. CallType' /\ Calm
    BY <1>2, EndIsCalm, BeginIsCalm
  <2>2. PlainTypes' /\ FlagTypes' /\ PumpType' /\ QueueType'
    BY <1>0, <1>2 DEF PlainTypes, FlagTypes, PumpType, QueueType, media, block
  <2>3. UnsettledIsEmpty' /\ MpvStage' /\ PumpHasStream' /\ StreamIsNewest' /\ OwnedStreams'
    BY <1>0, <1>2
      DEF UnsettledIsEmpty, MpvStage, PumpHasStream, StreamIsNewest, OwnedStreams,
          Settled, disposed, media
  <2>4. CallHasGeneration' /\ HealthyAnswers'
    BY <1>0, <1>2, <2>1
      DEF CallHasGeneration, HealthyAnswers, Calm, InFlight, Generations, media
  <2>5. \A g \in Generations : MayShow(g)' <=> MayShow(g)
    BY <1>0, <1>2 DEF MayShow
  <2>6. OnePumpShows'
    BY <1>0, <2>1, <2>5 DEF OnePumpShows, Calm, InFlight
  <2>7. ShownIsOlder'
    BY <1>0, <1>2, <2>5
      DEF ShownIsOlder, OnePumpShows, CallHasGeneration, Generations
  <2>8. PlayingHasCause'
    BY <1>0, <1>2 DEF PlayingHasCause, Stale, disposed
  <2> QED
    BY <1>1, <2>1, <2>2, <2>3, <2>4, <2>6, <2>7, <2>8
<1>3. CASE TakeStream(c, "play", "no")
  <2>1. PlainTypes'
    BY <1>0, <1>3 DEF TakeStream, PlainTypes, media
  <2> QED
    BY <1>0, <1>1, <1>3, <2>1, TakenIsKept
<1> QED
  BY <1>0, <1>2, <1>3 DEF Decoded

\* A step that does nothing but begin a call.
LEMMA CalmIsKept ==
  ASSUME IInv, CallType', FlagTypes', Calm,
         \A d \in Calls : InFlight(d) => call'[d] = call[d],
         UNCHANGED <<init, mpv, mpvQueue, status, generation, streams, disposal,
                     shown, failures, overtaken>>
  PROVE  IInv'
<1> USE IInv DEF IInv, Typed, Owned, Ordered
<1>1. PlainTypes' /\ ShownType' /\ PumpType' /\ QueueType'
  BY DEF PlainTypes, ShownType, PumpType, QueueType, streams
<1>2. UnsettledIsEmpty' /\ MpvStage'
  BY DEF UnsettledIsEmpty, MpvStage, Settled, disposed, InFlight, Calm, streams
<1>3. \A d \in Calls : /\ InFlight(d)' <=> InFlight(d)
                       /\ ~InFlight(d) =>
                            /\ call'[d].gen = 0
                            /\ call'[d].op = "idle" => call'[d].at = "-"
  BY DEF Calm, InFlight, CallHasGeneration
<1>4. CallHasGeneration'
  <2>1. \A d \in Calls : InFlight(d) => call'[d].gen \in Generations /\ call'[d].gen # 0
    BY DEF CallHasGeneration, Generations
  <2> QED
    BY <1>3, <2>1 DEF CallHasGeneration, streams
<1>5. PumpHasStream' /\ StreamIsNewest' /\ OwnedStreams'
  BY DEF PumpHasStream, StreamIsNewest, OwnedStreams, disposed, streams
<1>6. HealthyAnswers'
  BY DEF HealthyAnswers, Calm, disposed
<1>7. \A g \in Generations : MayShow(g)' <=> MayShow(g)
  BY DEF MayShow, streams
<1>8. OnePumpShows' /\ ShownIsOlder'
  BY <1>3, <1>7 DEF OnePumpShows, ShownIsOlder, streams
<1>9. PlayingHasCause'
  <2>1. \A g \in Generations : Stale(g)' <=> Stale(g)
    BY DEF Stale, disposed
  <2>2. Live(generation)' <=> Live(generation)
    BY DEF Live, streams
  <2> QED
    BY <1>3, <2>1, <2>2 DEF PlayingHasCause, disposed, streams
<1> QED
  BY <1>1, <1>2, <1>4, <1>5, <1>6, <1>8, <1>9

LEMMA KeepsControl ==
  ASSUME IInv, NEW c \in Calls, Control(c)
  PROVE  IInv'
<1>1. /\ CallType' /\ Calm /\ \A d \in Calls : InFlight(d) => call'[d] = call[d]
  BY BeginIsCalm, PlaybackAssumption
    DEF IInv, Typed, Owned, CallHasGeneration, InFlight, Free, Control
<1>2. FlagTypes'
  BY DEF IInv, Typed, FlagTypes, Control, media, block
<1> QED
  BY <1>1, <1>2, CalmIsKept DEF Control, media

LEMMA KeepsHide ==
  ASSUME IInv, NEW c \in Calls, Hide(c)
  PROVE  IInv'
<1>1. /\ CallType' /\ Calm /\ \A d \in Calls : InFlight(d) => call'[d] = call[d]
  BY BeginIsCalm, PlaybackAssumption
    DEF IInv, Typed, Owned, CallType, CallHasGeneration, Calm, InFlight, Free, Hide
<1>2. FlagTypes'
  BY DEF IInv, Typed, FlagTypes, Hide, media
<1> QED
  BY <1>1, <1>2, CalmIsKept DEF Hide, media

LEMMA KeepsShow ==
  ASSUME IInv, NEW c \in Calls, Show(c)
  PROVE  IInv'
<1>1. /\ CallType' /\ Calm /\ \A d \in Calls : InFlight(d) => call'[d] = call[d]
  BY BeginIsCalm, PlaybackAssumption
    DEF IInv, Typed, Owned, CallType, CallHasGeneration, Calm, InFlight, Free, Show
<1>2. FlagTypes'
  BY DEF IInv, Typed, FlagTypes, Show, media
<1> QED
  BY <1>1, <1>2, CalmIsKept DEF Show, media

LEMMA KeepsInitializeStarts ==
  ASSUME IInv, InitializeStarts
  PROVE  IInv'
<1> USE IInv, PlaybackAssumption DEF IInv, Typed, Owned, Ordered
<1>1. /\ ShownType' /\ CallType' /\ PumpType' /\ QueueType' /\ CallHasGeneration'
      /\ PumpHasStream' /\ StreamIsNewest' /\ OwnedStreams' /\ OnePumpShows'
      /\ ShownIsOlder' /\ PlayingHasCause'
  BY DEF ShownType, CallType, PumpType, QueueType, CallHasGeneration, InFlight,
         PumpHasStream, StreamIsNewest, disposed, OwnedStreams, OnePumpShows,
         MayShow, ShownIsOlder, PlayingHasCause, Stale, Live, InitializeStarts,
         streams
<1>2. PlainTypes'
  BY DEF PlainTypes, InitializeStarts, streams
<1>3. FlagTypes'
  BY DEF FlagTypes, InitializeStarts, disposed, streams, block
<1>4. UnsettledIsEmpty'
  BY DEF UnsettledIsEmpty, Settled, InFlight, InitializeStarts, streams
<1>5. MpvStage'
  BY DEF MpvStage, disposed, InitializeStarts
<1>6. HealthyAnswers'
  BY DEF HealthyAnswers, InitializeStarts
<1> QED
  BY <1>1, <1>2, <1>3, <1>4, <1>5, <1>6

LEMMA KeepsProbed ==
  ASSUME IInv, Probed
  PROVE  IInv'
<1> USE IInv, PlaybackAssumption DEF IInv, Typed, Owned, Ordered
<1>1. /\ FlagTypes' /\ ShownType' /\ CallType' /\ PumpType' /\ QueueType'
      /\ CallHasGeneration' /\ PumpHasStream' /\ StreamIsNewest' /\ OwnedStreams'
      /\ OnePumpShows' /\ ShownIsOlder' /\ PlayingHasCause'
  BY DEF FlagTypes, ShownType, CallType, PumpType, QueueType, CallHasGeneration,
         InFlight, PumpHasStream, StreamIsNewest, disposed, OwnedStreams,
         OnePumpShows, MayShow, ShownIsOlder, PlayingHasCause, Stale, Live, Probed,
         streams, block
<1>2. PlainTypes'
  BY DEF PlainTypes, Probed, streams
<1>3. UnsettledIsEmpty'
  BY DEF UnsettledIsEmpty, Settled, InFlight, Probed, streams
<1>4. MpvStage'
  BY DEF MpvStage, disposed, Probed
<1>5. HealthyAnswers'
  BY DEF HealthyAnswers, Probed
<1> QED
  BY <1>1, <1>2, <1>3, <1>4, <1>5

LEMMA KeepsMpvStarted ==
  ASSUME IInv, MpvStarted
  PROVE  IInv'
<1> USE IInv, PlaybackAssumption DEF IInv, Typed, Owned, Ordered
<1>1. /\ FlagTypes' /\ ShownType' /\ CallType' /\ PumpType' /\ QueueType'
      /\ CallHasGeneration' /\ PumpHasStream' /\ StreamIsNewest' /\ OwnedStreams'
      /\ OnePumpShows' /\ ShownIsOlder' /\ PlayingHasCause'
  BY DEF FlagTypes, ShownType, CallType, PumpType, QueueType, CallHasGeneration,
         InFlight, PumpHasStream, StreamIsNewest, disposed, OwnedStreams,
         OnePumpShows, MayShow, ShownIsOlder, PlayingHasCause, Stale, Live,
         MpvStarted, streams, block
<1>2. PlainTypes'
  BY DEF PlainTypes, MpvStarted, streams
<1>3. UnsettledIsEmpty'
  BY DEF UnsettledIsEmpty, Settled, InFlight, disposed, MpvStarted, streams
<1>4. MpvStage'
  BY DEF MpvStage, MpvStarted
<1>5. HealthyAnswers'
  BY DEF HealthyAnswers, disposed, MpvStarted
<1> QED
  BY <1>1, <1>2, <1>3, <1>4, <1>5

LEMMA KeepsMpvStartFails ==
  ASSUME IInv, MpvStartFails
  PROVE  IInv'
<1> USE IInv, PlaybackAssumption DEF IInv, Typed, Owned, Ordered
<1>1. /\ FlagTypes' /\ ShownType' /\ CallType' /\ PumpType' /\ QueueType'
      /\ CallHasGeneration' /\ PumpHasStream' /\ StreamIsNewest' /\ OwnedStreams'
      /\ OnePumpShows' /\ ShownIsOlder'
  BY DEF FlagTypes, ShownType, CallType, PumpType, QueueType, CallHasGeneration,
         InFlight, PumpHasStream, StreamIsNewest, disposed, OwnedStreams,
         OnePumpShows, MayShow, ShownIsOlder, MpvStartFails, streams, block
<1>2. PlainTypes'
  BY DEF PlainTypes, MpvStartFails, streams
<1>3. UnsettledIsEmpty'
  BY DEF UnsettledIsEmpty, Settled, InFlight, disposed, MpvStartFails, streams
<1>4. MpvStage'
  BY DEF MpvStage, MpvStartFails
<1>5. HealthyAnswers'
  BY DEF HealthyAnswers, PlainTypes, MpvStartFails
<1>6. PlayingHasCause'
  BY DEF PlayingHasCause, Stale, disposed, MpvStartFails, streams
<1> QED
  BY <1>1, <1>2, <1>3, <1>4, <1>5, <1>6

LEMMA KeepsFirstFrame ==
  ASSUME IInv, FirstFrame
  PROVE  IInv'
<1> USE IInv, PlaybackAssumption DEF IInv, Typed, Owned, Ordered
<1>0. CallType' /\ Calm /\ \A d \in Calls : InFlight(d) => call'[d] = call[d]
  BY BeginIsCalm DEF Calm, CallType, UnsettledIsEmpty, Settled, FirstFrame
<1>1. /\ FlagTypes' /\ PumpType' /\ QueueType' /\ OwnedStreams'
  BY DEF FlagTypes, PumpType, QueueType, OwnedStreams, FirstFrame, streams, block
<1>2. PlainTypes'
  BY DEF PlainTypes, UnsettledIsEmpty, Settled, FirstFrame, streams
<1>3. ShownType'
  BY DEF ShownType, FirstFrame
<1>4. UnsettledIsEmpty'
  BY DEF UnsettledIsEmpty, Settled, FirstFrame
<1>5. MpvStage'
  BY DEF MpvStage, disposed, FirstFrame
<1>6. CallHasGeneration'
  BY <1>0
    DEF CallHasGeneration, InFlight, Generations, PlainTypes, CallType, PumpType,
        UnsettledIsEmpty, Settled, disposed, PumpHasStream, FirstFrame, streams,
        block, Calm, Generations
<1>7. PumpHasStream'
  BY DEF PumpHasStream, Generations, PlainTypes, FirstFrame, streams
<1>8. StreamIsNewest'
  BY DEF StreamIsNewest, UnsettledIsEmpty, Settled, FirstFrame, streams
<1>9. HealthyAnswers'
  BY <1>0 DEF HealthyAnswers, FirstFrame, Calm
<1>10. OnePumpShows'
  BY DEF OnePumpShows, MayShow, UnsettledIsEmpty, Settled, FirstFrame, streams
<1>11. ShownIsOlder'
  BY DEF ShownIsOlder, Generations, UnsettledIsEmpty, Settled, FirstFrame
<1>12. PlayingHasCause'
  BY DEF PlayingHasCause, Stale, disposed, FirstFrame, streams
<1> QED
  BY <1>0, <1>1, <1>2, <1>3, <1>4, <1>5, <1>6, <1>7, <1>8, <1>9, <1>10, <1>11, <1>12

LEMMA KeepsInitializeFails ==
  ASSUME IInv, InitializeFails
  PROVE  IInv'
<1> USE IInv, PlaybackAssumption DEF IInv, Typed, Owned, Ordered
<1>1. /\ FlagTypes' /\ ShownType' /\ CallType' /\ PumpType' /\ QueueType'
      /\ CallHasGeneration' /\ PumpHasStream' /\ StreamIsNewest' /\ OwnedStreams'
      /\ OnePumpShows' /\ ShownIsOlder'
  BY DEF FlagTypes, ShownType, CallType, PumpType, QueueType, CallHasGeneration,
         InFlight, PumpHasStream, StreamIsNewest, disposed, OwnedStreams,
         OnePumpShows, MayShow, ShownIsOlder, InitializeFails, streams, block
<1>2. PlainTypes'
  BY DEF PlainTypes, InitializeFails, BinaryFails, streams
<1>3. UnsettledIsEmpty'
  BY DEF UnsettledIsEmpty, Settled, InFlight, disposed, InitializeFails, streams
<1>4. MpvStage'
  BY DEF MpvStage, Settled, InitializeFails
<1>5. HealthyAnswers'
  BY DEF HealthyAnswers, disposed, PlainTypes, InitializeFails, BinaryFails
<1>6. PlayingHasCause'
  BY DEF PlayingHasCause, Stale, disposed, InitializeFails, streams
<1> QED
  BY <1>1, <1>2, <1>3, <1>4, <1>5, <1>6

LEMMA KeepsInitializeRejects ==
  ASSUME IInv, InitializeRejects
  PROVE  IInv'
<1> USE IInv, PlaybackAssumption DEF IInv, Typed, Owned, Ordered
<1>1. /\ FlagTypes' /\ ShownType' /\ CallType' /\ PumpType' /\ CallHasGeneration'
      /\ PumpHasStream' /\ StreamIsNewest' /\ OwnedStreams' /\ OnePumpShows'
      /\ ShownIsOlder' /\ PlayingHasCause'
  BY DEF FlagTypes, ShownType, CallType, PumpType, CallHasGeneration, InFlight,
         PumpHasStream, StreamIsNewest, disposed, OwnedStreams, OnePumpShows,
         MayShow, ShownIsOlder, PlayingHasCause, Stale, Live, InitializeRejects,
         streams, block
<1>2. PlainTypes'
  BY DEF PlainTypes, InitializeRejects, streams
<1>3. QueueType'
  BY DEF QueueType, InitializeRejects
<1>4. UnsettledIsEmpty'
  BY DEF UnsettledIsEmpty, Settled, InitializeRejects
<1>5. MpvStage'
  BY DEF MpvStage, Settled, InitializeRejects, HasClock
<1>6. HealthyAnswers'
  BY DEF HealthyAnswers, disposed, InitializeRejects
<1> QED
  BY <1>1, <1>2, <1>3, <1>4, <1>5, <1>6

LEMMA KeepsMpvFails ==
  ASSUME IInv, MpvFails
  PROVE  IInv'
<1> USE IInv, PlaybackAssumption DEF IInv, Typed, Owned, Ordered
<1>1. /\ FlagTypes' /\ ShownType' /\ CallType' /\ PumpType' /\ UnsettledIsEmpty'
      /\ CallHasGeneration' /\ PumpHasStream' /\ StreamIsNewest' /\ OwnedStreams'
      /\ OnePumpShows' /\ ShownIsOlder'
  BY DEF FlagTypes, ShownType, CallType, PumpType, UnsettledIsEmpty, Settled,
         InFlight, disposed, CallHasGeneration, PumpHasStream, StreamIsNewest,
         OwnedStreams, OnePumpShows, MayShow, ShownIsOlder, MpvFails, streams, block
<1>2. PlainTypes'
  BY DEF PlainTypes, MpvFails, streams
<1>3. QueueType'
  BY DEF QueueType, MpvFails
<1>4. MpvStage'
  BY DEF MpvStage, MpvFails
<1>5. HealthyAnswers'
  BY DEF HealthyAnswers, PlainTypes, MpvFails
<1>6. PlayingHasCause'
  BY DEF PlayingHasCause, Stale, PlainTypes, MpvFails, streams
<1> QED
  BY <1>1, <1>2, <1>3, <1>4, <1>5, <1>6

LEMMA KeepsDispose ==
  ASSUME IInv, Dispose
  PROVE  IInv'
<1> USE IInv, PlaybackAssumption DEF IInv, Typed, Owned, Ordered
<1>1. /\ FlagTypes' /\ ShownType' /\ CallType' /\ PumpType' /\ QueueType'
  BY DEF FlagTypes, ShownType, CallType, PumpType, QueueType, Dispose, media, block
<1>2. PlainTypes'
  BY DEF PlainTypes, Dispose, media
<1>3. UnsettledIsEmpty'
  BY DEF UnsettledIsEmpty, Settled, InFlight, disposed, Dispose, media
<1>4. MpvStage'
  BY DEF MpvStage, disposed, Dispose, media
<1>5. CallHasGeneration'
  BY DEF CallHasGeneration, InFlight, PlainTypes, CallType, Dispose
<1>6. PumpHasStream'
  BY DEF PumpHasStream, Generations, PlainTypes, Dispose
<1>7. StreamIsNewest'
  BY DEF StreamIsNewest, Dispose
<1>8. OwnedStreams'
  BY DEF OwnedStreams, Dispose
<1>9. HealthyAnswers'
  BY DEF HealthyAnswers, Dispose, media
<1>10. OnePumpShows'
  BY DEF OnePumpShows, MayShow, PlainTypes, CallHasGeneration, PumpHasStream,
         Dispose
<1>11. ShownIsOlder'
  BY DEF ShownIsOlder, MayShow, PlainTypes, ShownType, Dispose
<1>12. PlayingHasCause'
  BY DEF PlayingHasCause, Stale, disposed, Dispose
<1> QED
  BY <1>1, <1>2, <1>3, <1>4, <1>5, <1>6, <1>7, <1>8, <1>9, <1>10, <1>11, <1>12

LEMMA KeepsDisposeStops ==
  ASSUME IInv, DisposeStops
  PROVE  IInv'
<1> USE IInv, PlaybackAssumption DEF IInv, Typed, Owned, Ordered
<1>1. /\ FlagTypes' /\ ShownType' /\ CallType' /\ PumpType' /\ CallHasGeneration'
      /\ PumpHasStream' /\ OwnedStreams' /\ ShownIsOlder'
  BY DEF FlagTypes, ShownType, CallType, PumpType, CallHasGeneration, InFlight,
         PumpHasStream, OwnedStreams, ShownIsOlder, MayShow, DisposeStops, block
<1>2. PlainTypes'
  BY DEF PlainTypes, DisposeStops
<1>3. QueueType'
  BY DEF QueueType, DisposeStops
<1>4. UnsettledIsEmpty'
  BY DEF UnsettledIsEmpty, Settled, DisposeStops
<1>5. MpvStage'
  BY DEF MpvStage, Settled, PlainTypes, DisposeStops
<1>6. StreamIsNewest'
  BY DEF StreamIsNewest, disposed, DisposeStops
<1>7. HealthyAnswers'
  BY DEF HealthyAnswers, disposed, DisposeStops
<1>8. OnePumpShows'
  BY DEF OnePumpShows, Generations, MayShow, DisposeStops, PumpDone
<1>9. PlayingHasCause'
  BY DEF PlayingHasCause, Stale, disposed, DisposeStops
<1> QED
  BY <1>1, <1>2, <1>3, <1>4, <1>5, <1>6, <1>7, <1>8, <1>9

LEMMA KeepsDisposed ==
  ASSUME IInv, Disposed
  PROVE  IInv'
<1> USE IInv, PlaybackAssumption DEF IInv, Typed, Owned, Ordered
<1>1. /\ FlagTypes' /\ ShownType' /\ CallType' /\ PumpType' /\ QueueType'
      /\ CallHasGeneration' /\ PumpHasStream' /\ OwnedStreams' /\ OnePumpShows'
      /\ ShownIsOlder'
  BY DEF FlagTypes, ShownType, CallType, PumpType, QueueType, CallHasGeneration,
         InFlight, PumpHasStream, OwnedStreams, OnePumpShows, MayShow, ShownIsOlder,
         Disposed, streams, block
<1>2. PlainTypes'
  BY DEF PlainTypes, Disposed, streams
<1>3. UnsettledIsEmpty'
  BY DEF UnsettledIsEmpty, Settled, InFlight, disposed, Disposed, streams
<1>4. MpvStage'
  BY DEF MpvStage, Settled, Disposed
<1>5. StreamIsNewest'
  BY DEF StreamIsNewest, disposed, Disposed, streams
<1>6. HealthyAnswers'
  BY DEF HealthyAnswers, disposed, Disposed
<1>7. PlayingHasCause'
  BY DEF PlayingHasCause, Stale, disposed, Disposed
<1> QED
  BY <1>1, <1>2, <1>3, <1>4, <1>5, <1>6, <1>7

LEMMA KeepsClockLost ==
  ASSUME IInv, NEW c \in Calls, ClockLost(c)
  PROVE  IInv'
<1> USE IInv, PlaybackAssumption DEF IInv, Typed, Owned, Ordered
<1>1. /\ PlainTypes' /\ FlagTypes' /\ ShownType' /\ PumpType' /\ QueueType'
      /\ MpvStage' /\ PumpHasStream' /\ StreamIsNewest' /\ OwnedStreams'
      /\ ShownIsOlder'
  BY DEF PlainTypes, FlagTypes, ShownType, PumpType, QueueType, MpvStage, Settled,
         PumpHasStream, StreamIsNewest, disposed, OwnedStreams, ShownIsOlder,
         MayShow, ClockLost, media, streams, block
<1>2. CallType'
  BY DEF CallType, ClockLost, Ends, Idle, Fresh
<1>3. UnsettledIsEmpty'
  BY DEF UnsettledIsEmpty, Settled, InFlight, ClockLost, media
<1>4. CallHasGeneration'
  BY DEF CallHasGeneration, InFlight, Generations, ClockLost, Ends, Idle, Fresh,
         streams
<1>5. HealthyAnswers'
  BY DEF HealthyAnswers, disposed, ClockLost, Rejected
<1>6. OnePumpShows'
  BY DEF OnePumpShows, MayShow, InFlight, ClockLost, Ends, Idle, Fresh, streams
<1>7. PlayingHasCause'
  BY DEF PlayingHasCause, Stale, disposed, HealthyAnswers, ClockLost, Rejected,
         streams
<1> QED
  BY <1>1, <1>2, <1>3, <1>4, <1>5, <1>6, <1>7

LEMMA KeepsDecodeFails ==
  ASSUME IInv, NEW c \in Calls, DecodeFails(c)
  PROVE  IInv'
<1> USE IInv, PlaybackAssumption DEF IInv, Typed, Owned, Ordered
<1>1. /\ FlagTypes' /\ ShownType' /\ PumpType' /\ QueueType' /\ MpvStage'
      /\ PumpHasStream' /\ StreamIsNewest' /\ OwnedStreams' /\ ShownIsOlder'
  BY DEF FlagTypes, ShownType, PumpType, QueueType, MpvStage, Settled,
         PumpHasStream, StreamIsNewest, disposed, OwnedStreams, ShownIsOlder,
         MayShow, DecodeFails, media, streams, block
<1>2. PlainTypes'
  BY DEF PlainTypes, DecodeFails, BinaryFails, media, streams
<1>3. CallType'
  BY DEF CallType, DecodeFails, Ends, Idle, Fresh
<1>4. UnsettledIsEmpty'
  BY DEF UnsettledIsEmpty, Settled, InFlight, DecodeFails, media
<1>5. CallHasGeneration'
  BY DEF CallHasGeneration, InFlight, Generations, DecodeFails, Ends, Idle, Fresh,
         streams
<1>6. HealthyAnswers'
  BY DEF HealthyAnswers, disposed, PlainTypes, DecodeFails, BinaryFails
<1>7. OnePumpShows'
  BY DEF OnePumpShows, MayShow, InFlight, DecodeFails, Ends, Idle, Fresh, streams
<1>8. PlayingHasCause'
  BY DEF PlayingHasCause, Stale, disposed, PlainTypes, DecodeFails, BinaryFails,
         streams
<1> QED
  BY <1>1, <1>2, <1>3, <1>4, <1>5, <1>6, <1>7, <1>8

LEMMA KeepsOpened ==
  ASSUME IInv, NEW g \in Generations, Opened(g)
  PROVE  IInv'
<1> USE IInv, PlaybackAssumption DEF IInv, Typed, Owned, Ordered
<1>1. /\ FlagTypes' /\ ShownType' /\ CallType' /\ QueueType' /\ MpvStage'
      /\ HealthyAnswers'
  BY DEF FlagTypes, ShownType, CallType, QueueType, MpvStage, HealthyAnswers,
         disposed, Opened, media, block
<1>2. PlainTypes'
  <2>1. running' = running \cup {g} /\ (closing' = closing \/ closing' = closing \cup {g})
    BY DEF Opened
  <2>2. stream' = stream \/ stream' = g
    BY DEF Opened
  <2>3. closing' \subseteq running' /\ running' \subseteq Generations
    BY <2>1 DEF PlainTypes
  <2>4. stream' \in 0..MaxGeneration
    BY <2>2 DEF PlainTypes, Generations, PlaybackAssumption
  <2> QED
    BY <2>3, <2>4 DEF PlainTypes, Opened, media
<1>3. PumpType'
  BY DEF PumpType, Opened
<1>4. UnsettledIsEmpty'
  BY DEF UnsettledIsEmpty, Settled, Opened, media
<1>5. CallHasGeneration'
  BY DEF CallHasGeneration, InFlight, PumpType, Opened
<1>6. PumpHasStream'
  BY DEF PumpHasStream, PumpType, Opened
<1>7. StreamIsNewest'
  BY DEF StreamIsNewest, disposed, Opened, Stale
<1>8. OwnedStreams'
  BY DEF OwnedStreams, PlainTypes, Generations, StreamIsNewest, Opened, Stale
<1>9. OnePumpShows'
  BY DEF OnePumpShows, MayShow, InFlight, PumpType, Opened, Stale
<1>10. ShownIsOlder'
  BY DEF ShownIsOlder, MayShow, PumpType, Opened, Stale
<1>11. PlayingHasCause'
  BY DEF PlayingHasCause, Generations, Stale, Live, InFlight, PlainTypes, PumpType,
         Opened
<1> QED
  BY <1>1, <1>2, <1>3, <1>4, <1>5, <1>6, <1>7, <1>8, <1>9, <1>10, <1>11

LEMMA KeepsOpenFails ==
  ASSUME IInv, NEW g \in Generations, OpenFails(g)
  PROVE  IInv'
<1> USE IInv, PlaybackAssumption DEF IInv, Typed, Owned, Ordered
<1>1. /\ FlagTypes' /\ ShownType' /\ CallType' /\ QueueType' /\ MpvStage'
  BY DEF FlagTypes, ShownType, CallType, QueueType, MpvStage, Settled, OpenFails,
         media, block
<1>2. PlainTypes'
  BY DEF PlainTypes, OpenFails, PumpEnds, media
<1>3. PumpType'
  BY DEF PumpType, OpenFails, PumpEnds
<1>4. UnsettledIsEmpty'
  BY DEF UnsettledIsEmpty, Settled, OpenFails, media
<1>5. CallHasGeneration'
  BY DEF CallHasGeneration, InFlight, OpenFails, PumpEnds
<1>6. PumpHasStream'
  BY DEF PumpHasStream, OpenFails, PumpEnds
<1>7. StreamIsNewest'
  BY DEF StreamIsNewest, disposed, OpenFails, PumpEnds
<1>8. OwnedStreams'
  BY DEF OwnedStreams, PumpHasStream, StreamIsNewest, OpenFails, PumpEnds
<1>9. HealthyAnswers'
  BY DEF HealthyAnswers, disposed, PlainTypes, OpenFails
<1>10. OnePumpShows'
  BY DEF OnePumpShows, MayShow, InFlight, PumpType, OpenFails, PumpEnds
<1>11. ShownIsOlder'
  BY DEF ShownIsOlder, MayShow, OpenFails, PumpEnds
<1>12. PlayingHasCause'
  BY DEF PlayingHasCause, Stale, disposed, PlainTypes, OpenFails, PumpEnds
<1> QED
  BY <1>1, <1>2, <1>3, <1>4, <1>5, <1>6, <1>7, <1>8, <1>9, <1>10, <1>11, <1>12

LEMMA KeepsFrameArrives ==
  ASSUME IInv, NEW g \in Generations, FrameArrives(g)
  PROVE  IInv'
<1> USE IInv, PlaybackAssumption DEF IInv, Typed, Owned, Ordered
<1>0. QueueType' /\ \A c \in Calls : c \in Range(mpvQueue) => c \in Range(mpvQueue')
  BY PumpsKeepCommands DEF FrameArrives, Shows, HasClock, Stale
<1>p. /\ pump[g] = "reading" /\ g \in running
      /\ pump' = pump \/ \E n \in {"closing", "starting", "sync"} : pump' = [pump EXCEPT ![g] = n]
      /\ UNCHANGED <<generation, running, call>>
  BY DEF FrameArrives, Shows
<1>m. \A h \in Generations : MayShow(h)' => MayShow(h)
  BY DEF MayShow, PumpType, FrameArrives, Stale
<1>s. shown' = shown \/ (shown'.gen = g /\ MayShow(g))
  BY DEF MayShow, Shows, FrameArrives
<1>1. /\ FlagTypes' /\ CallType' /\ MpvStage' /\ StreamIsNewest'
  BY DEF FlagTypes, CallType, MpvStage, Settled, StreamIsNewest, disposed,
         FrameArrives, block
<1>2. PlainTypes'
  BY DEF PlainTypes, FrameArrives, media, Generations, PlaybackAssumption
<1>3. ShownType'
  BY DEF ShownType, Generations, FrameArrives, Shows
<1>4. PumpType'
  BY <1>p DEF PumpType
<1>5. UnsettledIsEmpty'
  BY DEF UnsettledIsEmpty, Settled, FrameArrives
<1>6. CallHasGeneration'
  BY DEF CallHasGeneration, InFlight, PumpType, FrameArrives
<1>7. PumpHasStream'
  BY <1>p DEF PumpHasStream, PumpType
<1>8. OwnedStreams'
  BY DEF OwnedStreams, FrameArrives
<1>9. HealthyAnswers'
  BY <1>0 DEF HealthyAnswers, disposed, FrameArrives
<1>10. OnePumpShows'
  BY <1>m DEF OnePumpShows, InFlight, FrameArrives
<1>11. ShownIsOlder'
  BY <1>m, <1>s
    DEF OnePumpShows, ShownIsOlder, PumpHasStream, Generations, FrameArrives
<1>12. PlayingHasCause'
  BY DEF PlayingHasCause, Generations, Stale, disposed, Live, InFlight, PlainTypes,
         PumpType, FrameArrives
<1> QED
  BY <1>0, <1>1, <1>2, <1>3, <1>4, <1>5, <1>6, <1>7, <1>8, <1>9, <1>10, <1>11, <1>12

LEMMA KeepsAudioStarted ==
  ASSUME IInv, NEW g \in Generations, AudioStarted(g)
  PROVE  IInv'
<1> USE IInv, PlaybackAssumption DEF IInv, Typed, Owned, Ordered
<1>0. QueueType' /\ \A c \in Calls : c \in Range(mpvQueue) => c \in Range(mpvQueue')
  BY PumpsKeepCommands DEF AudioStarted, Shows, HasClock, Stale
<1>1. /\ PlainTypes' /\ FlagTypes' /\ ShownType' /\ CallType' /\ MpvStage'
      /\ StreamIsNewest' /\ OwnedStreams'
  BY DEF PlainTypes, FlagTypes, ShownType, CallType, MpvStage, Settled,
         StreamIsNewest, disposed, OwnedStreams, AudioStarted, block
<1>2. PumpType'
  BY DEF PumpType, AudioStarted
<1>3. UnsettledIsEmpty'
  BY DEF UnsettledIsEmpty, Settled, AudioStarted
<1>4. CallHasGeneration'
  BY DEF CallHasGeneration, InFlight, AudioStarted
<1>5. PumpHasStream'
  BY DEF PumpHasStream, AudioStarted
<1>6. HealthyAnswers'
  BY <1>0 DEF HealthyAnswers, disposed, AudioStarted
<1>7. OnePumpShows'
  BY DEF OnePumpShows, Generations, MayShow, CallHasGeneration, AudioStarted
<1>8. ShownIsOlder'
  BY DEF ShownIsOlder, MayShow, AudioStarted
<1>9. PlayingHasCause'
  BY DEF PlayingHasCause, Stale, disposed, Live, InFlight, AudioStarted
<1> QED
  BY <1>0, <1>1, <1>2, <1>3, <1>4, <1>5, <1>6, <1>7, <1>8, <1>9

LEMMA KeepsSynchronized ==
  ASSUME IInv, NEW g \in Generations, Synchronized(g)
  PROVE  IInv'
<1> USE IInv, PlaybackAssumption DEF IInv, Typed, Owned, Ordered
<1>0. QueueType' /\ \A c \in Calls : c \in Range(mpvQueue) => c \in Range(mpvQueue')
  BY PumpsKeepCommands DEF Synchronized, Shows, HasClock, Stale
<1>m. \A h \in Generations : MayShow(h)' => MayShow(h)
  BY DEF MayShow, PumpType, Synchronized, Stale
<1>s. shown' = shown \/ (shown'.gen = g /\ MayShow(g))
  BY DEF MayShow, Shows, Synchronized
<1>1. /\ PlainTypes' /\ FlagTypes' /\ CallType' /\ MpvStage' /\ StreamIsNewest'
      /\ OwnedStreams'
  BY DEF PlainTypes, FlagTypes, CallType, MpvStage, Settled, StreamIsNewest,
         disposed, OwnedStreams, Synchronized, block
<1>2. ShownType'
  BY DEF ShownType, Generations, Synchronized, Shows
<1>3. PumpType'
  BY DEF PumpType, Synchronized
<1>4. UnsettledIsEmpty'
  BY DEF UnsettledIsEmpty, Settled, Synchronized
<1>5. CallHasGeneration'
  BY DEF CallHasGeneration, InFlight, PumpType, Synchronized
<1>6. PumpHasStream'
  BY DEF PumpHasStream, Generations, PlainTypes, PumpType, CallType,
         CallHasGeneration, InFlight, Synchronized, Shows, block
<1>7. HealthyAnswers'
  BY <1>0 DEF HealthyAnswers, disposed, Synchronized
<1>8. OnePumpShows'
  BY <1>m DEF OnePumpShows, InFlight, Synchronized
<1>9. ShownIsOlder'
  BY <1>m, <1>s
    DEF OnePumpShows, ShownIsOlder, PumpHasStream, Generations, Synchronized
<1>10. PlayingHasCause'
  BY DEF PlayingHasCause, Generations, Stale, disposed, Live, InFlight, PlainTypes,
         PumpType, Synchronized
<1> QED
  BY <1>0, <1>1, <1>2, <1>3, <1>4, <1>5, <1>6, <1>7, <1>8, <1>9, <1>10

LEMMA KeepsWaited ==
  ASSUME IInv, NEW g \in Generations, Waited(g)
  PROVE  IInv'
<1> USE IInv, PlaybackAssumption DEF IInv, Typed, Owned, Ordered
<1>0. QueueType' /\ \A c \in Calls : c \in Range(mpvQueue) => c \in Range(mpvQueue')
  BY PumpsKeepCommands DEF Waited, Shows, HasClock, Stale
<1>1. /\ PlainTypes' /\ FlagTypes' /\ ShownType' /\ CallType' /\ MpvStage'
      /\ StreamIsNewest' /\ OwnedStreams'
  BY DEF PlainTypes, FlagTypes, ShownType, CallType, MpvStage, Settled,
         StreamIsNewest, disposed, OwnedStreams, Waited, block
<1>2. PumpType'
  BY DEF PumpType, Generations, PlainTypes, CallType, CallHasGeneration, InFlight,
         Waited, Stale, disposed, block
<1>3. UnsettledIsEmpty'
  BY DEF UnsettledIsEmpty, Settled, Waited
<1>4. CallHasGeneration'
  BY DEF CallHasGeneration, InFlight, PumpType, Waited
<1>5. PumpHasStream'
  BY DEF PumpHasStream, PumpType, Waited
<1>6. HealthyAnswers'
  BY <1>0 DEF HealthyAnswers, disposed, Waited
<1>7. OnePumpShows'
  BY DEF OnePumpShows, MayShow, InFlight, PumpType, Waited
<1>8. ShownIsOlder'
  BY DEF ShownIsOlder, MayShow, PumpType, Waited
<1>9. PlayingHasCause'
  BY DEF PlayingHasCause, Generations, Stale, disposed, Live, InFlight, PlainTypes,
         PumpType, Waited
<1> QED
  BY <1>0, <1>1, <1>2, <1>3, <1>4, <1>5, <1>6, <1>7, <1>8, <1>9

LEMMA KeepsPumpLosesClock ==
  ASSUME IInv, NEW g \in Generations, PumpLosesClock(g)
  PROVE  IInv'
<1> USE IInv, PlaybackAssumption DEF IInv, Typed, Owned, Ordered
<1>1. /\ FlagTypes' /\ ShownType' /\ CallType' /\ QueueType' /\ MpvStage'
      /\ StreamIsNewest' /\ HealthyAnswers'
  BY DEF FlagTypes, ShownType, CallType, QueueType, MpvStage, Settled,
         StreamIsNewest, disposed, HealthyAnswers, PumpLosesClock, media, block
<1>2. PlainTypes'
  BY DEF PlainTypes, PumpLosesClock, media
<1>3. PumpType'
  BY DEF PumpType, PumpLosesClock
<1>4. UnsettledIsEmpty'
  BY DEF UnsettledIsEmpty, Settled, PumpLosesClock, media
<1>5. CallHasGeneration'
  BY DEF CallHasGeneration, InFlight, PumpLosesClock
<1>6. PumpHasStream'
  BY DEF PumpHasStream, PumpLosesClock
<1>7. OwnedStreams'
  BY DEF OwnedStreams, PumpLosesClock
<1>8. OnePumpShows'
  BY DEF OnePumpShows, MayShow, InFlight, PumpLosesClock
<1>9. ShownIsOlder'
  BY DEF ShownIsOlder, MayShow, PumpLosesClock
<1>10. PlayingHasCause'
  BY DEF PlayingHasCause, Stale, disposed, Live, InFlight, PumpLosesClock
<1> QED
  BY <1>1, <1>2, <1>3, <1>4, <1>5, <1>6, <1>7, <1>8, <1>9, <1>10

LEMMA KeepsLoopEnds ==
  ASSUME IInv, NEW g \in Generations, LoopEnds(g)
  PROVE  IInv'
<1> USE IInv, PlaybackAssumption DEF IInv, Typed, Owned, Ordered
<1>0. QueueType' /\ \A c \in Calls : c \in Range(mpvQueue) => c \in Range(mpvQueue')
  BY PumpsKeepCommands DEF LoopEnds, Shows, HasClock, Stale
<1>p. /\ pump[g] \in {"closing", "reading", "failing"}
      /\ \/ /\ pump' = [pump EXCEPT ![g] = "done"]
            /\ pumpRef # g => pumpRef' = pumpRef
         \/ /\ pump' = [pump EXCEPT ![g] = "ending"] /\ g \notin running
            /\ pump[g] = "reading" /\ pumpRef' = pumpRef
      /\ UNCHANGED <<generation, running, call, overtaken>>
  <2>1. CASE LoopEnds(g) /\ pump[g] = "reading" /\ ~Stale(g)
    BY <2>1 DEF LoopEnds, PumpEnds
  <2>2. CASE ~(pump[g] = "reading" /\ ~Stale(g))
    BY <2>2 DEF LoopEnds, PumpEnds
  <2> QED
    BY <2>1, <2>2
<1>m. \A h \in Generations : MayShow(h)' => MayShow(h) /\ (h # g \/ pumpRef' = pumpRef)
  BY <1>p DEF MayShow, PumpType
<1>1. /\ FlagTypes' /\ ShownType' /\ CallType' /\ MpvStage'
  BY DEF FlagTypes, ShownType, CallType, MpvStage, Settled, LoopEnds, block
<1>2. PlainTypes'
  BY DEF PlainTypes, LoopEnds, PumpEnds
<1>3. PumpType'
  BY DEF PumpType, LoopEnds, PumpEnds
<1>4. UnsettledIsEmpty'
  BY DEF UnsettledIsEmpty, Settled, LoopEnds
<1>5. CallHasGeneration'
  BY <1>p DEF CallHasGeneration, InFlight, PumpType
<1>6. PumpHasStream'
  BY <1>p DEF PumpHasStream, PumpType
<1>7. StreamIsNewest'
  BY DEF StreamIsNewest, disposed, LoopEnds, PumpEnds
<1>8. OwnedStreams'
  BY DEF OwnedStreams, StreamIsNewest, LoopEnds, PumpEnds
<1>9. HealthyAnswers'
  BY <1>0 DEF HealthyAnswers, disposed, PlainTypes, LoopEnds
<1>10. OnePumpShows'
  BY <1>p, <1>m DEF OnePumpShows, InFlight
<1>11. ShownIsOlder'
  BY DEF ShownIsOlder, MayShow, PumpType, LoopEnds, PumpEnds
<1>12. PlayingHasCause'
  BY DEF PlayingHasCause, Generations, Stale, disposed, Live, InFlight, PlainTypes,
         PumpType, LoopEnds, PumpEnds
<1> QED
  BY <1>0, <1>1, <1>2, <1>3, <1>4, <1>5, <1>6, <1>7, <1>8, <1>9, <1>10, <1>11, <1>12

LEMMA KeepsEndConfirmed ==
  ASSUME IInv, NEW g \in Generations, EndConfirmed(g)
  PROVE  IInv'
<1> USE IInv, PlaybackAssumption DEF IInv, Typed, Owned, Ordered
<1>0. QueueType' /\ \A c \in Calls : c \in Range(mpvQueue) => c \in Range(mpvQueue')
  BY PumpsKeepCommands DEF EndConfirmed, Shows, HasClock, Stale
<1>1. /\ FlagTypes' /\ ShownType' /\ CallType' /\ MpvStage'
  BY DEF FlagTypes, ShownType, CallType, MpvStage, Settled, EndConfirmed, block
<1>2. PlainTypes'
  BY DEF PlainTypes, EndConfirmed
<1>3. PumpType'
  BY DEF PumpType, EndConfirmed
<1>4. UnsettledIsEmpty'
  BY DEF UnsettledIsEmpty, Settled, EndConfirmed
<1>5. CallHasGeneration'
  BY DEF CallHasGeneration, InFlight, EndConfirmed
<1>6. PumpHasStream'
  BY DEF PumpHasStream, EndConfirmed
<1>7. StreamIsNewest'
  BY DEF StreamIsNewest, disposed, EndConfirmed
<1>8. OwnedStreams'
  BY DEF OwnedStreams, PumpHasStream, StreamIsNewest, EndConfirmed
<1>9. HealthyAnswers'
  BY <1>0 DEF HealthyAnswers, disposed, EndConfirmed
<1>10. OnePumpShows'
  BY DEF OnePumpShows, MayShow, PumpType, EndConfirmed
<1>11. ShownIsOlder'
  BY DEF ShownIsOlder, MayShow, EndConfirmed
<1>12. PlayingHasCause'
  BY DEF PlayingHasCause, Stale, disposed, EndConfirmed
<1> QED
  BY <1>0, <1>1, <1>2, <1>3, <1>4, <1>5, <1>6, <1>7, <1>8, <1>9, <1>10, <1>11, <1>12

LEMMA KeepsStreamEnds ==
  ASSUME IInv, NEW g \in Generations, StreamEnds(g)
  PROVE  IInv'
<1> USE IInv, PlaybackAssumption DEF IInv, Typed, Owned, Ordered
<1>1. /\ FlagTypes' /\ ShownType' /\ CallType' /\ PumpType' /\ QueueType'
      /\ MpvStage' /\ CallHasGeneration' /\ StreamIsNewest' /\ HealthyAnswers'
      /\ OnePumpShows' /\ ShownIsOlder' /\ PlayingHasCause'
  BY DEF FlagTypes, ShownType, CallType, PumpType, QueueType, MpvStage, Settled,
         CallHasGeneration, InFlight, StreamIsNewest, disposed, HealthyAnswers,
         OnePumpShows, MayShow, ShownIsOlder, PlayingHasCause, Stale, Live,
         StreamEnds, media, block
<1>2. PlainTypes'
  BY DEF PlainTypes, StreamEnds, media
<1>3. UnsettledIsEmpty'
  BY DEF UnsettledIsEmpty, Settled, StreamEnds, media
<1>4. PumpHasStream'
  BY DEF PumpHasStream, StreamEnds
<1>5. OwnedStreams'
  BY DEF OwnedStreams, StreamEnds
<1> QED
  BY <1>1, <1>2, <1>3, <1>4, <1>5

LEMMA KeepsStreamExits ==
  ASSUME IInv, NEW g \in Generations, StreamExits(g)
  PROVE  IInv'
<1> USE IInv, PlaybackAssumption DEF IInv, Typed, Owned, Ordered
<1>1. /\ FlagTypes' /\ ShownType' /\ CallType' /\ PumpType' /\ QueueType'
      /\ MpvStage' /\ CallHasGeneration' /\ StreamIsNewest' /\ HealthyAnswers'
      /\ OnePumpShows' /\ ShownIsOlder' /\ PlayingHasCause'
  BY DEF FlagTypes, ShownType, CallType, PumpType, QueueType, MpvStage, Settled,
         CallHasGeneration, InFlight, StreamIsNewest, disposed, HealthyAnswers,
         OnePumpShows, MayShow, ShownIsOlder, PlayingHasCause, Stale, Live,
         StreamExits, media, block
<1>2. PlainTypes'
  BY DEF PlainTypes, StreamExits, media
<1>3. UnsettledIsEmpty'
  BY DEF UnsettledIsEmpty, Settled, PlainTypes, StreamExits, media
<1>4. PumpHasStream'
  BY DEF PumpHasStream, StreamExits
<1>5. OwnedStreams'
  BY DEF OwnedStreams, StreamExits
<1> QED
  BY <1>1, <1>2, <1>3, <1>4, <1>5

LEMMA KeepsVars ==
  ASSUME IInv, UNCHANGED vars
  PROVE  IInv'
<1> USE IInv DEF IInv, Typed, Owned, Ordered, vars
<1>1. PlainTypes' /\ FlagTypes' /\ ShownType' /\ CallType' /\ PumpType' /\ QueueType'
  BY DEF PlainTypes, FlagTypes, ShownType, CallType, PumpType, QueueType
<1>2. UnsettledIsEmpty' /\ MpvStage' /\ CallHasGeneration'
  BY DEF UnsettledIsEmpty, MpvStage, CallHasGeneration, Settled, disposed, InFlight
<1>3. PumpHasStream' /\ StreamIsNewest' /\ OwnedStreams'
  BY DEF PumpHasStream, StreamIsNewest, OwnedStreams, disposed
<1>4. HealthyAnswers' /\ OnePumpShows' /\ ShownIsOlder' /\ PlayingHasCause'
  BY DEF HealthyAnswers, OnePumpShows, ShownIsOlder, PlayingHasCause, disposed,
         InFlight, MayShow, Stale, Live
<1> QED
  BY <1>1, <1>2, <1>3, <1>4

LEMMA InitHolds == Init => IInv
<1> SUFFICES ASSUME Init PROVE IInv
  OBVIOUS
<1> USE PlaybackAssumption DEF Init, PlaybackAssumption
<1>1. PlainTypes
  <2>1. 0 \in 0..MaxGeneration /\ 0 \in 0..MaxFailures
    OBVIOUS
  <2> QED
    BY <2>1 DEF PlainTypes
<1>7. FlagTypes
  BY DEF FlagTypes
<1>0. ShownType /\ PumpType /\ QueueType
  BY DEF ShownType, PumpType, QueueType
<1>2. CallType /\ \A c \in Calls : call[c] = Idle
  BY DEF CallType, Idle, Fresh
<1>3. Idle.at = "-" /\ Idle.op = "idle" /\ Idle.gen = 0
  BY DEF Idle, Fresh
<1>4. UnsettledIsEmpty /\ MpvStage /\ CallHasGeneration
  BY <1>3 DEF UnsettledIsEmpty, MpvStage, CallHasGeneration, InFlight
<1>5. PumpHasStream /\ StreamIsNewest /\ OwnedStreams
  BY DEF PumpHasStream, StreamIsNewest, OwnedStreams, disposed
<1>6. HealthyAnswers /\ OnePumpShows /\ ShownIsOlder /\ PlayingHasCause
  BY <1>3 DEF HealthyAnswers, OnePumpShows, ShownIsOlder, PlayingHasCause, MayShow
<1> QED
  BY <1>0, <1>1, <1>7, <1>2, <1>4, <1>5, <1>6 DEF IInv, Typed, Owned, Ordered

LEMMA CallStepIsKept ==
  ASSUME IInv, NEW c \in Calls, CallStep(c)
  PROVE  IInv'
BY KeepsDecides, KeepsStopped, KeepsClockSet, KeepsClockLost, KeepsDecoded,
   KeepsDecodeFails
  DEF CallStep

LEMMA PumpStepIsKept ==
  ASSUME IInv, NEW g \in Generations, PumpStep(g)
  PROVE  IInv'
BY KeepsOpened, KeepsOpenFails, KeepsFrameArrives, KeepsAudioStarted,
   KeepsSynchronized, KeepsWaited, KeepsPumpLosesClock, KeepsLoopEnds,
   KeepsEndConfirmed
  DEF PumpStep

LEMMA EventIsKept ==
  ASSUME IInv, Event
  PROVE  IInv'
<1>1. CASE Initializing
  BY <1>1, KeepsInitializeStarts, KeepsProbed, KeepsMpvStarted, KeepsMpvStartFails,
     KeepsFirstFrame, KeepsInitializeFails, KeepsInitializeRejects
    DEF Initializing
<1>2. CASE MpvFails \/ Dispose \/ DisposeStops \/ Disposed
  BY <1>2, KeepsMpvFails, KeepsDispose, KeepsDisposeStops, KeepsDisposed
<1>3. ASSUME NEW c \in Calls, Control(c) \/ Hide(c) \/ Show(c) \/ CallStep(c)
      PROVE  IInv'
  BY <1>3, KeepsControl, KeepsHide, KeepsShow, CallStepIsKept
<1>4. ASSUME NEW g \in Generations, PumpStep(g) \/ StreamEnds(g) \/ StreamExits(g)
      PROVE  IInv'
  BY <1>4, PumpStepIsKept, KeepsStreamEnds, KeepsStreamExits
<1> QED
  BY <1>1, <1>2, <1>3, <1>4 DEF Event

-----------------------------------------------------------------------------
(* The theorems                                                            *)

\* The inductive invariant holds in every state of every behaviour.
THEOREM Inductive == Spec => []IInv
<1>1. ASSUME IInv, [Next]_vars
      PROVE  IInv'
  BY <1>1, CallStepIsKept, EventIsKept, KeepsVars DEF Next
<1> QED
  BY <1>1, InitHolds, PTL DEF Spec

LEMMA InvariantIsConsistent == IInv => Consistent
<1> SUFFICES ASSUME IInv PROVE Consistent
  OBVIOUS
<1> USE DEF IInv, Typed, Owned
<1>1. TypeOK
  BY DEF TypeOK, PlainTypes, FlagTypes, ShownType, CallType, PumpType, QueueType
<1>2. DisposedIsQuiet
  BY DEF DisposedIsQuiet, OwnedStreams, StreamIsNewest, MpvStage, PlainTypes,
         Generations, disposed
<1> QED
  BY <1>1, <1>2 DEF Consistent

\* No ffmpeg is left without an owner, and dispose() leaves nothing running.
THEOREM StreamsAreOwned == Spec => []Consistent
BY Inductive, InvariantIsConsistent, PTL

\* "playing" has a pump, however the calls overlap, as long as no play() goes on
\* that a later call has overtaken.
THEOREM PlayingHasAPump == Spec => []PlayingIsLive
<1>1. IInv => PlayingIsLive
  <2> SUFFICES ASSUME IInv, status = "playing", failures = 0, ~disposed, ~overtaken,
                      \A c \in Calls : call[c].op = "idle"
               PROVE  Live(generation)
    BY DEF PlayingIsLive
  <2>1. \A c \in Calls : ~InFlight(c)
    BY DEF IInv, Owned, CallHasGeneration, InFlight
  <2> QED
    BY <2>1 DEF IInv, Ordered, PlayingHasCause
<1> QED
  BY <1>1, Inductive, PTL

\* No frame of a stopped stream is painted over that of a later request, with
\* the same exception.
THEOREM FramesGoForward == Spec => NoFrameFromThePast
<1>1. ASSUME IInv, Next, ~overtaken, shown' # shown, shown'.by = "pump"
      PROVE  shown'.gen >= shown.gen
  <2>1. ASSUME NEW g \in Generations, FrameArrives(g) \/ Synchronized(g)
        PROVE  shown'.gen >= shown.gen
    <3>1. shown'.gen = g /\ MayShow(g)
      BY <1>1, <2>1 DEF FrameArrives, Synchronized, Shows, MayShow
    <3> QED
      BY <1>1, <3>1 DEF IInv, Ordered, ShownIsOlder
  <2>2. CASE \E c \in Calls : CallStep(c)
    BY <1>1, <2>2
      DEF CallStep, Decides, Stopped, ClockSet, ClockLost, Decoded, DecodeFails
  <2>3. CASE Initializing
    BY <1>1, <2>3
      DEF Initializing, InitializeStarts, Probed, MpvStarted, MpvStartFails,
          FirstFrame, InitializeFails, InitializeRejects
  <2>4. CASE MpvFails \/ Dispose \/ DisposeStops \/ Disposed
    BY <1>1, <2>4 DEF MpvFails, Dispose, DisposeStops, Disposed
  <2>5. CASE \E c \in Calls : Control(c) \/ Hide(c) \/ Show(c)
    BY <1>1, <2>5 DEF Control, Hide, Show
  <2>6. CASE \E g \in Generations : StreamEnds(g) \/ StreamExits(g)
    BY <1>1, <2>6 DEF StreamEnds, StreamExits
  <2>7. ASSUME NEW g \in Generations, PumpStep(g), ~(FrameArrives(g) \/ Synchronized(g))
        PROVE  FALSE
    BY <1>1, <2>7
      DEF PumpStep, Opened, OpenFails, AudioStarted, Waited, PumpLosesClock,
          LoopEnds, EndConfirmed
  <2>8. CASE \E g \in Generations : PumpStep(g)
    BY <2>1, <2>7, <2>8
  <2> QED
    BY <1>1, <2>2, <2>3, <2>4, <2>5, <2>6, <2>8 DEF Next, Event
<1>2. IInv /\ [Next]_vars =>
        [~overtaken /\ shown' # shown /\ shown'.by = "pump" => shown'.gen >= shown.gen]_vars
  BY <1>1
<1> QED
  BY <1>2, Inductive, PTL DEF Spec, NoFrameFromThePast
=============================================================================
