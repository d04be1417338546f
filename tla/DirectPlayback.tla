--------------------------- MODULE DirectPlayback ---------------------------
(***************************************************************************)
(* Direct playback: a stream that bypasses PulseAudio. The server keeps    *)
(* four buffers per stream (ProRendererStreamImpl); the thread of the      *)
(* engine (NoneMixEngine, run by an AudioThreadTask) takes filled ones,    *)
(* renders them to the sink and gives them back.                           *)
(*                                                                         *)
(* Three threads meet here: the control calls of the client, which arrive  *)
(* one at a time; the client's writer, whose UpdateWriteIndex restarts an  *)
(* engine that gave up (TriggerStartIfNecessary, which takes no lock); and *)
(* the engine's own thread, which gives up after MaxErrors empty looks.    *)
(* A step is a piece of code between two points another thread may notice. *)
(***************************************************************************)
EXTENDS Naturals, FiniteSets

CONSTANTS
  Buffers,    \* sinkBuffer_: the indices of a stream's buffers
  RingSpans,  \* spans of the shared ring
  MaxErrors,  \* MAX_ERROR_COUNT
  None

ASSUME DirectAssumption ==
  /\ IsFiniteSet(Buffers) /\ None \notin Buffers
  /\ RingSpans \in Nat \ {0}
  /\ MaxErrors \in Nat \ {0}

VARIABLES
  status,     \* RendererInServer: status_
  isBlock,    \* ProRendererStreamImpl: isBlock_
  writeQueue, \* ... writeQueue_, the free buffers
  readQueue,  \* ... readQueue_, the filled ones
  filling,    \* who in EnqueueBuffer -> the buffer it has, or None
  hand,       \* the buffer the engine's thread is rendering
  ring,       \* filled spans of the shared ring
  stream,     \* NoneMixEngine: stream_ is set
  isStart,    \* ... isStart_
  failedCount,\* ... failedCount_
  sink,       \* the sink is started
  state,      \* AudioThreadTask: state_, "NULL" if playbackThread_ is null
  loop,       \* place of the task's thread, "none" if it has none
  pc,         \* place of the control call and of the writer
  op,         \* the control call under way
  running,    \* the client believes the stream RUNNING
  crashed,    \* an object that is gone has been used: the server dies
  meets       \* the calls that may meet a write under way; never changes

queues == <<isBlock, writeQueue, readQueue, filling, hand, ring>>
engine == <<stream, isStart, failedCount, sink>>
task == <<state, loop>>
rest == <<running, meets>>
vars == <<status, queues, engine, task, pc, op, crashed, rest>>

Callers == {"control", "writer"}
Fillers == {"loop", "writer"}
RunningState == {"STOPPED", "STARTED", "PAUSING", "PAUSED", "STOPPING"}

Init ==
  /\ status = "IDLE" /\ isBlock = TRUE
  /\ writeQueue = Buffers /\ readQueue = {}
  /\ filling = [f \in Fillers |-> None] /\ hand = None /\ ring = 0
  /\ stream = TRUE /\ isStart = FALSE /\ failedCount = 0 /\ sink = FALSE
  /\ state = "NULL" /\ loop = "none"
  /\ pc = [c \in Callers |-> "idle"] /\ op = "none"
  /\ running = FALSE /\ crashed = FALSE
  /\ meets \in {{}, {"Start", "Pause", "Flush"}, {"Start", "Pause", "Flush", "Stop", "Release"}}

Goto(c, place) == pc' = [pc EXCEPT ![c] = place]
At(c, place) == pc[c] = place

(* AudioThreadTask::Pause waits for a state, which one depends on the      *)
(* state it finds.                                                         *)
PauseWaits == {"pauseWait", "pausingWait", "stoppingWait"}
Awaited(place) ==
  CASE place = "pauseWait"    -> {"PAUSED", "STOPPED"}
    [] place = "pausingWait"  -> {"PAUSED"}
    [] place = "stoppingWait" -> {"STOPPED"}

(* Inside a member function of the task (waiting in it, say).              *)
InTask(c) == pc[c] \in {"startWait", "stopWait"} \cup PauseWaits

(* A step that uses playbackThread_: with no object behind it the server   *)
(* crashes, which is what a null unique_ptr gives.                         *)
UseTask(A) ==
  IF state = "NULL"
  THEN crashed' = TRUE /\ UNCHANGED <<status, queues, engine, task, pc, op, rest>>
  ELSE A /\ UNCHANGED crashed

-----------------------------------------------------------------------------
(* EnqueueBuffer, reached from WriteData under writeLock_: the index is    *)
(* taken from writeQueue_, the data converted, the index put in readQueue_.*)
WriteLockFree == \A f \in Fillers : filling[f] = None

PopWriteBufferIndex(f) ==
  /\ WriteLockFree /\ ring > 0
  /\ \E b \in writeQueue :
       /\ writeQueue' = writeQueue \ {b}
       /\ filling' = [filling EXCEPT ![f] = b]

EnqueueBuffer(f) ==
  /\ readQueue' = readQueue \cup {filling[f]}
  /\ filling' = [filling EXCEPT ![f] = None]
  /\ ring' = IF ring > 0 THEN ring - 1 ELSE 0

(* With no free buffer EnqueueBuffer fails, which WriteData ignores: the   *)
(* span is given back to the client unplayed.                              *)
EnqueueFails == WriteLockFree /\ ring > 0 /\ writeQueue = {} /\ ring' = ring - 1

-----------------------------------------------------------------------------
(* NoneMixEngine::Start, run by StartRender and by the writer's trigger.   *)
EngineStart(c) ==
  /\ At(c, "start")
  /\ failedCount' = 0
  /\ IF state = "NULL" THEN Goto(c, "create") ELSE Goto(c, "sinkCheck")
  /\ UNCHANGED <<status, queues, stream, isStart, sink, task, op, crashed, rest>>

(* The new task replaces whatever another Start has put there meanwhile:   *)
(* the destructor of that one stops its thread and waits for it.           *)
CreateTask(c) ==
  /\ At(c, "create")
  /\ state' = "STOPPED"
  /\ Goto(c, IF loop = "none" THEN "sinkCheck" ELSE "destroy")
  /\ crashed' = \E d \in Callers : InTask(d)
  /\ UNCHANGED <<status, queues, engine, loop, op, rest>>

DestroyTask(c) ==
  /\ At(c, "destroy") /\ loop = "none"
  /\ state' = "STOPPED" /\ Goto(c, "sinkCheck")
  /\ UNCHANGED <<status, queues, engine, loop, op, crashed, rest>>

SinkCheck(c) ==
  /\ At(c, "sinkCheck")
  /\ Goto(c, IF isStart THEN "runCheck" ELSE "sinkStart")
  /\ UNCHANGED <<status, queues, engine, task, op, crashed, rest>>

SinkStart(c) ==
  /\ At(c, "sinkStart")
  /\ sink' = TRUE /\ Goto(c, "setStart")
  /\ UNCHANGED <<status, queues, stream, isStart, failedCount, task, op, crashed, rest>>

SetStart(c) ==
  /\ At(c, "setStart")
  /\ isStart' = TRUE /\ Goto(c, "runCheck")
  /\ UNCHANGED <<status, queues, stream, failedCount, sink, task, op, crashed, rest>>

Return(c) == Goto(c, IF c = "writer" THEN "write" ELSE "return")

RunCheck(c) ==
  /\ At(c, "runCheck")
  /\ UseTask(/\ IF state = "STARTED" THEN Return(c) ELSE Goto(c, "taskStart")
             /\ UNCHANGED <<status, queues, engine, task, op, rest>>)

Run == loop' = IF loop = "none" THEN "job" ELSE loop

(* AudioThreadTask::Start. A thread that has ended is joined, and a new    *)
(* one started.                                                            *)
TaskStart(c) ==
  /\ At(c, "taskStart")
  /\ UseTask(/\ IF state = "STOPPING"
                THEN Goto(c, "startWait") /\ UNCHANGED task
                ELSE state' = "STARTED" /\ Run /\ Return(c)
             /\ UNCHANGED <<status, queues, engine, op, rest>>)

TaskStartWait(c) ==
  /\ At(c, "startWait") /\ state = "STOPPED"
  /\ state' = "STARTED" /\ Run /\ Return(c)
  /\ UNCHANGED <<status, queues, engine, op, crashed, rest>>

-----------------------------------------------------------------------------
(* NoneMixEngine::Pause, up to the sink's stop. Its wait for the fade-out  *)
(* ends after 20 ms at most and is not a condition.                        *)
EnginePause ==
  /\ At("control", "pause")
  /\ failedCount' = 0
  /\ IF state = "NULL" THEN Goto("control", "sinkStop") ELSE Goto("control", "taskPause")
  /\ UNCHANGED <<status, queues, stream, isStart, sink, task, op, crashed, rest>>

TaskPause ==
  /\ At("control", "taskPause")
  /\ UseTask(/\ state' = IF state = "STARTED" THEN "PAUSING" ELSE state
             /\ Goto("control", CASE state = "STARTED"  -> "pauseWait"
                                  [] state = "PAUSING"  -> "pausingWait"
                                  [] state = "STOPPING" -> "stoppingWait"
                                  [] OTHER              -> "sinkStop")
             /\ UNCHANGED <<status, queues, engine, loop, op, rest>>)

TaskPauseWait ==
  /\ pc["control"] \in PauseWaits
  /\ state \in Awaited(pc["control"])
  /\ Goto("control", "sinkStop")
  /\ UNCHANGED <<status, queues, engine, task, op, crashed, rest>>

(* NoneMixEngine::Stop.                                                    *)
EngineStop ==
  /\ At("control", "stop")
  /\ IF ~isStart
     THEN Goto("control", "stopped") /\ UNCHANGED failedCount
     ELSE /\ failedCount' = 0
          /\ Goto("control", IF state = "NULL" THEN "sinkStop" ELSE "taskStop")
  /\ UNCHANGED <<status, queues, stream, isStart, sink, task, op, crashed, rest>>

(* mutant: StopAsync for Stop *)
TaskStopAsync ==
  /\ At("control", "taskStop")
  /\ UseTask(/\ state' = "NULL"
             /\ Goto("control", "sinkStop")
             /\ UNCHANGED <<status, queues, engine, loop, op, rest>>)

TaskStop ==
  /\ At("control", "taskStop")
  /\ UseTask(/\ state' = IF state = "STOPPED" THEN state ELSE "STOPPING"
             /\ Goto("control", "stopWait")
             /\ UNCHANGED <<status, queues, engine, loop, op, rest>>)

(* The task is stopped, its thread joined, and playbackThread_ reset. A    *)
(* caller still inside the task is left with a dangling object.            *)
TaskStopWait ==
  /\ At("control", "stopWait")
  /\ state = "STOPPED" /\ loop = "none"
  /\ state' = "NULL" /\ Goto("control", "sinkStop")
  /\ crashed' = InTask("writer")
  /\ UNCHANGED <<status, queues, engine, loop, op, rest>>

SinkStopTimeOut ==
  /\ At("control", "sinkStop")
  /\ sink' = FALSE /\ Goto("control", "resetStart")
  /\ UNCHANGED <<status, queues, stream, isStart, failedCount, task, op, crashed, rest>>

ResetStart ==
  /\ At("control", "resetStart")
  /\ isStart' = FALSE
  /\ Goto("control", IF op = "Pause" THEN "return" ELSE "stopped")
  /\ UNCHANGED <<status, queues, stream, failedCount, sink, task, op, crashed, rest>>

(* The places from which MixStreams uses stream_ again.                    *)
UsingStream == {"peek", "fill", "pop", "failed", "render", "giveBack"}

(* ReleaseRender stops the engine, removes the stream, which stops the     *)
(* engine once more, and only then releases the stream.                    *)
RemoveRenderer ==
  /\ At("control", "stopped")
  /\ CASE op = "Stop" -> Goto("control", "return") /\ UNCHANGED <<op, stream>>
       [] op = "Release" -> Goto("control", "stop") /\ op' = "Remove" /\ UNCHANGED stream
       [] op = "Remove" -> Goto("control", "release") /\ stream' = FALSE /\ UNCHANGED op
  /\ crashed' = (op = "Remove" /\ loop \in UsingStream)
  /\ UNCHANGED <<status, queues, isStart, failedCount, sink, task, rest>>

StreamRelease ==
  /\ At("control", "release")
  /\ status' = "RELEASED" /\ isBlock' = TRUE
  /\ Goto("control", "return")
  /\ UNCHANGED <<writeQueue, readQueue, filling, hand, ring, engine, task, op, crashed, rest>>

-----------------------------------------------------------------------------
(* The control calls. Except in a Release the stream's part comes first:   *)
(* it sets isBlock_ and its status callback sets the server's status_      *)
(* before the engine is asked for anything.                                *)
MayMeet(o) == o \in meets \/ (o = "Remove" /\ "Release" \in meets)

Call(o, place) ==
  /\ pc["control"] = "idle" /\ (MayMeet(o) \/ pc["writer"] = "idle")
  /\ op' = o /\ Goto("control", place)
  /\ UNCHANGED <<engine, task, crashed, rest>>

Start ==
  /\ status \in {"IDLE", "PAUSED", "STOPPED"}
  /\ status' = "STARTED" /\ isBlock' = FALSE
  /\ Call("Start", "start")
  /\ UNCHANGED <<writeQueue, readQueue, filling, hand, ring>>

Pause ==
  /\ status = "STARTED"
  /\ status' = "PAUSED" /\ isBlock' = TRUE
  /\ Call("Pause", "pause")
  /\ UNCHANGED <<writeQueue, readQueue, filling, hand, ring>>

Stop ==
  /\ status \in {"STARTED", "PAUSED"}
  /\ status' = "STOPPED" /\ isBlock' = TRUE
  /\ Call("Stop", "stop")
  /\ UNCHANGED <<writeQueue, readQueue, filling, hand, ring>>

Release ==
  /\ status # "RELEASED"
  /\ Call("Release", "stop")
  /\ UNCHANGED <<status, queues>>

(* mutant: the filled buffers are popped and not given back *)
FlushDrops ==
  /\ status \in {"STARTED", "PAUSED", "STOPPED"}
  /\ readQueue' = {} /\ ring' = 0
  /\ Call("Flush", "return")
  /\ UNCHANGED <<status, isBlock, writeQueue, filling, hand>>

(* mutant: writeQueue_ is filled anew *)
FlushRefills ==
  /\ status \in {"STARTED", "PAUSED", "STOPPED"}
  /\ writeQueue' = Buffers /\ readQueue' = {} /\ ring' = 0
  /\ Call("Flush", "return")
  /\ UNCHANGED <<status, isBlock, filling, hand>>

(* Flush empties the shared ring and takes the filled buffers back.        *)
Flush ==
  /\ status \in {"STARTED", "PAUSED", "STOPPED"}
  /\ writeQueue' = writeQueue \cup readQueue /\ readQueue' = {} /\ ring' = 0
  /\ Call("Flush", "return")
  /\ UNCHANGED <<status, isBlock, filling, hand>>

CallReturns ==
  /\ At("control", "return")
  /\ op' = "none" /\ Goto("control", "idle")
  /\ running' = (op = "Start" \/ (op = "Flush" /\ running))
  /\ UNCHANGED <<status, queues, engine, task, crashed, meets>>

(* The next stream: AddRenderer takes it if the engine has none. The last  *)
(* calls of the old stream have come home.                                 *)
CreateRender ==
  /\ status = "RELEASED" /\ ~stream
  /\ pc = [c \in Callers |-> "idle"] /\ hand = None /\ filling["loop"] = None
  /\ loop \in {"none", "job", "lock", "parked"}
  /\ status' = "IDLE" /\ stream' = TRUE /\ isBlock' = TRUE
  /\ writeQueue' = Buffers /\ readQueue' = {} /\ ring' = 0
  /\ UNCHANGED <<filling, hand, isStart, failedCount, sink, task, pc, op, crashed, rest>>

-----------------------------------------------------------------------------
(* The client's writer. The client writes while it believes the stream     *)
(* RUNNING: from the return of Start to that of a Pause, Stop or Release.  *)
Write ==
  /\ pc["writer"] = "idle" /\ running
  /\ op = "none" \/ MayMeet(op)
  /\ ring < RingSpans
  /\ ring' = ring + 1 /\ Goto("writer", "trigger")
  /\ UNCHANGED <<status, isBlock, writeQueue, readQueue, filling, hand, engine, task, op, crashed, rest>>

TriggerStartIfNecessary ==
  /\ At("writer", "trigger")
  /\ Goto("writer", IF isStart THEN "write" ELSE "start")
  /\ UNCHANGED <<status, queues, engine, task, op, crashed, rest>>

(* The rest of UpdateWriteIndex: it may pass a span on itself.             *)
ForceWrite ==
  /\ At("writer", "write")
  /\ \/ PopWriteBufferIndex("writer") /\ Goto("writer", "fill")
     \/ Goto("writer", "idle") /\ UNCHANGED <<writeQueue, filling>>
  /\ UNCHANGED <<status, isBlock, readQueue, hand, ring, engine, task, op, crashed, rest>>

ForceWriteEnds ==
  /\ At("writer", "fill")
  /\ EnqueueBuffer("writer") /\ Goto("writer", "idle")
  /\ UNCHANGED <<status, isBlock, writeQueue, hand, engine, task, op, crashed, rest>>

-----------------------------------------------------------------------------
(* The engine's thread: AudioThreadTask::RunJob around MixStreams.         *)
Jump(from, to) == loop = from /\ loop' = to

RunJob ==
  /\ Jump("job", IF state = "STARTED" THEN "mix" ELSE "lock")
  /\ UNCHANGED <<status, queues, engine, state, pc, op, crashed, rest>>

(* The tail of a round, under stateMutex_. A pausing thread parks; its     *)
(* 500 ms time-out only brings it back here.                               *)
RunJobLocked ==
  /\ loop = "lock"
  /\ \/ state \in {"PAUSING", "PAUSED"} /\ state' = "PAUSED" /\ loop' = "parked"
     \/ state \in {"STOPPING", "STOPPED"} /\ state' = "STOPPED" /\ loop' = "none"
     \/ state = "STARTED" /\ UNCHANGED state /\ loop' = "job"
  /\ UNCHANGED <<status, queues, engine, pc, op, crashed, rest>>

RunJobWakes ==
  /\ loop = "parked" /\ state # "PAUSED"
  /\ IF state \in {"STOPPING", "STOPPED"}
     THEN state' = "STOPPED" /\ loop' = "none"
     ELSE UNCHANGED state /\ loop' = "job"
  /\ UNCHANGED <<status, queues, engine, pc, op, crashed, rest>>

MixStreams ==
  /\ loop = "mix"
  /\ loop' = IF ~stream THEN "lock" ELSE IF failedCount >= MaxErrors THEN "pauseAsync" ELSE "peek"
  /\ UNCHANGED <<status, queues, engine, state, pc, op, crashed, rest>>

(* Peek. A blocked stream gives nothing; with no filled buffer the stream  *)
(* asks for data first, which fails if the writer holds writeLock_.        *)
Peek ==
  /\ loop = "peek"
  /\ \/ /\ isBlock /\ loop' = "failed" /\ UNCHANGED <<writeQueue, filling, ring>>
     \/ /\ ~isBlock /\ readQueue # {} /\ loop' = "pop" /\ UNCHANGED <<writeQueue, filling, ring>>
     \/ /\ ~isBlock /\ readQueue = {}
        /\ \/ PopWriteBufferIndex("loop") /\ loop' = "fill" /\ UNCHANGED ring
           \/ EnqueueFails /\ loop' = "pop" /\ UNCHANGED <<writeQueue, filling>>
           \/ (~WriteLockFree \/ ring = 0) /\ loop' = "pop" /\ UNCHANGED <<writeQueue, filling, ring>>
  /\ UNCHANGED <<status, isBlock, readQueue, hand, engine, state, pc, op, crashed, rest>>

PeekWrites ==
  /\ Jump("fill", "pop") /\ EnqueueBuffer("loop")
  /\ UNCHANGED <<status, isBlock, writeQueue, hand, engine, state, pc, op, crashed, rest>>

PopSinkBuffer ==
  /\ loop = "pop"
  /\ IF readQueue = {}
     THEN loop' = "failed" /\ UNCHANGED <<readQueue, hand>>
     ELSE /\ \E b \in readQueue : hand' = b /\ readQueue' = readQueue \ {b}
          /\ loop' = "render"
  /\ UNCHANGED <<status, isBlock, writeQueue, filling, ring, engine, state, pc, op, crashed, rest>>

(* mutant: the error index is given back like any other *)
MixFailedReturns ==
  /\ Jump("failed", "lock")
  /\ writeQueue' = writeQueue \cup {hand}
  /\ failedCount' = IF failedCount < MaxErrors THEN failedCount + 1 ELSE failedCount
  /\ UNCHANGED <<status, isBlock, readQueue, filling, hand, ring, stream, isStart, sink, state, pc, op, crashed, rest>>

(* mutant: a look at a blocked stream does not count *)
MixFailedUncounted ==
  /\ Jump("failed", "lock")
  /\ failedCount' = IF failedCount < MaxErrors /\ ~isBlock THEN failedCount + 1 ELSE failedCount
  /\ UNCHANGED <<status, queues, stream, isStart, sink, state, pc, op, crashed, rest>>

MixFailed ==
  /\ Jump("failed", "lock")
  /\ failedCount' = IF failedCount < MaxErrors THEN failedCount + 1 ELSE failedCount
  /\ UNCHANGED <<status, queues, stream, isStart, sink, state, pc, op, crashed, rest>>

(* RenderFrame takes most of the round; what it returns is not looked at.  *)
RenderFrame ==
  /\ Jump("render", "giveBack")
  /\ failedCount' = 0
  /\ UNCHANGED <<status, queues, stream, isStart, sink, state, pc, op, crashed, rest>>

ReturnIndex ==
  /\ Jump("giveBack", "lock")
  /\ hand' = None
  /\ writeQueue' = IF isBlock THEN writeQueue ELSE writeQueue \cup {hand}
  /\ UNCHANGED <<status, isBlock, readQueue, filling, ring, engine, state, pc, op, crashed, rest>>

(* NoneMixEngine::PauseAsync, on the engine's thread.                      *)
PauseAsync ==
  /\ Jump("pauseAsync", "asyncSinkStop")
  /\ state' = IF state = "STARTED" THEN "PAUSING" ELSE state
  /\ UNCHANGED <<status, queues, engine, pc, op, crashed, rest>>

(* mutant: the sink is left running *)
PauseAsyncNoStop ==
  /\ Jump("asyncSinkStop", "asyncReset")
  /\ UNCHANGED <<status, queues, engine, state, pc, op, crashed, rest>>

PauseAsyncSinkStop ==
  /\ Jump("asyncSinkStop", "asyncReset")
  /\ sink' = FALSE
  /\ UNCHANGED <<status, queues, stream, isStart, failedCount, state, pc, op, crashed, rest>>

PauseAsyncReset ==
  /\ Jump("asyncReset", "lock")
  /\ isStart' = FALSE
  /\ UNCHANGED <<status, queues, stream, failedCount, sink, state, pc, op, crashed, rest>>

-----------------------------------------------------------------------------
EngineCall(c) ==
  \/ EngineStart(c) \/ CreateTask(c) \/ DestroyTask(c) \/ SinkCheck(c) \/ SinkStart(c) \/ SetStart(c)
  \/ RunCheck(c) \/ TaskStart(c) \/ TaskStartWait(c)

ControlStep ==
  \/ EngineCall("control")
  \/ EnginePause \/ TaskPause \/ TaskPauseWait
  \/ EngineStop \/ TaskStop \/ TaskStopWait
  \/ SinkStopTimeOut \/ ResetStart \/ RemoveRenderer \/ StreamRelease \/ CallReturns

WriterStep == EngineCall("writer") \/ TriggerStartIfNecessary \/ ForceWrite \/ ForceWriteEnds

LoopStep ==
  \/ RunJob \/ RunJobLocked \/ RunJobWakes
  \/ MixStreams \/ Peek \/ PeekWrites \/ PopSinkBuffer \/ MixFailed \/ RenderFrame \/ ReturnIndex
  \/ PauseAsync \/ PauseAsyncSinkStop \/ PauseAsyncReset

Client == Start \/ Pause \/ Stop \/ Release \/ Flush \/ CreateRender \/ Write

Next ==
  \/ ~crashed /\ ControlStep
  \/ ~crashed /\ WriterStep
  \/ ~crashed /\ LoopStep
  \/ ~crashed /\ Client

Fairness ==
  /\ WF_vars(~crashed /\ ControlStep)
  /\ WF_vars(~crashed /\ WriterStep)
  /\ WF_vars(~crashed /\ LoopStep)

Spec == Init /\ [][Next]_vars /\ Fairness

-----------------------------------------------------------------------------
(* The type of every variable.                                             *)
TypeOK ==
  /\ status \in {"IDLE", "STARTED", "PAUSED", "STOPPED", "RELEASED"}
  /\ isBlock \in BOOLEAN /\ stream \in BOOLEAN /\ isStart \in BOOLEAN
  /\ sink \in BOOLEAN /\ running \in BOOLEAN /\ crashed \in BOOLEAN
  /\ writeQueue \subseteq Buffers /\ readQueue \subseteq Buffers
  /\ filling \in [Fillers -> Buffers \cup {None}] /\ hand \in Buffers \cup {None}
  /\ ring \in 0..RingSpans /\ failedCount \in 0..MaxErrors
  /\ state \in RunningState \cup {"NULL"}
  /\ loop \in UsingStream \cup {"none", "job", "mix", "lock", "parked",
                              "pauseAsync", "asyncSinkStop", "asyncReset"}
  /\ pc \in [Callers -> {"idle", "return", "trigger", "write", "fill", "start", "create",
                 "destroy", "sinkCheck", "sinkStart", "setStart", "runCheck", "taskStart",
                 "startWait", "pause", "taskPause", "pauseWait", "pausingWait",
                 "stoppingWait", "stop", "taskStop", "stopWait", "sinkStop", "resetStart",
                 "stopped", "release"}]
  /\ op \in {"none", "Start", "Pause", "Stop", "Release", "Remove", "Flush"}

(* A buffer is never in two hands: one that is being rendered or filled is *)
(* in neither queue, whatever flushes, pauses and forced writes come       *)
(* between.                                                                *)
OneOwner ==
  /\ writeQueue \cap readQueue = {}
  /\ \A b \in {hand, filling["loop"], filling["writer"]} \ {None} :
       b \notin writeQueue \cup readQueue
  /\ hand # None => \A f \in Fillers : filling[f] # hand
  /\ filling["loop"] # None => filling["loop"] # filling["writer"]

(* As long as no write is under way during a control call, no thread uses  *)
(* a task or a stream that is gone, although the engine's thread pauses    *)
(* itself and the next write starts it again without a lock.               *)
NoUseAfterReset == crashed => meets # {}

(* Even if writes meet Start and Pause every control call comes back: a    *)
(* Pause whose task a late write has set STARTED again is freed by the     *)
(* engine's count of failures.                                             *)
EveryCallReturns ==
  "Stop" \notin meets => []((op # "none") => <>(op = "none" \/ crashed))

(* A stream that stays blocked falls silent: if a late write restarts the  *)
(* engine, the count of failures stops the sink once more.                 *)
BlockedFallsSilent == <>[](isBlock /\ stream) => <>[](~sink \/ crashed)

(* A buffer is only lost in a round that meets a Pause, Stop or Release.   *)
Lost == Buffers \ (writeQueue \cup readQueue \cup {hand, filling["loop"], filling["writer"]})
LostOnlyWhenBlocked == [][Lost' \subseteq Lost \/ isBlock]_vars
=============================================================================
