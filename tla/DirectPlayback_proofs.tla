----------------------- MODULE DirectPlayback_proofs ------------------------
(***************************************************************************)
(* Proofs of the safety of DirectPlayback, for any number of buffers, any  *)
(* ring and any count of failures.                                         *)
(*                                                                         *)
(* That a buffer has one owner is inductive once it is known who holds one *)
(* and where (HandsOK).  That nothing is used after it is gone, while no   *)
(* write meets a control call, needs what the calls, the isStart_ flag and *)
(* the task's state say of one another (Calm).                             *)
(***************************************************************************)
EXTENDS DirectPlayback, TLAPS

(* Who is inside EnqueueBuffer, or renders, has a buffer in hand; no other *)
(* has. *)
HandsOK ==
    /\ filling["loop"] # None <=> loop = "fill"
    /\ filling["writer"] # None <=> pc["writer"] = "fill"
    /\ hand # None <=> loop \in {"render", "giveBack"}

(* A control call is at a place its operation goes through. *)
OpOK ==
    /\ pc["control"] \in {"sinkStop", "resetStart"} =>
          op \in {"Pause", "Stop", "Release", "Remove"}
    /\ pc["control"] \in {"pause", "taskPause"} \cup PauseWaits => op = "Pause"
    /\ pc["control"] \in {"stop", "taskStop", "stopWait", "stopped"} =>
          op \in {"Stop", "Release", "Remove"}
    /\ pc["control"] = "release" => op = "Remove"

Safe == TypeOK /\ HandsOK /\ OneOwner /\ OpOK

Unmoved == UNCHANGED <<writeQueue, readQueue, filling, hand>>

LEMMA OwnersStay == ASSUME OneOwner, Unmoved PROVE OneOwner'
BY DEF OneOwner, Unmoved

LEMMA InitSafe == Init => Safe
<1>. SUFFICES ASSUME Init PROVE Safe  OBVIOUS
<1>. USE DirectAssumption
<1>1. /\ isBlock \in BOOLEAN /\ stream \in BOOLEAN /\ isStart \in BOOLEAN
      /\ sink \in BOOLEAN /\ running \in BOOLEAN /\ crashed \in BOOLEAN
  BY DEF Init
<1>2. TypeOK  BY <1>1 DEF Init, TypeOK, RunningState
<1>3. HandsOK  BY DEF Init, HandsOK, Fillers, Callers
<1>4. OneOwner  BY DEF Init, OneOwner, Fillers
<1>5. OpOK  BY DEF Init, OpOK, PauseWaits, Callers
<1>. QED  BY <1>2, <1>3, <1>4, <1>5 DEF Safe

LEMMA NextSafe == Safe /\ [Next]_vars => Safe'
<1>. SUFFICES ASSUME Safe, [Next]_vars PROVE Safe'  OBVIOUS
<1>. USE DirectAssumption
     DEF Safe, PauseWaits, Unmoved, vars, queues, engine, task, rest, At, Goto, Callers, Fillers, RunningState,
         UsingStream
<1>1. ASSUME NEW c \in Callers, EngineStart(c) PROVE Safe'
  BY <1>1, OwnersStay DEF TypeOK, HandsOK, OpOK, EngineStart
<1>2. ASSUME NEW c \in Callers, CreateTask(c) PROVE Safe'
  BY <1>2, OwnersStay DEF TypeOK, HandsOK, OpOK, CreateTask, InTask
<1>3. ASSUME NEW c \in Callers, DestroyTask(c) PROVE Safe'
  BY <1>3, OwnersStay DEF TypeOK, HandsOK, OpOK, DestroyTask
<1>4. ASSUME NEW c \in Callers, SinkCheck(c) PROVE Safe'
  BY <1>4, OwnersStay DEF TypeOK, HandsOK, OpOK, SinkCheck
<1>5. ASSUME NEW c \in Callers, SinkStart(c) PROVE Safe'
  BY <1>5, OwnersStay DEF TypeOK, HandsOK, OpOK, SinkStart
<1>6. ASSUME NEW c \in Callers, SetStart(c) PROVE Safe'
  BY <1>6, OwnersStay DEF TypeOK, HandsOK, OpOK, SetStart
<1>7. ASSUME NEW c \in Callers, RunCheck(c) PROVE Safe'
  <2>1. TypeOK'
    <3>1. CASE state = "NULL"  BY <1>7, <3>1 DEF TypeOK, RunCheck, UseTask
    <3>2. CASE state # "NULL"  BY <1>7, <3>2 DEF TypeOK, RunCheck, Return, UseTask
    <3>. QED  BY <3>1, <3>2
  <2>2. HandsOK'  BY <1>7 DEF HandsOK, TypeOK, RunCheck, Return, UseTask
  <2>3. OneOwner'  BY <1>7, OwnersStay DEF RunCheck, UseTask
  <2>4. OpOK'  BY <1>7 DEF OpOK, TypeOK, RunCheck, Return, UseTask
  <2>. QED  BY <2>1, <2>2, <2>3, <2>4
<1>8. ASSUME NEW c \in Callers, TaskStart(c) PROVE Safe'
  <2>1. TypeOK'
    <3>1. CASE state = "NULL"  BY <1>8, <3>1 DEF TypeOK, TaskStart, UseTask
    <3>2. CASE state # "NULL"  BY <1>8, <3>2 DEF TypeOK, TaskStart, UseTask, Run, Return
    <3>. QED  BY <3>1, <3>2
  <2>2. HandsOK'  BY <1>8 DEF HandsOK, TypeOK, TaskStart, UseTask, Run, Return
  <2>3. OneOwner'  BY <1>8, OwnersStay DEF TaskStart, UseTask
  <2>4. OpOK'  BY <1>8 DEF OpOK, TypeOK, TaskStart, UseTask, Run, Return
  <2>. QED  BY <2>1, <2>2, <2>3, <2>4
<1>9. ASSUME NEW c \in Callers, TaskStartWait(c) PROVE Safe'
  BY <1>9, OwnersStay DEF TypeOK, HandsOK, OpOK, TaskStartWait, Run, Return
<1>10. CASE EnginePause
  BY <1>10, OwnersStay DEF TypeOK, HandsOK, OpOK, EnginePause
<1>11. CASE TaskPause
  <2>1. TypeOK'
    <3>1. CASE state = "NULL"  BY <1>11, <3>1 DEF TypeOK, TaskPause, UseTask
    <3>2. CASE state # "NULL"  BY <1>11, <3>2 DEF TypeOK, TaskPause, UseTask
    <3>. QED  BY <3>1, <3>2
  <2>2. HandsOK'  BY <1>11 DEF HandsOK, TypeOK, TaskPause, UseTask
  <2>3. OneOwner'  BY <1>11, OwnersStay DEF TaskPause, UseTask
  <2>4. OpOK'  BY <1>11 DEF OpOK, TypeOK, TaskPause, UseTask
  <2>. QED  BY <2>1, <2>2, <2>3, <2>4
<1>12. CASE TaskPauseWait
  BY <1>12, OwnersStay DEF TypeOK, HandsOK, OpOK, TaskPauseWait
<1>13. CASE EngineStop
  BY <1>13, OwnersStay DEF TypeOK, HandsOK, OpOK, EngineStop
<1>14. CASE TaskStop
  <2>1. TypeOK'
    <3>1. CASE state = "NULL"  BY <1>14, <3>1 DEF TypeOK, TaskStop, UseTask
    <3>2. CASE state # "NULL"  BY <1>14, <3>2 DEF TypeOK, TaskStop, UseTask
    <3>. QED  BY <3>1, <3>2
  <2>2. HandsOK'  BY <1>14 DEF HandsOK, TypeOK, TaskStop, UseTask
  <2>3. OneOwner'  BY <1>14, OwnersStay DEF TaskStop, UseTask
  <2>4. OpOK'  BY <1>14 DEF OpOK, TypeOK, TaskStop, UseTask
  <2>. QED  BY <2>1, <2>2, <2>3, <2>4
<1>15. CASE TaskStopWait
  BY <1>15, OwnersStay DEF TypeOK, HandsOK, OpOK, TaskStopWait, InTask
<1>16. CASE SinkStopTimeOut
  <2>1. TypeOK'
    <3>1. sink' \in BOOLEAN  BY <1>16 DEF SinkStopTimeOut
    <3>. QED  BY <1>16, <3>1 DEF TypeOK, SinkStopTimeOut
  <2>2. HandsOK'  BY <1>16 DEF HandsOK, TypeOK, SinkStopTimeOut
  <2>3. OneOwner'  BY <1>16, OwnersStay DEF SinkStopTimeOut
  <2>4. OpOK'  BY <1>16 DEF OpOK, TypeOK, SinkStopTimeOut
  <2>. QED  BY <2>1, <2>2, <2>3, <2>4
<1>17. CASE ResetStart
  <2>1. TypeOK'
    <3>1. isStart' \in BOOLEAN  BY <1>17 DEF ResetStart
    <3>. QED  BY <1>17, <3>1 DEF TypeOK, ResetStart
  <2>2. HandsOK'  BY <1>17 DEF HandsOK, TypeOK, ResetStart
  <2>3. OneOwner'  BY <1>17, OwnersStay DEF ResetStart
  <2>4. OpOK'  BY <1>17 DEF OpOK, TypeOK, ResetStart
  <2>. QED  BY <2>1, <2>2, <2>3, <2>4
<1>18. CASE RemoveRenderer
  <2>1. \E place \in {"return", "stop", "release"} :
           Goto("control", place) /\ (place \in {"stop", "release"} => op' = "Remove")
    BY <1>18 DEF RemoveRenderer, OpOK
  <2>2. /\ op' \in {op, "Remove"} /\ stream' \in BOOLEAN /\ crashed' \in BOOLEAN
        /\ UNCHANGED <<status, queues, isStart, failedCount, sink, task, rest>>
    BY <1>18 DEF RemoveRenderer, OpOK, TypeOK
  <2>3. TypeOK'  BY <2>1, <2>2 DEF TypeOK
  <2>4. HandsOK'  BY <2>1, <2>2 DEF HandsOK, TypeOK
  <2>5. OneOwner'  BY <2>2, OwnersStay
  <2>6. OpOK'  BY <2>1, <2>2 DEF OpOK, TypeOK
  <2>. QED  BY <2>3, <2>4, <2>5, <2>6
<1>44. CASE StreamRelease
  BY <1>44, OwnersStay DEF TypeOK, HandsOK, OpOK, StreamRelease
<1>19. CASE CallReturns
  BY <1>19, OwnersStay DEF TypeOK, HandsOK, OpOK, CallReturns
<1>20. CASE TriggerStartIfNecessary
  BY <1>20, OwnersStay DEF TypeOK, HandsOK, OpOK, TriggerStartIfNecessary
<1>21. CASE ForceWrite
  BY <1>21 DEF TypeOK, HandsOK, OneOwner, OpOK, ForceWrite, PopWriteBufferIndex, WriteLockFree
<1>22. CASE ForceWriteEnds
  BY <1>22 DEF TypeOK, HandsOK, OneOwner, OpOK, ForceWriteEnds, EnqueueBuffer
<1>23. CASE RunJob
  BY <1>23, OwnersStay DEF TypeOK, HandsOK, OpOK, RunJob, Jump
<1>24. CASE RunJobLocked
  BY <1>24, OwnersStay DEF TypeOK, HandsOK, OpOK, RunJobLocked
<1>25. CASE RunJobWakes
  BY <1>25, OwnersStay DEF TypeOK, HandsOK, OpOK, RunJobWakes
<1>26. CASE MixStreams
  BY <1>26, OwnersStay DEF TypeOK, HandsOK, OpOK, MixStreams
<1>27. CASE Peek
  BY <1>27 DEF TypeOK, HandsOK, OneOwner, OpOK, Peek, PopWriteBufferIndex, EnqueueFails,
       WriteLockFree
<1>28. CASE PeekWrites
  BY <1>28 DEF TypeOK, HandsOK, OneOwner, OpOK, PeekWrites, Jump, EnqueueBuffer
<1>29. CASE PopSinkBuffer
  BY <1>29 DEF TypeOK, HandsOK, OneOwner, OpOK, PopSinkBuffer
<1>30. CASE MixFailed
  BY <1>30, OwnersStay DEF TypeOK, HandsOK, OpOK, MixFailed, Jump
<1>31. CASE RenderFrame
  BY <1>31, OwnersStay DEF TypeOK, HandsOK, OpOK, RenderFrame, Jump
<1>32. CASE ReturnIndex
  BY <1>32 DEF TypeOK, HandsOK, OneOwner, OpOK, ReturnIndex, Jump
<1>33. CASE PauseAsync
  BY <1>33, OwnersStay DEF TypeOK, HandsOK, OpOK, PauseAsync, Jump
<1>34. CASE PauseAsyncSinkStop
  <2>1. TypeOK'
    <3>1. sink' \in BOOLEAN  BY <1>34 DEF PauseAsyncSinkStop
    <3>. QED  BY <1>34, <3>1 DEF TypeOK, PauseAsyncSinkStop, Jump
  <2>2. HandsOK'  BY <1>34 DEF HandsOK, TypeOK, PauseAsyncSinkStop, Jump
  <2>3. OneOwner'  BY <1>34, OwnersStay DEF PauseAsyncSinkStop
  <2>4. OpOK'  BY <1>34 DEF OpOK, TypeOK, PauseAsyncSinkStop, Jump
  <2>. QED  BY <2>1, <2>2, <2>3, <2>4
<1>35. CASE PauseAsyncReset
  <2>1. TypeOK'
    <3>1. isStart' \in BOOLEAN  BY <1>35 DEF PauseAsyncReset
    <3>. QED  BY <1>35, <3>1 DEF TypeOK, PauseAsyncReset, Jump
  <2>2. HandsOK'  BY <1>35 DEF HandsOK, TypeOK, PauseAsyncReset, Jump
  <2>3. OneOwner'  BY <1>35, OwnersStay DEF PauseAsyncReset
  <2>4. OpOK'  BY <1>35 DEF OpOK, TypeOK, PauseAsyncReset, Jump
  <2>. QED  BY <2>1, <2>2, <2>3, <2>4
<1>36. CASE Start
  <2>1. TypeOK'
    <3>1. isBlock' \in BOOLEAN  BY <1>36 DEF Start
    <3>. QED  BY <1>36, <3>1 DEF TypeOK, Start, Call, MayMeet
  <2>2. HandsOK'  BY <1>36 DEF HandsOK, TypeOK, Start, Call, MayMeet
  <2>3. OneOwner'  BY <1>36, OwnersStay DEF Start, Call
  <2>4. OpOK'  BY <1>36 DEF OpOK, TypeOK, Start, Call, MayMeet
  <2>. QED  BY <2>1, <2>2, <2>3, <2>4
<1>37. CASE Pause
  BY <1>37, OwnersStay DEF TypeOK, HandsOK, OpOK, Pause, Call, MayMeet
<1>38. CASE Stop
  BY <1>38, OwnersStay DEF TypeOK, HandsOK, OpOK, Stop, Call, MayMeet
<1>39. CASE Release
  BY <1>39, OwnersStay DEF TypeOK, HandsOK, OpOK, Release, Call, MayMeet
<1>40. CASE Flush
  BY <1>40 DEF TypeOK, HandsOK, OneOwner, OpOK, Flush, Call, MayMeet
<1>41. CASE CreateRender
  BY <1>41 DEF TypeOK, HandsOK, OneOwner, OpOK, CreateRender
<1>42. CASE Write
  BY <1>42, OwnersStay DEF TypeOK, HandsOK, OpOK, Write, MayMeet
<1>43. CASE UNCHANGED vars
  BY <1>43 DEF TypeOK, HandsOK, OneOwner, OpOK
<1>. QED
  <2>1. CASE ControlStep
    BY <2>1, <1>1, <1>2, <1>3, <1>4, <1>5, <1>6, <1>7, <1>8, <1>9, <1>10, <1>11, <1>12, <1>13,
         <1>14, <1>15, <1>16, <1>17, <1>18, <1>44, <1>19 DEF ControlStep, EngineCall
  <2>2. CASE WriterStep
    BY <2>2, <1>1, <1>2, <1>3, <1>4, <1>5, <1>6, <1>7, <1>8, <1>9, <1>20, <1>21,
         <1>22 DEF WriterStep, EngineCall
  <2>3. CASE LoopStep
    BY <2>3, <1>23, <1>24, <1>25, <1>26, <1>27, <1>28, <1>29, <1>30, <1>31, <1>32, <1>33,
         <1>34, <1>35 DEF LoopStep
  <2>4. CASE Client
    BY <2>4, <1>36, <1>37, <1>38, <1>39, <1>40, <1>41, <1>42 DEF Client
  <2>. QED  BY <1>43, <2>1, <2>2, <2>3, <2>4 DEF Next

LEMMA SpecSafe == Spec => []Safe
<1>1. Safe /\ [Next]_vars => Safe'  BY NextSafe
<1>. QED  BY InitSafe, <1>1, PTL DEF Spec

(* Type correctness: every variable keeps its type. *)
THEOREM TypeCorrect == Spec => []TypeOK
<1>1. Safe => TypeOK  BY DEF Safe
<1>. QED  BY <1>1, SpecSafe, PTL

(* A buffer of the sink is never in two hands: what the engine renders, or *)
(* a writer fills, is in neither queue, however Flush, Pause and a forced  *)
(* write interleave. *)
THEOREM BuffersHaveOneOwner == Spec => []OneOwner
<1>1. Safe => OneOwner  BY DEF Safe
<1>. QED  BY <1>1, SpecSafe, PTL

(* The steps that move a buffer. *)
Moves == Flush \/ CreateRender \/ ForceWrite \/ ForceWriteEnds \/ Peek \/ PeekWrites
            \/ PopSinkBuffer \/ ReturnIndex

LEMMA OthersLeaveBuffers == Next => Moves \/ Unmoved
<1>. USE DEF Unmoved, vars, queues, engine, task, rest
<1>1. EngineCall("control") \/ EngineCall("writer") => Unmoved
  BY DEF EngineCall, EngineStart, CreateTask, DestroyTask, SinkCheck, SinkStart, SetStart, RunCheck,
         TaskStart, TaskStartWait, UseTask
<1>2. ControlStep => Unmoved
  BY <1>1 DEF ControlStep, EnginePause, TaskPause, TaskPauseWait, EngineStop, TaskStop, TaskStopWait,
         SinkStopTimeOut, ResetStart, RemoveRenderer, StreamRelease, CallReturns, UseTask
<1>3. WriterStep => Moves \/ Unmoved
  BY <1>1 DEF WriterStep, Moves, TriggerStartIfNecessary
<1>4. LoopStep => Moves \/ Unmoved
  BY DEF LoopStep, Moves, RunJob, RunJobLocked, RunJobWakes, MixStreams, MixFailed, RenderFrame,
         PauseAsync, PauseAsyncSinkStop, PauseAsyncReset
<1>5. Client => Moves \/ Unmoved
  BY DEF Client, Moves, Start, Pause, Stop, Release, Write
<1>. QED  BY <1>2, <1>3, <1>4, <1>5 DEF Next

LEMMA MovesKeepBuffers == ASSUME Safe, Moves PROVE Lost' \subseteq Lost \/ isBlock
<1>. USE DirectAssumption DEF Safe, TypeOK, HandsOK, Fillers, Callers, Lost
<1>1. CASE Flush  BY <1>1 DEF Flush
<1>2. CASE CreateRender  BY <1>2 DEF CreateRender
<1>3. CASE ForceWrite  BY <1>3 DEF ForceWrite, PopWriteBufferIndex, WriteLockFree
<1>4. CASE ForceWriteEnds  BY <1>4 DEF ForceWriteEnds, EnqueueBuffer
<1>5. CASE Peek  BY <1>5 DEF Peek, PopWriteBufferIndex, EnqueueFails, WriteLockFree
<1>6. CASE PeekWrites  BY <1>6 DEF PeekWrites, EnqueueBuffer
<1>7. CASE PopSinkBuffer  BY <1>7 DEF PopSinkBuffer
<1>8. CASE ReturnIndex  BY <1>8 DEF ReturnIndex, Jump
<1>. QED  BY <1>1, <1>2, <1>3, <1>4, <1>5, <1>6, <1>7, <1>8 DEF Moves

(* A buffer leaves the pool only through a ReturnIndex that finds the      *)
(* stream blocked. *)
THEOREM LossOnlyWhenBlocked == Spec => LostOnlyWhenBlocked
<1>1. Safe /\ [Next]_vars => [Lost' \subseteq Lost \/ isBlock]_vars
  <2>. SUFFICES ASSUME Safe, Next PROVE Lost' \subseteq Lost \/ isBlock  OBVIOUS
  <2>1. CASE Moves  BY <2>1, MovesKeepBuffers
  <2>2. CASE Unmoved  BY <2>2 DEF Unmoved, Lost
  <2>. QED  BY <2>1, <2>2, OthersLeaveBuffers
<1>. QED  BY <1>1, SpecSafe, PTL DEF Spec, LostOnlyWhenBlocked


-----------------------------------------------------------------------------
(* When no write meets a control call (meets = {}): *)
Rounds == UsingStream \cup {"mix", "pauseAsync", "asyncSinkStop", "asyncReset"}
Starting == {"start", "create", "destroy", "sinkCheck", "sinkStart", "setStart"}
Off == state # "STARTED" /\ loop \notin Rounds

(* the writer is away while a control call runs, and only writes to a      *)
(* stream that is STARTED; *)
CallsOK ==
    /\ pc["control"] = "idle" <=> op = "none"
    /\ op \in {"none", "Start", "Flush"} /\ (op = "Start" \/ running) => status = "STARTED"
    /\ pc["writer"] # "idle" => op = "none" /\ running
    /\ status # "STARTED" => op # "Start"
    /\ pc["control"] \in Starting \cup {"runCheck", "taskStart"} => op = "Start"

(* an engine that is not isStart_ has its thread out of every round; *)
StartOK ==
    /\ status # "STARTED" /\ pc["control"] \in {"idle", "return"} => ~isStart
    /\ pc["control"] \in {"stopped", "release"} => ~isStart
    /\ ~isStart => Off
    /\ \A c \in Callers : pc[c] \in Starting => ~isStart

(* and the task is there, in a state that fits the place of its callers.   *)
TaskOK ==
    /\ loop \in {"asyncSinkStop", "asyncReset"} => state # "STARTED"
    /\ \A c \in Callers :
         /\ pc[c] \in {"runCheck", "taskStart"} => isStart /\ Off
         /\ pc[c] \notin {"startWait", "destroy"}
         /\ pc[c] = "create" => state = "NULL"
         /\ pc[c] \in {"sinkCheck", "sinkStart", "setStart", "runCheck", "taskStart"} =>
               state # "NULL"
    /\ pc["control"] \in {"taskPause", "taskStop", "stopWait"} \cup PauseWaits => state # "NULL"
    /\ pc["control"] \in {"sinkStop", "resetStart"} => state \in {"NULL", "PAUSED", "STOPPED"}
    /\ state = "STOPPING" => pc["control"] = "stopWait"
    /\ state \in {"NULL", "STOPPED"} => loop = "none"
    /\ state = "PAUSED" => loop = "parked"

Calm == meets = {} /\ ~crashed /\ CallsOK /\ StartOK /\ TaskOK

LEMMA NextCalm == Safe /\ Calm /\ [Next]_vars => Calm'
<1>. SUFFICES ASSUME Safe, Calm, [Next]_vars PROVE Calm'  OBVIOUS
<1>. USE DEF Safe, PauseWaits, TypeOK, Calm, Off, Rounds, Starting, vars, queues, engine, task, rest, At, Goto,
             Callers, UsingStream
<1>1. ASSUME NEW c \in Callers, EngineStart(c) PROVE Calm'
  BY <1>1 DEF OpOK, CallsOK, StartOK, TaskOK, EngineStart
<1>2. ASSUME NEW c \in Callers, CreateTask(c) PROVE Calm'
  BY <1>2 DEF OpOK, CallsOK, StartOK, TaskOK, CreateTask, InTask
<1>3. ASSUME NEW c \in Callers, DestroyTask(c) PROVE Calm'
  BY <1>3 DEF OpOK, CallsOK, StartOK, TaskOK, DestroyTask
<1>4. ASSUME NEW c \in Callers, SinkCheck(c) PROVE Calm'
  BY <1>4 DEF OpOK, CallsOK, StartOK, TaskOK, SinkCheck
<1>5. ASSUME NEW c \in Callers, SinkStart(c) PROVE Calm'
  BY <1>5 DEF OpOK, CallsOK, StartOK, TaskOK, SinkStart
<1>6. ASSUME NEW c \in Callers, SetStart(c) PROVE Calm'
  BY <1>6 DEF OpOK, CallsOK, StartOK, TaskOK, SetStart
<1>7. ASSUME NEW c \in Callers, RunCheck(c) PROVE Calm'
  BY <1>7 DEF OpOK, CallsOK, StartOK, TaskOK, RunCheck, Return, UseTask
<1>8. ASSUME NEW c \in Callers, TaskStart(c) PROVE Calm'
  BY <1>8 DEF OpOK, CallsOK, StartOK, TaskOK, TaskStart, UseTask, Run, Return
<1>9. ASSUME NEW c \in Callers, TaskStartWait(c) PROVE Calm'
  BY <1>9 DEF OpOK, CallsOK, StartOK, TaskOK, TaskStartWait, Run, Return
<1>10. CASE EnginePause
  BY <1>10 DEF OpOK, CallsOK, StartOK, TaskOK, EnginePause
<1>11. CASE TaskPause
  <2>1. meets' = {} /\ ~crashed'
    BY <1>11 DEF OpOK, TaskOK, StartOK, CallsOK, TaskPause, UseTask
  <2>2. CallsOK'  BY <1>11 DEF OpOK, CallsOK, TaskOK, TaskPause, UseTask
  <2>3. StartOK'  BY <1>11 DEF OpOK, CallsOK, StartOK, TaskOK, TaskPause, UseTask
  <2>4. TaskOK'
    <3>1. /\ state \in {"STARTED", "PAUSING", "PAUSED", "STOPPED"}
          /\ \/ /\ state \in {"STARTED", "PAUSING"} /\ state' = "PAUSING"
                /\ \E place \in PauseWaits : Goto("control", place)
             \/ state \in {"PAUSED", "STOPPED"} /\ state' = state /\ Goto("control", "sinkStop")
          /\ loop' = loop
      BY <1>11 DEF RunningState, TaskOK, TaskPause, UseTask
    <3>. QED  BY <1>11, <3>1 DEF TaskOK, StartOK, TaskPause, UseTask
  <2>. QED  BY <2>1, <2>2, <2>3, <2>4
<1>12. CASE TaskPauseWait
  BY <1>12 DEF OpOK, CallsOK, StartOK, TaskOK, TaskPauseWait, Awaited
<1>13. CASE EngineStop
  BY <1>13 DEF OpOK, CallsOK, StartOK, TaskOK, EngineStop
<1>14. CASE TaskStop
  BY <1>14 DEF OpOK, CallsOK, StartOK, TaskOK, TaskStop, UseTask
<1>15. CASE TaskStopWait
  BY <1>15 DEF OpOK, CallsOK, StartOK, TaskOK, TaskStopWait, InTask
<1>16. CASE SinkStopTimeOut
  BY <1>16 DEF OpOK, CallsOK, StartOK, TaskOK, SinkStopTimeOut
<1>17. CASE ResetStart
  BY <1>17 DEF OpOK, CallsOK, StartOK, TaskOK, ResetStart
<1>18. CASE RemoveRenderer
  <2>1. \E place \in {"return", "stop", "release"} :
           Goto("control", place) /\ (place \in {"stop", "release"} => op' = "Remove")
    BY <1>18 DEF RemoveRenderer, OpOK
  <2>2. /\ pc["control"] = "stopped" /\ op' \in {op, "Remove"}
        /\ op \in {"Stop", "Release", "Remove"} /\ ~crashed'
        /\ UNCHANGED <<status, queues, isStart, failedCount, sink, task, rest>>
    BY <1>18 DEF RemoveRenderer, OpOK, StartOK
  <2>3. CallsOK'  BY <2>1, <2>2 DEF CallsOK
  <2>4. StartOK'  BY <2>1, <2>2 DEF StartOK
  <2>5. TaskOK'  BY <2>1, <2>2 DEF TaskOK
  <2>. QED  BY <2>2, <2>3, <2>4, <2>5
<1>44. CASE StreamRelease
  BY <1>44 DEF OpOK, CallsOK, StartOK, TaskOK, StreamRelease
<1>19. CASE CallReturns
  BY <1>19 DEF OpOK, CallsOK, StartOK, TaskOK, CallReturns
<1>20. CASE TriggerStartIfNecessary
  BY <1>20 DEF OpOK, CallsOK, StartOK, TaskOK, TriggerStartIfNecessary
<1>21. CASE ForceWrite
  BY <1>21 DEF OpOK, CallsOK, StartOK, TaskOK, ForceWrite, PopWriteBufferIndex, WriteLockFree
<1>22. CASE ForceWriteEnds
  BY <1>22 DEF OpOK, CallsOK, StartOK, TaskOK, ForceWriteEnds, EnqueueBuffer
<1>23. CASE RunJob
  BY <1>23 DEF OpOK, CallsOK, StartOK, TaskOK, RunJob, Jump
<1>24. CASE RunJobLocked
  BY <1>24 DEF OpOK, CallsOK, StartOK, TaskOK, RunJobLocked
<1>25. CASE RunJobWakes
  BY <1>25 DEF OpOK, CallsOK, StartOK, TaskOK, RunJobWakes
<1>26. CASE MixStreams
  BY <1>26 DEF OpOK, CallsOK, StartOK, TaskOK, MixStreams
<1>27. CASE Peek
  BY <1>27 DEF OpOK, CallsOK, StartOK, TaskOK, Peek, PopWriteBufferIndex, EnqueueFails,
       WriteLockFree
<1>28. CASE PeekWrites
  BY <1>28 DEF OpOK, CallsOK, StartOK, TaskOK, PeekWrites, Jump, EnqueueBuffer
<1>29. CASE PopSinkBuffer
  BY <1>29 DEF OpOK, CallsOK, StartOK, TaskOK, PopSinkBuffer
<1>30. CASE MixFailed
  BY <1>30 DEF OpOK, CallsOK, StartOK, TaskOK, MixFailed, Jump
<1>31. CASE RenderFrame
  BY <1>31 DEF OpOK, CallsOK, StartOK, TaskOK, RenderFrame, Jump
<1>32. CASE ReturnIndex
  BY <1>32 DEF OpOK, CallsOK, StartOK, TaskOK, ReturnIndex, Jump
<1>33. CASE PauseAsync
  BY <1>33 DEF OpOK, CallsOK, StartOK, TaskOK, PauseAsync, Jump
<1>34. CASE PauseAsyncSinkStop
  BY <1>34 DEF OpOK, CallsOK, StartOK, TaskOK, PauseAsyncSinkStop, Jump
<1>35. CASE PauseAsyncReset
  BY <1>35 DEF OpOK, CallsOK, StartOK, TaskOK, PauseAsyncReset, Jump
<1>36. CASE Start
  BY <1>36 DEF OpOK, CallsOK, StartOK, TaskOK, Start, Call, MayMeet
<1>37. CASE Pause
  BY <1>37 DEF OpOK, CallsOK, StartOK, TaskOK, Pause, Call, MayMeet
<1>38. CASE Stop
  BY <1>38 DEF OpOK, CallsOK, StartOK, TaskOK, Stop, Call, MayMeet
<1>39. CASE Release
  BY <1>39 DEF OpOK, CallsOK, StartOK, TaskOK, Release, Call, MayMeet
<1>40. CASE Flush
  BY <1>40 DEF OpOK, CallsOK, StartOK, TaskOK, Flush, Call, MayMeet
<1>41. CASE CreateRender
  BY <1>41 DEF OpOK, CallsOK, StartOK, TaskOK, CreateRender
<1>42. CASE Write
  BY <1>42 DEF OpOK, CallsOK, StartOK, TaskOK, Write, MayMeet
<1>43. CASE UNCHANGED vars
  BY <1>43 DEF CallsOK, StartOK, TaskOK
<1>. QED
  <2>1. CASE ControlStep
    BY <2>1, <1>1, <1>2, <1>3, <1>4, <1>5, <1>6, <1>7, <1>8, <1>9, <1>10, <1>11, <1>12, <1>13,
         <1>14, <1>15, <1>16, <1>17, <1>18, <1>44, <1>19 DEF ControlStep, EngineCall
  <2>2. CASE WriterStep
    BY <2>2, <1>1, <1>2, <1>3, <1>4, <1>5, <1>6, <1>7, <1>8, <1>9, <1>20, <1>21,
         <1>22 DEF WriterStep, EngineCall
  <2>3. CASE LoopStep
    BY <2>3, <1>23, <1>24, <1>25, <1>26, <1>27, <1>28, <1>29, <1>30, <1>31, <1>32, <1>33,
         <1>34, <1>35 DEF LoopStep
  <2>4. CASE Client
    BY <2>4, <1>36, <1>37, <1>38, <1>39, <1>40, <1>41, <1>42 DEF Client
  <2>. QED  BY <1>43, <2>1, <2>2, <2>3, <2>4 DEF Next

LEMMA MeetsNeverChanges == [Next]_vars => meets' = meets
<1>. USE DEF vars, rest
<1>1. EngineCall("control") \/ EngineCall("writer") => meets' = meets
  BY DEF EngineCall, EngineStart, CreateTask, DestroyTask, SinkCheck, SinkStart, SetStart, RunCheck,
         TaskStart, TaskStartWait, UseTask
<1>2. ControlStep => meets' = meets
  BY <1>1 DEF ControlStep, EnginePause, TaskPause, TaskPauseWait, EngineStop, TaskStop, TaskStopWait,
         SinkStopTimeOut, ResetStart, RemoveRenderer, StreamRelease, CallReturns, UseTask
<1>3. WriterStep => meets' = meets
  BY <1>1 DEF WriterStep, TriggerStartIfNecessary, ForceWrite, ForceWriteEnds
<1>4. LoopStep => meets' = meets
  BY DEF LoopStep, RunJob, RunJobLocked, RunJobWakes, MixStreams, Peek, PeekWrites, PopSinkBuffer,
         MixFailed, RenderFrame, ReturnIndex, PauseAsync, PauseAsyncSinkStop, PauseAsyncReset
<1>5. Client => meets' = meets
  BY DEF Client, Start, Pause, Stop, Release, Flush, CreateRender, Write, Call
<1>. QED  BY <1>2, <1>3, <1>4, <1>5 DEF Next

LEMMA InitCalm == Init /\ meets = {} => Calm
BY DEF Init, Calm, PauseWaits, CallsOK, StartOK, TaskOK, Off, Rounds, Starting, UsingStream, Callers

(* While no write is under way during a control call, no thread uses a     *)
(* task or a stream that is gone, although the engine's thread pauses      *)
(* itself and the next write starts it again without a lock. *)
THEOREM CalmUseIsSafe == Spec => []NoUseAfterReset
<1>. DEFINE I == Safe /\ (meets = {} => Calm)
<1>1. Init => I  BY InitSafe, InitCalm
<1>2. I /\ [Next]_vars => I'
  <2>. SUFFICES ASSUME I, [Next]_vars PROVE I'  OBVIOUS
  <2>1. meets' = meets  BY MeetsNeverChanges
  <2>. QED  BY <2>1, NextSafe, NextCalm
<1>3. I => NoUseAfterReset  BY DEF NoUseAfterReset, Calm
<1>. QED  BY <1>1, <1>2, <1>3, PTL DEF Spec
=============================================================================
