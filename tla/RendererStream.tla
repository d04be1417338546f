--------------------------- MODULE RendererStream ---------------------------
(***************************************************************************)
(* The life of one playback stream as three parties see it:                *)
(*                                                                         *)
(*   client   RendererInClientInner: state_, set by the notifications it   *)
(*            receives; the control calls (one at a time, statusMutex_)    *)
(*            and the thread in Write, which ends a stand-by               *)
(*   server   RendererInServer: status_, set by the handlers of the        *)
(*            client's calls (under statusLock_) and by the callbacks on   *)
(*            the PulseAudio mainloop (without it), so that either may     *)
(*            come between the other's look at it and the store            *)
(*   stream   PaRendererStreamImpl and the PulseAudio stream behind it     *)
(*                                                                         *)
(* The client's calls are synchronous; a handler only queues an operation  *)
(* on the PulseAudio stream.  When that completes, the mainloop's callback *)
(* updates status_ and sends a one-way notification, for which the client  *)
(* waits no longer than a second.                                          *)
(***************************************************************************)
EXTENDS Integers, Sequences

CONSTANT Modes      \* the modes to consider, see Mode

(* callback  renderMode_ == RENDER_MODE_CALLBACK                           *)
(* timeouts  the calls of the client whose waits may time out              *)
(* standBy   the stream may starve until the server stands by              *)
(* pending   bound: operations, and notifications, under way               *)
Operations == {"start", "pause", "flush", "drain", "stop"}

Mode == [callback : BOOLEAN, timeouts : SUBSET Operations, standBy : BOOLEAN,
         pending : Nat \ {0}]

ASSUME RendererStreamAssumption == Modes \subseteq Mode

Threads == {"control", "writer"}

VARIABLES
    mode,           \* chosen once
    (* client *)
    state,          \* state_
    notified,       \* notifiedOperation_; "none" is MAX_OPERATION_CODE
    op,             \* the control call in progress, or the last one
    pc,             \* the place of each client thread in its call
    returned,       \* what the last control call returned
    stopping,       \* a StopAudioStream is between its drain and its stop
    fresh,          \* auxiliary: nothing was left of earlier calls when this
                    \* control call began
    releasePc,      \* the place of the thread in ReleaseAudioStream
    inbox,          \* one-way notifications not yet delivered
    (* server *)
    status,         \* status_
    statusLock,     \* who holds statusLock_
    seen,           \* the status_ that the handler holding it goes by, or "none"
    standByEnable,  \* standByEnable_
    streamStatus,   \* the shared STREAM_STAND_BY, or any other value
    mainloop,       \* the place of the mainloop: "idle", in a stand-by callback,
                    \* or the status_ that the callback under way goes by
    stale,          \* auxiliary: a store to status_ went by one that was no more
    (* stream *)
    paState,        \* PaRendererStreamImpl::state_
    registered,     \* the stream is in rendererStreamMap_
    queue,          \* operations that PulseAudio completes in order
    drains,         \* drains not yet acknowledged: of the last call, of older ones
    corked          \* the PulseAudio stream is corked

client == <<state, notified, op, pc, returned, stopping, fresh, releasePc>>
server == <<status, statusLock, seen, standByEnable, streamStatus>>
stream == <<paState, registered, queue, drains, corked>>
vars == <<mode, client, inbox, server, mainloop, stale, stream>>

Init ==
    /\ mode \in Modes
    /\ state = "PREPARED" /\ notified = "none"
    /\ op = "none" /\ returned = TRUE
    /\ pc = [t \in Threads |-> "out"]
    /\ stopping = FALSE /\ fresh = TRUE /\ releasePc = "out" /\ inbox = <<>>
    /\ status = "IDLE" /\ statusLock = "free" /\ seen = "none" /\ stale = FALSE
    /\ standByEnable = FALSE /\ streamStatus = "ACTIVE" /\ mainloop = "idle"
    /\ paState = "PREPARED" /\ registered = TRUE
    /\ queue = <<>> /\ drains = {} /\ corked = TRUE

-----------------------------------------------------------------------------
(* Client: the control calls, up to the call of the server.  statusMutex_  *)
(* admits one at a time.                                                   *)

Room == Len(queue) < mode.pending /\ Len(inbox) < mode.pending

StatusMutexFree == pc["control"] = "out"

(* No operation, notification or answer of an earlier call is left for     *)
(* call o to take for its own.                                             *)
NothingLeft(o) ==
    /\ inbox = <<>> /\ queue = <<>> /\ drains = {} /\ mainloop = "idle"
    /\ notified # o /\ pc["writer"] = "out" /\ releasePc = "out"

(* A call whose check of state_ passed enters the server. *)
Call(o) ==
    /\ StatusMutexFree /\ Room
    /\ op' = o /\ fresh' = NothingLeft(o)
    /\ pc' = [pc EXCEPT !["control"] = "enter"]
    /\ UNCHANGED <<inbox, server, mainloop, stream>>

StartAudioStream ==
    /\ state \in {"PREPARED", "STOPPED", "PAUSED"}
    /\ Call("start")
    /\ UNCHANGED <<state, notified, returned, stopping, releasePc>>

PauseAudioStream ==
    /\ state = "RUNNING"
    /\ Call("pause")
    /\ UNCHANGED <<state, notified, returned, stopping, releasePc>>

FlushAudioStream ==
    /\ state \in {"RUNNING", "PAUSED", "STOPPED"}
    /\ Call("flush")
    /\ UNCHANGED <<state, notified, returned, stopping, releasePc>>

DrainAudioStream ==
    /\ state = "RUNNING"
    /\ Call("drain")
    /\ UNCHANGED <<state, notified, returned, stopping, releasePc>>

(* StopAudioStream drains first, unless it is offloaded, not RUNNING or    *)
(* cannot write what it has cached, and gives statusMutex_ back before it  *)
(* goes on.                                                                *)
StopAudioStream ==
    /\ ~stopping /\ StatusMutexFree /\ Room
    /\ stopping' = TRUE
    /\ \/ /\ state = "RUNNING" /\ op' = "drain" /\ fresh' = NothingLeft("drain")
          /\ pc' = [pc EXCEPT !["control"] = "enter"]
       \/ UNCHANGED <<op, pc, fresh>>
    /\ UNCHANGED <<state, notified, returned, releasePc, inbox, server, mainloop, stream>>

(* In callback mode state_ is STOPPING from here on. *)
StopAfterDrain ==
    /\ stopping /\ stopping' = FALSE
    /\ state \in {"RUNNING", "PAUSED"}
    /\ Call("stop")
    /\ state' = IF mode.callback THEN "STOPPING" ELSE state
    /\ UNCHANGED <<notified, returned, releasePc>>

StopNotNeeded ==
    /\ stopping /\ StatusMutexFree
    /\ state \notin {"RUNNING", "PAUSED"}
    /\ stopping' = FALSE
    /\ UNCHANGED <<state, notified, op, pc, returned, fresh, releasePc, inbox, server,
                   mainloop, stream>>

(* WriteInner looks at the shared stream status before anything else, and  *)
(* at state_ only afterwards.                                              *)
WriteInner ==
    /\ pc["writer"] = "out" /\ Room
    /\ streamStatus = "STAND_BY"
    /\ pc' = [pc EXCEPT !["writer"] = "enter"]
    /\ UNCHANGED <<state, notified, op, returned, stopping, fresh, releasePc, inbox, server,
                   mainloop, stream>>

-----------------------------------------------------------------------------
(* Server: the handlers of RendererInServer, called by thread t.           *)

Serves(t, o) == IF t = "writer" THEN o = "start" ELSE op = o

Goto(t, place) == pc' = [pc EXCEPT ![t] = place]

(* The handler returns an error: so does the control call. *)
Refuse(t) ==
    /\ Goto(t, "out")
    /\ returned' = IF t = "control" THEN FALSE ELSE returned
    /\ notified' = notified /\ state' = state

(* The handler returns SUCCESS: the control call waits, except for the     *)
(* Stop after a Start that timed out; the writer does not.                 *)
Answered(t) ==
    IF t = "control" /\ op # "abort"
    THEN Goto(t, "wait") /\ UNCHANGED returned
    ELSE /\ Goto(t, "out")
         /\ returned' = IF t = "control" THEN FALSE ELSE returned

(* A handler takes statusLock_ and looks at status_, ... *)
Check(t, allowed) ==
    /\ statusLock = "free"
    /\ IF status \in allowed
       THEN /\ statusLock' = t /\ seen' = status
            /\ Goto(t, "set") /\ UNCHANGED <<returned, notified, state>>
       ELSE Refuse(t) /\ UNCHANGED <<statusLock, seen>>
    /\ UNCHANGED <<op, stopping, fresh, releasePc, inbox, status, mainloop, stream>>

(* and sets it. Drain and Stop give the lock back then, the others at the  *)
(* end.                                                                    *)
Set(t, new, place, keepLock) ==
    /\ pc[t] = "set"
    /\ status' = new /\ seen' = "none"
    /\ statusLock' = IF keepLock THEN t ELSE "free"
    /\ Goto(t, place)
    /\ UNCHANGED <<state, notified, op, returned, stopping, fresh, releasePc, inbox,
                   standByEnable, streamStatus, mainloop, stream>>

(* The last part queues operation o, under the mainloop's lock.  A       *)
(* stream that has left rendererStreamMap_ counts as a success.            *)
Queued(o) == queue' = IF registered THEN Append(queue, o) ELSE queue

Submit(t, o, newPaState) ==
    /\ pc[t] = "queue" /\ mainloop = "idle"
    /\ Queued(o)
    /\ paState' = IF registered THEN newPaState ELSE paState
    /\ statusLock' = IF statusLock = t THEN "free" ELSE statusLock
    /\ Answered(t)
    /\ UNCHANGED <<state, notified, op, stopping, fresh, releasePc, inbox, status, seen,
                   standByEnable, streamStatus, mainloop, registered, drains, corked>>

(* Start looks at standByEnable_ first, without the lock: to leave a       *)
(* stand-by it neither takes the lock nor looks at status_.                *)
StartEnter(t) ==
    /\ Serves(t, "start") /\ pc[t] = "enter"
    /\ Goto(t, IF standByEnable THEN "queue" ELSE "lock")
    /\ streamStatus' = IF standByEnable THEN "ACTIVE" ELSE streamStatus
    /\ UNCHANGED <<state, notified, op, returned, stopping, fresh, releasePc, inbox,
                   status, statusLock, seen, standByEnable, mainloop, stream>>

StartLocked(t) ==
    /\ Serves(t, "start") /\ pc[t] = "lock"
    /\ Check(t, {"IDLE", "PAUSED", "STOPPED"})
    /\ UNCHANGED <<standByEnable, streamStatus>>

StartSets(t) == Serves(t, "start") /\ Set(t, "STARTING", "queue", TRUE)

StartRender(t) == Serves(t, "start") /\ Submit(t, "start", paState)

(* mutant: the stand-by is ended before status_ is checked *)
PauseAnyway ==
    /\ op = "pause" /\ pc["control"] = "enter"
    /\ Check("control", {"STARTED"})
    /\ standByEnable' = FALSE /\ streamStatus' = "ACTIVE"

Pause ==
    /\ op = "pause" /\ pc["control"] = "enter"
    /\ Check("control", {"STARTED"})
    /\ UNCHANGED <<standByEnable, streamStatus>>

PauseSets == op = "pause" /\ Set("control", "PAUSING", "standby", TRUE)

PauseRender == op = "pause" /\ Submit("control", "pause", paState)

FlushingWhen == [s \in {"STARTED", "PAUSED", "STOPPED"} |->
                    CASE s = "STARTED" -> "FLUSHING_WHEN_STARTED"
                      [] s = "PAUSED"  -> "FLUSHING_WHEN_PAUSED"
                      [] s = "STOPPED" -> "FLUSHING_WHEN_STOPPED"]

Flushings == {FlushingWhen[s] : s \in DOMAIN FlushingWhen}

Flush ==
    /\ op = "flush" /\ pc["control"] = "enter"
    /\ Check("control", DOMAIN FlushingWhen)
    /\ UNCHANGED <<standByEnable, streamStatus>>

FlushSets == op = "flush" /\ Set("control", FlushingWhen[seen], "queue", TRUE)

(* stream_->Flush() is not a call through the manager's map. *)
FlushStream ==
    /\ op = "flush" /\ pc["control"] = "queue" /\ mainloop = "idle"
    /\ queue' = Append(queue, "flush")
    /\ statusLock' = "free"
    /\ Answered("control")
    /\ UNCHANGED <<state, notified, op, stopping, fresh, releasePc, inbox, status, seen,
                   standByEnable, streamStatus, mainloop, paState, registered, drains, corked>>

Drain ==
    /\ op = "drain" /\ pc["control"] = "enter"
    /\ Check("control", {"STARTED"})
    /\ UNCHANGED <<standByEnable, streamStatus>>

DrainSets == op = "drain" /\ Set("control", "DRAINING", "queue", FALSE)

(* Nor is stream_->Drain(). *)
DrainStream ==
    /\ op = "drain" /\ pc["control"] = "queue" /\ mainloop = "idle"
    /\ drains' = {"own"} \cup (IF drains = {} THEN {} ELSE {"older"})
    /\ Answered("control")
    /\ UNCHANGED <<state, notified, op, stopping, fresh, releasePc, inbox, server, mainloop,
                   paState, registered, queue, corked>>

Stop ==
    /\ op \in {"stop", "abort"} /\ pc["control"] = "enter"
    /\ Check("control", {"STARTED", "PAUSED", "DRAINING", "STARTING"})
    /\ UNCHANGED <<standByEnable, streamStatus>>

StopSets == op \in {"stop", "abort"} /\ Set("control", "STOPPING", "standby", FALSE)

(* Pause and Stop end a stand-by, the one with the lock, the other without.*)
EndStandBy ==
    /\ pc["control"] = "standby"
    /\ Goto("control", "queue")
    /\ standByEnable' = FALSE
    /\ streamStatus' = IF standByEnable THEN "ACTIVE" ELSE streamStatus
    /\ UNCHANGED <<state, notified, op, returned, stopping, fresh, releasePc, inbox, status,
                   statusLock, seen, mainloop, stream>>

StopRender == op \in {"stop", "abort"} /\ Submit("control", "stop", "STOPPING")

-----------------------------------------------------------------------------
(* The mainloop.  PulseAudio completes its operations in the order they    *)
(* were queued; a callback runs with the mainloop locked and is one step,  *)
(* or two if it looks at status_ or standByEnable_ first.                  *)

Completes(o) ==
    /\ mainloop = "idle"
    /\ queue # <<>> /\ Head(queue) = o
    /\ queue' = Tail(queue)
    /\ UNCHANGED <<client, statusLock, seen, registered, drains>>

Notify(o) == inbox' = Append(inbox, o)

(* OnStatusUpdate(OPERATION_STARTED) *)
OnStarted ==
    /\ Completes("start")
    /\ corked' = FALSE /\ paState' = "RUNNING"
    /\ standByEnable' = FALSE
    /\ streamStatus' = IF standByEnable THEN "ACTIVE" ELSE streamStatus
    /\ status' = "STARTED" /\ Notify("start")
    /\ UNCHANGED mainloop

(* OnStatusUpdate(OPERATION_PAUSED) *)
OnPaused ==
    /\ Completes("pause")
    /\ corked' = TRUE /\ paState' = "PAUSED"
    /\ IF standByEnable
       THEN mainloop' = "paused" /\ UNCHANGED <<status, inbox>>
       ELSE status' = "PAUSED" /\ Notify("pause") /\ UNCHANGED mainloop
    /\ UNCHANGED <<standByEnable, streamStatus>>

(* ... in stand-by: the client is shown it and told nothing *)
OnPausedInStandBy ==
    /\ mainloop = "paused" /\ mainloop' = "idle"
    /\ streamStatus' = "STAND_BY"
    /\ UNCHANGED <<client, inbox, status, statusLock, seen, standByEnable, stream>>

(* OnStatusUpdate(OPERATION_STOPPED) *)
OnStopped ==
    /\ Completes("stop")
    /\ corked' = TRUE /\ paState' = "STOPPED"
    /\ status' = "STOPPED" /\ Notify("stop")
    /\ UNCHANGED <<standByEnable, streamStatus, mainloop>>

(* OnStatusUpdate(OPERATION_FLUSHED): HandleOperationFlushed looks at      *)
(* status_, ...                                                            *)
OnFlushed ==
    /\ Completes("flush")
    /\ IF status \in Flushings
       THEN mainloop' = status /\ UNCHANGED inbox
       ELSE Notify("flush") /\ UNCHANGED mainloop
    /\ UNCHANGED <<status, paState, standByEnable, streamStatus, corked>>

(* A callback that has looked at status_ stores what follows from it. *)
Store(new, o) ==
    /\ mainloop' = "idle" /\ status' = new /\ Notify(o)
    /\ UNCHANGED <<client, statusLock, seen, standByEnable, streamStatus, stream>>

(* mutant: every flush ends in STARTED *)
FlushedStarts ==
    \E s \in DOMAIN FlushingWhen : mainloop = FlushingWhen[s] /\ Store("STARTED", "flush")

(* mutant: the status after a flush becomes I_STATUS_INVALID *)
FlushedInvalid ==
    \E s \in DOMAIN FlushingWhen : mainloop = FlushingWhen[s] /\ Store("INVALID", "flush")

(* ... and goes back to what it was. *)
Flushed ==
    \E s \in DOMAIN FlushingWhen : mainloop = FlushingWhen[s] /\ Store(s, "flush")

(* OnStatusUpdate(OPERATION_DRAINED): OnStatusUpdateExt.  Only a drain     *)
(* that is still wanted returns status_ to STARTED and is announced.       *)
(* PulseAudio has played everything: no telling when, or which drain this  *)
(* acknowledges if several are outstanding.                                *)
OnDrained ==
    /\ mainloop = "idle"
    /\ \E d \in drains : drains' = drains \ {d}
    /\ mainloop' = IF status = "DRAINING" THEN status ELSE mainloop
    /\ UNCHANGED <<client, inbox, server, paState, registered, queue, corked>>

Drained == mainloop = "DRAINING" /\ Store("STARTED", "drain")

(* The cork of PaRendererStreamImpl::Release, which has no callback. *)
OnCorked ==
    /\ Completes("cork")
    /\ corked' = TRUE
    /\ UNCHANGED <<inbox, paState, status, standByEnable, streamStatus, mainloop>>

(* StandByCheck on OPERATION_UNDERFLOW: the stream has starved for long    *)
(* enough; the decision, then the flag and the pause.                      *)
StandByCheck ==
    /\ mode.standBy /\ mainloop = "idle" /\ Room
    /\ ~corked /\ ~standByEnable
    /\ mainloop' = "standby"
    /\ UNCHANGED <<client, inbox, server, stream>>

EnterStandBy ==
    /\ mainloop = "standby" /\ mainloop' = "idle"
    /\ standByEnable' = TRUE
    /\ queue' = Append(queue, "pause")
    /\ UNCHANGED <<client, inbox, status, statusLock, seen, streamStatus, paState,
                   registered, drains, corked>>

Mainloop ==
    \/ OnStarted \/ OnPaused \/ OnPausedInStandBy \/ OnStopped \/ OnFlushed \/ Flushed
    \/ Drained \/ OnCorked \/ EnterStandBy

-----------------------------------------------------------------------------
(* Client: notifications and the ends of the waits.                        *)

(* callServerMutex_ is held through the call of the server's Stop. *)
CallServerMutexFree ==
    op \in {"stop", "abort"} => pc["control"] \in {"out", "wait"}

(* mutant: notifiedOperation_ is not recorded *)
OnOperationForgotten ==
    /\ inbox # <<>> /\ CallServerMutexFree
    /\ inbox' = Tail(inbox)
    /\ state' = CASE Head(inbox) = "start" -> "RUNNING"
                  [] Head(inbox) = "pause" -> "PAUSED"
                  [] Head(inbox) = "stop"  -> "STOPPED"
                  [] OTHER -> state
    /\ UNCHANGED <<notified, op, pc, returned, stopping, fresh, releasePc, server, mainloop,
                   stream>>

(* OnOperationHandled: whatever the client is doing, and whatever its      *)
(* state_ is, the notification decides.                                    *)
OnOperationHandled ==
    /\ inbox # <<>> /\ CallServerMutexFree
    /\ inbox' = Tail(inbox)
    /\ notified' = Head(inbox)
    /\ state' = CASE Head(inbox) = "start" -> "RUNNING"
                  [] Head(inbox) = "pause" -> "PAUSED"
                  [] Head(inbox) = "stop"  -> "STOPPED"
                  [] OTHER -> state
    /\ UNCHANGED <<op, pc, returned, stopping, fresh, releasePc, server, mainloop, stream>>

WaitedFor == [start |-> "RUNNING", pause |-> "PAUSED", stop |-> "STOPPED"]

Waiting == pc["control"] = "wait"

Finish(result) ==
    /\ Goto("control", "out") /\ returned' = result
    /\ UNCHANGED <<op, stopping, fresh, releasePc, inbox, server, mainloop, stream>>

(* mutant: what the wait returned is ignored *)
StateReachedOrNot ==
    /\ Waiting /\ op \in DOMAIN WaitedFor
    /\ Finish(TRUE)
    /\ UNCHANGED <<state, notified>>

(* Start, Pause and Stop wait for state_ ... *)
StateReached ==
    /\ Waiting /\ op \in DOMAIN WaitedFor
    /\ state = WaitedFor[op]
    /\ Finish(TRUE)
    /\ UNCHANGED <<state, notified>>

(* mutant: notifiedOperation_ is left as it is *)
OperationStaysNotified ==
    /\ Waiting /\ op \in {"flush", "drain"}
    /\ notified = op
    /\ Finish(TRUE)
    /\ UNCHANGED <<state, notified>>

(* ... Flush and Drain for notifiedOperation_, which they reset. *)
OperationNotified ==
    /\ Waiting /\ op \in {"flush", "drain"}
    /\ notified = op /\ notified' = "none"
    /\ Finish(TRUE)
    /\ UNCHANGED state

(* A second has passed. *)
MayTimeOut == Waiting /\ op \in mode.timeouts

StartTimesOut ==
    /\ MayTimeOut /\ op = "start" /\ state # "RUNNING"
    /\ op' = "abort" /\ Goto("control", "enter")
    /\ UNCHANGED <<state, notified, returned, stopping, fresh, releasePc, inbox, server,
                   mainloop, stream>>

PauseTimesOut ==
    /\ MayTimeOut /\ op = "pause" /\ state # "PAUSED"
    /\ Finish(FALSE)
    /\ UNCHANGED <<state, notified>>

StopTimesOut ==
    /\ MayTimeOut /\ op = "stop" /\ state # "STOPPED"
    /\ state' = "INVALID"
    /\ Finish(FALSE)
    /\ UNCHANGED notified

NotifyTimesOut ==
    /\ MayTimeOut /\ op \in {"flush", "drain"} /\ notified # op
    /\ notified' = "none"
    /\ Finish(FALSE)
    /\ UNCHANGED state

-----------------------------------------------------------------------------
(* ReleaseAudioStream sets state_ under statusMutex_ and calls the server  *)
(* without it.                                                             *)

ReleaseAudioStream ==
    /\ StatusMutexFree /\ releasePc = "out" /\ Room
    /\ state # "RELEASED" /\ state' = "RELEASED"
    /\ releasePc' = "check"
    /\ UNCHANGED <<notified, op, pc, returned, stopping, fresh, inbox, server, mainloop, stream>>

Release ==
    /\ releasePc = "check" /\ statusLock = "free"
    /\ releasePc' = IF status = "RELEASED" THEN "out" ELSE "render"
    /\ UNCHANGED <<state, notified, op, pc, returned, stopping, fresh, inbox, server, mainloop,
                   stream>>

(* ReleaseRender takes the stream out of the map; PaRendererStreamImpl::   *)
(* Release corks it if it is RUNNING, and its OnStatusUpdate does nothing. *)
ReleaseRender ==
    /\ releasePc = "render" /\ mainloop = "idle"
    /\ releasePc' = "mark"
    /\ registered' = FALSE
    /\ queue' = IF registered /\ paState = "RUNNING" THEN Append(queue, "cork") ELSE queue
    /\ paState' = IF registered THEN "RELEASED" ELSE paState
    /\ UNCHANGED <<state, notified, op, pc, returned, stopping, fresh, inbox, server, mainloop,
                   drains, corked>>

ReleaseMark ==
    /\ releasePc = "mark" /\ releasePc' = "out"
    /\ status' = "RELEASED"
    /\ UNCHANGED <<state, notified, op, pc, returned, stopping, fresh, inbox, statusLock, seen,
                   standByEnable, streamStatus, mainloop, stream>>

-----------------------------------------------------------------------------
(* What the application does. *)
Application ==
    \/ StartAudioStream \/ PauseAudioStream \/ FlushAudioStream \/ DrainAudioStream
    \/ StopAudioStream \/ ReleaseAudioStream \/ WriteInner

(* What the threads inside a call do. *)
Start(t) == StartEnter(t) \/ StartLocked(t) \/ StartSets(t) \/ StartRender(t)

Control ==
    \/ Start("control") \/ Pause \/ PauseSets \/ PauseRender \/ Flush \/ FlushSets \/ FlushStream
    \/ Drain \/ DrainSets \/ DrainStream \/ Stop \/ StopSets \/ StopRender \/ EndStandBy
    \/ StateReached \/ OperationNotified \/ StopAfterDrain \/ StopNotNeeded

Releasing == Release \/ ReleaseRender \/ ReleaseMark

WaitTimesOut == StartTimesOut \/ PauseTimesOut \/ StopTimesOut \/ NotifyTimesOut

(* A handler, or a callback, stores what followed from a status_ that has  *)
(* changed since.                                                          *)
Overtaken ==
    \/ seen # "none" /\ seen' = "none" /\ status # seen
    \/ mainloop \notin {"idle", "paused", "standby"} /\ status # mainloop

Records == mode' = mode /\ stale' = (stale \/ Overtaken)

Next ==
    /\ \/ Application \/ Control \/ Start("writer") \/ Releasing \/ WaitTimesOut
       \/ Mainloop \/ OnDrained \/ StandByCheck
       \/ OnOperationHandled
    /\ Records

Spec == Init /\ [][Next]_vars

(* Threads run, IPC delivers, PulseAudio completes what is queued and ends *)
(* the drain of a stream that plays.  Nothing is promised about the        *)
(* application, the timeouts or the starving of the stream.                *)
FairSpec ==
    /\ Spec
    /\ WF_vars(Control /\ Records)
    /\ WF_vars(Start("writer") /\ Records)
    /\ WF_vars(Releasing /\ Records)
    /\ WF_vars(Mainloop /\ Records)
    /\ WF_vars(OnDrained /\ ~corked /\ Records)
    /\ WF_vars(OnOperationHandled /\ Records)

-----------------------------------------------------------------------------
TypeOK ==
    /\ mode \in Modes
    /\ state \in {"PREPARED", "RUNNING", "PAUSED", "STOPPING", "STOPPED",
                  "INVALID", "RELEASED"}
    /\ notified \in Operations \cup {"none"}
    /\ op \in Operations \cup {"none", "abort"}
    /\ pc \in [Threads -> {"out", "enter", "lock", "set", "standby", "queue", "wait"}]
    /\ returned \in BOOLEAN /\ stopping \in BOOLEAN /\ fresh \in BOOLEAN
    /\ releasePc \in {"out", "check", "render", "mark"}
    /\ inbox \in Seq(Operations)
    /\ status \in {"IDLE", "STARTING", "STARTED", "PAUSING", "PAUSED", "DRAINING",
                   "STOPPING", "STOPPED", "RELEASED"} \cup Flushings
    /\ seen \in {"none", "IDLE", "STARTING", "STARTED", "PAUSED", "DRAINING", "STOPPED"}
    /\ stale \in BOOLEAN
    /\ statusLock \in Threads \cup {"free"}
    /\ standByEnable \in BOOLEAN /\ streamStatus \in {"ACTIVE", "STAND_BY"}
    /\ mainloop \in {"idle", "paused", "standby", "DRAINING"} \cup Flushings
    /\ paState \in {"PREPARED", "RUNNING", "PAUSED", "STOPPING", "STOPPED", "RELEASED"}
    /\ registered \in BOOLEAN /\ corked \in BOOLEAN
    /\ queue \in Seq({"start", "pause", "flush", "stop", "cork"})
    /\ drains \subseteq {"own", "older"}

(* Nothing is under way in any of the three parties. *)
Quiet ==
    /\ \A t \in Threads : pc[t] = "out"
    /\ ~stopping /\ releasePc = "out" /\ mainloop = "idle"
    /\ inbox = <<>> /\ queue = <<>> /\ drains = {}

(* Normal write mode, and the stream is never starved. *)
Plain == ~mode.callback /\ ~mode.standBy

(* Whatever calls were made, timed out, refused or overtaken, once         *)
(* everything under way has settled the client's state_ is that of the     *)
(* PulseAudio stream. The server's status_ tells the same story, too,      *)
(* unless some store to it went by a status_ that was no more.             *)
Agreement ==
    Plain /\ Quiet /\ registered =>
        \E told \in {<<"PREPARED", "IDLE", TRUE>>, <<"RUNNING", "STARTED", FALSE>>,
                     <<"PAUSED", "PAUSED", TRUE>>, <<"STOPPED", "STOPPED", TRUE>>} :
            /\ state = told[1] /\ corked = told[3]
            /\ stale \/ status = told[2]

Returns(o) ==
    /\ pc["control"] = "wait" /\ op = o
    /\ pc'["control"] = "out" /\ returned'

(* What a call that returns true reports is true of the PulseAudio stream, *)
(* if nothing of an earlier call was under way when it began: Pause and    *)
(* Stop leave it corked, Flush is done and the data of Drain is played,    *)
(* whatever is released, timed out or delivered late afterwards.           *)
FreshCallsTellTheTruth ==
    [][Plain /\ fresh =>
                /\ Returns("pause") \/ Returns("stop") => corked
                /\ Returns("drain") => drains = {}
                /\ Returns("flush") => \A i \in DOMAIN queue : queue[i] # "flush"]_vars

(* An accepted call that began with nothing left over is answered by its  *)
(* notification and not by its timeout, or the stream is released.         *)
EveryCallAnswered ==
    Plain /\ fresh /\ pc["control"] = "wait" ~> pc["control"] # "wait" \/ ~registered

(* A stream the client believes to be RUNNING either plays or is in a      *)
(* stand-by the client can see, so that its next Write ends it.            *)
NoSilentStall ==
    Quiet /\ registered /\ state = "RUNNING" /\ corked =>
        standByEnable /\ streamStatus = "STAND_BY"

-----------------------------------------------------------------------------
(* Three claims that TLC refutes; the README tells how.                    *)

(* "state of server should not be changed to STARTED while the client      *)
(* state is Stopped" (renderer_in_server.cpp).                              *)
StoppedTogether == Plain /\ Quiet /\ registered /\ state = "STOPPED" => status = "STOPPED"

(* A stream that Stop reported stopped stays so until the application's    *)
(* next call.                                                              *)
Stopped == op = "stop" /\ pc["control"] = "out" /\ returned /\ state = "STOPPED"

StopLasts == [][Stopped /\ Stopped' => status' # "STARTED"]_vars

(* Drain returns true only when its own data has been played             *)
(* (audio_renderer.h: "true if the buffer is successfully drained").       *)
DrainedOnReturn == [][Returns("drain") => "own" \notin drains]_vars
=============================================================================
