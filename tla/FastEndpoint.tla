---------------------------- MODULE FastEndpoint ----------------------------
(***************************************************************************)
(* The fast path: AudioService links client processes to the one endpoint  *)
(* of a device, AudioEndpointInner runs the device while a process plays,  *)
(* stops it ten seconds after the last one has paused, and the service     *)
(* releases the endpoint ten seconds after the last process has left.      *)
(*                                                                         *)
(* None of the endpoint's threads owns endpointStatus_: the handlers of    *)
(* the processes' calls (OnStart and OnPause, under the statusLock_ of     *)
(* their process only), the service (LinkProcessStream and                 *)
(* UnlinkProcessStream, under processListMutex_), the work loop            *)
(* (CheckStandBy) and the update thread (DelayStopDevice) all read it,     *)
(* decide and write it.  Each of those reads, and each of the stores, is a *)
(* step here, and so is each look of IsAnyProcessRunning at the word of a  *)
(* process: between any two of them another thread may have its turn.      *)
(***************************************************************************)
EXTENDS Integers, FiniteSets

CONSTANTS
    Processes,      \* each is linked at most once
    Cases           \* what may happen in the behaviours to consider, see Init

Requests == {"start", "resume", "pause", "stop"}

Mishaps == {"starve", "die", "fail", "slow"}

ASSUME FastEndpointAssumption == Cases \subseteq SUBSET (Requests \cup Mishaps)

(* The threads of a process: the one that calls Start, Pause, ..., the one *)
(* that writes and so leaves a stand-by, and, in the server, the one that  *)
(* the death of the client starts.                                         *)
Threads == Processes \X {"control", "callback", "death"}

VARIABLES
    may,            \* what may happen in this behaviour
    (* the processes *)
    word,           \* streamStatus_, shared by client and server
    back,           \* what Stop returns word to if it is refused
    op,             \* the control call in progress
    leaving,        \* the client is in Release
    alive,          \* the client process lives
    linked,         \* the process knows this endpoint, or one released since
    pc,             \* the place of each thread
    (* AudioService *)
    pairs,          \* linkedPairedList_
    exists,         \* the endpoint is in endpointList_
    releasingSet,   \* its name is in releasingEndpointSet_
    timers,         \* threads in DelayCallReleaseEndpoint, not yet past the wait
    closing,        \* one of them is in AudioEndpointInner::Release
    (* AudioEndpointInner *)
    status,         \* endpointStatus_
    isStarted,      \* isStarted_
    delayStopTime,  \* "never" is INT64_MAX, "set" any other time
    list,           \* processList_ and processBufferList_
    looked,         \* what of it IsAnyProcessRunning has looked at
    device,         \* the sink plays
    loop,           \* the place of the work loop, and the process it marks
    update          \* the place of AsyncGetPosTime

process == <<word, back, op, leaving, alive>>
service == <<pairs, exists, releasingSet, timers, closing>>
endpoint == <<status, isStarted, delayStopTime, list, looked, device>>
workers == <<loop, update>>
vars == <<may, process, linked, pc, service, endpoint, workers>>

(* start, resume, pause, stop   the application may make this call;        *)
(* starve  a process, one, may write nothing until it is put in stand-by   *)
(* die     a client, one, may die at any moment                            *)
(* fail    the sink may fail to start                                      *)
(* slow    it may take longer than LinkProcessStream waits                 *)
Init ==
    /\ may \in Cases
    /\ word = [p \in Processes |-> "INVALID"] /\ back = word
    /\ op = [p \in Processes |-> "none"]
    /\ leaving = {} /\ alive = Processes
    /\ linked = [p \in Processes |-> "no"]
    /\ pc = [t \in Threads |-> "out"]
    /\ pairs = {} /\ exists = FALSE /\ releasingSet = FALSE
    /\ timers = 0 /\ closing = FALSE
    /\ status = "INVALID" /\ isStarted = FALSE /\ delayStopTime = "never"
    /\ list = {} /\ looked = {} /\ device = FALSE
    /\ loop = <<"idle", "none">> /\ update = "idle"

-----------------------------------------------------------------------------
Goto(t, place) == pc' = [pc EXCEPT ![t] = place]

(* A handler of a process that is linked to a released endpoint changes    *)
(* that endpoint, which no thread serves any more.                         *)
Live(t) == linked[t[1]] = "live"

Linking(p) == op[p] = "link" /\ pc[<<p, "control">>] \notin {"out", "gone"}
Unlinking == {"stop", "stopped"}

(* processListMutex_ is held by whoever links or unlinks, *)
ProcessListMutexFree ==
    /\ \A p \in Processes : ~Linking(p)
    /\ \A t \in Threads : pc[t] \notin Unlinking \cup {"needrelease", "announce"}

(* listLock_ by whoever unlinks, looks for a running process, or deals     *)
(* with a device that has failed, and by the work loop while it marks,     *)
ListLockFree ==
    /\ \A t \in Threads : Live(t) => pc[t] \notin Unlinking \cup {"scan", "failed"}
    /\ loop[1] \notin {"mark", "scan"}

(* statusLock_ of p by the thread inside Start, Pause, Resume, Stop or     *)
(* Release; the death recipient does not take it.                          *)
Outside == {"out", "gone", "enter", "client", "release"}

StatusLockFree(p) == pc[<<p, "control">>] \in Outside /\ pc[<<p, "callback">>] \in Outside

(* IsAnyProcessRunning looks at one word after the other, until one is     *)
(* RUNNING: where the next look leads, and what has then been looked at.   *)
Look(p) ==
    IF word[p] = "RUNNING" THEN <<"someruns", {}>>
    ELSE IF looked \cup {p} = list THEN <<"noneruns", {}>> ELSE <<"scan", looked \cup {p}>>

IsAnyProcessRunning ==
    IF list = {} THEN {<<"noneruns", {}>>} ELSE {Look(p) : p \in list \ looked}

Found == [someruns |-> "RUNNING", noneruns |-> "IDEL"]

(* Bound: one client starves, one client dies. *)
Happened(mishap) == (may \ {mishap}) \cup {"happened"}

Sets(t, new) == status' = IF Live(t) THEN new ELSE status

-----------------------------------------------------------------------------
(* The client's control calls.                                             *)

From == [start  |-> {"IDEL"},
         resume |-> {"PAUSED", "STOPPED"},
         pause  |-> {"RUNNING"},
         stop   |-> {"STARTING", "RUNNING", "PAUSING", "PAUSED", "STOPPING", "STAND_BY"}]

Through == [start |-> "STARTING", resume |-> "STARTING", pause |-> "PAUSING",
            stop |-> "STOPPING"]

Reached == [start |-> "RUNNING", resume |-> "RUNNING", pause |-> "PAUSED",
            stop |-> "STOPPED"]

(* The status words AudioProcessInServer accepts the call in. *)
Accepted == [start |-> {"STARTING", "STAND_BY"}, resume |-> {"STARTING"},
             pause |-> {"PAUSING"}, stop |-> {"STOPPING"}]

(* The word is changed before the server is called ... *)
Call(p, o) ==
    /\ p \in alive /\ pc[<<p, "control">>] = "out"
    /\ p \in leaving => o = "stop" /\ op[p] = "release"
    /\ word[p] \in From[o]
    /\ word' = [word EXCEPT ![p] = Through[o]]
    /\ back' = [back EXCEPT ![p] = CASE o = "start" -> "IDEL"
                                     [] o = "resume" -> "PAUSED"
                                     [] o = "pause" -> "RUNNING"
                                     [] o = "stop" -> word[p]]
    /\ op' = [op EXCEPT ![p] = o]
    /\ Goto(<<p, "control">>, "enter")
    /\ UNCHANGED <<may, leaving, alive, linked, service, endpoint, workers>>

(* ... and again when it has answered. *)
Return(p) ==
    /\ p \in alive /\ pc[<<p, "control">>] = "client"
    /\ word' = [word EXCEPT ![p] = Reached[op[p]]]
    /\ back' = [back EXCEPT ![p] = "INVALID"]
    /\ Goto(<<p, "control">>, "out")
    /\ UNCHANGED <<may, op, leaving, alive, linked, service, endpoint, workers>>

(* Release stops first, if Stop finds anything to stop, whether the server *)
(* agrees or not.                                                          *)
Release(p) ==
    /\ p \in (alive \cap pairs) \ leaving /\ pc[<<p, "control">>] = "out"
    /\ leaving' = leaving \cup {p} /\ op' = [op EXCEPT ![p] = "release"]
    /\ UNCHANGED <<may, word, back, alive, linked, pc, service, endpoint, workers>>

ReleaseStopped(p) ==
    /\ p \in alive \cap leaving /\ pc[<<p, "control">>] = "out"
    /\ op[p] = "stop" \/ word[p] \notin From.stop
    /\ Goto(<<p, "control">>, "release")
    /\ UNCHANGED <<may, process, linked, service, endpoint, workers>>

(* The writing thread of the client finds the word STAND_BY. *)
CallExitStandBy(p) ==
    /\ p \in alive \ leaving /\ pc[<<p, "callback">>] = "out"
    /\ word[p] = "STAND_BY"
    /\ Goto(<<p, "callback">>, "enter")
    /\ UNCHANGED <<may, process, linked, service, endpoint, workers>>

ExitedStandBy(p) ==
    /\ p \in alive /\ pc[<<p, "callback">>] = "client"
    /\ word' = IF word[p] = "STARTING" THEN [word EXCEPT ![p] = "RUNNING"] ELSE word
    /\ Goto(<<p, "callback">>, "out")
    /\ UNCHANGED <<may, back, op, leaving, alive, linked, service, endpoint, workers>>

(* The client dies; the calls it has in the server go on. *)
Die(p) ==
    /\ "die" \in may /\ p \in alive /\ p \in pairs
    /\ alive' = alive \ {p} /\ may' = Happened("die")
    /\ Goto(<<p, "death">>, "release")
    /\ UNCHANGED <<word, back, op, leaving, linked, service, endpoint, workers>>

-----------------------------------------------------------------------------
(* AudioProcessInServer: Start, Pause, Resume and Stop check the word      *)
(* under statusLock_, then call the endpoint and ignore what it returns.   *)

Calls(t) == IF t[2] = "callback" THEN "start" ELSE op[t[1]]

Enter(t) ==
    /\ pc[t] = "enter" /\ StatusLockFree(t[1])
    /\ IF word[t[1]] \in Accepted[Calls(t)] /\ t[1] \in pairs
       THEN /\ Goto(t, IF Calls(t) \in {"start", "resume"} THEN "onstart" ELSE "onpause")
            /\ UNCHANGED <<word, back>>
       ELSE /\ Goto(t, IF t[2] = "callback" THEN "client" ELSE "out")
            /\ word' = IF t[2] = "control" /\ t[1] \in alive
                       THEN [word EXCEPT ![t[1]] = back[t[1]]] ELSE word
            /\ back' = IF t[2] = "control" THEN [back EXCEPT ![t[1]] = "INVALID"] ELSE back
    /\ UNCHANGED <<may, op, leaving, alive, linked, service, endpoint, workers>>

(* Start turns a stand-by into STARTING. *)
Answer(t) ==
    /\ pc[t] = "answer"
    /\ word' = IF Calls(t) = "start" /\ word[t[1]] = "STAND_BY"
               THEN [word EXCEPT ![t[1]] = "STARTING"] ELSE word
    /\ Goto(t, "client")
    /\ UNCHANGED <<may, back, op, leaving, alive, linked, service, endpoint, workers>>

-----------------------------------------------------------------------------
(* AudioEndpointInner.                                                     *)

Only(t) == UNCHANGED <<may, process, linked, service, workers>>

(* OnStart asks twice what the status is, ... *)
OnStart(t) ==
    /\ pc[t] = "onstart"
    /\ Goto(t, IF Live(t) /\ status = "RUNNING" THEN "answer" ELSE "onstartidle")
    /\ UNCHANGED endpoint /\ Only(t)

OnStartIdle(t) ==
    /\ pc[t] = "onstartidle"
    /\ Goto(t, IF Live(t) /\ status = "IDEL" THEN "device" ELSE "setrunning")
    /\ UNCHANGED endpoint /\ Only(t)

(* starts a device that is not started, ... *)
OnStartDevice(t) ==
    /\ pc[t] = "device"
    /\ Goto(t, IF Live(t) /\ ~isStarted THEN "startdevice" ELSE "setrunning")
    /\ UNCHANGED endpoint /\ Only(t)

(* and is RUNNING, whatever it was. *)
SetRunning(t) ==
    /\ pc[t] = "setrunning"
    /\ Sets(t, "RUNNING") /\ Goto(t, "neverstop")
    /\ UNCHANGED <<isStarted, delayStopTime, list, looked, device>> /\ Only(t)

CancelDelay(t) ==
    /\ pc[t] = "neverstop"
    /\ delayStopTime' = IF Live(t) THEN "never" ELSE delayStopTime
    /\ Goto(t, "answer")
    /\ UNCHANGED <<status, isStarted, list, looked, device>> /\ Only(t)

(* StartDevice, called by OnStart and by LinkProcessStream, insists on     *)
(* IDEL, ...                                                               *)
StartDevice(t) ==
    /\ pc[t] = "startdevice"
    /\ Goto(t, IF Live(t) /\ status = "IDEL" THEN "setstarting"
               ELSE IF Calls(t) = "link" THEN "refused" ELSE "answer")
    /\ UNCHANGED endpoint /\ Only(t)

SetStarting(t) ==
    /\ pc[t] = "setstarting"
    /\ Sets(t, "STARTING") /\ Goto(t, "sink")
    /\ UNCHANGED <<isStarted, delayStopTime, list, looked, device>> /\ Only(t)

SinkStarts(t) ==
    /\ pc[t] = "sink"
    /\ device' = (Live(t) \/ device) /\ Goto(t, "started")
    /\ UNCHANGED <<status, isStarted, delayStopTime, list, looked>> /\ Only(t)

(* ... leaves an endpoint IDEL whose device has failed, or UNLINKED, ...    *)
SinkFails(t) ==
    /\ "fail" \in may /\ pc[t] = "sink" /\ ListLockFree
    /\ isStarted' = (isStarted /\ ~Live(t)) /\ Goto(t, "failed")
    /\ UNCHANGED <<status, delayStopTime, list, looked, device>> /\ Only(t)

HandleStartDeviceFailed(t) ==
    /\ "fail" \in may /\ pc[t] = "failed"
    /\ Sets(t, IF Cardinality(list) <= 1 THEN "UNLINKED" ELSE "IDEL")
    /\ Goto(t, IF Calls(t) = "link" THEN "refused" ELSE "answer")
    /\ UNCHANGED <<isStarted, delayStopTime, list, looked, device>> /\ Only(t)

(* ... and one whose device plays RUNNING if a process is.                 *)
DeviceStarted(t) ==
    /\ pc[t] = "started"
    /\ isStarted' = (isStarted \/ Live(t)) /\ Goto(t, "settle")
    /\ UNCHANGED <<status, delayStopTime, list, looked, device>> /\ Only(t)

(* OnPause: a RUNNING endpoint on which nothing runs is IDEL, ... *)
OnPause(t) ==
    /\ pc[t] = "onpause"
    /\ Goto(t, IF Live(t) /\ status = "RUNNING" THEN "settle" ELSE "ifidle")
    /\ UNCHANGED endpoint /\ Only(t)

Looks(t) ==
    /\ \/ pc[t] = "settle" /\ (Live(t) => ListLockFree)
       \/ pc[t] = "scan"
    /\ \E next \in IF Live(t) THEN IsAnyProcessRunning ELSE {<<"noneruns", looked>>} :
          Goto(t, next[1]) /\ looked' = next[2]
    /\ UNCHANGED <<status, isStarted, delayStopTime, list, device>> /\ Only(t)

(* mutant: the delayed stop is announced only by a pause that finds the    *)
(* endpoint IDEL already                                                   *)
SettlesForgets(t) ==
    /\ pc[t] \in DOMAIN Found
    /\ Sets(t, Found[pc[t]])
    /\ Goto(t, CASE Calls(t) = "link" -> "arm"
                 [] Calls(t) \in {"start", "resume"} -> "setrunning"
                 [] OTHER -> "answer")
    /\ UNCHANGED <<isStarted, delayStopTime, list, looked, device>> /\ Only(t)

(* By the time the result is stored it may be out of date. *)
Settles(t) ==
    /\ pc[t] \in DOMAIN Found
    /\ Sets(t, Found[pc[t]])
    /\ Goto(t, CASE Calls(t) = "link" -> "arm"
                 [] Calls(t) \in {"start", "resume"} -> "setrunning"
                 [] OTHER -> "ifidle")
    /\ UNCHANGED <<isStarted, delayStopTime, list, looked, device>> /\ Only(t)

(* ... and an IDEL one will be stopped.  So will one that was linked for   *)
(* the first time, if nothing plays.                                       *)
OnPauseIdle(t) ==
    /\ pc[t] = "ifidle"
    /\ Goto(t, IF Live(t) /\ status = "IDEL" THEN "arm" ELSE "answer")
    /\ UNCHANGED endpoint /\ Only(t)

Arms(t) ==
    /\ pc[t] = "arm"
    /\ delayStopTime' = IF Live(t) THEN "set" ELSE delayStopTime
    /\ Goto(t, IF Calls(t) = "link" THEN "idle" ELSE "answer")
    /\ UNCHANGED <<status, isStarted, list, looked, device>> /\ Only(t)

Handler(t) ==
    \/ Enter(t) \/ Answer(t) \/ OnStart(t) \/ OnStartIdle(t) \/ OnStartDevice(t)
    \/ SetRunning(t) \/ CancelDelay(t) \/ StartDevice(t) \/ SetStarting(t) \/ SinkStarts(t)
    \/ SinkFails(t) \/ HandleStartDeviceFailed(t) \/ DeviceStarted(t) \/ OnPause(t)
    \/ Looks(t) \/ Settles(t) \/ OnPauseIdle(t) \/ Arms(t)

-----------------------------------------------------------------------------
(* AudioService::GetAudioProcess and LinkProcessStream.                    *)

(* GetAudioEndpointForDevice: the endpoint in endpointList_, or a new one. *)
GetAudioProcess(p) ==
    /\ linked[p] = "no" /\ pc[<<p, "control">>] = "out" /\ ProcessListMutexFree
    /\ op' = [op EXCEPT ![p] = "link"]
    /\ linked' = [linked EXCEPT ![p] = "live"]
    /\ exists' = TRUE
    /\ IF exists THEN UNCHANGED endpoint
       ELSE /\ status' = "UNLINKED" /\ isStarted' = FALSE /\ delayStopTime' = "never"
            /\ list' = {} /\ UNCHANGED <<looked, device>>
    /\ Goto(<<p, "control">>, "wait")
    /\ UNCHANGED <<may, word, back, leaving, alive, pairs, releasingSet, timers, closing,
                   workers>>

AtLink(p, place) == pc[<<p, "control">>] = place /\ op[p] = "link"

(* It waits for a device that is starting, but not for ever, ... *)
LinkWaits(p) ==
    /\ AtLink(p, "wait")
    /\ Live(<<p, "control">>) /\ status = "STARTING" => "slow" \in may
    /\ Goto(<<p, "control">>, "running")
    /\ UNCHANGED endpoint /\ Only(p)

(* and then asks three times what the status is. *)
LinkRunning(p) ==
    /\ AtLink(p, "running")
    /\ Goto(<<p, "control">>, IF Live(<<p, "control">>) /\ status = "RUNNING"
                              THEN "push" ELSE "unlinked")
    /\ UNCHANGED endpoint /\ Only(p)

LinkProcessStreamExt(p) ==
    /\ AtLink(p, "push") /\ ListLockFree
    /\ list' = IF Live(<<p, "control">>) THEN list \cup {p} ELSE list
    /\ Goto(<<p, "control">>, "mutex")
    /\ UNCHANGED <<status, isStarted, delayStopTime, looked, device>> /\ Only(p)

(* The first process makes an UNLINKED endpoint IDEL and starts the device.*)
LinkUnlinked(p) ==
    /\ AtLink(p, "unlinked")
    /\ Goto(<<p, "control">>, IF Live(<<p, "control">>) /\ status = "UNLINKED"
                              THEN "setidle" ELSE "idle")
    /\ UNCHANGED endpoint /\ Only(p)

SetIdle(p) ==
    /\ AtLink(p, "setidle")
    /\ Sets(<<p, "control">>, "IDEL") /\ Goto(<<p, "control">>, "startdevice")
    /\ UNCHANGED <<isStarted, delayStopTime, list, looked, device>> /\ Only(p)

LinkIdle(p) ==
    /\ AtLink(p, "idle")
    /\ Goto(<<p, "control">>, IF Live(<<p, "control">>) /\ status = "IDEL"
                              THEN "push" ELSE "mutex")
    /\ UNCHANGED endpoint /\ Only(p)

(* LinkProcessToEndpoint calls off the endpoint's release, *)
LinkProcessToEndpoint(p) ==
    /\ AtLink(p, "mutex") /\ ~closing
    /\ releasingSet' = FALSE
    /\ pairs' = pairs \cup {p}
    /\ word' = [word EXCEPT ![p] = "IDEL"]
    /\ Goto(<<p, "control">>, "out")
    /\ UNCHANGED <<may, back, op, leaving, alive, linked, exists, timers, closing,
                   endpoint, workers>>

(* unless the link failed: the pair is listed, the client gets nothing. *)
LinkRefused(p) ==
    /\ AtLink(p, "refused")
    /\ pairs' = pairs \cup {p}
    /\ Goto(<<p, "control">>, "gone")
    /\ UNCHANGED <<may, process, linked, exists, releasingSet, timers, closing, endpoint,
                   workers>>

Link(p) ==
    \/ LinkWaits(p) \/ LinkRunning(p) \/ LinkProcessStreamExt(p) \/ LinkUnlinked(p)
    \/ SetIdle(p) \/ LinkIdle(p) \/ LinkProcessToEndpoint(p) \/ LinkRefused(p)

-----------------------------------------------------------------------------
(* AudioService::OnProcessRelease and UnlinkProcessStream, called by       *)
(* Release under statusLock_, and by the death of the client without it.   *)

Ends(t) == t[2] \in {"control", "death"}

(* mutant: the endpoint is UNLINKED with the first process that leaves *)
UnlinkFirst(t) ==
    /\ Ends(t) /\ pc[t] = "release" /\ ProcessListMutexFree /\ ListLockFree
    /\ t[2] = "control" => StatusLockFree(t[1])
    /\ t[1] \in pairs /\ Live(t)
    /\ list' = list \ {t[1]}
    /\ status' = "STOPPING" /\ Goto(t, "stop")
    /\ UNCHANGED <<isStarted, delayStopTime, looked, device>> /\ Only(t)

(* mutant: like LinkProcessStream, it does nothing while a device starts *)
UnlinkUnlessStarting(t) ==
    /\ Ends(t) /\ pc[t] = "release" /\ ProcessListMutexFree /\ ListLockFree
    /\ t[2] = "control" => StatusLockFree(t[1])
    /\ t[1] \in pairs /\ Live(t)
    /\ list' = IF status = "STARTING" THEN list ELSE list \ {t[1]}
    /\ IF list' = {} THEN status' = "STOPPING" /\ Goto(t, "stop")
                     ELSE Goto(t, "needrelease") /\ UNCHANGED status
    /\ UNCHANGED <<isStarted, delayStopTime, looked, device>> /\ Only(t)

(* The process leaves the list; the last one stops the device (of STOPPED, *)
(* which lasts until the next statement, no other thread takes notice).    *)
UnlinkProcessStream(t) ==
    /\ Ends(t) /\ pc[t] = "release" /\ ProcessListMutexFree /\ ListLockFree
    /\ t[2] = "control" => StatusLockFree(t[1])
    /\ t[1] \in pairs /\ Live(t)
    /\ list' = list \ {t[1]}
    /\ IF list' = {} THEN status' = "STOPPING" /\ Goto(t, "stop")
                     ELSE Goto(t, "needrelease") /\ UNCHANGED status
    /\ UNCHANGED <<isStarted, delayStopTime, looked, device>> /\ Only(t)

(* mutant: the status stays what StopDevice made it *)
StaysStopped(t) ==
    /\ pc[t] = "stopped"
    /\ status' = "STOPPED" /\ isStarted' = FALSE /\ Goto(t, "needrelease")
    /\ UNCHANGED <<delayStopTime, list, looked, device>> /\ Only(t)

StopDevice(t) ==
    /\ pc[t] = "stop"
    /\ device' = FALSE /\ Goto(t, "stopped")
    /\ UNCHANGED <<status, isStarted, delayStopTime, list, looked>> /\ Only(t)

DeviceStopped(t) ==
    /\ pc[t] = "stopped"
    /\ status' = "UNLINKED" /\ isStarted' = FALSE /\ Goto(t, "needrelease")
    /\ UNCHANGED <<delayStopTime, list, looked, device>> /\ Only(t)

Gone(t) ==
    /\ Goto(t, "gone")
    /\ word' = IF t[2] = "control" /\ t[1] \in alive
               THEN [word EXCEPT ![t[1]] = "RELEASED"] ELSE word
    /\ UNCHANGED <<may, back, op, leaving, alive, linked, exists, closing, endpoint, workers>>

(* A released endpoint whose list is empty calls itself UNLINKED, too. *)
NeedRelease(t) ==
    /\ \/ pc[t] = "needrelease"
       \/ /\ Ends(t) /\ pc[t] = "release" /\ ProcessListMutexFree
          /\ t[2] = "control" => StatusLockFree(t[1])
          /\ t[1] \in pairs /\ ~Live(t)
    /\ pairs' = pairs \ {t[1]}
    /\ \/ /\ Live(t) => status = "UNLINKED"
          /\ Goto(t, "announce") /\ UNCHANGED <<word, releasingSet, timers>>
          /\ UNCHANGED <<may, back, op, leaving, alive, linked, exists, closing, endpoint,
                         workers>>
       \/ /\ Live(t) => status # "UNLINKED"
          /\ Gone(t) /\ UNCHANGED <<releasingSet, timers>>

(* mutant: the name is not inserted into releasingEndpointSet_ *)
AnnounceUnnamed(t) ==
    /\ pc[t] = "announce" /\ ~closing
    /\ timers' = timers + 1 /\ UNCHANGED releasingSet
    /\ Gone(t) /\ UNCHANGED pairs

(* The endpoint's name is announced, and a thread waits ten seconds. *)
AnnounceRelease(t) ==
    /\ pc[t] = "announce" /\ ~closing
    /\ releasingSet' = TRUE /\ timers' = timers + 1
    /\ Gone(t) /\ UNCHANGED pairs

AlreadyReleased(t) ==
    /\ Ends(t) /\ pc[t] = "release" /\ ProcessListMutexFree
    /\ t[2] = "control" => StatusLockFree(t[1])
    /\ t[1] \notin pairs
    /\ Gone(t) /\ UNCHANGED <<pairs, releasingSet, timers>>

OnProcessRelease(t) ==
    \/ UnlinkProcessStream(t) \/ StopDevice(t) \/ DeviceStopped(t)
    \/ NeedRelease(t) \/ AnnounceRelease(t) \/ AlreadyReleased(t)

-----------------------------------------------------------------------------
(* DelayCallReleaseEndpoint.  releaseEndpointMutex_ is held through the    *)
(* endpoint's Release, processListMutex_ is not taken.                     *)

ReleaseCalledOff ==
    /\ timers > 0 /\ ~closing
    /\ ~releasingSet \/ ~exists
    /\ timers' = timers - 1
    /\ UNCHANGED <<may, process, linked, pc, pairs, exists, releasingSet, closing, endpoint,
                   workers>>

DelayCallReleaseEndpoint ==
    /\ timers > 0 /\ ~closing /\ releasingSet
    /\ timers' = timers - 1
    /\ releasingSet' = FALSE
    /\ closing' = (exists /\ status = "UNLINKED")
    /\ UNCHANGED <<may, process, linked, pc, pairs, exists, endpoint, workers>>

(* AudioEndpointInner::Release joins the endpoint's threads and lets the    *)
(* sink go; the endpoint leaves endpointList_.                             *)
EndpointReleased ==
    /\ closing /\ loop[1] = "idle" /\ update = "idle"
    /\ closing' = FALSE /\ exists' = FALSE
    /\ status' = "INVALID" /\ device' = FALSE /\ list' = {} /\ looked' = {}
    /\ isStarted' = FALSE /\ delayStopTime' = "never"
    /\ linked' = [p \in Processes |-> IF linked[p] = "live" THEN "dead" ELSE linked[p]]
    /\ UNCHANGED <<may, process, pc, pairs, releasingSet, timers, workers>>

Releasing == ReleaseCalledOff \/ DelayCallReleaseEndpoint \/ EndpointReleased

-----------------------------------------------------------------------------
(* The endpoint's own threads.                                             *)

Runs == exists /\ ~closing

Loop(place, p) == loop' = <<place, p>>

Loops == UNCHANGED <<may, linked, pc, service, update>>

(* KeepWorkloopRunning; of the rounds that find nobody starved nothing is  *)
(* kept.                                                                   *)
KeepWorkloopRunning ==
    /\ "starve" \in may /\ Runs /\ loop[1] = "idle"
    /\ status \in {"RUNNING", "IDEL"}
    /\ Loop("awake", "none")
    /\ Loops /\ UNCHANGED <<process, endpoint>>

NobodyStarved ==
    /\ loop[1] = "awake" /\ Loop("idle", "none")
    /\ Loops /\ UNCHANGED <<process, endpoint>>

(* CheckAllBufferReady: a RUNNING process that has written nothing for     *)
(* long is put in stand-by, whatever the client has made of the word       *)
(* since.                                                                  *)
FindStarved(p) ==
    /\ loop[1] = "awake" /\ ListLockFree /\ "starve" \in may
    /\ p \in list /\ word[p] = "RUNNING"
    /\ Loop("mark", p) /\ may' = Happened("starve")
    /\ UNCHANGED <<process, linked, pc, service, endpoint, update>>

MarkStandBy ==
    /\ loop[1] = "mark"
    /\ word' = [word EXCEPT ![loop[2]] = "STAND_BY"]
    /\ Loop("check", "none")
    /\ Loops /\ UNCHANGED <<back, op, leaving, alive, endpoint>>

(* CheckStandBy does what OnPause does. *)
CheckStandBy ==
    /\ loop[1] = "check"
    /\ Loop(IF status = "RUNNING" THEN "settle" ELSE "ifidle", "none")
    /\ Loops /\ UNCHANGED <<process, endpoint>>

CheckStandByLooks ==
    /\ (loop[1] = "settle" /\ ListLockFree) \/ loop[1] = "scan"
    /\ \E next \in IsAnyProcessRunning : Loop(next[1], "none") /\ looked' = next[2]
    /\ Loops /\ UNCHANGED <<process, status, isStarted, delayStopTime, list, device>>

CheckStandBySettles ==
    /\ loop[1] \in DOMAIN Found
    /\ status' = Found[loop[1]] /\ Loop("ifidle", "none")
    /\ Loops /\ UNCHANGED <<process, isStarted, delayStopTime, list, looked, device>>

CheckStandByIdle ==
    /\ loop[1] = "ifidle"
    /\ Loop(IF status = "IDEL" THEN "arm" ELSE "idle", "none")
    /\ Loops /\ UNCHANGED <<process, endpoint>>

CheckStandByArms ==
    /\ loop[1] = "arm"
    /\ delayStopTime' = "set" /\ Loop("idle", "none")
    /\ Loops /\ UNCHANGED <<process, status, isStarted, list, looked, device>>

WorkLoop ==
    \/ KeepWorkloopRunning \/ NobodyStarved \/ MarkStandBy \/ CheckStandBy \/ CheckStandByLooks
    \/ CheckStandBySettles \/ CheckStandByIdle \/ CheckStandByArms

Updates == UNCHANGED <<may, process, linked, pc, service, status, delayStopTime, list,
                       looked, loop>>

(* AsyncGetPosTime: the endpoint is IDEL, its device started, and that for *)
(* too long.                                                               *)
AsyncGetPosTime ==
    /\ \/ Runs /\ update = "idle" /\ status = "IDEL" /\ update' = "isstarted"
       \/ update = "isstarted" /\ update' = IF isStarted THEN "istime" ELSE "idle"
       \/ update = "istime" /\ update' = IF delayStopTime = "set" THEN "stop" ELSE "idle"
    /\ Updates /\ UNCHANGED <<isStarted, device>>

DelayStopDevice ==
    /\ update = "stop" /\ update' = "stopped" /\ device' = FALSE
    /\ Updates /\ UNCHANGED isStarted

DelayStopped ==
    /\ update = "stopped" /\ update' = "idle" /\ isStarted' = FALSE
    /\ Updates /\ UNCHANGED device

Update == AsyncGetPosTime \/ DelayStopDevice \/ DelayStopped

-----------------------------------------------------------------------------
Application ==
    \E p \in Processes :
        \/ GetAudioProcess(p) \/ Release(p)
        \/ \E o \in Requests \cap may : Call(p, o)

(* The threads of a process, through client and server. *)
Control(p) ==
    \/ Link(p) \/ Handler(<<p, "control">>) \/ OnProcessRelease(<<p, "control">>)
    \/ Return(p) \/ ReleaseStopped(p) \/ (p \in leaving /\ Call(p, "stop"))

Callback(p) == CallExitStandBy(p) \/ Handler(<<p, "callback">>) \/ ExitedStandBy(p)

Death(p) == OnProcessRelease(<<p, "death">>)

Next ==
    \/ Application
    \/ \E p \in Processes : Control(p) \/ Callback(p) \/ Death(p) \/ Die(p) \/ FindStarved(p)
    \/ Releasing \/ WorkLoop \/ Update

Spec == Init /\ [][Next]_vars

(* Every thread runs, the ten seconds pass, and a client that lives goes   *)
(* on with what it has begun.  Nothing is promised of the application.     *)
FairSpec ==
    /\ Spec
    /\ \A p \in Processes : WF_vars(Control(p)) /\ WF_vars(Callback(p)) /\ WF_vars(Death(p))
    /\ WF_vars(Releasing) /\ WF_vars(WorkLoop) /\ WF_vars(Update)

-----------------------------------------------------------------------------
TypeOK ==
    /\ may \subseteq Requests \cup Mishaps \cup {"happened"}
    /\ word \in [Processes -> {"INVALID", "IDEL", "STARTING", "RUNNING", "PAUSING", "PAUSED",
                               "STOPPING", "STOPPED", "STAND_BY", "RELEASED"}]
    /\ back \in [Processes -> {"INVALID", "IDEL", "STARTING", "RUNNING", "PAUSING", "PAUSED",
                               "STOPPING", "STAND_BY"}]
    /\ op \in [Processes -> {"none", "link", "release"} \cup DOMAIN From]
    /\ leaving \subseteq Processes /\ alive \subseteq Processes /\ pairs \subseteq Processes
    /\ linked \in [Processes -> {"no", "live", "dead"}]
    /\ exists \in BOOLEAN /\ releasingSet \in BOOLEAN /\ closing \in BOOLEAN
    /\ timers \in Nat
    /\ status \in {"INVALID", "UNLINKED", "IDEL", "STARTING", "RUNNING", "STOPPING"}
    /\ isStarted \in BOOLEAN /\ delayStopTime \in {"never", "set"}
    /\ list \subseteq Processes /\ looked \subseteq Processes /\ device \in BOOLEAN
    /\ loop \in {"idle", "awake", "mark", "check", "settle", "scan", "someruns", "noneruns",
                 "ifidle", "arm"} \X (Processes \cup {"none"})
    /\ update \in {"idle", "isstarted", "istime", "stop", "stopped"}

(* No process the endpoint mixes has left the service: processList_ holds  *)
(* bare pointers, which only the service's list keeps alive.               *)
NoDangling == \A p \in list : p \in pairs \/ Linking(p)

(* An endpoint that calls itself UNLINKED, and may therefore be released,  *)
(* has no process, unless its device has failed.                           *)
UnlinkedIsEmpty == status = "UNLINKED" /\ "fail" \notin may => list = {}

NoMishap == may \subseteq Requests

Active(p) == p \in pairs /\ word[p] \in {"STARTING", "RUNNING", "PAUSING", "STOPPING"}

(* An endpoint that is IDEL while nothing plays stops its device: no       *)
(* OnStart that is still under way undoes what the last OnPause has        *)
(* announced.                                                              *)
IdleDeviceStops ==
    NoMishap /\ isStarted /\ status = "IDEL" /\ ~(\E p \in Processes : Active(p))
        ~> ~isStarted \/ \E p \in Processes : Active(p)

(* Refuted, see README: it does so whenever nothing plays any more        *)
(* (audio_endpoint.cpp: "delay call sink stop when no process running").   *)
(* An OnPause stores RUNNING when the process it has seen has paused long  *)
(* ago, and the endpoint never becomes IDEL.                               *)
DeviceStopsWhenIdle ==
    NoMishap /\ isStarted /\ ~(\E p \in Processes : Active(p))
        ~> ~isStarted \/ \E p \in Processes : Active(p)

InUse == \E p \in Processes : p \in pairs \/ Linking(p)

(* The endpoint of a device that nobody uses any more is released          *)
(* (audio_service.cpp: "process release need this to trigger endpoint      *)
(* release").                                                              *)
EndpointReclaimed == NoMishap /\ exists /\ ~InUse ~> ~exists \/ InUse

Quiet == \A t \in Threads : pc[t] \in {"out", "gone"}

(* The device is stopped when no process is running (audio_endpoint.cpp:   *)
(* "delay call sink stop when no process running"): not under one that is  *)
(* RUNNING, with no call of anybody's in progress.                         *)
StopsOnlyWhenIdle ==
    [][Quiet /\ update = "istime" /\ update' = "stop" => \A p \in list : word[p] # "RUNNING"]_vars
=============================================================================
