------------------------ MODULE FastEndpoint_proofs -------------------------
(***************************************************************************)
(* Proofs of the safety of FastEndpoint, for any number of processes and   *)
(* any set of mishaps.                                                     *)
(*                                                                         *)
(* NoDangling is not inductive: UnlinkProcessStream takes a process off    *)
(* the list, but the pair is erased some steps later, and in between       *)
(* another link must not bring it back.  What forbids it is that           *)
(* processListMutex_ has one holder (OneHolder); LeftList and ListedLive   *)
(* say what the list looks like to that holder.                            *)
(***************************************************************************)
EXTENDS FastEndpoint, TLAPS

(* The places of a thread: inside a control call, inside what calls and    *)
(* links share, inside GetAudioProcess, with processListMutex_ in          *)
(* OnProcessRelease.                                                       *)
CallPlaces == {"enter", "onstart", "onstartidle", "device", "setrunning", "neverstop",
               "onpause", "ifidle", "answer", "client"}
DevicePlaces == {"startdevice", "setstarting", "sink", "failed", "started", "settle", "scan",
                 "someruns", "noneruns", "arm"}
LinkPlaces == {"wait", "running", "unlinked", "setidle", "idle", "push", "mutex", "refused"}
LeavePlaces == {"stop", "stopped", "needrelease", "announce"}

Places == {"out", "gone", "release"} \cup CallPlaces \cup DevicePlaces \cup LinkPlaces
              \cup LeavePlaces

PcOK == pc \in [Threads -> Places]

(* The control thread of a process is where its op says, *)
Fits(t, place, o) ==
    t[2] = "control" =>
        /\ o = "link" => place \in {"out", "gone"} \cup DevicePlaces \cup LinkPlaces
        /\ place \in CallPlaces => o \in DOMAIN From
        /\ place \in DevicePlaces => o \in {"link"} \cup DOMAIN From

OpOK == \A t \in Threads : Fits(t, pc[t], op[t[1]])

(* a process that was never linked is neither listed nor leaving, and one   *)
(* that leaves is not being linked.                                        *)
LinkedOK ==
    \A p \in Processes :
        /\ linked[p] = "no" => op[p] # "link" /\ p \notin pairs /\ p \notin leaving
        /\ p \in leaving => op[p] # "link"

(* Who holds processListMutex_, *)
HoldsAt(t, place, o) ==
    \/ t[2] = "control" /\ o = "link" /\ place \notin {"out", "gone"}
    \/ place \in LeavePlaces

Holds(t) == HoldsAt(t, pc[t], op[t[1]])

OneHolder == \A t, u \in Threads : Holds(t) /\ Holds(u) => t = u

(* what the list looks like to it, *)
LeftList ==
    \A t \in Threads :
        /\ pc[t] \in Unlinking => list = {}
        /\ pc[t] = "needrelease" => t[1] \notin list

(* and that only a live link gets a process onto it. *)
ListedLive == \A p \in list : linked[p] = "live"

Held == PcOK /\ OpOK /\ LinkedOK /\ OneHolder /\ LeftList /\ ListedLive /\ NoDangling

(* Nobody makes the endpoint UNLINKED after a link has seen it is not.      *)
PushOK == \A p \in Processes : AtLink(p, "push") => status # "UNLINKED" \/ "fail" \in may

IInv == TypeOK /\ Held /\ UnlinkedIsEmpty /\ PushOK

(* What Threads and the tables are made of, for the provers. *)
LEMMA ThreadsAre ==
    /\ \A t \in Threads : /\ t = <<t[1], t[2]>> /\ t[1] \in Processes
                          /\ t[2] \in {"control", "callback", "death"}
    /\ \A p \in Processes : /\ <<p, "control">> \in Threads /\ <<p, "callback">> \in Threads
                            /\ <<p, "death">> \in Threads
BY DEF Threads

LEMMA TablesAre ==
    /\ DOMAIN From = {"start", "resume", "pause", "stop"} /\ Requests = DOMAIN From
    /\ From.stop = {"STARTING", "RUNNING", "PAUSING", "PAUSED", "STOPPING", "STAND_BY"}
    /\ From["stop"] = From.stop
    /\ \A o \in DOMAIN From : Through[o] \in {"STARTING", "PAUSING", "STOPPING"}
    /\ \A o \in DOMAIN From : Reached[o] \in {"RUNNING", "PAUSED", "STOPPED"}
    /\ DOMAIN Found = {"someruns", "noneruns"}
    /\ \A r \in DOMAIN Found : Found[r] \in {"RUNNING", "IDEL"}
BY DEF From, Requests, Through, Reached, Found

(* A scan goes on or ends, and has looked at processes of the list. *)
LEMMA ScansAre ==
    ASSUME TypeOK, NEW next \in IsAnyProcessRunning
    PROVE  /\ next[1] \in {"scan", "someruns", "noneruns"}
           /\ next[2] \subseteq Processes
BY DEF TypeOK, IsAnyProcessRunning, Look

(* A process is being linked while its control thread holds the mutex. *)
LEMMA LinkingHolds ==
    ASSUME NEW p \in Processes, OpOK
    PROVE  Linking(p) => Holds(<<p, "control">>)
BY ThreadsAre DEF Linking, Holds, HoldsAt

(* Thread t goes to a place, with o as its process' operation. *)
Moved(t, place, o) ==
    /\ place \in Places /\ Fits(t, place, o)
    /\ pc' = [pc EXCEPT ![t] = place]
    /\ t[2] = "control" \/ o = op[t[1]]
    /\ op'[t[1]] = o /\ \A p \in Processes \ {t[1]} : op'[p] = op[p]

(* What that changes for the other threads: nothing. *)
LEMMA MovedThreads ==
    ASSUME NEW t \in Threads, NEW place, NEW o, PcOK, OpOK, Moved(t, place, o)
    PROVE  /\ PcOK' /\ OpOK'
           /\ pc'[t] = place /\ \A u \in Threads \ {t} : pc'[u] = pc[u]
           /\ \A u \in Threads \ {t} : Holds(u)' <=> Holds(u)
           /\ Holds(t)' <=> HoldsAt(t, place, o)
           /\ \A p \in Processes : <<p, "control">> # t => (Linking(p)' <=> Linking(p))
<1>1. PcOK' /\ pc'[t] = place /\ \A u \in Threads \ {t} : pc'[u] = pc[u]
  BY DEF Moved, PcOK
<1>2. \A u \in Threads \ {t} : u[2] = "control" => op'[u[1]] = op[u[1]]
  BY ThreadsAre DEF Moved
<1>3. op'[t[1]] = o  BY DEF Moved
<1>4. OpOK'
  <2>1. \A u \in Threads \ {t} : Fits(u, pc'[u], op'[u[1]])
    BY <1>1, <1>2 DEF OpOK, Fits
  <2>2. Fits(t, pc'[t], op'[t[1]])  BY <1>1, <1>3 DEF Moved
  <2>. QED  BY <2>1, <2>2 DEF OpOK, Fits
<1>5. \A u \in Threads \ {t} : Holds(u)' <=> Holds(u)
  BY <1>1, <1>2 DEF Holds, HoldsAt
<1>6. Holds(t)' <=> HoldsAt(t, place, o)
  BY <1>1, <1>3 DEF Holds, HoldsAt
<1>7. ASSUME NEW p \in Processes, <<p, "control">> # t
      PROVE  Linking(p)' <=> Linking(p)
  <2>1. <<p, "control">> \in Threads \ {t}  BY <1>7, ThreadsAre
  <2>2. pc'[<<p, "control">>] = pc[<<p, "control">>]  BY <2>1, <1>1
  <2>3. op'[p] = op[p]  BY <2>1, <1>2
  <2>. QED  BY <2>2, <2>3 DEF Linking
<1>. QED  BY <1>1, <1>4, <1>5, <1>6, <1>7

(* A move that takes the mutex from nobody and gives it to nobody, with    *)
(* the lists as they were.                                                 *)
LEMMA QuietMove ==
    ASSUME NEW t \in Threads, NEW place, NEW o, TypeOK, Held, Moved(t, place, o),
           linked' = linked, pairs' = pairs, list' = list, LinkedOK',
           HoldsAt(t, place, o) => Holds(t),
           t[2] = "control" /\ Linking(t[1]) => o = "link" /\ place \notin {"out", "gone"},
           place \in Unlinking => pc[t] \in Unlinking,
           place = "needrelease" => pc[t] \in Unlinking
    PROVE  Held'
<1>. USE DEF Held
<1>1. OneHolder'  BY MovedThreads DEF OneHolder
<1>2. LeftList'  BY MovedThreads DEF LeftList, Unlinking
<1>3. ListedLive'  BY DEF ListedLive
<1>4. NoDangling'
  <2>. SUFFICES ASSUME NEW p \in list, p \notin pairs PROVE Linking(p)'
    BY DEF NoDangling
  <2>1. Linking(p)  BY DEF NoDangling
  <2>2. CASE <<p, "control">> = t
    BY <2>1, <2>2, MovedThreads DEF Moved, Linking
  <2>3. CASE <<p, "control">> # t
    <3>1. p \in Processes  BY DEF TypeOK
    <3>. QED  BY <2>1, <2>3, <3>1, MovedThreads
  <2>. QED  BY <2>2, <2>3
<1>. QED  BY <1>1, <1>2, <1>3, <1>4, MovedThreads

(* The status becomes UNLINKED only if the device has failed, and no link  *)
(* takes one that is for another.                                          *)
LEMMA StatusMoves ==
    ASSUME NEW t \in Threads, NEW place, NEW o, IInv, Moved(t, place, o), list' \subseteq list,
           "fail" \in may => "fail" \in may',
           status' = status \/ status' # "UNLINKED" \/ "fail" \in may',
           place = "push" => status' # "UNLINKED"
    PROVE  UnlinkedIsEmpty' /\ PushOK'
<1>. USE DEF IInv, Held
<1>1. UnlinkedIsEmpty'  BY DEF UnlinkedIsEmpty
<1>2. ASSUME NEW p \in Processes, AtLink(p, "push")'
      PROVE  status' # "UNLINKED" \/ "fail" \in may'
  <2>1. CASE <<p, "control">> = t  BY <1>2, <2>1, MovedThreads DEF AtLink
  <2>2. CASE <<p, "control">> # t
    <3>1. <<p, "control">> \in Threads  BY ThreadsAre
    <3>2. pc[<<p, "control">>] = "push"  BY <1>2, <2>2, <3>1, MovedThreads DEF AtLink
    <3>3. op[p] = "link"
      BY <1>2, <2>2, ThreadsAre DEF AtLink, Moved
    <3>. QED  BY <3>2, <3>3 DEF PushOK, AtLink
  <2>. QED  BY <2>1, <2>2
<1>. QED  BY <1>1, <1>2 DEF PushOK

(* A thread in a handler takes no mutex and, in a link, keeps it.          *)
LEMMA HandlerMoves ==
    ASSUME NEW t \in Threads, IInv, NEW place, pc' = [pc EXCEPT ![t] = place],
           UNCHANGED <<may, op, leaving, linked, pairs, list>>,
           status' = status \/ status' # "UNLINKED" \/ "fail" \in may,
           \/ pc[t] \in CallPlaces /\ place \in CallPlaces \cup {"startdevice", "settle", "arm", "out"}
           \/ pc[t] \in DevicePlaces /\ place \in DevicePlaces
           \/ /\ pc[t] \in DevicePlaces /\ place \in CallPlaces
              /\ t[2] = "control" => op[t[1]] # "link"
           \/ /\ pc[t] \in DevicePlaces /\ place \in LinkPlaces \ {"push"}
              /\ t[2] = "control" => op[t[1]] = "link"
    PROVE  Held' /\ UnlinkedIsEmpty' /\ PushOK'
<1>. USE DEF IInv, Held, CallPlaces, DevicePlaces, LinkPlaces, LeavePlaces
<1>1. Fits(t, pc[t], op[t[1]])  BY DEF OpOK
<1>2. Fits(t, place, op[t[1]])  BY <1>1, TablesAre DEF Fits
<1>3. Moved(t, place, op[t[1]])  BY <1>2, ThreadsAre DEF Moved, Places
<1>4. LinkedOK'  BY DEF LinkedOK
<1>5. HoldsAt(t, place, op[t[1]]) => Holds(t)
  BY <1>1, TablesAre DEF Holds, HoldsAt, Fits
<1>6. ASSUME t[2] = "control", Linking(t[1])
      PROVE  op[t[1]] = "link" /\ place \notin {"out", "gone"}
  <2>1. op[t[1]] = "link"  BY <1>6 DEF Linking
  <2>. QED  BY <1>1, <1>6, <2>1, TablesAre DEF Fits
<1>7. Held'  BY <1>3, <1>4, <1>5, <1>6, QuietMove DEF Unlinking
<1>8. place # "push"  OBVIOUS
<1>9. UnlinkedIsEmpty' /\ PushOK'  BY <1>3, <1>8, StatusMoves
<1>. QED  BY <1>7, <1>9

(* So does one in GetAudioProcess.                                         *)
LEMMA LinkMoves ==
    ASSUME NEW p \in Processes, IInv, NEW place \in LinkPlaces \cup {"startdevice"},
           pc[<<p, "control">>] \in LinkPlaces, op[p] = "link",
           pc' = [pc EXCEPT ![<<p, "control">>] = place],
           status' = status \/ status' # "UNLINKED", place = "push" => status' # "UNLINKED",
           UNCHANGED <<may, op, leaving, linked, pairs, list>>
    PROVE  Held' /\ UnlinkedIsEmpty' /\ PushOK'
<1>. DEFINE t == <<p, "control">>
<1>. USE DEF IInv, Held, CallPlaces, DevicePlaces, LinkPlaces, LeavePlaces
<1>1. t \in Threads /\ t[1] = p /\ t[2] = "control"  BY ThreadsAre
<1>2. Moved(t, place, op[p])  BY <1>1 DEF Moved, Places, Fits
<1>3. LinkedOK'  BY DEF LinkedOK
<1>4. Holds(t)  BY <1>1 DEF Holds, HoldsAt
<1>5. Held'  BY <1>1, <1>2, <1>3, <1>4, QuietMove DEF Unlinking
<1>6. UnlinkedIsEmpty' /\ PushOK'  BY <1>1, <1>2, StatusMoves
<1>. QED  BY <1>5, <1>6

(* Every step of a handler keeps the invariant: it touches no list, and    *)
(* makes the endpoint UNLINKED only when a device fails.                   *)
LEMMA HandlerIInv == ASSUME NEW t \in Threads, IInv, Handler(t) PROVE IInv'
<1>. USE TablesAre, FastEndpointAssumption
     DEF CallPlaces, DevicePlaces, LinkPlaces, LeavePlaces, Only, Sets, process, service,
         endpoint, workers
(* A call of a control thread that is not a link is none. *)
<1>0. Calls(t) = "link" <=> t[2] # "callback" /\ op[t[1]] = "link"  BY DEF Calls
<1>1. CASE Enter(t)
  <2>1. /\ pc[t] = "enter" /\ UNCHANGED <<may, status, op, leaving, linked, pairs, list>>
        /\ \E place \in CallPlaces \cup {"out"} : Goto(t, place)
    BY <1>1 DEF Enter
  <2>3. Held' /\ UnlinkedIsEmpty' /\ PushOK'  BY <2>1, HandlerMoves DEF Goto
  <2>4. TypeOK'  BY <1>1 DEF Enter, IInv, TypeOK, Held, OpOK
  <2>. QED  BY <2>3, <2>4 DEF IInv
<1>2. CASE Answer(t)
  <2>1. UNCHANGED <<may, op, leaving, linked, pairs, list>>  BY <1>2 DEF Answer
  <2>2. \E place \in {"client"} : Goto(t, place)
    BY <1>2 DEF Answer
  <2>3. Held' /\ UnlinkedIsEmpty' /\ PushOK'
    BY <1>2, <2>1, <2>2, HandlerMoves DEF Answer, Goto
  <2>4. TypeOK'  BY <1>2 DEF Answer, IInv, TypeOK, Held, OpOK
  <2>. QED  BY <2>3, <2>4 DEF IInv
<1>3. CASE OnStart(t)
  <2>1. UNCHANGED <<may, op, leaving, linked, pairs, list>>  BY <1>3 DEF OnStart
  <2>2. \E place \in CallPlaces : Goto(t, place)
    BY <1>3 DEF OnStart
  <2>3. Held' /\ UnlinkedIsEmpty' /\ PushOK'
    BY <1>3, <2>1, <2>2, HandlerMoves DEF OnStart, Goto
  <2>4. TypeOK'  BY <1>3 DEF OnStart, IInv, TypeOK, Held, OpOK
  <2>. QED  BY <2>3, <2>4 DEF IInv
<1>4. CASE OnStartIdle(t)
  <2>1. UNCHANGED <<may, op, leaving, linked, pairs, list>>  BY <1>4 DEF OnStartIdle
  <2>2. \E place \in CallPlaces : Goto(t, place)
    BY <1>4 DEF OnStartIdle
  <2>3. Held' /\ UnlinkedIsEmpty' /\ PushOK'
    BY <1>4, <2>1, <2>2, HandlerMoves DEF OnStartIdle, Goto
  <2>4. TypeOK'  BY <1>4 DEF OnStartIdle, IInv, TypeOK, Held, OpOK
  <2>. QED  BY <2>3, <2>4 DEF IInv
<1>5. CASE OnStartDevice(t)
  <2>1. UNCHANGED <<may, op, leaving, linked, pairs, list>>  BY <1>5 DEF OnStartDevice
  <2>2. \E place \in CallPlaces \cup {"startdevice"} : Goto(t, place)
    BY <1>5 DEF OnStartDevice
  <2>3. Held' /\ UnlinkedIsEmpty' /\ PushOK'
    BY <1>5, <2>1, <2>2, HandlerMoves DEF OnStartDevice, Goto
  <2>4. TypeOK'  BY <1>5 DEF OnStartDevice, IInv, TypeOK, Held, OpOK
  <2>. QED  BY <2>3, <2>4 DEF IInv
<1>6. CASE SetRunning(t)
  <2>1. UNCHANGED <<may, op, leaving, linked, pairs, list>>  BY <1>6 DEF SetRunning
  <2>2. \E place \in {"neverstop"} : Goto(t, place)
    BY <1>6 DEF SetRunning
  <2>3. Held' /\ UnlinkedIsEmpty' /\ PushOK'
    BY <1>6, <2>1, <2>2, HandlerMoves DEF SetRunning, Goto
  <2>4. TypeOK'  BY <1>6 DEF SetRunning, IInv, TypeOK, Held, OpOK
  <2>. QED  BY <2>3, <2>4 DEF IInv
<1>7. CASE CancelDelay(t)
  <2>1. UNCHANGED <<may, op, leaving, linked, pairs, list>>  BY <1>7 DEF CancelDelay
  <2>2. \E place \in {"answer"} : Goto(t, place)
    BY <1>7 DEF CancelDelay
  <2>3. Held' /\ UnlinkedIsEmpty' /\ PushOK'
    BY <1>7, <2>1, <2>2, HandlerMoves DEF CancelDelay, Goto
  <2>4. TypeOK'  BY <1>7 DEF CancelDelay, IInv, TypeOK, Held, OpOK
  <2>. QED  BY <2>3, <2>4 DEF IInv
<1>8. CASE StartDevice(t)
  <2>1. UNCHANGED <<may, op, leaving, linked, pairs, list>>  BY <1>8 DEF StartDevice
  <2>2. Goto(t, "setstarting") \/ Goto(t, IF Calls(t) = "link" THEN "refused" ELSE "answer")
    BY <1>8 DEF StartDevice
  <2>3. Held' /\ UnlinkedIsEmpty' /\ PushOK'
    BY <1>0, <1>8, <2>1, <2>2, HandlerMoves DEF StartDevice, Goto
  <2>4. TypeOK'  BY <1>8 DEF StartDevice, IInv, TypeOK, Held, OpOK
  <2>. QED  BY <2>3, <2>4 DEF IInv
<1>9. CASE SetStarting(t)
  <2>1. UNCHANGED <<may, op, leaving, linked, pairs, list>>  BY <1>9 DEF SetStarting
  <2>2. \E place \in {"sink"} : Goto(t, place)
    BY <1>9 DEF SetStarting
  <2>3. Held' /\ UnlinkedIsEmpty' /\ PushOK'
    BY <1>9, <2>1, <2>2, HandlerMoves DEF SetStarting, Goto
  <2>4. TypeOK'  BY <1>9 DEF SetStarting, IInv, TypeOK, Held, OpOK
  <2>. QED  BY <2>3, <2>4 DEF IInv
<1>10. CASE SinkStarts(t)
  <2>1. UNCHANGED <<may, op, leaving, linked, pairs, list>>  BY <1>10 DEF SinkStarts
  <2>2. \E place \in {"started"} : Goto(t, place)
    BY <1>10 DEF SinkStarts
  <2>3. Held' /\ UnlinkedIsEmpty' /\ PushOK'
    BY <1>10, <2>1, <2>2, HandlerMoves DEF SinkStarts, Goto
  <2>4. TypeOK'  BY <1>10 DEF SinkStarts, IInv, TypeOK, Held, OpOK
  <2>. QED  BY <2>3, <2>4 DEF IInv
<1>11. CASE SinkFails(t)
  <2>1. UNCHANGED <<may, op, leaving, linked, pairs, list>>  BY <1>11 DEF SinkFails
  <2>2. \E place \in {"failed"} : Goto(t, place)
    BY <1>11 DEF SinkFails
  <2>3. Held' /\ UnlinkedIsEmpty' /\ PushOK'
    BY <1>11, <2>1, <2>2, HandlerMoves DEF SinkFails, Goto
  <2>4. TypeOK'  BY <1>11 DEF SinkFails, IInv, TypeOK, Held, OpOK
  <2>. QED  BY <2>3, <2>4 DEF IInv
<1>12. CASE HandleStartDeviceFailed(t)
  <2>1. UNCHANGED <<may, op, leaving, linked, pairs, list>>  BY <1>12 DEF HandleStartDeviceFailed
  <2>2. \E place \in {"refused", "answer"} :
            Goto(t, place) /\ (place = "refused" <=> Calls(t) = "link")
    BY <1>12 DEF HandleStartDeviceFailed
  <2>3. Held' /\ UnlinkedIsEmpty' /\ PushOK'
    BY <1>0, <1>12, <2>1, <2>2, HandlerMoves DEF HandleStartDeviceFailed, Goto
  <2>4. TypeOK'  BY <1>12 DEF HandleStartDeviceFailed, IInv, TypeOK, Held, OpOK
  <2>. QED  BY <2>3, <2>4 DEF IInv
<1>13. CASE DeviceStarted(t)
  <2>1. UNCHANGED <<may, op, leaving, linked, pairs, list>>  BY <1>13 DEF DeviceStarted
  <2>2. \E place \in {"settle"} : Goto(t, place)
    BY <1>13 DEF DeviceStarted
  <2>3. Held' /\ UnlinkedIsEmpty' /\ PushOK'
    BY <1>13, <2>1, <2>2, HandlerMoves DEF DeviceStarted, Goto
  <2>4. TypeOK'  BY <1>13 DEF DeviceStarted, IInv, TypeOK, Held, OpOK
  <2>. QED  BY <2>3, <2>4 DEF IInv
<1>14. CASE OnPause(t)
  <2>1. UNCHANGED <<may, op, leaving, linked, pairs, list>>  BY <1>14 DEF OnPause
  <2>2. Goto(t, "settle") \/ Goto(t, "ifidle")
    BY <1>14 DEF OnPause
  <2>3. Held' /\ UnlinkedIsEmpty' /\ PushOK'
    BY <1>14, <2>1, <2>2, HandlerMoves DEF OnPause, Goto
  <2>4. TypeOK'  BY <1>14 DEF OnPause, IInv, TypeOK, Held, OpOK
  <2>. QED  BY <2>3, <2>4 DEF IInv
<1>15. CASE Looks(t)
  <2>1. PICK next \in IF Live(t) THEN IsAnyProcessRunning ELSE {<<"noneruns", looked>>} :
            Goto(t, next[1]) /\ looked' = next[2]
    BY <1>15 DEF Looks
  <2>2. next[1] \in {"scan", "someruns", "noneruns"} /\ next[2] \subseteq Processes
    BY ScansAre DEF IInv, TypeOK
  <2>3. Held' /\ UnlinkedIsEmpty' /\ PushOK'  BY <1>15, <2>1, <2>2, HandlerMoves DEF Looks, Goto
  <2>4. TypeOK'  BY <1>15, <2>1, <2>2 DEF Looks, IInv, TypeOK
  <2>. QED  BY <2>3, <2>4 DEF IInv
<1>16. CASE Settles(t)
  <2>1. status' = status \/ status' # "UNLINKED"  BY <1>16 DEF Settles
  <2>2. \E place \in {"arm", "setrunning", "ifidle"} :
            /\ Goto(t, place)
            /\ place # "arm" => (t[2] = "control" => op[t[1]] # "link")
    BY <1>0, <1>16 DEF Settles
  <2>3. Held' /\ UnlinkedIsEmpty' /\ PushOK'  BY <1>16, <2>1, <2>2, HandlerMoves DEF Settles, Goto
  <2>4. TypeOK'  BY <1>16 DEF Settles, IInv, TypeOK
  <2>. QED  BY <2>3, <2>4 DEF IInv
<1>17. CASE OnPauseIdle(t)
  <2>1. UNCHANGED <<may, op, leaving, linked, pairs, list>>  BY <1>17 DEF OnPauseIdle
  <2>2. Goto(t, "arm") \/ Goto(t, "answer")
    BY <1>17 DEF OnPauseIdle
  <2>3. Held' /\ UnlinkedIsEmpty' /\ PushOK'
    BY <1>17, <2>1, <2>2, HandlerMoves DEF OnPauseIdle, Goto
  <2>4. TypeOK'  BY <1>17 DEF OnPauseIdle, IInv, TypeOK, Held, OpOK
  <2>. QED  BY <2>3, <2>4 DEF IInv
<1>18. CASE Arms(t)
  <2>1. UNCHANGED <<may, op, leaving, linked, pairs, list>>  BY <1>18 DEF Arms
  <2>2. \E place \in {"idle", "answer"} :
            Goto(t, place) /\ (place = "idle" <=> Calls(t) = "link")
    BY <1>18 DEF Arms
  <2>3. Held' /\ UnlinkedIsEmpty' /\ PushOK'
    BY <1>0, <1>18, <2>1, <2>2, HandlerMoves DEF Arms, Goto
  <2>4. TypeOK'  BY <1>18 DEF Arms, IInv, TypeOK, Held, OpOK
  <2>. QED  BY <2>3, <2>4 DEF IInv
<1>. QED  BY <1>1, <1>2, <1>3, <1>4, <1>5, <1>6, <1>7, <1>8, <1>9, <1>10, <1>11, <1>12, <1>13, <1>14, <1>15, <1>16, <1>17, <1>18 DEF Handler

(* So does every step of a link: only it can put a process on the list,    *)
(* nobody is taking one off, and what it puts there has a live endpoint.   *)
LEMMA LinkIInv == ASSUME NEW p \in Processes, IInv, GetAudioProcess(p) \/ Link(p) PROVE IInv'
<1>. DEFINE t == <<p, "control">>
<1>. USE ThreadsAre
     DEF CallPlaces, DevicePlaces, LinkPlaces, LeavePlaces, Only, process, service, endpoint,
         workers, AtLink, IInv, Held
<1>0. t \in Threads /\ t[1] = p /\ t[2] = "control"  OBVIOUS
<1>. HIDE ThreadsAre
<1>1. CASE GetAudioProcess(p)
  <2>. USE <1>1 DEF GetAudioProcess
  <2>1. TypeOK'  BY DEF TypeOK
  <2>2. Moved(t, "wait", "link")  BY <1>0 DEF Moved, Places, Fits, Goto, TypeOK
  <2>3. LinkedOK'  BY DEF LinkedOK, TypeOK
  <2>4. \A u \in Threads : ~Holds(u)
    <3>1. \A u \in Threads : u[2] = "control" => ~Linking(u[1]) /\ u = <<u[1], "control">>
      BY ThreadsAre DEF ProcessListMutexFree
    <3>. QED  BY <3>1 DEF Holds, HoldsAt, ProcessListMutexFree, Unlinking, Linking
  <2>5. OneHolder'  BY <1>0, <2>2, <2>4, MovedThreads DEF OneHolder
  <2>6. LeftList'
    BY <1>0, <2>2, <2>4, MovedThreads DEF LeftList, Unlinking, Holds, HoldsAt
  <2>7. ListedLive'  BY DEF ListedLive, TypeOK
  <2>8. NoDangling'
    <3>1. \A q \in Processes \ {p} : Linking(q) => Linking(q)'
      BY <1>0, <2>2, MovedThreads
    <3>2. Linking(p)'
      <4>1. pc'[t] = "wait"  BY <1>0, <2>2, MovedThreads
      <4>2. op'[p] = "link"  BY DEF TypeOK
      <4>. QED  BY <4>1, <4>2 DEF Linking
    <3>3. list' \subseteq list  OBVIOUS
    <3>4. list \subseteq Processes  BY DEF TypeOK
    <3>. QED  BY <3>1, <3>2, <3>3, <3>4 DEF NoDangling
  <2>9. UnlinkedIsEmpty'  BY DEF UnlinkedIsEmpty
  <2>10. PushOK'
    <3>. SUFFICES ASSUME NEW q \in Processes, (pc[<<q, "control">>] = "push" /\ op[q] = "link")'
                  PROVE  FALSE
      BY DEF PushOK
    <3>1. CASE q = p  BY <1>0, <2>2, <3>1, MovedThreads
    <3>2. CASE q # p
      <4>1. <<q, "control">> \in Threads \ {t}  BY <3>2, ThreadsAre
      <4>2. pc[<<q, "control">>] = "push" /\ op[q] = "link"
        BY <1>0, <2>2, <3>2, <4>1, MovedThreads DEF TypeOK
      <4>. QED  BY <2>4, <4>1, <4>2 DEF Holds, HoldsAt
    <3>. QED  BY <3>1, <3>2
  <2>. QED  BY <1>0, <2>1, <2>2, <2>3, <2>5, <2>6, <2>7, <2>8, <2>9, <2>10, MovedThreads
<1>2. CASE LinkWaits(p)
  <2>1. \E place \in LinkPlaces \cup {"startdevice"} :
            Goto(t, place) /\ (place = "push" => status' # "UNLINKED")
    BY <1>2 DEF LinkWaits
  <2>2. Held' /\ UnlinkedIsEmpty' /\ PushOK'  BY <1>2, <2>1, LinkMoves DEF LinkWaits, Sets, Goto
  <2>3. TypeOK'  BY <1>2 DEF LinkWaits, Sets, TypeOK
  <2>. QED  BY <2>2, <2>3
<1>3. CASE LinkRunning(p)
  <2>1. \E place \in LinkPlaces \cup {"startdevice"} :
            Goto(t, place) /\ (place = "push" => status' # "UNLINKED")
    BY <1>3 DEF LinkRunning
  <2>2. Held' /\ UnlinkedIsEmpty' /\ PushOK'  BY <1>3, <2>1, LinkMoves DEF LinkRunning, Sets, Goto
  <2>3. TypeOK'  BY <1>3 DEF LinkRunning, Sets, TypeOK
  <2>. QED  BY <2>2, <2>3
<1>4. CASE LinkUnlinked(p)
  <2>1. \E place \in LinkPlaces \cup {"startdevice"} :
            Goto(t, place) /\ (place = "push" => status' # "UNLINKED")
    BY <1>4 DEF LinkUnlinked
  <2>2. Held' /\ UnlinkedIsEmpty' /\ PushOK'  BY <1>4, <2>1, LinkMoves DEF LinkUnlinked, Sets, Goto
  <2>3. TypeOK'  BY <1>4 DEF LinkUnlinked, Sets, TypeOK
  <2>. QED  BY <2>2, <2>3
<1>5. CASE SetIdle(p)
  <2>1. \E place \in LinkPlaces \cup {"startdevice"} :
            Goto(t, place) /\ (place = "push" => status' # "UNLINKED")
    BY <1>5 DEF SetIdle
  <2>2. Held' /\ UnlinkedIsEmpty' /\ PushOK'  BY <1>5, <2>1, LinkMoves DEF SetIdle, Sets, Goto
  <2>3. TypeOK'  BY <1>5 DEF SetIdle, Sets, TypeOK
  <2>. QED  BY <2>2, <2>3
<1>6. CASE LinkProcessStreamExt(p)
  <2>. USE <1>6 DEF LinkProcessStreamExt
  <2>1. TypeOK'  BY DEF TypeOK
  <2>2. PICK place \in LinkPlaces : Goto(t, place)  OBVIOUS
  <2>3. Moved(t, place, "link")  BY <1>0, <2>2 DEF Moved, Places, Fits, Goto, TypeOK
  <2>4. LinkedOK'  BY DEF LinkedOK
  <2>5. Holds(t) /\ HoldsAt(t, place, "link")  BY <1>0 DEF Holds, HoldsAt
  <2>6. OneHolder'  BY <1>0, <2>3, <2>5, MovedThreads DEF OneHolder
  <2>7. LeftList'
    <3>1. \A u \in Threads \ {t} : ~Holds(u)  BY <1>0, <2>5 DEF OneHolder
    <3>2. \A u \in Threads \ {t} : pc'[u] \notin LeavePlaces
      BY <1>0, <2>3, <3>1, MovedThreads DEF Holds, HoldsAt
    <3>3. pc'[t] \in LinkPlaces  BY <1>0, <2>3, MovedThreads
    <3>. QED  BY <3>2, <3>3 DEF LeftList, Unlinking
  <2>8. ListedLive'  BY <1>0 DEF ListedLive, Live
  <2>9. NoDangling'
    <3>1. \A q \in Processes \ {p} : Linking(q) => Linking(q)'
      BY <1>0, <2>3, MovedThreads
    <3>2. Linking(p)'  BY <1>0, <2>3, MovedThreads DEF Linking, Moved
    <3>3. list' \subseteq list \cup {p}  OBVIOUS
    <3>4. list \subseteq Processes  BY DEF TypeOK
    <3>. QED  BY <3>1, <3>2, <3>3, <3>4 DEF NoDangling
  <2>10. UnlinkedIsEmpty'  BY DEF UnlinkedIsEmpty, PushOK
  <2>11. PushOK'
    <3>. SUFFICES ASSUME NEW q \in Processes, (pc[<<q, "control">>] = "push" /\ op[q] = "link")'
                  PROVE  status # "UNLINKED" \/ "fail" \in may
      BY DEF PushOK
    <3>1. CASE q = p  BY <3>1 DEF PushOK
    <3>2. CASE q # p
      <4>1. <<q, "control">> \in Threads \ {t}  BY <3>2, ThreadsAre
      <4>. QED  BY <1>0, <2>3, <4>1, MovedThreads DEF PushOK
    <3>. QED  BY <3>1, <3>2
  <2>. QED  BY <1>0, <2>1, <2>3, <2>4, <2>6, <2>7, <2>8, <2>9, <2>10, <2>11, MovedThreads
<1>7. CASE LinkIdle(p)
  <2>1. \E place \in LinkPlaces \cup {"startdevice"} :
            Goto(t, place) /\ (place = "push" => status' # "UNLINKED")
    BY <1>7 DEF LinkIdle
  <2>2. Held' /\ UnlinkedIsEmpty' /\ PushOK'  BY <1>7, <2>1, LinkMoves DEF LinkIdle, Sets, Goto
  <2>3. TypeOK'  BY <1>7 DEF LinkIdle, Sets, TypeOK
  <2>. QED  BY <2>2, <2>3
<1>8. CASE LinkProcessToEndpoint(p)
  <2>. USE <1>8 DEF LinkProcessToEndpoint
  <2>1. TypeOK'  BY DEF TypeOK
  <2>2. Moved(t, "out", "link")  BY <1>0 DEF Moved, Places, Fits, Goto, TypeOK
  <2>3. LinkedOK'  BY DEF LinkedOK
  <2>4. OneHolder' /\ LeftList'
    BY <1>0, <2>2, MovedThreads DEF OneHolder, LeftList, Unlinking, HoldsAt
  <2>5. ListedLive'  BY DEF ListedLive
  <2>6. NoDangling'
    <3>1. \A q \in Processes \ {p} : Linking(q) => Linking(q)'
      BY <1>0, <2>2, MovedThreads
    <3>2. list \subseteq Processes  BY DEF TypeOK
    <3>. QED  BY <3>1, <3>2 DEF NoDangling
  <2>7. UnlinkedIsEmpty' /\ PushOK'  BY <1>0, <2>2, StatusMoves
  <2>. QED  BY <1>0, <2>1, <2>2, <2>3, <2>4, <2>5, <2>6, <2>7, MovedThreads
<1>9. CASE LinkRefused(p)
  <2>. USE <1>9 DEF LinkRefused
  <2>1. TypeOK'  BY DEF TypeOK
  <2>2. Moved(t, "gone", "link")  BY <1>0 DEF Moved, Places, Fits, Goto, TypeOK
  <2>3. LinkedOK'  BY DEF LinkedOK
  <2>4. OneHolder' /\ LeftList'
    BY <1>0, <2>2, MovedThreads DEF OneHolder, LeftList, Unlinking, HoldsAt
  <2>5. ListedLive'  BY DEF ListedLive
  <2>6. NoDangling'
    <3>1. \A q \in Processes \ {p} : Linking(q) => Linking(q)'
      BY <1>0, <2>2, MovedThreads
    <3>2. list \subseteq Processes  BY DEF TypeOK
    <3>. QED  BY <3>1, <3>2 DEF NoDangling
  <2>7. UnlinkedIsEmpty' /\ PushOK'  BY <1>0, <2>2, StatusMoves
  <2>. QED  BY <1>0, <2>1, <2>2, <2>3, <2>4, <2>5, <2>6, <2>7, MovedThreads
<1>. QED  BY <1>1, <1>2, <1>3, <1>4, <1>5, <1>6, <1>7, <1>8, <1>9 DEF Link

(* So does every step of OnProcessRelease: it takes the mutex when nobody  *)
(* has it, the process leaves the list before its pair is erased, and the  *)
(* endpoint becomes UNLINKED when the list is empty.                       *)
LEMMA LeaveIInv == ASSUME NEW t \in Threads, IInv, OnProcessRelease(t) PROVE IInv'
<1>. USE ThreadsAre, TablesAre
     DEF CallPlaces, DevicePlaces, LinkPlaces, LeavePlaces, Only, process, service, endpoint,
         workers, IInv, Held, Ends
<1>. HIDE ThreadsAre, TablesAre
(* With the mutex free nobody holds it. *)
<1>0. ProcessListMutexFree => \A u \in Threads : ~Holds(u)
  <2>. SUFFICES ASSUME ProcessListMutexFree, NEW u \in Threads PROVE ~Holds(u)  OBVIOUS
  <2>1. u[2] = "control" => ~Linking(u[1]) /\ u = <<u[1], "control">>
    BY ThreadsAre DEF ProcessListMutexFree
  <2>. QED  BY <2>1 DEF Holds, HoldsAt, ProcessListMutexFree, Unlinking, Linking
(* A thread in a release, or leaving, has no link in progress. *)
<1>1. pc[t] \in LeavePlaces \cup {"release"} => (t[2] = "control" => op[t[1]] # "link")
  BY TablesAre DEF OpOK, Fits
<1>2. \A place \in LeavePlaces \cup {"gone"} :
          pc[t] \in LeavePlaces \cup {"release"} => Fits(t, place, op[t[1]])
  BY <1>1, TablesAre DEF Fits
(* And so nothing but the list and the pairs decides who may be listed. *)
<1>3. ASSUME NEW place, Moved(t, place, op[t[1]]), pc[t] \in LeavePlaces \cup {"release"}
      PROVE  \A q \in Processes : Linking(q) => Linking(q)'
  <2>. SUFFICES ASSUME NEW q \in Processes, Linking(q) PROVE Linking(q)'  OBVIOUS
  <2>1. <<q, "control">> # t  BY <1>1, <1>3 DEF Linking
  <2>. QED  BY <2>1, <1>3, MovedThreads
<1>4. CASE UnlinkProcessStream(t)
  <2>. USE <1>4 DEF UnlinkProcessStream
  <2>1. TypeOK'  BY DEF TypeOK
  <2>2. PICK place \in {"stop", "needrelease"} :
            Goto(t, place) /\ (place = "stop" => list' = {})
    OBVIOUS
  <2>3. Moved(t, place, op[t[1]])  BY <2>2, <1>2 DEF Moved, Places, Goto
  <2>4. LinkedOK'  BY DEF LinkedOK
  <2>5. OneHolder'  BY <1>0, <2>3, MovedThreads DEF OneHolder
  <2>6. LeftList'
    <3>1. \A u \in Threads \ {t} : pc'[u] \notin LeavePlaces
      BY <1>0, <2>3, MovedThreads DEF Holds, HoldsAt
    <3>2. pc'[t] = place /\ t[1] \notin list'  BY <2>3, MovedThreads
    <3>. QED  BY <2>2, <3>1, <3>2 DEF LeftList, Unlinking
  <2>7. ListedLive'  BY DEF ListedLive
  <2>8. NoDangling'  BY <1>3, <2>3 DEF NoDangling, TypeOK
  <2>9. UnlinkedIsEmpty' /\ PushOK'  BY <2>2, <2>3, StatusMoves
  <2>. QED  BY <2>1, <2>3, <2>4, <2>5, <2>6, <2>7, <2>8, <2>9, MovedThreads
<1>5. CASE StopDevice(t)
  <2>. USE <1>5 DEF StopDevice
  <2>1. TypeOK'  BY DEF TypeOK
  <2>2. Moved(t, "stopped", op[t[1]])  BY <1>2 DEF Moved, Places, Goto
  <2>3. Held'
    <3>1. LinkedOK'  BY DEF LinkedOK
    <3>2. Holds(t)  BY DEF Holds, HoldsAt
    <3>3. ~(t[2] = "control" /\ Linking(t[1]))  BY <1>1 DEF Linking
    <3>. QED  BY <2>2, <3>1, <3>2, <3>3, QuietMove DEF Unlinking
  <2>4. UnlinkedIsEmpty' /\ PushOK'  BY <2>2, StatusMoves
  <2>. QED  BY <2>1, <2>3, <2>4
<1>6. CASE DeviceStopped(t)
  <2>. USE <1>6 DEF DeviceStopped
  <2>1. TypeOK'  BY DEF TypeOK
  <2>2. Moved(t, "needrelease", op[t[1]])  BY <1>2 DEF Moved, Places, Goto
  <2>3. Held'
    <3>1. LinkedOK'  BY DEF LinkedOK
    <3>2. Holds(t)  BY DEF Holds, HoldsAt
    <3>3. ~(t[2] = "control" /\ Linking(t[1]))  BY <1>1 DEF Linking
    <3>. QED  BY <2>2, <3>1, <3>2, <3>3, QuietMove DEF Unlinking
  <2>4. UnlinkedIsEmpty'  BY DEF UnlinkedIsEmpty, LeftList, Unlinking
  <2>5. PushOK'
    <3>. SUFFICES ASSUME NEW q \in Processes, (pc[<<q, "control">>] = "push" /\ op[q] = "link")'
                  PROVE  FALSE
      BY DEF PushOK, AtLink
    <3>1. <<q, "control">> \in Threads  BY ThreadsAre
    <3>2. <<q, "control">> # t  BY <2>2, MovedThreads
    <3>3. Holds(<<q, "control">>)  BY <2>2, <3>1, <3>2, ThreadsAre, MovedThreads DEF Holds, HoldsAt
    <3>4. Holds(t)  BY DEF Holds, HoldsAt
    <3>. QED  BY <3>1, <3>2, <3>3, <3>4 DEF OneHolder
  <2>. QED  BY <2>1, <2>3, <2>4, <2>5
<1>7. CASE NeedRelease(t)
  <2>. USE <1>7 DEF NeedRelease, Gone
  <2>1. TypeOK'
    <3>1. pairs' \subseteq Processes /\ timers' \in Nat /\ releasingSet' \in BOOLEAN
      BY DEF TypeOK
    <3>2. word' = word \/ word' = [word EXCEPT ![t[1]] = "RELEASED"]  OBVIOUS
    <3>. QED  BY <3>1, <3>2 DEF TypeOK
  <2>2. PICK place \in {"announce", "gone"} : Goto(t, place)
    OBVIOUS
  <2>3. Moved(t, place, op[t[1]])  BY <1>2, <2>2 DEF Moved, Places, Goto
  <2>4. UNCHANGED <<list, op, linked, leaving, status, may>>  OBVIOUS
  <2>5. LinkedOK'  BY <2>4 DEF LinkedOK
  <2>6. OneHolder'  BY <1>0, <2>3, MovedThreads DEF OneHolder, Holds, HoldsAt
  <2>7. LeftList'  BY <2>3, <2>4, MovedThreads DEF LeftList, Unlinking
  <2>8. ListedLive'  BY <2>4 DEF ListedLive
  <2>9. NoDangling'
    <3>1. (pairs' = pairs \ {t[1]} /\ t[1] \notin list) \/ pairs' = pairs
      BY DEF LeftList, ListedLive, Live
    <3>. QED  BY <1>3, <2>3, <2>4, <3>1 DEF NoDangling, TypeOK
  <2>10. UnlinkedIsEmpty' /\ PushOK'  BY <2>2, <2>3, <2>4, StatusMoves
  <2>. QED  BY <2>1, <2>3, <2>5, <2>6, <2>7, <2>8, <2>9, <2>10, MovedThreads
<1>8. CASE AnnounceRelease(t)
  <2>. USE <1>8 DEF AnnounceRelease, Gone
  <2>1. TypeOK'
    <3>1. pairs' \subseteq Processes /\ timers' \in Nat /\ releasingSet' \in BOOLEAN
      BY DEF TypeOK
    <3>2. word' = word \/ word' = [word EXCEPT ![t[1]] = "RELEASED"]  OBVIOUS
    <3>. QED  BY <3>1, <3>2 DEF TypeOK
  <2>2. PICK place \in {"gone"} : Goto(t, place)
    OBVIOUS
  <2>3. Moved(t, place, op[t[1]])  BY <1>2, <2>2 DEF Moved, Places, Goto
  <2>4. UNCHANGED <<list, op, linked, leaving, status, may>>  OBVIOUS
  <2>5. LinkedOK'  BY <2>4 DEF LinkedOK
  <2>6. OneHolder'  BY <2>3, MovedThreads DEF OneHolder, Holds, HoldsAt
  <2>7. LeftList'  BY <2>3, <2>4, MovedThreads DEF LeftList, Unlinking
  <2>8. ListedLive'  BY <2>4 DEF ListedLive
  <2>9. NoDangling'
    <3>1. (pairs' = pairs \ {t[1]} /\ t[1] \notin list) \/ pairs' = pairs
      BY DEF LeftList, ListedLive, Live
    <3>. QED  BY <1>3, <2>3, <2>4, <3>1 DEF NoDangling, TypeOK
  <2>10. UnlinkedIsEmpty' /\ PushOK'  BY <2>2, <2>3, <2>4, StatusMoves
  <2>. QED  BY <2>1, <2>3, <2>5, <2>6, <2>7, <2>8, <2>9, <2>10, MovedThreads
<1>9. CASE AlreadyReleased(t)
  <2>. USE <1>9 DEF AlreadyReleased, Gone
  <2>1. TypeOK'
    <3>1. pairs' \subseteq Processes /\ timers' \in Nat /\ releasingSet' \in BOOLEAN
      BY DEF TypeOK
    <3>2. word' = word \/ word' = [word EXCEPT ![t[1]] = "RELEASED"]  OBVIOUS
    <3>. QED  BY <3>1, <3>2 DEF TypeOK
  <2>2. PICK place \in {"gone"} : Goto(t, place)
    OBVIOUS
  <2>3. Moved(t, place, op[t[1]])  BY <1>2, <2>2 DEF Moved, Places, Goto
  <2>4. UNCHANGED <<list, op, linked, leaving, status, may>>  OBVIOUS
  <2>5. LinkedOK'  BY <2>4 DEF LinkedOK
  <2>6. OneHolder'  BY <2>3, MovedThreads DEF OneHolder, Holds, HoldsAt
  <2>7. LeftList'  BY <2>3, <2>4, MovedThreads DEF LeftList, Unlinking
  <2>8. ListedLive'  BY <2>4 DEF ListedLive
  <2>9. NoDangling'
    <3>1. (pairs' = pairs \ {t[1]} /\ t[1] \notin list) \/ pairs' = pairs
      BY DEF LeftList, ListedLive, Live
    <3>. QED  BY <1>3, <2>3, <2>4, <3>1 DEF NoDangling, TypeOK
  <2>10. UnlinkedIsEmpty' /\ PushOK'  BY <2>2, <2>3, <2>4, StatusMoves
  <2>. QED  BY <2>1, <2>3, <2>5, <2>6, <2>7, <2>8, <2>9, <2>10, MovedThreads
<1>. QED  BY <1>4, <1>5, <1>6, <1>7, <1>8, <1>9 DEF OnProcessRelease

(* So does every step of a client: a process that takes up a call was out  *)
(* of the last one, and one that leaves was linked.                        *)
LEMMA ClientIInv ==
    ASSUME NEW p \in Processes, IInv,
           \/ Release(p) \/ Return(p) \/ ReleaseStopped(p) \/ CallExitStandBy(p)
           \/ ExitedStandBy(p) \/ Die(p) \/ \E o \in DOMAIN From : Call(p, o)
    PROVE  IInv'
<1>. DEFINE t == <<p, "control">>
            b == <<p, "callback">>
            d == <<p, "death">>
<1>. USE DEF CallPlaces, DevicePlaces, LinkPlaces, LeavePlaces, process, service, endpoint,
         workers, IInv, Held
<1>0. /\ t \in Threads /\ t[1] = p /\ t[2] = "control"
      /\ b \in Threads /\ b[1] = p /\ b[2] = "callback"
      /\ d \in Threads /\ d[1] = p /\ d[2] = "death"
  BY ThreadsAre
<1>1. CASE \E o \in DOMAIN From : Call(p, o)
  <2>. PICK o \in DOMAIN From : Call(p, o)  BY <1>1
  <2>. USE <1>0, <1>1 DEF Call
  <2>1. TypeOK'  BY TablesAre DEF TypeOK
  <2>2. Moved(t, "enter", o)  BY TablesAre DEF Moved, Places, PcOK, Fits, Goto, TypeOK, OpOK, LinkedOK
  <2>3. LinkedOK'  BY TablesAre DEF LinkedOK, TypeOK
  <2>4. ~Linking(p) \/ t # t
    BY TablesAre DEF Linking, OpOK, Fits, LinkedOK
  <2>5. ~HoldsAt(t, "enter", o)  BY TablesAre DEF HoldsAt, LinkedOK
  <2>6. Held'  BY <2>2, <2>3, <2>4, <2>5, QuietMove DEF Unlinking
  <2>7. UnlinkedIsEmpty' /\ PushOK'  BY <2>2, StatusMoves DEF Happened
  <2>. QED  BY <2>1, <2>6, <2>7
<1>2. CASE Return(p)
  <2>. USE <1>0, <1>2 DEF Return
  <2>1. TypeOK'  BY TablesAre DEF OpOK, Fits, TypeOK
  <2>2. Moved(t, "out", op[p])  BY TablesAre DEF Moved, Places, PcOK, Fits, Goto, TypeOK, OpOK, LinkedOK
  <2>3. LinkedOK'  BY TablesAre DEF LinkedOK, TypeOK
  <2>4. ~Linking(p) \/ t # t
    BY TablesAre DEF Linking, OpOK, Fits, LinkedOK
  <2>5. ~HoldsAt(t, "out", op[p])  BY TablesAre DEF HoldsAt, LinkedOK
  <2>6. Held'  BY <2>2, <2>3, <2>4, <2>5, QuietMove DEF Unlinking
  <2>7. UnlinkedIsEmpty' /\ PushOK'  BY <2>2, StatusMoves DEF Happened
  <2>. QED  BY <2>1, <2>6, <2>7
<1>3. CASE ExitedStandBy(p)
  <2>. USE <1>0, <1>3 DEF ExitedStandBy
  <2>1. TypeOK'  BY DEF TypeOK
  <2>2. Moved(b, "out", op[p])  BY TablesAre DEF Moved, Places, PcOK, Fits, Goto, TypeOK, OpOK, LinkedOK
  <2>3. LinkedOK'  BY TablesAre DEF LinkedOK, TypeOK
  <2>4. ~Linking(p) \/ b # t
    BY TablesAre DEF Linking, OpOK, Fits, LinkedOK
  <2>5. ~HoldsAt(b, "out", op[p])  BY TablesAre DEF HoldsAt, LinkedOK
  <2>6. Held'  BY <2>2, <2>3, <2>4, <2>5, QuietMove DEF Unlinking
  <2>7. UnlinkedIsEmpty' /\ PushOK'  BY <2>2, StatusMoves DEF Happened
  <2>. QED  BY <2>1, <2>6, <2>7
<1>4. CASE CallExitStandBy(p)
  <2>. USE <1>0, <1>4 DEF CallExitStandBy
  <2>1. TypeOK'  BY DEF TypeOK
  <2>2. Moved(b, "enter", op[p])  BY TablesAre DEF Moved, Places, PcOK, Fits, Goto, TypeOK, OpOK, LinkedOK
  <2>3. LinkedOK'  BY TablesAre DEF LinkedOK, TypeOK
  <2>4. ~Linking(p) \/ b # t
    BY TablesAre DEF Linking, OpOK, Fits, LinkedOK
  <2>5. ~HoldsAt(b, "enter", op[p])  BY TablesAre DEF HoldsAt, LinkedOK
  <2>6. Held'  BY <2>2, <2>3, <2>4, <2>5, QuietMove DEF Unlinking
  <2>7. UnlinkedIsEmpty' /\ PushOK'  BY <2>2, StatusMoves DEF Happened
  <2>. QED  BY <2>1, <2>6, <2>7
<1>5. CASE ReleaseStopped(p)
  <2>. USE <1>0, <1>5 DEF ReleaseStopped
  <2>1. TypeOK'  BY DEF TypeOK
  <2>2. Moved(t, "release", op[p])  BY TablesAre DEF Moved, Places, PcOK, Fits, Goto, TypeOK, OpOK, LinkedOK
  <2>3. LinkedOK'  BY TablesAre DEF LinkedOK, TypeOK
  <2>4. ~Linking(p) \/ t # t
    BY TablesAre DEF Linking, OpOK, Fits, LinkedOK
  <2>5. ~HoldsAt(t, "release", op[p])  BY TablesAre DEF HoldsAt, LinkedOK
  <2>6. Held'  BY <2>2, <2>3, <2>4, <2>5, QuietMove DEF Unlinking
  <2>7. UnlinkedIsEmpty' /\ PushOK'  BY <2>2, StatusMoves DEF Happened
  <2>. QED  BY <2>1, <2>6, <2>7
<1>6. CASE Release(p)
  <2>. USE <1>0, <1>6 DEF Release
  <2>1. TypeOK'  BY DEF TypeOK
  <2>2. Moved(t, "out", "release")  BY TablesAre DEF Moved, Places, PcOK, Fits, Goto, TypeOK, OpOK, LinkedOK
  <2>3. LinkedOK'  BY TablesAre DEF LinkedOK, TypeOK
  <2>4. ~Linking(p) \/ t # t
    BY TablesAre DEF Linking, OpOK, Fits, LinkedOK
  <2>5. ~HoldsAt(t, "out", "release")  BY TablesAre DEF HoldsAt, LinkedOK
  <2>6. Held'  BY <2>2, <2>3, <2>4, <2>5, QuietMove DEF Unlinking
  <2>7. UnlinkedIsEmpty' /\ PushOK'  BY <2>2, StatusMoves DEF Happened
  <2>. QED  BY <2>1, <2>6, <2>7
<1>7. CASE Die(p)
  <2>. USE <1>0, <1>7 DEF Die
  <2>1. TypeOK'
    <3>1. may' \subseteq Requests \cup Mishaps \cup {"happened"}  BY DEF Happened, TypeOK
    <3>. QED  BY <3>1 DEF TypeOK
  <2>2. Moved(d, "release", op[p])  BY TablesAre DEF Moved, Places, PcOK, Fits, Goto, TypeOK, OpOK, LinkedOK
  <2>3. LinkedOK'  BY TablesAre DEF LinkedOK, TypeOK
  <2>4. ~Linking(p) \/ d # t
    BY TablesAre DEF Linking, OpOK, Fits, LinkedOK
  <2>5. ~HoldsAt(d, "release", op[p])  BY TablesAre DEF HoldsAt, LinkedOK
  <2>6. Held'  BY <2>2, <2>3, <2>4, <2>5, QuietMove DEF Unlinking
  <2>7. UnlinkedIsEmpty' /\ PushOK'  BY <2>2, StatusMoves DEF Happened
  <2>. QED  BY <2>1, <2>6, <2>7
<1>. QED  BY <1>1, <1>2, <1>3, <1>4, <1>5, <1>6, <1>7

(* And so do the endpoint's own threads and its release, which empties     *)
(* the list.                                                               *)
LEMMA EndpointIInv ==
    ASSUME IInv, (\E p \in Processes : FindStarved(p)) \/ WorkLoop \/ Update \/ Releasing
    PROVE  IInv'
<1>. USE DEF process, service, endpoint, workers, IInv, Held, Linking, Holds, AtLink
<1>1. CASE EndpointReleased
  <2>. USE <1>1 DEF EndpointReleased
  <2>1. TypeOK'  BY DEF TypeOK
  <2>2. PcOK' /\ OpOK' /\ OneHolder'  BY DEF PcOK, OpOK, OneHolder
  <2>3. LinkedOK'  BY DEF LinkedOK, TypeOK
  <2>4. LeftList' /\ ListedLive' /\ NoDangling' /\ UnlinkedIsEmpty' /\ PushOK'
    BY DEF LeftList, ListedLive, NoDangling, UnlinkedIsEmpty, PushOK
  <2>. QED  BY <2>1, <2>2, <2>3, <2>4
<1>2. ASSUME UNCHANGED <<op, leaving, linked, pc, pairs, list>>,
             "fail" \in may => "fail" \in may', status' = status \/ status' # "UNLINKED"
      PROVE  Held' /\ UnlinkedIsEmpty' /\ PushOK'
  <2>1. Held'
    BY <1>2 DEF PcOK, OpOK, OneHolder, LinkedOK, LeftList, ListedLive, NoDangling
  <2>2. UnlinkedIsEmpty' /\ PushOK'  BY <1>2 DEF UnlinkedIsEmpty, PushOK
  <2>. QED  BY <2>1, <2>2
<1>3. ASSUME NEW p \in Processes, FindStarved(p)  PROVE IInv'
  <2>1. may' \subseteq Requests \cup Mishaps \cup {"happened"}
    BY <1>3 DEF FindStarved, Happened, TypeOK
  <2>2. TypeOK'  BY <1>3, <2>1 DEF FindStarved, Loop, TypeOK
  <2>. QED  BY <1>2, <1>3, <2>2 DEF FindStarved, Happened
<1>4. CASE WorkLoop
  <2>. USE DEF Loops, Loop
  <2>1. CASE KeepWorkloopRunning
    BY <1>2, <2>1 DEF KeepWorkloopRunning, TypeOK
  <2>2. CASE NobodyStarved  BY <1>2, <2>2 DEF NobodyStarved, TypeOK
  <2>3. CASE MarkStandBy
    <3>1. TypeOK'  BY <2>3 DEF MarkStandBy, TypeOK
    <3>. QED  BY <1>2, <2>3, <3>1 DEF MarkStandBy
  <2>4. CASE CheckStandBy  BY <1>2, <2>4 DEF CheckStandBy, TypeOK
  <2>5. CASE CheckStandByLooks
    <3>1. PICK next \in IsAnyProcessRunning : Loop(next[1], "none") /\ looked' = next[2]
      BY <2>5 DEF CheckStandByLooks
    <3>2. TypeOK'  BY <2>5, <3>1, ScansAre DEF CheckStandByLooks, TypeOK
    <3>. QED  BY <1>2, <2>5, <3>2 DEF CheckStandByLooks
  <2>6. CASE CheckStandBySettles
    BY <1>2, <2>6, TablesAre DEF CheckStandBySettles, TypeOK
  <2>7. CASE CheckStandByIdle  BY <1>2, <2>7 DEF CheckStandByIdle, TypeOK
  <2>8. CASE CheckStandByArms  BY <1>2, <2>8 DEF CheckStandByArms, TypeOK
  <2>. QED  BY <1>4, <2>1, <2>2, <2>3, <2>4, <2>5, <2>6, <2>7, <2>8 DEF WorkLoop
<1>5. CASE Update
  <2>1. TypeOK'
    BY <1>5 DEF Update, Updates, AsyncGetPosTime, DelayStopDevice, DelayStopped, TypeOK
  <2>2. UNCHANGED <<may, status, op, leaving, linked, pc, pairs, list>>
    BY <1>5 DEF Update, Updates, AsyncGetPosTime, DelayStopDevice, DelayStopped
  <2>. QED  BY <1>2, <2>1, <2>2
<1>6. CASE ReleaseCalledOff \/ DelayCallReleaseEndpoint
  <2>1. timers' \in Nat  BY <1>6 DEF ReleaseCalledOff, DelayCallReleaseEndpoint, TypeOK
  <2>2. TypeOK'  BY <1>6, <2>1 DEF ReleaseCalledOff, DelayCallReleaseEndpoint, TypeOK
  <2>3. UNCHANGED <<op, leaving, linked, pc, pairs, list, status, may>>
    BY <1>6 DEF ReleaseCalledOff, DelayCallReleaseEndpoint
  <2>. QED  BY <1>2, <2>2, <2>3
<1>. QED  BY <1>1, <1>3, <1>4, <1>5, <1>6 DEF Releasing

(* Nothing is linked in the initial state. *)
LEMMA InitIInv == Init => IInv
<1>. SUFFICES ASSUME Init PROVE IInv  OBVIOUS
<1>1. may \subseteq Requests \cup Mishaps  BY FastEndpointAssumption DEF Init
<1>2. TypeOK  BY <1>1 DEF Init, TypeOK
<1>3. Held
  BY ThreadsAre, TablesAre
  DEF Init, Held, PcOK, OpOK, LinkedOK, OneHolder, LeftList, ListedLive, NoDangling, Fits,
      Holds, HoldsAt, Linking, Unlinking, Places, CallPlaces, DevicePlaces, LinkPlaces,
      LeavePlaces
<1>4. UnlinkedIsEmpty /\ PushOK  BY DEF Init, UnlinkedIsEmpty, PushOK
<1>. QED  BY <1>2, <1>3, <1>4 DEF IInv

(* A step that changes nothing changes no invariant. *)
LEMMA StutterIInv == IInv /\ UNCHANGED vars => IInv'
BY DEF vars, process, service, endpoint, workers, IInv, TypeOK, Held, PcOK, OpOK, LinkedOK,
       OneHolder, LeftList, ListedLive, NoDangling, UnlinkedIsEmpty, Linking, Holds, PushOK,
       AtLink

(* The invariant holds in every reachable state. *)
THEOREM SpecIInv == Spec => []IInv
<1>1. IInv /\ [Next]_vars => IInv'
  <2>. SUFFICES ASSUME IInv, [Next]_vars PROVE IInv'  OBVIOUS
  <2>1. CASE Application
    BY <2>1, ClientIInv, LinkIInv, TablesAre DEF Application
  <2>2. ASSUME NEW p \in Processes,
               Control(p) \/ Callback(p) \/ Death(p) \/ Die(p) \/ FindStarved(p)
        PROVE  IInv'
    <3>1. <<p, "control">> \in Threads /\ <<p, "callback">> \in Threads
          /\ <<p, "death">> \in Threads
      BY ThreadsAre
    <3>2. CASE Control(p)
      BY <3>1, <3>2, ClientIInv, LinkIInv, HandlerIInv, LeaveIInv, TablesAre DEF Control
    <3>3. CASE Callback(p)  BY <3>1, <3>3, ClientIInv, HandlerIInv DEF Callback
    <3>4. CASE Death(p)  BY <3>1, <3>4, LeaveIInv DEF Death
    <3>5. CASE Die(p) \/ FindStarved(p)  BY <3>5, ClientIInv, EndpointIInv
    <3>. QED  BY <2>2, <3>2, <3>3, <3>4, <3>5
  <2>3. CASE Releasing \/ WorkLoop \/ Update  BY <2>3, EndpointIInv
  <2>4. CASE UNCHANGED vars  BY <2>4, StutterIInv
  <2>. QED  BY <2>1, <2>2, <2>3, <2>4 DEF Next
<1>. QED  BY <1>1, InitIInv, PTL DEF Spec

(* Every variable keeps to its type. *)
THEOREM TypeCorrect == Spec => []TypeOK
<1>1. IInv => TypeOK  BY DEF IInv
<1>. QED  BY <1>1, SpecIInv, PTL

(* The endpoint never mixes a process that the service has let go, however *)
(* links, releases, deaths and failing devices interleave: processList_    *)
(* holds bare pointers (audio_endpoint.cpp), which only linkedPairedList_  *)
(* keeps alive.                                                            *)
THEOREM NoProcessDangles == Spec => []NoDangling
<1>1. IInv => NoDangling  BY DEF IInv, Held
<1>. QED  BY <1>1, SpecIInv, PTL

(* An endpoint that may be released, because it calls itself UNLINKED, has *)
(* no process, unless a device has failed to start.                        *)
THEOREM UnlinkedHasNoProcess == Spec => []UnlinkedIsEmpty
<1>1. IInv => UnlinkedIsEmpty  BY DEF IInv
<1>. QED  BY <1>1, SpecIInv, PTL
=============================================================================
