---------------------------- MODULE AudioSession ----------------------------
(***************************************************************************)
(* Audio sessions of the policy service: AudioInterruptService, which      *)
(* holds mutex_ through each of its calls; AudioSessionService and its     *)
(* AudioSessions; and AudioSessionTimer, whose thread ends the sessions    *)
(* that stay empty for a minute.                                           *)
(*                                                                         *)
(* A call of the interrupt service is the list of what it asks of the      *)
(* session service, `todo`; each request is split where it waits for a     *)
(* lock that the timer's thread may hold.  Of a stream's focus only what   *)
(* matters to sessions is kept: absent, in the list, or a placeholder.     *)
(***************************************************************************)
EXTENDS Integers, Sequences, FiniteSets, SequencesExt

CONSTANTS
    Pids,       \* client processes
    Streams,    \* their streams
    Owner       \* the process of each stream

ASSUME OwnerAssumption == Owner \in [Streams -> Pids]
ASSUME StreamsAssumption == IsFiniteSet(Streams)

VARIABLES
    (* AudioInterruptService *)
    focus,          \* audioFocusInfoList of the default zone
    mutex,          \* who holds mutex_: the call under way
    todo,           \* what that call has still to ask of the session service
    pc,             \* its place in the first of these requests
    found,          \* the request found the session in sessionMap_
    (* AudioSessionService *)
    active,         \* the keys of sessionMap_
    interruptMap,   \* interruptMap_ of each session
    serviceMutex,   \* who holds sessionServiceMutex_
    (* AudioSessionTimer *)
    timer,          \* timerMap_; "old" from a minute after the start
    timerMutex,     \* who holds sessionTimerMutex_
    timerState,     \* state_
    isThreadRunning,\* isThreadRunning_
    loop,           \* the place of the thread; "none" if timerThread_ is null
    due             \* the entries that its round has found to be old

call == <<mutex, todo, pc, found>>
sessions == <<active, interruptMap, serviceMutex>>
timers == <<timer, timerState>>
thread == <<isThreadRunning, loop, due>>
vars == <<focus, call, sessions, timers, timerMutex, thread>>

Init ==
    /\ focus = [s \in Streams |-> "out"]
    /\ mutex = "free" /\ todo = <<>> /\ pc = "ready" /\ found = FALSE
    /\ active = {} /\ interruptMap = [p \in Pids |-> {}] /\ serviceMutex = "free"
    /\ timer = [p \in Pids |-> "none"] /\ timerMutex = "free" /\ timerState = "new"
    /\ isThreadRunning = FALSE /\ loop = "none" /\ due = {}

-----------------------------------------------------------------------------
(* The calls of AudioInterruptService.                                     *)

Ask(request, p) == [do |-> request, pid |-> p]
AskOf(request, s) == [do |-> request, pid |-> Owner[s], stream |-> s]

Begin(requests) ==
    /\ mutex = "free" /\ mutex' = "call"
    /\ todo' = requests
    /\ UNCHANGED <<pc, found, sessions, timers, timerMutex, thread>>

ActivateAudioSession(p) ==
    /\ Begin(<<Ask("activate", p), Ask("addActive", p)>>)
    /\ UNCHANGED focus

DeactivateAudioSession(p) ==
    /\ Begin(<<Ask("deactivate", p), Ask("removePlaceholder", p)>>)
    /\ UNCHANGED focus

Listed(list) == {s \in Streams : list[s] # "out"}

(* The streams that must stop, one after the other: each is removed from   *)
(* its session, which ends if that leaves it empty.                        *)
StopEach(order) ==
    [i \in 1..2 * Len(order) |->
        AskOf(IF i % 2 = 1 THEN "remove" ELSE "lowPriority", order[(i + 1) \div 2])]

(* ProcessAudioScene removes the stream and its process's placeholders.    *)
(* If that empties the list the stream is in, with a request to REMOVE it  *)
(* from its session; otherwise ProcessFocusEntry rejects it, or lets it in *)
(* and stops some of the others, as the table of focus entries says.       *)
ActivateAudioInterrupt(s) ==
    LET rest == [t \in Streams |->
                    IF t = s \/ (Owner[t] = Owner[s] /\ focus[t] = "placeholder")
                    THEN "out" ELSE focus[t]]
        first == IF Listed(focus) = {} THEN <<>> ELSE <<AskOf("remove", s)>>
    IN  \/ /\ Listed(rest) = {}
           /\ focus' = [rest EXCEPT ![s] = "in"]
           /\ Begin(Append(first, AskOf("remove", s)))
        \/ /\ Listed(rest) # {} /\ focus' = rest
           /\ Begin(first)
        \/ /\ Listed(rest) # {}
           /\ \E stopped \in SUBSET {t \in Streams : rest[t] = "in"} :
                /\ focus' = [t \in Streams |-> IF t \in stopped THEN "out"
                                               ELSE IF t = s THEN "in" ELSE rest[t]]
                /\ \E order \in SetToSeqs(stopped) :
                     Begin(first \o StopEach(order) \o <<AskOf("add", s)>>)

DeactivateAudioInterrupt(s) ==
    /\ Begin(<<AskOf("remove", s), AskOf("leave", s)>>)
    /\ UNCHANGED focus

Finish ==
    /\ mutex = "call" /\ todo = <<>> /\ mutex' = "free"
    /\ UNCHANGED <<focus, todo, pc, found, sessions, timers, timerMutex, thread>>

-----------------------------------------------------------------------------
(* The requests.                                                           *)

Request(r, place) ==
    /\ mutex = "call" /\ todo # <<>> /\ Head(todo).do = r
    /\ pc = place

ThePid == Head(todo).pid
TheStream == Head(todo).stream

(* The request is done, or done but for what it asks of the timer. *)
Done == todo' = Tail(todo) /\ pc' = "ready"
Goto(place) == pc' = place /\ UNCHANGED todo

ServiceFree == serviceMutex = "free" /\ UNCHANGED serviceMutex
HoldService == serviceMutex = "free" /\ serviceMutex' = "call"

AudioSessionServiceActivate ==
    /\ Request("activate", "ready")
    /\ active' = active \cup {ThePid}
    /\ IF interruptMap[ThePid] = {} THEN HoldService /\ Goto("start") ELSE ServiceFree /\ Done
    /\ UNCHANGED <<focus, mutex, found, interruptMap, timers, timerMutex, thread>>

AddActiveInterruptToSession ==
    /\ Request("addActive", "ready") /\ ServiceFree
    /\ LET mine == {s \in Listed(focus) : Owner[s] = ThePid} IN
       \E order \in IF ThePid \in active THEN SetToSeqs(mine) ELSE {<<>>} :
          todo' = [i \in DOMAIN order |-> AskOf("add", order[i])] \o Tail(todo)
    /\ UNCHANGED <<focus, mutex, pc, found, active, interruptMap, timers, timerMutex,
                   thread>>

(* DeactivateAudioSessionInternal for a call *)
EndSession ==
    /\ HoldService /\ Goto("stop")
    /\ active' = active \ {ThePid}
    /\ interruptMap' = [interruptMap EXCEPT ![ThePid] = {}]

AudioSessionServiceDeactivate ==
    /\ Request("deactivate", "ready")
    /\ \/ ThePid \in active /\ EndSession
       \/ /\ ThePid \notin active /\ ServiceFree   \* an error ends the call
          /\ todo' = <<>>
          /\ UNCHANGED <<pc, active, interruptMap>>
    /\ UNCHANGED <<focus, mutex, found, timers, timerMutex, thread>>

(* HandleLowPriorityEvent once the stream is removed *)
HandleLowPriorityEvent ==
    /\ Request("lowPriority", "ready")
    /\ \/ ThePid \in active /\ interruptMap[ThePid] = {} /\ EndSession
       \/ /\ ~(ThePid \in active /\ interruptMap[ThePid] = {})
          /\ ServiceFree /\ Done /\ UNCHANGED <<active, interruptMap>>
    /\ UNCHANGED <<focus, mutex, found, timers, timerMutex, thread>>

(* ResumeAudioFocusList: the streams that were paused for the one that has *)
(* left, as the table says, leave the list, too, but not their sessions.   *)
Resumed(list) ==
    {[s \in Streams |-> IF s \in resumed THEN "out" ELSE list[s]] :
        resumed \in SUBSET {s \in Streams : list[s] = "in"}}

(* The first placeholder that is found leaves the list, no other. *)
WithoutPlaceholder(p, list) ==
    LET held == {s \in Streams : Owner[s] = p /\ list[s] = "placeholder"}
    IN  IF p \in active \/ held = {} THEN {list}
        ELSE UNION {Resumed([list EXCEPT ![s] = "out"]) : s \in held}

RemovePlaceholderInterruptForSession ==
    /\ Request("removePlaceholder", "ready") /\ ServiceFree /\ Done
    /\ focus' \in WithoutPlaceholder(ThePid, focus)
    /\ UNCHANGED <<mutex, found, active, interruptMap, timers, timerMutex, thread>>

(* IsAudioSessionActivated and GetAudioSessionByPid: the session that is   *)
(* found is used afterwards without sessionServiceMutex_.                  *)
GetAudioSessionByPid ==
    /\ Request("add", "ready") \/ Request("remove", "ready")
    /\ ServiceFree
    /\ found' = (ThePid \in active)
    /\ IF found' THEN Goto("session") ELSE Done
    /\ UNCHANGED <<focus, mutex, active, interruptMap, timers, timerMutex, thread>>

(* mutant: the timer is left running *)
AddAudioInterrptAlone ==
    /\ Request("add", "session") /\ Done
    /\ interruptMap' = [interruptMap EXCEPT
                           ![ThePid] = IF ThePid \in active THEN @ \cup {TheStream} ELSE @]
    /\ UNCHANGED <<focus, mutex, found, active, serviceMutex, timers, timerMutex, thread>>

(* A session that has ended meanwhile is changed where nobody looks. *)
AddAudioInterrpt ==
    /\ Request("add", "session") /\ Goto("isRunning")
    /\ interruptMap' = [interruptMap EXCEPT
                           ![ThePid] = IF ThePid \in active THEN @ \cup {TheStream} ELSE @]
    /\ UNCHANGED <<focus, mutex, found, active, serviceMutex, timers, timerMutex, thread>>

RemoveAudioInterrptByStreamId ==
    /\ Request("remove", "session")
    /\ interruptMap' = [interruptMap EXCEPT ![ThePid] = @ \ {TheStream}]
    /\ IF interruptMap[ThePid] = {TheStream} THEN Goto("isRunning") ELSE Done
    /\ UNCHANGED <<focus, mutex, found, active, serviceMutex, timers, timerMutex, thread>>

(* mutant: the entry is made PAUSE instead of PLACEHOLDER *)
LeaveFocusPaused ==
    /\ Request("leave", "ready") /\ Done
    /\ \/ focus[TheStream] = "out" /\ UNCHANGED focus
       \/ /\ focus[TheStream] # "out" /\ found /\ interruptMap[ThePid] = {}
          /\ focus' = [focus EXCEPT ![TheStream] = "pause"]
       \/ /\ focus[TheStream] # "out" /\ ~(found /\ interruptMap[ThePid] = {})
          /\ focus' \in Resumed([focus EXCEPT ![TheStream] = "out"])
    /\ UNCHANGED <<mutex, found, sessions, timers, timerMutex, thread>>

(* DeactivateAudioInterruptInternal once the stream is removed from its    *)
(* session: an empty session keeps its place in the list, otherwise others *)
(* may resume.                                                             *)
LeaveFocus ==
    /\ Request("leave", "ready") /\ Done
    /\ \/ focus[TheStream] = "out" /\ UNCHANGED focus
       \/ /\ focus[TheStream] # "out" /\ found /\ interruptMap[ThePid] = {}
          /\ focus' = [focus EXCEPT ![TheStream] = "placeholder"]
       \/ /\ focus[TheStream] # "out" /\ ~(found /\ interruptMap[ThePid] = {})
          /\ focus' \in Resumed([focus EXCEPT ![TheStream] = "out"])
    /\ UNCHANGED <<mutex, found, sessions, timers, timerMutex, thread>>

-----------------------------------------------------------------------------
(* The requests at the timer: AudioSessionTimer.                           *)

TimerFree == timerMutex = "free" /\ UNCHANGED timerMutex

AtTimer(place) == mutex = "call" /\ pc = place

(* ... after which the request is done and gives sessionServiceMutex_ back *)
Answered == Done /\ serviceMutex' = IF serviceMutex = "call" THEN "free" ELSE serviceMutex

IsSessionTimerRunning ==
    /\ AtTimer("isRunning") /\ TimerFree
    /\ LET running == timer[ThePid] # "none" IN
       \/ /\ Head(todo).do = "add" /\ running
          /\ Goto("stop") /\ UNCHANGED serviceMutex
       \/ /\ Head(todo).do = "remove" /\ ~running
          /\ Goto("start") /\ UNCHANGED serviceMutex
       \/ /\ (Head(todo).do = "add") # running
          /\ Answered
    /\ UNCHANGED <<focus, mutex, found, active, interruptMap, timers, thread>>

(* An unfinished thread is joined, too, if it has not come to its first    *)
(* statement yet.                                                          *)
MustJoin == ~isThreadRunning /\ loop # "none"

StartTimer ==
    /\ AtTimer("start") /\ TimerFree
    /\ \/ /\ timer[ThePid] # "none"
          /\ Answered /\ UNCHANGED <<timers, loop>>
       \/ /\ timer[ThePid] = "none"
          /\ timer' = [timer EXCEPT ![ThePid] = "young"] /\ timerState' = "running"
          /\ IF MustJoin
             THEN Goto("joinToStart") /\ UNCHANGED <<serviceMutex, loop>>
             ELSE Answered /\ loop' = IF loop = "none" THEN "begin" ELSE loop
    /\ UNCHANGED <<focus, mutex, found, active, interruptMap, isThreadRunning, due>>

StopTimer ==
    /\ AtTimer("stop") /\ TimerFree
    /\ timer' = [timer EXCEPT ![ThePid] = "none"]
    /\ IF \A p \in Pids : timer'[p] = "none"
       THEN /\ timerState' = "stopped"
            /\ IF MustJoin THEN Goto("joinToStop") /\ UNCHANGED serviceMutex ELSE Answered
       ELSE Answered /\ UNCHANGED timerState
    /\ UNCHANGED <<focus, mutex, found, active, interruptMap, thread>>

(* sessionTimerMutex_ has been given back, the other locks have not. *)
Join ==
    /\ AtTimer("joinToStart") \/ AtTimer("joinToStop")
    /\ loop = "ended"
    /\ loop' = IF pc = "joinToStart" THEN "begin" ELSE "none"
    /\ Answered
    /\ UNCHANGED <<focus, mutex, found, active, interruptMap, timers, timerMutex,
                   isThreadRunning, due>>

-----------------------------------------------------------------------------
(* The timer's thread: TimerLoopFunc.                                      *)

LoopBegin ==
    /\ loop = "begin" /\ loop' = "round"
    /\ isThreadRunning' = TRUE
    /\ UNCHANGED <<focus, call, sessions, timers, timerMutex, due>>

LoopRound ==
    /\ loop = "round" /\ timerMutex = "free"
    /\ IF \A p \in Pids : timer[p] = "none"
       THEN loop' = "exit" /\ UNCHANGED <<timerMutex, due>>
       ELSE /\ loop' = "scan" /\ timerMutex' = "loop"
            /\ due' = {p \in Pids : timer[p] = "old"}
    /\ UNCHANGED <<focus, call, sessions, timers, isThreadRunning>>

(* The locks of the sessions: sessionMutex_ is held while an Add or Remove *)
(* waits for the timer.                                                    *)
SessionMutexHeld(p) ==
    /\ mutex = "call" /\ todo # <<>> /\ pc \notin {"ready", "session"}
    /\ Head(todo).do \in {"add", "remove"} /\ ThePid = p

(* OnAudioSessionTimeOut, with sessionTimerMutex_: sessionServiceMutex_    *)
(* and then the session's ...                                              *)
LoopTimeOut ==
    /\ loop = "scan" /\ due # {} /\ serviceMutex = "free"
    /\ loop' = "deactivate" /\ serviceMutex' = "loop"
    /\ UNCHANGED <<focus, call, active, interruptMap, timers, timerMutex,
                   isThreadRunning, due>>

TheDue == CHOOSE p \in due : TRUE

(* mutant: the session is ended without its lock *)
LoopDeactivateUnlocked ==
    /\ loop = "deactivate"
    /\ loop' = "callback" /\ serviceMutex' = "free"
    /\ active' = active \ {TheDue}
    /\ interruptMap' = [interruptMap EXCEPT ![TheDue] = {}]
    /\ UNCHANGED <<focus, call, timers, timerMutex, isThreadRunning, due>>

LoopDeactivate ==
    /\ loop = "deactivate" /\ ~SessionMutexHeld(TheDue)
    /\ loop' = "callback" /\ serviceMutex' = "free"
    /\ active' = active \ {TheDue}
    /\ interruptMap' = [interruptMap EXCEPT ![TheDue] = {}]
    /\ UNCHANGED <<focus, call, timers, timerMutex, isThreadRunning, due>>

(* ... then OnSessionTimeout, with mutex_; then the entry is erased. *)
LoopCallback ==
    /\ loop = "callback" /\ mutex = "free"
    /\ loop' = "scan"
    /\ focus' \in WithoutPlaceholder(TheDue, focus)
    /\ timer' = [timer EXCEPT ![TheDue] = "none"]
    /\ due' = due \ {TheDue}
    /\ UNCHANGED <<call, sessions, timerState, timerMutex, isThreadRunning>>

LoopSleep ==
    /\ loop = "scan" /\ due = {}
    /\ loop' = "sleep" /\ timerMutex' = "free"
    /\ UNCHANGED <<focus, call, sessions, timers, isThreadRunning, due>>

(* A second has passed, or state_ is TIMER_STOPPED. *)
LoopWake ==
    /\ loop = "sleep"
    /\ loop' = IF timerState = "stopped" THEN "exit" ELSE "round"
    /\ UNCHANGED <<focus, call, sessions, timers, timerMutex, isThreadRunning, due>>

LoopExit ==
    /\ loop = "exit" /\ loop' = "ended"
    /\ isThreadRunning' = FALSE
    /\ UNCHANGED <<focus, call, sessions, timers, timerMutex, due>>

-----------------------------------------------------------------------------
(* A minute after the start of the timer. *)
Minute(p) ==
    /\ timer[p] = "young"
    /\ timer' = [timer EXCEPT ![p] = "old"]
    /\ UNCHANGED <<focus, call, sessions, timerState, timerMutex, thread>>

Application ==
    \/ \E p \in Pids : ActivateAudioSession(p) \/ DeactivateAudioSession(p)
    \/ \E s \in Streams : ActivateAudioInterrupt(s) \/ DeactivateAudioInterrupt(s)

Call ==
    \/ AudioSessionServiceActivate \/ AddActiveInterruptToSession
    \/ AudioSessionServiceDeactivate \/ HandleLowPriorityEvent
    \/ RemovePlaceholderInterruptForSession \/ GetAudioSessionByPid
    \/ AddAudioInterrpt \/ RemoveAudioInterrptByStreamId \/ LeaveFocus
    \/ IsSessionTimerRunning \/ StartTimer \/ StopTimer \/ Join \/ Finish

TimerLoop ==
    \/ LoopBegin \/ LoopRound \/ LoopTimeOut \/ LoopDeactivate \/ LoopCallback
    \/ LoopSleep \/ LoopWake \/ LoopExit

Next == Application \/ Call \/ TimerLoop \/ \E p \in Pids : Minute(p)

Spec == Init /\ [][Next]_vars

(* Runnable threads run, a lock that is free again and again is got, and   *)
(* time passes.                                                            *)
FairSpec ==
    Spec /\ SF_vars(Call) /\ SF_vars(TimerLoop) /\ \A p \in Pids : WF_vars(Minute(p))

-----------------------------------------------------------------------------
Requests == {"activate", "addActive", "deactivate", "lowPriority", "add", "remove",
             "removePlaceholder", "leave"}

TypeOK ==
    /\ focus \in [Streams -> {"out", "in", "placeholder"}]
    /\ mutex \in {"free", "call"} /\ serviceMutex \in {"free", "call", "loop"}
    /\ timerMutex \in {"free", "loop"}
    /\ \A i \in DOMAIN todo : todo[i].do \in Requests /\ todo[i].pid \in Pids
    /\ pc \in {"ready", "session", "isRunning", "start", "stop", "joinToStart", "joinToStop"}
    /\ found \in BOOLEAN
    /\ active \subseteq Pids /\ interruptMap \in [Pids -> SUBSET Streams]
    /\ timer \in [Pids -> {"none", "young", "old"}]
    /\ timerState \in {"new", "running", "stopped"} /\ isThreadRunning \in BOOLEAN
    /\ loop \in {"none", "begin", "round", "scan", "deactivate", "callback", "sleep",
                 "exit", "ended"}
    /\ due \subseteq Pids

(* No call is under way and the timer's thread is between two rounds. *)
Quiet == mutex = "free" /\ timerMutex = "free"

(* A timer runs for exactly the sessions that are empty. *)
TimersMatchSessions ==
    Quiet => \A p \in Pids : timer[p] # "none" <=> (p \in active /\ interruptMap[p] = {})

(* What the timer ends has no stream, even one that is being added while   *)
(* the timer's thread is on its way from the entry it found old to the     *)
(* session.                                                                *)
OnlyEmptySessionsTimeOut ==
    [][loop = "deactivate" /\ loop' = "callback" => interruptMap[TheDue] = {}]_vars

(* A session that ends by its timer while no call is under way has no      *)
(* stream in the focus list (audio_session_info.h: "The audio session      *)
(* remains empty for one minute").                                         *)
NoStreamPlaysAtTimeOut ==
    [][loop = "deactivate" /\ loop' = "callback" /\ mutex = "free" =>
        \A s \in Streams : Owner[s] = TheDue => focus[s] # "in"]_vars

(* ... and one that remains empty does end. *)
EmptySessionsTimeOut ==
    \A p \in Pids : p \in active /\ interruptMap[p] = {} ~> p \notin active \/ interruptMap[p] # {}
=============================================================================
