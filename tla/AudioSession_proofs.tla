------------------------ MODULE AudioSession_proofs -------------------------
(***************************************************************************)
(* Proofs of the safety of AudioSession, for any number of processes and   *)
(* of streams.                                                             *)
(*                                                                         *)
(* The locks alone do not keep timers and sessions in step: they are       *)
(* changed one after the other by a call that may be overtaken by the      *)
(* timer's thread.  The invariant says for each place of the call what the *)
(* session and the timer of its process are (CallKeeps), and what the      *)
(* thread holds and relies on at each of its own places (Locks, DueOld).   *)
(***************************************************************************)
EXTENDS AudioSession, SequenceTheorems, FiniteSetTheorems, TLAPS

OfProcess == [do : {"activate", "addActive", "deactivate", "removePlaceholder"}, pid : Pids]
OfStream == [do : {"add", "remove", "lowPriority", "leave"}, pid : Pids, stream : Streams]
Asked == OfProcess \cup OfStream

-----------------------------------------------------------------------------
(* What the calls ask for is well formed.                                  *)

LEMMA OrderIsSeq ==
    ASSUME NEW S \in SUBSET Streams, NEW order \in SetToSeqs(S)
    PROVE  order \in Seq(Streams)
<1>1. Cardinality(S) \in Nat  BY StreamsAssumption, FS_Subset, FS_CardinalityType
<1>2. order \in [1..Cardinality(S) -> Streams]  BY DEF SetToSeqs
<1>. QED  BY <1>1, <1>2

LEMMA AsksAreAsked ==
    /\ \A p \in Pids, r \in {"activate", "addActive", "deactivate", "removePlaceholder"} :
          Ask(r, p) \in Asked
    /\ \A s \in Streams, r \in {"add", "remove", "lowPriority", "leave"} : AskOf(r, s) \in Asked
BY OwnerAssumption DEF Ask, AskOf, Asked, OfProcess, OfStream

LEMMA StopEachAsked ==
    ASSUME NEW order \in Seq(Streams)
    PROVE  StopEach(order) \in Seq(Asked)
<1>1. Len(order) \in Nat /\ order \in [1..Len(order) -> Streams]  BY LenProperties
<1>2. ASSUME NEW i \in 1..2 * Len(order)
      PROVE  AskOf(IF i % 2 = 1 THEN "remove" ELSE "lowPriority", order[(i + 1) \div 2]) \in Asked
  <2>1. (i + 1) \div 2 \in 1..Len(order)  BY <1>1
  <2>2. order[(i + 1) \div 2] \in Streams  BY <1>1, <2>1
  <2>. QED  BY <2>2, AsksAreAsked
<1>. QED  BY <1>1, <1>2 DEF StopEach

LEMMA AddEachAsked ==
    ASSUME NEW order \in Seq(Streams)
    PROVE  [i \in DOMAIN order |-> AskOf("add", order[i])] \in Seq(Asked)
<1>1. /\ Len(order) \in Nat /\ DOMAIN order = 1..Len(order)
      /\ order \in [1..Len(order) -> Streams]
  BY LenProperties
<1>2. \A i \in 1..Len(order) : AskOf("add", order[i]) \in Asked  BY <1>1, AsksAreAsked
<1>. QED  BY <1>1, <1>2

(* Whatever ActivateAudioInterrupt decides, it begins a list of requests.  *)
LEMMA InterruptBegins ==
    ASSUME NEW s \in Streams, ActivateAudioInterrupt(s)
    PROVE  \E requests \in Seq(Asked) : Begin(requests)
<1>1. \A r \in Seq(Asked), t \in Seq(Asked) : r \o t \in Seq(Asked)  BY ConcatProperties
<1>2. \A r \in Seq(Asked), a \in Asked : Append(r, a) \in Seq(Asked)  BY AppendProperties
<1>3. <<>> \in Seq(Asked) /\ \A a \in Asked : <<a>> \in Seq(Asked)  OBVIOUS
<1>. DEFINE first == IF Listed(focus) = {} THEN <<>> ELSE <<AskOf("remove", s)>>
<1>4. first \in Seq(Asked)  BY <1>3, AsksAreAsked
<1>5. CASE Begin(first)  BY <1>4, <1>5
<1>6. CASE Begin(Append(first, AskOf("remove", s)))  BY <1>2, <1>4, <1>6, AsksAreAsked
<1>7. ASSUME NEW stopped \in SUBSET Streams, NEW order \in SetToSeqs(stopped),
             Begin(first \o StopEach(order) \o <<AskOf("add", s)>>)
      PROVE  \E requests \in Seq(Asked) : Begin(requests)
  <2>1. StopEach(order) \in Seq(Asked)  BY <1>7, OrderIsSeq, StopEachAsked
  <2>2. <<AskOf("add", s)>> \in Seq(Asked)  BY <1>3, AsksAreAsked
  <2>3. first \o StopEach(order) \o <<AskOf("add", s)>> \in Seq(Asked)
    BY <1>1, <1>4, <2>1, <2>2
  <2>. QED  BY <1>7, <2>3
<1>. QED  BY <1>5, <1>6, <1>7 DEF ActivateAudioInterrupt

-----------------------------------------------------------------------------
(* Type correctness.  The first request of a call that is at work is one   *)
(* of those that come to its place.                                        *)

Typed ==
    /\ focus \in [Streams -> {"out", "in", "placeholder"}]
    /\ mutex \in {"free", "call"} /\ serviceMutex \in {"free", "call", "loop"}
    /\ timerMutex \in {"free", "loop"}
    /\ todo \in Seq(Asked)
    /\ pc \in {"ready", "session", "isRunning", "start", "stop", "joinToStart", "joinToStop"}
    /\ found \in BOOLEAN
    /\ active \subseteq Pids /\ interruptMap \in [Pids -> SUBSET Streams]
    /\ timer \in [Pids -> {"none", "young", "old"}]
    /\ timerState \in {"new", "running", "stopped"} /\ isThreadRunning \in BOOLEAN
    /\ loop \in {"none", "begin", "round", "scan", "deactivate", "callback", "sleep",
                 "exit", "ended"}
    /\ due \subseteq Pids

CallPlaces ==
    /\ mutex = "free" => todo = <<>>
    /\ pc # "ready" => mutex = "call" /\ todo # <<>>
    /\ pc \in {"session", "isRunning"} => Head(todo).do \in {"add", "remove"}
    /\ pc \in {"start", "joinToStart"} => Head(todo).do \in {"activate", "remove"}
    /\ pc \in {"stop", "joinToStop"} => Head(todo).do \in {"add", "deactivate", "lowPriority"}

LEMMA InitTyped == Init => Typed /\ CallPlaces
<1>. SUFFICES ASSUME Init PROVE Typed /\ CallPlaces  OBVIOUS
<1>1. found \in BOOLEAN /\ isThreadRunning \in BOOLEAN  BY DEF Init
<1>. QED  BY <1>1 DEF Init, Typed, CallPlaces

LEMMA HeadAsked ==
    ASSUME Typed, todo # <<>>
    PROVE  /\ Head(todo) \in Asked /\ ThePid \in Pids /\ Tail(todo) \in Seq(Asked)
           /\ Head(todo).do \in {"add", "remove", "lowPriority", "leave"} => TheStream \in Streams
           /\ Head(todo).do \in Requests
BY HeadTailProperties DEF Typed, ThePid, TheStream, Asked, OfProcess, OfStream, Requests

LEMMA NextTyped == Typed /\ CallPlaces /\ [Next]_vars => Typed' /\ CallPlaces'
<1>. SUFFICES ASSUME Typed, CallPlaces, [Next]_vars PROVE Typed' /\ CallPlaces'  OBVIOUS
<1>. USE DEF call, sessions, timers, thread, Done, Goto, Answered, ServiceFree, HoldService,
             TimerFree, AtTimer
<1>0. CASE UNCHANGED vars  BY <1>0 DEF vars, Typed, CallPlaces
<1>1. ASSUME NEW p \in Pids, ActivateAudioSession(p) PROVE Typed' /\ CallPlaces'
  <2>1. todo' \in Seq(Asked)  BY <1>1, AsksAreAsked DEF ActivateAudioSession, Begin
  <2>. QED  BY <1>1, <2>1 DEF Typed, CallPlaces, ActivateAudioSession, Begin
<1>2. ASSUME NEW p \in Pids, DeactivateAudioSession(p) PROVE Typed' /\ CallPlaces'
  <2>1. todo' \in Seq(Asked)  BY <1>2, AsksAreAsked DEF DeactivateAudioSession, Begin
  <2>. QED  BY <1>2, <2>1 DEF Typed, CallPlaces, DeactivateAudioSession, Begin
<1>3. ASSUME NEW s \in Streams, ActivateAudioInterrupt(s) PROVE Typed' /\ CallPlaces'
  <2>1. PICK requests \in Seq(Asked) : Begin(requests)  BY <1>3, InterruptBegins
  <2>2. focus' \in [Streams -> {"out", "in", "placeholder"}]
    BY <1>3 DEF ActivateAudioInterrupt, Typed
  <2>. QED  BY <2>1, <2>2 DEF Begin, Typed, CallPlaces
<1>4. ASSUME NEW s \in Streams, DeactivateAudioInterrupt(s) PROVE Typed' /\ CallPlaces'
  <2>1. todo' \in Seq(Asked)  BY <1>4, AsksAreAsked DEF DeactivateAudioInterrupt, Begin
  <2>. QED  BY <1>4, <2>1 DEF Typed, CallPlaces, DeactivateAudioInterrupt, Begin
<1>5. ASSUME AudioSessionServiceActivate PROVE Typed' /\ CallPlaces'
  BY <1>5, HeadAsked DEF Typed, CallPlaces, AudioSessionServiceActivate, Request
<1>6. ASSUME AddActiveInterruptToSession PROVE Typed' /\ CallPlaces'
  <2>. PICK order \in Seq(Streams) :
              todo' = [i \in DOMAIN order |-> AskOf("add", order[i])] \o Tail(todo)
    <3>1. Listed(focus) \in SUBSET Streams  BY DEF Listed
    <3>2. <<>> \in Seq(Streams)  OBVIOUS
    <3>. QED  BY <1>6, <3>1, <3>2, OrderIsSeq DEF AddActiveInterruptToSession
  <2>1. todo # <<>> /\ mutex = "call" /\ pc = "ready"
    BY <1>6 DEF AddActiveInterruptToSession, Request
  <2>2. todo' \in Seq(Asked)  BY <2>1, HeadAsked, AddEachAsked, ConcatProperties
  <2>. QED  BY <1>6, <2>1, <2>2 DEF Typed, CallPlaces, AddActiveInterruptToSession
<1>7. ASSUME AudioSessionServiceDeactivate PROVE Typed' /\ CallPlaces'
  <2>. USE <1>7, HeadAsked DEF Typed, CallPlaces, AudioSessionServiceDeactivate, Request
  <2>1. CASE ThePid \in active /\ EndSession  BY <2>1 DEF EndSession
  <2>2. CASE /\ ThePid \notin active /\ ServiceFree /\ todo' = <<>>
             /\ UNCHANGED <<pc, active, interruptMap>>
    BY <2>2
  <2>. QED  BY <2>1, <2>2
<1>8. ASSUME HandleLowPriorityEvent PROVE Typed' /\ CallPlaces'
  BY <1>8, HeadAsked DEF Typed, CallPlaces, HandleLowPriorityEvent, Request, EndSession
<1>9. ASSUME RemovePlaceholderInterruptForSession PROVE Typed' /\ CallPlaces'
  BY <1>9, HeadAsked DEF Typed, CallPlaces, RemovePlaceholderInterruptForSession,
      Request, WithoutPlaceholder, Resumed
<1>10. ASSUME GetAudioSessionByPid PROVE Typed' /\ CallPlaces'
  BY <1>10, HeadAsked DEF Typed, CallPlaces, GetAudioSessionByPid, Request
<1>11. ASSUME AddAudioInterrpt PROVE Typed' /\ CallPlaces'
  BY <1>11, HeadAsked DEF Typed, CallPlaces, AddAudioInterrpt, Request
<1>12. ASSUME RemoveAudioInterrptByStreamId PROVE Typed' /\ CallPlaces'
  BY <1>12, HeadAsked DEF Typed, CallPlaces, RemoveAudioInterrptByStreamId, Request
<1>13. ASSUME LeaveFocus PROVE Typed' /\ CallPlaces'
  BY <1>13, HeadAsked DEF Typed, CallPlaces, LeaveFocus, Request, Resumed
<1>14. ASSUME IsSessionTimerRunning PROVE Typed' /\ CallPlaces'
  BY <1>14, HeadAsked DEF Typed, CallPlaces, IsSessionTimerRunning
<1>15. ASSUME StartTimer PROVE Typed' /\ CallPlaces'
  BY <1>15, HeadAsked DEF Typed, CallPlaces, StartTimer, MustJoin
<1>16. ASSUME StopTimer PROVE Typed' /\ CallPlaces'
  BY <1>16, HeadAsked DEF Typed, CallPlaces, StopTimer, MustJoin
<1>17. ASSUME Join PROVE Typed' /\ CallPlaces'
  BY <1>17, HeadAsked DEF Typed, CallPlaces, Join
<1>18. ASSUME Finish PROVE Typed' /\ CallPlaces'
  BY <1>18 DEF Typed, CallPlaces, Finish
<1>19. ASSUME LoopBegin PROVE Typed' /\ CallPlaces'
  BY <1>19 DEF Typed, CallPlaces, LoopBegin
<1>20. ASSUME LoopRound PROVE Typed' /\ CallPlaces'
  BY <1>20 DEF Typed, CallPlaces, LoopRound
<1>21. ASSUME LoopTimeOut PROVE Typed' /\ CallPlaces'
  BY <1>21 DEF Typed, CallPlaces, LoopTimeOut
<1>22. ASSUME LoopDeactivate PROVE Typed' /\ CallPlaces'
  BY <1>22 DEF Typed, CallPlaces, LoopDeactivate
<1>23. ASSUME LoopCallback PROVE Typed' /\ CallPlaces'
  <2>1. focus' \in [Streams -> {"out", "in", "placeholder"}]
    BY <1>23 DEF LoopCallback, WithoutPlaceholder, Resumed, Typed
  <2>. QED  BY <1>23, <2>1 DEF Typed, CallPlaces, LoopCallback
<1>24. ASSUME LoopSleep PROVE Typed' /\ CallPlaces'
  BY <1>24 DEF Typed, CallPlaces, LoopSleep
<1>25. ASSUME LoopWake PROVE Typed' /\ CallPlaces'
  BY <1>25 DEF Typed, CallPlaces, LoopWake
<1>26. ASSUME LoopExit PROVE Typed' /\ CallPlaces'
  BY <1>26 DEF Typed, CallPlaces, LoopExit
<1>27. ASSUME NEW p \in Pids, Minute(p) PROVE Typed' /\ CallPlaces'
  BY <1>27 DEF Typed, CallPlaces, Minute
<1>. QED
  BY <1>0, <1>1, <1>2, <1>3, <1>4, <1>5, <1>6, <1>7, <1>8, <1>9, <1>10, <1>11, <1>12,
      <1>13, <1>14, <1>15, <1>16, <1>17, <1>18, <1>19, <1>20, <1>21, <1>22, <1>23, <1>24,
      <1>25, <1>26, <1>27
  DEF Next, Application, Call, TimerLoop

(* Every variable keeps its type, whatever the calls ask for.              *)
THEOREM TypeCorrect == Spec => []TypeOK
<1>1. Typed => TypeOK
  <2>1. ASSUME Typed, NEW i \in DOMAIN todo PROVE todo[i].do \in Requests /\ todo[i].pid \in Pids
    <3>1. todo[i] \in Asked  BY <2>1, ElementOfSeq, LenProperties DEF Typed
    <3>. QED  BY <3>1 DEF Asked, OfProcess, OfStream, Requests
  <2>. QED  BY <2>1 DEF Typed, TypeOK
<1>. QED  BY <1>1, InitTyped, NextTyped, PTL DEF Spec

-----------------------------------------------------------------------------
(* The locks: who holds one is at a place that says so.                    *)
Scanning == {"scan", "deactivate", "callback"}

Locks ==
    /\ serviceMutex = "call" <=> /\ pc \in {"start", "stop", "joinToStart", "joinToStop"}
                                 /\ Head(todo).do \in {"activate", "deactivate", "lowPriority"}
    /\ serviceMutex = "loop" <=> loop = "deactivate"
    /\ timerMutex = "loop" <=> loop \in Scanning

(* What the thread has found to be old stays so until it erases it.        *)
DueOld ==
    /\ loop \in Scanning => \A p \in due : timer[p] = "old"
    /\ loop \in {"deactivate", "callback"} => due # {}

(* The session of p has timed out and its timer is still there; only an    *)
(* activation that waits for the timer may have brought it back.           *)
Ended(p) == loop = "callback" /\ TheDue = p

EndedInactive ==
    /\ \A p \in Pids : p \notin active => interruptMap[p] = {}
    /\ loop = "callback" =>
          \/ TheDue \notin active
          \/ pc = "start" /\ ThePid = TheDue /\ Head(todo).do = "activate"

(* What a call at work relies on from one of its places to the next.       *)
Empty(p) == p \in active /\ interruptMap[p] = {}

CallKeeps ==
    /\ pc = "session" => ThePid \in active \/ Ended(ThePid)
    /\ pc = "isRunning" /\ Head(todo).do = "add" =>
          \/ ThePid \in active /\ interruptMap[ThePid] # {}
          \/ Ended(ThePid)
    /\ pc \in {"isRunning", "start"} /\ Head(todo).do = "remove" =>
          Empty(ThePid) /\ timer[ThePid] = "none"
    /\ pc = "start" => Empty(ThePid)
    /\ pc = "stop" => ~Empty(ThePid)

(* Timers and sessions match, except where someone is about to see to it.  *)
Matching ==
    \A p \in Pids : \/ timer[p] # "none" <=> Empty(p)
                    \/ pc \in {"isRunning", "start", "stop"} /\ ThePid = p
                    \/ Ended(p)

Safe == Typed /\ CallPlaces /\ Locks /\ DueOld /\ EndedInactive /\ CallKeeps /\ Matching

LEMMA DueStays == due' = due => TheDue' = TheDue
BY DEF TheDue

LEMMA TheDueIsDue == due # {} => TheDue \in due
BY DEF TheDue

LEMMA InitSafe == Init => Safe
<1>. SUFFICES ASSUME Init PROVE Safe  OBVIOUS
<1>. USE DEF Init
<1>1. Typed /\ CallPlaces  BY InitTyped
<1>2. Locks  BY DEF Locks, Scanning
<1>3. DueOld  BY DEF DueOld, Scanning
<1>4. EndedInactive  BY DEF EndedInactive
<1>5. CallKeeps  BY DEF CallKeeps
<1>6. Matching  BY DEF Matching, Empty
<1>. QED  BY <1>1, <1>2, <1>3, <1>4, <1>5, <1>6 DEF Safe

LEMMA NextLocks == Safe /\ [Next]_vars => Locks'
<1>. SUFFICES ASSUME Safe, [Next]_vars PROVE Locks'  OBVIOUS
<1>. USE DEF Safe, Locks, Typed, CallPlaces, call, sessions, timers, thread, Done, Goto,
             Answered, ServiceFree, HoldService, TimerFree, AtTimer, ThePid, Scanning
<1>0. CASE UNCHANGED vars  BY <1>0, DueStays DEF vars
<1>1. ASSUME NEW p \in Pids, ActivateAudioSession(p) PROVE Locks'
  BY <1>1, DueStays DEF ActivateAudioSession, Begin, Ask
<1>2. ASSUME NEW p \in Pids, DeactivateAudioSession(p) PROVE Locks'
  BY <1>2, DueStays DEF DeactivateAudioSession, Begin, Ask
<1>3. ASSUME NEW s \in Streams, ActivateAudioInterrupt(s) PROVE Locks'
  <2>1. PICK requests \in Seq(Asked) : Begin(requests)  BY <1>3, InterruptBegins
  <2>. QED  BY <2>1, DueStays DEF Begin
<1>4. ASSUME NEW s \in Streams, DeactivateAudioInterrupt(s) PROVE Locks'
  BY <1>4, DueStays DEF DeactivateAudioInterrupt, Begin, AskOf
<1>5. ASSUME AudioSessionServiceActivate PROVE Locks'
  BY <1>5, HeadAsked, DueStays DEF AudioSessionServiceActivate, Request
<1>6. ASSUME AddActiveInterruptToSession PROVE Locks'
  BY <1>6, HeadAsked, DueStays DEF AddActiveInterruptToSession, Request
<1>7. ASSUME AudioSessionServiceDeactivate PROVE Locks'
  BY <1>7, HeadAsked, DueStays DEF AudioSessionServiceDeactivate, Request, EndSession
<1>8. ASSUME HandleLowPriorityEvent PROVE Locks'
  BY <1>8, HeadAsked, DueStays DEF HandleLowPriorityEvent, Request, EndSession
<1>9. ASSUME RemovePlaceholderInterruptForSession PROVE Locks'
  BY <1>9, HeadAsked, DueStays DEF RemovePlaceholderInterruptForSession, Request,
      WithoutPlaceholder
<1>10. ASSUME GetAudioSessionByPid PROVE Locks'
  BY <1>10, HeadAsked, DueStays DEF GetAudioSessionByPid, Request
<1>11. ASSUME AddAudioInterrpt PROVE Locks'
  BY <1>11, HeadAsked, DueStays DEF AddAudioInterrpt, Request
<1>12. ASSUME RemoveAudioInterrptByStreamId PROVE Locks'
  BY <1>12, HeadAsked, DueStays DEF RemoveAudioInterrptByStreamId, Request
<1>13. ASSUME LeaveFocus PROVE Locks'
  BY <1>13, HeadAsked, DueStays DEF LeaveFocus, Request
<1>14. ASSUME IsSessionTimerRunning PROVE Locks'
  BY <1>14, HeadAsked, DueStays DEF IsSessionTimerRunning
<1>15. ASSUME StartTimer PROVE Locks'
  BY <1>15, HeadAsked, DueStays DEF StartTimer, MustJoin
<1>16. ASSUME StopTimer PROVE Locks'
  BY <1>16, HeadAsked, DueStays DEF StopTimer, MustJoin
<1>17. ASSUME Join PROVE Locks'
  BY <1>17, DueStays DEF Join
<1>18. ASSUME Finish PROVE Locks'
  BY <1>18, DueStays DEF Finish
<1>19. ASSUME LoopBegin PROVE Locks'
  BY <1>19, DueStays DEF LoopBegin
<1>20. ASSUME LoopRound PROVE Locks'
  BY <1>20 DEF LoopRound
<1>21. ASSUME LoopTimeOut PROVE Locks'
  BY <1>21, DueStays, TheDueIsDue DEF LoopTimeOut
<1>22. ASSUME LoopDeactivate PROVE Locks'
  BY <1>22, DueStays, TheDueIsDue DEF LoopDeactivate, SessionMutexHeld
<1>23. ASSUME LoopCallback PROVE Locks'
  BY <1>23, DueStays, TheDueIsDue DEF LoopCallback, WithoutPlaceholder
<1>24. ASSUME LoopSleep PROVE Locks'
  BY <1>24, DueStays DEF LoopSleep
<1>25. ASSUME LoopWake PROVE Locks'
  BY <1>25, DueStays DEF LoopWake
<1>26. ASSUME LoopExit PROVE Locks'
  BY <1>26, DueStays DEF LoopExit
<1>27. ASSUME NEW p \in Pids, Minute(p) PROVE Locks'
  BY <1>27, DueStays DEF Minute
<1>. QED
  BY <1>0, <1>1, <1>2, <1>3, <1>4, <1>5, <1>6, <1>7, <1>8, <1>9, <1>10, <1>11, <1>12,
      <1>13, <1>14, <1>15, <1>16, <1>17, <1>18, <1>19, <1>20, <1>21, <1>22, <1>23, <1>24,
      <1>25, <1>26, <1>27
  DEF Next, Application, Call, TimerLoop

LEMMA NextDueOld == Safe /\ [Next]_vars => DueOld'
<1>. SUFFICES ASSUME Safe, [Next]_vars PROVE DueOld'  OBVIOUS
<1>. USE DEF Safe, DueOld, Typed, CallPlaces, call, sessions, timers, thread, Done, Goto,
             Answered, ServiceFree, HoldService, TimerFree, AtTimer, ThePid, Scanning,
             Locks
<1>0. CASE UNCHANGED vars  BY <1>0, DueStays DEF vars
<1>1. ASSUME NEW p \in Pids, ActivateAudioSession(p) PROVE DueOld'
  BY <1>1, DueStays DEF ActivateAudioSession, Begin, Ask
<1>2. ASSUME NEW p \in Pids, DeactivateAudioSession(p) PROVE DueOld'
  BY <1>2, DueStays DEF DeactivateAudioSession, Begin, Ask
<1>3. ASSUME NEW s \in Streams, ActivateAudioInterrupt(s) PROVE DueOld'
  <2>1. PICK requests \in Seq(Asked) : Begin(requests)  BY <1>3, InterruptBegins
  <2>. QED  BY <2>1, DueStays DEF Begin
<1>4. ASSUME NEW s \in Streams, DeactivateAudioInterrupt(s) PROVE DueOld'
  BY <1>4, DueStays DEF DeactivateAudioInterrupt, Begin, AskOf
<1>5. ASSUME AudioSessionServiceActivate PROVE DueOld'
  BY <1>5, HeadAsked, DueStays DEF AudioSessionServiceActivate, Request
<1>6. ASSUME AddActiveInterruptToSession PROVE DueOld'
  BY <1>6, HeadAsked, DueStays DEF AddActiveInterruptToSession, Request
<1>7. ASSUME AudioSessionServiceDeactivate PROVE DueOld'
  BY <1>7, HeadAsked, DueStays DEF AudioSessionServiceDeactivate, Request, EndSession
<1>8. ASSUME HandleLowPriorityEvent PROVE DueOld'
  BY <1>8, HeadAsked, DueStays DEF HandleLowPriorityEvent, Request, EndSession
<1>9. ASSUME RemovePlaceholderInterruptForSession PROVE DueOld'
  BY <1>9, HeadAsked, DueStays DEF RemovePlaceholderInterruptForSession, Request,
      WithoutPlaceholder
<1>10. ASSUME GetAudioSessionByPid PROVE DueOld'
  BY <1>10, HeadAsked, DueStays DEF GetAudioSessionByPid, Request
<1>11. ASSUME AddAudioInterrpt PROVE DueOld'
  BY <1>11, HeadAsked, DueStays DEF AddAudioInterrpt, Request
<1>12. ASSUME RemoveAudioInterrptByStreamId PROVE DueOld'
  BY <1>12, HeadAsked, DueStays DEF RemoveAudioInterrptByStreamId, Request
<1>13. ASSUME LeaveFocus PROVE DueOld'
  BY <1>13, HeadAsked, DueStays DEF LeaveFocus, Request
<1>14. ASSUME IsSessionTimerRunning PROVE DueOld'
  BY <1>14, HeadAsked, DueStays DEF IsSessionTimerRunning
<1>15. ASSUME StartTimer PROVE DueOld'
  BY <1>15, HeadAsked, DueStays DEF StartTimer, MustJoin
<1>16. ASSUME StopTimer PROVE DueOld'
  BY <1>16, HeadAsked, DueStays DEF StopTimer, MustJoin
<1>17. ASSUME Join PROVE DueOld'
  BY <1>17, DueStays DEF Join
<1>18. ASSUME Finish PROVE DueOld'
  BY <1>18, DueStays DEF Finish
<1>19. ASSUME LoopBegin PROVE DueOld'
  BY <1>19, DueStays DEF LoopBegin
<1>20. ASSUME LoopRound PROVE DueOld'
  BY <1>20 DEF LoopRound
<1>21. ASSUME LoopTimeOut PROVE DueOld'
  BY <1>21, DueStays, TheDueIsDue DEF LoopTimeOut
<1>22. ASSUME LoopDeactivate PROVE DueOld'
  BY <1>22, DueStays, TheDueIsDue DEF LoopDeactivate, SessionMutexHeld
<1>23. ASSUME LoopCallback PROVE DueOld'
  BY <1>23, DueStays, TheDueIsDue DEF LoopCallback, WithoutPlaceholder
<1>24. ASSUME LoopSleep PROVE DueOld'
  BY <1>24, DueStays DEF LoopSleep
<1>25. ASSUME LoopWake PROVE DueOld'
  BY <1>25, DueStays DEF LoopWake
<1>26. ASSUME LoopExit PROVE DueOld'
  BY <1>26, DueStays DEF LoopExit
<1>27. ASSUME NEW p \in Pids, Minute(p) PROVE DueOld'
  BY <1>27, DueStays DEF Minute
<1>. QED
  BY <1>0, <1>1, <1>2, <1>3, <1>4, <1>5, <1>6, <1>7, <1>8, <1>9, <1>10, <1>11, <1>12,
      <1>13, <1>14, <1>15, <1>16, <1>17, <1>18, <1>19, <1>20, <1>21, <1>22, <1>23, <1>24,
      <1>25, <1>26, <1>27
  DEF Next, Application, Call, TimerLoop

LEMMA NextEndedInactive == Safe /\ [Next]_vars => EndedInactive'
<1>. SUFFICES ASSUME Safe, [Next]_vars PROVE EndedInactive'  OBVIOUS
<1>. USE DEF Safe, EndedInactive, Typed, CallPlaces, call, sessions, timers, thread, Done,
             Goto, Answered, ServiceFree, HoldService, TimerFree, AtTimer, ThePid, Ended,
             Locks, Scanning, DueOld
<1>0. CASE UNCHANGED vars  BY <1>0, DueStays DEF vars
<1>1. ASSUME NEW p \in Pids, ActivateAudioSession(p) PROVE EndedInactive'
  BY <1>1, DueStays DEF ActivateAudioSession, Begin, Ask
<1>2. ASSUME NEW p \in Pids, DeactivateAudioSession(p) PROVE EndedInactive'
  BY <1>2, DueStays DEF DeactivateAudioSession, Begin, Ask
<1>3. ASSUME NEW s \in Streams, ActivateAudioInterrupt(s) PROVE EndedInactive'
  <2>1. PICK requests \in Seq(Asked) : Begin(requests)  BY <1>3, InterruptBegins
  <2>. QED  BY <2>1, DueStays DEF Begin
<1>4. ASSUME NEW s \in Streams, DeactivateAudioInterrupt(s) PROVE EndedInactive'
  BY <1>4, DueStays DEF DeactivateAudioInterrupt, Begin, AskOf
<1>5. ASSUME AudioSessionServiceActivate PROVE EndedInactive'
  BY <1>5, HeadAsked, DueStays DEF AudioSessionServiceActivate, Request
<1>6. ASSUME AddActiveInterruptToSession PROVE EndedInactive'
  BY <1>6, HeadAsked, DueStays DEF AddActiveInterruptToSession, Request
<1>7. ASSUME AudioSessionServiceDeactivate PROVE EndedInactive'
  BY <1>7, HeadAsked, DueStays DEF AudioSessionServiceDeactivate, Request, EndSession
<1>8. ASSUME HandleLowPriorityEvent PROVE EndedInactive'
  BY <1>8, HeadAsked, DueStays DEF HandleLowPriorityEvent, Request, EndSession
<1>9. ASSUME RemovePlaceholderInterruptForSession PROVE EndedInactive'
  BY <1>9, HeadAsked, DueStays DEF RemovePlaceholderInterruptForSession, Request,
      WithoutPlaceholder
<1>10. ASSUME GetAudioSessionByPid PROVE EndedInactive'
  BY <1>10, HeadAsked, DueStays DEF GetAudioSessionByPid, Request
<1>11. ASSUME AddAudioInterrpt PROVE EndedInactive'
  BY <1>11, HeadAsked, DueStays DEF AddAudioInterrpt, Request
<1>12. ASSUME RemoveAudioInterrptByStreamId PROVE EndedInactive'
  BY <1>12, HeadAsked, DueStays DEF RemoveAudioInterrptByStreamId, Request
<1>13. ASSUME LeaveFocus PROVE EndedInactive'
  BY <1>13, HeadAsked, DueStays DEF LeaveFocus, Request
<1>14. ASSUME IsSessionTimerRunning PROVE EndedInactive'
  BY <1>14, HeadAsked, DueStays DEF IsSessionTimerRunning
<1>15. ASSUME StartTimer PROVE EndedInactive'
  BY <1>15, HeadAsked, DueStays DEF StartTimer, MustJoin
<1>16. ASSUME StopTimer PROVE EndedInactive'
  BY <1>16, HeadAsked, DueStays DEF StopTimer, MustJoin
<1>17. ASSUME Join PROVE EndedInactive'
  BY <1>17, DueStays DEF Join
<1>18. ASSUME Finish PROVE EndedInactive'
  BY <1>18, DueStays DEF Finish
<1>19. ASSUME LoopBegin PROVE EndedInactive'
  BY <1>19, DueStays DEF LoopBegin
<1>20. ASSUME LoopRound PROVE EndedInactive'
  BY <1>20 DEF LoopRound
<1>21. ASSUME LoopTimeOut PROVE EndedInactive'
  BY <1>21, DueStays, TheDueIsDue DEF LoopTimeOut
<1>22. ASSUME LoopDeactivate PROVE EndedInactive'
  BY <1>22, DueStays, TheDueIsDue DEF LoopDeactivate, SessionMutexHeld
<1>23. ASSUME LoopCallback PROVE EndedInactive'
  BY <1>23, DueStays, TheDueIsDue DEF LoopCallback, WithoutPlaceholder
<1>24. ASSUME LoopSleep PROVE EndedInactive'
  BY <1>24, DueStays DEF LoopSleep
<1>25. ASSUME LoopWake PROVE EndedInactive'
  BY <1>25, DueStays DEF LoopWake
<1>26. ASSUME LoopExit PROVE EndedInactive'
  BY <1>26, DueStays DEF LoopExit
<1>27. ASSUME NEW p \in Pids, Minute(p) PROVE EndedInactive'
  BY <1>27, DueStays DEF Minute
<1>. QED
  BY <1>0, <1>1, <1>2, <1>3, <1>4, <1>5, <1>6, <1>7, <1>8, <1>9, <1>10, <1>11, <1>12,
      <1>13, <1>14, <1>15, <1>16, <1>17, <1>18, <1>19, <1>20, <1>21, <1>22, <1>23, <1>24,
      <1>25, <1>26, <1>27
  DEF Next, Application, Call, TimerLoop

LEMMA NextCallKeeps == Safe /\ [Next]_vars => CallKeeps'
<1>. SUFFICES ASSUME Safe, [Next]_vars PROVE CallKeeps'  OBVIOUS
<1>. USE DEF Safe, CallKeeps, Typed, CallPlaces, call, sessions, timers, thread, Done,
             Goto, Answered, ServiceFree, HoldService, TimerFree, AtTimer, ThePid, Ended,
             Empty, Locks, Scanning, DueOld, EndedInactive
<1>0. CASE UNCHANGED vars  BY <1>0, DueStays DEF vars
<1>1. ASSUME NEW p \in Pids, ActivateAudioSession(p) PROVE CallKeeps'
  BY <1>1, DueStays DEF ActivateAudioSession, Begin, Ask
<1>2. ASSUME NEW p \in Pids, DeactivateAudioSession(p) PROVE CallKeeps'
  BY <1>2, DueStays DEF DeactivateAudioSession, Begin, Ask
<1>3. ASSUME NEW s \in Streams, ActivateAudioInterrupt(s) PROVE CallKeeps'
  <2>1. PICK requests \in Seq(Asked) : Begin(requests)  BY <1>3, InterruptBegins
  <2>. QED  BY <2>1, DueStays DEF Begin
<1>4. ASSUME NEW s \in Streams, DeactivateAudioInterrupt(s) PROVE CallKeeps'
  BY <1>4, DueStays DEF DeactivateAudioInterrupt, Begin, AskOf
<1>5. ASSUME AudioSessionServiceActivate PROVE CallKeeps'
  BY <1>5, HeadAsked, DueStays DEF AudioSessionServiceActivate, Request
<1>6. ASSUME AddActiveInterruptToSession PROVE CallKeeps'
  BY <1>6, HeadAsked, DueStays DEF AddActiveInterruptToSession, Request
<1>7. ASSUME AudioSessionServiceDeactivate PROVE CallKeeps'
  BY <1>7, HeadAsked, DueStays DEF AudioSessionServiceDeactivate, Request, EndSession
<1>8. ASSUME HandleLowPriorityEvent PROVE CallKeeps'
  BY <1>8, HeadAsked, DueStays DEF HandleLowPriorityEvent, Request, EndSession
<1>9. ASSUME RemovePlaceholderInterruptForSession PROVE CallKeeps'
  BY <1>9, HeadAsked, DueStays DEF RemovePlaceholderInterruptForSession, Request,
      WithoutPlaceholder
<1>10. ASSUME GetAudioSessionByPid PROVE CallKeeps'
  BY <1>10, HeadAsked, DueStays DEF GetAudioSessionByPid, Request
<1>11. ASSUME AddAudioInterrpt PROVE CallKeeps'
  BY <1>11, HeadAsked, DueStays DEF AddAudioInterrpt, Request
<1>12. ASSUME RemoveAudioInterrptByStreamId PROVE CallKeeps'
  BY <1>12, HeadAsked, DueStays DEF RemoveAudioInterrptByStreamId, Request, Matching
<1>13. ASSUME LeaveFocus PROVE CallKeeps'
  BY <1>13, HeadAsked, DueStays DEF LeaveFocus, Request
<1>14. ASSUME IsSessionTimerRunning PROVE CallKeeps'
  BY <1>14, HeadAsked, DueStays DEF IsSessionTimerRunning
<1>15. ASSUME StartTimer PROVE CallKeeps'
  BY <1>15, HeadAsked, DueStays DEF StartTimer, MustJoin
<1>16. ASSUME StopTimer PROVE CallKeeps'
  BY <1>16, HeadAsked, DueStays DEF StopTimer, MustJoin
<1>17. ASSUME Join PROVE CallKeeps'
  BY <1>17, DueStays DEF Join
<1>18. ASSUME Finish PROVE CallKeeps'
  BY <1>18, DueStays DEF Finish
<1>19. ASSUME LoopBegin PROVE CallKeeps'
  BY <1>19, DueStays DEF LoopBegin
<1>20. ASSUME LoopRound PROVE CallKeeps'
  BY <1>20 DEF LoopRound
<1>21. ASSUME LoopTimeOut PROVE CallKeeps'
  BY <1>21, DueStays, TheDueIsDue DEF LoopTimeOut
<1>22. ASSUME LoopDeactivate PROVE CallKeeps'
  BY <1>22, DueStays, TheDueIsDue DEF LoopDeactivate, SessionMutexHeld
<1>23. ASSUME LoopCallback PROVE CallKeeps'
  BY <1>23, DueStays, TheDueIsDue DEF LoopCallback, WithoutPlaceholder
<1>24. ASSUME LoopSleep PROVE CallKeeps'
  BY <1>24, DueStays DEF LoopSleep
<1>25. ASSUME LoopWake PROVE CallKeeps'
  BY <1>25, DueStays DEF LoopWake
<1>26. ASSUME LoopExit PROVE CallKeeps'
  BY <1>26, DueStays DEF LoopExit
<1>27. ASSUME NEW p \in Pids, Minute(p) PROVE CallKeeps'
  BY <1>27, DueStays DEF Minute
<1>. QED
  BY <1>0, <1>1, <1>2, <1>3, <1>4, <1>5, <1>6, <1>7, <1>8, <1>9, <1>10, <1>11, <1>12,
      <1>13, <1>14, <1>15, <1>16, <1>17, <1>18, <1>19, <1>20, <1>21, <1>22, <1>23, <1>24,
      <1>25, <1>26, <1>27
  DEF Next, Application, Call, TimerLoop

LEMMA NextMatching == Safe /\ [Next]_vars => Matching'
<1>. SUFFICES ASSUME Safe, [Next]_vars PROVE Matching'  OBVIOUS
<1>. USE DEF Safe, Matching, Typed, CallPlaces, call, sessions, timers, thread, Done,
             Goto, Answered, ServiceFree, HoldService, TimerFree, AtTimer, ThePid, Ended,
             Empty, Locks, Scanning, DueOld, EndedInactive, CallKeeps
<1>0. CASE UNCHANGED vars  BY <1>0, DueStays DEF vars
<1>1. ASSUME NEW p \in Pids, ActivateAudioSession(p) PROVE Matching'
  BY <1>1, DueStays DEF ActivateAudioSession, Begin, Ask
<1>2. ASSUME NEW p \in Pids, DeactivateAudioSession(p) PROVE Matching'
  BY <1>2, DueStays DEF DeactivateAudioSession, Begin, Ask
<1>3. ASSUME NEW s \in Streams, ActivateAudioInterrupt(s) PROVE Matching'
  <2>1. PICK requests \in Seq(Asked) : Begin(requests)  BY <1>3, InterruptBegins
  <2>. QED  BY <2>1, DueStays DEF Begin
<1>4. ASSUME NEW s \in Streams, DeactivateAudioInterrupt(s) PROVE Matching'
  BY <1>4, DueStays DEF DeactivateAudioInterrupt, Begin, AskOf
<1>5. ASSUME AudioSessionServiceActivate PROVE Matching'
  BY <1>5, HeadAsked, DueStays DEF AudioSessionServiceActivate, Request
<1>6. ASSUME AddActiveInterruptToSession PROVE Matching'
  BY <1>6, HeadAsked, DueStays DEF AddActiveInterruptToSession, Request
<1>7. ASSUME AudioSessionServiceDeactivate PROVE Matching'
  BY <1>7, HeadAsked, DueStays DEF AudioSessionServiceDeactivate, Request, EndSession
<1>8. ASSUME HandleLowPriorityEvent PROVE Matching'
  BY <1>8, HeadAsked, DueStays DEF HandleLowPriorityEvent, Request, EndSession
<1>9. ASSUME RemovePlaceholderInterruptForSession PROVE Matching'
  BY <1>9, HeadAsked, DueStays DEF RemovePlaceholderInterruptForSession, Request,
      WithoutPlaceholder
<1>10. ASSUME GetAudioSessionByPid PROVE Matching'
  BY <1>10, HeadAsked, DueStays DEF GetAudioSessionByPid, Request
<1>11. ASSUME AddAudioInterrpt PROVE Matching'
  BY <1>11, HeadAsked, DueStays DEF AddAudioInterrpt, Request
<1>12. ASSUME RemoveAudioInterrptByStreamId PROVE Matching'
  BY <1>12, HeadAsked, DueStays DEF RemoveAudioInterrptByStreamId, Request
<1>13. ASSUME LeaveFocus PROVE Matching'
  BY <1>13, HeadAsked, DueStays DEF LeaveFocus, Request
<1>14. ASSUME IsSessionTimerRunning PROVE Matching'
  BY <1>14, HeadAsked, DueStays DEF IsSessionTimerRunning
<1>15. ASSUME StartTimer PROVE Matching'
  BY <1>15, HeadAsked, DueStays DEF StartTimer, MustJoin
<1>16. ASSUME StopTimer PROVE Matching'
  BY <1>16, HeadAsked, DueStays DEF StopTimer, MustJoin
<1>17. ASSUME Join PROVE Matching'
  BY <1>17, DueStays DEF Join
<1>18. ASSUME Finish PROVE Matching'
  BY <1>18, DueStays DEF Finish
<1>19. ASSUME LoopBegin PROVE Matching'
  BY <1>19, DueStays DEF LoopBegin
<1>20. ASSUME LoopRound PROVE Matching'
  BY <1>20 DEF LoopRound
<1>21. ASSUME LoopTimeOut PROVE Matching'
  BY <1>21, DueStays, TheDueIsDue DEF LoopTimeOut
<1>22. ASSUME LoopDeactivate PROVE Matching'
  BY <1>22, DueStays, TheDueIsDue DEF LoopDeactivate, SessionMutexHeld
<1>23. ASSUME LoopCallback PROVE Matching'
  BY <1>23, DueStays, TheDueIsDue DEF LoopCallback, WithoutPlaceholder
<1>24. ASSUME LoopSleep PROVE Matching'
  BY <1>24, DueStays DEF LoopSleep
<1>25. ASSUME LoopWake PROVE Matching'
  BY <1>25, DueStays DEF LoopWake
<1>26. ASSUME LoopExit PROVE Matching'
  BY <1>26, DueStays DEF LoopExit
<1>27. ASSUME NEW p \in Pids, Minute(p) PROVE Matching'
  BY <1>27, DueStays DEF Minute
<1>. QED
  BY <1>0, <1>1, <1>2, <1>3, <1>4, <1>5, <1>6, <1>7, <1>8, <1>9, <1>10, <1>11, <1>12,
      <1>13, <1>14, <1>15, <1>16, <1>17, <1>18, <1>19, <1>20, <1>21, <1>22, <1>23, <1>24,
      <1>25, <1>26, <1>27
  DEF Next, Application, Call, TimerLoop

LEMMA Safety == Spec => []Safe
<1>1. Safe /\ [Next]_vars => Typed' /\ CallPlaces'  BY NextTyped DEF Safe
<1>2. Safe /\ [Next]_vars => Safe'
  BY <1>1, NextLocks, NextDueOld, NextEndedInactive, NextCallKeeps, NextMatching DEF Safe
<1>. QED  BY InitSafe, <1>2, PTL DEF Spec

(* A timer runs for exactly the sessions that are empty, whenever no call  *)
(* and no round of the timer's thread is under way.                        *)
THEOREM SessionsHaveTheirTimers == Spec => []TimersMatchSessions
<1>1. Safe => TimersMatchSessions
  BY DEF Safe, TimersMatchSessions, Quiet, Typed, CallPlaces, Locks, Scanning, Matching, Empty,
         Ended
<1>. QED  BY <1>1, Safety, PTL

(* The timer's thread never ends a session that has a stream, not even one *)
(* that got it after the thread had found its timer to be old.             *)
THEOREM NoStreamIsTimedOut == Spec => OnlyEmptySessionsTimeOut
<1>1. Safe /\ [Next]_vars =>
        [loop = "deactivate" /\ loop' = "callback" => interruptMap[TheDue] = {}]_vars
  <2>. SUFFICES ASSUME Safe, Next, loop = "deactivate", loop' = "callback"
                PROVE  interruptMap[TheDue] = {}
    OBVIOUS
  <2>1. ~SessionMutexHeld(TheDue)
    <3>. USE DEF thread
    <3>1. CASE Application
      <4>1. \A s \in Streams : ActivateAudioInterrupt(s) => UNCHANGED thread
        BY InterruptBegins DEF Begin
      <4>. QED  BY <3>1, <4>1 DEF Application, ActivateAudioSession, DeactivateAudioSession,
                                  DeactivateAudioInterrupt, Begin
    <3>2. CASE Call
      BY <3>2 DEF Call, AudioSessionServiceActivate, AddActiveInterruptToSession,
                  AudioSessionServiceDeactivate, HandleLowPriorityEvent,
                  RemovePlaceholderInterruptForSession, GetAudioSessionByPid, AddAudioInterrpt,
                  RemoveAudioInterrptByStreamId, LeaveFocus, IsSessionTimerRunning, StartTimer,
                  StopTimer, Join, Finish
    <3>3. CASE TimerLoop
      BY <3>3 DEF TimerLoop, LoopBegin, LoopRound, LoopTimeOut, LoopDeactivate, LoopCallback,
                  LoopSleep, LoopWake, LoopExit
    <3>4. CASE \E p \in Pids : Minute(p)  BY <3>4 DEF Minute
    <3>. QED  BY <3>1, <3>2, <3>3, <3>4 DEF Next
  <2>2. TheDue \in Pids /\ timer[TheDue] = "old"
    BY TheDueIsDue DEF Safe, DueOld, Scanning, Typed
  <2>3. \/ Empty(TheDue)
        \/ pc \in {"isRunning", "start", "stop"} /\ ThePid = TheDue
    BY <2>2 DEF Safe, Matching, Ended
  <2>4. CASE pc \in {"isRunning", "start", "stop"} /\ ThePid = TheDue
    <3>1. /\ mutex = "call" /\ todo # <<>>
          /\ Head(todo).do \in {"activate", "deactivate", "lowPriority", "add", "remove"}
      BY <2>4 DEF Safe, CallPlaces
    <3>2. Head(todo).do \in {"add", "remove"}
      BY <2>4, <3>1 DEF Safe, Locks, Typed, CallPlaces
    <3>. QED  BY <2>1, <2>4, <3>1, <3>2 DEF SessionMutexHeld
  <2>. QED  BY <2>3, <2>4 DEF Empty
<1>. QED  BY <1>1, Safety, PTL DEF Spec, OnlyEmptySessionsTimeOut

=============================================================================
