----------------------- MODULE RendererStream_proofs ------------------------
(***************************************************************************)
(* Proofs of the safety of RendererStream, for every mode: any calls may   *)
(* time out, any number of operations and notifications may be under way,  *)
(* with stand-by or without.                                               *)
(*                                                                         *)
(* Three ideas carry them.  What the client's state_ will be once the      *)
(* notifications on their way are delivered (Tells) is set where the       *)
(* PulseAudio stream is corked or not, in one callback of the mainloop, so *)
(* that delays between server and client do not matter (StreamIsTold).     *)
(* A status_ that is none of IDLE, STARTED, PAUSED and STOPPED has the     *)
(* operation that will leave it still under way (AdmittedIsPending).  And  *)
(* only a store that goes by a status_ that is no more can part status_    *)
(* from what the client is told (StatusIsTold).                            *)
(***************************************************************************)
EXTENDS RendererStream, SequenceTheorems, TLAPS

PaOperations == {"start", "pause", "flush", "stop", "cork"}

-----------------------------------------------------------------------------
(* Queues: what is in one, what was put in last, and what the last         *)
(* notification in one says of the state.                                  *)

Has(q, o) == \E i \in 1..Len(q) : q[i] = o

EndsIn(q, o) == q # <<>> /\ q[Len(q)] = o

Changes == {"start", "pause", "stop"}

LastTold(q, s, x) ==
    \/ /\ \A i \in 1..Len(q) : q[i] \notin Changes
       /\ x = s
    \/ \E i \in 1..Len(q) :
         /\ q[i] \in Changes /\ x = WaitedFor[q[i]]
         /\ \A j \in (i+1)..Len(q) : q[j] \notin Changes

(* state_ is x, or will be once the notifications are delivered. *)
Tells(x) == LastTold(inbox, state, x)

LEMMA HasEmpty == \A x : ~Has(<<>>, x) /\ ~EndsIn(<<>>, x)
BY DEF Has, EndsIn

LEMMA HasAppend ==
    ASSUME NEW S, NEW q \in Seq(S), NEW o \in S
    PROVE  /\ \A x : Has(Append(q, o), x) <=> Has(q, x) \/ x = o
           /\ EndsIn(Append(q, o), o)
<1>. DEFINE r == Append(q, o)
<1>1. /\ r \in Seq(S) /\ Len(r) = Len(q) + 1 /\ Len(q) \in Nat /\ r # <<>>
      /\ \A i \in 1..Len(q) : r[i] = q[i]
      /\ r[Len(q) + 1] = o
  BY AppendProperties, LenProperties
<1>. HIDE DEF r
<1>2. ASSUME NEW x PROVE Has(r, x) <=> Has(q, x) \/ x = o
  <2>1. \A i : i \in 1..Len(r) <=> i \in 1..Len(q) \/ i = Len(q) + 1  BY <1>1
  <2>. QED  BY <1>1, <2>1 DEF Has
<1>3. EndsIn(r, o)  BY <1>1 DEF EndsIn
<1>. QED  BY <1>2, <1>3 DEF r

LEMMA HasTail ==
    ASSUME NEW S, NEW q \in Seq(S), q # <<>>
    PROVE  /\ \A x : Has(q, x) <=> x = Head(q) \/ Has(Tail(q), x)
           /\ \A x : EndsIn(q, x) => EndsIn(Tail(q), x) \/ (Tail(q) = <<>> /\ x = Head(q))
<1>. DEFINE r == Tail(q)
<1>1. /\ r \in Seq(S) /\ Len(r) = Len(q) - 1 /\ Len(q) \in Nat \ {0} /\ Head(q) = q[1]
      /\ \A i \in 1..Len(r) : r[i] = q[i + 1]
  BY HeadTailProperties, EmptySeq, LenProperties
<1>. HIDE DEF r
<1>2. ASSUME NEW x PROVE Has(q, x) <=> x = Head(q) \/ Has(r, x)
  <2>1. ASSUME NEW i \in 1..Len(q), q[i] = x PROVE x = Head(q) \/ Has(r, x)
    <3>1. CASE i = 1  BY <1>1, <2>1, <3>1
    <3>2. CASE i # 1
      <4>1. i - 1 \in 1..Len(r) /\ r[i - 1] = q[i]  BY <1>1, <3>2
      <4>. QED  BY <2>1, <4>1 DEF Has
    <3>. QED  BY <3>1, <3>2
  <2>2. ASSUME x = Head(q) PROVE Has(q, x)  BY <1>1, <2>2 DEF Has
  <2>3. ASSUME NEW i \in 1..Len(r), r[i] = x PROVE Has(q, x)
    <3>1. i + 1 \in 1..Len(q) /\ q[i + 1] = x  BY <1>1, <2>3
    <3>. QED  BY <3>1 DEF Has
  <2>. QED  BY <2>1, <2>2, <2>3 DEF Has
<1>3. ASSUME NEW x, EndsIn(q, x) PROVE EndsIn(r, x) \/ (r = <<>> /\ x = Head(q))
  <2>1. CASE Len(q) = 1  BY <1>1, <1>3, <2>1, EmptySeq DEF EndsIn
  <2>2. CASE Len(q) # 1
    <3>1. Len(r) \in 1..Len(r) /\ r # <<>>  BY <1>1, <2>2, EmptySeq
    <3>. QED  BY <1>1, <1>3, <3>1 DEF EndsIn
  <2>. QED  BY <2>1, <2>2
<1>. QED  BY <1>2, <1>3 DEF r

LEMMA ToldEmpty == \A s, x : LastTold(<<>>, s, x) <=> x = s
BY DEF LastTold

LEMMA ToldAppend ==
    ASSUME NEW S, NEW q \in Seq(S), NEW o \in S, NEW s
    PROVE  \A x : LastTold(Append(q, o), s, x) <=>
                    IF o \in Changes THEN x = WaitedFor[o] ELSE LastTold(q, s, x)
<1>. DEFINE r == Append(q, o)
<1>1. /\ r \in Seq(S) /\ Len(r) = Len(q) + 1 /\ Len(q) \in Nat
      /\ \A i \in 1..Len(q) : r[i] = q[i]
      /\ r[Len(q) + 1] = o
  BY AppendProperties, LenProperties
<1>. HIDE DEF r
<1>2. \A i : i \in 1..Len(r) <=> i \in 1..Len(q) \/ i = Len(q) + 1  BY <1>1
<1>. SUFFICES ASSUME NEW x
              PROVE  LastTold(r, s, x) <=>
                        IF o \in Changes THEN x = WaitedFor[o] ELSE LastTold(q, s, x)
  BY DEF r
<1>3. CASE o \in Changes
  <2>1. Len(r) \in 1..Len(r) /\ r[Len(r)] = o  BY <1>1
  <2>2. ASSUME x = WaitedFor[o] PROVE LastTold(r, s, x)
    <3>1. \A j \in (Len(r) + 1)..Len(r) : r[j] \notin Changes  BY <1>1
    <3>. QED  BY <1>3, <2>1, <2>2, <3>1 DEF LastTold
  <2>3. ASSUME LastTold(r, s, x) PROVE x = WaitedFor[o]
    <3>1. PICK i \in 1..Len(r) : /\ r[i] \in Changes /\ x = WaitedFor[r[i]]
                                 /\ \A j \in (i+1)..Len(r) : r[j] \notin Changes
      BY <1>3, <2>1, <2>3 DEF LastTold
    <3>2. i = Len(r)  BY <1>1, <1>3, <2>1, <3>1
    <3>. QED  BY <2>1, <3>1, <3>2
  <2>. QED  BY <1>3, <2>2, <2>3
<1>4. CASE o \notin Changes
  <2>1. (\A i \in 1..Len(r) : r[i] \notin Changes) <=> \A i \in 1..Len(q) : q[i] \notin Changes
    BY <1>1, <1>2, <1>4
  <2>2. ASSUME NEW i \in 1..Len(q)
        PROVE  (\A j \in (i+1)..Len(r) : r[j] \notin Changes) <=>
                  \A j \in (i+1)..Len(q) : q[j] \notin Changes
    BY <1>1, <1>4
  <2>. QED  BY <1>1, <1>2, <1>4, <2>1, <2>2 DEF LastTold
<1>. QED  BY <1>3, <1>4

LEMMA ToldTail ==
    ASSUME NEW S, NEW q \in Seq(S), q # <<>>, NEW s
    PROVE  \A x : LastTold(Tail(q), IF Head(q) \in Changes THEN WaitedFor[Head(q)] ELSE s, x)
                    <=> LastTold(q, s, x)
<1>. DEFINE r == Tail(q)
            t == IF Head(q) \in Changes THEN WaitedFor[Head(q)] ELSE s
<1>1. /\ r \in Seq(S) /\ Len(r) = Len(q) - 1 /\ Len(q) \in Nat \ {0} /\ Head(q) = q[1]
      /\ \A i \in 1..Len(r) : r[i] = q[i + 1]
  BY HeadTailProperties, EmptySeq, LenProperties
<1>. HIDE DEF r
<1>. SUFFICES ASSUME NEW x PROVE LastTold(r, t, x) <=> LastTold(q, s, x)
  BY DEF r
<1>2. ASSUME NEW i \in 1..Len(r)
      PROVE  (\A j \in (i+1)..Len(r) : r[j] \notin Changes) <=>
                \A j \in (i+2)..Len(q) : q[j] \notin Changes
  <2>1. ASSUME \A j \in (i+1)..Len(r) : r[j] \notin Changes, NEW j \in (i+2)..Len(q)
        PROVE  q[j] \notin Changes
    <3>1. j - 1 \in (i+1)..Len(r) /\ r[j - 1] = q[j]  BY <1>1
    <3>. QED  BY <2>1, <3>1
  <2>2. ASSUME \A j \in (i+2)..Len(q) : q[j] \notin Changes, NEW j \in (i+1)..Len(r)
        PROVE  r[j] \notin Changes
    <3>1. j + 1 \in (i+2)..Len(q) /\ r[j] = q[j + 1]  BY <1>1
    <3>. QED  BY <2>2, <3>1
  <2>. QED  BY <2>1, <2>2
<1>3. (\A j \in 1..Len(r) : r[j] \notin Changes) <=> \A j \in 2..Len(q) : q[j] \notin Changes
  <2>1. ASSUME \A j \in 1..Len(r) : r[j] \notin Changes, NEW j \in 2..Len(q)
        PROVE  q[j] \notin Changes
    <3>1. j - 1 \in 1..Len(r) /\ r[j - 1] = q[j]  BY <1>1
    <3>. QED  BY <2>1, <3>1
  <2>2. ASSUME \A j \in 2..Len(q) : q[j] \notin Changes, NEW j \in 1..Len(r)
        PROVE  r[j] \notin Changes
    <3>1. j + 1 \in 2..Len(q) /\ r[j] = q[j + 1]  BY <1>1
    <3>. QED  BY <2>2, <3>1
  <2>. QED  BY <2>1, <2>2
<1>4. ASSUME LastTold(r, t, x) PROVE LastTold(q, s, x)
  <2>1. CASE (\A j \in 1..Len(r) : r[j] \notin Changes) /\ x = t
    <3>1. CASE q[1] \in Changes
      <4>1. 1 \in 1..Len(q) /\ x = WaitedFor[q[1]]  BY <1>1, <2>1, <3>1
      <4>. QED  BY <1>3, <2>1, <3>1, <4>1 DEF LastTold
    <3>2. CASE q[1] \notin Changes
      <4>1. \A j \in 1..Len(q) : q[j] \notin Changes  BY <1>1, <1>3, <2>1, <3>2
      <4>. QED  BY <1>1, <2>1, <3>2, <4>1 DEF LastTold
    <3>. QED  BY <3>1, <3>2
  <2>2. ASSUME NEW i \in 1..Len(r), r[i] \in Changes, x = WaitedFor[r[i]],
               \A j \in (i+1)..Len(r) : r[j] \notin Changes
        PROVE  LastTold(q, s, x)
    <3>1. i + 1 \in 1..Len(q) /\ q[i + 1] = r[i] /\ (i + 1) + 1 = i + 2  BY <1>1
    <3>. QED  BY <1>2, <2>2, <3>1 DEF LastTold
  <2>. QED  BY <1>4, <2>1, <2>2 DEF LastTold
<1>5. ASSUME LastTold(q, s, x) PROVE LastTold(r, t, x)
  <2>1. CASE (\A j \in 1..Len(q) : q[j] \notin Changes) /\ x = s
    <3>1. (\A j \in 2..Len(q) : q[j] \notin Changes) /\ q[1] \notin Changes  BY <1>1, <2>1
    <3>. QED  BY <1>1, <1>3, <2>1, <3>1 DEF LastTold
  <2>2. ASSUME NEW i \in 1..Len(q), q[i] \in Changes, x = WaitedFor[q[i]],
               \A j \in (i+1)..Len(q) : q[j] \notin Changes
        PROVE  LastTold(r, t, x)
    <3>1. CASE i = 1  BY <1>1, <1>3, <2>2, <3>1 DEF LastTold
    <3>2. CASE i # 1
      <4>1. /\ i - 1 \in 1..Len(r) /\ r[i - 1] = q[i]
            /\ (i - 1) + 2 = i + 1
        BY <1>1, <3>2
      <4>2. \A j \in ((i-1)+1)..Len(r) : r[j] \notin Changes  BY <1>2, <2>2, <4>1
      <4>. QED  BY <2>2, <4>1, <4>2 DEF LastTold
    <3>. QED  BY <3>1, <3>2
  <2>. QED  BY <1>5, <2>1, <2>2 DEF LastTold
<1>. QED  BY <1>4, <1>5

-----------------------------------------------------------------------------
(* Type correctness, in three parts: the flags, what client and network    *)
(* hold, what server and PulseAudio hold.                                  *)

FlagsOK ==
    /\ returned \in BOOLEAN /\ stopping \in BOOLEAN /\ fresh \in BOOLEAN
    /\ standByEnable \in BOOLEAN /\ registered \in BOOLEAN /\ corked \in BOOLEAN

ClientOK ==
    /\ state \in {"PREPARED", "RUNNING", "PAUSED", "STOPPING", "STOPPED",
                  "INVALID", "RELEASED"}
    /\ notified \in Operations \cup {"none"}
    /\ op \in Operations \cup {"none", "abort"}
    /\ pc \in [Threads -> {"out", "enter", "lock", "set", "standby", "queue", "wait"}]
    /\ releasePc \in {"out", "check", "render", "mark"}
    /\ inbox \in Seq(Operations)

ServerOK ==
    /\ status \in {"IDLE", "STARTING", "STARTED", "PAUSING", "PAUSED", "DRAINING",
                   "STOPPING", "STOPPED", "RELEASED"}
                  \cup Flushings
    /\ seen \in {"none", "IDLE", "STARTING", "STARTED", "PAUSED", "DRAINING", "STOPPED"}
    /\ statusLock \in Threads \cup {"free"}
    /\ streamStatus \in {"ACTIVE", "STAND_BY"}
    /\ mainloop \in {"idle", "paused", "standby", "DRAINING"} \cup Flushings
    /\ paState \in {"PREPARED", "RUNNING", "PAUSED", "STOPPING", "STOPPED", "RELEASED"}
    /\ queue \in Seq(PaOperations)
    /\ drains \subseteq {"own", "older"}

Typed == mode \in Modes /\ stale \in BOOLEAN /\ FlagsOK /\ ClientOK /\ ServerOK

(* What a handler between its look at status_ and the store has seen: it   *)
(* holds statusLock_, so there is only one.                                *)
Saw(o, s) ==
    s \in CASE o = "start" -> {"IDLE", "PAUSED", "STOPPED"}
            [] o = "flush" -> DOMAIN FlushingWhen
            [] o \in {"stop", "abort"} -> {"STARTED", "PAUSED", "DRAINING", "STARTING"}
            [] OTHER -> {"STARTED"}

Looked ==
    /\ \A t \in Threads : pc[t] = "set" => statusLock = t
    /\ pc["control"] = "set" => Saw(op, seen)
    /\ pc["writer"] = "set" => Saw("start", seen)
    /\ pc["writer"] # "standby"
    /\ pc["control"] = "queue" /\ op = "flush" => statusLock = "control"
    /\ pc["control"] = "standby" => op \in {"pause", "stop", "abort"}

LEMMA TypedIsTypeOK == Typed <=> TypeOK
BY DEF Typed, TypeOK, FlagsOK, ClientOK, ServerOK, PaOperations

LEMMA RecordsKeep == Typed /\ Records => mode' = mode /\ stale' \in BOOLEAN
BY DEF Typed, Records

LEMMA FreshIsBoolean == \A o : NothingLeft(o) \in BOOLEAN
BY DEF NothingLeft

LEMMA InitTyped == Init => Typed
<1>. SUFFICES ASSUME Init PROVE Typed  OBVIOUS
<1>1. FlagsOK  BY DEF Init, FlagsOK
<1>2. ClientOK  BY DEF Init, ClientOK, Threads, Operations
<1>3. ServerOK  BY DEF Init, ServerOK, PaOperations
<1>. QED  BY <1>1, <1>2, <1>3 DEF Init, Typed

LEMMA InitLooked == Init => Looked
BY DEF Init, Looked, Threads

LEMMA NextTyped == Typed /\ Looked /\ [Next]_vars => Typed'
<1>. SUFFICES ASSUME Typed, Looked, [Next]_vars PROVE Typed'  OBVIOUS
<1>. USE DEF Typed, Threads, Operations, PaOperations, client, server, stream, Goto,
             StatusMutexFree, Serves, FlushingWhen, Flushings, WaitedFor, Waiting
<1>0. CASE UNCHANGED vars  BY <1>0 DEF vars, FlagsOK, ClientOK, ServerOK
<1>1. ASSUME StartAudioStream, mode' = mode, stale' \in BOOLEAN PROVE Typed'
  <2>1. FlagsOK'  BY <1>1, FreshIsBoolean DEF FlagsOK, StartAudioStream, Call
  <2>2. ClientOK'  BY <1>1 DEF ClientOK, StartAudioStream, Call
  <2>3. ServerOK'  BY <1>1 DEF ServerOK, StartAudioStream, Call
  <2>. QED  BY <1>1, <2>1, <2>2, <2>3
<1>2. ASSUME PauseAudioStream, mode' = mode, stale' \in BOOLEAN PROVE Typed'
  <2>1. FlagsOK'  BY <1>2, FreshIsBoolean DEF FlagsOK, PauseAudioStream, Call
  <2>2. ClientOK'  BY <1>2 DEF ClientOK, PauseAudioStream, Call
  <2>3. ServerOK'  BY <1>2 DEF ServerOK, PauseAudioStream, Call
  <2>. QED  BY <1>2, <2>1, <2>2, <2>3
<1>3. ASSUME FlushAudioStream, mode' = mode, stale' \in BOOLEAN PROVE Typed'
  <2>1. FlagsOK'  BY <1>3, FreshIsBoolean DEF FlagsOK, FlushAudioStream, Call
  <2>2. ClientOK'  BY <1>3 DEF ClientOK, FlushAudioStream, Call
  <2>3. ServerOK'  BY <1>3 DEF ServerOK, FlushAudioStream, Call
  <2>. QED  BY <1>3, <2>1, <2>2, <2>3
<1>4. ASSUME DrainAudioStream, mode' = mode, stale' \in BOOLEAN PROVE Typed'
  <2>1. FlagsOK'  BY <1>4, FreshIsBoolean DEF FlagsOK, DrainAudioStream, Call
  <2>2. ClientOK'  BY <1>4 DEF ClientOK, DrainAudioStream, Call
  <2>3. ServerOK'  BY <1>4 DEF ServerOK, DrainAudioStream, Call
  <2>. QED  BY <1>4, <2>1, <2>2, <2>3
<1>5. ASSUME StopAudioStream, mode' = mode, stale' \in BOOLEAN PROVE Typed'
  <2>1. FlagsOK'  BY <1>5, FreshIsBoolean DEF FlagsOK, StopAudioStream
  <2>2. ClientOK'  BY <1>5 DEF ClientOK, StopAudioStream
  <2>3. ServerOK'  BY <1>5 DEF ServerOK, StopAudioStream
  <2>. QED  BY <1>5, <2>1, <2>2, <2>3
<1>6. ASSUME ReleaseAudioStream, mode' = mode, stale' \in BOOLEAN PROVE Typed'
  BY <1>6 DEF FlagsOK, ClientOK, ServerOK, ReleaseAudioStream
<1>7. ASSUME WriteInner, mode' = mode, stale' \in BOOLEAN PROVE Typed'
  BY <1>7 DEF FlagsOK, ClientOK, ServerOK, WriteInner
<1>8. ASSUME NEW t \in Threads, StartEnter(t), mode' = mode, stale' \in BOOLEAN PROVE Typed'
  BY <1>8 DEF FlagsOK, ClientOK, ServerOK, StartEnter
<1>9. ASSUME NEW t \in Threads, StartLocked(t), mode' = mode, stale' \in BOOLEAN PROVE Typed'
  <2>1. FlagsOK'  BY <1>9 DEF FlagsOK, StartLocked, Check, Refuse
  <2>2. ClientOK'  BY <1>9 DEF ClientOK, StartLocked, Check, Refuse
  <2>3. ServerOK'
    <3>1. statusLock' \in {statusLock, t}  BY <1>9 DEF StartLocked, Check
    <3>2. seen' \in {seen, "IDLE", "PAUSED", "STOPPED"}  BY <1>9 DEF StartLocked, Check
    <3>. QED  BY <1>9, <3>1, <3>2 DEF ServerOK, StartLocked, Check
  <2>. QED  BY <1>9, <2>1, <2>2, <2>3
<1>10. ASSUME NEW t \in Threads, StartSets(t), mode' = mode, stale' \in BOOLEAN PROVE Typed'
  <2>1. FlagsOK'  BY <1>10 DEF FlagsOK, StartSets, Set
  <2>2. ClientOK'  BY <1>10 DEF ClientOK, StartSets, Set
  <2>3. ServerOK'  BY <1>10 DEF ServerOK, StartSets, Set
  <2>. QED  BY <1>10, <2>1, <2>2, <2>3
<1>11. ASSUME NEW t \in Threads, StartRender(t), mode' = mode, stale' \in BOOLEAN PROVE Typed'
  <2>1. FlagsOK'  BY <1>11 DEF FlagsOK, StartRender, Submit, Queued, Answered
  <2>2. ClientOK'  BY <1>11 DEF ClientOK, StartRender, Submit, Queued, Answered
  <2>3. ServerOK'  BY <1>11 DEF ServerOK, StartRender, Submit, Queued, Answered
  <2>. QED  BY <1>11, <2>1, <2>2, <2>3
<1>12. ASSUME Pause, mode' = mode, stale' \in BOOLEAN PROVE Typed'
  <2>1. FlagsOK'  BY <1>12 DEF FlagsOK, Pause, Check, Refuse
  <2>2. ClientOK'  BY <1>12 DEF ClientOK, Pause, Check, Refuse
  <2>3. ServerOK'  BY <1>12 DEF ServerOK, Pause, Check, Refuse
  <2>. QED  BY <1>12, <2>1, <2>2, <2>3
<1>13. ASSUME PauseSets, mode' = mode, stale' \in BOOLEAN PROVE Typed'
  <2>1. FlagsOK'  BY <1>13 DEF FlagsOK, PauseSets, Set
  <2>2. ClientOK'  BY <1>13 DEF ClientOK, PauseSets, Set
  <2>3. ServerOK'  BY <1>13 DEF ServerOK, PauseSets, Set
  <2>. QED  BY <1>13, <2>1, <2>2, <2>3
<1>14. ASSUME PauseRender, mode' = mode, stale' \in BOOLEAN PROVE Typed'
  BY <1>14 DEF FlagsOK, ClientOK, ServerOK, PauseRender, Submit, Queued, Answered
<1>15. ASSUME Flush, mode' = mode, stale' \in BOOLEAN PROVE Typed'
  <2>1. FlagsOK'  BY <1>15 DEF FlagsOK, Flush, Check, Refuse
  <2>2. ClientOK'  BY <1>15 DEF ClientOK, Flush, Check, Refuse
  <2>3. ServerOK'  BY <1>15 DEF ServerOK, Flush, Check, Refuse
  <2>. QED  BY <1>15, <2>1, <2>2, <2>3
<1>16. ASSUME FlushSets, mode' = mode, stale' \in BOOLEAN PROVE Typed'
  <2>1. FlagsOK'  BY <1>16 DEF FlagsOK, FlushSets, Set
  <2>2. ClientOK'  BY <1>16 DEF ClientOK, FlushSets, Set
  <2>3. ServerOK'
    <3>1. FlushingWhen[seen] \in Flushings  BY <1>16 DEF Looked, Saw, FlushSets, Set
    <3>. QED  BY <1>16, <3>1 DEF ServerOK, FlushSets, Set
  <2>. QED  BY <1>16, <2>1, <2>2, <2>3
<1>17. ASSUME FlushStream, mode' = mode, stale' \in BOOLEAN PROVE Typed'
  BY <1>17 DEF FlagsOK, ClientOK, ServerOK, FlushStream, Answered
<1>18. ASSUME Drain, mode' = mode, stale' \in BOOLEAN PROVE Typed'
  <2>1. FlagsOK'  BY <1>18 DEF FlagsOK, Drain, Check, Refuse
  <2>2. ClientOK'  BY <1>18 DEF ClientOK, Drain, Check, Refuse
  <2>3. ServerOK'  BY <1>18 DEF ServerOK, Drain, Check, Refuse
  <2>. QED  BY <1>18, <2>1, <2>2, <2>3
<1>19. ASSUME DrainSets, mode' = mode, stale' \in BOOLEAN PROVE Typed'
  <2>1. FlagsOK'  BY <1>19 DEF FlagsOK, DrainSets, Set
  <2>2. ClientOK'  BY <1>19 DEF ClientOK, DrainSets, Set
  <2>3. ServerOK'  BY <1>19 DEF ServerOK, DrainSets, Set
  <2>. QED  BY <1>19, <2>1, <2>2, <2>3
<1>20. ASSUME DrainStream, mode' = mode, stale' \in BOOLEAN PROVE Typed'
  BY <1>20 DEF FlagsOK, ClientOK, ServerOK, DrainStream, Answered
<1>21. ASSUME Stop, mode' = mode, stale' \in BOOLEAN PROVE Typed'
  <2>1. FlagsOK'  BY <1>21 DEF FlagsOK, Stop, Check, Refuse
  <2>2. ClientOK'  BY <1>21 DEF ClientOK, Stop, Check, Refuse
  <2>3. ServerOK'  BY <1>21 DEF ServerOK, Stop, Check, Refuse
  <2>. QED  BY <1>21, <2>1, <2>2, <2>3
<1>22. ASSUME StopSets, mode' = mode, stale' \in BOOLEAN PROVE Typed'
  <2>1. FlagsOK'  BY <1>22 DEF FlagsOK, StopSets, Set
  <2>2. ClientOK'  BY <1>22 DEF ClientOK, StopSets, Set
  <2>3. ServerOK'  BY <1>22 DEF ServerOK, StopSets, Set
  <2>. QED  BY <1>22, <2>1, <2>2, <2>3
<1>23. ASSUME EndStandBy, mode' = mode, stale' \in BOOLEAN PROVE Typed'
  <2>1. FlagsOK'  BY <1>23 DEF FlagsOK, EndStandBy
  <2>2. ClientOK'  BY <1>23 DEF ClientOK, EndStandBy
  <2>3. ServerOK'  BY <1>23 DEF ServerOK, EndStandBy
  <2>. QED  BY <1>23, <2>1, <2>2, <2>3
<1>24. ASSUME StopRender, mode' = mode, stale' \in BOOLEAN PROVE Typed'
  <2>1. FlagsOK'  BY <1>24 DEF FlagsOK, StopRender, Submit, Queued, Answered
  <2>2. ClientOK'  BY <1>24 DEF ClientOK, StopRender, Submit, Queued, Answered
  <2>3. ServerOK'  BY <1>24 DEF ServerOK, StopRender, Submit, Queued, Answered
  <2>. QED  BY <1>24, <2>1, <2>2, <2>3
<1>25. ASSUME StateReached, mode' = mode, stale' \in BOOLEAN PROVE Typed'
  BY <1>25 DEF FlagsOK, ClientOK, ServerOK, StateReached, Finish
<1>26. ASSUME OperationNotified, mode' = mode, stale' \in BOOLEAN PROVE Typed'
  BY <1>26 DEF FlagsOK, ClientOK, ServerOK, OperationNotified, Finish
<1>27. ASSUME StopAfterDrain, mode' = mode, stale' \in BOOLEAN PROVE Typed'
  <2>1. FlagsOK'  BY <1>27, FreshIsBoolean DEF FlagsOK, StopAfterDrain, Call
  <2>2. ClientOK'  BY <1>27 DEF ClientOK, StopAfterDrain, Call
  <2>3. ServerOK'  BY <1>27 DEF ServerOK, StopAfterDrain, Call
  <2>. QED  BY <1>27, <2>1, <2>2, <2>3
<1>28. ASSUME StopNotNeeded, mode' = mode, stale' \in BOOLEAN PROVE Typed'
  <2>1. FlagsOK'  BY <1>28 DEF FlagsOK, StopNotNeeded
  <2>2. ClientOK'  BY <1>28 DEF ClientOK, StopNotNeeded
  <2>3. ServerOK'  BY <1>28 DEF ServerOK, StopNotNeeded
  <2>. QED  BY <1>28, <2>1, <2>2, <2>3
<1>29. ASSUME Release, mode' = mode, stale' \in BOOLEAN PROVE Typed'
  BY <1>29 DEF FlagsOK, ClientOK, ServerOK, Release
<1>30. ASSUME ReleaseRender, mode' = mode, stale' \in BOOLEAN PROVE Typed'
  <2>1. FlagsOK'  BY <1>30 DEF FlagsOK, ReleaseRender
  <2>2. ClientOK'  BY <1>30 DEF ClientOK, ReleaseRender
  <2>3. ServerOK'  BY <1>30 DEF ServerOK, ReleaseRender
  <2>. QED  BY <1>30, <2>1, <2>2, <2>3
<1>31. ASSUME ReleaseMark, mode' = mode, stale' \in BOOLEAN PROVE Typed'
  BY <1>31 DEF FlagsOK, ClientOK, ServerOK, ReleaseMark
<1>32. ASSUME StartTimesOut, mode' = mode, stale' \in BOOLEAN PROVE Typed'
  BY <1>32 DEF FlagsOK, ClientOK, ServerOK, StartTimesOut, MayTimeOut
<1>33. ASSUME PauseTimesOut, mode' = mode, stale' \in BOOLEAN PROVE Typed'
  <2>1. FlagsOK'  BY <1>33 DEF FlagsOK, PauseTimesOut, MayTimeOut, Finish
  <2>2. ClientOK'  BY <1>33 DEF ClientOK, PauseTimesOut, MayTimeOut, Finish
  <2>3. ServerOK'  BY <1>33 DEF ServerOK, PauseTimesOut, MayTimeOut, Finish
  <2>. QED  BY <1>33, <2>1, <2>2, <2>3
<1>34. ASSUME StopTimesOut, mode' = mode, stale' \in BOOLEAN PROVE Typed'
  <2>1. FlagsOK'  BY <1>34 DEF FlagsOK, StopTimesOut, MayTimeOut, Finish
  <2>2. ClientOK'  BY <1>34 DEF ClientOK, StopTimesOut, MayTimeOut, Finish
  <2>3. ServerOK'  BY <1>34 DEF ServerOK, StopTimesOut, MayTimeOut, Finish
  <2>. QED  BY <1>34, <2>1, <2>2, <2>3
<1>35. ASSUME NotifyTimesOut, mode' = mode, stale' \in BOOLEAN PROVE Typed'
  <2>1. FlagsOK'  BY <1>35 DEF FlagsOK, NotifyTimesOut, MayTimeOut, Finish
  <2>2. ClientOK'  BY <1>35 DEF ClientOK, NotifyTimesOut, MayTimeOut, Finish
  <2>3. ServerOK'  BY <1>35 DEF ServerOK, NotifyTimesOut, MayTimeOut, Finish
  <2>. QED  BY <1>35, <2>1, <2>2, <2>3
<1>36. ASSUME OnStarted, mode' = mode, stale' \in BOOLEAN PROVE Typed'
  <2>1. FlagsOK'  BY <1>36 DEF FlagsOK, OnStarted, Completes, Notify
  <2>2. ClientOK'  BY <1>36 DEF ClientOK, OnStarted, Completes, Notify
  <2>3. ServerOK'  BY <1>36 DEF ServerOK, OnStarted, Completes, Notify
  <2>. QED  BY <1>36, <2>1, <2>2, <2>3
<1>37. ASSUME OnPaused, mode' = mode, stale' \in BOOLEAN PROVE Typed'
  BY <1>37 DEF FlagsOK, ClientOK, ServerOK, OnPaused, Completes, Notify
<1>38. ASSUME OnPausedInStandBy, mode' = mode, stale' \in BOOLEAN PROVE Typed'
  BY <1>38 DEF FlagsOK, ClientOK, ServerOK, OnPausedInStandBy
<1>39. ASSUME OnStopped, mode' = mode, stale' \in BOOLEAN PROVE Typed'
  BY <1>39 DEF FlagsOK, ClientOK, ServerOK, OnStopped, Completes, Notify
<1>40. ASSUME OnFlushed, mode' = mode, stale' \in BOOLEAN PROVE Typed'
  <2>1. FlagsOK'  BY <1>40 DEF FlagsOK, OnFlushed, Completes
  <2>2. ClientOK'  BY <1>40 DEF ClientOK, OnFlushed, Completes, Notify
  <2>3. ServerOK'
    <3>1. mainloop' \in {mainloop} \cup Flushings  BY <1>40 DEF OnFlushed
    <3>. HIDE DEF Flushings, FlushingWhen
    <3>. QED  BY <1>40, <3>1 DEF ServerOK, OnFlushed, Completes
  <2>. QED  BY <1>40, <2>1, <2>2, <2>3
<1>41. ASSUME Flushed, mode' = mode, stale' \in BOOLEAN PROVE Typed'
  BY <1>41 DEF FlagsOK, ClientOK, ServerOK, Flushed, Store, Notify
<1>42. ASSUME Drained, mode' = mode, stale' \in BOOLEAN PROVE Typed'
  BY <1>42 DEF FlagsOK, ClientOK, ServerOK, Drained, Store, Notify
<1>43. ASSUME OnCorked, mode' = mode, stale' \in BOOLEAN PROVE Typed'
  BY <1>43 DEF FlagsOK, ClientOK, ServerOK, OnCorked, Completes
<1>44. ASSUME EnterStandBy, mode' = mode, stale' \in BOOLEAN PROVE Typed'
  BY <1>44 DEF FlagsOK, ClientOK, ServerOK, EnterStandBy
<1>45. ASSUME OnDrained, mode' = mode, stale' \in BOOLEAN PROVE Typed'
  BY <1>45 DEF FlagsOK, ClientOK, ServerOK, OnDrained
<1>46. ASSUME StandByCheck, mode' = mode, stale' \in BOOLEAN PROVE Typed'
  BY <1>46 DEF FlagsOK, ClientOK, ServerOK, StandByCheck
<1>47. ASSUME OnOperationHandled, mode' = mode, stale' \in BOOLEAN PROVE Typed'
  BY <1>47 DEF FlagsOK, ClientOK, ServerOK, OnOperationHandled
<1>. QED
  BY RecordsKeep, <1>0, <1>1, <1>2, <1>3, <1>4, <1>5, <1>6, <1>7, <1>8, <1>9, <1>10, <1>11, <1>12, <1>13,
      <1>14, <1>15, <1>16, <1>17, <1>18, <1>19, <1>20, <1>21, <1>22, <1>23, <1>24, <1>25,
      <1>26, <1>27, <1>28, <1>29, <1>30, <1>31, <1>32, <1>33, <1>34, <1>35, <1>36, <1>37,
      <1>38, <1>39, <1>40, <1>41, <1>42, <1>43, <1>44, <1>45, <1>46, <1>47
  DEF Next, Application, Control, Start, Releasing, WaitTimesOut, Mainloop, Threads

LEMMA NextLooked == Typed /\ Looked /\ [Next]_vars => Looked'
<1>. SUFFICES ASSUME Typed, Looked, [Next]_vars PROVE Looked'  OBVIOUS
<1>. USE DEF Looked, Saw, Typed, ClientOK, Threads, client, server, stream, Goto, Serves,
             StatusMutexFree, Waiting, FlushingWhen
<1>0. CASE UNCHANGED vars  BY <1>0 DEF vars
<1>1. ASSUME StartAudioStream, mode' = mode PROVE Looked'
  BY <1>1 DEF StartAudioStream, Call
<1>2. ASSUME PauseAudioStream, mode' = mode PROVE Looked'
  BY <1>2 DEF PauseAudioStream, Call
<1>3. ASSUME FlushAudioStream, mode' = mode PROVE Looked'
  BY <1>3 DEF FlushAudioStream, Call
<1>4. ASSUME DrainAudioStream, mode' = mode PROVE Looked'
  BY <1>4 DEF DrainAudioStream, Call
<1>5. ASSUME StopAudioStream, mode' = mode PROVE Looked'
  BY <1>5 DEF StopAudioStream
<1>6. ASSUME ReleaseAudioStream, mode' = mode PROVE Looked'
  BY <1>6 DEF ReleaseAudioStream
<1>7. ASSUME WriteInner, mode' = mode PROVE Looked'
  BY <1>7 DEF WriteInner
<1>8. ASSUME NEW t \in Threads, StartEnter(t), mode' = mode PROVE Looked'
  BY <1>8 DEF StartEnter
<1>9. ASSUME NEW t \in Threads, StartLocked(t), mode' = mode PROVE Looked'
  BY <1>9 DEF StartLocked, Check, Refuse
<1>10. ASSUME NEW t \in Threads, StartSets(t), mode' = mode PROVE Looked'
  BY <1>10 DEF StartSets, Set
<1>11. ASSUME NEW t \in Threads, StartRender(t), mode' = mode PROVE Looked'
  BY <1>11 DEF StartRender, Submit, Queued, Answered
<1>12. ASSUME Pause, mode' = mode PROVE Looked'
  BY <1>12 DEF Pause, Check, Refuse
<1>13. ASSUME PauseSets, mode' = mode PROVE Looked'
  BY <1>13 DEF PauseSets, Set
<1>14. ASSUME PauseRender, mode' = mode PROVE Looked'
  BY <1>14 DEF PauseRender, Submit, Queued, Answered
<1>15. ASSUME Flush, mode' = mode PROVE Looked'
  BY <1>15 DEF Flush, Check, Refuse
<1>16. ASSUME FlushSets, mode' = mode PROVE Looked'
  BY <1>16 DEF FlushSets, Set
<1>17. ASSUME FlushStream, mode' = mode PROVE Looked'
  BY <1>17 DEF FlushStream, Answered
<1>18. ASSUME Drain, mode' = mode PROVE Looked'
  BY <1>18 DEF Drain, Check, Refuse
<1>19. ASSUME DrainSets, mode' = mode PROVE Looked'
  BY <1>19 DEF DrainSets, Set
<1>20. ASSUME DrainStream, mode' = mode PROVE Looked'
  BY <1>20 DEF DrainStream, Answered
<1>21. ASSUME Stop, mode' = mode PROVE Looked'
  BY <1>21 DEF Stop, Check, Refuse
<1>22. ASSUME StopSets, mode' = mode PROVE Looked'
  BY <1>22 DEF StopSets, Set
<1>23. ASSUME EndStandBy, mode' = mode PROVE Looked'
  BY <1>23 DEF EndStandBy
<1>24. ASSUME StopRender, mode' = mode PROVE Looked'
  BY <1>24 DEF StopRender, Submit, Queued, Answered
<1>25. ASSUME StateReached, mode' = mode PROVE Looked'
  BY <1>25 DEF StateReached, Finish
<1>26. ASSUME OperationNotified, mode' = mode PROVE Looked'
  BY <1>26 DEF OperationNotified, Finish
<1>27. ASSUME StopAfterDrain, mode' = mode PROVE Looked'
  BY <1>27 DEF StopAfterDrain, Call
<1>28. ASSUME StopNotNeeded, mode' = mode PROVE Looked'
  BY <1>28 DEF StopNotNeeded
<1>29. ASSUME Release, mode' = mode PROVE Looked'
  BY <1>29 DEF Release
<1>30. ASSUME ReleaseRender, mode' = mode PROVE Looked'
  BY <1>30 DEF ReleaseRender
<1>31. ASSUME ReleaseMark, mode' = mode PROVE Looked'
  BY <1>31 DEF ReleaseMark
<1>32. ASSUME StartTimesOut, mode' = mode PROVE Looked'
  BY <1>32 DEF StartTimesOut, MayTimeOut
<1>33. ASSUME PauseTimesOut, mode' = mode PROVE Looked'
  BY <1>33 DEF PauseTimesOut, MayTimeOut, Finish
<1>34. ASSUME StopTimesOut, mode' = mode PROVE Looked'
  BY <1>34 DEF StopTimesOut, MayTimeOut, Finish
<1>35. ASSUME NotifyTimesOut, mode' = mode PROVE Looked'
  BY <1>35 DEF NotifyTimesOut, MayTimeOut, Finish
<1>36. ASSUME OnStarted, mode' = mode PROVE Looked'
  BY <1>36 DEF OnStarted, Completes, Notify
<1>37. ASSUME OnPaused, mode' = mode PROVE Looked'
  BY <1>37 DEF OnPaused, Completes, Notify
<1>38. ASSUME OnPausedInStandBy, mode' = mode PROVE Looked'
  BY <1>38 DEF OnPausedInStandBy
<1>39. ASSUME OnStopped, mode' = mode PROVE Looked'
  BY <1>39 DEF OnStopped, Completes, Notify
<1>40. ASSUME OnFlushed, mode' = mode PROVE Looked'
  BY <1>40 DEF OnFlushed, Completes, Notify
<1>41. ASSUME Flushed, mode' = mode PROVE Looked'
  BY <1>41 DEF Flushed, Store, Notify
<1>42. ASSUME Drained, mode' = mode PROVE Looked'
  BY <1>42 DEF Drained, Store, Notify
<1>43. ASSUME OnCorked, mode' = mode PROVE Looked'
  BY <1>43 DEF OnCorked, Completes
<1>44. ASSUME EnterStandBy, mode' = mode PROVE Looked'
  BY <1>44 DEF EnterStandBy
<1>45. ASSUME OnDrained, mode' = mode PROVE Looked'
  BY <1>45 DEF OnDrained
<1>46. ASSUME StandByCheck, mode' = mode PROVE Looked'
  BY <1>46 DEF StandByCheck
<1>47. ASSUME OnOperationHandled, mode' = mode PROVE Looked'
  BY <1>47 DEF OnOperationHandled
<1>. QED
  BY <1>0, <1>1, <1>2, <1>3, <1>4, <1>5, <1>6, <1>7, <1>8, <1>9, <1>10, <1>11, <1>12, <1>13,
      <1>14, <1>15, <1>16, <1>17, <1>18, <1>19, <1>20, <1>21, <1>22, <1>23, <1>24, <1>25,
      <1>26, <1>27, <1>28, <1>29, <1>30, <1>31, <1>32, <1>33, <1>34, <1>35, <1>36, <1>37,
      <1>38, <1>39, <1>40, <1>41, <1>42, <1>43, <1>44, <1>45, <1>46, <1>47
  DEF Next, Application, Control, Start, Releasing, WaitTimesOut, Mainloop, Threads, Records

(* Every variable keeps its type, whatever is called, times out or is      *)
(* delivered late.                                                         *)
THEOREM TypeCorrect == Spec => []TypeOK
<1>1. Init => Typed /\ Looked  BY InitTyped, InitLooked
<1>2. Typed /\ Looked /\ [Next]_vars => (Typed /\ Looked)'  BY NextTyped, NextLooked
<1>3. Typed /\ Looked => TypeOK  BY TypedIsTypeOK
<1>. QED  BY <1>1, <1>2, <1>3, PTL DEF Spec

-----------------------------------------------------------------------------
(* What the pieces of a step do to the queues. *)

LEMMA CompletesKeeps ==
    ASSUME Typed, NEW o, Completes(o)
    PROVE  /\ \A x : Has(queue, x) <=> x = o \/ Has(queue, x)'
           /\ \A x : EndsIn(queue, x) => EndsIn(queue, x)' \/ (queue' = <<>> /\ x = o)
BY HasTail DEF Typed, ServerOK, Completes

LEMMA QueuedAdds ==
    ASSUME Typed, NEW o \in PaOperations, queue' = Append(queue, o)
    PROVE  /\ \A x : Has(queue, x)' <=> Has(queue, x) \/ x = o
           /\ EndsIn(queue, o)'
BY HasAppend DEF Typed, ServerOK

LEMMA EndsInHas ==
    ASSUME Typed
    PROVE  \A x : EndsIn(queue, x) => Has(queue, x)
BY LenProperties, EmptySeq DEF Typed, ServerOK, EndsIn, Has

LEMMA NotifyTells ==
    ASSUME Typed, NEW o \in Operations, Notify(o), state' = state
    PROVE  \A x : Tells(x)' <=> IF o \in Changes THEN x = WaitedFor[o] ELSE Tells(x)
BY ToldAppend DEF Typed, ClientOK, Notify, Tells

LEMMA HandledTells ==
    ASSUME Typed, OnOperationHandled
    PROVE  \A x : Tells(x)' <=> Tells(x)
<1>1. /\ inbox \in Seq(Operations) /\ inbox # <<>> /\ inbox' = Tail(inbox)
      /\ state' = IF Head(inbox) \in Changes THEN WaitedFor[Head(inbox)] ELSE state
  BY DEF Typed, ClientOK, OnOperationHandled, Changes, WaitedFor
<1>. QED  BY <1>1, ToldTail DEF Tells

LEMMA UntoldTells ==
    ASSUME inbox' = inbox, state' = state
    PROVE  \A x : Tells(x)' <=> Tells(x)
BY DEF Tells

(* A client that sets state_ by itself only changes what it will be if no  *)
(* notification is on its way to overwrite it.                             *)
LEMMA OwnChangeTells ==
    ASSUME inbox' = inbox
    PROVE  \/ \A x : (Tells(x) <=> x = state) /\ (Tells(x)' <=> x = state')
           \/ \A x : Tells(x)' <=> Tells(x)
<1>1. CASE \A i \in 1..Len(inbox) : inbox[i] \notin Changes
  <2>1. \A x : Tells(x) <=> x = state  BY <1>1 DEF Tells, LastTold
  <2>2. \A x : Tells(x)' <=> x = state'  BY <1>1 DEF Tells, LastTold
  <2>. QED  BY <2>1, <2>2
<1>2. CASE \E i \in 1..Len(inbox) : inbox[i] \in Changes
  BY <1>2 DEF Tells, LastTold
<1>. QED  BY <1>1, <1>2

-----------------------------------------------------------------------------
(* The release: once it has passed status_ the stream leaves the map, for  *)
(* good, and only then is it corked or marked.                             *)
ReleaseOrder ==
    /\ registered => status # "RELEASED" /\ ~Has(queue, "cork")
    /\ releasePc = "mark" => ~registered

Kept == registered /\ releasePc = "out"

(* Whatever the client takes for RUNNING plays, or is in a stand-by it can *)
(* see or soon will see, or another operation is under way.                *)
UnderWay ==
    \/ \E o \in Changes : Has(queue, o)
    \/ pc["writer"] = "queue"
    \/ pc["control"] = "queue" /\ op \in Changes \cup {"abort"}

StallIsSeen ==
    Kept /\ Tells("RUNNING") /\ corked =>
        \/ standByEnable /\ (mainloop = "paused" \/ streamStatus = "STAND_BY")
        \/ UnderWay

Steady == Typed /\ Looked /\ ReleaseOrder /\ StallIsSeen

LEMMA InitSteady == Init => Steady
<1>. SUFFICES ASSUME Init PROVE Steady  OBVIOUS
<1>1. ReleaseOrder  BY HasEmpty DEF Init, ReleaseOrder
<1>2. StallIsSeen  BY ToldEmpty DEF Init, StallIsSeen, Tells
<1>. QED  BY <1>1, <1>2, InitTyped, InitLooked DEF Steady

LEMMA NextReleaseOrder == Typed /\ Looked /\ ReleaseOrder /\ [Next]_vars => ReleaseOrder'
<1>. SUFFICES ASSUME Typed, Looked, ReleaseOrder, [Next]_vars PROVE ReleaseOrder'  OBVIOUS
<1>. USE DEF ReleaseOrder, client, server, stream, Goto, FlushingWhen, PaOperations
<1>0. CASE UNCHANGED vars  BY <1>0 DEF vars
<1>1. ASSUME StartAudioStream, mode' = mode PROVE ReleaseOrder'
  BY <1>1 DEF StartAudioStream, Call
<1>2. ASSUME PauseAudioStream, mode' = mode PROVE ReleaseOrder'
  BY <1>2 DEF PauseAudioStream, Call
<1>3. ASSUME FlushAudioStream, mode' = mode PROVE ReleaseOrder'
  BY <1>3 DEF FlushAudioStream, Call
<1>4. ASSUME DrainAudioStream, mode' = mode PROVE ReleaseOrder'
  BY <1>4 DEF DrainAudioStream, Call
<1>5. ASSUME StopAudioStream, mode' = mode PROVE ReleaseOrder'
  BY <1>5 DEF StopAudioStream
<1>6. ASSUME ReleaseAudioStream, mode' = mode PROVE ReleaseOrder'
  BY <1>6 DEF ReleaseAudioStream
<1>7. ASSUME WriteInner, mode' = mode PROVE ReleaseOrder'
  BY <1>7 DEF WriteInner
<1>8. ASSUME NEW t \in Threads, StartEnter(t), mode' = mode PROVE ReleaseOrder'
  BY <1>8 DEF StartEnter
<1>9. ASSUME NEW t \in Threads, StartLocked(t), mode' = mode PROVE ReleaseOrder'
  BY <1>9 DEF StartLocked, Check, Refuse
<1>10. ASSUME NEW t \in Threads, StartSets(t), mode' = mode PROVE ReleaseOrder'
  BY <1>10 DEF StartSets, Set
<1>11. ASSUME NEW t \in Threads, StartRender(t), mode' = mode PROVE ReleaseOrder'
  BY <1>11, QueuedAdds DEF StartRender, Submit, Queued, Answered
<1>12. ASSUME Pause, mode' = mode PROVE ReleaseOrder'
  BY <1>12 DEF Pause, Check, Refuse
<1>13. ASSUME PauseSets, mode' = mode PROVE ReleaseOrder'
  BY <1>13 DEF PauseSets, Set
<1>14. ASSUME PauseRender, mode' = mode PROVE ReleaseOrder'
  BY <1>14, QueuedAdds DEF PauseRender, Submit, Queued, Answered
<1>15. ASSUME Flush, mode' = mode PROVE ReleaseOrder'
  BY <1>15 DEF Flush, Check, Refuse
<1>16. ASSUME FlushSets, mode' = mode PROVE ReleaseOrder'
  BY <1>16 DEF Looked, Saw, FlushSets, Set, Threads
<1>17. ASSUME FlushStream, mode' = mode PROVE ReleaseOrder'
  BY <1>17, QueuedAdds DEF FlushStream, Answered
<1>18. ASSUME Drain, mode' = mode PROVE ReleaseOrder'
  BY <1>18 DEF Drain, Check, Refuse
<1>19. ASSUME DrainSets, mode' = mode PROVE ReleaseOrder'
  BY <1>19 DEF DrainSets, Set
<1>20. ASSUME DrainStream, mode' = mode PROVE ReleaseOrder'
  BY <1>20 DEF DrainStream, Answered
<1>21. ASSUME Stop, mode' = mode PROVE ReleaseOrder'
  BY <1>21 DEF Stop, Check, Refuse
<1>22. ASSUME StopSets, mode' = mode PROVE ReleaseOrder'
  BY <1>22 DEF StopSets, Set
<1>23. ASSUME EndStandBy, mode' = mode PROVE ReleaseOrder'
  BY <1>23 DEF EndStandBy
<1>24. ASSUME StopRender, mode' = mode PROVE ReleaseOrder'
  BY <1>24, QueuedAdds DEF StopRender, Submit, Queued, Answered
<1>25. ASSUME StateReached, mode' = mode PROVE ReleaseOrder'
  BY <1>25 DEF StateReached, Finish
<1>26. ASSUME OperationNotified, mode' = mode PROVE ReleaseOrder'
  BY <1>26 DEF OperationNotified, Finish
<1>27. ASSUME StopAfterDrain, mode' = mode PROVE ReleaseOrder'
  BY <1>27 DEF StopAfterDrain, Call
<1>28. ASSUME StopNotNeeded, mode' = mode PROVE ReleaseOrder'
  BY <1>28 DEF StopNotNeeded
<1>29. ASSUME Release, mode' = mode PROVE ReleaseOrder'
  BY <1>29 DEF Release
<1>30. ASSUME ReleaseRender, mode' = mode PROVE ReleaseOrder'
  BY <1>30, QueuedAdds DEF ReleaseRender
<1>31. ASSUME ReleaseMark, mode' = mode PROVE ReleaseOrder'
  BY <1>31 DEF ReleaseMark
<1>32. ASSUME StartTimesOut, mode' = mode PROVE ReleaseOrder'
  BY <1>32 DEF StartTimesOut, MayTimeOut
<1>33. ASSUME PauseTimesOut, mode' = mode PROVE ReleaseOrder'
  BY <1>33 DEF PauseTimesOut, MayTimeOut, Finish
<1>34. ASSUME StopTimesOut, mode' = mode PROVE ReleaseOrder'
  BY <1>34 DEF StopTimesOut, MayTimeOut, Finish
<1>35. ASSUME NotifyTimesOut, mode' = mode PROVE ReleaseOrder'
  BY <1>35 DEF NotifyTimesOut, MayTimeOut, Finish
<1>36. ASSUME OnStarted, mode' = mode PROVE ReleaseOrder'
  BY <1>36, CompletesKeeps DEF OnStarted, Completes, Notify
<1>37. ASSUME OnPaused, mode' = mode PROVE ReleaseOrder'
  BY <1>37, CompletesKeeps DEF OnPaused, Completes, Notify
<1>38. ASSUME OnPausedInStandBy, mode' = mode PROVE ReleaseOrder'
  BY <1>38 DEF OnPausedInStandBy
<1>39. ASSUME OnStopped, mode' = mode PROVE ReleaseOrder'
  BY <1>39, CompletesKeeps DEF OnStopped, Completes, Notify
<1>40. ASSUME OnFlushed, mode' = mode PROVE ReleaseOrder'
  BY <1>40, CompletesKeeps DEF OnFlushed, Completes, Notify
<1>41. ASSUME Flushed, mode' = mode PROVE ReleaseOrder'
  BY <1>41 DEF Flushed, Store, Notify
<1>42. ASSUME Drained, mode' = mode PROVE ReleaseOrder'
  BY <1>42 DEF Drained, Store, Notify
<1>43. ASSUME OnCorked, mode' = mode PROVE ReleaseOrder'
  BY <1>43, CompletesKeeps DEF OnCorked, Completes
<1>44. ASSUME EnterStandBy, mode' = mode PROVE ReleaseOrder'
  BY <1>44, QueuedAdds DEF EnterStandBy
<1>45. ASSUME OnDrained, mode' = mode PROVE ReleaseOrder'
  BY <1>45 DEF OnDrained
<1>46. ASSUME StandByCheck, mode' = mode PROVE ReleaseOrder'
  BY <1>46 DEF StandByCheck
<1>47. ASSUME OnOperationHandled, mode' = mode PROVE ReleaseOrder'
  BY <1>47 DEF OnOperationHandled
<1>. QED
  BY <1>0, <1>1, <1>2, <1>3, <1>4, <1>5, <1>6, <1>7, <1>8, <1>9, <1>10, <1>11, <1>12, <1>13,
      <1>14, <1>15, <1>16, <1>17, <1>18, <1>19, <1>20, <1>21, <1>22, <1>23, <1>24, <1>25,
      <1>26, <1>27, <1>28, <1>29, <1>30, <1>31, <1>32, <1>33, <1>34, <1>35, <1>36, <1>37,
      <1>38, <1>39, <1>40, <1>41, <1>42, <1>43, <1>44, <1>45, <1>46, <1>47
  DEF Next, Application, Control, Start, Releasing, WaitTimesOut, Mainloop, Threads, Records

LEMMA KeptWas == Typed /\ ReleaseOrder /\ [Next]_vars /\ Kept' => Kept
<1>. SUFFICES ASSUME Typed, ReleaseOrder, [Next]_vars, Kept' PROVE Kept  OBVIOUS
<1>. USE DEF Kept, ReleaseOrder, client, server, stream, Goto
<1>0. CASE UNCHANGED vars  BY <1>0 DEF vars
<1>1. ASSUME StartAudioStream, mode' = mode PROVE Kept
  BY <1>1 DEF StartAudioStream, Call
<1>2. ASSUME PauseAudioStream, mode' = mode PROVE Kept
  BY <1>2 DEF PauseAudioStream, Call
<1>3. ASSUME FlushAudioStream, mode' = mode PROVE Kept
  BY <1>3 DEF FlushAudioStream, Call
<1>4. ASSUME DrainAudioStream, mode' = mode PROVE Kept
  BY <1>4 DEF DrainAudioStream, Call
<1>5. ASSUME StopAudioStream, mode' = mode PROVE Kept
  BY <1>5 DEF StopAudioStream
<1>6. ASSUME ReleaseAudioStream, mode' = mode PROVE Kept
  BY <1>6 DEF ReleaseAudioStream
<1>7. ASSUME WriteInner, mode' = mode PROVE Kept
  BY <1>7 DEF WriteInner
<1>8. ASSUME NEW t \in Threads, StartEnter(t), mode' = mode PROVE Kept
  BY <1>8 DEF StartEnter
<1>9. ASSUME NEW t \in Threads, StartLocked(t), mode' = mode PROVE Kept
  BY <1>9 DEF StartLocked, Check, Refuse
<1>10. ASSUME NEW t \in Threads, StartSets(t), mode' = mode PROVE Kept
  BY <1>10 DEF StartSets, Set
<1>11. ASSUME NEW t \in Threads, StartRender(t), mode' = mode PROVE Kept
  BY <1>11 DEF StartRender, Submit, Queued, Answered
<1>12. ASSUME Pause, mode' = mode PROVE Kept
  BY <1>12 DEF Pause, Check, Refuse
<1>13. ASSUME PauseSets, mode' = mode PROVE Kept
  BY <1>13 DEF PauseSets, Set
<1>14. ASSUME PauseRender, mode' = mode PROVE Kept
  BY <1>14 DEF PauseRender, Submit, Queued, Answered
<1>15. ASSUME Flush, mode' = mode PROVE Kept
  BY <1>15 DEF Flush, Check, Refuse
<1>16. ASSUME FlushSets, mode' = mode PROVE Kept
  BY <1>16 DEF FlushSets, Set
<1>17. ASSUME FlushStream, mode' = mode PROVE Kept
  BY <1>17 DEF FlushStream, Answered
<1>18. ASSUME Drain, mode' = mode PROVE Kept
  BY <1>18 DEF Drain, Check, Refuse
<1>19. ASSUME DrainSets, mode' = mode PROVE Kept
  BY <1>19 DEF DrainSets, Set
<1>20. ASSUME DrainStream, mode' = mode PROVE Kept
  BY <1>20 DEF DrainStream, Answered
<1>21. ASSUME Stop, mode' = mode PROVE Kept
  BY <1>21 DEF Stop, Check, Refuse
<1>22. ASSUME StopSets, mode' = mode PROVE Kept
  BY <1>22 DEF StopSets, Set
<1>23. ASSUME EndStandBy, mode' = mode PROVE Kept
  BY <1>23 DEF EndStandBy
<1>24. ASSUME StopRender, mode' = mode PROVE Kept
  BY <1>24 DEF StopRender, Submit, Queued, Answered
<1>25. ASSUME StateReached, mode' = mode PROVE Kept
  BY <1>25 DEF StateReached, Finish
<1>26. ASSUME OperationNotified, mode' = mode PROVE Kept
  BY <1>26 DEF OperationNotified, Finish
<1>27. ASSUME StopAfterDrain, mode' = mode PROVE Kept
  BY <1>27 DEF StopAfterDrain, Call
<1>28. ASSUME StopNotNeeded, mode' = mode PROVE Kept
  BY <1>28 DEF StopNotNeeded
<1>29. ASSUME Release, mode' = mode PROVE Kept
  BY <1>29 DEF Release
<1>30. ASSUME ReleaseRender, mode' = mode PROVE Kept
  BY <1>30 DEF ReleaseRender
<1>31. ASSUME ReleaseMark, mode' = mode PROVE Kept
  BY <1>31 DEF ReleaseMark
<1>32. ASSUME StartTimesOut, mode' = mode PROVE Kept
  BY <1>32 DEF StartTimesOut, MayTimeOut
<1>33. ASSUME PauseTimesOut, mode' = mode PROVE Kept
  BY <1>33 DEF PauseTimesOut, MayTimeOut, Finish
<1>34. ASSUME StopTimesOut, mode' = mode PROVE Kept
  BY <1>34 DEF StopTimesOut, MayTimeOut, Finish
<1>35. ASSUME NotifyTimesOut, mode' = mode PROVE Kept
  BY <1>35 DEF NotifyTimesOut, MayTimeOut, Finish
<1>36. ASSUME OnStarted, mode' = mode PROVE Kept
  BY <1>36 DEF OnStarted, Completes, Notify
<1>37. ASSUME OnPaused, mode' = mode PROVE Kept
  BY <1>37 DEF OnPaused, Completes, Notify
<1>38. ASSUME OnPausedInStandBy, mode' = mode PROVE Kept
  BY <1>38 DEF OnPausedInStandBy
<1>39. ASSUME OnStopped, mode' = mode PROVE Kept
  BY <1>39 DEF OnStopped, Completes, Notify
<1>40. ASSUME OnFlushed, mode' = mode PROVE Kept
  BY <1>40 DEF OnFlushed, Completes, Notify
<1>41. ASSUME Flushed, mode' = mode PROVE Kept
  BY <1>41 DEF Flushed, Store, Notify
<1>42. ASSUME Drained, mode' = mode PROVE Kept
  BY <1>42 DEF Drained, Store, Notify
<1>43. ASSUME OnCorked, mode' = mode PROVE Kept
  BY <1>43 DEF OnCorked, Completes
<1>44. ASSUME EnterStandBy, mode' = mode PROVE Kept
  BY <1>44 DEF EnterStandBy
<1>45. ASSUME OnDrained, mode' = mode PROVE Kept
  BY <1>45 DEF OnDrained
<1>46. ASSUME StandByCheck, mode' = mode PROVE Kept
  BY <1>46 DEF StandByCheck
<1>47. ASSUME OnOperationHandled, mode' = mode PROVE Kept
  BY <1>47 DEF OnOperationHandled
<1>. QED
  BY <1>0, <1>1, <1>2, <1>3, <1>4, <1>5, <1>6, <1>7, <1>8, <1>9, <1>10, <1>11, <1>12, <1>13,
      <1>14, <1>15, <1>16, <1>17, <1>18, <1>19, <1>20, <1>21, <1>22, <1>23, <1>24, <1>25,
      <1>26, <1>27, <1>28, <1>29, <1>30, <1>31, <1>32, <1>33, <1>34, <1>35, <1>36, <1>37,
      <1>38, <1>39, <1>40, <1>41, <1>42, <1>43, <1>44, <1>45, <1>46, <1>47
  DEF Next, Application, Control, Start, Releasing, WaitTimesOut, Mainloop, Threads, Records

LEMMA NextStall ==
    Typed /\ Looked /\ ReleaseOrder /\ StallIsSeen /\ [Next]_vars => StallIsSeen'
<1>. SUFFICES ASSUME Typed, Looked, ReleaseOrder, StallIsSeen, [Next]_vars, Kept'
              PROVE  StallIsSeen'
  BY DEF StallIsSeen
<1>. Kept  BY KeptWas
<1>. USE DEF StallIsSeen, UnderWay, Typed, FlagsOK, Threads, PaOperations, Operations, Changes,
             client, server, stream, Goto, Serves, StatusMutexFree, Waiting
<1>0. CASE UNCHANGED vars  BY <1>0, UntoldTells DEF vars, ClientOK
<1>1. ASSUME StartAudioStream, mode' = mode PROVE StallIsSeen'
  BY <1>1, UntoldTells DEF StartAudioStream, Call
<1>2. ASSUME PauseAudioStream, mode' = mode PROVE StallIsSeen'
  BY <1>2, UntoldTells DEF PauseAudioStream, Call
<1>3. ASSUME FlushAudioStream, mode' = mode PROVE StallIsSeen'
  BY <1>3, UntoldTells DEF FlushAudioStream, Call
<1>4. ASSUME DrainAudioStream, mode' = mode PROVE StallIsSeen'
  BY <1>4, UntoldTells DEF DrainAudioStream, Call
<1>5. ASSUME StopAudioStream, mode' = mode PROVE StallIsSeen'
  BY <1>5, UntoldTells DEF ClientOK, StopAudioStream
<1>6. ASSUME ReleaseAudioStream, mode' = mode PROVE StallIsSeen'
  BY <1>6, UntoldTells DEF Kept, ReleaseAudioStream
<1>7. ASSUME WriteInner, mode' = mode PROVE StallIsSeen'
  BY <1>7, UntoldTells DEF WriteInner
<1>8. ASSUME NEW t \in Threads, StartEnter(t), mode' = mode PROVE StallIsSeen'
  BY <1>8, UntoldTells DEF ClientOK, StartEnter
<1>9. ASSUME NEW t \in Threads, StartLocked(t), mode' = mode PROVE StallIsSeen'
  BY <1>9, UntoldTells DEF ClientOK, StartLocked, Check, Refuse
<1>10. ASSUME NEW t \in Threads, StartSets(t), mode' = mode PROVE StallIsSeen'
  BY <1>10, UntoldTells DEF ClientOK, StartSets, Set
<1>11. ASSUME NEW t \in Threads, StartRender(t), mode' = mode PROVE StallIsSeen'
  BY <1>11, QueuedAdds, UntoldTells DEF Kept, StartRender, Submit, Queued, Answered
<1>12. ASSUME Pause, mode' = mode PROVE StallIsSeen'
  BY <1>12, UntoldTells DEF ClientOK, Pause, Check, Refuse
<1>13. ASSUME PauseSets, mode' = mode PROVE StallIsSeen'
  BY <1>13, UntoldTells DEF ClientOK, PauseSets, Set
<1>14. ASSUME PauseRender, mode' = mode PROVE StallIsSeen'
  BY <1>14, QueuedAdds, UntoldTells DEF Kept, PauseRender, Submit, Queued, Answered
<1>15. ASSUME Flush, mode' = mode PROVE StallIsSeen'
  BY <1>15, UntoldTells DEF ClientOK, Flush, Check, Refuse
<1>16. ASSUME FlushSets, mode' = mode PROVE StallIsSeen'
  BY <1>16, UntoldTells DEF ClientOK, FlushSets, Set
<1>17. ASSUME FlushStream, mode' = mode PROVE StallIsSeen'
  BY <1>17, QueuedAdds, UntoldTells DEF ClientOK, FlushStream, Answered
<1>18. ASSUME Drain, mode' = mode PROVE StallIsSeen'
  BY <1>18, UntoldTells DEF ClientOK, Drain, Check, Refuse
<1>19. ASSUME DrainSets, mode' = mode PROVE StallIsSeen'
  BY <1>19, UntoldTells DEF ClientOK, DrainSets, Set
<1>20. ASSUME DrainStream, mode' = mode PROVE StallIsSeen'
  BY <1>20, UntoldTells DEF ClientOK, DrainStream, Answered
<1>21. ASSUME Stop, mode' = mode PROVE StallIsSeen'
  BY <1>21, UntoldTells DEF ClientOK, Stop, Check, Refuse
<1>22. ASSUME StopSets, mode' = mode PROVE StallIsSeen'
  BY <1>22, UntoldTells DEF ClientOK, StopSets, Set
<1>23. ASSUME EndStandBy, mode' = mode PROVE StallIsSeen'
  BY <1>23, UntoldTells DEF Looked, ClientOK, EndStandBy
<1>24. ASSUME StopRender, mode' = mode PROVE StallIsSeen'
  BY <1>24, QueuedAdds, UntoldTells DEF Kept, StopRender, Submit, Queued, Answered
<1>25. ASSUME StateReached, mode' = mode PROVE StallIsSeen'
  BY <1>25, UntoldTells DEF StateReached, Finish
<1>26. ASSUME OperationNotified, mode' = mode PROVE StallIsSeen'
  BY <1>26, UntoldTells DEF OperationNotified, Finish
<1>27. ASSUME StopAfterDrain, mode' = mode PROVE StallIsSeen'
  BY <1>27, UntoldTells, OwnChangeTells DEF StopAfterDrain, Call
<1>28. ASSUME StopNotNeeded, mode' = mode PROVE StallIsSeen'
  BY <1>28, UntoldTells DEF StopNotNeeded
<1>29. ASSUME Release, mode' = mode PROVE StallIsSeen'
  BY <1>29, UntoldTells DEF Release
<1>30. ASSUME ReleaseRender, mode' = mode PROVE StallIsSeen'
  BY <1>30, QueuedAdds, UntoldTells DEF ReleaseRender
<1>31. ASSUME ReleaseMark, mode' = mode PROVE StallIsSeen'
  BY <1>31, UntoldTells DEF ReleaseMark
<1>32. ASSUME StartTimesOut, mode' = mode PROVE StallIsSeen'
  BY <1>32, UntoldTells DEF StartTimesOut, MayTimeOut
<1>33. ASSUME PauseTimesOut, mode' = mode PROVE StallIsSeen'
  BY <1>33, UntoldTells DEF PauseTimesOut, MayTimeOut, Finish
<1>34. ASSUME StopTimesOut, mode' = mode PROVE StallIsSeen'
  BY <1>34, OwnChangeTells DEF StopTimesOut, MayTimeOut, Finish
<1>35. ASSUME NotifyTimesOut, mode' = mode PROVE StallIsSeen'
  BY <1>35, UntoldTells DEF NotifyTimesOut, MayTimeOut, Finish
<1>36. ASSUME OnStarted, mode' = mode PROVE StallIsSeen'
  BY <1>36, CompletesKeeps, NotifyTells DEF OnStarted, Completes, Notify
<1>37. ASSUME OnPaused, mode' = mode PROVE StallIsSeen'
  BY <1>37, CompletesKeeps, NotifyTells, UntoldTells DEF WaitedFor, OnPaused,
      Completes, Notify
<1>38. ASSUME OnPausedInStandBy, mode' = mode PROVE StallIsSeen'
  BY <1>38, UntoldTells DEF OnPausedInStandBy
<1>39. ASSUME OnStopped, mode' = mode PROVE StallIsSeen'
  BY <1>39, CompletesKeeps, NotifyTells DEF WaitedFor, OnStopped, Completes, Notify
<1>40. ASSUME OnFlushed, mode' = mode PROVE StallIsSeen'
  BY <1>40, CompletesKeeps, NotifyTells, UntoldTells DEF OnFlushed, Completes, Notify
<1>41. ASSUME Flushed, mode' = mode PROVE StallIsSeen'
  BY <1>41, NotifyTells DEF FlushingWhen, Flushed, Store, Notify
<1>42. ASSUME Drained, mode' = mode PROVE StallIsSeen'
  BY <1>42, NotifyTells DEF Drained, Store, Notify
<1>43. ASSUME OnCorked, mode' = mode PROVE StallIsSeen'
  BY <1>43, CompletesKeeps, UntoldTells DEF Kept, ReleaseOrder, OnCorked, Completes
<1>44. ASSUME EnterStandBy, mode' = mode PROVE StallIsSeen'
  BY <1>44, QueuedAdds, UntoldTells DEF EnterStandBy
<1>45. ASSUME OnDrained, mode' = mode PROVE StallIsSeen'
  BY <1>45, UntoldTells DEF OnDrained
<1>46. ASSUME StandByCheck, mode' = mode PROVE StallIsSeen'
  BY <1>46, UntoldTells DEF StandByCheck
<1>47. ASSUME OnOperationHandled, mode' = mode PROVE StallIsSeen'
  BY <1>47, HandledTells DEF OnOperationHandled
<1>. QED
  BY <1>0, <1>1, <1>2, <1>3, <1>4, <1>5, <1>6, <1>7, <1>8, <1>9, <1>10, <1>11, <1>12, <1>13,
      <1>14, <1>15, <1>16, <1>17, <1>18, <1>19, <1>20, <1>21, <1>22, <1>23, <1>24, <1>25,
      <1>26, <1>27, <1>28, <1>29, <1>30, <1>31, <1>32, <1>33, <1>34, <1>35, <1>36, <1>37,
      <1>38, <1>39, <1>40, <1>41, <1>42, <1>43, <1>44, <1>45, <1>46, <1>47
  DEF Next, Application, Control, Start, Releasing, WaitTimesOut, Mainloop, Threads, Records

LEMMA Steadiness == Spec => []Steady
<1>1. Steady /\ [Next]_vars => Steady'
  BY NextTyped, NextLooked, NextReleaseOrder, NextStall DEF Steady
<1>. QED  BY InitSteady, <1>1, PTL DEF Spec

(* A stream the client believes to be RUNNING never stalls unseen: once    *)
(* nothing is under way it plays, or its next Write will find the          *)
(* stand-by.                                                               *)
THEOREM StallsAreSeen == Spec => []NoSilentStall
<1>1. Steady => NoSilentStall
  <2>. SUFFICES ASSUME Steady, Quiet, registered, state = "RUNNING", corked
                PROVE  standByEnable /\ streamStatus = "STAND_BY"
    BY DEF NoSilentStall
  <2>1. Tells("RUNNING")  BY ToldEmpty DEF Quiet, Tells
  <2>2. ~UnderWay  BY HasEmpty DEF Quiet, UnderWay, Threads
  <2>. QED  BY <2>1, <2>2 DEF Steady, StallIsSeen, Kept, Quiet
<1>. QED  BY <1>1, Steadiness, PTL

-----------------------------------------------------------------------------
(* In normal write mode, with no stand-by, only the control thread and the *)
(* mainloop touch the stream.                                              *)
PlainStream ==
    Plain => /\ mainloop \notin {"paused", "standby"} /\ pc["writer"] = "out"
             /\ ~standByEnable /\ streamStatus = "ACTIVE"

Submits(o) == op = o /\ pc["control"] = "queue"

(* A handler was admitted: what will leave this status_ is still to come.  *)
AdmittedIsPending ==
    Plain /\ Kept =>
        /\ status = "STARTING" => Has(queue, "start") \/ Submits("start")
        /\ status = "PAUSING" =>
              \/ Has(queue, "pause")
              \/ op = "pause" /\ pc["control"] \in {"standby", "queue"}
        /\ status = "STOPPING" =>
              \/ Has(queue, "stop")
              \/ op \in {"stop", "abort"} /\ pc["control"] \in {"standby", "queue"}
        /\ status \in Flushings =>
              Has(queue, "flush") \/ Submits("flush") \/ mainloop \in Flushings
        /\ status = "DRAINING" =>
              drains # {} \/ Submits("drain") \/ mainloop = "DRAINING"

(* What the client takes the stream for, or will, is what the PulseAudio   *)
(* stream is; after a Stop that timed out it may take it for nothing.      *)
StreamIsTold ==
    Plain /\ Kept =>
        \/ Tells("INVALID")
        \/ Tells("RUNNING") /\ ~corked
        \/ corked /\ \E x \in {"PREPARED", "PAUSED", "STOPPED"} : Tells(x)

(* What status_ says of both, if every store to it went by what it was.    *)
Story(x, cork) == corked = cork /\ (Tells(x) \/ Tells("INVALID"))

StatusIsTold ==
    ~stale /\ Plain /\ Kept =>
        /\ status = "IDLE" => Story("PREPARED", TRUE)
        /\ status \in {"STARTED", "FLUSHING_WHEN_STARTED", "DRAINING"} => Story("RUNNING", FALSE)
        /\ status \in {"PAUSED", "FLUSHING_WHEN_PAUSED"} => Story("PAUSED", TRUE)
        /\ status \in {"STOPPED", "FLUSHING_WHEN_STOPPED"} => Story("STOPPED", TRUE)

(* A Stop that has timed out is still queued, and so is the Stop that      *)
(* waits until the client is told, behind everything else.                 *)
StopIsLast ==
    Plain /\ Kept =>
        /\ Tells("INVALID") => Has(queue, "stop")
        /\ op = "stop" /\ pc["control"] = "wait" =>
              EndsIn(queue, "stop") \/ (queue = <<>> /\ Tells("STOPPED"))

Consistent ==
    /\ Typed /\ Looked /\ ReleaseOrder /\ PlainStream
    /\ AdmittedIsPending /\ StreamIsTold /\ StatusIsTold /\ StopIsLast

LEMMA InitConsistent == Init => Consistent
<1>. SUFFICES ASSUME Init PROVE Consistent  OBVIOUS
<1>1. Typed /\ Looked /\ ReleaseOrder  BY InitSteady DEF Steady
<1>2. \A x : Tells(x) <=> x = "PREPARED"  BY ToldEmpty DEF Init, Tells
<1>3. PlainStream  BY DEF Init, PlainStream, Threads
<1>4. AdmittedIsPending  BY DEF Init, AdmittedIsPending, Flushings, FlushingWhen
<1>5. StatusIsTold  BY <1>2 DEF Init, StatusIsTold, Story
<1>6. StopIsLast  BY <1>2 DEF Init, StopIsLast, Threads
<1>7. StreamIsTold  BY <1>2 DEF Init, StreamIsTold
<1>. QED  BY <1>1, <1>3, <1>4, <1>5, <1>6, <1>7 DEF Consistent

LEMMA NextPlain == Typed /\ PlainStream /\ [Next]_vars => PlainStream'
<1>. SUFFICES ASSUME Typed, PlainStream, [Next]_vars PROVE PlainStream'  OBVIOUS
<1>. USE DEF PlainStream, Plain, Typed, ClientOK, Threads, client, server, stream, Goto, Serves
<1>0. CASE UNCHANGED vars  BY <1>0 DEF vars
<1>1. ASSUME StartAudioStream, mode' = mode PROVE PlainStream'
  BY <1>1 DEF StartAudioStream, Call
<1>2. ASSUME PauseAudioStream, mode' = mode PROVE PlainStream'
  BY <1>2 DEF PauseAudioStream, Call
<1>3. ASSUME FlushAudioStream, mode' = mode PROVE PlainStream'
  BY <1>3 DEF FlushAudioStream, Call
<1>4. ASSUME DrainAudioStream, mode' = mode PROVE PlainStream'
  BY <1>4 DEF DrainAudioStream, Call
<1>5. ASSUME StopAudioStream, mode' = mode PROVE PlainStream'
  BY <1>5 DEF StopAudioStream
<1>6. ASSUME ReleaseAudioStream, mode' = mode PROVE PlainStream'
  BY <1>6 DEF ReleaseAudioStream
<1>7. ASSUME WriteInner, mode' = mode PROVE PlainStream'
  BY <1>7 DEF WriteInner
<1>8. ASSUME NEW t \in Threads, StartEnter(t), mode' = mode PROVE PlainStream'
  BY <1>8 DEF StartEnter
<1>9. ASSUME NEW t \in Threads, StartLocked(t), mode' = mode PROVE PlainStream'
  BY <1>9 DEF StartLocked, Check, Refuse
<1>10. ASSUME NEW t \in Threads, StartSets(t), mode' = mode PROVE PlainStream'
  BY <1>10 DEF StartSets, Set
<1>11. ASSUME NEW t \in Threads, StartRender(t), mode' = mode PROVE PlainStream'
  BY <1>11 DEF StartRender, Submit, Queued, Answered
<1>12. ASSUME Pause, mode' = mode PROVE PlainStream'
  BY <1>12 DEF Pause, Check, Refuse
<1>13. ASSUME PauseSets, mode' = mode PROVE PlainStream'
  BY <1>13 DEF PauseSets, Set
<1>14. ASSUME PauseRender, mode' = mode PROVE PlainStream'
  BY <1>14 DEF PauseRender, Submit, Queued, Answered
<1>15. ASSUME Flush, mode' = mode PROVE PlainStream'
  BY <1>15 DEF Flush, Check, Refuse
<1>16. ASSUME FlushSets, mode' = mode PROVE PlainStream'
  BY <1>16 DEF FlushSets, Set
<1>17. ASSUME FlushStream, mode' = mode PROVE PlainStream'
  BY <1>17 DEF FlushStream, Answered
<1>18. ASSUME Drain, mode' = mode PROVE PlainStream'
  BY <1>18 DEF Drain, Check, Refuse
<1>19. ASSUME DrainSets, mode' = mode PROVE PlainStream'
  BY <1>19 DEF DrainSets, Set
<1>20. ASSUME DrainStream, mode' = mode PROVE PlainStream'
  BY <1>20 DEF DrainStream, Answered
<1>21. ASSUME Stop, mode' = mode PROVE PlainStream'
  BY <1>21 DEF Stop, Check, Refuse
<1>22. ASSUME StopSets, mode' = mode PROVE PlainStream'
  BY <1>22 DEF StopSets, Set
<1>23. ASSUME EndStandBy, mode' = mode PROVE PlainStream'
  BY <1>23 DEF EndStandBy
<1>24. ASSUME StopRender, mode' = mode PROVE PlainStream'
  BY <1>24 DEF StopRender, Submit, Queued, Answered
<1>25. ASSUME StateReached, mode' = mode PROVE PlainStream'
  BY <1>25 DEF StateReached, Finish
<1>26. ASSUME OperationNotified, mode' = mode PROVE PlainStream'
  BY <1>26 DEF OperationNotified, Finish
<1>27. ASSUME StopAfterDrain, mode' = mode PROVE PlainStream'
  BY <1>27 DEF StopAfterDrain, Call
<1>28. ASSUME StopNotNeeded, mode' = mode PROVE PlainStream'
  BY <1>28 DEF StopNotNeeded
<1>29. ASSUME Release, mode' = mode PROVE PlainStream'
  BY <1>29 DEF Release
<1>30. ASSUME ReleaseRender, mode' = mode PROVE PlainStream'
  BY <1>30 DEF ReleaseRender
<1>31. ASSUME ReleaseMark, mode' = mode PROVE PlainStream'
  BY <1>31 DEF ReleaseMark
<1>32. ASSUME StartTimesOut, mode' = mode PROVE PlainStream'
  BY <1>32 DEF StartTimesOut, MayTimeOut
<1>33. ASSUME PauseTimesOut, mode' = mode PROVE PlainStream'
  BY <1>33 DEF PauseTimesOut, MayTimeOut, Finish
<1>34. ASSUME StopTimesOut, mode' = mode PROVE PlainStream'
  BY <1>34 DEF StopTimesOut, MayTimeOut, Finish
<1>35. ASSUME NotifyTimesOut, mode' = mode PROVE PlainStream'
  BY <1>35 DEF NotifyTimesOut, MayTimeOut, Finish
<1>36. ASSUME OnStarted, mode' = mode PROVE PlainStream'
  BY <1>36 DEF OnStarted, Completes, Notify
<1>37. ASSUME OnPaused, mode' = mode PROVE PlainStream'
  BY <1>37 DEF OnPaused, Completes, Notify
<1>38. ASSUME OnPausedInStandBy, mode' = mode PROVE PlainStream'
  BY <1>38 DEF OnPausedInStandBy
<1>39. ASSUME OnStopped, mode' = mode PROVE PlainStream'
  BY <1>39 DEF OnStopped, Completes, Notify
<1>40. ASSUME OnFlushed, mode' = mode PROVE PlainStream'
  BY <1>40 DEF Flushings, FlushingWhen, OnFlushed, Completes, Notify
<1>41. ASSUME Flushed, mode' = mode PROVE PlainStream'
  BY <1>41 DEF Flushed, Store, Notify
<1>42. ASSUME Drained, mode' = mode PROVE PlainStream'
  BY <1>42 DEF Drained, Store, Notify
<1>43. ASSUME OnCorked, mode' = mode PROVE PlainStream'
  BY <1>43 DEF OnCorked, Completes
<1>44. ASSUME EnterStandBy, mode' = mode PROVE PlainStream'
  BY <1>44 DEF EnterStandBy
<1>45. ASSUME OnDrained, mode' = mode PROVE PlainStream'
  BY <1>45 DEF OnDrained
<1>46. ASSUME StandByCheck, mode' = mode PROVE PlainStream'
  BY <1>46 DEF StandByCheck
<1>47. ASSUME OnOperationHandled, mode' = mode PROVE PlainStream'
  BY <1>47 DEF OnOperationHandled
<1>. QED
  BY <1>0, <1>1, <1>2, <1>3, <1>4, <1>5, <1>6, <1>7, <1>8, <1>9, <1>10, <1>11, <1>12, <1>13,
      <1>14, <1>15, <1>16, <1>17, <1>18, <1>19, <1>20, <1>21, <1>22, <1>23, <1>24, <1>25,
      <1>26, <1>27, <1>28, <1>29, <1>30, <1>31, <1>32, <1>33, <1>34, <1>35, <1>36, <1>37,
      <1>38, <1>39, <1>40, <1>41, <1>42, <1>43, <1>44, <1>45, <1>46, <1>47
  DEF Next, Application, Control, Start, Releasing, WaitTimesOut, Mainloop, Threads, Records

LEMMA NextAdmittedIsPending ==
    Typed /\ Looked /\ ReleaseOrder /\ PlainStream /\ AdmittedIsPending /\ [Next]_vars =>
        AdmittedIsPending'
<1>. SUFFICES ASSUME Typed, Looked, ReleaseOrder, PlainStream, AdmittedIsPending, [Next]_vars,
                     Kept', Plain'
              PROVE  AdmittedIsPending'
  BY DEF AdmittedIsPending
<1>. Kept  BY KeptWas
<1>. USE DEF AdmittedIsPending, Submits, Flushings, FlushingWhen, Typed, FlagsOK, Threads, PaOperations, Operations, Changes,
             client, server, stream, Goto, Serves, StatusMutexFree, Waiting
<1>0. CASE UNCHANGED vars  BY <1>0 DEF vars, Plain
<1>1. ASSUME StartAudioStream, mode' = mode PROVE AdmittedIsPending'
  BY <1>1 DEF Plain, PlainStream, ServerOK, StartAudioStream, Call
<1>2. ASSUME PauseAudioStream, mode' = mode PROVE AdmittedIsPending'
  BY <1>2 DEF Plain, PlainStream, ServerOK, PauseAudioStream, Call
<1>3. ASSUME FlushAudioStream, mode' = mode PROVE AdmittedIsPending'
  BY <1>3 DEF Plain, PlainStream, ServerOK, FlushAudioStream, Call
<1>4. ASSUME DrainAudioStream, mode' = mode PROVE AdmittedIsPending'
  BY <1>4 DEF Plain, PlainStream, ServerOK, DrainAudioStream, Call
<1>5. ASSUME StopAudioStream, mode' = mode PROVE AdmittedIsPending'
  BY <1>5 DEF Plain, PlainStream, ServerOK, StopAudioStream
<1>6. ASSUME ReleaseAudioStream, mode' = mode PROVE AdmittedIsPending'
  BY <1>6 DEF Plain, PlainStream, ServerOK, ReleaseAudioStream
<1>7. ASSUME WriteInner, mode' = mode PROVE AdmittedIsPending'
  BY <1>7 DEF Plain, PlainStream, ServerOK, WriteInner
<1>8. ASSUME NEW t \in Threads, StartEnter(t), mode' = mode PROVE AdmittedIsPending'
  BY <1>8 DEF Plain, PlainStream, ServerOK, StartEnter
<1>9. ASSUME NEW t \in Threads, StartLocked(t), mode' = mode PROVE AdmittedIsPending'
  BY <1>9 DEF Plain, PlainStream, ClientOK, ServerOK, StartLocked, Check, Refuse
<1>10. ASSUME NEW t \in Threads, StartSets(t), mode' = mode PROVE AdmittedIsPending'
  BY <1>10 DEF Plain, PlainStream, ClientOK, ServerOK, StartSets, Set
<1>11. ASSUME NEW t \in Threads, StartRender(t), mode' = mode PROVE AdmittedIsPending'
  BY <1>11, QueuedAdds DEF Kept, Plain, PlainStream, ServerOK, StartRender, Submit,
      Queued, Answered
<1>12. ASSUME Pause, mode' = mode PROVE AdmittedIsPending'
  BY <1>12 DEF Plain, PlainStream, ClientOK, ServerOK, Pause, Check, Refuse
<1>13. ASSUME PauseSets, mode' = mode PROVE AdmittedIsPending'
  BY <1>13 DEF Plain, PlainStream, ClientOK, ServerOK, PauseSets, Set
<1>14. ASSUME PauseRender, mode' = mode PROVE AdmittedIsPending'
  BY <1>14, QueuedAdds DEF Kept, Plain, PlainStream, ServerOK, PauseRender, Submit,
      Queued, Answered
<1>15. ASSUME Flush, mode' = mode PROVE AdmittedIsPending'
  BY <1>15 DEF Plain, PlainStream, ClientOK, ServerOK, FlushingWhen, Flush, Check,
      Refuse
<1>16. ASSUME FlushSets, mode' = mode PROVE AdmittedIsPending'
  BY <1>16 DEF Plain, PlainStream, ClientOK, ServerOK, Looked, Saw, FlushSets, Set
<1>17. ASSUME FlushStream, mode' = mode PROVE AdmittedIsPending'
  BY <1>17, QueuedAdds DEF Kept, Plain, PlainStream, ServerOK, FlushStream, Answered
<1>18. ASSUME Drain, mode' = mode PROVE AdmittedIsPending'
  BY <1>18 DEF Plain, PlainStream, ClientOK, ServerOK, Drain, Check, Refuse
<1>19. ASSUME DrainSets, mode' = mode PROVE AdmittedIsPending'
  BY <1>19 DEF Plain, PlainStream, ClientOK, ServerOK, DrainSets, Set
<1>20. ASSUME DrainStream, mode' = mode PROVE AdmittedIsPending'
  BY <1>20 DEF Plain, PlainStream, ServerOK, DrainStream, Answered
<1>21. ASSUME Stop, mode' = mode PROVE AdmittedIsPending'
  BY <1>21 DEF Plain, PlainStream, ClientOK, ServerOK, Stop, Check, Refuse
<1>22. ASSUME StopSets, mode' = mode PROVE AdmittedIsPending'
  BY <1>22 DEF Plain, PlainStream, ClientOK, ServerOK, StopSets, Set
<1>23. ASSUME EndStandBy, mode' = mode PROVE AdmittedIsPending'
  BY <1>23 DEF Plain, PlainStream, ServerOK, EndStandBy
<1>24. ASSUME StopRender, mode' = mode PROVE AdmittedIsPending'
  BY <1>24, QueuedAdds DEF Kept, Plain, PlainStream, ServerOK, StopRender, Submit,
      Queued, Answered
<1>25. ASSUME StateReached, mode' = mode PROVE AdmittedIsPending'
  BY <1>25 DEF Plain, PlainStream, ServerOK, StateReached, Finish
<1>26. ASSUME OperationNotified, mode' = mode PROVE AdmittedIsPending'
  BY <1>26 DEF Plain, PlainStream, ServerOK, OperationNotified, Finish
<1>27. ASSUME StopAfterDrain, mode' = mode PROVE AdmittedIsPending'
  BY <1>27 DEF Plain, PlainStream, ServerOK, StopAfterDrain, Call
<1>28. ASSUME StopNotNeeded, mode' = mode PROVE AdmittedIsPending'
  BY <1>28 DEF Plain, PlainStream, ServerOK, StopNotNeeded
<1>29. ASSUME Release, mode' = mode PROVE AdmittedIsPending'
  BY <1>29 DEF Plain, PlainStream, ServerOK, Release
<1>30. ASSUME ReleaseRender, mode' = mode PROVE AdmittedIsPending'
  BY <1>30, QueuedAdds DEF Plain, PlainStream, ServerOK, ReleaseRender
<1>31. ASSUME ReleaseMark, mode' = mode PROVE AdmittedIsPending'
  BY <1>31 DEF Plain, PlainStream, ServerOK, ReleaseMark
<1>32. ASSUME StartTimesOut, mode' = mode PROVE AdmittedIsPending'
  BY <1>32 DEF Plain, PlainStream, ServerOK, StartTimesOut, MayTimeOut
<1>33. ASSUME PauseTimesOut, mode' = mode PROVE AdmittedIsPending'
  BY <1>33 DEF Plain, PlainStream, ServerOK, PauseTimesOut, MayTimeOut, Finish
<1>34. ASSUME StopTimesOut, mode' = mode PROVE AdmittedIsPending'
  BY <1>34 DEF Plain, PlainStream, ServerOK, StopTimesOut, MayTimeOut, Finish
<1>35. ASSUME NotifyTimesOut, mode' = mode PROVE AdmittedIsPending'
  BY <1>35 DEF Plain, PlainStream, ServerOK, NotifyTimesOut, MayTimeOut, Finish
<1>36. ASSUME OnStarted, mode' = mode PROVE AdmittedIsPending'
  BY <1>36, CompletesKeeps DEF Plain, PlainStream, ServerOK, OnStarted, Completes,
      Notify
<1>37. ASSUME OnPaused, mode' = mode PROVE AdmittedIsPending'
  BY <1>37, CompletesKeeps DEF Plain, PlainStream, ServerOK, OnPaused, Completes, Notify
<1>38. ASSUME OnPausedInStandBy, mode' = mode PROVE AdmittedIsPending'
  BY <1>38 DEF Plain, PlainStream, ServerOK, OnPausedInStandBy
<1>39. ASSUME OnStopped, mode' = mode PROVE AdmittedIsPending'
  BY <1>39, CompletesKeeps DEF Plain, PlainStream, ServerOK, OnStopped, Completes,
      Notify
<1>40. ASSUME OnFlushed, mode' = mode PROVE AdmittedIsPending'
  BY <1>40, CompletesKeeps DEF Plain, PlainStream, ServerOK, FlushingWhen, OnFlushed,
      Completes, Notify
<1>41. ASSUME Flushed, mode' = mode PROVE AdmittedIsPending'
  BY <1>41 DEF Plain, PlainStream, ServerOK, Flushed, Store, Notify
<1>42. ASSUME Drained, mode' = mode PROVE AdmittedIsPending'
  BY <1>42 DEF Plain, PlainStream, ServerOK, Drained, Store, Notify
<1>43. ASSUME OnCorked, mode' = mode PROVE AdmittedIsPending'
  BY <1>43, CompletesKeeps DEF Plain, PlainStream, ServerOK, OnCorked, Completes
<1>44. ASSUME EnterStandBy, mode' = mode PROVE AdmittedIsPending'
  BY <1>44, QueuedAdds DEF Plain, PlainStream, ServerOK, EnterStandBy
<1>45. ASSUME OnDrained, mode' = mode PROVE AdmittedIsPending'
  BY <1>45 DEF Plain, PlainStream, ServerOK, OnDrained
<1>46. ASSUME StandByCheck, mode' = mode PROVE AdmittedIsPending'
  BY <1>46 DEF Plain, PlainStream, ServerOK, StandByCheck
<1>47. ASSUME OnOperationHandled, mode' = mode PROVE AdmittedIsPending'
  BY <1>47 DEF Plain, PlainStream, ServerOK, OnOperationHandled
<1>. QED
  BY <1>0, <1>1, <1>2, <1>3, <1>4, <1>5, <1>6, <1>7, <1>8, <1>9, <1>10, <1>11, <1>12, <1>13,
      <1>14, <1>15, <1>16, <1>17, <1>18, <1>19, <1>20, <1>21, <1>22, <1>23, <1>24, <1>25,
      <1>26, <1>27, <1>28, <1>29, <1>30, <1>31, <1>32, <1>33, <1>34, <1>35, <1>36, <1>37,
      <1>38, <1>39, <1>40, <1>41, <1>42, <1>43, <1>44, <1>45, <1>46, <1>47
  DEF Next, Application, Control, Start, Releasing, WaitTimesOut, Mainloop, Threads, Records

LEMMA NextStreamIsTold ==
    Typed /\ ReleaseOrder /\ PlainStream /\ StreamIsTold /\ [Next]_vars => StreamIsTold'
<1>. SUFFICES ASSUME Typed, ReleaseOrder, PlainStream, StreamIsTold, [Next]_vars,
                     Kept', Plain'
              PROVE  StreamIsTold'
  BY DEF StreamIsTold
<1>. Kept  BY KeptWas
<1>. USE DEF StreamIsTold, Typed, FlagsOK, Threads, PaOperations, Operations, Changes,
             client, server, stream, Goto, Serves, StatusMutexFree, Waiting
<1>0. CASE UNCHANGED vars  BY <1>0, UntoldTells DEF vars, Plain
<1>1. ASSUME StartAudioStream, mode' = mode PROVE StreamIsTold'
  BY <1>1, UntoldTells DEF Plain, PlainStream, ServerOK, StartAudioStream, Call
<1>2. ASSUME PauseAudioStream, mode' = mode PROVE StreamIsTold'
  BY <1>2, UntoldTells DEF Plain, PlainStream, ServerOK, PauseAudioStream, Call
<1>3. ASSUME FlushAudioStream, mode' = mode PROVE StreamIsTold'
  BY <1>3, UntoldTells DEF Plain, PlainStream, ServerOK, FlushAudioStream, Call
<1>4. ASSUME DrainAudioStream, mode' = mode PROVE StreamIsTold'
  BY <1>4, UntoldTells DEF Plain, PlainStream, ServerOK, DrainAudioStream, Call
<1>5. ASSUME StopAudioStream, mode' = mode PROVE StreamIsTold'
  BY <1>5, UntoldTells DEF Plain, PlainStream, ServerOK, StopAudioStream
<1>6. ASSUME ReleaseAudioStream, mode' = mode PROVE StreamIsTold'
  BY <1>6, UntoldTells DEF Kept, Plain, PlainStream, ServerOK, ReleaseAudioStream
<1>7. ASSUME WriteInner, mode' = mode PROVE StreamIsTold'
  BY <1>7, UntoldTells DEF Plain, PlainStream, ServerOK, WriteInner
<1>8. ASSUME NEW t \in Threads, StartEnter(t), mode' = mode PROVE StreamIsTold'
  BY <1>8, UntoldTells DEF Plain, PlainStream, ServerOK, StartEnter
<1>9. ASSUME NEW t \in Threads, StartLocked(t), mode' = mode PROVE StreamIsTold'
  BY <1>9, UntoldTells DEF Plain, PlainStream, ServerOK, StartLocked, Check, Refuse
<1>10. ASSUME NEW t \in Threads, StartSets(t), mode' = mode PROVE StreamIsTold'
  BY <1>10, UntoldTells DEF Plain, PlainStream, ServerOK, StartSets, Set
<1>11. ASSUME NEW t \in Threads, StartRender(t), mode' = mode PROVE StreamIsTold'
  BY <1>11, QueuedAdds, UntoldTells DEF Plain, PlainStream, ServerOK, StartRender,
      Submit, Queued, Answered
<1>12. ASSUME Pause, mode' = mode PROVE StreamIsTold'
  BY <1>12, UntoldTells DEF Plain, PlainStream, ServerOK, Pause, Check, Refuse
<1>13. ASSUME PauseSets, mode' = mode PROVE StreamIsTold'
  BY <1>13, UntoldTells DEF Plain, PlainStream, ServerOK, PauseSets, Set
<1>14. ASSUME PauseRender, mode' = mode PROVE StreamIsTold'
  BY <1>14, QueuedAdds, UntoldTells DEF Plain, PlainStream, ServerOK, PauseRender,
      Submit, Queued, Answered
<1>15. ASSUME Flush, mode' = mode PROVE StreamIsTold'
  BY <1>15, UntoldTells DEF Plain, PlainStream, ServerOK, FlushingWhen, Flush, Check,
      Refuse
<1>16. ASSUME FlushSets, mode' = mode PROVE StreamIsTold'
  BY <1>16, UntoldTells DEF Plain, PlainStream, ServerOK, FlushingWhen, FlushSets, Set
<1>17. ASSUME FlushStream, mode' = mode PROVE StreamIsTold'
  BY <1>17, QueuedAdds, UntoldTells DEF Plain, PlainStream, ServerOK, FlushStream, Answered
<1>18. ASSUME Drain, mode' = mode PROVE StreamIsTold'
  BY <1>18, UntoldTells DEF Plain, PlainStream, ServerOK, Drain, Check, Refuse
<1>19. ASSUME DrainSets, mode' = mode PROVE StreamIsTold'
  BY <1>19, UntoldTells DEF Plain, PlainStream, ServerOK, DrainSets, Set
<1>20. ASSUME DrainStream, mode' = mode PROVE StreamIsTold'
  BY <1>20, UntoldTells DEF Plain, PlainStream, ServerOK, DrainStream, Answered
<1>21. ASSUME Stop, mode' = mode PROVE StreamIsTold'
  BY <1>21, UntoldTells DEF Plain, PlainStream, ServerOK, Stop, Check, Refuse
<1>22. ASSUME StopSets, mode' = mode PROVE StreamIsTold'
  BY <1>22, UntoldTells DEF Plain, PlainStream, ServerOK, StopSets, Set
<1>23. ASSUME EndStandBy, mode' = mode PROVE StreamIsTold'
  BY <1>23, UntoldTells DEF Plain, PlainStream, ServerOK, EndStandBy
<1>24. ASSUME StopRender, mode' = mode PROVE StreamIsTold'
  BY <1>24, QueuedAdds, UntoldTells DEF Plain, PlainStream, ServerOK, StopRender,
      Submit, Queued, Answered
<1>25. ASSUME StateReached, mode' = mode PROVE StreamIsTold'
  BY <1>25, UntoldTells DEF Plain, PlainStream, ServerOK, StateReached, Finish
<1>26. ASSUME OperationNotified, mode' = mode PROVE StreamIsTold'
  BY <1>26, UntoldTells DEF Plain, PlainStream, ServerOK, OperationNotified, Finish
<1>27. ASSUME StopAfterDrain, mode' = mode PROVE StreamIsTold'
  BY <1>27, UntoldTells, OwnChangeTells DEF Plain, PlainStream, ServerOK,
      StopAfterDrain, Call
<1>28. ASSUME StopNotNeeded, mode' = mode PROVE StreamIsTold'
  BY <1>28, UntoldTells DEF Plain, PlainStream, ServerOK, StopNotNeeded
<1>29. ASSUME Release, mode' = mode PROVE StreamIsTold'
  BY <1>29, UntoldTells DEF Plain, PlainStream, ServerOK, Release
<1>30. ASSUME ReleaseRender, mode' = mode PROVE StreamIsTold'
  BY <1>30, QueuedAdds, UntoldTells DEF Plain, PlainStream, ServerOK, ReleaseRender
<1>31. ASSUME ReleaseMark, mode' = mode PROVE StreamIsTold'
  BY <1>31, UntoldTells DEF Plain, PlainStream, ServerOK, ReleaseMark
<1>32. ASSUME StartTimesOut, mode' = mode PROVE StreamIsTold'
  BY <1>32, UntoldTells DEF Plain, PlainStream, ServerOK, StartTimesOut, MayTimeOut
<1>33. ASSUME PauseTimesOut, mode' = mode PROVE StreamIsTold'
  BY <1>33, UntoldTells DEF Plain, PlainStream, ServerOK, PauseTimesOut, MayTimeOut,
      Finish
<1>34. ASSUME StopTimesOut, mode' = mode PROVE StreamIsTold'
  BY <1>34, OwnChangeTells DEF Plain, PlainStream, ServerOK, StopTimesOut, MayTimeOut,
      Finish
<1>35. ASSUME NotifyTimesOut, mode' = mode PROVE StreamIsTold'
  BY <1>35, UntoldTells DEF Plain, PlainStream, ServerOK, NotifyTimesOut, MayTimeOut,
      Finish
<1>36. ASSUME OnStarted, mode' = mode PROVE StreamIsTold'
  BY <1>36, CompletesKeeps, NotifyTells DEF Plain, PlainStream, ServerOK, WaitedFor,
      OnStarted, Completes, Notify
<1>37. ASSUME OnPaused, mode' = mode PROVE StreamIsTold'
  BY <1>37, CompletesKeeps, NotifyTells, UntoldTells DEF Plain, PlainStream, ServerOK,
      WaitedFor, OnPaused, Completes, Notify
<1>38. ASSUME OnPausedInStandBy, mode' = mode PROVE StreamIsTold'
  BY <1>38, UntoldTells DEF Plain, PlainStream, ServerOK, OnPausedInStandBy
<1>39. ASSUME OnStopped, mode' = mode PROVE StreamIsTold'
  BY <1>39, CompletesKeeps, NotifyTells DEF Plain, PlainStream, ServerOK, WaitedFor,
      OnStopped, Completes, Notify
<1>40. ASSUME OnFlushed, mode' = mode PROVE StreamIsTold'
  BY <1>40, CompletesKeeps, NotifyTells, UntoldTells DEF Plain, PlainStream, ServerOK,
      OnFlushed, Completes, Notify
<1>41. ASSUME Flushed, mode' = mode PROVE StreamIsTold'
  BY <1>41, NotifyTells DEF Plain, PlainStream, ServerOK, WaitedFor,
      Flushed, Store, Notify
<1>42. ASSUME Drained, mode' = mode PROVE StreamIsTold'
  BY <1>42, NotifyTells DEF Plain, PlainStream, ServerOK, WaitedFor,
      Drained, Store, Notify
<1>43. ASSUME OnCorked, mode' = mode PROVE StreamIsTold'
  BY <1>43, CompletesKeeps, UntoldTells DEF Kept, Plain, PlainStream, ReleaseOrder,
      ServerOK, OnCorked, Completes
<1>44. ASSUME EnterStandBy, mode' = mode PROVE StreamIsTold'
  BY <1>44, QueuedAdds, UntoldTells DEF Plain, PlainStream, ServerOK, EnterStandBy
<1>45. ASSUME OnDrained, mode' = mode PROVE StreamIsTold'
  BY <1>45, UntoldTells DEF Plain, PlainStream, ServerOK, OnDrained
<1>46. ASSUME StandByCheck, mode' = mode PROVE StreamIsTold'
  BY <1>46, UntoldTells DEF Plain, PlainStream, ServerOK, StandByCheck
<1>47. ASSUME OnOperationHandled, mode' = mode PROVE StreamIsTold'
  BY <1>47, HandledTells DEF Plain, PlainStream, ServerOK, OnOperationHandled
<1>. QED
  BY <1>0, <1>1, <1>2, <1>3, <1>4, <1>5, <1>6, <1>7, <1>8, <1>9, <1>10, <1>11, <1>12, <1>13,
      <1>14, <1>15, <1>16, <1>17, <1>18, <1>19, <1>20, <1>21, <1>22, <1>23, <1>24, <1>25,
      <1>26, <1>27, <1>28, <1>29, <1>30, <1>31, <1>32, <1>33, <1>34, <1>35, <1>36, <1>37,
      <1>38, <1>39, <1>40, <1>41, <1>42, <1>43, <1>44, <1>45, <1>46, <1>47
  DEF Next, Application, Control, Start, Releasing, WaitTimesOut, Mainloop, Threads, Records

LEMMA NextStatusIsTold ==
    Typed /\ Looked /\ ReleaseOrder /\ PlainStream /\ StatusIsTold /\ [Next]_vars =>
        StatusIsTold'
<1>. SUFFICES ASSUME Typed, Looked, ReleaseOrder, PlainStream, StatusIsTold, 
                     [Next]_vars, Kept', Plain', ~stale'
              PROVE  StatusIsTold'
  BY DEF StatusIsTold
<1>. Kept  BY KeptWas
<1>. ~stale  BY DEF Next, Records, vars, Typed
<1>. USE DEF StatusIsTold, Story, Typed, FlagsOK, Threads, PaOperations, Operations, Changes,
             client, server, stream, Goto, Serves, StatusMutexFree, Waiting
<1>0. CASE UNCHANGED vars  BY <1>0, UntoldTells DEF vars, Plain
<1>1. ASSUME StartAudioStream, mode' = mode, ~Overtaken PROVE StatusIsTold'
  BY <1>1, UntoldTells DEF Plain, PlainStream, ServerOK, StartAudioStream, Call
<1>2. ASSUME PauseAudioStream, mode' = mode, ~Overtaken PROVE StatusIsTold'
  BY <1>2, UntoldTells DEF Plain, PlainStream, ServerOK, PauseAudioStream, Call
<1>3. ASSUME FlushAudioStream, mode' = mode, ~Overtaken PROVE StatusIsTold'
  BY <1>3, UntoldTells DEF Plain, PlainStream, ServerOK, FlushAudioStream, Call
<1>4. ASSUME DrainAudioStream, mode' = mode, ~Overtaken PROVE StatusIsTold'
  BY <1>4, UntoldTells DEF Plain, PlainStream, ServerOK, DrainAudioStream, Call
<1>5. ASSUME StopAudioStream, mode' = mode, ~Overtaken PROVE StatusIsTold'
  BY <1>5, UntoldTells DEF Plain, PlainStream, ServerOK, StopAudioStream
<1>6. ASSUME ReleaseAudioStream, mode' = mode, ~Overtaken PROVE StatusIsTold'
  BY <1>6, UntoldTells DEF Kept, Plain, PlainStream, ServerOK, ReleaseAudioStream
<1>7. ASSUME WriteInner, mode' = mode, ~Overtaken PROVE StatusIsTold'
  BY <1>7, UntoldTells DEF Plain, PlainStream, ServerOK, WriteInner
<1>8. ASSUME NEW t \in Threads, StartEnter(t), mode' = mode, ~Overtaken PROVE StatusIsTold'
  BY <1>8, UntoldTells DEF Plain, PlainStream, ServerOK, StartEnter
<1>9. ASSUME NEW t \in Threads, StartLocked(t), mode' = mode, ~Overtaken PROVE StatusIsTold'
  BY <1>9, UntoldTells DEF Plain, PlainStream, ServerOK, StartLocked, Check, Refuse
<1>10. ASSUME NEW t \in Threads, StartSets(t), mode' = mode, ~Overtaken PROVE StatusIsTold'
  BY <1>10, UntoldTells DEF Overtaken, Looked, Saw, Plain, PlainStream, ServerOK, StartSets, Set
<1>11. ASSUME NEW t \in Threads, StartRender(t), mode' = mode, ~Overtaken PROVE StatusIsTold'
  BY <1>11, QueuedAdds, UntoldTells DEF Plain, PlainStream, ServerOK, StartRender,
      Submit, Queued, Answered
<1>12. ASSUME Pause, mode' = mode, ~Overtaken PROVE StatusIsTold'
  BY <1>12, UntoldTells DEF Plain, PlainStream, ServerOK, Pause, Check, Refuse
<1>13. ASSUME PauseSets, mode' = mode, ~Overtaken PROVE StatusIsTold'
  BY <1>13, UntoldTells DEF Overtaken, Looked, Saw, Plain, PlainStream, ServerOK, PauseSets, Set
<1>14. ASSUME PauseRender, mode' = mode, ~Overtaken PROVE StatusIsTold'
  BY <1>14, QueuedAdds, UntoldTells DEF Plain, PlainStream, ServerOK, PauseRender,
      Submit, Queued, Answered
<1>15. ASSUME Flush, mode' = mode, ~Overtaken PROVE StatusIsTold'
  BY <1>15, UntoldTells DEF Plain, PlainStream, ServerOK, FlushingWhen, Flush, Check,
      Refuse
<1>16. ASSUME FlushSets, mode' = mode, ~Overtaken PROVE StatusIsTold'
  BY <1>16, UntoldTells DEF Overtaken, Looked, Saw, Plain, PlainStream, ServerOK, FlushingWhen, FlushSets, Set
<1>17. ASSUME FlushStream, mode' = mode, ~Overtaken PROVE StatusIsTold'
  BY <1>17, QueuedAdds, UntoldTells DEF Plain, PlainStream, ServerOK, FlushStream, Answered
<1>18. ASSUME Drain, mode' = mode, ~Overtaken PROVE StatusIsTold'
  BY <1>18, UntoldTells DEF Plain, PlainStream, ServerOK, Drain, Check, Refuse
<1>19. ASSUME DrainSets, mode' = mode, ~Overtaken PROVE StatusIsTold'
  BY <1>19, UntoldTells DEF Overtaken, Looked, Saw, Plain, PlainStream, ServerOK, DrainSets, Set
<1>20. ASSUME DrainStream, mode' = mode, ~Overtaken PROVE StatusIsTold'
  BY <1>20, UntoldTells DEF Plain, PlainStream, ServerOK, DrainStream, Answered
<1>21. ASSUME Stop, mode' = mode, ~Overtaken PROVE StatusIsTold'
  BY <1>21, UntoldTells DEF Plain, PlainStream, ServerOK, Stop, Check, Refuse
<1>22. ASSUME StopSets, mode' = mode, ~Overtaken PROVE StatusIsTold'
  BY <1>22, UntoldTells DEF Overtaken, Looked, Saw, Plain, PlainStream, ServerOK, StopSets, Set
<1>23. ASSUME EndStandBy, mode' = mode, ~Overtaken PROVE StatusIsTold'
  BY <1>23, UntoldTells DEF Plain, PlainStream, ServerOK, EndStandBy
<1>24. ASSUME StopRender, mode' = mode, ~Overtaken PROVE StatusIsTold'
  BY <1>24, QueuedAdds, UntoldTells DEF Plain, PlainStream, ServerOK, StopRender,
      Submit, Queued, Answered
<1>25. ASSUME StateReached, mode' = mode, ~Overtaken PROVE StatusIsTold'
  BY <1>25, UntoldTells DEF Plain, PlainStream, ServerOK, StateReached, Finish
<1>26. ASSUME OperationNotified, mode' = mode, ~Overtaken PROVE StatusIsTold'
  BY <1>26, UntoldTells DEF Plain, PlainStream, ServerOK, OperationNotified, Finish
<1>27. ASSUME StopAfterDrain, mode' = mode, ~Overtaken PROVE StatusIsTold'
  BY <1>27, UntoldTells, OwnChangeTells DEF Plain, PlainStream, ServerOK,
      StopAfterDrain, Call
<1>28. ASSUME StopNotNeeded, mode' = mode, ~Overtaken PROVE StatusIsTold'
  BY <1>28, UntoldTells DEF Plain, PlainStream, ServerOK, StopNotNeeded
<1>29. ASSUME Release, mode' = mode, ~Overtaken PROVE StatusIsTold'
  BY <1>29, UntoldTells DEF Plain, PlainStream, ServerOK, Release
<1>30. ASSUME ReleaseRender, mode' = mode, ~Overtaken PROVE StatusIsTold'
  BY <1>30, QueuedAdds, UntoldTells DEF Plain, PlainStream, ServerOK, ReleaseRender
<1>31. ASSUME ReleaseMark, mode' = mode, ~Overtaken PROVE StatusIsTold'
  BY <1>31, UntoldTells DEF Plain, PlainStream, ServerOK, ReleaseMark
<1>32. ASSUME StartTimesOut, mode' = mode, ~Overtaken PROVE StatusIsTold'
  BY <1>32, UntoldTells DEF Plain, PlainStream, ServerOK, StartTimesOut, MayTimeOut
<1>33. ASSUME PauseTimesOut, mode' = mode, ~Overtaken PROVE StatusIsTold'
  BY <1>33, UntoldTells DEF Plain, PlainStream, ServerOK, PauseTimesOut, MayTimeOut,
      Finish
<1>34. ASSUME StopTimesOut, mode' = mode, ~Overtaken PROVE StatusIsTold'
  BY <1>34, OwnChangeTells DEF Plain, PlainStream, ServerOK, StopTimesOut, MayTimeOut,
      Finish
<1>35. ASSUME NotifyTimesOut, mode' = mode, ~Overtaken PROVE StatusIsTold'
  BY <1>35, UntoldTells DEF Plain, PlainStream, ServerOK, NotifyTimesOut, MayTimeOut,
      Finish
<1>36. ASSUME OnStarted, mode' = mode, ~Overtaken PROVE StatusIsTold'
  BY <1>36, CompletesKeeps, NotifyTells DEF Plain, PlainStream, ServerOK, WaitedFor,
      OnStarted, Completes, Notify
<1>37. ASSUME OnPaused, mode' = mode, ~Overtaken PROVE StatusIsTold'
  BY <1>37, CompletesKeeps, NotifyTells, UntoldTells DEF Plain, PlainStream, ServerOK,
      WaitedFor, OnPaused, Completes, Notify
<1>38. ASSUME OnPausedInStandBy, mode' = mode, ~Overtaken PROVE StatusIsTold'
  BY <1>38, UntoldTells DEF Plain, PlainStream, ServerOK, OnPausedInStandBy
<1>39. ASSUME OnStopped, mode' = mode, ~Overtaken PROVE StatusIsTold'
  BY <1>39, CompletesKeeps, NotifyTells DEF Plain, PlainStream, ServerOK, WaitedFor,
      OnStopped, Completes, Notify
<1>40. ASSUME OnFlushed, mode' = mode, ~Overtaken PROVE StatusIsTold'
  BY <1>40, CompletesKeeps, NotifyTells, UntoldTells DEF Plain, PlainStream, ServerOK,
      OnFlushed, Completes, Notify
<1>41. ASSUME Flushed, mode' = mode, ~Overtaken PROVE StatusIsTold'
  BY <1>41, NotifyTells DEF Overtaken, FlushingWhen, Plain, PlainStream, ServerOK, WaitedFor,
      Flushed, Store, Notify
<1>42. ASSUME Drained, mode' = mode, ~Overtaken PROVE StatusIsTold'
  BY <1>42, NotifyTells DEF Overtaken, FlushingWhen, Plain, PlainStream, ServerOK, WaitedFor,
      Drained, Store, Notify
<1>43. ASSUME OnCorked, mode' = mode, ~Overtaken PROVE StatusIsTold'
  BY <1>43, CompletesKeeps, UntoldTells DEF Kept, Plain, PlainStream, ReleaseOrder,
      ServerOK, OnCorked, Completes
<1>44. ASSUME EnterStandBy, mode' = mode, ~Overtaken PROVE StatusIsTold'
  BY <1>44, QueuedAdds, UntoldTells DEF Plain, PlainStream, ServerOK, EnterStandBy
<1>45. ASSUME OnDrained, mode' = mode, ~Overtaken PROVE StatusIsTold'
  BY <1>45, UntoldTells DEF Plain, PlainStream, ServerOK, OnDrained
<1>46. ASSUME StandByCheck, mode' = mode, ~Overtaken PROVE StatusIsTold'
  BY <1>46, UntoldTells DEF Plain, PlainStream, ServerOK, StandByCheck
<1>47. ASSUME OnOperationHandled, mode' = mode, ~Overtaken PROVE StatusIsTold'
  BY <1>47, HandledTells DEF Plain, PlainStream, ServerOK, OnOperationHandled
<1>. QED
  BY <1>0, <1>1, <1>2, <1>3, <1>4, <1>5, <1>6, <1>7, <1>8, <1>9, <1>10, <1>11, <1>12, <1>13,
      <1>14, <1>15, <1>16, <1>17, <1>18, <1>19, <1>20, <1>21, <1>22, <1>23, <1>24, <1>25,
      <1>26, <1>27, <1>28, <1>29, <1>30, <1>31, <1>32, <1>33, <1>34, <1>35, <1>36, <1>37,
      <1>38, <1>39, <1>40, <1>41, <1>42, <1>43, <1>44, <1>45, <1>46, <1>47
  DEF Typed, Next, Application, Control, Start, Releasing, WaitTimesOut, Mainloop, Threads, Records

LEMMA NextStopIsLast ==
    Typed /\ ReleaseOrder /\ PlainStream /\ StopIsLast /\ [Next]_vars => StopIsLast'
<1>. SUFFICES ASSUME Typed, ReleaseOrder, PlainStream, StopIsLast, [Next]_vars,
                     Kept', Plain'
              PROVE  StopIsLast'
  BY DEF StopIsLast
<1>. Kept  BY KeptWas
<1>. USE DEF StopIsLast, Typed, FlagsOK, Threads, PaOperations, Operations, Changes,
             client, server, stream, Goto, Serves, StatusMutexFree, Waiting
<1>0. CASE UNCHANGED vars  BY <1>0, UntoldTells DEF vars, Plain
<1>1. ASSUME StartAudioStream, mode' = mode PROVE StopIsLast'
  BY <1>1, UntoldTells DEF Plain, PlainStream, ServerOK, StartAudioStream, Call
<1>2. ASSUME PauseAudioStream, mode' = mode PROVE StopIsLast'
  BY <1>2, UntoldTells DEF Plain, PlainStream, ServerOK, PauseAudioStream, Call
<1>3. ASSUME FlushAudioStream, mode' = mode PROVE StopIsLast'
  BY <1>3, UntoldTells DEF Plain, PlainStream, ServerOK, FlushAudioStream, Call
<1>4. ASSUME DrainAudioStream, mode' = mode PROVE StopIsLast'
  BY <1>4, UntoldTells DEF Plain, PlainStream, ServerOK, DrainAudioStream, Call
<1>5. ASSUME StopAudioStream, mode' = mode PROVE StopIsLast'
  BY <1>5, UntoldTells DEF Plain, PlainStream, ServerOK, StopAudioStream
<1>6. ASSUME ReleaseAudioStream, mode' = mode PROVE StopIsLast'
  BY <1>6, UntoldTells DEF Kept, Plain, PlainStream, ServerOK, ReleaseAudioStream
<1>7. ASSUME WriteInner, mode' = mode PROVE StopIsLast'
  BY <1>7, UntoldTells DEF Plain, PlainStream, ServerOK, WriteInner
<1>8. ASSUME NEW t \in Threads, StartEnter(t), mode' = mode PROVE StopIsLast'
  BY <1>8, UntoldTells DEF Plain, PlainStream, ServerOK, StartEnter
<1>9. ASSUME NEW t \in Threads, StartLocked(t), mode' = mode PROVE StopIsLast'
  BY <1>9, UntoldTells DEF Plain, PlainStream, ServerOK, StartLocked, Check, Refuse
<1>10. ASSUME NEW t \in Threads, StartSets(t), mode' = mode PROVE StopIsLast'
  BY <1>10, UntoldTells DEF Plain, PlainStream, ServerOK, StartSets, Set
<1>11. ASSUME NEW t \in Threads, StartRender(t), mode' = mode PROVE StopIsLast'
  BY <1>11, QueuedAdds, UntoldTells DEF Plain, PlainStream, ServerOK, StartRender,
      Submit, Queued, Answered
<1>12. ASSUME Pause, mode' = mode PROVE StopIsLast'
  BY <1>12, UntoldTells DEF Plain, PlainStream, ServerOK, Pause, Check, Refuse
<1>13. ASSUME PauseSets, mode' = mode PROVE StopIsLast'
  BY <1>13, UntoldTells DEF Plain, PlainStream, ServerOK, PauseSets, Set
<1>14. ASSUME PauseRender, mode' = mode PROVE StopIsLast'
  BY <1>14, QueuedAdds, UntoldTells DEF Plain, PlainStream, ServerOK, PauseRender,
      Submit, Queued, Answered
<1>15. ASSUME Flush, mode' = mode PROVE StopIsLast'
  BY <1>15, UntoldTells DEF Plain, PlainStream, ServerOK, FlushingWhen, Flush, Check,
      Refuse
<1>16. ASSUME FlushSets, mode' = mode PROVE StopIsLast'
  BY <1>16, UntoldTells DEF Plain, PlainStream, ServerOK, FlushingWhen, FlushSets, Set
<1>17. ASSUME FlushStream, mode' = mode PROVE StopIsLast'
  BY <1>17, QueuedAdds, UntoldTells DEF Plain, PlainStream, ServerOK, FlushStream, Answered
<1>18. ASSUME Drain, mode' = mode PROVE StopIsLast'
  BY <1>18, UntoldTells DEF Plain, PlainStream, ServerOK, Drain, Check, Refuse
<1>19. ASSUME DrainSets, mode' = mode PROVE StopIsLast'
  BY <1>19, UntoldTells DEF Plain, PlainStream, ServerOK, DrainSets, Set
<1>20. ASSUME DrainStream, mode' = mode PROVE StopIsLast'
  BY <1>20, UntoldTells DEF Plain, PlainStream, ServerOK, DrainStream, Answered
<1>21. ASSUME Stop, mode' = mode PROVE StopIsLast'
  BY <1>21, UntoldTells DEF Plain, PlainStream, ClientOK, ServerOK, Stop, Check, Refuse
<1>22. ASSUME StopSets, mode' = mode PROVE StopIsLast'
  BY <1>22, UntoldTells DEF Plain, PlainStream, ClientOK, ServerOK, StopSets, Set
<1>23. ASSUME EndStandBy, mode' = mode PROVE StopIsLast'
  BY <1>23, UntoldTells DEF Plain, PlainStream, ServerOK, EndStandBy
<1>24. ASSUME StopRender, mode' = mode PROVE StopIsLast'
  BY <1>24, QueuedAdds, UntoldTells DEF Kept, Plain, PlainStream, ServerOK, StopRender,
      Submit, Queued, Answered
<1>25. ASSUME StateReached, mode' = mode PROVE StopIsLast'
  BY <1>25, UntoldTells DEF Plain, PlainStream, ServerOK, StateReached, Finish
<1>26. ASSUME OperationNotified, mode' = mode PROVE StopIsLast'
  BY <1>26, UntoldTells DEF Plain, PlainStream, ServerOK, OperationNotified, Finish
<1>27. ASSUME StopAfterDrain, mode' = mode PROVE StopIsLast'
  BY <1>27, UntoldTells, OwnChangeTells DEF Plain, PlainStream, ServerOK,
      StopAfterDrain, Call
<1>28. ASSUME StopNotNeeded, mode' = mode PROVE StopIsLast'
  BY <1>28, UntoldTells DEF Plain, PlainStream, ServerOK, StopNotNeeded
<1>29. ASSUME Release, mode' = mode PROVE StopIsLast'
  BY <1>29, UntoldTells DEF Plain, PlainStream, ServerOK, Release
<1>30. ASSUME ReleaseRender, mode' = mode PROVE StopIsLast'
  BY <1>30, QueuedAdds, UntoldTells DEF Kept, Plain, PlainStream, ServerOK,
      ReleaseRender
<1>31. ASSUME ReleaseMark, mode' = mode PROVE StopIsLast'
  BY <1>31, UntoldTells DEF Plain, PlainStream, ServerOK, ReleaseMark
<1>32. ASSUME StartTimesOut, mode' = mode PROVE StopIsLast'
  BY <1>32, UntoldTells DEF Plain, PlainStream, ServerOK, StartTimesOut, MayTimeOut
<1>33. ASSUME PauseTimesOut, mode' = mode PROVE StopIsLast'
  BY <1>33, UntoldTells DEF Plain, PlainStream, ServerOK, PauseTimesOut, MayTimeOut,
      Finish
<1>34. ASSUME StopTimesOut, mode' = mode PROVE StopIsLast'
  BY <1>34, OwnChangeTells, EndsInHas DEF Plain, PlainStream, ServerOK, StopTimesOut,
      MayTimeOut, Finish
<1>35. ASSUME NotifyTimesOut, mode' = mode PROVE StopIsLast'
  BY <1>35, UntoldTells DEF Plain, PlainStream, ServerOK, NotifyTimesOut, MayTimeOut,
      Finish
<1>36. ASSUME OnStarted, mode' = mode PROVE StopIsLast'
  BY <1>36, CompletesKeeps, NotifyTells DEF Plain, PlainStream, ServerOK, WaitedFor,
      OnStarted, Completes, Notify
<1>37. ASSUME OnPaused, mode' = mode PROVE StopIsLast'
  BY <1>37, CompletesKeeps, NotifyTells, UntoldTells DEF Plain, PlainStream, ServerOK,
      WaitedFor, OnPaused, Completes, Notify
<1>38. ASSUME OnPausedInStandBy, mode' = mode PROVE StopIsLast'
  BY <1>38, UntoldTells DEF Plain, PlainStream, ServerOK, OnPausedInStandBy
<1>39. ASSUME OnStopped, mode' = mode PROVE StopIsLast'
  BY <1>39, CompletesKeeps, NotifyTells DEF Plain, PlainStream, ServerOK, WaitedFor,
      OnStopped, Completes, Notify
<1>40. ASSUME OnFlushed, mode' = mode PROVE StopIsLast'
  BY <1>40, CompletesKeeps, NotifyTells, UntoldTells DEF Plain, PlainStream, ServerOK,
      OnFlushed, Completes, Notify
<1>41. ASSUME Flushed, mode' = mode PROVE StopIsLast'
  BY <1>41, NotifyTells DEF Plain, PlainStream, ServerOK, WaitedFor,
      Flushed, Store, Notify
<1>42. ASSUME Drained, mode' = mode PROVE StopIsLast'
  BY <1>42, NotifyTells DEF Plain, PlainStream, ServerOK, WaitedFor,
      Drained, Store, Notify
<1>43. ASSUME OnCorked, mode' = mode PROVE StopIsLast'
  BY <1>43, CompletesKeeps, UntoldTells DEF Plain, PlainStream, ServerOK, OnCorked,
      Completes
<1>44. ASSUME EnterStandBy, mode' = mode PROVE StopIsLast'
  BY <1>44, QueuedAdds, UntoldTells DEF Plain, PlainStream, ServerOK, EnterStandBy
<1>45. ASSUME OnDrained, mode' = mode PROVE StopIsLast'
  BY <1>45, UntoldTells DEF Plain, PlainStream, ServerOK, OnDrained
<1>46. ASSUME StandByCheck, mode' = mode PROVE StopIsLast'
  BY <1>46, UntoldTells DEF Plain, PlainStream, ServerOK, StandByCheck
<1>47. ASSUME OnOperationHandled, mode' = mode PROVE StopIsLast'
  BY <1>47, HandledTells DEF Plain, PlainStream, ServerOK, OnOperationHandled
<1>. QED
  BY <1>0, <1>1, <1>2, <1>3, <1>4, <1>5, <1>6, <1>7, <1>8, <1>9, <1>10, <1>11, <1>12, <1>13,
      <1>14, <1>15, <1>16, <1>17, <1>18, <1>19, <1>20, <1>21, <1>22, <1>23, <1>24, <1>25,
      <1>26, <1>27, <1>28, <1>29, <1>30, <1>31, <1>32, <1>33, <1>34, <1>35, <1>36, <1>37,
      <1>38, <1>39, <1>40, <1>41, <1>42, <1>43, <1>44, <1>45, <1>46, <1>47
  DEF Next, Application, Control, Start, Releasing, WaitTimesOut, Mainloop, Threads, Records

LEMMA Consistency == Spec => []Consistent
<1>1. Consistent /\ [Next]_vars => Consistent'
  BY NextTyped, NextLooked, NextReleaseOrder, NextPlain, NextAdmittedIsPending, NextStreamIsTold,
     NextStatusIsTold, NextStopIsLast
  DEF Consistent
<1>. QED  BY InitConsistent, <1>1, PTL DEF Spec

(* Once everything under way has settled client and PulseAudio agree,      *)
(* whatever was called, refused, timed out or overtaken, and the server    *)
(* agrees with both unless a store to status_ went by an old one.          *)
THEOREM AllAgree == Spec => []Agreement
<1>1. Consistent => Agreement
  <2>. SUFFICES ASSUME Consistent, Plain, Quiet, registered
                PROVE  \E told \in {<<"PREPARED", "IDLE", TRUE>>, <<"RUNNING", "STARTED", FALSE>>,
                                    <<"PAUSED", "PAUSED", TRUE>>, <<"STOPPED", "STOPPED", TRUE>>} :
                           /\ state = told[1] /\ corked = told[3]
                           /\ stale \/ status = told[2]
    BY DEF Agreement
  <2>1. \A x : Tells(x) <=> x = state  BY ToldEmpty DEF Quiet, Tells
  <2>2. /\ Kept /\ pc["control"] = "out" /\ drains = {} /\ mainloop = "idle"
        /\ \A o : ~Has(queue, o)
    BY HasEmpty DEF Quiet, Kept, Threads
  <2>3. state # "INVALID"  BY <2>1, <2>2 DEF Consistent, StopIsLast
  <2>4. \/ state = "RUNNING" /\ ~corked
        \/ state \in {"PREPARED", "PAUSED", "STOPPED"} /\ corked
    BY <2>1, <2>2, <2>3 DEF Consistent, StreamIsTold
  <2>5. status \in {"IDLE", "STARTED", "PAUSED", "STOPPED"}
    BY <2>2 DEF Consistent, AdmittedIsPending, Submits, ReleaseOrder, Kept, Typed, ServerOK,
                Flushings, FlushingWhen
  <2>6. ASSUME ~stale
        PROVE  <<state, status>> \in {<<"PREPARED", "IDLE">>, <<"RUNNING", "STARTED">>,
                                      <<"PAUSED", "PAUSED">>, <<"STOPPED", "STOPPED">>}
    BY <2>1, <2>2, <2>3, <2>5, <2>6 DEF Consistent, StatusIsTold, Story
  <2>7. corked \in BOOLEAN  BY DEF Consistent, Typed, FlagsOK
  <2>. QED  BY <2>4, <2>6, <2>7
<1>. QED  BY <1>1, Consistency, PTL

-----------------------------------------------------------------------------
(* A control call that began with nothing left of earlier ones has the     *)
(* stream to itself: what it finds when it returns is its own doing.       *)
Nothing == queue = <<>> /\ inbox = <<>> /\ drains = {} /\ mainloop = "idle"

Enters(o) == op = o /\ pc["control"] # "wait"
Waits(o) == op = o /\ pc["control"] = "wait"

FreshCall ==
    Plain /\ fresh /\ pc["control"] # "out" =>
        /\ releasePc = "out"
        /\ Enters("pause") => Nothing /\ state = "RUNNING"
        /\ Waits("pause") =>
              \/ /\ queue \in {<<>>, <<"pause">>} /\ inbox = <<>> /\ drains = {} /\ mainloop = "idle"
                 /\ state = "RUNNING"
              \/ queue = <<>> /\ corked
        /\ Enters("stop") => Nothing /\ state # "STOPPED"
        /\ Waits("stop") =>
              \/ /\ queue \in {<<>>, <<"stop">>} /\ inbox = <<>> /\ drains = {} /\ mainloop = "idle"
                 /\ state # "STOPPED"
              \/ queue = <<>> /\ corked
        /\ Enters("flush") => Nothing /\ notified # "flush"
        /\ Waits("flush") =>
              \/ /\ queue = <<"flush">> /\ inbox = <<>> /\ drains = {} /\ mainloop = "idle"
                 /\ notified # "flush"
              \/ queue = <<>>
        /\ Enters("drain") => Nothing /\ notified # "drain"
        /\ Waits("drain") =>
              \/ /\ queue = <<>> /\ inbox = <<>> /\ drains = {"own"} /\ mainloop = "idle"
                 /\ notified # "drain"
              \/ drains = {}

LEMMA One == \A o : Head(<<o>>) = o /\ Tail(<<o>>) = <<>> /\ Append(<<>>, o) = <<o>> /\ <<o>> # <<>>
OBVIOUS

LEMMA NextFresh == Typed /\ PlainStream /\ FreshCall /\ [Next]_vars => FreshCall'
<1>. SUFFICES ASSUME Typed, PlainStream, FreshCall, [Next]_vars,
                     Plain', fresh', pc'["control"] # "out"
              PROVE  FreshCall'
  BY DEF FreshCall
<1>. USE DEF FreshCall, Nothing, Enters, Waits, Typed, FlagsOK, ClientOK, Threads, client, server,
             stream, Goto, Serves, StatusMutexFree, Waiting
<1>0. CASE UNCHANGED vars  BY <1>0 DEF vars, Plain
<1>1. ASSUME StartAudioStream, mode' = mode PROVE FreshCall'
  BY <1>1 DEF Plain, PlainStream, NothingLeft, StartAudioStream, Call
<1>2. ASSUME PauseAudioStream, mode' = mode PROVE FreshCall'
  BY <1>2 DEF Plain, PlainStream, NothingLeft, PauseAudioStream, Call
<1>3. ASSUME FlushAudioStream, mode' = mode PROVE FreshCall'
  BY <1>3 DEF Plain, PlainStream, NothingLeft, FlushAudioStream, Call
<1>4. ASSUME DrainAudioStream, mode' = mode PROVE FreshCall'
  BY <1>4 DEF Plain, PlainStream, NothingLeft, DrainAudioStream, Call
<1>5. ASSUME StopAudioStream, mode' = mode PROVE FreshCall'
  BY <1>5 DEF Plain, PlainStream, NothingLeft, StopAudioStream
<1>6. ASSUME ReleaseAudioStream, mode' = mode PROVE FreshCall'
  BY <1>6 DEF Plain, PlainStream, ReleaseAudioStream
<1>7. ASSUME WriteInner, mode' = mode PROVE FreshCall'
  BY <1>7 DEF Plain, PlainStream, WriteInner
<1>8. ASSUME NEW t \in Threads, StartEnter(t), mode' = mode PROVE FreshCall'
  BY <1>8 DEF Plain, PlainStream, StartEnter
<1>9. ASSUME NEW t \in Threads, StartLocked(t), mode' = mode PROVE FreshCall'
  BY <1>9 DEF Plain, PlainStream, StartLocked, Check, Refuse
<1>10. ASSUME NEW t \in Threads, StartSets(t), mode' = mode PROVE FreshCall'
  BY <1>10 DEF Plain, PlainStream, StartSets, Set
<1>11. ASSUME NEW t \in Threads, StartRender(t), mode' = mode PROVE FreshCall'
  BY <1>11, One DEF Plain, PlainStream, StartRender, Submit, Queued, Answered
<1>12. ASSUME Pause, mode' = mode PROVE FreshCall'
  BY <1>12 DEF Plain, PlainStream, Pause, Check, Refuse
<1>13. ASSUME PauseSets, mode' = mode PROVE FreshCall'
  BY <1>13 DEF Plain, PlainStream, PauseSets, Set
<1>14. ASSUME PauseRender, mode' = mode PROVE FreshCall'
  BY <1>14, One DEF Plain, PlainStream, PauseRender, Submit, Queued, Answered
<1>15. ASSUME Flush, mode' = mode PROVE FreshCall'
  BY <1>15 DEF Plain, PlainStream, Flush, Check, Refuse
<1>16. ASSUME FlushSets, mode' = mode PROVE FreshCall'
  BY <1>16 DEF Plain, PlainStream, FlushSets, Set
<1>17. ASSUME FlushStream, mode' = mode PROVE FreshCall'
  BY <1>17, One DEF Plain, PlainStream, FlushStream, Answered
<1>18. ASSUME Drain, mode' = mode PROVE FreshCall'
  BY <1>18 DEF Plain, PlainStream, Drain, Check, Refuse
<1>19. ASSUME DrainSets, mode' = mode PROVE FreshCall'
  BY <1>19 DEF Plain, PlainStream, DrainSets, Set
<1>20. ASSUME DrainStream, mode' = mode PROVE FreshCall'
  BY <1>20 DEF Plain, PlainStream, DrainStream, Answered
<1>21. ASSUME Stop, mode' = mode PROVE FreshCall'
  BY <1>21 DEF Plain, PlainStream, Stop, Check, Refuse
<1>22. ASSUME StopSets, mode' = mode PROVE FreshCall'
  BY <1>22 DEF Plain, PlainStream, StopSets, Set
<1>23. ASSUME EndStandBy, mode' = mode PROVE FreshCall'
  BY <1>23 DEF Plain, PlainStream, EndStandBy
<1>24. ASSUME StopRender, mode' = mode PROVE FreshCall'
  BY <1>24, One DEF Plain, PlainStream, StopRender, Submit, Queued, Answered
<1>25. ASSUME StateReached, mode' = mode PROVE FreshCall'
  BY <1>25 DEF Plain, PlainStream, StateReached, Finish
<1>26. ASSUME OperationNotified, mode' = mode PROVE FreshCall'
  BY <1>26 DEF Plain, PlainStream, OperationNotified, Finish
<1>27. ASSUME StopAfterDrain, mode' = mode PROVE FreshCall'
  BY <1>27 DEF Plain, PlainStream, NothingLeft, StopAfterDrain, Call
<1>28. ASSUME StopNotNeeded, mode' = mode PROVE FreshCall'
  BY <1>28 DEF Plain, PlainStream, StopNotNeeded
<1>29. ASSUME Release, mode' = mode PROVE FreshCall'
  BY <1>29 DEF Plain, PlainStream, Release
<1>30. ASSUME ReleaseRender, mode' = mode PROVE FreshCall'
  BY <1>30 DEF Plain, PlainStream, ReleaseRender
<1>31. ASSUME ReleaseMark, mode' = mode PROVE FreshCall'
  BY <1>31 DEF Plain, PlainStream, ReleaseMark
<1>32. ASSUME StartTimesOut, mode' = mode PROVE FreshCall'
  BY <1>32 DEF Plain, PlainStream, StartTimesOut, MayTimeOut
<1>33. ASSUME PauseTimesOut, mode' = mode PROVE FreshCall'
  BY <1>33 DEF Plain, PlainStream, PauseTimesOut, MayTimeOut, Finish
<1>34. ASSUME StopTimesOut, mode' = mode PROVE FreshCall'
  BY <1>34 DEF Plain, PlainStream, StopTimesOut, MayTimeOut, Finish
<1>35. ASSUME NotifyTimesOut, mode' = mode PROVE FreshCall'
  BY <1>35 DEF Plain, PlainStream, NotifyTimesOut, MayTimeOut, Finish
<1>36. ASSUME OnStarted, mode' = mode PROVE FreshCall'
  BY <1>36, One DEF Plain, PlainStream, OnStarted, Completes, Notify
<1>37. ASSUME OnPaused, mode' = mode PROVE FreshCall'
  BY <1>37, One DEF Plain, PlainStream, OnPaused, Completes, Notify
<1>38. ASSUME OnPausedInStandBy, mode' = mode PROVE FreshCall'
  BY <1>38 DEF Plain, PlainStream, OnPausedInStandBy
<1>39. ASSUME OnStopped, mode' = mode PROVE FreshCall'
  BY <1>39, One DEF Plain, PlainStream, OnStopped, Completes, Notify
<1>40. ASSUME OnFlushed, mode' = mode PROVE FreshCall'
  BY <1>40, One DEF Plain, PlainStream, OnFlushed, Completes, Notify
<1>41. ASSUME Flushed, mode' = mode PROVE FreshCall'
  BY <1>41, One DEF Plain, PlainStream, FlushingWhen, Flushed, Store, Notify
<1>42. ASSUME Drained, mode' = mode PROVE FreshCall'
  BY <1>42, One DEF Plain, PlainStream, Drained, Store, Notify
<1>43. ASSUME OnCorked, mode' = mode PROVE FreshCall'
  BY <1>43, One DEF Plain, PlainStream, OnCorked, Completes
<1>44. ASSUME EnterStandBy, mode' = mode PROVE FreshCall'
  BY <1>44 DEF Plain, PlainStream, EnterStandBy
<1>45. ASSUME OnDrained, mode' = mode PROVE FreshCall'
  BY <1>45 DEF Plain, PlainStream, OnDrained
<1>46. ASSUME StandByCheck, mode' = mode PROVE FreshCall'
  BY <1>46 DEF Plain, PlainStream, StandByCheck
<1>47. ASSUME OnOperationHandled, mode' = mode PROVE FreshCall'
  BY <1>47 DEF Plain, PlainStream, OnOperationHandled
<1>. QED
  BY <1>0, <1>1, <1>2, <1>3, <1>4, <1>5, <1>6, <1>7, <1>8, <1>9, <1>10, <1>11, <1>12, <1>13,
      <1>14, <1>15, <1>16, <1>17, <1>18, <1>19, <1>20, <1>21, <1>22, <1>23, <1>24, <1>25,
      <1>26, <1>27, <1>28, <1>29, <1>30, <1>31, <1>32, <1>33, <1>34, <1>35, <1>36, <1>37,
      <1>38, <1>39, <1>40, <1>41, <1>42, <1>43, <1>44, <1>45, <1>46, <1>47
  DEF Next, Application, Control, Start, Releasing, WaitTimesOut, Mainloop, Threads, Records

(* A call returns true only by the two steps that found what it waited for. *)
LEMMA ReturnsWhen ==
    ASSUME Typed, Next, pc["control"] = "wait", pc'["control"] = "out", returned'
    PROVE  \/ op \in Changes /\ state = WaitedFor[op]
           \/ op \in {"flush", "drain"} /\ notified = op
<1>. USE DEF Typed, FlagsOK, ClientOK, Threads, client, server, stream, Goto, Serves,
             StatusMutexFree, Waiting, Changes
<1>. DEFINE Found == \/ op \in Changes /\ state = WaitedFor[op]
                     \/ op \in {"flush", "drain"} /\ notified = op
<1>1. ASSUME StartAudioStream, mode' = mode PROVE Found
  BY <1>1 DEF StartAudioStream, Call
<1>2. ASSUME PauseAudioStream, mode' = mode PROVE Found
  BY <1>2 DEF PauseAudioStream, Call
<1>3. ASSUME FlushAudioStream, mode' = mode PROVE Found
  BY <1>3 DEF FlushAudioStream, Call
<1>4. ASSUME DrainAudioStream, mode' = mode PROVE Found
  BY <1>4 DEF DrainAudioStream, Call
<1>5. ASSUME StopAudioStream, mode' = mode PROVE Found
  BY <1>5 DEF StopAudioStream
<1>6. ASSUME ReleaseAudioStream, mode' = mode PROVE Found
  BY <1>6 DEF ReleaseAudioStream
<1>7. ASSUME WriteInner, mode' = mode PROVE Found
  BY <1>7 DEF WriteInner
<1>8. ASSUME NEW t \in Threads, StartEnter(t), mode' = mode PROVE Found
  BY <1>8 DEF StartEnter
<1>9. ASSUME NEW t \in Threads, StartLocked(t), mode' = mode PROVE Found
  BY <1>9 DEF StartLocked, Check, Refuse
<1>10. ASSUME NEW t \in Threads, StartSets(t), mode' = mode PROVE Found
  BY <1>10 DEF StartSets, Set
<1>11. ASSUME NEW t \in Threads, StartRender(t), mode' = mode PROVE Found
  BY <1>11 DEF StartRender, Submit, Queued, Answered
<1>12. ASSUME Pause, mode' = mode PROVE Found
  BY <1>12 DEF Pause, Check, Refuse
<1>13. ASSUME PauseSets, mode' = mode PROVE Found
  BY <1>13 DEF PauseSets, Set
<1>14. ASSUME PauseRender, mode' = mode PROVE Found
  BY <1>14 DEF PauseRender, Submit, Queued, Answered
<1>15. ASSUME Flush, mode' = mode PROVE Found
  BY <1>15 DEF Flush, Check, Refuse
<1>16. ASSUME FlushSets, mode' = mode PROVE Found
  BY <1>16 DEF FlushSets, Set
<1>17. ASSUME FlushStream, mode' = mode PROVE Found
  BY <1>17 DEF FlushStream, Answered
<1>18. ASSUME Drain, mode' = mode PROVE Found
  BY <1>18 DEF Drain, Check, Refuse
<1>19. ASSUME DrainSets, mode' = mode PROVE Found
  BY <1>19 DEF DrainSets, Set
<1>20. ASSUME DrainStream, mode' = mode PROVE Found
  BY <1>20 DEF DrainStream, Answered
<1>21. ASSUME Stop, mode' = mode PROVE Found
  BY <1>21 DEF Stop, Check, Refuse
<1>22. ASSUME StopSets, mode' = mode PROVE Found
  BY <1>22 DEF StopSets, Set
<1>23. ASSUME EndStandBy, mode' = mode PROVE Found
  BY <1>23 DEF EndStandBy
<1>24. ASSUME StopRender, mode' = mode PROVE Found
  BY <1>24 DEF StopRender, Submit, Queued, Answered
<1>25. ASSUME StateReached, mode' = mode PROVE Found
  BY <1>25 DEF StateReached, Finish, WaitedFor
<1>26. ASSUME OperationNotified, mode' = mode PROVE Found
  BY <1>26 DEF OperationNotified, Finish
<1>27. ASSUME StopAfterDrain, mode' = mode PROVE Found
  BY <1>27 DEF StopAfterDrain, Call
<1>28. ASSUME StopNotNeeded, mode' = mode PROVE Found
  BY <1>28 DEF StopNotNeeded
<1>29. ASSUME Release, mode' = mode PROVE Found
  BY <1>29 DEF Release
<1>30. ASSUME ReleaseRender, mode' = mode PROVE Found
  BY <1>30 DEF ReleaseRender
<1>31. ASSUME ReleaseMark, mode' = mode PROVE Found
  BY <1>31 DEF ReleaseMark
<1>32. ASSUME StartTimesOut, mode' = mode PROVE Found
  BY <1>32 DEF StartTimesOut, MayTimeOut
<1>33. ASSUME PauseTimesOut, mode' = mode PROVE Found
  BY <1>33 DEF PauseTimesOut, MayTimeOut, Finish
<1>34. ASSUME StopTimesOut, mode' = mode PROVE Found
  BY <1>34 DEF StopTimesOut, MayTimeOut, Finish
<1>35. ASSUME NotifyTimesOut, mode' = mode PROVE Found
  BY <1>35 DEF NotifyTimesOut, MayTimeOut, Finish
<1>36. ASSUME OnStarted, mode' = mode PROVE Found
  BY <1>36 DEF OnStarted, Completes, Notify
<1>37. ASSUME OnPaused, mode' = mode PROVE Found
  BY <1>37 DEF OnPaused, Completes, Notify
<1>38. ASSUME OnPausedInStandBy, mode' = mode PROVE Found
  BY <1>38 DEF OnPausedInStandBy
<1>39. ASSUME OnStopped, mode' = mode PROVE Found
  BY <1>39 DEF OnStopped, Completes, Notify
<1>40. ASSUME OnFlushed, mode' = mode PROVE Found
  BY <1>40 DEF OnFlushed, Completes, Notify
<1>41. ASSUME Flushed, mode' = mode PROVE Found
  BY <1>41 DEF Flushed, Store, Notify
<1>42. ASSUME Drained, mode' = mode PROVE Found
  BY <1>42 DEF Drained, Store, Notify
<1>43. ASSUME OnCorked, mode' = mode PROVE Found
  BY <1>43 DEF OnCorked, Completes
<1>44. ASSUME EnterStandBy, mode' = mode PROVE Found
  BY <1>44 DEF EnterStandBy
<1>45. ASSUME OnDrained, mode' = mode PROVE Found
  BY <1>45 DEF OnDrained
<1>46. ASSUME StandByCheck, mode' = mode PROVE Found
  BY <1>46 DEF StandByCheck
<1>47. ASSUME OnOperationHandled, mode' = mode PROVE Found
  BY <1>47 DEF OnOperationHandled
<1>. QED
  BY <1>1, <1>2, <1>3, <1>4, <1>5, <1>6, <1>7, <1>8, <1>9, <1>10, <1>11, <1>12, <1>13, <1>14,
      <1>15, <1>16, <1>17, <1>18, <1>19, <1>20, <1>21, <1>22, <1>23, <1>24, <1>25, <1>26,
      <1>27, <1>28, <1>29, <1>30, <1>31, <1>32, <1>33, <1>34, <1>35, <1>36, <1>37, <1>38,
      <1>39, <1>40, <1>41, <1>42, <1>43, <1>44, <1>45, <1>46, <1>47
  DEF Next, Application, Control, Start, Releasing, WaitTimesOut, Mainloop, Threads, Records

(* Pause and Stop leave the stream corked, Flush is done and the data of   *)
(* Drain is played when they return true, if nothing of an earlier call    *)
(* was under way when they began.                                          *)
THEOREM FreshCallsAreTrue == Spec => FreshCallsTellTheTruth
<1>. DEFINE Inv == Typed /\ Looked /\ PlainStream /\ FreshCall
<1>1. Init => Inv
  <2>1. Init => FreshCall  BY DEF Init, FreshCall, Threads
  <2>. QED  BY <2>1, InitConsistent DEF Consistent
<1>2. Inv /\ [Next]_vars => Inv'  BY NextTyped, NextLooked, NextPlain, NextFresh
<1>3. Inv /\ [Next]_vars =>
        [Plain /\ fresh =>
            /\ Returns("pause") \/ Returns("stop") => corked
            /\ Returns("drain") => drains = {}
            /\ Returns("flush") => \A i \in DOMAIN queue : queue[i] # "flush"]_vars
  <2>. SUFFICES ASSUME Inv, Next, Plain, fresh, NEW o, Returns(o)
                PROVE  /\ o \in {"pause", "stop"} => corked
                       /\ o = "drain" => drains = {}
                       /\ o = "flush" => \A i \in DOMAIN queue : queue[i] # "flush"
    OBVIOUS
  <2>1. /\ op = o /\ pc["control"] = "wait"
        /\ \/ o \in Changes /\ state = WaitedFor[o]
           \/ o \in {"flush", "drain"} /\ notified = o
    BY ReturnsWhen DEF Returns
  <2>2. FreshCall /\ Waits(o)  BY <2>1 DEF Waits
  <2>3. o \in {"pause", "stop"} => corked  BY <2>1, <2>2 DEF FreshCall, Changes, WaitedFor
  <2>4. o = "drain" => drains = {}  BY <2>1, <2>2 DEF FreshCall, Changes
  <2>5. o = "flush" => queue = <<>>  BY <2>1, <2>2 DEF FreshCall, Changes
  <2>. QED  BY <2>3, <2>4, <2>5
<1>4. Spec => []Inv  BY <1>1, <1>2, PTL DEF Spec
<1>. QED  BY <1>3, <1>4, PTL DEF Spec, FreshCallsTellTheTruth
=============================================================================
