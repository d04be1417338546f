----------------------- MODULE InterruptEvents_proofs -----------------------
(***************************************************************************)
(* That a stream is as the focus list has it, once the events sent to it   *)
(* have been delivered and its client's calls are done, for every number   *)
(* of streams and clients, every type the streams may have, and every      *)
(* bound on the queues.                                                    *)
(*                                                                         *)
(* The list is ahead of the renderer: the service has decided, the events  *)
(* are under way. The invariant says how far apart they may be. A stream   *)
(* has a place in the list, and Follows says from which place to which an  *)
(* event takes it. Chain says that the events in a queue take a stream     *)
(* from one place to another; Story says that there is a place which fits  *)
(* the renderer as it is now, and from which the events in its queue lead  *)
(* to the place the list gives it. A decision appends to the queue what    *)
(* leads on from the list's old place to its new one, which is what Moves  *)
(* says in FocusPolicy_proofs; a delivery takes the first event off and    *)
(* the renderer one place further; at rest the queue is empty and the two  *)
(* places are the same.                                                    *)
(*                                                                         *)
(* In a call the client runs ahead of its own events. Start has been       *)
(* granted the focus and will set the renderer running, so the chain       *)
(* starts at ACTIVE whatever the state is; Pause and Stop have left the    *)
(* running state before the service hears of it. None of this is so in the *)
(* runs that are not calm, where a call of another stream comes between    *)
(* the parts of a call: then only Typed and Freed are kept.                *)
(***************************************************************************)
EXTENDS InterruptEvents, FocusPolicy_proofs

(* A stream in the list as its renderer may be told of it. *)
Places == {"none", "ACTIVE", "DUCK", "PAUSE"}

(* An event h takes its stream from f to g; one whose start was denied is  *)
(* told to pause though it does not play.                                  *)
Follows(f, h, g) ==
    \/ h = "DUCK" /\ f = "ACTIVE" /\ g = "DUCK"
    \/ h = "UNDUCK" /\ f = "DUCK" /\ g = "ACTIVE"
    \/ h = "PAUSE" /\ f \in {"ACTIVE", "DUCK", "none"} /\ g = "PAUSE"
    \/ h = "RESUME" /\ f = "PAUSE" /\ g = "none"
    \/ h = "STOP" /\ g = "none"

(* The events of q take it from a to b. *)
Chain(q, a, b) ==
    \E p \in [0..Len(q) -> Places] :
       /\ p[0] = a /\ p[Len(q)] = b
       /\ \A k \in 1..Len(q) : Follows(p[k - 1], q[k], p[k])

(* No event leads nowhere. *)
LEMMA ChainNone ==
    ASSUME NEW a, NEW b
    PROVE  Chain(<<>>, a, b) <=> a \in Places /\ a = b
<1>1. Len(<<>>) = 0 /\ 1..0 = {} /\ 0..0 = {0}  OBVIOUS
<1>2. ASSUME Chain(<<>>, a, b) PROVE a \in Places /\ a = b  BY <1>1, <1>2 DEF Chain
<1>3. ASSUME a \in Places, a = b PROVE Chain(<<>>, a, b)
  <2>. DEFINE p == [k \in 0..0 |-> a]
  <2>1. p \in [0..0 -> Places] /\ p[0] = a  BY <1>3
  <2>. HIDE DEF p
  <2>. QED  BY <1>1, <1>3, <2>1 DEF Chain
<1>. QED  BY <1>2, <1>3

(* One more event leads one place further. *)
LEMMA ChainAppend ==
    ASSUME NEW q \in Seq(Hints), NEW a, NEW b, NEW h \in Hints, NEW g \in Places,
           Chain(q, a, b), Follows(b, h, g)
    PROVE  Chain(Append(q, h), a, g)
<1>. DEFINE n == Len(q)
            q2 == Append(q, h)
<1>1. n \in Nat  BY LenProperties
<1>2. Len(q2) = n + 1 /\ q2[n + 1] = h /\ \A k \in 1..n : q2[k] = q[k]  BY AppendProperties
<1>3. PICK p \in [0..n -> Places] : /\ p[0] = a /\ p[n] = b
                                    /\ \A k \in 1..n : Follows(p[k - 1], q[k], p[k])
  BY DEF Chain
<1>. HIDE DEF n, q2
<1>. DEFINE p2 == [k \in 0..(n + 1) |-> IF k = n + 1 THEN g ELSE p[k]]
<1>4. p2 \in [0..(n + 1) -> Places]
  <2>1. \A k \in 0..(n + 1) : k = n + 1 \/ k \in 0..n  BY <1>1
  <2>. QED  BY <2>1
<1>5. p2[0] = a /\ p2[n + 1] = g /\ \A k \in 0..n : p2[k] = p[k]  BY <1>1, <1>3
<1>. HIDE DEF p2
<1>6. ASSUME NEW k \in 1..(n + 1) PROVE Follows(p2[k - 1], q2[k], p2[k])
  <2>1. CASE k = n + 1
    <3>1. p2[k - 1] = b /\ p2[k] = g /\ q2[k] = h
      <4>1. k - 1 = n /\ n \in 0..n  BY <1>1, <2>1
      <4>. QED  BY <1>2, <1>3, <1>5, <2>1, <4>1
    <3>. QED  BY <3>1
  <2>2. CASE k # n + 1
    <3>1. k \in 1..n /\ k \in 0..n /\ k - 1 \in 0..n  BY <1>1, <2>2
    <3>. QED  BY <1>2, <1>3, <1>5, <3>1
  <2>. QED  BY <2>1, <2>2
<1>. QED  BY <1>2, <1>4, <1>5, <1>6 DEF Chain, q2

(* The first event leads to where the others start. *)
LEMMA ChainTail ==
    ASSUME NEW q \in Seq(Hints), q # <<>>, NEW a, NEW b, Chain(q, a, b)
    PROVE  \E c \in Places : Follows(a, Head(q), c) /\ Chain(Tail(q), c, b)
<1>. DEFINE n == Len(q)
            q2 == Tail(q)
<1>1. n \in Nat /\ n > 0 /\ Head(q) = q[1]  BY LenProperties, EmptySeq, HeadTailProperties
<1>2. Len(q2) = n - 1 /\ \A k \in 1..(n - 1) : q2[k] = q[k + 1]  BY HeadTailProperties
<1>3. PICK p \in [0..n -> Places] : /\ p[0] = a /\ p[n] = b
                                    /\ \A k \in 1..n : Follows(p[k - 1], q[k], p[k])
  BY DEF Chain
<1>. HIDE DEF n, q2
<1>. DEFINE p2 == [k \in 0..(n - 1) |-> p[k + 1]]
<1>4. \A k \in 0..(n - 1) : k + 1 \in 0..n  BY <1>1
<1>5. p2 \in [0..(n - 1) -> Places]  BY <1>4
<1>6. p2[0] = p[1] /\ p2[n - 1] = b /\ p[1] \in Places
  <2>1. 0 \in 0..(n - 1) /\ n - 1 \in 0..(n - 1) /\ (n - 1) + 1 = n /\ 1 \in 0..n  BY <1>1
  <2>. QED  BY <1>3, <2>1
<1>7. ASSUME NEW k \in 1..(n - 1) PROVE Follows(p2[k - 1], q2[k], p2[k])
  <2>1. /\ k - 1 \in 0..(n - 1) /\ k \in 0..(n - 1) /\ k + 1 \in 1..n
        /\ (k - 1) + 1 = k /\ (k + 1) - 1 = k
    BY <1>1
  <2>2. Follows(p[k], q[k + 1], p[k + 1])  BY <1>3, <2>1
  <2>3. p2[k - 1] = p[k] /\ p2[k] = p[k + 1]  BY <2>1
  <2>. QED  BY <1>2, <2>2, <2>3
<1>8. Follows(a, Head(q), p[1])
  <2>1. 1 \in 1..n /\ 1 - 1 = 0  BY <1>1
  <2>. QED  BY <1>1, <1>3, <2>1
<1>. HIDE DEF p2
<1>9. Chain(q2, p[1], b)  BY <1>2, <1>5, <1>6, <1>7 DEF Chain
<1>. QED  BY <1>6, <1>8, <1>9 DEF q2

(* What a call sends is one event ... *)
LEMMA ConcatOne ==
    ASSUME NEW q \in Seq(Hints), NEW h \in Hints
    PROVE  q \o <<h>> = Append(q, h)
BY AppendIsConcat

(* ... or two, or none. *)
LEMMA ConcatTwo ==
    ASSUME NEW q \in Seq(Hints), NEW h \in Hints, NEW i \in Hints
    PROVE  q \o <<h, i>> = Append(Append(q, h), i)
<1>1. /\ <<h>> \in Seq(Hints) /\ <<i>> \in Seq(Hints) /\ <<h, i>> \in Seq(Hints)
      /\ Append(q, h) \in Seq(Hints)
  BY AppendProperties
<1>2. Append(<<h>>, i) = <<h, i>>
  <2>. DEFINE u == Append(<<h>>, i)
              v == <<h, i>>
  <2>1. Len(<<h>>) = 1 /\ Len(v) = 2  OBVIOUS
  <2>2. u \in Seq(Hints) /\ Len(u) = 2 /\ u[1] = h /\ u[2] = i  BY <1>1, <2>1, AppendProperties
  <2>3. \A k \in 1..Len(u) : u[k] = v[k]  BY <2>2
  <2>. HIDE DEF u, v
  <2>. QED  BY <1>1, <2>1, <2>2, <2>3, SeqEqual DEF u, v
<1>3. q \o <<h, i>> = q \o (<<h>> \o <<i>>)  BY <1>1, <1>2, AppendIsConcat
<1>4. q \o (<<h>> \o <<i>>) = (q \o <<h>>) \o <<i>>  BY <1>1, ConcatAssociative
<1>. QED  BY <1>1, <1>3, <1>4, AppendIsConcat

(* What a call sends to a stream that is not its own goes on from there.   *)
LEMMA ChainMoves ==
    ASSUME NEW q \in Seq(Hints), NEW a, NEW b, Chain(q, a, b), b # "PLACEHOLDER",
           NEW h, NEW g \in Places, Moves(b, h, g)
    PROVE  Chain(q \o h, a, g)
<1>0. q \o <<>> = q  BY ConcatEmptySeq
<1>1. /\ "PAUSE" \in Hints /\ "DUCK" \in Hints /\ "UNDUCK" \in Hints /\ "RESUME" \in Hints
      /\ "STOP" \in Hints /\ "PAUSE" \in Places /\ "DUCK" \in Places /\ "ACTIVE" \in Places
      /\ "none" \in Places
  BY DEF Hints, Places
<1>2. ASSUME NEW x \in Hints, h = <<x>>, Follows(b, x, g) PROVE Chain(q \o h, a, g)
  BY <1>2, ChainAppend, ConcatOne
<1>3. CASE h = <<>> /\ g = b  BY <1>0, <1>3
<1>4. CASE h = <<"PAUSE">> /\ b \in {"ACTIVE", "DUCK"} /\ g = "PAUSE"
  BY <1>1, <1>2, <1>4 DEF Follows
<1>5. CASE h = <<"DUCK">> /\ b = "ACTIVE" /\ g = "DUCK"  BY <1>1, <1>2, <1>5 DEF Follows
<1>6. CASE h = <<"UNDUCK">> /\ b = "DUCK" /\ g = "ACTIVE"  BY <1>1, <1>2, <1>6 DEF Follows
<1>7. CASE h = <<"UNDUCK", "PAUSE">> /\ b = "DUCK" /\ g = "PAUSE"
  <2>1. Follows(b, "UNDUCK", "ACTIVE") /\ Follows("ACTIVE", "PAUSE", g)  BY <1>7 DEF Follows
  <2>2. Chain(Append(q, "UNDUCK"), a, "ACTIVE")  BY <1>1, <2>1, ChainAppend
  <2>3. Append(q, "UNDUCK") \in Seq(Hints)  BY <1>1, AppendProperties
  <2>4. Chain(Append(Append(q, "UNDUCK"), "PAUSE"), a, g)  BY <1>1, <2>1, <2>2, <2>3, ChainAppend
  <2>. QED  BY <1>1, <1>7, <2>4, ConcatTwo
<1>8. CASE h = <<"RESUME">> /\ b = "PAUSE" /\ g = "none"  BY <1>1, <1>2, <1>8 DEF Follows
<1>9. CASE h = <<"STOP">> /\ b # "none" /\ g = "none"  BY <1>1, <1>2, <1>9 DEF Follows
<1>. QED  BY <1>3, <1>4, <1>5, <1>6, <1>7, <1>8, <1>9 DEF Moves

(* To be stopped leads nowhere but out of the list, even from there. *)
OnlyStops(q) == \A k \in 1..Len(q) : q[k] = "STOP"

(* Events that stop a stream which is not listed. *)
LEMMA ChainStops ==
    ASSUME NEW q \in Seq(Hints), OnlyStops(q)
    PROVE  Chain(q, "none", "none")
<1>. DEFINE p == [k \in 0..Len(q) |-> "none"]
<1>1. Len(q) \in Nat  BY LenProperties
<1>2. p \in [0..Len(q) -> Places]  BY DEF Places
<1>3. \A k \in 1..Len(q) : k - 1 \in 0..Len(q) /\ k \in 0..Len(q)  BY <1>1
<1>4. p[0] = "none" /\ p[Len(q)] = "none" /\ \A k \in 1..Len(q) : Follows(p[k - 1], q[k], p[k])
  BY <1>1, <1>3 DEF Follows, OnlyStops
<1>. HIDE DEF p
<1>. QED  BY <1>2, <1>4 DEF Chain

-----------------------------------------------------------------------------
(* How the renderer is where a stream is at a. *)
Fits(s, a) ==
    /\ (state[s] = "RUNNING") <=> a \in {"ACTIVE", "DUCK"}
    /\ ducked[s] <=> a = "DUCK"
    /\ a = "DUCK" => isForceDucked[s]

(* The parts of a call, and the types of the variables; what FocusPolicy   *)
(* keeps is kept, and no process uses sessions.                            *)
Calls == {"idle", "start", "giveUp", "leave", "unduck"}
Typed ==
    /\ Kept /\ modes = {} /\ calm \in BOOLEAN
    /\ queue \in [Streams -> Seq(Hints)]
    /\ state \in [Streams -> {"PREPARED", "RUNNING", "PAUSED", "STOPPED", "INVALID", "RELEASED"}]
    /\ pc \in [Streams -> Calls]
    /\ ducked \in [Streams -> BOOLEAN] /\ isForceDucked \in [Streams -> BOOLEAN]

(* A released stream holds no focus, unless it is about to give it up. *)
Freed ==
    \A s \in Streams : state[s] = "RELEASED" =>
       /\ pc[s] \in {"idle", "giveUp"}
       /\ pc[s] = "idle" => Place(list, s) = "none"

(* While it is calm, one client at a time is in a call. *)
OneCall == \A x, y \in Streams : pc[x] # "idle" /\ pc[y] # "idle" => x = y

(* What is on its way to a stream takes its renderer to where the list has *)
(* it; while a call is in progress, from where the call will leave it.     *)
Story(s) ==
    /\ pc[s] = "idle" =>
          \E a \in Places : Fits(s, a) /\ Chain(queue[s], a, Place(list, s))
    /\ pc[s] = "start" => /\ state[s] # "RUNNING" /\ ~ducked[s]
                          /\ Chain(queue[s], "ACTIVE", Place(list, s))
    /\ pc[s] \in {"leave", "unduck"} => state[s] # "RUNNING" /\ OnlyStops(queue[s])
    /\ pc[s] = "unduck" => Place(list, s) = "none"
    /\ pc[s] # "giveUp"

(* A released renderer takes no event in. *)
Stories == \A s \in Streams : state[s] # "RELEASED" => Story(s)

(* The inductive invariant. *)
IInv == Typed /\ Freed /\ (calm => OneCall /\ Stories)

-----------------------------------------------------------------------------
(* What the service finds when it is called is what the lemmas on its      *)
(* operations ask for, and no stream is a placeholder.                     *)
LEMMA WorldHere ==
    ASSUME Typed
    PROVE  /\ world \in Worlds(type, Modes) /\ world.sent = Nothing /\ world.list = list
           /\ type \in [Streams -> FocusTypes]
           /\ \A s \in Streams : world.mode[Pid[s]] = "none"
           /\ \A s \in Streams : Place(list, s) # "PLACEHOLDER"
<1>1. Kept /\ Plain(world)  BY DEF Typed, Kept
<1>2. world \in Worlds(type, Modes) /\ world.sent = Nothing /\ world.list = list
      /\ type \in [Streams -> FocusTypes]
  BY <1>1, WorldIs
<1>. QED  BY <1>1, <1>2, PidType DEF Plain, Quiet

(* What a decision of the service does to the list and the queues. *)
LEMMA DecidesIs ==
    ASSUME Typed, NEW w \in Worlds(type, Modes), NEW know, Becomes(w, know), Sends(w)
    PROVE  /\ list' = w.list /\ calm' = calm /\ modes' = {}
           /\ queue' \in [Streams -> Seq(Hints)]
           /\ \A s \in Streams : queue'[s] = queue[s] \o w.sent[s]
<1>1. list' = w.list /\ calm' = calm /\ modes' = {}
  BY DEF Becomes, Sends, Typed
<1>2. \A s \in Streams : queue'[s] = queue[s] \o w.sent[s]  BY DEF Sends
<1>3. queue' \in [Streams -> Seq(Hints)]
  <2>1. \A s \in Streams : queue[s] \o w.sent[s] \in Seq(Hints)  BY ConcatProperties DEF Typed, Worlds
  <2>. QED  BY <2>1 DEF Sends
<1>. QED  BY <1>1, <1>2, <1>3

(* No session is on, so there is no placeholder. *)
LEMMA PlaceIn ==
    ASSUME Typed, NEW s \in Streams
    PROVE  Place(list, s) \in Places
<1>1. Proper(list) /\ Place(list, s) # "PLACEHOLDER"  BY WorldHere DEF Worlds
<1>2. Place(list, s) \in States \cup {"none"}  BY <1>1, PlaceType
<1>. QED  BY <1>1, <1>2 DEF States, Places

(* The three kinds of call at the service. *)
LEMMA ActivateHere ==
    ASSUME Typed, NEW s \in Streams
    PROVE  LET w == ActivateAudioInterrupt(world, s)
           IN  /\ w \in Worlds(type, Modes)
               /\ \A x \in Streams : Place(w.list, x) \in Places
               /\ Gets(w.sent[s], Place(w.list, s))
               /\ Granted(w, s) <=> Place(w.list, s) \in {"ACTIVE", "DUCK"}
               /\ \A x \in Streams \ {s} : Moves(Place(list, x), w.sent[x], Place(w.list, x))
<1>. DEFINE w == ActivateAudioInterrupt(world, s)
<1>1. /\ w \in Worlds(type, Modes) /\ Gets(w.sent[s], Place(w.list, s))
      /\ \A x \in Streams \ {s} : Moves(Place(list, x), w.sent[x], Place(w.list, x))
  <2>1. /\ world \in Worlds(type, Modes) /\ world.sent = Nothing /\ world.list = list
        /\ type \in [Streams -> FocusTypes]
    BY WorldHere
  <2>2. /\ w \in Worlds(type, Modes) /\ Gets(w.sent[s], Place(w.list, s))
        /\ \A x \in Streams \ {s} : Moves(Place(world.list, x), w.sent[x], Place(w.list, x))
    BY <2>1, ActivateIs
  <2>. QED  BY <2>1, <2>2
<1>. HIDE DEF w
<1>2. Granted(w, s) <=> Place(w.list, s) \in {"ACTIVE", "DUCK"}
  BY ListedIs DEF Granted
<1>3. ASSUME NEW x \in Streams PROVE Place(w.list, x) \in Places
  <2>1. CASE x = s  BY <1>1, <2>1 DEF Gets, Places
  <2>2. CASE x # s
    <3>1. Place(list, x) \in Places /\ Place(list, x) # "PLACEHOLDER"  BY PlaceIn, WorldHere
    <3>. QED  BY <1>1, <2>2, <3>1 DEF Moves, Places
  <2>. QED  BY <2>1, <2>2
<1>. QED  BY <1>1, <1>2, <1>3 DEF w

(* A stream leaves, by its own call or with its client. *)
LEMMA LeavesHere ==
    ASSUME Typed, NEW s \in Streams, NEW w \in Worlds(type, Modes), Leaves(world, s, w)
    PROVE  /\ \A x \in Streams : Place(w.list, x) \in Places
           /\ w.sent[s] = <<>> /\ Place(w.list, s) = "none"
           /\ \A x \in Streams \ {s} : Moves(Place(list, x), w.sent[x], Place(w.list, x))
<1>1. /\ w.sent[s] = <<>> /\ Place(w.list, s) = "none"
      /\ \A x \in Streams \ {s} : Moves(Place(list, x), w.sent[x], Place(w.list, x))
  BY WorldHere DEF Leaves
<1>2. ASSUME NEW x \in Streams PROVE Place(w.list, x) \in Places
  <2>1. CASE x = s  BY <1>1, <2>1 DEF Places
  <2>2. CASE x # s
    <3>1. Place(list, x) \in Places /\ Place(list, x) # "PLACEHOLDER"  BY PlaceIn, WorldHere
    <3>. QED  BY <1>1, <2>2, <3>1 DEF Moves, Places
  <2>. QED  BY <2>1, <2>2
<1>. QED  BY <1>1, <1>2

(* The account changes: every event sent is a STOP. *)
LEMMA AccountsHere ==
    ASSUME Typed
    PROVE  LET w == ClearAudioFocusInfoListOnAccountsChanged(world)
           IN  /\ w \in Worlds(type, Modes)
               /\ \A x \in Streams : /\ Place(w.list, x) \in Places
                                     /\ w.sent[x] \in {<<>>, <<"STOP">>}
                                     /\ Moves(Place(list, x), w.sent[x], Place(w.list, x))
<1>. DEFINE w == ClearAudioFocusInfoListOnAccountsChanged(world)
<1>1. /\ w \in Worlds(type, Modes)
      /\ \A x \in Streams : /\ w.sent[x] \in {<<>>, <<"STOP">>}
                            /\ Moves(Place(list, x), w.sent[x], Place(w.list, x))
  BY WorldHere, AccountsChangedIs
<1>. HIDE DEF w
<1>2. ASSUME NEW x \in Streams PROVE Place(w.list, x) \in Places
  <2>1. Place(list, x) \in Places /\ Place(list, x) # "PLACEHOLDER"  BY PlaceIn, WorldHere
  <2>. QED  BY <1>1, <2>1 DEF Moves, Places
<1>. QED  BY <1>1, <1>2 DEF w

(* A stream that is not the caller's, in a call of another or none. *)
LEMMA StoryMoves ==
    ASSUME Typed, NEW s \in Streams, Story(s), pc[s] \in {"idle", "start"}, NEW w,
           Moves(Place(list, s), w.sent[s], Place(w.list, s)), Place(w.list, s) \in Places,
           list' = w.list, queue'[s] = queue[s] \o w.sent[s],
           state'[s] = state[s], pc'[s] = pc[s], ducked'[s] = ducked[s],
           isForceDucked'[s] = isForceDucked[s]
    PROVE  Story(s)'
<1>1. queue[s] \in Seq(Hints) /\ Place(list, s) # "PLACEHOLDER"  BY WorldHere DEF Typed
<1>2. ASSUME NEW a, Chain(queue[s], a, Place(list, s))
      PROVE  Chain(queue'[s], a, Place(list', s))
  BY <1>1, <1>2, ChainMoves
<1>3. \A a : Fits(s, a) => Fits(s, a)'  BY DEF Fits
<1>4. CASE pc[s] = "idle"
  <2>1. PICK a \in Places : Fits(s, a) /\ Chain(queue[s], a, Place(list, s))
    BY <1>4 DEF Story
  <2>2. Fits(s, a)' /\ Chain(queue'[s], a, Place(list', s))  BY <1>2, <1>3, <2>1
  <2>. QED  BY <1>4, <2>2 DEF Story
<1>5. CASE pc[s] = "start"
  <2>1. Chain(queue[s], "ACTIVE", Place(list, s))  BY <1>5 DEF Story
  <2>2. Chain(queue'[s], "ACTIVE", Place(list', s))  BY <1>2, <2>1
  <2>. QED  BY <1>5, <2>2 DEF Story
<1>. QED  BY <1>4, <1>5

(* Where nothing of a stream changes, its story is the same. *)
LEMMA StorySame ==
    ASSUME NEW s, Story(s), Place(list', s) = Place(list, s), queue'[s] = queue[s],
           state'[s] = state[s], pc'[s] = pc[s], ducked'[s] = ducked[s],
           isForceDucked'[s] = isForceDucked[s]
    PROVE  Story(s)'
<1>1. \A a : Fits(s, a) => Fits(s, a)'  BY DEF Fits
<1>2. pc[s] = "idle" =>
         \E a \in Places : Fits(s, a)' /\ Chain(queue'[s], a, Place(list', s))
  BY <1>1 DEF Story
<1>. QED  BY <1>2 DEF Story

(* A single event. *)
LEMMA ChainOne ==
    ASSUME NEW a \in Places, NEW h \in Hints, NEW g \in Places, Follows(a, h, g)
    PROVE  Chain(<<h>>, a, g)
<1>1. Chain(<<>>, a, a) /\ <<>> \in Seq(Hints)  BY ChainNone
<1>2. Append(<<>>, h) = <<h>>  OBVIOUS
<1>. QED  BY <1>1, <1>2, ChainAppend

(* Where it is calm nothing fails. *)
LEMMA NothingFails ==
    ASSUME calm, NEW s
    PROVE  /\ PauseAudioStream(s) = {IF state[s] = "RUNNING" THEN "PAUSED" ELSE state[s]}
           /\ StopAudioStream(s) = {IF state[s] \in {"RUNNING", "PAUSED"} THEN "STOPPED" ELSE state[s]}
           /\ Failed({state[s]}) = {}
BY DEF PauseAudioStream, StopAudioStream, Failed

(* An event that is carried out takes the renderer along; a RESUME, which  *)
(* is not, has no way to go.                                               *)
LEMMA ForcedFits ==
    ASSUME Typed, calm, NEW s \in Streams, NEW a \in Places, Fits(s, a),
           NEW h, NEW c, Follows(a, h, c), h # "RESUME", Forced(s, h)
    PROVE  Fits(s, c)'
<1>1. /\ h = "PAUSE" => state'[s] = IF state[s] = "RUNNING" THEN "PAUSED" ELSE state[s]
      /\ h = "STOP" => state'[s] = IF state[s] \in {"RUNNING", "PAUSED"} THEN "STOPPED" ELSE state[s]
      /\ h \in {"DUCK", "UNDUCK"} => state'[s] = state[s]
  <2>1. PICK st \in CASE h = "PAUSE" -> PauseAudioStream(s)
                     [] h = "STOP" -> StopAudioStream(s)
                     [] OTHER -> {state[s]} :
           state' = [state EXCEPT ![s] = st]
    BY DEF Forced
  <2>2. state'[s] = st  BY <2>1 DEF Typed
  <2>3. CASE h = "PAUSE"  BY <2>1, <2>2, <2>3, NothingFails
  <2>4. CASE h = "STOP"  BY <2>1, <2>2, <2>4, NothingFails
  <2>5. CASE h \notin {"PAUSE", "STOP"}  BY <2>1, <2>2, <2>5
  <2>. QED  BY <2>3, <2>4, <2>5
<1>2. /\ h = "PAUSE" => ducked'[s] = (ducked[s] /\ state[s] \notin {"RUNNING", "PREPARED"})
      /\ h = "STOP" => ducked'[s] = FALSE
      /\ h = "DUCK" => ducked'[s] = TRUE
      /\ h = "UNDUCK" => ducked'[s] = (ducked[s] /\ ~isForceDucked[s])
      /\ isForceDucked'[s] = (h = "DUCK" \/ (isForceDucked[s] /\ h # "UNDUCK"))
  BY DEF Typed, Forced
<1>3. CASE h = "DUCK" /\ a = "ACTIVE" /\ c = "DUCK"  BY <1>1, <1>2, <1>3 DEF Fits
<1>4. CASE h = "UNDUCK" /\ a = "DUCK" /\ c = "ACTIVE"  BY <1>1, <1>2, <1>4 DEF Fits
<1>5. CASE h = "PAUSE" /\ a \in {"ACTIVE", "DUCK", "none"} /\ c = "PAUSE"
  BY <1>1, <1>2, <1>5 DEF Fits
<1>6. CASE h = "STOP" /\ c = "none"  BY <1>1, <1>2, <1>6 DEF Fits
<1>. QED  BY <1>3, <1>4, <1>5, <1>6 DEF Follows

-----------------------------------------------------------------------------
(* At the start no stream is listed and none plays. *)
LEMMA EventsInitHolds == ASSUME TypesAssumption PROVE EventsInit => IInv
<1>. SUFFICES ASSUME EventsInit PROVE IInv  OBVIOUS
<1>1. Init /\ Kept /\ modes = {}  BY TypesAssumption, KeptAtFirst DEF EventsInit
<1>2. list = <<>> /\ \A s : Place(<<>>, s) = "none"  BY <1>1 DEF Init, Place
<1>3. Typed  BY <1>1 DEF EventsInit, Typed, Calls
<1>4. Freed  BY <1>2 DEF EventsInit, Freed
<1>5. OneCall  BY DEF EventsInit, OneCall
<1>6. Stories
  <2>. SUFFICES ASSUME NEW s \in Streams PROVE Story(s)  BY DEF Stories
  <2>1. Fits(s, "none")  BY DEF EventsInit, Fits
  <2>2. Chain(queue[s], "none", Place(list, s))
    BY <1>2, ChainNone DEF EventsInit, Places
  <2>3. pc[s] = "idle" /\ "none" \in Places  BY DEF EventsInit, Places
  <2>. QED  BY <2>1, <2>2, <2>3 DEF Story
<1>. QED  BY <1>3, <1>4, <1>5, <1>6 DEF IInv

(* Where the service has no part, its state stays.                         *)
LEMMA NoDecision ==
    ASSUME Typed, UNCHANGED <<vars, calm>>, queue' \in [Streams -> Seq(Hints)],
           state' \in [Streams -> {"PREPARED", "RUNNING", "PAUSED", "STOPPED", "INVALID", "RELEASED"}],
           pc' \in [Streams -> Calls], ducked' \in [Streams -> BOOLEAN],
           isForceDucked' \in [Streams -> BOOLEAN]
    PROVE  Typed' /\ list' = list
<1>1. Kept'  BY PolicyStepHolds DEF Typed
<1>2. modes' = modes /\ list' = list /\ calm' = calm  BY DEF vars
<1>. QED  BY <1>1, <1>2 DEF Typed

(* Where the service decides, the types are kept too. *)
LEMMA Decision ==
    ASSUME Typed, Next, modes' = {}, calm' = calm, queue' \in [Streams -> Seq(Hints)],
           state' \in [Streams -> {"PREPARED", "RUNNING", "PAUSED", "STOPPED", "INVALID", "RELEASED"}],
           pc' \in [Streams -> Calls], ducked' \in [Streams -> BOOLEAN],
           isForceDucked' \in [Streams -> BOOLEAN]
    PROVE  Typed'
<1>1. Kept'  BY PolicyStepHolds DEF Typed
<1>. QED  BY <1>1 DEF Typed

(* Start: the service decides. What it sends to the caller itself leads    *)
(* from ACTIVE to where the list has it now or, if it is refused, from a   *)
(* place that fits a renderer which does not play.                         *)
LEMMA StartHolds ==
    ASSUME IInv, NEW s \in Streams, Start(s)
    PROVE  IInv'
<1>. DEFINE w == ActivateAudioInterrupt(world, s)
<1>1. /\ Typed /\ Freed /\ pc[s] = "idle" /\ state[s] \in {"PREPARED", "STOPPED", "PAUSED"}
      /\ Next /\ Sends(w) /\ Becomes(w, [told EXCEPT ![s] = IF Listed(w, s) THEN "ACTIVE" ELSE "none"])
      /\ pc' = [pc EXCEPT ![s] = IF Granted(w, s) THEN "start" ELSE "idle"]
      /\ UNCHANGED <<state, ducked, isForceDucked>>
  BY DEF IInv, Start, MayCall, Next, Activate
<1>2. /\ w \in Worlds(type, Modes)
      /\ \A x \in Streams : Place(w.list, x) \in Places
      /\ Gets(w.sent[s], Place(w.list, s))
      /\ Granted(w, s) <=> Place(w.list, s) \in {"ACTIVE", "DUCK"}
      /\ \A x \in Streams \ {s} : Moves(Place(list, x), w.sent[x], Place(w.list, x))
  BY <1>1, ActivateHere
<1>. HIDE DEF w
<1>3. /\ list' = w.list /\ calm' = calm /\ modes' = {} /\ queue' \in [Streams -> Seq(Hints)]
      /\ \A x \in Streams : queue'[x] = queue[x] \o w.sent[x]
  BY <1>1, <1>2, DecidesIs
<1>4. /\ pc' \in [Streams -> Calls]
      /\ pc'[s] = (IF Granted(w, s) THEN "start" ELSE "idle")
      /\ \A x \in Streams \ {s} : pc'[x] = pc[x]
  BY <1>1 DEF Typed, Calls, Granted
<1>5. Typed'
  <2>1. /\ state' \in [Streams -> {"PREPARED", "RUNNING", "PAUSED", "STOPPED", "INVALID", "RELEASED"}]
        /\ ducked' \in [Streams -> BOOLEAN]
        /\ isForceDucked' \in [Streams -> BOOLEAN]
    BY <1>1 DEF Typed
  <2>. QED  BY <1>1, <1>3, <1>4, <2>1, Decision
<1>6. Freed'
  <2>. SUFFICES ASSUME NEW x \in Streams, state'[x] = "RELEASED"
                PROVE  /\ pc'[x] \in {"idle", "giveUp"}
                       /\ pc'[x] = "idle" => Place(list', x) = "none"
    BY DEF Freed
  <2>1. x # s /\ pc'[x] = pc[x] /\ state[x] = "RELEASED"  BY <1>1, <1>4
  <2>2. Moves(Place(list, x), w.sent[x], Place(w.list, x))  BY <1>2, <2>1
  <2>. QED  BY <1>1, <1>3, <2>1, <2>2 DEF Freed, Moves
<1>7. ASSUME calm PROVE OneCall' /\ Stories'
  <2>1. Stories /\ queue[s] = <<>> /\ \A x \in Streams : pc[x] = "idle"
    BY <1>7 DEF IInv, Start, MayCall
  <2>2. OneCall'  BY <1>4, <2>1 DEF OneCall
  <2>3. ASSUME NEW x \in Streams, x # s, state'[x] # "RELEASED" PROVE Story(x)'
    <3>1. Story(x) /\ pc[x] = "idle"  BY <1>1, <2>1, <2>3 DEF Stories
    <3>2. Moves(Place(list, x), w.sent[x], Place(w.list, x))  BY <1>2, <2>3
    <3>. QED  BY <1>1, <1>2, <1>3, <1>4, <2>3, <3>1, <3>2, StoryMoves
  <2>4. Story(s)'
    <3>. DEFINE g == Place(w.list, s)
                h == w.sent[s]
    <3>1. state[s] # "RUNNING" /\ ~ducked[s]
      <4>1. Story(s)  BY <1>1, <2>1 DEF Stories
      <4>2. PICK a \in Places : Fits(s, a)  BY <1>1, <4>1 DEF Story
      <4>. QED  BY <1>1, <4>2 DEF Fits
    <3>2. queue'[s] = h
      <4>1. h \in Seq(Hints)  BY <1>2 DEF Worlds
      <4>. QED  BY <1>3, <2>1, <4>1, ConcatEmptySeq
    <3>3. /\ "DUCK" \in Hints /\ "PAUSE" \in Hints /\ "STOP" \in Hints
          /\ "none" \in Places /\ "ACTIVE" \in Places /\ g \in Places
      BY <1>2 DEF Hints, Places
    <3>. HIDE DEF g, h
    <3>4. CASE Granted(w, s)
      <4>1. (h = <<>> /\ g = "ACTIVE") \/ (h = <<"DUCK">> /\ g = "DUCK")
        BY <1>2, <3>4 DEF Gets, g, h
      <4>2. Follows("ACTIVE", "DUCK", "DUCK")  BY DEF Follows
      <4>3. Chain(h, "ACTIVE", g)  BY <3>3, <4>1, <4>2, ChainNone, ChainOne
      <4>. QED  BY <1>1, <1>3, <1>4, <3>1, <3>2, <3>4, <4>3 DEF Story, g
    <3>5. CASE ~Granted(w, s)
      <4>1. \/ h = <<>> /\ g = "none"
            \/ h = <<"PAUSE">> /\ g = "PAUSE"
            \/ h = <<"STOP">> /\ g = "none"
        BY <1>2, <3>5 DEF Gets, g, h
      <4>3. Follows("none", "PAUSE", "PAUSE") /\ Follows("none", "STOP", "none")  BY DEF Follows
      <4>4. Chain(h, "none", g)  BY <3>3, <4>1, <4>3, ChainNone, ChainOne
      <4>5. Fits(s, "none")'  BY <1>1, <3>1 DEF Fits
      <4>. QED  BY <1>3, <1>4, <3>2, <3>3, <3>5, <4>4, <4>5 DEF Story, g
    <3>. QED  BY <3>4, <3>5
  <2>. QED  BY <2>2, <2>3, <2>4 DEF Stories
<1>. QED  BY <1>3, <1>5, <1>6, <1>7 DEF IInv

(* A step of the client alone: only s's state, call and queue may change.  *)
LEMMA OthersStay ==
    ASSUME IInv, calm, NEW s \in Streams, list' = list,
           \A x \in Streams \ {s} : /\ state'[x] = state[x] /\ pc'[x] = pc[x] /\ queue'[x] = queue[x]
                                    /\ ducked'[x] = ducked[x]
                                    /\ isForceDucked'[x] = isForceDucked[x]
    PROVE  \A x \in Streams \ {s} : state'[x] # "RELEASED" => Story(x)'
<1>. SUFFICES ASSUME NEW x \in Streams \ {s}, state'[x] # "RELEASED" PROVE Story(x)'
  OBVIOUS
<1>1. Story(x)  BY DEF IInv, Stories
<1>. QED  BY <1>1, StorySame

(* StartAudioStream: the renderer runs, as the chain has assumed. *)
LEMMA StartAudioStreamHolds ==
    ASSUME IInv, NEW s \in Streams, StartAudioStream(s)
    PROVE  IInv'
<1>1. /\ Typed /\ Freed /\ pc[s] = "start"
      /\ UNCHANGED <<vars, queue, ducked, isForceDucked, calm>>
      /\ \/ state' = [state EXCEPT ![s] = "RUNNING"] /\ pc' = [pc EXCEPT ![s] = "idle"]
         \/ ~calm /\ UNCHANGED state /\ pc' = [pc EXCEPT ![s] = "giveUp"]
  BY DEF IInv, StartAudioStream, Failed, Typed
<1>2. /\ \A x \in Streams \ {s} : state'[x] = state[x] /\ pc'[x] = pc[x]
      /\ state' \in [Streams -> {"PREPARED", "RUNNING", "PAUSED", "STOPPED", "INVALID", "RELEASED"}]
      /\ pc' \in [Streams -> Calls]
      /\ \/ state'[s] = "RUNNING" /\ pc'[s] = "idle"
         \/ ~calm /\ state'[s] = state[s] /\ pc'[s] = "giveUp"
  BY <1>1 DEF Typed, Calls
<1>3. Typed' /\ list' = list  BY <1>1, <1>2, NoDecision DEF Typed
<1>4. Freed'  BY <1>1, <1>2, <1>3 DEF Freed
<1>5. ASSUME calm PROVE OneCall' /\ Stories'
  <2>1. state'[s] = "RUNNING" /\ pc'[s] = "idle"  BY <1>2, <1>5
  <2>2. OneCall'  BY <1>1, <1>2, <1>5, <2>1 DEF IInv, OneCall
  <2>3. state[s] # "RELEASED" /\ Story(s)  BY <1>1, <1>5 DEF IInv, Stories, Freed
  <2>4. ~ducked[s] /\ Chain(queue[s], "ACTIVE", Place(list, s))
    BY <1>1, <2>3 DEF Story
  <2>5. Fits(s, "ACTIVE")' /\ "ACTIVE" \in Places  BY <1>1, <2>1, <2>4 DEF Fits, Places
  <2>6. Story(s)'  BY <1>1, <1>3, <2>1, <2>4, <2>5 DEF Story
  <2>7. \A x \in Streams \ {s} : state'[x] # "RELEASED" => Story(x)'
    BY <1>1, <1>2, <1>3, <1>5, OthersStay
  <2>. QED  BY <2>2, <2>6, <2>7 DEF Stories
<1>. QED  BY <1>1, <1>3, <1>4, <1>5 DEF IInv

(* Pause, Stop and Release: the renderer no longer plays.                  *)
LEMMA PartHolds ==
    ASSUME IInv, NEW s \in Streams, Pause(s) \/ Stop(s) \/ Release(s)
    PROVE  IInv'
<1>1. /\ Typed /\ Freed /\ MayCall(s)
      /\ UNCHANGED <<vars, queue, ducked, isForceDucked, calm>>
  BY DEF IInv, Pause, Stop, Release
<1>2. /\ \A x \in Streams \ {s} : state'[x] = state[x] /\ pc'[x] = pc[x]
      /\ state' \in [Streams -> {"PREPARED", "RUNNING", "PAUSED", "STOPPED", "INVALID", "RELEASED"}]
      /\ pc' \in [Streams -> Calls]
      /\ \/ /\ pc'[s] = "leave" /\ state'[s] # "RELEASED"
            /\ calm => state'[s] # "RUNNING"
         \/ pc'[s] = "giveUp" /\ state'[s] = "RELEASED"
  <2>1. state[s] # "RELEASED"  BY <1>1 DEF MayCall
  <2>2. CASE Pause(s)
    <3>1. PICK st \in PauseAudioStream(s) : state' = [state EXCEPT ![s] = st]  BY <2>2 DEF Pause
    <3>2. st \in {"PAUSED", "RUNNING"} /\ (calm => st # "RUNNING")
      BY <2>2 DEF Pause, PauseAudioStream, Failed
    <3>. QED  BY <1>1, <2>2, <3>1, <3>2 DEF Typed, Calls, Pause
  <2>3. CASE Stop(s)
    <3>1. PICK st \in StopAudioStream(s) : state' = [state EXCEPT ![s] = st]  BY <2>3 DEF Stop
    <3>2. /\ st \in {"STOPPED", "INVALID", state[s]}
          /\ calm => st # "RUNNING"
      BY DEF StopAudioStream, Failed
    <3>3. st \in {"PREPARED", "RUNNING", "PAUSED", "STOPPED", "INVALID"}
      BY <1>1, <2>1, <3>2 DEF Typed
    <3>. QED  BY <1>1, <2>3, <3>1, <3>2, <3>3 DEF Typed, Calls, Stop
  <2>4. CASE Release(s)  BY <1>1, <2>4 DEF Typed, Calls, Release
  <2>. QED  BY <2>2, <2>3, <2>4
<1>3. Typed' /\ list' = list  BY <1>1, <1>2, NoDecision DEF Typed
<1>4. Freed'  BY <1>1, <1>2, <1>3 DEF Freed
<1>5. ASSUME calm PROVE OneCall' /\ Stories'
  <2>1. queue[s] = <<>> /\ \A x \in Streams : pc[x] = "idle"  BY <1>1, <1>5 DEF MayCall
  <2>2. OneCall'  BY <1>2, <2>1 DEF OneCall
  <2>3. OnlyStops(<<>>)
    <3>1. 1..Len(<<>>) = {}  OBVIOUS
    <3>. QED  BY <3>1 DEF OnlyStops
  <2>4. state'[s] # "RELEASED" => Story(s)'  BY <1>1, <1>2, <1>3, <1>5, <2>1, <2>3 DEF Story
  <2>5. \A x \in Streams \ {s} : state'[x] # "RELEASED" => Story(x)'
    BY <1>1, <1>2, <1>3, <1>5, OthersStay
  <2>. QED  BY <2>2, <2>4, <2>5 DEF Stories
<1>. QED  BY <1>1, <1>3, <1>4, <1>5 DEF IInv

(* The volume is restored after the stream has left the list. *)
LEMMA UnduckHolds ==
    ASSUME IInv, NEW s \in Streams, Unduck(s)
    PROVE  IInv'
<1>1. /\ Typed /\ Freed /\ pc[s] = "unduck"
      /\ ducked' = [ducked EXCEPT ![s] = FALSE] /\ pc' = [pc EXCEPT ![s] = "idle"]
      /\ UNCHANGED <<vars, queue, state, isForceDucked, calm>>
  BY DEF IInv, Unduck
<1>2. /\ \A x \in Streams \ {s} : ducked'[x] = ducked[x] /\ pc'[x] = pc[x]
      /\ ducked' \in [Streams -> BOOLEAN] /\ pc' \in [Streams -> Calls]
      /\ ~ducked'[s] /\ pc'[s] = "idle"
  BY <1>1 DEF Typed, Calls
<1>3. Typed' /\ list' = list  BY <1>1, <1>2, NoDecision DEF Typed
<1>4. Freed'  BY <1>1, <1>2, <1>3 DEF Freed
<1>5. ASSUME calm PROVE OneCall' /\ Stories'
  <2>1. OneCall'  BY <1>1, <1>2, <1>5 DEF IInv, OneCall
  <2>2. state[s] # "RELEASED" /\ Story(s)  BY <1>1, <1>5 DEF IInv, Stories, Freed
  <2>3. state[s] # "RUNNING" /\ OnlyStops(queue[s]) /\ Place(list, s) = "none"
    BY <1>1, <2>2 DEF Story
  <2>4. Fits(s, "none")' /\ "none" \in Places  BY <1>1, <1>2, <2>3 DEF Fits, Places
  <2>5. Chain(queue[s], "none", Place(list, s))
    BY <1>1, <2>3, ChainStops DEF Typed
  <2>6. Story(s)'  BY <1>1, <1>2, <1>3, <2>4, <2>5 DEF Story
  <2>7. \A x \in Streams \ {s} : state'[x] # "RELEASED" => Story(x)'
    BY <1>1, <1>2, <1>3, <1>5, OthersStay
  <2>. QED  BY <2>1, <2>6, <2>7 DEF Stories
<1>. QED  BY <1>1, <1>3, <1>4, <1>5 DEF IInv

(* The service takes the caller off the list; what it had been sent before *)
(* are STOPs.                                                              *)
LEMMA LeaveHolds ==
    ASSUME IInv, NEW s \in Streams, Leave(s)
    PROVE  IInv'
<1>. DEFINE w == DeactivateAudioInterrupt(world, s, FALSE)
<1>1. /\ Typed /\ Freed /\ pc[s] \in {"leave", "giveUp"}
      /\ Next /\ Sends(w) /\ Becomes(w, [told EXCEPT ![s] = "none"])
      /\ pc' = [pc EXCEPT ![s] = IF pc[s] = "leave" THEN "unduck" ELSE "idle"]
      /\ UNCHANGED <<state, ducked, isForceDucked>>
  BY DEF IInv, Leave, Next, Deactivate
<1>2. /\ w \in Worlds(type, Modes)
      /\ \A x \in Streams : Place(w.list, x) \in Places
      /\ w.sent[s] = <<>> /\ Place(w.list, s) = "none"
      /\ \A x \in Streams \ {s} : Moves(Place(list, x), w.sent[x], Place(w.list, x))
  <2>1. w \in Worlds(type, Modes) /\ Leaves(world, s, w)  BY <1>1, WorldHere, DeactivateIs
  <2>. HIDE DEF w
  <2>. QED  BY <1>1, <2>1, LeavesHere
<1>. HIDE DEF w
<1>3. /\ list' = w.list /\ calm' = calm /\ modes' = {} /\ queue' \in [Streams -> Seq(Hints)]
      /\ \A x \in Streams : queue'[x] = queue[x] \o w.sent[x]
  BY <1>1, <1>2, DecidesIs
<1>4. /\ pc' \in [Streams -> Calls]
      /\ pc'[s] = (IF pc[s] = "leave" THEN "unduck" ELSE "idle")
      /\ \A x \in Streams \ {s} : pc'[x] = pc[x]
  BY <1>1 DEF Typed, Calls
<1>5. Typed'
  <2>1. /\ state' \in [Streams -> {"PREPARED", "RUNNING", "PAUSED", "STOPPED", "INVALID", "RELEASED"}]
        /\ ducked' \in [Streams -> BOOLEAN]
        /\ isForceDucked' \in [Streams -> BOOLEAN]
    BY <1>1 DEF Typed
  <2>. QED  BY <1>1, <1>3, <1>4, <2>1, Decision
<1>6. Freed'
  <2>. SUFFICES ASSUME NEW x \in Streams, state'[x] = "RELEASED"
                PROVE  /\ pc'[x] \in {"idle", "giveUp"}
                       /\ pc'[x] = "idle" => Place(list', x) = "none"
    BY DEF Freed
  <2>1. CASE x = s  BY <1>1, <1>2, <1>3, <1>4, <2>1 DEF Freed
  <2>2. CASE x # s
    <3>1. Moves(Place(list, x), w.sent[x], Place(w.list, x))  BY <1>2, <2>2
    <3>. QED  BY <1>1, <1>3, <1>4, <2>2, <3>1 DEF Freed, Moves
  <2>. QED  BY <2>1, <2>2
<1>7. ASSUME calm PROVE OneCall' /\ Stories'
  <2>1. Stories /\ OneCall  BY <1>7 DEF IInv
  <2>2. \A x \in Streams \ {s} : pc[x] = "idle"  BY <1>1, <2>1 DEF OneCall
  <2>3. OneCall'  BY <1>4, <2>2 DEF OneCall
  <2>4. ASSUME NEW x \in Streams, x # s, state'[x] # "RELEASED" PROVE Story(x)'
    <3>1. Story(x) /\ pc[x] = "idle"  BY <1>1, <2>1, <2>2, <2>4 DEF Stories
    <3>2. Moves(Place(list, x), w.sent[x], Place(w.list, x))  BY <1>2, <2>4
    <3>. QED  BY <1>1, <1>2, <1>3, <1>4, <2>4, <3>1, <3>2, StoryMoves
  <2>5. ASSUME state'[s] # "RELEASED" PROVE Story(s)'
    <3>1. Story(s)  BY <1>1, <2>1, <2>5 DEF Stories
    <3>2. pc[s] = "leave" /\ state[s] # "RUNNING" /\ OnlyStops(queue[s])  BY <1>1, <3>1 DEF Story
    <3>3. queue'[s] = queue[s]  BY <1>1, <1>2, <1>3, ConcatEmptySeq DEF Typed
    <3>. QED  BY <1>1, <1>2, <1>3, <1>4, <3>2, <3>3 DEF Story
  <2>. QED  BY <2>3, <2>4, <2>5 DEF Stories
<1>. QED  BY <1>3, <1>5, <1>6, <1>7 DEF IInv

(* The client of a stream dies: the stream is released, and the others     *)
(* move.                                                                   *)
LEMMA RendererDiesHolds ==
    ASSUME IInv, NEW s \in Streams, RendererDies(s)
    PROVE  IInv'
<1>. DEFINE w == RemoveClient(world, s)
<1>1. /\ Typed /\ Freed
      /\ calm => \A x \in Streams \ {s} : pc[x] = "idle"
      /\ Next /\ Sends(w) /\ Becomes(w, [told EXCEPT ![s] = "none"])
      /\ state' = [state EXCEPT ![s] = "RELEASED"] /\ pc' = [pc EXCEPT ![s] = "idle"]
      /\ UNCHANGED <<ducked, isForceDucked>>
  BY DEF IInv, RendererDies, Next, ClientDies
<1>2. /\ w \in Worlds(type, Modes)
      /\ \A x \in Streams : Place(w.list, x) \in Places
      /\ w.sent[s] = <<>> /\ Place(w.list, s) = "none"
      /\ \A x \in Streams \ {s} : Moves(Place(list, x), w.sent[x], Place(w.list, x))
  <2>1. w \in Worlds(type, Modes) /\ Leaves(world, s, w)  BY <1>1, WorldHere, RemoveClientIs
  <2>. HIDE DEF w
  <2>. QED  BY <1>1, <2>1, LeavesHere
<1>. HIDE DEF w
<1>3. /\ list' = w.list /\ calm' = calm /\ modes' = {} /\ queue' \in [Streams -> Seq(Hints)]
      /\ \A x \in Streams : queue'[x] = queue[x] \o w.sent[x]
  BY <1>1, <1>2, DecidesIs
<1>4. /\ pc' \in [Streams -> Calls] /\ pc'[s] = "idle" /\ state'[s] = "RELEASED"
      /\ state' \in [Streams -> {"PREPARED", "RUNNING", "PAUSED", "STOPPED", "INVALID", "RELEASED"}]
      /\ \A x \in Streams \ {s} : pc'[x] = pc[x] /\ state'[x] = state[x]
  BY <1>1 DEF Typed, Calls
<1>5. Typed'
  <2>1. /\ ducked' \in [Streams -> BOOLEAN]
        /\ isForceDucked' \in [Streams -> BOOLEAN]
    BY <1>1 DEF Typed
  <2>. QED  BY <1>1, <1>3, <1>4, <2>1, Decision
<1>6. Freed'
  <2>. SUFFICES ASSUME NEW x \in Streams, state'[x] = "RELEASED"
                PROVE  /\ pc'[x] \in {"idle", "giveUp"}
                       /\ pc'[x] = "idle" => Place(list', x) = "none"
    BY DEF Freed
  <2>1. CASE x = s  BY <1>2, <1>3, <1>4, <2>1
  <2>2. CASE x # s
    <3>1. Moves(Place(list, x), w.sent[x], Place(w.list, x))  BY <1>2, <2>2
    <3>. QED  BY <1>1, <1>3, <1>4, <2>2, <3>1 DEF Freed, Moves
  <2>. QED  BY <2>1, <2>2
<1>7. ASSUME calm PROVE OneCall' /\ Stories'
  <2>1. Stories /\ \A x \in Streams \ {s} : pc[x] = "idle"  BY <1>1, <1>7 DEF IInv
  <2>2. OneCall'  BY <1>4, <2>1 DEF OneCall
  <2>3. ASSUME NEW x \in Streams, x # s, state'[x] # "RELEASED" PROVE Story(x)'
    <3>1. Story(x) /\ pc[x] = "idle"  BY <1>4, <2>1, <2>3 DEF Stories
    <3>2. Moves(Place(list, x), w.sent[x], Place(w.list, x))  BY <1>2, <2>3
    <3>. QED  BY <1>1, <1>2, <1>3, <1>4, <2>3, <3>1, <3>2, StoryMoves
  <2>. QED  BY <1>4, <2>2, <2>3 DEF Stories
<1>. QED  BY <1>3, <1>5, <1>6, <1>7 DEF IInv

(* An event is delivered: the chain is one shorter, the renderer one place *)
(* further.                                                                *)
LEMMA OnInterruptHolds ==
    ASSUME IInv, NEW s \in Streams, OnInterrupt(s)
    PROVE  IInv'
<1>. DEFINE h == Head(queue[s])
<1>1. /\ Typed /\ Freed /\ queue[s] # <<>> /\ (calm => pc[s] = "idle")
      /\ queue' = [queue EXCEPT ![s] = Tail(queue[s])]
      /\ IF state[s] = "RELEASED" \/ h = "RESUME" THEN UNCHANGED client ELSE Forced(s, h)
      /\ UNCHANGED <<vars, pc, calm>>
  BY DEF IInv, OnInterrupt
<1>2. /\ h \in Hints /\ Tail(queue[s]) \in Seq(Hints) /\ queue[s] \in Seq(Hints)
  BY <1>1, HeadTailProperties DEF Typed
<1>3. /\ queue' \in [Streams -> Seq(Hints)] /\ queue'[s] = Tail(queue[s])
      /\ \A x \in Streams \ {s} : queue'[x] = queue[x]
  BY <1>1, <1>2 DEF Typed
<1>. HIDE DEF h
<1>4. /\ state' \in [Streams -> {"PREPARED", "RUNNING", "PAUSED", "STOPPED", "INVALID", "RELEASED"}]
      /\ ducked' \in [Streams -> BOOLEAN]
      /\ isForceDucked' \in [Streams -> BOOLEAN]
      /\ (state'[s] = "RELEASED") = (state[s] = "RELEASED")
      /\ \A x \in Streams \ {s} : /\ state'[x] = state[x] /\ ducked'[x] = ducked[x]
                                  /\ isForceDucked'[x] = isForceDucked[x]
  <2>1. CASE state[s] = "RELEASED" \/ h = "RESUME"  BY <1>1, <2>1 DEF Typed, client
  <2>2. CASE state[s] # "RELEASED" /\ h # "RESUME"
    <3>. DEFINE alive == {"PREPARED", "RUNNING", "PAUSED", "STOPPED", "INVALID"}
    <3>1. Forced(s, h) /\ state[s] \in alive  BY <1>1, <2>2 DEF Typed
    <3>2. PICK st \in alive : state' = [state EXCEPT ![s] = st]
      <4>1. PauseAudioStream(s) \subseteq alive
        <5>1. Failed({"RUNNING"}) \subseteq {"RUNNING"}  BY DEF Failed
        <5>. QED  BY <3>1, <5>1 DEF PauseAudioStream
      <4>2. StopAudioStream(s) \subseteq alive
        <5>1. Failed({state[s], "INVALID"}) \subseteq {state[s], "INVALID"}  BY DEF Failed
        <5>. QED  BY <3>1, <5>1 DEF StopAudioStream
      <4>3. CASE h = "PAUSE"  BY <3>1, <4>1, <4>3 DEF Forced
      <4>4. CASE h = "STOP"  BY <3>1, <4>2, <4>4 DEF Forced
      <4>5. CASE h \notin {"PAUSE", "STOP"}  BY <3>1, <4>5 DEF Forced
      <4>. QED  BY <4>3, <4>4, <4>5
    <3>3. PICK v \in BOOLEAN : ducked' = [ducked EXCEPT ![s] = v]
      <4>1. ducked[s] \in BOOLEAN  BY <1>1 DEF Typed
      <4>2. h \in {"PAUSE", "STOP", "DUCK", "UNDUCK"}  BY <1>2, <2>2 DEF Hints
      <4>. DEFINE v == CASE h = "PAUSE" -> ducked[s] /\ state[s] \notin {"RUNNING", "PREPARED"}
                         [] h = "STOP" -> FALSE
                         [] h = "DUCK" -> TRUE
                         [] h = "UNDUCK" -> ducked[s] /\ ~isForceDucked[s]
      <4>3. v \in BOOLEAN  BY <4>1, <4>2
      <4>4. ducked' = [ducked EXCEPT ![s] = v]  BY <3>1 DEF Forced
      <4>. HIDE DEF v
      <4>. QED  BY <4>3, <4>4
    <3>4. PICK w \in BOOLEAN : isForceDucked' = [isForceDucked EXCEPT ![s] = w]
      <4>. DEFINE w == h = "DUCK" \/ (isForceDucked[s] /\ h # "UNDUCK")
      <4>1. isForceDucked' = [isForceDucked EXCEPT ![s] = w] /\ w \in BOOLEAN  BY <3>1 DEF Forced
      <4>. HIDE DEF w
      <4>. QED  BY <4>1
    <3>5. state' \in [Streams -> alive \cup {"RELEASED"}]  BY <1>1, <3>2 DEF Typed
    <3>6. state'[s] = st /\ \A x \in Streams \ {s} : state'[x] = state[x]  BY <1>1, <3>2 DEF Typed
    <3>7. ducked' \in [Streams -> BOOLEAN] /\ \A x \in Streams \ {s} : ducked'[x] = ducked[x]
      BY <1>1, <3>3 DEF Typed
    <3>8. /\ isForceDucked' \in [Streams -> BOOLEAN]
          /\ \A x \in Streams \ {s} : isForceDucked'[x] = isForceDucked[x]
      BY <1>1, <3>4 DEF Typed
    <3>. QED  BY <2>2, <3>2, <3>5, <3>6, <3>7, <3>8
  <2>. QED  BY <2>1, <2>2
<1>5. Typed' /\ list' = list
  <2>1. pc' \in [Streams -> Calls]  BY <1>1 DEF Typed
  <2>. QED  BY <1>1, <1>3, <1>4, <2>1, NoDecision
<1>6. Freed'  BY <1>1, <1>4, <1>5 DEF Freed
<1>7. ASSUME calm PROVE OneCall' /\ Stories'
  <2>1. Stories /\ OneCall /\ pc[s] = "idle"  BY <1>1, <1>7 DEF IInv
  <2>2. OneCall'  BY <1>1, <2>1 DEF OneCall
  <2>3. ASSUME state'[s] # "RELEASED" PROVE Story(s)'
    <3>1. state[s] # "RELEASED"  BY <1>4, <2>3
    <3>2. PICK a \in Places : Fits(s, a) /\ Chain(queue[s], a, Place(list, s))
      BY <2>1, <3>1 DEF Stories, Story
    <3>3. PICK c \in Places : /\ Follows(a, h, c)
                              /\ Chain(Tail(queue[s]), c, Place(list, s))
      BY <1>1, <1>2, <3>2, ChainTail DEF h
    <3>4. Fits(s, c)'
      <4>1. CASE h = "RESUME"
        <5>1. Fits(s, a)' /\ a = "PAUSE" /\ c = "none"
          BY <1>1, <3>2, <3>3, <4>1 DEF Fits, Follows, client
        <5>. QED  BY <5>1 DEF Fits
      <4>2. CASE h # "RESUME"  BY <1>1, <1>7, <3>1, <3>2, <3>3, <4>2, ForcedFits
      <4>. QED  BY <4>1, <4>2
    <3>5. pc'[s] = "idle" /\ Chain(queue'[s], c, Place(list', s))
      BY <1>1, <1>3, <1>5, <2>1, <3>3
    <3>. QED  BY <3>4, <3>5 DEF Story
  <2>4. \A x \in Streams \ {s} : state'[x] # "RELEASED" => Story(x)'
    BY <1>1, <1>3, <1>4, <1>5, <1>7, OthersStay
  <2>. QED  BY <2>2, <2>3, <2>4 DEF Stories
<1>. QED  BY <1>1, <1>5, <1>6, <1>7 DEF IInv

(* The account changes: every stream may be stopped at once. *)
LEMMA AccountSwitchHolds ==
    ASSUME IInv, AccountSwitch
    PROVE  IInv'
<1>. DEFINE w == ClearAudioFocusInfoListOnAccountsChanged(world)
<1>1. Typed /\ Freed /\ Next /\ Sends(w) /\ Becomes(w, told) /\ UNCHANGED client
  BY DEF IInv, AccountSwitch, Next, AccountsChange
<1>2. /\ w \in Worlds(type, Modes)
      /\ \A x \in Streams : /\ Place(w.list, x) \in Places
                            /\ w.sent[x] \in {<<>>, <<"STOP">>}
                            /\ Moves(Place(list, x), w.sent[x], Place(w.list, x))
  BY <1>1, AccountsHere
<1>. HIDE DEF w
<1>3. /\ list' = w.list /\ calm' = calm /\ modes' = {} /\ queue' \in [Streams -> Seq(Hints)]
      /\ \A x \in Streams : queue'[x] = queue[x] \o w.sent[x]
  BY <1>1, <1>2, DecidesIs
<1>4. Typed'  BY <1>1, <1>3, Decision DEF Typed, client
<1>5. Freed'
  <2>. SUFFICES ASSUME NEW x \in Streams, state'[x] = "RELEASED"
                PROVE  /\ pc'[x] \in {"idle", "giveUp"}
                       /\ pc'[x] = "idle" => Place(list', x) = "none"
    BY DEF Freed
  <2>1. Moves(Place(list, x), w.sent[x], Place(w.list, x))  BY <1>2
  <2>. QED  BY <1>1, <1>3, <2>1 DEF Freed, Moves, client
<1>6. ASSUME calm PROVE OneCall' /\ Stories'
  <2>1. Stories /\ OneCall  BY <1>6 DEF IInv
  <2>2. OneCall'  BY <1>1, <2>1 DEF OneCall, client
  <2>. SUFFICES ASSUME NEW s \in Streams, state'[s] # "RELEASED" PROVE Story(s)'
    BY <2>2 DEF Stories
  <2>3. Story(s)  BY <1>1, <2>1 DEF Stories, client
  <2>4. CASE pc[s] \in {"idle", "start"}
    BY <1>1, <1>2, <1>3, <2>3, <2>4, StoryMoves DEF client
  <2>5. CASE pc[s] \in {"leave", "unduck"}
    <3>1. state[s] # "RUNNING" /\ OnlyStops(queue[s])  BY <2>3, <2>5 DEF Story
    <3>2. queue[s] \in Seq(Hints) /\ "STOP" \in Hints  BY <1>1 DEF Typed, Hints
    <3>3. OnlyStops(queue'[s])
      <4>1. CASE w.sent[s] = <<>>
        <5>1. queue'[s] = queue[s]  BY <1>3, <3>2, <4>1, ConcatEmptySeq
        <5>. QED  BY <3>1, <5>1
      <4>2. CASE w.sent[s] = <<"STOP">>
        <5>1. queue'[s] = Append(queue[s], "STOP")  BY <1>3, <3>2, <4>2, ConcatOne
        <5>2. Len(queue[s]) \in Nat  BY <3>2, LenProperties
        <5>. QED  BY <3>1, <3>2, <5>1, <5>2, AppendProperties DEF OnlyStops
      <4>. QED  BY <1>2, <4>1, <4>2
    <3>4. pc[s] = "unduck" => Place(list', s) = "none"
      <4>1. Moves(Place(list, s), w.sent[s], Place(w.list, s))  BY <1>2
      <4>. QED  BY <1>3, <2>3, <4>1 DEF Story, Moves
    <3>. QED  BY <1>1, <2>5, <3>1, <3>3, <3>4 DEF Story, client
  <2>. QED  BY <1>1, <2>3, <2>4, <2>5 DEF Story, Typed, Calls
<1>. QED  BY <1>3, <1>4, <1>5, <1>6 DEF IInv

(* Every step keeps the invariant. *)
LEMMA EventsStepHolds == IInv /\ [EventsNext]_allVars => IInv'
<1>. SUFFICES ASSUME IInv, [EventsNext]_allVars PROVE IInv'  OBVIOUS
<1>1. ASSUME NEW s \in Streams,
             \/ Start(s) \/ StartAudioStream(s) \/ Pause(s) \/ Stop(s) \/ Release(s)
             \/ Leave(s) \/ Unduck(s) \/ RendererDies(s) \/ OnInterrupt(s)
      PROVE  IInv'
  BY <1>1, StartHolds, StartAudioStreamHolds, PartHolds, LeaveHolds, UnduckHolds,
     RendererDiesHolds, OnInterruptHolds
<1>2. CASE AccountSwitch  BY <1>2, AccountSwitchHolds
<1>3. CASE UNCHANGED allVars
  <2>1. /\ UNCHANGED <<vars, calm>> /\ list' = list /\ queue' = queue /\ state' = state /\ pc' = pc
        /\ ducked' = ducked /\ isForceDucked' = isForceDucked
    BY <1>3 DEF allVars, vars, client
  <2>2. Typed'  BY <2>1, NoDecision DEF IInv, Typed
  <2>3. Freed' /\ OneCall' = OneCall /\ Stories' = Stories
    BY <2>1 DEF IInv, Freed, OneCall, Stories, Story, Fits
  <2>. QED  BY <2>1, <2>2, <2>3 DEF IInv
<1>. QED  BY <1>1, <1>2, <1>3 DEF EventsNext

(* The clients, and the events on their way to them, add to FocusPolicy    *)
(* and take nothing from it: the list goes through the calls it allows.    *)
(* What is proved of the list there holds here.                            *)
THEOREM EventsImplementPolicy == EventsSpec => Spec
<1>1. EventsInit => Init  BY DEF EventsInit
<1>2. [EventsNext]_allVars => [Next]_vars
  <2>. SUFFICES ASSUME [EventsNext]_allVars PROVE [Next]_vars  OBVIOUS
  <2>1. ASSUME NEW s \in Streams, Start(s) \/ Leave(s) \/ RendererDies(s) PROVE Next
    BY <2>1 DEF Start, Leave, RendererDies, Next
  <2>2. ASSUME NEW s \in Streams,
               StartAudioStream(s) \/ Pause(s) \/ Stop(s) \/ Release(s) \/ Unduck(s) \/ OnInterrupt(s)
        PROVE  UNCHANGED vars
    BY <2>2 DEF StartAudioStream, Pause, Stop, Release, Unduck, OnInterrupt
  <2>3. CASE AccountSwitch  BY <2>3 DEF AccountSwitch, Next
  <2>4. CASE UNCHANGED allVars  BY <2>4 DEF allVars
  <2>. QED  BY <2>1, <2>2, <2>3, <2>4 DEF EventsNext
<1>. QED  BY <1>1, <1>2, PTL DEF EventsSpec, Spec

-----------------------------------------------------------------------------
(* FocusOf is Place. *)
LEMMA FocusOfIs == \A s \in Streams : FocusOf(s) = Place(list, s)
<1>1. world.list = list  BY DEF world
<1>. QED  BY <1>1, ListedIs DEF FocusOf

(* At rest the queue is empty, so the place that fits the renderer is the  *)
(* place the list gives.                                                   *)
LEMMA Means == IInv => EventsTypeOK /\ PlaysAsListed /\ FocusIsFreed
<1>. SUFFICES ASSUME IInv PROVE EventsTypeOK /\ PlaysAsListed /\ FocusIsFreed
  OBVIOUS
<1>1. EventsTypeOK  BY DEF IInv, Typed, EventsTypeOK, Hints, Calls
<1>2. FocusIsFreed  BY FocusOfIs DEF IInv, Freed, FocusIsFreed
<1>3. ASSUME calm, NEW s \in Streams, AtRest(s)
      PROVE  Agrees(s)
  <2>1. FocusOf(s) = Place(list, s)  BY FocusOfIs
  <2>2. CASE state[s] = "RELEASED"
    <3>1. Place(list, s) = "none"  BY <1>3, <2>2 DEF IInv, Freed, AtRest
    <3>. QED  BY <2>1, <2>2, <3>1 DEF Agrees
  <2>3. CASE state[s] # "RELEASED"
    <3>1. PICK a \in Places : Fits(s, a) /\ Chain(<<>>, a, Place(list, s))
      BY <1>3, <2>3 DEF IInv, Stories, Story, AtRest
    <3>2. a = Place(list, s)  BY <3>1, ChainNone
    <3>. QED  BY <2>1, <3>1, <3>2 DEF Fits, Agrees
  <2>. QED  BY <2>2, <2>3
<1>4. PlaysAsListed  BY <1>3 DEF PlaysAsListed
<1>. QED  BY <1>1, <1>2, <1>4

(* The invariant holds throughout. *)
LEMMA Always == EventsSpec => []IInv
<1>1. EventsInit => IInv  BY EventsInitHolds, TypesAssumption
<1>. QED  BY <1>1, EventsStepHolds, PTL DEF EventsSpec

(* Every variable keeps its type through all calls, decisions and          *)
(* deliveries; in particular the service sends none but the five hints.    *)
THEOREM TypeCorrect == EventsSpec => []EventsTypeOK
BY Always, Means, PTL

(* While the calls come one at a time, a renderer agrees with the focus    *)
(* list once its events are delivered and its call is done: it runs if and *)
(* only if the list has it ACTIVE or DUCK, and then it is ducked if and    *)
(* only if the list has it DUCK. AudioInterruptService and                 *)
(* AudioRendererPrivate change their states at different times, and only   *)
(* the events tie the two.                                                 *)
THEOREM AtRestAsListed == EventsSpec => []PlaysAsListed
BY Always, Means, PTL

(* A released stream, or one whose client has died, is not in the focus    *)
(* list, once its own call at the service is done: nobody stays ducked or  *)
(* paused on its account.                                                  *)
THEOREM NoFocusForTheReleased == EventsSpec => []FocusIsFreed
BY Always, Means, PTL

=============================================================================
