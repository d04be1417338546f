-------------------------- MODULE InterruptEvents ---------------------------
(***************************************************************************)
(* Playing streams and the focus list together. A stream's application     *)
(* calls AudioRenderer, which asks the interrupt service for the focus     *)
(* before it starts the stream and gives it up after it paused or stopped  *)
(* it (rendererMutex_ keeps its calls apart). What the service decides     *)
(* about other streams reaches them later, as events: through the queue of *)
(* AudioPolicyServerHandler and a one-way call, one after the other for a  *)
(* stream, but not in step with that stream's own calls. The renderer      *)
(* carries a forced event out itself, without rendererMutex_; RESUME is    *)
(* shared, and for the application to act on. isForcePaused_ is left out:  *)
(* only a forced RESUME would be ignored for its sake, and none is sent.   *)
(* Left out too: the streams of modem calls, which ask for the focus and   *)
(* do not play, and silent mode, in which a stream asks for none.          *)
(*                                                                         *)
(* The list and the calls at it are those of FocusPolicy, without          *)
(* sessions; a step of a client alone leaves them as they are. told is     *)
(* what an application would know if its events came at once.              *)
(***************************************************************************)
EXTENDS FocusPolicy

CONSTANTS
  TypesOf,   \* [Streams -> SUBSET Types]: the types each may be of
  MaxQueue,  \* bound: calls wait while a stream has this many events to come
  Absent,    \* the streams there are only where it is calm
  MayFail    \* BOOLEAN: where it is not calm, the streams' operations may fail

VARIABLES
  queue,         \* [Streams -> Seq of hints]: on their way to the stream
  state,         \* [Streams -> the renderer's state]
  pc,            \* [Streams -> the next step of the call in progress]
  ducked,        \* [Streams -> BOOLEAN]: the duck volume is below 1.0
  isForceDucked, \* [Streams -> BOOLEAN]
  calm           \* BOOLEAN, rigid: calls come one at a time, each after the
                 \* events for its stream, and succeed if the focus is given;
                 \* no client dies during another's call

client == <<state, pc, ducked, isForceDucked>>
allVars == <<vars, queue, client, calm>>

Sends(w) == queue' = [s \in Streams |-> queue[s] \o w.sent[s]] /\ UNCHANGED calm

EventsInit ==
  /\ Init /\ modes = {} /\ calm \in BOOLEAN
  /\ \A s \in Streams : type[s] \in TypesOf[s]
  /\ queue = [s \in Streams |-> <<>>]
  /\ state = [s \in Streams |-> IF s \in Absent /\ ~calm THEN "RELEASED" ELSE "PREPARED"]
  /\ pc = [s \in Streams |-> "idle"]
  /\ ducked = [s \in Streams |-> FALSE]
  /\ isForceDucked = ducked

-----------------------------------------------------------------------------
(* The states in which the stream's own operations may leave it. They fail *)
(* if the server refuses or does not answer in time; SetDuckVolume, of a   *)
(* stream that has its buffer, does not.                                   *)
Failed(states) == IF MayFail /\ ~calm THEN states ELSE {}

PauseAudioStream(s) ==
  IF state[s] = "RUNNING" THEN {"PAUSED"} \cup Failed({"RUNNING"}) ELSE {state[s]}

(* mutant: the stop is never completed *)
StopsHalfway(s) == IF state[s] \in {"RUNNING", "PAUSED"} THEN {"STOPPING"} ELSE {state[s]}

StopAudioStream(s) ==
  IF state[s] \in {"RUNNING", "PAUSED"} THEN {"STOPPED"} \cup Failed({state[s], "INVALID"})
  ELSE {state[s]}

-----------------------------------------------------------------------------
(* The application's calls.                                                *)
MayCall(s) ==
  /\ pc[s] = "idle" /\ state[s] # "RELEASED"
  /\ calm => queue[s] = <<>> /\ \A x \in Streams : pc[x] = "idle"
  /\ \A x \in Streams : Len(queue[x]) < MaxQueue

Start(s) ==
  /\ MayCall(s) /\ state[s] \in {"PREPARED", "STOPPED", "PAUSED"}
  /\ Activate(s)
  /\ LET w == ActivateAudioInterrupt(world, s)
     IN /\ Sends(w)
        /\ pc' = [pc EXCEPT ![s] = IF Granted(w, s) THEN "start" ELSE "idle"]
  /\ UNCHANGED <<state, ducked, isForceDucked>>

StartAudioStream(s) ==
  /\ pc[s] = "start"
  /\ \/ state' = [state EXCEPT ![s] = "RUNNING"] /\ pc' = [pc EXCEPT ![s] = "idle"]
     \/ \E st \in Failed({state[s]}) :
          state' = [state EXCEPT ![s] = st] /\ pc' = [pc EXCEPT ![s] = "giveUp"]
  /\ UNCHANGED <<vars, queue, ducked, isForceDucked, calm>>

(* A Pause or Stop that fails gives the focus up none the less.            *)
Pause(s) ==
  /\ MayCall(s) /\ state[s] = "RUNNING"
  /\ \E st \in PauseAudioStream(s) : state' = [state EXCEPT ![s] = st]
  /\ pc' = [pc EXCEPT ![s] = "leave"]
  /\ UNCHANGED <<vars, queue, ducked, isForceDucked, calm>>

Stop(s) ==
  /\ MayCall(s)
  /\ \E st \in StopAudioStream(s) : state' = [state EXCEPT ![s] = st]
  /\ pc' = [pc EXCEPT ![s] = "leave"]
  /\ UNCHANGED <<vars, queue, ducked, isForceDucked, calm>>

(* mutant: only Stop gives the focus up *)
ReleaseAlone(s) ==
  /\ MayCall(s)
  /\ state' = [state EXCEPT ![s] = "RELEASED"]
  /\ UNCHANGED <<vars, queue, pc, ducked, isForceDucked, calm>>

Release(s) ==
  /\ MayCall(s)
  /\ state' = [state EXCEPT ![s] = "RELEASED"]
  /\ pc' = [pc EXCEPT ![s] = "giveUp"]
  /\ UNCHANGED <<vars, queue, ducked, isForceDucked, calm>>

(* mutant: Pause and Stop keep the focus *)
LeavesKeeping(s) ==
  /\ pc[s] \in {"leave", "giveUp"}
  /\ IF pc[s] = "leave" THEN UNCHANGED <<vars, queue, calm>>
     ELSE Deactivate(s) /\ Sends(DeactivateAudioInterrupt(world, s, FALSE))
  /\ pc' = [pc EXCEPT ![s] = IF @ = "leave" THEN "unduck" ELSE "idle"]
  /\ UNCHANGED <<state, ducked, isForceDucked>>

(* The second half of Pause, Stop, Release and of a Start that failed.     *)
Leave(s) ==
  /\ pc[s] \in {"leave", "giveUp"}
  /\ Deactivate(s) /\ Sends(DeactivateAudioInterrupt(world, s, FALSE))
  /\ pc' = [pc EXCEPT ![s] = IF @ = "leave" THEN "unduck" ELSE "idle"]
  /\ UNCHANGED <<state, ducked, isForceDucked>>

Unduck(s) ==
  /\ pc[s] = "unduck"
  /\ ducked' = [ducked EXCEPT ![s] = FALSE] /\ pc' = [pc EXCEPT ![s] = "idle"]
  /\ UNCHANGED <<vars, queue, state, isForceDucked, calm>>

(* The client's process ends, in the middle of a call or not.              *)
RendererDies(s) ==
  /\ state[s] # "RELEASED"
  /\ calm => \A x \in Streams \ {s} : pc[x] = "idle"
  /\ ClientDies(s) /\ Sends(RemoveClient(world, s))
  /\ state' = [state EXCEPT ![s] = "RELEASED"] /\ pc' = [pc EXCEPT ![s] = "idle"]
  /\ UNCHANGED <<ducked, isForceDucked>>

-----------------------------------------------------------------------------
(* HandleAndNotifyForcedEvent: each hint that is forced and what it does.  *)
Forced(s, hint) ==
  /\ \E st \in CASE hint = "PAUSE" -> PauseAudioStream(s)
                [] hint = "STOP" -> StopAudioStream(s)
                [] OTHER -> {state[s]} :
       state' = [state EXCEPT ![s] = st]
  /\ ducked' = [ducked EXCEPT ![s] = CASE hint = "PAUSE" -> @ /\ state[s] \notin {"RUNNING", "PREPARED"}
                                       [] hint = "STOP" -> FALSE
                                       [] hint = "DUCK" -> TRUE
                                       [] hint = "UNDUCK" -> @ /\ ~isForceDucked[s]]
  /\ isForceDucked' = [isForceDucked EXCEPT ![s] = hint = "DUCK" \/ (@ /\ hint # "UNDUCK")]

(* The service looks the client up when the event's turn comes; the events *)
(* of a client that has released its stream go nowhere. A RESUME, which is *)
(* INTERRUPT_SHARE, is left to the application, which may call Start.      *)
OnInterrupt(s) ==
  /\ queue[s] # <<>> /\ (calm => pc[s] = "idle")
  /\ queue' = [queue EXCEPT ![s] = Tail(@)]
  /\ IF state[s] = "RELEASED" \/ Head(queue[s]) = "RESUME" THEN UNCHANGED client
     ELSE Forced(s, Head(queue[s]))
  /\ UNCHANGED <<vars, pc, calm>>

AccountSwitch ==
  /\ \A s \in Streams : Len(queue[s]) < MaxQueue
  /\ AccountsChange /\ Sends(ClearAudioFocusInfoListOnAccountsChanged(world))
  /\ UNCHANGED client

EventsNext ==
  \/ \E s \in Streams :
       \/ Start(s) \/ StartAudioStream(s) \/ Pause(s) \/ Stop(s) \/ Release(s)
       \/ Leave(s) \/ Unduck(s) \/ RendererDies(s) \/ OnInterrupt(s)
  \/ AccountSwitch

EventsSpec == EventsInit /\ [][EventsNext]_allVars

-----------------------------------------------------------------------------
AtRest(s) == pc[s] = "idle" /\ queue[s] = <<>>
FocusOf(s) == IF Listed(world, s) THEN StateOf(world, s) ELSE "none"

EventsTypeOK ==
  /\ \A s \in Streams : queue[s] \in Seq({"DUCK", "UNDUCK", "PAUSE", "RESUME", "STOP"})
  /\ state \in [Streams -> {"PREPARED", "RUNNING", "PAUSED", "STOPPED", "INVALID", "RELEASED"}]
  /\ pc \in [Streams -> {"idle", "start", "giveUp", "leave", "unduck"}]
  /\ {ducked, isForceDucked} \subseteq [Streams -> BOOLEAN]

Agrees(s) ==
  /\ FocusOf(s) \in {"ACTIVE", "DUCK"} <=> state[s] = "RUNNING"
  /\ state[s] = "RUNNING" => (ducked[s] <=> FocusOf(s) = "DUCK")

(* Where events and calls keep out of each other's way, a stream is what   *)
(* the focus list says once it is at rest: it plays if and only if it has  *)
(* the focus, and more quietly exactly if it is ducked.                    *)
PlaysAsListed == \A s \in Streams : calm /\ AtRest(s) => Agrees(s)

(* Whatever meets whatever, the focus is not lost to the dead: a stream    *)
(* that was released or whose client died is in the list no more, and no   *)
(* late event or answer brings it back.                                    *)
FocusIsFreed == \A s \in Streams : state[s] = "RELEASED" /\ pc[s] = "idle" => FocusOf(s) = "none"

(* "In force type, the audio state already changed": an event that was     *)
(* carried out leaves the stream as the list has it.                       *)
StateFollowsForce == \A s \in Streams : AtRest(s) => Agrees(s)
=============================================================================
