---------------------------- MODULE RendererLocks ----------------------------
(***************************************************************************)
(* The order in which audio_server takes its locks around one playback     *)
(* stream.  A function is modelled by its lock program: the locks it takes *)
(* and gives back, in the order of the code, the programs of the functions *)
(* it calls included.  Five threads run such programs at will:             *)
(*                                                                         *)
(*   handler    the client's control calls, one at a time                  *)
(*   position   the client's UpdatePosition call, RendererInServer::       *)
(*              UpdateWriteIndex, on another thread                        *)
(*   mainloop   the thread of the playback PulseAudio mainloop             *)
(*   service    AudioService: inner capture, dual tone, offload            *)
(*   other      the Start of another stream of the same manager            *)
(*                                                                         *)
(* The flags isInnerCapEnabled_ and isDualToneEnabled_ are read without a  *)
(* lock and change under it, so a program takes the locks they guard       *)
(* whenever the service may have set them.  Locks under which no other     *)
(* lock of the list is taken (fadeoutLock_, the mainloops of the dup and   *)
(* dual streams, whose callbacks do nothing) are left out.                 *)
(***************************************************************************)
EXTENDS Sequences

CONSTANTS
    DualTone,       \* EnableDualToneList may be called
    UnrefsLocked    \* the functions that drop a reference with rendererMapMutex_
                    \* held run also where the client may die

ASSUME RendererLocksAssumption ==
    DualTone \in BOOLEAN /\ UnrefsLocked \in BOOLEAN

Threads == {"handler", "position", "mainloop", "service", "other"}

Locks == {"rendererMap",    \* AudioService::rendererMapMutex_
          "status",         \* RendererInServer::statusLock_
          "write",          \* writeLock_
          "dup", "dual",    \* dupMutex_, dualToneMutex_
          "streamMap",      \* PaAdapterManager::streamMapMutex_ (PLAYBACK)
          "pa"}             \* the lock of its mainloop

VARIABLES
    clientDies,     \* in this behaviour the client may go without a Release;
                    \* chosen at the start
    todo,           \* what is left of each thread's program
    owner,          \* who holds each lock
    refs,           \* who holds a shared_ptr<RendererInServer>; the handler
                    \* thread stands for the IPC stub that owns it
    released        \* status_ == I_STATUS_RELEASED

vars == <<clientDies, todo, owner, refs, released>>

-----------------------------------------------------------------------------
(* Programs.                                                               *)

With(l, body) ==
    <<[do |-> "lock", lock |-> l]>> \o body \o <<[do |-> "unlock", lock |-> l]>>

(* if (l.try_lock()) { body; l.unlock(); } *)
IfFree(l, body) ==
    <<[do |-> "try", lock |-> l,
       body |-> body \o <<[do |-> "unlock", lock |-> l]>>]>>

(* renderer = weak.lock(); if (renderer != nullptr) { body } *)
IfAlive(body) == <<[do |-> "ref", body |-> body]>>

(* the shared_ptr goes out of scope *)
DropRef == <<[do |-> "unref"]>>

SetReleased == <<[do |-> "released"]>>

PaCall == With("pa", << >>)
RenderCall == With("streamMap", PaCall)
DupCall == With("dup", << >>)
DualCall(body) == IF DualTone THEN With("dual", body) ELSE << >>

(* SetAudioEffectMode is called with dualToneMutex_ held. *)
Start == With("status", RenderCall \o DupCall \o DualCall(PaCall))

(* PaRendererStreamImpl::Pause gives the mainloop's lock back while it     *)
(* waits for the fade-out.                                                 *)
Pause == With("status", With("streamMap", PaCall \o PaCall) \o DupCall \o DualCall(PaCall))

Flush == With("status", PaCall \o DupCall \o DualCall(<< >>))

Drain == With("status", << >>) \o PaCall \o DupCall \o DualCall(<< >>)

Stop == With("status", << >>) \o RenderCall \o DupCall \o DualCall(PaCall)

GetLatency == With("status", PaCall)

(* ReleaseRender unlocks the map before PaRendererStreamImpl::Release. *)
Release ==
    With("rendererMap", << >>) \o With("status", << >>)
    \o With("streamMap", << >>) \o PaCall \o SetReleased
    \o DupCall \o DualCall(<< >>)

OtherStreamEnqueue == DupCall \o DualCall(<< >>)

(* mutant: lock() for try_lock() *)
OnWriteDataLocks == With("write", OtherStreamEnqueue)

(* In the mainloop EnqueueBuffer needs no lock. *)
OnWriteData == IfFree("write", OtherStreamEnqueue)

(* A callback that asks for data, or reports an underrun: WriteData then   *)
(* goes without writeLock_.                                                *)
MainloopCallback(body) == With("pa", IfAlive(body \o DropRef))

(* GetWritableSize, and WriteData from an IPC thread. *)
UpdateWriteIndex == PaCall \o IfFree("write", PaCall \o OtherStreamEnqueue)

(* mutant: the reference is gone before the mutex *)
OnInitInnerCapListDrops == With("rendererMap", IfAlive(DupCall \o DropRef))

OnInitInnerCapList == With("rendererMap", IfAlive(DupCall)) \o DropRef

(* Each renderer of its loop goes out of scope with the mutex held. *)
OnUpdateInnerCapList ==
    With("rendererMap", IfAlive(DupCall \o DropRef)) \o OnInitInnerCapList

(* Keeps the strong references until it has unlocked, as OnInitInnerCapList. *)
OnCapturerFilterRemove == With("rendererMap", IfAlive(DupCall)) \o DropRef

EnableDualToneList == With("rendererMap", IfAlive(With("dual", PaCall) \o DropRef))

DisableDualToneList == With("rendererMap", IfAlive(With("dual", << >>) \o DropRef))

(* The local renderer is destroyed before the lock it was declared after. *)
SetOffloadMode ==
    With("rendererMap", IfAlive(PaCall \o DupCall \o DualCall(<< >>) \o DropRef))

(* The same, unlocked first. *)
UnsetOffloadMode ==
    With("rendererMap", IfAlive(PaCall \o DupCall \o DualCall(<< >>))) \o DropRef

(* What each thread may run.  The stub, which holds the handlers'          *)
(* reference, goes with its last proxy: once the client has released the   *)
(* stream, or dies.                                                        *)
HandlerCalls == {Start, Pause, Flush, Drain, Stop, GetLatency, Release}
                \cup (IF released \/ clientDies THEN {DropRef} ELSE {})

ServiceCalls ==
    {OnInitInnerCapList, OnCapturerFilterRemove, UnsetOffloadMode}
    \cup (IF clientDies => UnrefsLocked
          THEN {OnUpdateInnerCapList, SetOffloadMode}
               \cup (IF DualTone THEN {EnableDualToneList, DisableDualToneList} ELSE {})
          ELSE {})

Programs(t) ==
    CASE t = "handler"  -> IF t \in refs THEN HandlerCalls ELSE {}
      [] t = "position" -> {IfAlive(UpdateWriteIndex \o DropRef)}
      [] t = "mainloop" -> {MainloopCallback(OnWriteData), MainloopCallback(OtherStreamEnqueue)}
      [] t = "service"  -> ServiceCalls
      [] t = "other"    -> {RenderCall}

-----------------------------------------------------------------------------
Init ==
    /\ clientDies \in BOOLEAN
    /\ todo = [t \in Threads |-> << >>]
    /\ owner = [l \in Locks |-> "free"]
    /\ refs = {"handler"} /\ released = FALSE

Begin(t) ==
    /\ todo[t] = << >>
    /\ \E p \in Programs(t) : todo' = [todo EXCEPT ![t] = p]
    /\ UNCHANGED <<clientDies, owner, refs, released>>

AtStep(t, what) == todo[t] # << >> /\ Head(todo[t]).do = what

Proceed(t, first) == todo' = [todo EXCEPT ![t] = first \o Tail(todo[t])]

Lock(t) ==
    /\ AtStep(t, "lock")
    /\ LET l == Head(todo[t]).lock IN
       owner[l] = "free" /\ owner' = [owner EXCEPT ![l] = t]
    /\ Proceed(t, << >>)
    /\ UNCHANGED <<clientDies, refs, released>>

TryLock(t) ==
    /\ AtStep(t, "try")
    /\ LET s == Head(todo[t]) IN
       IF owner[s.lock] = "free"
       THEN owner' = [owner EXCEPT ![s.lock] = t] /\ Proceed(t, s.body)
       ELSE owner' = owner /\ Proceed(t, << >>)
    /\ UNCHANGED <<clientDies, refs, released>>

Unlock(t) ==
    /\ AtStep(t, "unlock")
    /\ owner' = [owner EXCEPT ![Head(todo[t]).lock] = "free"]
    /\ Proceed(t, << >>)
    /\ UNCHANGED <<clientDies, refs, released>>

Ref(t) ==
    /\ AtStep(t, "ref")
    /\ refs' = IF refs = {} THEN {} ELSE refs \cup {t}
    /\ Proceed(t, IF refs = {} THEN << >> ELSE Head(todo[t]).body)
    /\ UNCHANGED <<clientDies, owner, released>>

(* The last reference runs ~RendererInServer, which releases a stream that *)
(* has not been released.  (A stream that was never started is not         *)
(* released: it is I_STATUS_IDLE.)                                         *)
Unref(t) ==
    /\ AtStep(t, "unref")
    /\ refs' = refs \ {t}
    /\ Proceed(t, IF refs = {t} /\ ~released THEN Release ELSE << >>)
    /\ UNCHANGED <<clientDies, owner, released>>

Released(t) ==
    /\ AtStep(t, "released")
    /\ released' = TRUE
    /\ Proceed(t, << >>)
    /\ UNCHANGED <<clientDies, owner, refs>>

Next == \E t \in Threads :
    Begin(t) \/ Lock(t) \/ TryLock(t) \/ Unlock(t) \/ Ref(t) \/ Unref(t) \/ Released(t)

Spec == Init /\ [][Next]_vars

-----------------------------------------------------------------------------
(* Whom t waits for: the owner of the lock it wants. *)
Blocker(t) ==
    IF AtStep(t, "lock") THEN owner[Head(todo[t]).lock] ELSE "free"

(* Unless a client dies, no threads wait for each other in a circle (nor   *)
(* one for itself): audio_server never deadlocks on these locks.  The mainloop's callbacks  *)
(* run with the mainloop locked, so whatever they wait for must never be   *)
(* held by a thread that calls into PulseAudio ("we should not lock a      *)
(* mutex in WriteData while OnWriteData is called with mainloop locking",  *)
(* renderer_in_server.cpp).  A client that dies may leave the mainloop     *)
(* with the last reference, and so with the destructor.                    *)
NoCircularWait ==
    ~clientDies => ~ \E S \in SUBSET Threads :
        S # {} /\ \A t \in S : Blocker(t) \in S

(* The last reference is never dropped by a thread that holds              *)
(* rendererMapMutex_, for ~RendererInServer comes back for it ("strong ref *)
(* to prevent destruct before unlock", audio_service.cpp).                 *)
DestructAfterUnlock ==
    \A t \in Threads :
        AtStep(t, "lock") /\ Head(todo[t]).lock = "rendererMap" =>
            owner["rendererMap"] # t
=============================================================================
