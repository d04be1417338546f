------------------------------ MODULE FutexTool ------------------------------
(***************************************************************************)
(* How a writing client sleeps when the ring is full and who wakes it:     *)
(* FutexTool::FutexWait and FutexTool::FutexWake on the futex word in the  *)
(* ring's shared memory, one atomic operation or system call at a time,    *)
(* with their callers.                                                     *)
(*                                                                         *)
(*   writer    the thread in WriteCacheData (there is one: writeMutex_)    *)
(*   server    RendererInServer::WriteData, which wakes on every call      *)
(*   control   the application thread in Pause/StopAudioStream             *)
(*   release   the application thread in ReleaseAudioStream                *)
(*                                                                         *)
(* The ring itself is only the number of its filled spans here.            *)
(***************************************************************************)
EXTENDS Integers

CONSTANTS
    SpanCount,      \* spans in the ring
    SpinLimit,      \* bound for WAIT_TRY_COUNT, 50 in the code
    CallbackMode    \* renderMode_ == RENDER_MODE_CALLBACK

ASSUME FutexAssumption ==
    /\ SpanCount \in Nat \ {0}
    /\ SpinLimit \in Nat \ {0}
    /\ CallbackMode \in BOOLEAN

Wakers == {"server", "control", "release"}
FutexValues == {"READY", "NOT_READY", "PRE_EXIT"}
FutexCodes == {"SUCCESS", "TIMEOUT", "OPERATION_FAILED", "PRE_EXIT"}
Errnos == {"EAGAIN", "ETIMEDOUT", "other"}

(* tryCount of WriteCacheData *)
WaitTries == 2

VARIABLES
    futex,          \* BasicBufferInfo::futexObj
    filled,         \* spans written and not yet read
    state,          \* the client's state_
    playing,        \* the server calls WriteData
    pc,             \* the writer
    tries,          \* tryCount in WriteCacheData
    spins,          \* tryCount in FutexWait
    code,           \* what FutexWait returned last
    errno,          \* the writer thread's errno
    wpc             \* each waker's place in FutexWake

vars == <<futex, filled, state, playing, pc, tries, spins, code, errno, wpc>>

WriterPC == {"idle", "avail", "cas", "spin", "syscall", "asleep", "woken",
             "returned", "confirm", "fill", "ended"}

Init ==
    /\ futex = "READY"
    /\ filled = 0
    /\ state = "RUNNING" /\ playing = TRUE
    /\ pc = "idle" /\ tries = WaitTries /\ spins = 0
    /\ code = "SUCCESS" /\ errno \in Errnos
    /\ wpc = [w \in Wakers |-> "out"]

-----------------------------------------------------------------------------
(* The writer.  In callback mode the write thread loops until              *)
(* cbThreadReleased_; in normal mode the application stops calling Write.  *)
BeginWrite ==
    /\ pc = "idle"
    /\ state = "RUNNING"
    /\ pc' = "avail" /\ tries' = WaitTries
    /\ UNCHANGED <<futex, filled, state, playing, spins, code, errno, wpc>>

EndThread ==
    /\ pc = "idle"
    /\ state = "RELEASED"
    /\ pc' = "ended"
    /\ UNCHANGED <<futex, filled, state, playing, tries, spins, code, errno, wpc>>

(* The head of the wait loop in WriteCacheData. *)
CheckAvailable ==
    /\ pc = "avail"
    /\ IF filled = SpanCount /\ tries > 0
       THEN pc' = "cas" /\ tries' = tries - 1
       ELSE pc' = "confirm" /\ tries' = tries
    /\ UNCHANGED <<futex, filled, state, playing, spins, code, errno, wpc>>

(* FutexWait: compare_exchange_strong(IS_READY, IS_NOT_READY). *)
WaitCas ==
    /\ pc = "cas"
    /\ futex' = IF futex = "READY" THEN "NOT_READY" ELSE futex
    /\ IF futex = "PRE_EXIT"
       THEN code' = "OPERATION_FAILED" /\ pc' = "returned"
       ELSE code' = code /\ pc' = "spin"
    /\ spins' = 0
    /\ UNCHANGED <<filled, state, playing, tries, errno, wpc>>

(* mutant: one try too many *)
WaitSpinOnce ==
    /\ pc = "spin"
    /\ IF spins > SpinLimit
       THEN code' = "OPERATION_FAILED" /\ pc' = "returned"
       ELSE code' = code /\ pc' = "syscall"
    /\ UNCHANGED <<futex, filled, state, playing, tries, spins, errno, wpc>>

(* The head of its loop: "pre_exit is called!", or too many tries. *)
WaitSpin ==
    /\ pc = "spin"
    /\ IF spins = SpinLimit
       THEN code' = "OPERATION_FAILED" /\ pc' = "returned"
       ELSE IF futex = "PRE_EXIT"
       THEN code' = "PRE_EXIT" /\ pc' = "returned"
       ELSE code' = code /\ pc' = "syscall"
    /\ UNCHANGED <<futex, filled, state, playing, tries, spins, errno, wpc>>

(* FUTEX_WAIT on IS_NOT_READY: the kernel compares and queues in one step. *)
WaitSyscall ==
    /\ pc = "syscall"
    /\ IF futex = "NOT_READY"
       THEN pc' = "asleep" /\ UNCHANGED <<spins, errno>>
       ELSE pc' = "spin" /\ errno' = "EAGAIN" /\ spins' = spins + 1
    /\ UNCHANGED <<futex, filled, state, playing, tries, code, wpc>>

(* The relative timeout, or a signal: the system call fails. *)
WaitTimesOut ==
    /\ pc = "asleep"
    /\ errno' = "ETIMEDOUT" /\ code' = "TIMEOUT" /\ pc' = "returned"
    /\ UNCHANGED <<futex, filled, state, playing, tries, spins, wpc>>

WaitInterrupted ==
    /\ pc = "asleep"
    /\ errno' = "other" /\ code' = "OPERATION_FAILED" /\ pc' = "returned"
    /\ UNCHANGED <<futex, filled, state, playing, tries, spins, wpc>>

(* res == 0.  With another value than IS_READY the code goes on to look at *)
(* errno, which a system call that succeeded has left as it was.           *)
WaitWoken ==
    /\ pc = "woken"
    /\ \/ /\ futex = "READY"
          /\ code' = "SUCCESS" /\ pc' = "returned" /\ spins' = spins
       \/ /\ futex # "READY" /\ errno = "ETIMEDOUT"
          /\ code' = "TIMEOUT" /\ pc' = "returned" /\ spins' = spins
       \/ /\ futex # "READY" /\ errno = "other"
          /\ code' = "OPERATION_FAILED" /\ pc' = "returned" /\ spins' = spins
       \/ /\ futex # "READY" /\ errno = "EAGAIN"
          /\ code' = code /\ pc' = "spin" /\ spins' = spins + 1
    /\ UNCHANGED <<futex, filled, state, playing, tries, errno, wpc>>

(* WriteCacheData after FutexWait: give up unless RUNNING and not timed    *)
(* out; a success leaves the loop, anything else goes round.               *)
WaitReturned ==
    /\ pc = "returned"
    /\ pc' = IF state # "RUNNING" \/ code = "TIMEOUT" THEN "idle"
             ELSE IF code = "SUCCESS" THEN "confirm"
             ELSE "avail"
    /\ UNCHANGED <<futex, filled, state, playing, tries, spins, code, errno, wpc>>

ConfirmAvailable ==
    /\ pc = "confirm"
    /\ pc' = IF filled < SpanCount THEN "fill" ELSE "idle"
    /\ UNCHANGED <<futex, filled, state, playing, tries, spins, code, errno, wpc>>

Fill ==
    /\ pc = "fill"
    /\ filled' = filled + 1
    /\ pc' = "idle"
    /\ UNCHANGED <<futex, state, playing, tries, spins, code, errno, wpc>>

Writer ==
    \/ BeginWrite \/ EndThread \/ CheckAvailable \/ WaitCas \/ WaitSpin
    \/ WaitSyscall \/ WaitWoken \/ WaitReturned \/ ConfirmAvailable \/ Fill

-----------------------------------------------------------------------------
(* FutexWake, for each waker: compare_exchange_strong(IS_NOT_READY,        *)
(* IS_READY) and, if that did something, the system call.                  *)

(* mutant: a plain store of IS_READY *)
WakeStores(w) ==
    /\ wpc[w] = "cas"
    /\ futex' = "READY"
    /\ wpc' = [wpc EXCEPT ![w] = "call"]
    /\ UNCHANGED <<filled, state, playing, pc, tries, spins, code, errno>>

WakeCas(w) ==
    /\ wpc[w] = "cas"
    /\ IF futex = "NOT_READY"
       THEN futex' = "READY" /\ wpc' = [wpc EXCEPT ![w] = "call"]
       ELSE futex' = futex /\ wpc' = [wpc EXCEPT ![w] = "out"]
    /\ UNCHANGED <<filled, state, playing, pc, tries, spins, code, errno>>

(* mutant: the value changes and nobody is woken *)
WakeCallForgotten(w) ==
    /\ wpc[w] = "call"
    /\ wpc' = [wpc EXCEPT ![w] = "out"]
    /\ UNCHANGED <<futex, filled, state, playing, pc, tries, spins, code, errno>>

WakeCall(w) ==
    /\ wpc[w] = "call"
    /\ pc' = IF pc = "asleep" THEN "woken" ELSE pc
    /\ wpc' = [wpc EXCEPT ![w] = "out"]
    /\ UNCHANGED <<futex, filled, state, playing, tries, spins, code, errno>>

(* wakeVal == IS_PRE_EXIT: an unconditional store, then the system call. *)
WakePreExit(w) ==
    /\ wpc[w] = "store"
    /\ futex' = "PRE_EXIT"
    /\ wpc' = [wpc EXCEPT ![w] = "call"]
    /\ UNCHANGED <<filled, state, playing, pc, tries, spins, code, errno>>

Wake(w) == WakeCas(w) \/ WakePreExit(w) \/ WakeCall(w)

-----------------------------------------------------------------------------
(* The callers of FutexWake.                                               *)

(* mutant: a call that finds nothing to read wakes nobody *)
WriteDataQuiet ==
    /\ playing /\ wpc["server"] = "out" /\ filled > 0
    /\ filled' = filled - 1
    /\ wpc' = [wpc EXCEPT !["server"] = "cas"]
    /\ UNCHANGED <<futex, state, playing, pc, tries, spins, code, errno>>

(* WriteData consumes a span, or finds none ("near underrun"); both end in *)
(* a wake.                                                                 *)
WriteData ==
    /\ playing /\ wpc["server"] = "out"
    /\ filled' = IF filled > 0 THEN filled - 1 ELSE filled
    /\ wpc' = [wpc EXCEPT !["server"] = "cas"]
    /\ UNCHANGED <<futex, state, playing, pc, tries, spins, code, errno>>

(* PauseAudioStream (StopAudioStream likewise): the server has stopped     *)
(* reading, the client's state_ is PAUSED, and the writer is woken.        *)
PauseStream ==
    /\ state = "RUNNING" /\ wpc["control"] = "out"
    /\ state' = "PAUSED" /\ playing' = FALSE
    /\ wpc' = [wpc EXCEPT !["control"] = "cas"]
    /\ UNCHANGED <<futex, filled, pc, tries, spins, code, errno>>

StartStream ==
    /\ state = "PAUSED" /\ wpc["control"] = "out"
    /\ state' = "RUNNING" /\ playing' = TRUE
    /\ UNCHANGED <<futex, filled, pc, tries, spins, code, errno, wpc>>

(* mutant: the default wakeVal, IS_READY *)
ReleaseWakesReady ==
    /\ state # "RELEASED"
    /\ state' = "RELEASED" /\ playing' = FALSE
    /\ wpc' = [wpc EXCEPT !["release"] = "cas"]
    /\ UNCHANGED <<futex, filled, pc, tries, spins, code, errno>>

(* ReleaseAudioStream: state_ = RELEASED, the server stops reading; only   *)
(* in callback mode is the writer woken, with IS_PRE_EXIT, and joined.     *)
ReleaseStream ==
    /\ state # "RELEASED"
    /\ state' = "RELEASED" /\ playing' = FALSE
    /\ wpc' = IF CallbackMode THEN [wpc EXCEPT !["release"] = "store"] ELSE wpc
    /\ UNCHANGED <<futex, filled, pc, tries, spins, code, errno>>

Next ==
    \/ Writer \/ WaitTimesOut \/ WaitInterrupted
    \/ \E w \in Wakers : Wake(w)
    \/ WriteData \/ PauseStream \/ StartStream \/ ReleaseStream

Spec == Init /\ [][Next]_vars

(* Threads run; the sink asks for data as long as the stream plays.  No    *)
(* fairness for the timeout, for signals or for what the application does: *)
(* what is promised below needs none of them.                              *)
FairSpec ==
    /\ Spec
    /\ WF_vars(Writer)
    /\ \A w \in Wakers : WF_vars(Wake(w))
    /\ WF_vars(WriteData)

-----------------------------------------------------------------------------
TypeOK ==
    /\ futex \in FutexValues
    /\ filled \in 0 .. SpanCount
    /\ state \in {"RUNNING", "PAUSED", "RELEASED"} /\ playing \in BOOLEAN
    /\ pc \in WriterPC
    /\ tries \in 0 .. WaitTries /\ spins \in 0 .. SpinLimit
    /\ code \in FutexCodes /\ errno \in Errnos
    /\ wpc \in [Wakers -> {"out", "cas", "store", "call"}]

(* A writer in the kernel sleeps on IS_NOT_READY, or a waker that changed  *)
(* the word is about to make the system call: no wake that took effect is  *)
(* ever lost, whichever wakers overlap.                                    *)
NoLostWake ==
    pc = "asleep" /\ futex # "NOT_READY" => \E w \in Wakers : wpc[w] = "call"

(* IS_PRE_EXIT is for good: no wake in flight and no wait can undo it, so  *)
(* the callback thread that is being joined can never go to sleep again.   *)
PreExitSticks == [][futex = "PRE_EXIT" => futex' = "PRE_EXIT"]_vars

(* A writer that found the ring full and slept past the wake that freed a  *)
(* span (the wake fell between its check and its compare-exchange) is      *)
(* woken by a later call of WriteData, not by the timeout, as long as the  *)
(* stream plays: that is what the wake on the near-underrun path is for.   *)
SleeperIsWoken == pc = "asleep" ~> (pc # "asleep" \/ ~playing)

(* The join() in ReleaseAudioStream returns: wherever the callback thread  *)
(* is, also asleep or between its check and its sleep, it ends without     *)
(* waiting for the timeout.                                                *)
ReleaseEndsThread == CallbackMode /\ state = "RELEASED" ~> pc = "ended"
=============================================================================
