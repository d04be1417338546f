-------------------------- MODULE FutexTool_proofs --------------------------
(***************************************************************************)
(* Proofs of the safety of FutexTool, for every number of spans, every     *)
(* spin limit and both write modes.                                        *)
(*                                                                         *)
(* NoLostWake is not inductive: PauseStream, WriteData and ReleaseStream   *)
(* send a waker to FutexWake, and one that was about to make its system    *)
(* call would be forgotten.  For the first two the guard says that the     *)
(* waker is out; a release runs once, so its waker is out until then.      *)
(***************************************************************************)
EXTENDS FutexTool, TLAPS

(* A writer about to fill a span has one that is free, which the server    *)
(* only makes freer.                                                       *)
FillHasRoom == pc = "fill" => filled < SpanCount

(* The loop in FutexWait has counted fewer than SpinLimit tries wherever   *)
(* it may count one more.                                                  *)
SpinsLeft == pc \in {"syscall", "asleep", "woken"} => spins < SpinLimit

(* The waker of ReleaseAudioStream has not begun before the release. *)
ReleaseNotBegun == state # "RELEASED" => wpc["release"] = "out"

IInv ==
    /\ TypeOK
    /\ FillHasRoom
    /\ SpinsLeft
    /\ ReleaseNotBegun
    /\ NoLostWake

(* The initial state satisfies the inductive invariant: the word is        *)
(* IS_READY, the ring is empty and nobody waits.                           *)
LEMMA InitIInv == Init => IInv
BY FutexAssumption
DEF Init, IInv, TypeOK, FillHasRoom, SpinsLeft, ReleaseNotBegun, NoLostWake,
    FutexValues, FutexCodes, Errnos, Wakers, WriterPC, WaitTries

(* Every step of the writer keeps the inductive invariant: no place where  *)
(* it waits can be reached past a change of the word.                      *)
LEMMA WriterIInv == IInv /\ (Writer \/ WaitTimesOut \/ WaitInterrupted) => IInv'
<1>. USE FutexAssumption
     DEF IInv, TypeOK, FillHasRoom, SpinsLeft, ReleaseNotBegun, NoLostWake,
         FutexValues, FutexCodes, Errnos, Wakers, WriterPC, WaitTries
<1>1. IInv /\ BeginWrite => IInv'  BY DEF BeginWrite
<1>2. IInv /\ EndThread => IInv'  BY DEF EndThread
<1>3. IInv /\ CheckAvailable => IInv'  BY DEF CheckAvailable
<1>4. IInv /\ WaitCas => IInv'  BY DEF WaitCas
<1>5. IInv /\ WaitSpin => IInv'  BY DEF WaitSpin
<1>6. IInv /\ WaitSyscall => IInv'  BY DEF WaitSyscall
<1>7. IInv /\ WaitWoken => IInv'  BY DEF WaitWoken
<1>8. IInv /\ WaitReturned => IInv'  BY DEF WaitReturned
<1>9. IInv /\ ConfirmAvailable => IInv'  BY DEF ConfirmAvailable
<1>10. IInv /\ Fill => IInv'  BY DEF Fill
<1>11. IInv /\ WaitTimesOut => IInv'  BY DEF WaitTimesOut
<1>12. IInv /\ WaitInterrupted => IInv'  BY DEF WaitInterrupted
<1>. QED  BY <1>1, <1>2, <1>3, <1>4, <1>5, <1>6, <1>7, <1>8, <1>9, <1>10, <1>11, <1>12
          DEF Writer

(* So does every step of FutexWake: whoever changes the word is then about *)
(* to make the system call, and the call wakes the sleeper.                *)
LEMMA WakeIInv == ASSUME NEW w \in Wakers, IInv, Wake(w) PROVE IInv'
<1>. USE FutexAssumption
     DEF IInv, TypeOK, FillHasRoom, SpinsLeft, ReleaseNotBegun, NoLostWake,
         FutexValues, FutexCodes, Errnos, Wakers, WriterPC, WaitTries
<1>1. CASE WakeCas(w)  BY <1>1 DEF WakeCas
<1>2. CASE WakePreExit(w)  BY <1>2 DEF WakePreExit
<1>3. CASE WakeCall(w)  BY <1>3 DEF WakeCall
<1>. QED  BY <1>1, <1>2, <1>3 DEF Wake

(* And so do the callers of FutexWake: a waker that begins was out, so     *)
(* another one's pending system call stays pending.                        *)
LEMMA CallersIInv ==
    IInv /\ (WriteData \/ PauseStream \/ StartStream \/ ReleaseStream) => IInv'
<1>. USE FutexAssumption
     DEF IInv, TypeOK, FillHasRoom, SpinsLeft, ReleaseNotBegun, NoLostWake,
         FutexValues, FutexCodes, Errnos, Wakers, WriterPC, WaitTries
<1>1. IInv /\ WriteData => IInv'  BY DEF WriteData
<1>2. IInv /\ PauseStream => IInv'  BY DEF PauseStream
<1>3. IInv /\ StartStream => IInv'  BY DEF StartStream
<1>4. IInv /\ ReleaseStream => IInv'  BY DEF ReleaseStream
<1>. QED  BY <1>1, <1>2, <1>3, <1>4

(* The inductive invariant holds in every reachable state. *)
LEMMA SpecIInv == Spec => []IInv
<1>1. IInv /\ [Next]_vars => IInv'
  <2>. SUFFICES ASSUME IInv, [Next]_vars PROVE IInv'  OBVIOUS
  <2>1. CASE Next  BY <2>1, WriterIInv, WakeIInv, CallersIInv DEF Next
  <2>2. CASE UNCHANGED vars
    BY <2>2 DEF vars, IInv, TypeOK, FillHasRoom, SpinsLeft, ReleaseNotBegun, NoLostWake
  <2>. QED  BY <2>1, <2>2
<1>. QED  BY <1>1, InitIInv, PTL DEF Spec

(* FutexWait never counts past WAIT_TRY_COUNT, the ring never holds more   *)
(* spans than it has, and every variable has its type.                     *)
THEOREM TypeCorrect == Spec => []TypeOK
BY SpecIInv, PTL DEF IInv

(* No wake that took effect is lost, whatever the size of the ring and     *)
(* however the wakers overlap: see NoLostWake.                             *)
THEOREM NoWakeIsLost == Spec => []NoLostWake
BY SpecIInv, PTL DEF IInv

(* IS_PRE_EXIT is for good: neither a wait nor a wake in flight undoes the *)
(* store of ReleaseAudioStream.                                            *)
THEOREM PreExitIsFinal == Spec => PreExitSticks
<1>1. [Next]_vars => (futex = "PRE_EXIT" => futex' = "PRE_EXIT")
  BY DEF vars, Next, Writer, BeginWrite, EndThread, CheckAvailable, WaitCas, WaitSpin,
         WaitSyscall, WaitTimesOut, WaitInterrupted, WaitWoken, WaitReturned,
         ConfirmAvailable, Fill, Wake, WakeCas, WakePreExit, WakeCall, WriteData,
         PauseStream, StartStream, ReleaseStream
<1>. QED  BY <1>1, PTL DEF Spec, PreExitSticks
=============================================================================
