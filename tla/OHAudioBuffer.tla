--------------------------- MODULE OHAudioBuffer ---------------------------
(***************************************************************************)
(* The position arithmetic of OHAudioBuffer, the shared-memory ring that   *)
(* carries PCM between a client process and audio_server                   *)
(* (services/audio_service/common/src/oh_audio_buffer.cpp).                *)
(*                                                                         *)
(* Three atomics in shared memory describe the ring: basePosInFrame,       *)
(* curReadFrame and curWriteFrame, absolute frame counts that only grow.   *)
(* Every member function loads some of them, one atomic load at a time,    *)
(* and then decides.  The operators below are those decisions, as          *)
(* functions of the values that were loaded; the modules that use them     *)
(* say when each load and store happens.                                   *)
(*                                                                         *)
(* The code computes in uint64_t.  A position below the base makes the     *)
(* difference wrap to a value far above 2 * total, which every check       *)
(* refuses, so the operators ask for pos >= base instead.                  *)
(***************************************************************************)
EXTENDS Integers

CONSTANTS
    SpanSize,       \* spanSizeInFrame_
    TotalSize       \* totalSizeInFrame_

(* What OHAudioBuffer::SizeCheck demands of the sizes: a whole number of   *)
(* spans, at least one.  (A span of zero frames divides by zero there.)    *)
SizeCheck ==
    /\ SpanSize \in Nat \ {0}
    /\ TotalSize \in Nat
    /\ TotalSize >= SpanSize
    /\ \E n \in 1 .. TotalSize : TotalSize = n * SpanSize

ASSUME SizeCheckAssumption == SizeCheck

SpanCount == TotalSize \div SpanSize

(* deltaToBase / spanSizeInFrame_ * spanSizeInFrame_ *)
SpanFloor(delta) == (delta \div SpanSize) * SpanSize
Aligned(delta) == SpanFloor(delta) = delta

(* The values of bufferDesc.buffer - dataBase_, counted in frames. *)
Offsets == {o \in 0 .. TotalSize - 1 : Aligned(o)}

-----------------------------------------------------------------------------
(* GetAvailableDataFrames: free frames, or -1 when the positions loaded    *)
(* make no sense.                                                          *)
AvailableDataFrames(write, read) ==
    IF write >= read /\ write - read <= TotalSize
    THEN TotalSize - (write - read)
    ELSE -1

(* GetBufferByFrame: both halves of the 2 * total window map onto the same *)
(* memory, so the delta is folded once.                                    *)
InBuffer(pos, base) == pos >= base /\ pos - base < 2 * TotalSize

(* mutant: the fold is forgotten *)
BufferByFrameUnfolded(pos, base) == SpanFloor(pos - base)

BufferByFrame(pos, base) ==
    SpanFloor(IF pos - base >= TotalSize THEN pos - base - TotalSize
                                         ELSE pos - base)

(* The guards GetWriteBuffer and GetReadbuffer put before it. *)
WriteBufferOk(pos, base, read) == InBuffer(pos, base) /\ pos >= read

ReadBufferOk(pos, base) == pos >= base /\ pos - base < TotalSize

(* SetCurWriteFrame: the checks made with the base and the old write       *)
(* position, then the one made with the read position loaded after them.   *)
WriteFrameInBase(new, base, oldWrite) ==
    /\ new > oldWrite
    /\ new >= base
    /\ Aligned(new - base)
    /\ new - base < 2 * TotalSize

WriteFrameInCache(new, read) == new >= read /\ new - read <= TotalSize

(* SetCurReadFrame: the checks, and the base it stores before it stores    *)
(* the read position.                                                      *)
ReadFrameOk(new, base, oldRead, write) ==
    /\ new >= oldRead
    /\ new <= write
    /\ new >= base
    /\ Aligned(new - base)
    /\ new - base <= TotalSize

(* mutant: the base never moves *)
BaseNeverMoves(new, base) == base

BaseAfterRead(new, base) ==
    IF new - base = TotalSize THEN base + TotalSize ELSE base
=============================================================================
