----------------------------- MODULE SharedRing -----------------------------
(***************************************************************************)
(* One playback stream's ring, written by the client process and read by   *)
(* audio_server, at the granularity of the loads and stores of the shared  *)
(* atomics.                                                                *)
(*                                                                         *)
(*   client   RendererInClientInner::WriteCacheData: wait for a free span, *)
(*            GetWriteBuffer, copy, SetCurWriteFrame                       *)
(*   server   RendererInServer::WriteData: GetReadbuffer, EnqueueBuffer,   *)
(*            clear, SetCurReadFrame                                       *)
(*                                                                         *)
(* The client alone stores the write position, the server alone the base   *)
(* and the read position.  A load of a position the loading side alone     *)
(* stores is folded into the step that uses it: nobody can change it.      *)
(* There is a single server thread in WriteData at a time, which is what   *)
(* writeLock_ gives when every caller takes it.                            *)
(***************************************************************************)
EXTENDS OHAudioBuffer, Sequences

CONSTANTS
    MaxFrames       \* bound: the client sends the frames 0 .. MaxFrames - 1

ASSUME MaxFramesAssumption == MaxFrames \in Nat

Silence == -1       \* what memset_s leaves in a span
Torn == -2          \* a span the client is copying into

(* The number of FutexWait calls WriteCacheData makes before it gives up.  *)
WaitTries == 2

VARIABLES
    base, read, write,  \* basePosInFrame, curReadFrame, curWriteFrame
    mem,            \* the data buffer: offset of a span -> its contents
    sent,           \* the client's own stream position, in frames
    heard,          \* the contents EnqueueBuffer passed on last
    refused,        \* a position check returned ERR_INVALID_PARAM to a side
    cpc,            \* where the client is in WriteCacheData
    ctries,         \* tryCount
    cbase, cread,   \* basePos and readPos the client loaded
    coff,           \* desc.buffer
    spc,            \* where the server is in WriteData
    soff            \* bufferDesc.buffer

positions == <<base, read, write>>
clientVars == <<cpc, ctries, cbase, cread, coff>>
serverVars == <<spc, soff>>
vars == <<base, read, write, mem, sent, heard, refused, cpc, ctries, cbase,
          cread, coff, spc, soff>>

ClientPC == {"idle", "wait", "confirm", "getBase", "getRead", "getSlot",
             "copy", "copied", "setBase", "setRead", "store"}
ServerPC == {"idle", "enqueue", "clear", "setBase", "setRead"}

(* OHAudioBuffer::Init, and the memset_s of the whole buffer in            *)
(* RendererInServer::ConfigServerBuffer.                                   *)
Init ==
    /\ base = 0 /\ read = 0 /\ write = 0
    /\ mem = [o \in Offsets |-> Silence]
    /\ sent = 0
    /\ heard = Silence
    /\ refused = FALSE
    /\ cpc = "idle" /\ ctries = WaitTries
    /\ cbase = 0 /\ cread = 0 /\ coff = 0
    /\ spc = "idle" /\ soff = 0

-----------------------------------------------------------------------------
(* The client: WriteCacheData.                                             *)

(* static_cast<uint32_t>(GetAvailableDataFrames()) < spanSizeInFrame_: the *)
(* failure value -1 becomes the largest uint32_t.                          *)
(* mutant: any valid answer will do *)
AnyFramesDo(frames) == FALSE

TooFewFrames(frames) == frames >= 0 /\ frames < SpanSize

(* GetAvailableDataFrames at the head of the function.                     *)
CheckAvailable ==
    /\ cpc = "idle"
    /\ sent + SpanSize <= MaxFrames
    /\ LET frames == AvailableDataFrames(write, read) IN
       /\ refused' = (refused \/ frames < 0)
       /\ cpc' = IF frames < 0 THEN "idle"
                 ELSE IF TooFewFrames(frames) THEN "wait"
                 ELSE "confirm"
    /\ ctries' = WaitTries
    /\ UNCHANGED <<positions, mem, sent, heard, cbase, cread, coff, serverVars>>

(* A FutexWait that timed out, or found the stream no longer RUNNING:      *)
(* WriteCacheData returns and a later Write of the application starts it   *)
(* again, with the same data still in ringCache_.                          *)
WaitFailed ==
    /\ cpc = "wait"
    /\ cpc' = "idle"
    /\ UNCHANGED <<positions, mem, sent, heard, refused, ctries, cbase, cread,
                   coff, serverVars>>

(* A FutexWait that came back.  FUTEX_SUCCESS leaves the loop; any other   *)
(* code goes round again while tries are left and the frames are too few.  *)
WaitReturned ==
    /\ cpc = "wait"
    /\ ctries' = ctries - 1
    /\ \E success \in BOOLEAN :
         LET frames == AvailableDataFrames(write, read) IN
         /\ refused' = (refused \/ frames < 0)
         /\ cpc' = IF frames < 0 THEN "idle"
                   ELSE IF ~success /\ TooFewFrames(frames) /\ ctries > 1
                        THEN "wait"
                   ELSE "confirm"
    /\ UNCHANGED <<positions, mem, sent, heard, cbase, cread, coff, serverVars>>

(* The check after the loop.                                               *)
ConfirmAvailable ==
    /\ cpc = "confirm"
    /\ cpc' = IF TooFewFrames(AvailableDataFrames(write, read))
              THEN "idle" ELSE "getBase"
    /\ UNCHANGED <<positions, mem, sent, heard, refused, ctries, cbase, cread,
                   coff, serverVars>>

(* GetWriteBuffer(curWriteIndex): basePosInFrame.load() ...                *)
WriteBufferBase ==
    /\ cpc = "getBase"
    /\ cbase' = base
    /\ cpc' = "getRead"
    /\ UNCHANGED <<positions, mem, sent, heard, refused, ctries, cread, coff,
                   serverVars>>

(* ... then curReadFrame.load() and the checks.                            *)
WriteBufferRead ==
    /\ cpc = "getRead"
    /\ cread' = read
    /\ LET ok == WriteBufferOk(write, cbase, read) IN
       /\ refused' = (refused \/ ~ok)
       /\ cpc' = IF ok THEN "getSlot" ELSE "idle"
    /\ UNCHANGED <<positions, mem, sent, heard, ctries, cbase, coff, serverVars>>

(* GetBufferByFrame loads the base a second time.                          *)
WriteBufferSlot ==
    /\ cpc = "getSlot"
    /\ cbase' = base
    /\ LET ok == InBuffer(write, base) IN
       /\ refused' = (refused \/ ~ok)
       /\ cpc' = IF ok THEN "copy" ELSE "idle"
       /\ coff' = IF ok THEN BufferByFrame(write, base) ELSE coff
    /\ UNCHANGED <<positions, mem, sent, heard, ctries, cread, serverVars>>

(* ringCache_->Dequeue copies into the span: begun, then done.             *)
CopyBegin ==
    /\ cpc = "copy"
    /\ mem' = [mem EXCEPT ![coff] = Torn]
    /\ cpc' = "copied"
    /\ UNCHANGED <<positions, sent, heard, refused, ctries, cbase, cread, coff,
                   serverVars>>

CopyEnd ==
    /\ cpc = "copied"
    /\ mem' = [mem EXCEPT ![coff] = sent]
    /\ cpc' = "setBase"
    /\ UNCHANGED <<positions, sent, heard, refused, ctries, cbase, cread, coff,
                   serverVars>>

(* SetCurWriteFrame(curWriteIndex + spanSizeInFrame_): the base ...        *)
SetWriteBase ==
    /\ cpc = "setBase"
    /\ cbase' = base
    /\ LET ok == WriteFrameInBase(write + SpanSize, base, write) IN
       /\ refused' = (refused \/ ~ok)
       /\ cpc' = IF ok THEN "setRead" ELSE "idle"
       /\ sent' = IF ok THEN sent ELSE sent + SpanSize
    /\ UNCHANGED <<positions, mem, heard, ctries, cread, coff, serverVars>>

(* ... the read position ...                                               *)
SetWriteRead ==
    /\ cpc = "setRead"
    /\ cread' = read
    /\ LET ok == WriteFrameInCache(write + SpanSize, read) IN
       /\ refused' = (refused \/ ~ok)
       /\ cpc' = IF ok THEN "store" ELSE "idle"
       /\ sent' = IF ok THEN sent ELSE sent + SpanSize
    /\ UNCHANGED <<positions, mem, heard, ctries, cbase, coff, serverVars>>

(* ... and the store.  A refusal is not looked at by WriteCacheData: the   *)
(* block has left ringCache_ and is lost, hence sent moves on above.       *)
StoreWrite ==
    /\ cpc = "store"
    /\ write' = write + SpanSize
    /\ sent' = sent + SpanSize
    /\ cpc' = "idle"
    /\ UNCHANGED <<base, read, mem, heard, refused, ctries, cbase, cread, coff,
                   serverVars>>

ClientStep ==
    \/ CheckAvailable \/ WaitFailed \/ WaitReturned \/ ConfirmAvailable
    \/ WriteBufferBase \/ WriteBufferRead \/ WriteBufferSlot
    \/ CopyBegin \/ CopyEnd
    \/ SetWriteBase \/ SetWriteRead \/ StoreWrite

-----------------------------------------------------------------------------
(* The server: WriteData.                                                  *)

(* mutant: less than a span is good enough *)
WriteDataBeginEmpty ==
    /\ spc = "idle"
    /\ read <= write
    /\ LET ok == ReadBufferOk(read, base) IN
       /\ refused' = (refused \/ ~ok)
       /\ spc' = IF ok THEN "enqueue" ELSE "idle"
       /\ soff' = IF ok THEN BufferByFrame(read, base) ELSE soff
    /\ UNCHANGED <<positions, mem, sent, heard, clientVars>>

(* mutant: >= for >, the last span is never played *)
WriteDataBeginStrict ==
    /\ read + SpanSize < write
    /\ WriteDataBeginEmpty

(* The load of the write position.  With less than a span to read the call *)
(* only wakes the client ("near underrun"): nothing here changes.  With a  *)
(* span, GetReadbuffer; a refusal skips the span without an error.         *)
WriteDataBegin ==
    /\ spc = "idle"
    /\ read + SpanSize <= write
    /\ LET ok == ReadBufferOk(read, base) IN
       /\ refused' = (refused \/ ~ok)
       /\ spc' = IF ok THEN "enqueue" ELSE "idle"
       /\ soff' = IF ok THEN BufferByFrame(read, base) ELSE soff
    /\ UNCHANGED <<positions, mem, sent, heard, clientVars>>

(* stream_->EnqueueBuffer(bufferDesc) *)
Enqueue ==
    /\ spc = "enqueue"
    /\ heard' = mem[soff]
    /\ spc' = "clear"
    /\ UNCHANGED <<positions, mem, sent, refused, soff, clientVars>>

(* mutant: no memset_s *)
ClearSpanSkipped ==
    /\ spc = "clear"
    /\ spc' = "setBase"
    /\ UNCHANGED <<positions, mem, sent, heard, refused, soff, clientVars>>

(* memset_s, "clear is needed for reuse" *)
ClearSpan ==
    /\ spc = "clear"
    /\ mem' = [mem EXCEPT ![soff] = Silence]
    /\ spc' = "setBase"
    /\ UNCHANGED <<positions, sent, heard, refused, soff, clientVars>>

(* SetCurReadFrame(nextReadFrame): the checks and the store of the base ... *)
SetReadBase ==
    /\ spc = "setBase"
    /\ LET ok == ReadFrameOk(read + SpanSize, base, read, write) IN
       /\ refused' = (refused \/ ~ok)
       /\ spc' = IF ok THEN "setRead" ELSE "idle"
       /\ base' = IF ok THEN BaseAfterRead(read + SpanSize, base) ELSE base
    /\ UNCHANGED <<read, write, mem, sent, heard, soff, clientVars>>

(* ... and the store of the read position. *)
StoreRead ==
    /\ spc = "setRead"
    /\ read' = read + SpanSize
    /\ spc' = "idle"
    /\ UNCHANGED <<base, write, mem, sent, heard, refused, soff, clientVars>>

ServerStep ==
    \/ WriteDataBegin \/ Enqueue \/ ClearSpan \/ SetReadBase \/ StoreRead

Next == ClientStep \/ ServerStep

Spec == Init /\ [][Next]_vars

(* The client keeps writing what the application gives it, and the sink    *)
(* keeps asking for data, so each side takes the steps it can.  A wait may *)
(* time out every time but not when the span it waits for is free for good:*)
(* the call that follows finds it without waiting.                         *)
FairSpec == Spec /\ WF_vars(ClientStep) /\ WF_vars(ServerStep)

-----------------------------------------------------------------------------
(* The frames that start a span in the ring: written, not yet given back.  *)
Filled == {f \in read .. write - 1 : Aligned(f)}

(* The server is done with the oldest span but has not stored the read     *)
(* position yet.                                                           *)
Consumed == IF spc \in {"clear", "setBase", "setRead"} THEN {read} ELSE {}

(* The memory of a filled frame, by what is in the ring now.               *)
Where(f) == BufferByFrame(f, IF spc = "setRead" /\ base > read
                             THEN base - TotalSize ELSE base)

TypeOK ==
    /\ base \in Nat /\ read \in Nat /\ write \in Nat
    /\ mem \in [Offsets -> Int]
    /\ sent \in Nat
    /\ heard \in Int
    /\ refused \in BOOLEAN
    /\ cpc \in ClientPC /\ ctries \in 0 .. WaitTries
    /\ cbase \in Nat /\ cread \in Nat /\ coff \in Offsets
    /\ spc \in ServerPC /\ soff \in Offsets

(* No position check of either side ever refuses a move of the protocol,   *)
(* although the client reads a base and a read position that the server is *)
(* in the middle of moving (SetCurReadFrame stores the base first): the    *)
(* return value of SetCurWriteFrame and SetCurReadFrame is ignored, so a   *)
(* refusal would lose audio without an error.                              *)
NeverRefused == ~refused

(* The client never copies into the span the server is passing on or       *)
(* clearing ("Client may write the buffer immediately after                *)
(* SetCurReadFrame").                                                      *)
NoSharedSpan ==
    ~ ( /\ cpc \in {"copy", "copied"}
        /\ spc \in {"enqueue", "clear"}
        /\ coff = soff )

(* Every span between the read and the write position holds, complete, the *)
(* block of the client's stream that belongs there, until the server has   *)
(* passed it on: nothing is overwritten unheard and nothing is heard half  *)
(* copied.                                                                 *)
FilledSpansIntact == \A f \in Filled \ Consumed : mem[Where(f)] = f

(* All other memory is silent, the span being filled apart: a block        *)
(* shorter than a span (the last one before a drain) is followed by        *)
(* silence and never by what the ring held a round earlier.                *)
FreeSpansSilent ==
    \A o \in Offsets :
        \/ mem[o] = Silence
        \/ \E f \in Filled : o = Where(f)
        \/ o = coff /\ cpc \in {"copied", "setBase", "setRead", "store"}

(* What a peer can see of the three positions at any instant.  It is less  *)
(* than the comment above BasicBufferInfo (oh_audio_buffer.h) promises,    *)
(* "0 <= write - read < 1 * totalSize" and "0 <= read - base < 1 *         *)
(* totalSize": the ring can be full, and the base can be one round ahead   *)
(* of the read position that is about to be stored.                        *)
PositionsInRange ==
    /\ read <= write /\ write - read <= TotalSize
    /\ base <= write /\ write - base < 2 * TotalSize
    /\ read - base < TotalSize
    /\ read < base => base - read = SpanSize /\ spc = "setRead"

-----------------------------------------------------------------------------
(* The ring implements the FIFO of spans.  The queue is what the memory    *)
(* holds between the positions, less the span already passed on; a put is  *)
(* the store of the write position, a take is EnqueueBuffer.               *)
Unheard ==
    LET from == IF Consumed = {} THEN read ELSE read + SpanSize
    IN [i \in 1 .. (write - from) \div SpanSize |->
           mem[Where(from + (i - 1) * SpanSize)]]

Fifo == INSTANCE SpanFifo WITH
    queue <- Unheard, Capacity <- SpanCount, Nothing <- Silence

(* Every span the client publishes is heard exactly once, in order, and    *)
(* neither side ever stops for good: the client's next span always gets in *)
(* and every span in the ring is played.                                   *)
ImplementsFifo == Fifo!FairSpec
=============================================================================
