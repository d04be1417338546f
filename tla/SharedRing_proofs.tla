-------------------------- MODULE SharedRing_proofs --------------------------
(***************************************************************************)
(* The safety of the shared ring, for every span size, buffer size and     *)
(* number of frames, and that it implements a FIFO of spans.               *)
(*                                                                         *)
(* First come facts about the position arithmetic of OHAudioBuffer.  The   *)
(* inductive invariant has two parts.  PositionInv relates the three       *)
(* positions to each other and to where each side is in its protocol: what *)
(* a side has loaded may be stale, but every stale value still bounds the  *)
(* present one from the safe side.  MemoryInv says what the memory holds.  *)
(*                                                                         *)
(* The last part shows that what SharedRing does to positions and memory,  *)
(* SpanFifo does to a queue, or nothing.  By MemoryInv what Unheard reads  *)
(* in the memory are the frames themselves, so Unheard is the run of span  *)
(* starts from the first that has not been heard up to the write position  *)
(* (UnheardIsRun).  The store of the write position makes the run longer   *)
(* by one, EnqueueBuffer shorter, and the two stores of SetCurReadFrame    *)
(* leave it alone, for the server has moved its end when it passed the     *)
(* span on.                                                                *)
(***************************************************************************)
EXTENDS SharedRing, SequenceTheorems, TLAPS

(* The sizes that OHAudioBuffer::SizeCheck admits are positive. *)
LEMMA SizesType == /\ SpanSize \in Nat /\ SpanSize > 0
                   /\ TotalSize \in Nat /\ TotalSize >= SpanSize
                   /\ \E n \in Nat : TotalSize = n * SpanSize
BY SizeCheckAssumption DEF SizeCheck

(* Span boundaries are the multiples of the span size ... *)
LEMMA MultipleAligned ==
    ASSUME NEW k \in Nat PROVE Aligned(k * SpanSize)
BY SizesType DEF Aligned, SpanFloor

(* ... and only those. *)
LEMMA AlignedMultiple ==
    ASSUME NEW d \in Nat, Aligned(d)
    PROVE  \E k \in Nat : d = k * SpanSize
BY SizesType DEF Aligned, SpanFloor

(* The ring starts on a span boundary ... *)
LEMMA AlignedZero == Aligned(0)
BY SizesType DEF Aligned, SpanFloor

(* ... and ends on one. *)
LEMMA AlignedTotal == Aligned(TotalSize)
BY SizesType, MultipleAligned

(* Positions move from boundary to boundary. *)
LEMMA AlignedAdd ==
    ASSUME NEW d \in Nat, NEW e \in Nat, Aligned(d), Aligned(e)
    PROVE  Aligned(d + e)
<1>1. PICK k \in Nat : d = k * SpanSize BY AlignedMultiple
<1>2. PICK l \in Nat : e = l * SpanSize BY AlignedMultiple
<1>3. d + e = (k + l) * SpanSize BY <1>1, <1>2, SizesType
<1>4. k + l \in Nat OBVIOUS
<1>5. Aligned((k + l) * SpanSize) BY <1>4, MultipleAligned
<1> QED BY <1>3, <1>5

(* So is the distance between two of them. *)
LEMMA AlignedSub ==
    ASSUME NEW d \in Nat, NEW e \in Nat, Aligned(d), Aligned(e), e <= d
    PROVE  Aligned(d - e)
<1>1. PICK k \in Nat : d = k * SpanSize BY AlignedMultiple
<1>2. PICK l \in Nat : e = l * SpanSize BY AlignedMultiple
<1>3. d - e = (k - l) * SpanSize BY <1>1, <1>2, SizesType
<1>4. k >= l BY <1>1, <1>2, SizesType
<1>5. k - l \in Nat BY <1>4
<1>6. Aligned((k - l) * SpanSize) BY <1>5, MultipleAligned
<1> QED BY <1>3, <1>6

(* Two boundaries that differ are a whole span apart. *)
LEMMA AlignedGap ==
    ASSUME NEW d \in Nat, NEW e \in Nat, Aligned(d), Aligned(e), d < e
    PROVE  d + SpanSize <= e
<1>1. PICK k \in Nat : d = k * SpanSize BY AlignedMultiple
<1>2. PICK l \in Nat : e = l * SpanSize BY AlignedMultiple
<1>3. k + 1 <= l BY <1>1, <1>2, SizesType
<1>4. (k + 1) * SpanSize <= l * SpanSize BY <1>3, SizesType
<1> QED BY <1>1, <1>2, <1>4, SizesType

-----------------------------------------------------------------------------
(* On the aligned positions of the window GetBufferByFrame admits, the     *)
(* offset is the distance to the base, folded once, and lies in the buffer. *)
LEMMA BufferByFrameFold ==
    ASSUME NEW pos \in Nat, NEW b \in Nat, Aligned(pos), Aligned(b),
           InBuffer(pos, b)
    PROVE  /\ BufferByFrame(pos, b) = (IF pos - b >= TotalSize
                                       THEN pos - b - TotalSize ELSE pos - b)
           /\ BufferByFrame(pos, b) \in Offsets
<1>1. pos - b \in Nat /\ pos - b < 2 * TotalSize /\ b <= pos
  BY DEF InBuffer
<1>2. Aligned(pos - b)
  BY <1>1, AlignedSub
<1>3. CASE pos - b >= TotalSize
  <2>1. pos - b - TotalSize \in Nat /\ pos - b - TotalSize < TotalSize
    BY <1>1, <1>3, SizesType
  <2>2. Aligned((pos - b) - TotalSize)
    BY <1>1, <1>2, <1>3, SizesType, AlignedTotal, AlignedSub
  <2>3. BufferByFrame(pos, b) = pos - b - TotalSize
    BY <1>3, <2>2 DEF BufferByFrame, Aligned
  <2> QED BY <1>3, <2>1, <2>2, <2>3, SizesType DEF Offsets
<1>4. CASE ~(pos - b >= TotalSize)
  <2>1. BufferByFrame(pos, b) = pos - b
    BY <1>2, <1>4 DEF BufferByFrame, Aligned
  <2> QED BY <1>1, <1>2, <1>4, <2>1, SizesType DEF Offsets
<1> QED BY <1>3, <1>4

(* Moving the base by one round moves no frame that is still in the window. *)
LEMMA BufferByFrameRound ==
    ASSUME NEW pos \in Nat, NEW b \in Nat, Aligned(pos), Aligned(b),
           pos >= b + TotalSize, pos - b < 2 * TotalSize
    PROVE  BufferByFrame(pos, b + TotalSize) = BufferByFrame(pos, b)
<1>1. b + TotalSize \in Nat /\ Aligned(b + TotalSize)
  BY SizesType, AlignedTotal, AlignedAdd
<1>2. InBuffer(pos, b) /\ InBuffer(pos, b + TotalSize)
  BY SizesType DEF InBuffer
<1>3. BufferByFrame(pos, b) = pos - b - TotalSize
  BY <1>2, BufferByFrameFold, SizesType
<1>4. BufferByFrame(pos, b + TotalSize) = pos - (b + TotalSize)
  BY <1>1, <1>2, BufferByFrameFold, SizesType
<1> QED BY <1>3, <1>4, SizesType

(* Two positions less than a round apart never share memory. *)
LEMMA BufferByFrameInjective ==
    ASSUME NEW p \in Nat, NEW q \in Nat, NEW b \in Nat,
           Aligned(p), Aligned(q), Aligned(b), InBuffer(p, b), InBuffer(q, b),
           p < q, q - p < TotalSize
    PROVE  BufferByFrame(p, b) # BufferByFrame(q, b)
<1>1. BufferByFrame(p, b) = (IF p - b >= TotalSize
                             THEN p - b - TotalSize ELSE p - b)
  BY BufferByFrameFold
<1>2. BufferByFrame(q, b) = (IF q - b >= TotalSize
                             THEN q - b - TotalSize ELSE q - b)
  BY BufferByFrameFold
<1> QED BY <1>1, <1>2, SizesType DEF InBuffer

(* One span on is the next boundary. *)
LEMMA AlignedSpan == Aligned(SpanSize)
<1>1. Aligned(1 * SpanSize) BY MultipleAligned
<1> QED BY <1>1, SizesType

-----------------------------------------------------------------------------
Working == {"getBase", "getRead", "getSlot", "copy", "copied", "setBase",
            "setRead", "store"}

Copying == {"copy", "copied", "setBase", "setRead", "store"}

(* The read position the base is right for. *)
NextRead == IF spc = "setRead" THEN read + SpanSize ELSE read

PositionInv ==
    /\ Aligned(base) /\ Aligned(read) /\ Aligned(write)
    /\ sent = write
    /\ ~refused
    /\ read <= write /\ write - read <= TotalSize
    /\ base <= NextRead /\ NextRead - base < TotalSize
    /\ spc = "setRead" /\ read < base =>
          base = read + SpanSize /\ TotalSize <= base
    /\ spc # "idle" => read + SpanSize <= write
    /\ spc \in {"enqueue", "clear", "setBase"} => soff = BufferByFrame(read, base)
    /\ cpc = "wait" => ctries > 0
    /\ cpc \in Working => write + SpanSize - read <= TotalSize
    /\ cpc = "getRead" => cbase <= write /\ write - cbase < 2 * TotalSize
    /\ cpc \in Copying => coff = BufferByFrame(write, base)

IInv == TypeOK /\ PositionInv

-----------------------------------------------------------------------------
(* Consequences of the invariant that several steps need. *)
LEMMA ZeroOffset == 0 \in Offsets /\ TotalSize \in Nat /\ TotalSize > 0
BY SizesType, AlignedZero DEF Offsets

(* The next positions are span boundaries, and the base is behind both. *)
LEMMA NextPositions ==
    ASSUME IInv
    PROVE  /\ Aligned(read + SpanSize) /\ Aligned(write + SpanSize)
           /\ base <= read \/ spc = "setRead"
           /\ base <= write
           /\ write - base < 2 * TotalSize \/ cpc \notin Working
<1> USE SizesType
<1>1. Aligned(read + SpanSize) /\ Aligned(write + SpanSize)
  BY AlignedAdd, AlignedSpan DEF IInv, TypeOK, PositionInv
<1>2. base <= read \/ spc = "setRead"
  BY DEF IInv, TypeOK, PositionInv, NextRead
<1>3. base <= write
  BY DEF IInv, TypeOK, PositionInv, NextRead
<1>4. write - base < 2 * TotalSize \/ cpc \notin Working
  BY DEF IInv, TypeOK, PositionInv, NextRead
<1> QED BY <1>1, <1>2, <1>3, <1>4

(* An empty ring satisfies the invariant on types and positions. *)
THEOREM InitIInv == Init => IInv
<1> SUFFICES ASSUME Init PROVE IInv
  OBVIOUS
<1>1. TypeOK
  <2>1. Silence \in Int
    BY DEF Silence
  <2>2. mem \in [Offsets -> Int] /\ heard \in Int
    BY <2>1 DEF Init
  <2>3. ctries \in 0 .. WaitTries
    BY DEF Init, WaitTries
  <2> QED BY <2>2, <2>3, ZeroOffset DEF Init, TypeOK, ClientPC, ServerPC
<1>2. PositionInv
  BY AlignedZero, SizesType
  DEF Init, PositionInv, NextRead, Working, Copying
<1> QED BY <1>1, <1>2 DEF IInv

(* Every step of WriteCacheData and WriteData keeps it, whatever the stale *)
(* values the two sides work with.                                         *)
THEOREM NextIInv == IInv /\ [Next]_vars => IInv'
<1> SUFFICES ASSUME IInv, [Next]_vars PROVE IInv'
  OBVIOUS
<1> USE SizesType
<1>0. /\ TypeOK /\ PositionInv
      /\ Aligned(read + SpanSize) /\ Aligned(write + SpanSize)
      /\ base <= read \/ spc = "setRead"
      /\ base <= write
      /\ write - base < 2 * TotalSize \/ cpc \notin Working
  BY NextPositions DEF IInv
<1>1. CASE CheckAvailable
  BY <1>0, <1>1 DEF CheckAvailable, AvailableDataFrames, TooFewFrames, IInv, TypeOK, PositionInv, NextRead,
     Working, Copying, ClientPC, ServerPC, WaitTries, positions, serverVars
<1>2. CASE WaitFailed
  BY <1>0, <1>2 DEF WaitFailed, IInv, TypeOK, PositionInv, NextRead,
     Working, Copying, ClientPC, positions, serverVars
<1>3. CASE WaitReturned
  BY <1>0, <1>3 DEF WaitReturned, AvailableDataFrames, TooFewFrames, IInv, TypeOK, PositionInv, NextRead,
     Working, Copying, ClientPC, WaitTries, positions, serverVars
<1>4. CASE ConfirmAvailable
  BY <1>0, <1>4 DEF ConfirmAvailable, AvailableDataFrames, TooFewFrames, IInv, TypeOK, PositionInv, NextRead,
     Working, Copying, ClientPC, positions, serverVars
<1>5. CASE WriteBufferBase
  BY <1>0, <1>5 DEF WriteBufferBase, IInv, TypeOK, PositionInv, NextRead,
     Working, Copying, ClientPC, positions, serverVars
<1>6. CASE WriteBufferRead
  BY <1>0, <1>6 DEF WriteBufferRead, WriteBufferOk, InBuffer, IInv, TypeOK, PositionInv, NextRead,
     Working, Copying, ClientPC, positions, serverVars
<1>7. CASE WriteBufferSlot
  <2>1. InBuffer(write, base)
    BY <1>0, <1>7 DEF WriteBufferSlot, InBuffer, Working, TypeOK, PositionInv
  <2>2. BufferByFrame(write, base) \in Offsets
    BY <1>0, <2>1, BufferByFrameFold DEF TypeOK, PositionInv
  <2> QED
    BY <1>0, <1>7, <2>1, <2>2 DEF WriteBufferSlot, IInv, TypeOK, PositionInv, NextRead,
       Working, Copying, ClientPC, positions, serverVars
<1>8. CASE CopyBegin
  BY <1>0, <1>8 DEF CopyBegin, Torn, IInv, TypeOK, PositionInv, NextRead,
     Working, Copying, ClientPC, positions, serverVars
<1>9. CASE CopyEnd
  BY <1>0, <1>9 DEF CopyEnd, IInv, TypeOK, PositionInv, NextRead,
     Working, Copying, ClientPC, positions, serverVars
<1>10. CASE SetWriteBase
  <2>1. WriteFrameInBase(write + SpanSize, base, write)
    <3>1. Aligned(write + SpanSize - base)
      BY <1>0, AlignedSub DEF TypeOK, PositionInv
    <3> QED BY <1>0, <1>10, <3>1 DEF SetWriteBase, WriteFrameInBase, TypeOK, PositionInv, NextRead, Working
  <2> QED
    BY <1>0, <1>10, <2>1 DEF SetWriteBase, IInv, TypeOK, PositionInv, NextRead,
       Working, Copying, ClientPC, positions, serverVars
<1>11. CASE SetWriteRead
  BY <1>0, <1>11 DEF SetWriteRead, WriteFrameInCache, IInv, TypeOK, PositionInv, NextRead,
     Working, Copying, ClientPC, positions, serverVars
<1>12. CASE StoreWrite
  BY <1>0, <1>12 DEF StoreWrite, IInv, TypeOK, PositionInv, NextRead,
     Working, Copying, ClientPC, serverVars
<1>13. CASE WriteDataBegin
  <2>1. ReadBufferOk(read, base)
    BY <1>0, <1>13 DEF WriteDataBegin, ReadBufferOk, TypeOK, PositionInv, NextRead
  <2>2. BufferByFrame(read, base) \in Offsets
    BY <1>0, <2>1, BufferByFrameFold DEF ReadBufferOk, InBuffer, TypeOK, PositionInv
  <2> QED
    BY <1>0, <1>13, <2>1, <2>2 DEF WriteDataBegin, IInv, TypeOK, PositionInv, NextRead,
       Working, Copying, ServerPC, positions, clientVars
<1>14. CASE Enqueue
  BY <1>0, <1>14 DEF Enqueue, IInv, TypeOK, PositionInv, NextRead,
     Working, Copying, ServerPC, positions, clientVars
<1>15. CASE ClearSpan
  BY <1>0, <1>15 DEF ClearSpan, Silence, IInv, TypeOK, PositionInv, NextRead,
     Working, Copying, ServerPC, positions, clientVars
<1>16. CASE SetReadBase
  <2>1. Aligned(read + SpanSize - base)
    BY <1>0, <1>16, AlignedSub DEF SetReadBase, TypeOK, PositionInv
  <2>2. read + SpanSize - base <= TotalSize
    <3>1. read - base \in Nat /\ Aligned(read - base) /\ read - base < TotalSize
      BY <1>0, <1>16, AlignedSub DEF SetReadBase, TypeOK, PositionInv, NextRead
    <3>2. read - base + SpanSize <= TotalSize
      BY <3>1, AlignedGap, AlignedTotal
    <3> QED BY <3>2, <1>0 DEF TypeOK
  <2>3. ReadFrameOk(read + SpanSize, base, read, write)
    BY <1>0, <1>16, <2>1, <2>2 DEF SetReadBase, ReadFrameOk, TypeOK, PositionInv
  <2>4. CASE read + SpanSize - base = TotalSize
    <3>1. base' = base + TotalSize
      BY <1>0, <1>16, <2>3, <2>4 DEF SetReadBase, BaseAfterRead, TypeOK
    <3>2. Aligned(base')
      BY <3>1, <1>0, AlignedAdd, AlignedTotal DEF TypeOK, PositionInv
    <3>3. cpc \in Copying => BufferByFrame(write, base') = BufferByFrame(write, base)
      BY <3>1, <1>0, <1>16, <2>4, BufferByFrameRound
      DEF SetReadBase, Copying, Working, TypeOK, PositionInv
    <3> QED
      BY <1>0, <1>16, <2>3, <2>4, <3>1, <3>2, <3>3
      DEF SetReadBase, IInv, TypeOK, PositionInv, NextRead, Working, Copying,
          ServerPC, clientVars
  <2>5. CASE read + SpanSize - base # TotalSize
    <3>1. base' = base
      BY <1>0, <1>16, <2>3, <2>5 DEF SetReadBase, BaseAfterRead, TypeOK
    <3> QED
      BY <1>0, <1>16, <2>2, <2>3, <2>5, <3>1
      DEF SetReadBase, IInv, TypeOK, PositionInv, NextRead, Working, Copying,
          ServerPC, clientVars
  <2> QED BY <2>4, <2>5
<1>17. CASE StoreRead
  BY <1>0, <1>17 DEF StoreRead, IInv, TypeOK, PositionInv, NextRead,
     Working, Copying, ServerPC, clientVars
<1>18. CASE UNCHANGED vars
  BY <1>18 DEF vars, IInv, TypeOK, PositionInv, NextRead
<1> QED
  BY <1>1, <1>2, <1>3, <1>4, <1>5, <1>6, <1>7, <1>8, <1>9, <1>10, <1>11,
     <1>12, <1>13, <1>14, <1>15, <1>16, <1>17, <1>18
  DEF Next, ClientStep, ServerStep

-----------------------------------------------------------------------------
(* The memory.  Where is taken at the base from before the move that       *)
(* SetCurReadFrame may be in the middle of.                                *)
OldBase == IF spc = "setRead" /\ base > read THEN base - TotalSize ELSE base

MemoryInv ==
    /\ FilledSpansIntact
    /\ FreeSpansSilent
    /\ spc \in {"setBase", "setRead"} => mem[Where(read)] = Silence
    /\ cpc \in {"setBase", "setRead", "store"} => mem[coff] = write

(* The frames in the ring and the one being filled lie in one window of    *)
(* TotalSize frames above the base.                                        *)
LEMMA Window ==
    ASSUME IInv
    PROVE  /\ OldBase \in Nat /\ Aligned(OldBase)
           /\ OldBase <= read /\ read - OldBase < TotalSize
           /\ \A f : Where(f) = BufferByFrame(f, OldBase)
           /\ cpc \in Copying => /\ coff = BufferByFrame(write, OldBase)
                                 /\ InBuffer(write, OldBase)
<1> USE SizesType
<1>0. TypeOK /\ PositionInv
  BY DEF IInv
<1>1. \A f : Where(f) = BufferByFrame(f, OldBase)
  BY DEF Where, OldBase
<1>2. CASE spc = "setRead" /\ base > read
  <2>1. OldBase = base - TotalSize /\ base = read + SpanSize /\ TotalSize <= base
    BY <1>0, <1>2 DEF OldBase, PositionInv, TypeOK
  <2>2. OldBase \in Nat /\ Aligned(OldBase)
    BY <1>0, <2>1, AlignedSub, AlignedTotal DEF TypeOK, PositionInv
  <2>3. OldBase <= read /\ read - OldBase < TotalSize
    BY <1>0, <2>1 DEF TypeOK
  <2>4. ASSUME cpc \in Copying
        PROVE  coff = BufferByFrame(write, OldBase) /\ InBuffer(write, OldBase)
    <3>1. write >= base /\ write - OldBase < 2 * TotalSize
      BY <1>0, <1>2, <2>1, <2>4 DEF TypeOK, PositionInv, Copying, Working
    <3>2. BufferByFrame(write, OldBase + TotalSize) = BufferByFrame(write, OldBase)
      BY <1>0, <2>1, <2>2, <3>1, BufferByFrameRound DEF TypeOK, PositionInv
    <3>3. OldBase + TotalSize = base
      BY <1>0, <2>1 DEF TypeOK
    <3> QED BY <1>0, <2>1, <2>2, <2>4, <3>1, <3>2, <3>3 DEF TypeOK, PositionInv, InBuffer
  <2> QED BY <1>1, <2>2, <2>3, <2>4
<1>3. CASE ~(spc = "setRead" /\ base > read)
  <2>1. OldBase = base
    BY <1>3 DEF OldBase
  <2>2. base <= read /\ read - base < TotalSize
    BY <1>0, <1>3 DEF TypeOK, PositionInv, NextRead
  <2>3. ASSUME cpc \in Copying
        PROVE  coff = BufferByFrame(write, OldBase) /\ InBuffer(write, OldBase)
    BY <1>0, <2>1, <2>2, <2>3 DEF TypeOK, PositionInv, Copying, Working, InBuffer
  <2> QED BY <1>0, <1>1, <2>1, <2>2, <2>3 DEF TypeOK, PositionInv
<1> QED BY <1>2, <1>3

(* Filled spans lie in the buffer, apart from each other and from the span *)
(* the client is working on.                                               *)
LEMMA FilledApart ==
    ASSUME IInv
    PROVE  /\ \A f \in Filled : /\ f \in Nat /\ Aligned(f) /\ read <= f /\ f < write
                               /\ InBuffer(f, OldBase)
                               /\ Where(f) \in Offsets
           /\ \A f, g \in Filled : f # g => Where(f) # Where(g)
           /\ cpc \in Copying => \A f \in Filled : Where(f) # coff
           /\ spc # "idle" => read \in Filled
<1> USE SizesType
<1>0. TypeOK /\ PositionInv
  BY DEF IInv
<1>1. ASSUME NEW f \in Filled
      PROVE  /\ f \in Nat /\ Aligned(f) /\ read <= f /\ f < write
             /\ InBuffer(f, OldBase)
             /\ Where(f) \in Offsets
  <2>1. f \in Nat /\ Aligned(f) /\ read <= f /\ f < write
    BY <1>0, <1>1 DEF Filled, TypeOK
  <2>2. InBuffer(f, OldBase)
    BY <1>0, <2>1, Window DEF InBuffer, TypeOK, PositionInv
  <2>3. Where(f) \in Offsets
    BY <2>1, <2>2, Window, BufferByFrameFold
  <2> QED BY <2>1, <2>2, <2>3
<1>2. ASSUME NEW f \in Filled, NEW g \in Filled, f < g
      PROVE  Where(f) # Where(g)
  <2>1. g - f < TotalSize
    BY <1>0, <1>1, <1>2 DEF TypeOK, PositionInv
  <2> QED BY <1>1, <1>2, <2>1, Window, BufferByFrameInjective
<1>3. \A f, g \in Filled : f # g => Where(f) # Where(g)
  <2> SUFFICES ASSUME NEW f \in Filled, NEW g \in Filled, f # g
               PROVE  Where(f) # Where(g)
    OBVIOUS
  <2>1. f < g \/ g < f
    BY <1>1
  <2> QED BY <1>2, <2>1
<1>4. ASSUME cpc \in Copying, NEW f \in Filled
      PROVE  Where(f) # coff
  <2>1. write - f < TotalSize /\ write \in Nat /\ Aligned(write)
    BY <1>0, <1>1, <1>4 DEF TypeOK, PositionInv, Copying, Working
  <2> QED BY <1>1, <1>4, <2>1, Window, BufferByFrameInjective
<1>5. spc # "idle" => read \in Filled
  BY <1>0 DEF TypeOK, PositionInv, Filled
<1> QED BY <1>1, <1>3, <1>4, <1>5

-----------------------------------------------------------------------------
(* The server clears the ring before the client sees it. *)
THEOREM InitMemoryInv == Init => MemoryInv
<1> SUFFICES ASSUME Init PROVE MemoryInv
  OBVIOUS
<1>1. Filled = {}
  BY DEF Init, Filled
<1>2. \A o \in Offsets : mem[o] = Silence
  BY DEF Init
<1> QED BY <1>1, <1>2 DEF Init, MemoryInv, FilledSpansIntact, FreeSpansSilent

(* A step that moves nothing the memory is indexed by, and that does not   *)
(* end the client's work on a span, keeps the memory right.                *)
LEMMA MemoryStutter ==
    ASSUME MemoryInv, UNCHANGED <<positions, mem, spc>>,
           cpc \in {"copied", "setBase", "setRead", "store"}
             => cpc' \in {"copied", "setBase", "setRead", "store"} /\ coff' = coff,
           cpc' \in {"setBase", "setRead", "store"}
             => cpc \in {"setBase", "setRead", "store"} /\ coff' = coff
    PROVE  MemoryInv'
<1>1. Filled' = Filled /\ Consumed' = Consumed
  BY DEF positions, Filled, Consumed
<1>2. \A f : Where(f)' = Where(f)
  BY DEF positions, Where
<1>3. FilledSpansIntact'
  BY <1>1, <1>2 DEF positions, MemoryInv, FilledSpansIntact
<1>4. FreeSpansSilent'
  BY <1>1, <1>2 DEF positions, MemoryInv, FreeSpansSilent
<1> QED BY <1>2, <1>3, <1>4 DEF positions, MemoryInv

(* Every step keeps what the memory holds: the copy and the memset touch   *)
(* one span, which is not one that is waiting to be heard.                 *)
THEOREM NextMemoryInv == IInv /\ IInv' /\ MemoryInv /\ [Next]_vars => MemoryInv'
<1> SUFFICES ASSUME IInv, IInv', MemoryInv, [Next]_vars PROVE MemoryInv'
  OBVIOUS
<1> USE SizesType
<1>0. TypeOK /\ PositionInv /\ TypeOK' /\ PositionInv'
  BY DEF IInv
<1>1. CASE CheckAvailable
  BY <1>1, MemoryStutter DEF CheckAvailable, serverVars
<1>2. CASE WaitFailed
  BY <1>2, MemoryStutter DEF WaitFailed, serverVars
<1>3. CASE WaitReturned
  BY <1>3, MemoryStutter DEF WaitReturned, serverVars
<1>4. CASE ConfirmAvailable
  BY <1>4, MemoryStutter DEF ConfirmAvailable, serverVars
<1>5. CASE WriteBufferBase
  BY <1>5, MemoryStutter DEF WriteBufferBase, serverVars
<1>6. CASE WriteBufferRead
  BY <1>6, MemoryStutter DEF WriteBufferRead, serverVars
<1>7. CASE WriteBufferSlot
  BY <1>7, MemoryStutter DEF WriteBufferSlot, serverVars
<1>10. CASE SetWriteBase
  <2>1. cpc' = "setRead"
    BY <1>0, <1>10 DEF SetWriteBase, PositionInv, TypeOK
  <2> QED BY <1>10, <2>1, MemoryStutter DEF SetWriteBase, serverVars
<1>11. CASE SetWriteRead
  <2>1. cpc' = "store"
    BY <1>0, <1>11 DEF SetWriteRead, PositionInv, TypeOK
  <2> QED BY <1>11, <2>1, MemoryStutter DEF SetWriteRead, serverVars
<1>8. CASE CopyBegin
  <2>1. /\ Filled' = Filled /\ Consumed' = Consumed
        /\ \A f : Where(f)' = Where(f)
    BY <1>8 DEF CopyBegin, positions, serverVars, Filled, Consumed, Where
  <2>2. \A f \in Filled : Where(f) # coff
    BY <1>8, FilledApart DEF CopyBegin, Copying
  <2>3. \A o \in Offsets : o # coff => mem'[o] = mem[o]
    BY <1>0, <1>8 DEF CopyBegin, TypeOK
  <2>4. FilledSpansIntact'
    BY <2>1, <2>2, <2>3, FilledApart DEF MemoryInv, FilledSpansIntact
  <2>5. FreeSpansSilent'
    BY <1>8, <2>1, <2>3 DEF CopyBegin, MemoryInv, FreeSpansSilent
  <2>6. spc' \in {"setBase", "setRead"} => mem'[Where(read)'] = Silence
    BY <1>8, <2>1, <2>2, <2>3, FilledApart
    DEF CopyBegin, positions, serverVars, MemoryInv
  <2> QED BY <1>8, <2>1, <2>4, <2>5, <2>6 DEF CopyBegin, positions, MemoryInv
<1>9. CASE CopyEnd
  <2>1. /\ Filled' = Filled /\ Consumed' = Consumed
        /\ \A f : Where(f)' = Where(f)
    BY <1>9 DEF CopyEnd, positions, serverVars, Filled, Consumed, Where
  <2>2. \A f \in Filled : Where(f) # coff
    BY <1>9, FilledApart DEF CopyEnd, Copying
  <2>3. \A o \in Offsets : o # coff => mem'[o] = mem[o]
    BY <1>0, <1>9 DEF CopyEnd, TypeOK
  <2>4. FilledSpansIntact'
    BY <2>1, <2>2, <2>3, FilledApart DEF MemoryInv, FilledSpansIntact
  <2>5. FreeSpansSilent'
    BY <1>9, <2>1, <2>3 DEF CopyEnd, MemoryInv, FreeSpansSilent
  <2>6. spc' \in {"setBase", "setRead"} => mem'[Where(read)'] = Silence
    BY <1>9, <2>1, <2>2, <2>3, FilledApart
    DEF CopyEnd, positions, serverVars, MemoryInv
  <2>7. mem'[coff'] = write'
    BY <1>0, <1>9 DEF CopyEnd, positions, TypeOK, PositionInv
  <2> QED BY <2>1, <2>4, <2>5, <2>6, <2>7 DEF MemoryInv
<1>12. CASE StoreWrite
  <2>1. /\ \A f : Where(f)' = Where(f)
        /\ Consumed' = Consumed /\ mem' = mem /\ read' = read /\ spc' = spc
        /\ write' = write + SpanSize /\ cpc' = "idle"
    BY <1>12 DEF StoreWrite, serverVars, Consumed, Where
  <2>2. coff = Where(write) /\ mem[coff] = write
    BY <1>12, Window DEF StoreWrite, Copying, MemoryInv
  <2>3. Filled' = Filled \cup {write}
    <3>1. ASSUME NEW f \in Filled' PROVE f \in Filled \/ f = write
      <4>1. f \in Nat /\ read <= f /\ f < write + SpanSize /\ Aligned(f)
        BY <1>0, <2>1 DEF Filled, TypeOK
      <4>2. ~(write < f)
        BY <1>0, <4>1, AlignedGap DEF TypeOK, PositionInv
      <4> QED BY <1>0, <4>1, <4>2 DEF Filled, TypeOK
    <3>2. ASSUME NEW f \in Filled \cup {write} PROVE f \in Filled'
      BY <1>0, <2>1 DEF Filled, TypeOK, PositionInv
    <3> QED BY <3>1, <3>2
  <2>4. FilledSpansIntact'
    BY <2>1, <2>2, <2>3 DEF MemoryInv, FilledSpansIntact
  <2>5. FreeSpansSilent'
    BY <2>1, <2>2, <2>3 DEF MemoryInv, FreeSpansSilent
  <2> QED BY <2>1, <2>4, <2>5 DEF MemoryInv
<1>13. CASE WriteDataBegin
  <2>1. /\ Filled' = Filled /\ Consumed' = Consumed
        /\ \A f : Where(f)' = Where(f)
        /\ spc' \in {"enqueue", "idle"}
    BY <1>13 DEF WriteDataBegin, positions, Filled, Consumed, Where
  <2> QED
    BY <1>13, <2>1 DEF WriteDataBegin, positions, clientVars, MemoryInv,
        FilledSpansIntact, FreeSpansSilent
<1>14. CASE Enqueue
  <2>1. /\ Filled' = Filled /\ Consumed = {}
        /\ \A f : Where(f)' = Where(f)
    BY <1>14 DEF Enqueue, positions, Filled, Consumed, Where
  <2> QED
    BY <1>14, <2>1 DEF Enqueue, positions, clientVars, MemoryInv,
        FilledSpansIntact, FreeSpansSilent
<1>15. CASE ClearSpan
  <2>1. /\ Filled' = Filled /\ Consumed' = {read} /\ Consumed = {read}
        /\ \A f : Where(f)' = Where(f)
    BY <1>15 DEF ClearSpan, positions, Filled, Consumed, Where
  <2>2. read \in Filled /\ soff = Where(read)
    BY <1>0, <1>15, FilledApart DEF ClearSpan, PositionInv, Where
  <2>3. mem'[soff] = Silence /\ \A o \in Offsets : o # soff => mem'[o] = mem[o]
    BY <1>0, <1>15 DEF ClearSpan, TypeOK
  <2>4. FilledSpansIntact'
    BY <2>1, <2>2, <2>3, FilledApart DEF MemoryInv, FilledSpansIntact
  <2>5. FreeSpansSilent'
    BY <1>15, <2>1, <2>3 DEF ClearSpan, clientVars, MemoryInv, FreeSpansSilent
  <2>6. mem'[Where(read)'] = Silence /\ read' = read
    BY <1>15, <2>1, <2>2, <2>3 DEF ClearSpan, positions
  <2>7. cpc \in {"setBase", "setRead", "store"} => coff \in Offsets /\ coff # soff
    BY <1>0, <2>2, FilledApart DEF TypeOK, Copying
  <2>8. cpc' \in {"setBase", "setRead", "store"} => mem'[coff'] = write'
    BY <1>15, <2>3, <2>7 DEF ClearSpan, positions, clientVars, MemoryInv
  <2> QED BY <2>4, <2>5, <2>6, <2>8 DEF MemoryInv
<1>16. CASE SetReadBase
  <2>1. spc' = "setRead" /\ base' = BaseAfterRead(read + SpanSize, base)
    BY <1>0, <1>16 DEF SetReadBase, PositionInv, TypeOK
  <2>2. base <= read
    BY <1>0, <1>16 DEF SetReadBase, TypeOK, PositionInv, NextRead
  <2>3. OldBase' = base /\ OldBase = base
    BY <1>0, <1>16, <2>1, <2>2 DEF SetReadBase, OldBase, BaseAfterRead, TypeOK
  <2>4. \A f : Where(f)' = Where(f)
    BY <2>3 DEF Where, OldBase
  <2>5. Filled' = Filled /\ Consumed' = Consumed
    BY <1>16, <2>1 DEF SetReadBase, Filled, Consumed
  <2> QED
    BY <1>16, <2>4, <2>5 DEF SetReadBase, clientVars, MemoryInv,
        FilledSpansIntact, FreeSpansSilent
<1>17. CASE StoreRead
  <2>1. /\ read' = read + SpanSize /\ spc' = "idle" /\ base' = base
        /\ write' = write /\ mem' = mem /\ cpc' = cpc /\ coff' = coff
        /\ Consumed' = {} /\ Consumed = {read} /\ spc = "setRead"
    BY <1>17 DEF StoreRead, clientVars, Consumed
  <2>2. Filled' = Filled \ {read}
    <3>1. ASSUME NEW f \in Filled' PROVE f \in Filled \ {read}
      BY <1>0, <2>1 DEF Filled, TypeOK
    <3>2. ASSUME NEW f \in Filled \ {read} PROVE f \in Filled'
      <4>1. f \in Nat /\ read < f /\ f < write /\ Aligned(f)
        BY <1>0 DEF Filled, TypeOK
      <4>2. read + SpanSize <= f
        BY <1>0, <4>1, AlignedGap DEF TypeOK, PositionInv
      <4> QED BY <1>0, <2>1, <4>1, <4>2 DEF Filled, TypeOK
    <3> QED BY <3>1, <3>2
  <2>3. \A f \in Filled \ {read} : Where(f)' = Where(f)
    <3> SUFFICES ASSUME NEW f \in Filled \ {read} PROVE Where(f)' = Where(f)
      OBVIOUS
    <3>1. Where(f)' = BufferByFrame(f, base)
      BY <2>1 DEF Where
    <3>2. CASE base > read
      <4>1. /\ OldBase = base - TotalSize /\ base = read + SpanSize
            /\ OldBase + TotalSize = base
        BY <1>0, <2>1, <3>2 DEF OldBase, TypeOK, PositionInv
      <4>2. f >= base
        <5>1. f \in Nat /\ read < f /\ Aligned(f)
          BY <1>0, FilledApart DEF TypeOK
        <5>2. read + SpanSize <= f
          BY <1>0, <5>1, AlignedGap DEF TypeOK, PositionInv
        <5> QED BY <4>1, <5>2
      <4>3. f \in Nat /\ Aligned(f) /\ f - OldBase < 2 * TotalSize /\ Where(f) = BufferByFrame(f, OldBase)
        BY FilledApart, Window DEF InBuffer
      <4>4. OldBase \in Nat /\ Aligned(OldBase)
        BY Window
      <4>5. BufferByFrame(f, OldBase + TotalSize) = BufferByFrame(f, OldBase)
        BY <4>1, <4>2, <4>3, <4>4, BufferByFrameRound
      <4> QED BY <3>1, <4>1, <4>3, <4>5
    <3>3. CASE ~(base > read)
      BY <3>1, <3>3, Window DEF OldBase
    <3> QED BY <3>2, <3>3
  <2>4. FilledSpansIntact'
    BY <2>1, <2>2, <2>3 DEF MemoryInv, FilledSpansIntact
  <2>5. mem[Where(read)] = Silence
    BY <2>1 DEF MemoryInv
  <2>6. FreeSpansSilent'
    BY <2>1, <2>2, <2>3, <2>5 DEF MemoryInv, FreeSpansSilent
  <2> QED BY <2>1, <2>4, <2>6 DEF MemoryInv
<1>18. CASE UNCHANGED vars
  BY <1>18, MemoryStutter DEF vars, positions
<1> QED
  BY <1>1, <1>2, <1>3, <1>4, <1>5, <1>6, <1>7, <1>8, <1>9, <1>10, <1>11,
     <1>12, <1>13, <1>14, <1>15, <1>16, <1>17, <1>18
  DEF Next, ClientStep, ServerStep

-----------------------------------------------------------------------------
(* The results.  First the invariant itself.                               *)
THEOREM SpecInv == Spec => [](IInv /\ MemoryInv)
<1>1. Init => IInv /\ MemoryInv
  BY InitIInv, InitMemoryInv
<1>2. (IInv /\ MemoryInv) /\ [Next]_vars => (IInv /\ MemoryInv)'
  BY NextIInv, NextMemoryInv
<1> QED BY <1>1, <1>2, PTL DEF Spec

(* Every variable keeps its type; in particular the offset a side computes *)
(* is always that of a span of the buffer.                                 *)
THEOREM TypeCorrect == Spec => []TypeOK
<1>1. IInv /\ MemoryInv => TypeOK
  BY DEF IInv
<1> QED BY <1>1, SpecInv, PTL

(* No position check refuses a move of the protocol.                       *)
THEOREM ChecksNeverRefuse == Spec => []NeverRefused
<1>1. IInv /\ MemoryInv => NeverRefused
  BY DEF IInv, PositionInv, NeverRefused
<1> QED BY <1>1, SpecInv, PTL

(* The client never copies into the span the server is using.              *)
THEOREM SpansNotShared == Spec => []NoSharedSpan
<1>1. IInv /\ MemoryInv => NoSharedSpan
  <2> SUFFICES ASSUME IInv, cpc \in {"copy", "copied"}, spc \in {"enqueue", "clear"}
               PROVE  coff # soff
    BY DEF NoSharedSpan
  <2>1. read \in Filled /\ Where(read) # coff
    BY FilledApart DEF Copying
  <2>2. soff = Where(read)
    BY DEF IInv, PositionInv, Where
  <2> QED BY <2>1, <2>2
<1> QED BY <1>1, SpecInv, PTL

(* Nothing is overwritten unheard, and nothing is heard half copied.       *)
THEOREM FilledSpansStayIntact == Spec => []FilledSpansIntact
<1>1. IInv /\ MemoryInv => FilledSpansIntact
  BY DEF MemoryInv
<1> QED BY <1>1, SpecInv, PTL

(* Nothing stale is left behind where the next block may be short.         *)
THEOREM FreeSpansStaySilent == Spec => []FreeSpansSilent
<1>1. IInv /\ MemoryInv => FreeSpansSilent
  BY DEF MemoryInv
<1> QED BY <1>1, SpecInv, PTL

(* The relations between the three positions a peer may rely on.           *)
THEOREM PositionsCorrect == Spec => []PositionsInRange
<1>1. IInv /\ MemoryInv => PositionsInRange
  <2> SUFFICES ASSUME IInv PROVE PositionsInRange
    OBVIOUS
  <2>1. spc = "setRead" \/ base <= read
    BY NextPositions
  <2>2. TypeOK /\ PositionInv /\ base <= write
    BY NextPositions DEF IInv
  <2> QED
    BY <2>1, <2>2, SizesType DEF PositionsInRange, TypeOK, PositionInv, NextRead
<1> QED BY <1>1, SpecInv, PTL

-----------------------------------------------------------------------------
(* n spans, the first of which starts at frame f. *)
Run(f, n) == [i \in 1 .. n |-> f + (i - 1) * SpanSize]

(* A run is a sequence of its length; ... *)
LEMMA RunIsSeq ==
    ASSUME NEW f \in Nat, NEW n \in Nat
    PROVE  Run(f, n) \in Seq(Nat) /\ Len(Run(f, n)) = n
<1>. USE SizesType
<1>1. \A i \in 1 .. n : f + (i - 1) * SpanSize \in Nat
  <2>. SUFFICES ASSUME NEW i \in 1 .. n PROVE f + (i - 1) * SpanSize \in Nat  OBVIOUS
  <2>1. i - 1 \in Nat  OBVIOUS
  <2>2. (i - 1) * SpanSize \in Nat  BY <2>1
  <2>. QED  BY <2>2
<1>2. Run(f, n) \in [1 .. n -> Nat]  BY <1>1 DEF Run
<1>. QED  BY <1>2

(* ... it grows at its end ... *)
LEMMA RunGrows ==
    ASSUME NEW f \in Nat, NEW n \in Nat
    PROVE  Run(f, n + 1) = Append(Run(f, n), f + n * SpanSize)
<1>. USE SizesType
<1>1. /\ Run(f, n) \in Seq(Nat) /\ Len(Run(f, n)) = n
      /\ Run(f, n + 1) \in Seq(Nat) /\ Len(Run(f, n + 1)) = n + 1
  BY RunIsSeq
<1>2. f + n * SpanSize \in Nat
  <2>1. n * SpanSize \in Nat  OBVIOUS
  <2>. QED  BY <2>1
<1>3. Append(Run(f, n), f + n * SpanSize) \in Seq(Nat)
      /\ Len(Append(Run(f, n), f + n * SpanSize)) = n + 1
  BY <1>1, <1>2
<1>4. ASSUME NEW i \in 1 .. n + 1
      PROVE  Run(f, n + 1)[i] = Append(Run(f, n), f + n * SpanSize)[i]
  <2>1. Run(f, n + 1)[i] = f + (i - 1) * SpanSize  BY DEF Run
  <2>2. CASE i = n + 1
    BY <1>1, <1>2, <2>1, <2>2
  <2>3. CASE i \in 1 .. n
    <3>1. Run(f, n)[i] = f + (i - 1) * SpanSize  BY <2>3 DEF Run
    <3>2. Append(Run(f, n), f + n * SpanSize)[i] = Run(f, n)[i]  BY <1>1, <1>2, <2>3
    <3>. QED  BY <2>1, <3>1, <3>2
  <2>4. i = n + 1 \/ i \in 1 .. n  OBVIOUS
  <2>. QED  BY <2>2, <2>3, <2>4
<1>. QED  BY <1>1, <1>3, <1>4, SeqEqual

(* ... and is taken from at its beginning. *)
LEMMA RunShrinks ==
    ASSUME NEW f \in Nat, NEW n \in Nat
    PROVE  /\ Run(f, n + 1) # << >>
           /\ Head(Run(f, n + 1)) = f
           /\ Tail(Run(f, n + 1)) = Run(f + SpanSize, n)
<1>. USE SizesType
<1>1. /\ Run(f, n + 1) \in Seq(Nat) /\ Len(Run(f, n + 1)) = n + 1
      /\ Run(f + SpanSize, n) \in Seq(Nat) /\ Len(Run(f + SpanSize, n)) = n
  <2>1. f + SpanSize \in Nat /\ n + 1 \in Nat  OBVIOUS
  <2>. QED  BY <2>1, RunIsSeq
<1>2. Run(f, n + 1) # << >>  BY <1>1
<1>3. Head(Run(f, n + 1)) = f
  <2>1. Run(f, n + 1)[1] = f + (1 - 1) * SpanSize  BY DEF Run
  <2>. QED  BY <1>1, <1>2, <2>1
<1>4. /\ Tail(Run(f, n + 1)) \in Seq(Nat) /\ Len(Tail(Run(f, n + 1))) = n
      /\ \A i \in 1 .. n : Tail(Run(f, n + 1))[i] = Run(f, n + 1)[i + 1]
  BY <1>1, <1>2, HeadTailProperties
<1>5. ASSUME NEW i \in 1 .. n
      PROVE  Tail(Run(f, n + 1))[i] = Run(f + SpanSize, n)[i]
  <2>1. Run(f, n + 1)[i + 1] = f + (i + 1 - 1) * SpanSize  BY DEF Run
  <2>2. Run(f + SpanSize, n)[i] = f + SpanSize + (i - 1) * SpanSize  BY DEF Run
  <2>3. (i + 1 - 1) * SpanSize = SpanSize + (i - 1) * SpanSize  OBVIOUS
  <2>4. (i - 1) * SpanSize \in Int  OBVIOUS
  <2>. QED  BY <1>4, <2>1, <2>2, <2>3, <2>4
<1>. QED  BY <1>1, <1>2, <1>3, <1>4, <1>5, SeqEqual

-----------------------------------------------------------------------------
(* The client begins no span beyond the bound. *)
SendInv == cpc # "idle" => sent + SpanSize <= MaxFrames

LEMMA NextSendInv == SendInv /\ [Next]_vars => SendInv'
<1>. SUFFICES ASSUME SendInv, [Next]_vars PROVE SendInv'  OBVIOUS
<1>. USE DEF SendInv
<1>1. CASE CheckAvailable  BY <1>1 DEF CheckAvailable
<1>2. CASE WaitFailed  BY <1>2 DEF WaitFailed
<1>3. CASE WaitReturned  BY <1>3 DEF WaitReturned
<1>4. CASE ConfirmAvailable  BY <1>4 DEF ConfirmAvailable
<1>5. CASE WriteBufferBase  BY <1>5 DEF WriteBufferBase
<1>6. CASE WriteBufferRead  BY <1>6 DEF WriteBufferRead
<1>7. CASE WriteBufferSlot  BY <1>7 DEF WriteBufferSlot
<1>8. CASE CopyBegin  BY <1>8 DEF CopyBegin
<1>9. CASE CopyEnd  BY <1>9 DEF CopyEnd
<1>10. CASE SetWriteBase  BY <1>10 DEF SetWriteBase
<1>11. CASE SetWriteRead  BY <1>11 DEF SetWriteRead
<1>12. CASE StoreWrite  BY <1>12 DEF StoreWrite
<1>13. CASE ServerStep
  BY <1>13 DEF ServerStep, WriteDataBegin, Enqueue, ClearSpan, SetReadBase, StoreRead, clientVars
<1>14. CASE UNCHANGED vars  BY <1>14 DEF vars
<1>. QED
  BY <1>1, <1>2, <1>3, <1>4, <1>5, <1>6, <1>7, <1>8, <1>9, <1>10, <1>11, <1>12, <1>13, <1>14
  DEF Next, ClientStep

-----------------------------------------------------------------------------
(* The first frame that has not been heard. *)
From == IF Consumed = {} THEN read ELSE read + SpanSize

(* Unheard is the run of spans from there to the write position. *)
LEMMA UnheardIsRun ==
    ASSUME IInv, MemoryInv
    PROVE  /\ From \in Nat
           /\ \E n \in Nat : write - From = n * SpanSize
           /\ \A n \in Nat : write - From = n * SpanSize => Unheard = Run(From, n)
<1>. USE SizesType
<1>0. TypeOK /\ PositionInv  BY DEF IInv
<1>1. From \in Nat /\ From <= write /\ Aligned(From) /\ read <= From
  BY <1>0, NextPositions DEF From, Consumed, TypeOK, PositionInv
<1>2. \E n \in Nat : write - From = n * SpanSize
  <2>1. write - From \in Nat /\ Aligned(write - From)
    BY <1>0, <1>1, AlignedSub DEF TypeOK, PositionInv
  <2>. QED  BY <2>1, AlignedMultiple
<1>3. ASSUME NEW n \in Nat, write - From = n * SpanSize
      PROVE  Unheard = Run(From, n)
  <2>1. (write - From) \div SpanSize = n  BY <1>3
  <2>2. Unheard = [i \in 1 .. n |-> mem[Where(From + (i - 1) * SpanSize)]]
    BY <2>1 DEF Unheard, From
  <2>3. ASSUME NEW i \in 1 .. n
        PROVE  mem[Where(From + (i - 1) * SpanSize)] = From + (i - 1) * SpanSize
    <3>. DEFINE f == From + (i - 1) * SpanSize
    <3>1. i - 1 \in Nat /\ (i - 1) * SpanSize \in Nat
      OBVIOUS
    <3>2. Aligned((i - 1) * SpanSize)  BY <3>1, MultipleAligned
    <3>3. f \in Nat /\ Aligned(f) /\ From <= f  BY <1>1, <3>1, <3>2, AlignedAdd
    <3>4. f < write
      <4>1. (i - 1) * SpanSize < n * SpanSize  BY <3>1
      <4>. QED  BY <1>0, <1>1, <1>3, <3>1, <4>1 DEF TypeOK
    <3>5. f \in Filled  BY <1>0, <1>1, <3>3, <3>4 DEF Filled, TypeOK
    <3>6. f \notin Consumed
      BY <1>0, <3>3 DEF From, Consumed, TypeOK
    <3>. QED  BY <3>5, <3>6 DEF MemoryInv, FilledSpansIntact
  <2>. QED  BY <2>2, <2>3 DEF Run
<1>. QED  BY <1>1, <1>2, <1>3

(* The same, after a step. *)
IsRun == \A n \in Nat : write - From = n * SpanSize => Unheard = Run(From, n)

LEMMA UnheardIsRunThen == IInv' /\ MemoryInv' => IsRun'
<1>1. IInv /\ MemoryInv => IsRun  BY UnheardIsRun DEF IsRun
<1>. QED  BY <1>1, PTL

(* A step that leaves both ends where they are leaves Unheard. *)
LEMMA SameRun ==
    ASSUME IInv, MemoryInv, IInv', MemoryInv', From' = From, write' = write
    PROVE  Unheard' = Unheard
<1>1. PICK n \in Nat : write - From = n * SpanSize  BY UnheardIsRun
<1>2. Unheard = Run(From, n)  BY <1>1, UnheardIsRun
<1>3. Unheard' = Run(From', n)
  <2>1. \A m \in Nat : write' - From' = m * SpanSize => Unheard' = Run(From', m)
    BY UnheardIsRunThen DEF IsRun
  <2>. QED  BY <1>1, <2>1
<1>. QED  BY <1>2, <1>3

(* The store of the write position is a put. *)
LEMMA StoreWritePuts ==
    ASSUME IInv, MemoryInv, SendInv, IInv', MemoryInv', StoreWrite
    PROVE  Fifo!Put
<1>. USE SizesType
<1>0. TypeOK /\ PositionInv /\ write' \in Nat /\ sent = write
  BY DEF IInv, TypeOK, PositionInv
<1>1. From' = From /\ write' = write + SpanSize /\ heard' = heard
  BY DEF StoreWrite, From, Consumed, serverVars
<1>2. PICK n \in Nat : write - From = n * SpanSize  BY UnheardIsRun
<1>3. From \in Nat /\ Unheard = Run(From, n)  BY <1>2, UnheardIsRun
<1>4. write' - From' = (n + 1) * SpanSize
  <2>1. (n + 1) * SpanSize = n * SpanSize + SpanSize  OBVIOUS
  <2>2. n * SpanSize \in Nat  OBVIOUS
  <2>. QED  BY <1>0, <1>1, <1>2, <1>3, <2>1, <2>2 DEF TypeOK
<1>5. Unheard' = Run(From, n + 1)
  <2>1. \A m \in Nat : write' - From' = m * SpanSize => Unheard' = Run(From', m)
    BY UnheardIsRunThen DEF IsRun
  <2>. QED  BY <1>1, <1>4, <2>1
<1>6. Unheard' = Append(Unheard, sent)
  <2>1. From + n * SpanSize = write
    <3>1. n * SpanSize \in Nat  OBVIOUS
    <3>. QED  BY <1>0, <1>2, <1>3, <3>1 DEF TypeOK
  <2>. QED  BY <1>0, <1>3, <1>5, <2>1, RunGrows
<1>7. Len(Unheard) < SpanCount
  <2>1. Len(Unheard) = n  BY <1>3, RunIsSeq
  <2>2. write + SpanSize - From <= TotalSize
    BY <1>0 DEF StoreWrite, PositionInv, Working, From, TypeOK, Consumed
  <2>3. PICK k \in Nat : TotalSize = k * SpanSize  OBVIOUS
  <2>4. SpanCount = k  BY <2>3 DEF SpanCount
  <2>5. (n + 1) * SpanSize <= k * SpanSize  BY <1>0, <1>1, <1>3, <1>4, <2>2, <2>3 DEF TypeOK
  <2>6. n + 1 <= k  BY <2>5
  <2>. QED  BY <2>1, <2>4, <2>6
<1>8. sent + SpanSize <= MaxFrames /\ sent' = sent + SpanSize
  BY DEF StoreWrite, SendInv
<1>. QED  BY <1>1, <1>6, <1>7, <1>8 DEF Fifo!Put

(* EnqueueBuffer is a take. *)
LEMMA EnqueueTakes ==
    ASSUME IInv, MemoryInv, IInv', MemoryInv', Enqueue
    PROVE  Fifo!Take
<1>. USE SizesType
<1>0. TypeOK /\ PositionInv  BY DEF IInv
<1>1. /\ From = read /\ From' = read + SpanSize /\ write' = write /\ sent' = sent
      /\ heard' = mem[soff] /\ read + SpanSize <= write
  BY <1>0 DEF Enqueue, From, Consumed, positions, PositionInv
<1>2. PICK n \in Nat : write - From = n * SpanSize  BY UnheardIsRun
<1>3. n # 0
  <2>1. CASE n = 0
    <3>1. n * SpanSize = 0  BY <2>1
    <3>. QED  BY <1>0, <1>1, <1>2, <3>1 DEF TypeOK
  <2>. QED  BY <2>1
<1>4. n - 1 \in Nat /\ (n - 1) + 1 = n  BY <1>3
<1>5. read \in Nat /\ Unheard = Run(read, (n - 1) + 1)
  BY <1>1, <1>2, <1>4, UnheardIsRun
<1>6. Unheard # << >> /\ Head(Unheard) = read /\ Tail(Unheard) = Run(read + SpanSize, n - 1)
  BY <1>4, <1>5, RunShrinks
<1>7. Unheard' = Run(read + SpanSize, n - 1)
  <2>1. \A m \in Nat : write' - From' = m * SpanSize => Unheard' = Run(From', m)
    BY UnheardIsRunThen DEF IsRun
  <2>2. n * SpanSize = (n - 1) * SpanSize + SpanSize /\ (n - 1) * SpanSize \in Nat
    BY <1>4
  <2>3. write' - From' = (n - 1) * SpanSize
    BY <1>0, <1>1, <1>2, <2>2 DEF TypeOK
  <2>. QED  BY <1>1, <1>4, <2>1, <2>3
<1>8. mem[soff] = read
  <2>1. read \in Filled /\ Consumed = {}  BY FilledApart DEF Enqueue, Consumed
  <2>2. soff = Where(read)  BY <1>0 DEF Enqueue, PositionInv, Where
  <2>. QED  BY <2>1, <2>2 DEF MemoryInv, FilledSpansIntact
<1>. QED  BY <1>1, <1>6, <1>7, <1>8 DEF Fifo!Take

(* The rest of the protocol is invisible from the queue. *)
LEMMA OthersStutter ==
    ASSUME IInv, MemoryInv, IInv', MemoryInv', [Next]_vars, ~StoreWrite, ~Enqueue
    PROVE  UNCHANGED Fifo!vars
<1>. USE SizesType
<1>0. sent = write /\ sent' = write'  BY DEF IInv, PositionInv
<1>1. write' = write /\ heard' = heard
  BY DEF Next, vars, ClientStep, CheckAvailable, WaitFailed, WaitReturned, ConfirmAvailable,
         WriteBufferBase, WriteBufferRead, WriteBufferSlot, CopyBegin, CopyEnd, SetWriteBase,
         SetWriteRead, ServerStep, WriteDataBegin, ClearSpan, SetReadBase, StoreRead, positions
<1>2. From' = From
  <2>1. CASE ClientStep \/ UNCHANGED vars
    BY <2>1 DEF vars, ClientStep, CheckAvailable, WaitFailed, WaitReturned, ConfirmAvailable,
         WriteBufferBase, WriteBufferRead, WriteBufferSlot, CopyBegin, CopyEnd, SetWriteBase,
         SetWriteRead, positions, serverVars, From, Consumed
  <2>2. CASE WriteDataBegin \/ ClearSpan
    BY <2>2 DEF WriteDataBegin, ClearSpan, positions, From, Consumed
  <2>3. CASE SetReadBase
    <3>1. spc' = "setRead"  BY <2>3 DEF SetReadBase, IInv, PositionInv, TypeOK
    <3>. QED  BY <2>3, <3>1 DEF SetReadBase, From, Consumed
  <2>4. CASE StoreRead
    BY <2>4 DEF StoreRead, From, Consumed
  <2>. QED  BY <2>1, <2>2, <2>3, <2>4 DEF Next, ServerStep
<1>3. Unheard' = Unheard  BY <1>1, <1>2, SameRun
<1>. QED  BY <1>0, <1>1, <1>3 DEF Fifo!vars

-----------------------------------------------------------------------------
(* SharedRing implements SpanFifo, for every size of the spans and of the  *)
(* ring and every number of frames: nothing the client publishes is lost,  *)
(* repeated, reordered or heard half written, and no more spans are in     *)
(* flight than the ring has room for.                                      *)
THEOREM RingImplementsFifo == Spec => Fifo!Spec
<1>1. Init => Fifo!Init
  <2>. SUFFICES ASSUME Init PROVE Fifo!Init  OBVIOUS
  <2>1. IInv /\ MemoryInv  BY InitIInv, InitMemoryInv
  <2>2. From = 0 /\ write = 0  BY DEF Init, From, Consumed
  <2>3. write - From = 0 * SpanSize  BY <2>2, SizesType
  <2>4. Unheard = Run(0, 0)  BY <2>1, <2>2, <2>3, UnheardIsRun
  <2>5. Run(0, 0) = << >>
    <3>1. Run(0, 0) \in Seq(Nat) /\ Len(Run(0, 0)) = 0  BY RunIsSeq
    <3>. QED  BY <3>1, EmptySeq
  <2>. QED  BY <2>4, <2>5 DEF Init, Fifo!Init
<1>2. Init => SendInv  BY DEF Init, SendInv
<1>3. IInv /\ MemoryInv /\ SendInv /\ (IInv /\ MemoryInv)' /\ [Next]_vars
        => [Fifo!Next]_(Fifo!vars)
  BY StoreWritePuts, EnqueueTakes, OthersStutter DEF Fifo!Next
<1>. QED  BY <1>1, <1>2, <1>3, NextSendInv, SpecInv, PTL DEF Spec, Fifo!Spec
=============================================================================
