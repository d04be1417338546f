------------------------------ MODULE SpanFifo ------------------------------
(***************************************************************************)
(* What the shared ring promises, with no positions and no memory: a       *)
(* bounded first-in first-out channel of spans.  A span is named by the    *)
(* frame, in the client's own stream, that it starts with.                 *)
(***************************************************************************)
EXTENDS Integers, Sequences

CONSTANTS
    SpanSize,       \* frames in a span
    Capacity,       \* spans the channel holds at most
    Nothing,        \* "no span has been played yet"
    MaxFrames       \* bound: the client sends the frames 0 .. MaxFrames - 1

VARIABLES
    queue,          \* spans sent and not yet played, oldest first
    sent,           \* the next frame of the client's stream
    heard           \* the span the server played last

vars == <<queue, sent, heard>>

Init == queue = << >> /\ sent = 0 /\ heard = Nothing

Put ==
    /\ sent + SpanSize <= MaxFrames
    /\ Len(queue) < Capacity
    /\ queue' = Append(queue, sent)
    /\ sent' = sent + SpanSize
    /\ UNCHANGED heard

Take ==
    /\ queue # << >>
    /\ heard' = Head(queue)
    /\ queue' = Tail(queue)
    /\ UNCHANGED sent

Next == Put \/ Take

Spec == Init /\ [][Next]_vars

(* Both ends keep working: the client always has more to send and the      *)
(* sink always asks for more.                                              *)
FairSpec == Spec /\ WF_vars(Put) /\ WF_vars(Take)
=============================================================================
