--------------------------- MODULE MCAudioSession ---------------------------
(* Two processes; the first has two streams. *)
EXTENDS AudioSession

MCPids == {"p", "q"}
MCStreams == {"p1", "p2", "q1"}
MCOwner == [s \in MCStreams |-> IF s = "q1" THEN "q" ELSE "p"]
=============================================================================
