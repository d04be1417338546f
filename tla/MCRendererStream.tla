-------------------------- MODULE MCRendererStream --------------------------
(* RendererStream in normal write mode, where every wait may time out: of  *)
(* those of all calls, while one operation may be under way, and of two    *)
(* groups of calls, while two may; and in callback mode with stand-by,     *)
(* where the waits of PauseAudioStream and StopAudioStream may.            *)
EXTENDS RendererStream
Writing(waits, operations) ==
    [callback |-> FALSE, timeouts |-> waits, standBy |-> FALSE, pending |-> operations]
MCModes ==
    {Writing(Operations, 1), Writing({"start", "pause", "stop"}, 2),
     Writing({"flush", "drain", "stop"}, 2),
     [callback |-> TRUE, timeouts |-> {"pause", "stop"}, standBy |-> TRUE, pending |-> 1]}
=============================================================================
