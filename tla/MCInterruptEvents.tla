------------------------- MODULE MCInterruptEvents --------------------------
(* The instance TLC checks: streams of three processes, of types that duck *)
(* one another, pause or stop one another, or are paused when they come.   *)
EXTENDS InterruptEvents
CONSTANTS s1, s2, s3
OwnProcess == [s \in Streams |-> s]
NoSources == [s \in Streams |-> {}]
TypesOfEach ==
  [s \in Streams |-> CASE s = s1 -> {"MUSIC", "VOICE_COMMUNICATION"}
                       [] s = s2 -> {"NAVIGATION", "VOICE_CALL", "MUSIC"}
                       [] s = s3 -> {"MUSIC", "NAVIGATION"}]
SomeTypes == UNION {TypesOfEach[s] : s \in Streams}
=============================================================================
