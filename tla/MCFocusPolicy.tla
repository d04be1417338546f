--------------------------- MODULE MCFocusPolicy ----------------------------
(* The instance TLC checks: three streams, two of one process, of every    *)
(* type of the table; and, of types that differ in what the table says of  *)
(* them, together with sessions.                                           *)
EXTENDS FocusPolicy
CONSTANTS s1, s2, s3, pid1, pid2
TwoProcesses == [s \in Streams |-> IF s = s3 THEN pid2 ELSE pid1]
NoSources == [s \in Streams |-> {}]
SomeTypes == {"MUSIC", "GAME", "ALARM", "VOICE_COMMUNICATION"}
=============================================================================
