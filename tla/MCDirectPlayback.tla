-------------------------- MODULE MCDirectPlayback --------------------------
(* The instance TLC checks.                                                *)
EXTENDS DirectPlayback
=============================================================================
