----------------------------- MODULE MCFutexTool -----------------------------
(* FutexTool with a ring of two spans and a spin limit of three: a wait    *)
(* goes round more than once and gives up within reach.                    *)
EXTENDS FutexTool
=============================================================================
