-------------------------- MODULE MCRendererLocks --------------------------
(* RendererLocks as it is: its threads and programs are finite. *)
EXTENDS RendererLocks
=============================================================================
