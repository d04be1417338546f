---------------------------- MODULE MCSharedRing ----------------------------
(* SharedRing with four spans of two frames, as                            *)
(* RendererInServer::ConfigServerBuffer makes it ("4 frames"), and enough  *)
(* frames for the write position to go round more than twice.              *)
EXTENDS SharedRing
=============================================================================
