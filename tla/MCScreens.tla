----------------------------- MODULE MCScreens -----------------------------
(* Two screens that between them treat a failed lookup in every way the    *)
(* code knows, the one that New does not publish and the one loop without  *)
(* a sleep of its own.                                                     *)
EXTENDS Screens
=============================================================================
