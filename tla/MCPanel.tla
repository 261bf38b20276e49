------------------------------ MODULE MCPanel ------------------------------
(* The panel with three screens, the number that is always enabled.        *)
EXTENDS Panel
=============================================================================
