--------------------------- MODULE MCResetButton ---------------------------
(* The button over six and a half seconds in quarter-second steps, read  *)
(* up to half a second late, and the stealth switch behind it.             *)
EXTENDS ButtonSwitch
=============================================================================
