--------------------------- MODULE StealthSwitch ---------------------------
(***************************************************************************)
(* What the reset button promises about stealth mode, with the panel       *)
(* abstracted away: the panel is in stealth or it is not, a press asks for *)
(* a flip, asking again before the flip begins changes nothing, and a flip *)
(* happens only when it was asked for.                                     *)
(***************************************************************************)
VARIABLES
  stealth,   \* the mode the panel is in, or is on its way to
  asked,     \* a press is waiting for its flip
  stopped    \* the process has ended

switchVars == <<stealth, asked, stopped>>

SwitchInit == stealth \in BOOLEAN /\ asked = FALSE /\ stopped = FALSE

Ask == ~stopped /\ asked' = TRUE /\ UNCHANGED <<stealth, stopped>>

Flip ==
  /\ ~stopped /\ asked
  /\ stealth' = ~stealth
  /\ asked' = FALSE
  /\ UNCHANGED stopped

Stop == ~stopped /\ stopped' = TRUE /\ UNCHANGED <<stealth, asked>>

SwitchNext == Ask \/ Flip \/ Stop

SwitchSpec == SwitchInit /\ [][SwitchNext]_switchVars

(* A flip that was asked for happens, unless the process ends first.       *)
SwitchFairness == WF_switchVars(Flip)
=============================================================================
