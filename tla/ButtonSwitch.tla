---------------------------- MODULE ButtonSwitch ----------------------------
(***************************************************************************)
(* The button watcher and what it drives: main hands Watch a callback that *)
(* asks the panel to flip stealth mode when a brief press is reported      *)
(* (cmd/cloudkey/main.go), and ToggleStealth leaves the request in a       *)
(* channel of capacity one without waiting (internal/display/stealth.go).  *)
(* The panel is taken by its specification StealthSwitch, which module     *)
(* Panel implements: it may flip at any time after a request, or never.    *)
(***************************************************************************)
EXTENDS ResetButton, StealthSwitch

VARIABLE cause  \* history: the press that made the pending request

buttonSwitchVars == <<vars, switchVars, cause>>

ButtonSwitchInit == Init /\ SwitchInit /\ cause = NotFired

\* a wrong version: any press that lands in a band flips
OnAnyBand(b) ==
  IF b = "none" THEN UNCHANGED switchVars ELSE Ask
\* a wrong version: the send waits for room in the channel
OnBandWaiting(b) ==
  IF b = "shortpress" THEN ~asked /\ Ask ELSE UNCHANGED switchVars
\* the callback of main, ToggleStealth included: a request that finds another
\* one pending is merged with it
OnBand(b) ==
  IF b = "shortpress" THEN Ask ELSE UNCHANGED switchVars

\* the callback runs on the watcher's goroutine, before the next event is read
Release ==
  /\ ReadRelease
  /\ OnBand(Classify(clock - down))
  /\ cause' = IF asked' /\ ~asked THEN fired' ELSE cause

Ignore == ReadOther /\ UNCHANGED <<switchVars, cause>>
Press == ReadPress /\ UNCHANGED <<switchVars, cause>>
Watcher == ~stopped /\ (Press \/ Release \/ Ignore)

\* the button, the other keys, the clock and the device, while they are watched
Outside ==
  /\ watching /\ ~stopped
  /\ PushDown \/ LetGo \/ Autorepeat \/ OtherKey \/ Pass \/ WatchFails
  /\ UNCHANGED <<switchVars, cause>>

PanelFlips ==
  /\ Flip /\ cause' = NotFired 
  /\ UNCHANGED vars

ProcessEnds ==
  /\ Stop
  /\ UNCHANGED <<vars, cause>>

ButtonSwitchNext == Watcher \/ Outside \/ PanelFlips \/ ProcessEnds

\* The watcher's goroutine runs; nothing is assumed of the panel.
ButtonSwitchSpec ==
  /\ ButtonSwitchInit /\ [][ButtonSwitchNext]_buttonSwitchVars
  /\ WF_buttonSwitchVars(Watcher)

-----------------------------------------------------------------------------
\* Only a brief press flips the panel: the press behind a pending request was
\* seen from its beginning and was shorter than the brief band, save for the
\* watcher's lag.  No longer hold does, nor one of an earlier run.
OnlyTapsFlip ==
  asked => cause.seen /\ cause.real < ShortPressMax + MaxLag

\* The watcher keeps reading the button even if the panel never gets to flip
\* (stealth.go:39: a blocked send would make the device "stop responding to
\* its only physical control").
NeverDeaf ==
  Len(events) = QueueCap ~> Len(events) < QueueCap \/ stopped \/ ~watching
=============================================================================
