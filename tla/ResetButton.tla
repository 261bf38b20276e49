---------------------------- MODULE ResetButton ----------------------------
(***************************************************************************)
(* The reset button (pkg/resetbutton): watchReader turns the kernel's key  *)
(* events into completed presses and classifies each by how long it was    *)
(* held.  The duration is taken from the clock when an event is READ, not  *)
(* from the event's own time stamp, so a watcher that is scheduled late    *)
(* measures a hold wrongly by up to its lag; the dead zones between the    *)
(* bands are what keeps that from turning one action into another.         *)
(*                                                                         *)
(* Times are in milliseconds.                                              *)
(***************************************************************************)
EXTENDS Integers, Sequences

CONSTANTS
  Tick,      \* bound: the clock advances in steps of this
  MaxClock,  \* bound: end of the observed time
  MaxLag,    \* how late the watcher may read an event
  QueueCap   \* bound: unread events

ASSUME ClockAssumption ==
  /\ Tick \in Nat \ {0} /\ MaxClock \in Nat /\ QueueCap \in Nat \ {0}
  /\ MaxLag \in Nat

DebounceMax == 100
ShortPressMax == 500
ShortHoldMin == 1000
ShortHoldMax == 2500
LongHoldMin == 4000
LongHoldMax == 6000

\* the watcher is never later than the narrowest gap between two bands is wide
ASSUME LagAssumption == MaxLag <= ShortHoldMin - ShortPressMax

Bands == {"shortpress", "shorthold", "longhold"}

ClassifyTidied(d) ==     \* a wrong version: the gaps between the bands are closed
  IF d < DebounceMax THEN "none"
  ELSE IF d < ShortPressMax THEN "shortpress"
  ELSE IF d < ShortHoldMax THEN "shorthold"
  ELSE IF d < LongHoldMax THEN "longhold" ELSE "none"

Classify(d) ==
  IF d < DebounceMax THEN "none"
  ELSE IF d < ShortPressMax THEN "shortpress"
  ELSE IF d < ShortHoldMin THEN "none"
  ELSE IF d < ShortHoldMax THEN "shorthold"
  ELSE IF d < LongHoldMin THEN "none"
  ELSE IF d < LongHoldMax THEN "longhold" ELSE "none"

VARIABLES
  clock,     \* now()
  finger,    \* the button is physically down
  since,     \* history: when it was pressed
  unseen,    \* history: it was already down when the device was opened
  events,    \* unread key events of the device, each with its time
  down,      \* watchReader's `down`
  held,      \* watchReader's `held`
  watching,  \* watchReader runs
  fired      \* history: the report of the last step, with the true hold

vars == <<clock, finger, since, unseen, events, down, held, watching, fired>>

NotFired == [band |-> "none", real |-> 0, seen |-> TRUE]

Init ==
  /\ clock = 0
  /\ finger \in BOOLEAN
  /\ since = 0
  /\ unseen = finger
  /\ events = <<>>
  /\ down = 0
  /\ held = FALSE
  /\ watching = TRUE
  /\ fired = NotFired

-----------------------------------------------------------------------------
(* The hardware: key transitions, autorepeat, keys of the same device that *)
(* are not the reset button.                                               *)
Event(kind, real, seen) ==
  [kind |-> kind, at |-> clock, real |-> real, seen |-> seen]

Emit(e) == Len(events) < QueueCap /\ events' = Append(events, e)

PushDown ==
  /\ ~finger
  /\ Emit(Event("down", 0, TRUE))
  /\ finger' = TRUE /\ since' = clock /\ unseen' = FALSE
  /\ UNCHANGED <<clock, down, held, watching>>
  /\ fired' = NotFired

LetGo ==
  /\ finger
  /\ Emit(Event("up", clock - since, ~unseen))
  /\ finger' = FALSE /\ since' = 0 /\ unseen' = FALSE
  /\ UNCHANGED <<clock, down, held, watching>>
  /\ fired' = NotFired

Autorepeat ==
  /\ finger
  /\ Emit(Event("repeat", 0, TRUE))
  /\ UNCHANGED <<clock, finger, since, unseen, down, held, watching>>
  /\ fired' = NotFired

OtherKey ==
  /\ Emit(Event("other", 0, TRUE))
  /\ UNCHANGED <<clock, finger, since, unseen, down, held, watching>>
  /\ fired' = NotFired

(* Time passes, but a watcher leaves no event unread for longer than MaxLag. *)
Pass ==
  /\ clock + Tick <= MaxClock
  /\ watching /\ events # <<>> => clock + Tick - Head(events).at <= MaxLag
  /\ clock' = clock + Tick
  /\ UNCHANGED <<finger, since, unseen, events, down, held, watching>>
  /\ fired' = NotFired

-----------------------------------------------------------------------------
(* watchReader, one event per step.                                        *)
IsPress(e) == e.kind = "down"
IsRelease(e) == e.kind = "up"

ReadPress ==
  /\ watching /\ events # <<>> /\ IsPress(Head(events))
  /\ down' = clock /\ held' = TRUE
  /\ events' = Tail(events)
  /\ UNCHANGED <<clock, finger, since, unseen, watching>>
  /\ fired' = NotFired

ReadRelease ==
  /\ watching /\ events # <<>> /\ IsRelease(Head(events)) /\ held
  /\ held' = FALSE
  /\ fired' = IF Classify(clock - down) = "none" THEN NotFired
              ELSE [band |-> Classify(clock - down), real |-> Head(events).real,
                    seen |-> Head(events).seen]
  /\ events' = Tail(events)
  /\ UNCHANGED <<clock, finger, since, unseen, down, watching>>

ReadOther ==
  /\ watching /\ events # <<>> /\ ~IsPress(Head(events))
  /\ ~(IsRelease(Head(events)) /\ held)
  /\ events' = Tail(events)
  /\ UNCHANGED <<clock, finger, since, unseen, down, held, watching>>
  /\ fired' = NotFired

(* A read fails: the device is gone, and the watcher with it.               *)
WatchFails ==
  /\ watching /\ watching' = FALSE
  /\ UNCHANGED <<clock, finger, since, unseen, events, down, held>>
  /\ fired' = NotFired

Next == \/ PushDown \/ LetGo \/ Autorepeat \/ OtherKey \/ Pass
        \/ ReadPress \/ ReadRelease \/ ReadOther \/ WatchFails

Spec == Init /\ [][Next]_vars

-----------------------------------------------------------------------------
(* A press never triggers another band's action: what is reported is the   *)
(* band the button was really held for, or the hold was in a dead zone; and *)
(* a hold that began before the device was opened reports nothing, there   *)
(* being no key-down to measure it from.                                   *)
NoWrongBand ==
  fired.band # "none" => /\ Classify(fired.real) \in {fired.band, "none"}
                         /\ fired.seen
=============================================================================
