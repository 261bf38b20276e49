------------------------- MODULE ResetButtonProofs -------------------------
(***************************************************************************)
(* What the band table guarantees, for every duration: the reason why the  *)
(* gaps must not be "tidied up"; and that the watcher, late as it may be,  *)
(* never reports one band for another, and main never flips the panel for  *)
(* anything but a brief press.                                             *)
(***************************************************************************)
EXTENDS ButtonSwitch, TLAPS

(* Two durations in different bands are more than half a second apart.  So *)
(* a watcher that is less than half a second late can turn a press into no *)
(* press, or no press into a press, but never one action into another.     *)
THEOREM DeadZonesSeparateBands ==
  ASSUME NEW d \in Int, NEW e \in Int,
         Classify(d) # "none", Classify(e) # "none", Classify(d) # Classify(e)
  PROVE  d - e > 500 \/ e - d > 500
  BY DEF Classify, DebounceMax, ShortPressMax, ShortHoldMin, ShortHoldMax, LongHoldMin,
     LongHoldMax

(* Every duration is in exactly one class; bands are half-open intervals   *)
(* and nothing at or past the six-second ceiling is in one.                *)
THEOREM ClassifyTable ==
  ASSUME NEW d \in Int
  PROVE  /\ Classify(d) \in Bands \cup {"none"}
         /\ Classify(d) = "shortpress" <=> DebounceMax <= d /\ d < ShortPressMax
         /\ Classify(d) = "shorthold" <=> ShortHoldMin <= d /\ d < ShortHoldMax
         /\ Classify(d) = "longhold" <=> LongHoldMin <= d /\ d < LongHoldMax
  BY DEF Classify, Bands, DebounceMax, ShortPressMax, ShortHoldMin, ShortHoldMax,
     LongHoldMin, LongHoldMax

-----------------------------------------------------------------------------
\* The invariant: key events are queued in the order of their times, none for
\* longer than the lag; and before each release in the queue, the press it ends
\* is either the key event before it, or was read within the lag.

Key(e) == IsPress(e) \/ IsRelease(e)
NoKeys(i, j) == \A k \in i .. j : ~Key(events[k])

\* after the first n events, a hold that began at p is under way
Holding(n, p) ==
  \/ \E j \in 1 .. n : IsPress(events[j]) /\ events[j].at = p /\ NoKeys(j + 1, n)
  \/ NoKeys(1, n) /\ held /\ p <= down /\ down <= p + MaxLag
\* after the first n events, a hold is under way that began before the device
\* was opened
Unheld(n) == NoKeys(1, n) /\ ~held

KeyEvents == [kind : {"down", "up", "repeat", "other"}, at : Nat, real : Int, seen : BOOLEAN]
ButtonTypes ==
  /\ clock \in Nat /\ since \in Nat /\ down \in Nat
  /\ finger \in BOOLEAN /\ unseen \in BOOLEAN /\ held \in BOOLEAN /\ watching \in BOOLEAN
  /\ events \in Seq(KeyEvents)

InOrder ==
  /\ \A i \in 1 .. Len(events) : events[i].at <= clock
  /\ \A i, j \in 1 .. Len(events) : i <= j => events[i].at <= events[j].at
InTime == watching => \A i \in 1 .. Len(events) : clock - events[i].at <= MaxLag

PairedAt(i) ==
  IsRelease(events[i]) =>
    IF events[i].seen THEN Holding(i - 1, events[i].at - events[i].real) ELSE Unheld(i - 1)
Paired == \A i \in 1 .. Len(events) : PairedAt(i)
Fingered ==
  finger => IF unseen THEN Unheld(Len(events)) ELSE Holding(Len(events), since)

ButtonInv == ButtonTypes /\ InOrder /\ InTime /\ Paired /\ Fingered /\ NoWrongBand

(* The fields of an unread event.                                          *)
LEMMA EventTypes ==
  ASSUME ButtonTypes
  PROVE  /\ Len(events) \in Nat
         /\ \A i \in 1 .. Len(events) :
              /\ events[i] \in KeyEvents
              /\ events[i].at \in Nat /\ events[i].real \in Int /\ events[i].seen \in BOOLEAN
  <1>1. Len(events) \in Nat /\ \A i \in 1 .. Len(events) : events[i] \in KeyEvents
    BY DEF ButtonTypes
  <1> QED
    BY <1>1 DEF KeyEvents

(* Nothing is held and nothing unread when the daemon starts to watch.     *)
LEMMA ButtonInit == Init => ButtonInv
  <1> USE DEF Init, ButtonInv
  <1>1. Init => ButtonTypes
    <2> SUFFICES ASSUME Init PROVE ButtonTypes
      OBVIOUS
    <2>1. clock \in Nat /\ since \in Nat /\ down \in Nat /\ events \in Seq(KeyEvents)
      OBVIOUS
    <2>2. finger \in BOOLEAN /\ unseen \in BOOLEAN /\ held \in BOOLEAN /\ watching \in BOOLEAN
      BY Zenon
    <2> QED
      BY <2>1, <2>2 DEF ButtonTypes
  <1>2. Init => InOrder /\ InTime /\ Paired
    BY DEF InOrder, InTime, Paired
  <1>3. Init => Fingered /\ NoWrongBand
    BY DEF Fingered, Unheld, NoKeys, NoWrongBand, NotFired
  <1> QED
    BY <1>1, <1>2, <1>3

\* A new event at the end of the queue leaves what is before it as it was.
LEMMA Appended ==
  ASSUME ButtonInv, NEW e \in KeyEvents, e.at = clock, events' = Append(events, e),
         clock' = clock, held' = held, down' = down, watching' = watching
  PROVE  /\ events' \in Seq(KeyEvents) /\ Len(events') = Len(events) + 1
         /\ events'[Len(events) + 1] = e
         /\ \A i \in 1 .. Len(events) : events'[i] = events[i]
         /\ InOrder' /\ InTime'
         /\ \A n \in 0 .. Len(events) : \A p \in Int : Holding(n, p) => Holding(n, p)'
         /\ \A n \in 0 .. Len(events) : Unheld(n) => Unheld(n)'
         /\ \A i \in 1 .. Len(events) : PairedAt(i)'
  <1> USE LagAssumption, ClockAssumption DEF ButtonInv, ButtonTypes
  <1>1. /\ events' \in Seq(KeyEvents) /\ Len(events') = Len(events) + 1
        /\ events'[Len(events) + 1] = e
        /\ \A i \in 1 .. Len(events) : events'[i] = events[i]
    OBVIOUS
  <1>t. /\ \A i \in 1 .. Len(events) : events[i].at \in Nat
        /\ Len(events) \in Nat
    <2>1. \A i \in 1 .. Len(events) : events[i] \in KeyEvents
      OBVIOUS
    <2> QED
      BY <2>1 DEF KeyEvents
  <1>2. InOrder'
    <2>1. ASSUME NEW i \in 1 .. Len(events) + 1 PROVE events'[i].at <= clock
      BY <1>1, <1>t DEF InOrder
    <2>2. ASSUME NEW i \in 1 .. Len(events) + 1, NEW j \in 1 .. Len(events) + 1, i <= j
          PROVE  events'[i].at <= events'[j].at
      BY <2>1, <2>2, <1>1, <1>t DEF InOrder
    <2> QED
      BY <2>1, <2>2, <1>1 DEF InOrder
  <1>3. InTime'
    BY <1>1, <1>t DEF InTime
  <1>4. ASSUME NEW n \in 0 .. Len(events), NEW j \in 1 .. n + 1, NoKeys(j, n)
        PROVE  NoKeys(j, n)'
    BY <1>1, <1>4 DEF NoKeys, Key, IsPress, IsRelease
  <1>5. ASSUME NEW n \in 0 .. Len(events), NEW p \in Int, Holding(n, p)
        PROVE  Holding(n, p)'
    <2>1. CASE NoKeys(1, n) /\ held /\ p <= down /\ down <= p + MaxLag
      BY <2>1, <1>4 DEF Holding
    <2>2. CASE \E j \in 1 .. n : IsPress(events[j]) /\ events[j].at = p /\ NoKeys(j + 1, n)
      <3>1. PICK j \in 1 .. n : IsPress(events[j]) /\ events[j].at = p /\ NoKeys(j + 1, n)
        BY <2>2
      <3>2. IsPress(events'[j]) /\ events'[j].at = p /\ NoKeys(j + 1, n)'
        BY <3>1, <1>1, <1>4 DEF IsPress
      <3> QED
        BY <3>2 DEF Holding, IsPress
    <2> QED
      BY <1>5, <2>1, <2>2 DEF Holding
  <1>6. ASSUME NEW n \in 0 .. Len(events), Unheld(n)
        PROVE  Unheld(n)'
    BY <1>6, <1>4 DEF Unheld
  <1>7. ASSUME NEW i \in 1 .. Len(events)
        PROVE  PairedAt(i)'
    <2>1. PairedAt(i) /\ events'[i] = events[i] /\ events[i] \in KeyEvents
      BY <1>1 DEF Paired
    <2>2. events[i].at - events[i].real \in Int
      BY <2>1 DEF KeyEvents
    <2> QED
      BY <2>1, <2>2, <1>5, <1>6 DEF PairedAt
  <1> QED
    BY <1>1, <1>2, <1>3, <1>5, <1>6, <1>7

\* An event that is not the button's ends no hold.
LEMMA AppendedOther ==
  ASSUME ButtonInv, NEW e \in KeyEvents, e.at = clock, events' = Append(events, e), ~Key(e),
         UNCHANGED <<clock, finger, since, unseen, down, held, watching>>
  PROVE  InOrder' /\ InTime' /\ Paired' /\ Fingered'
  <1> USE DEF ButtonInv, ButtonTypes
  <1>1. PICK n \in Nat : n = Len(events)
    OBVIOUS
  <1>2. /\ Len(events') = n + 1 /\ events'[n + 1] = e
        /\ InOrder' /\ InTime'
        /\ \A p \in Int : Holding(n, p) => Holding(n, p)'
        /\ Unheld(n) => Unheld(n)'
        /\ \A i \in 1 .. n : PairedAt(i)'
    BY <1>1, Appended
  <1>3. Paired'
    BY <1>2 DEF Paired, PairedAt, Key, IsRelease
  <1>4. ASSUME NEW j \in 1 .. n + 1, NoKeys(j, n)'
        PROVE  NoKeys(j, Len(events))'
    BY <1>2, <1>4 DEF NoKeys, Key, IsPress, IsRelease
  <1>5. ASSUME finger, unseen PROVE Unheld(Len(events))'
    <2>1. Unheld(n)'
      BY <1>1, <1>2, <1>5 DEF Fingered
    <2> QED
      BY <2>1, <1>4 DEF Unheld
  <1>6. ASSUME finger, ~unseen PROVE Holding(Len(events), since)'
    <2>1. PICK p \in Int : p = since
      OBVIOUS
    <2>2. Holding(n, p)'
      BY <1>1, <1>2, <1>6, <2>1 DEF Fingered
    <2>3. CASE NoKeys(1, n)' /\ held' /\ p <= down' /\ down' <= p + MaxLag
      BY <2>1, <2>3, <1>4 DEF Holding
    <2>4. CASE \E j \in 1 .. n : IsPress(events'[j]) /\ events'[j].at = p /\ NoKeys(j + 1, n)'
      <3>1. PICK j \in 1 .. n : IsPress(events'[j]) /\ events'[j].at = p /\ NoKeys(j + 1, n)'
        BY <2>4
      <3>2. j \in 1 .. Len(events') /\ NoKeys(j + 1, Len(events))' /\ p = since'
        BY <3>1, <2>1, <1>2, <1>4
      <3> QED
        BY <3>1, <3>2 DEF Holding
    <2> QED
      BY <2>2, <2>3, <2>4 DEF Holding
  <1> QED
    BY <1>2, <1>3, <1>5, <1>6 DEF Fingered

\* Reading the first event moves the others one place forward.
LEMMA Removed ==
  ASSUME ButtonInv, events # <<>>, events' = Tail(events), clock' = clock, watching' = watching
  PROVE  /\ events' \in Seq(KeyEvents) /\ Len(events') = Len(events) - 1 /\ Len(events) >= 1
         /\ \A i \in 1 .. Len(events) - 1 : events'[i] = events[i + 1]
         /\ InOrder' /\ InTime'
         /\ \A i \in 1 .. Len(events) : \A j \in 1 .. i :
              NoKeys(j + 1, i) => NoKeys(j, i - 1)'
  <1> USE DEF ButtonInv, ButtonTypes
  <1>1. /\ events' \in Seq(KeyEvents) /\ Len(events') = Len(events) - 1 /\ Len(events) >= 1
        /\ \A i \in 1 .. Len(events) - 1 : events'[i] = events[i + 1]
    OBVIOUS
  <1>2. InOrder'
    <2>1. PICK n \in Nat : n = Len(events)
      OBVIOUS
    <2>2. \A i, j \in 1 .. n : i <= j => events[i].at <= events[j].at
      BY <2>1 DEF InOrder
    <2>3. ASSUME NEW i \in 1 .. n - 1, NEW j \in 1 .. n - 1, i <= j
          PROVE  events'[i].at <= events'[j].at
      <3>1. i + 1 \in 1 .. n /\ j + 1 \in 1 .. n /\ i + 1 <= j + 1
        BY <2>1, <2>3
      <3>2. events[i + 1].at <= events[j + 1].at
        BY <2>2, <3>1
      <3> QED
        BY <1>1, <2>1, <3>2
    <2> QED
      BY <1>1, <2>1, <2>3 DEF InOrder
  <1>3. InTime'
    BY <1>1 DEF InTime
  <1>4. ASSUME NEW i \in 1 .. Len(events), NEW j \in 1 .. i, NoKeys(j + 1, i)
        PROVE  NoKeys(j, i - 1)'
    BY <1>1, <1>4 DEF NoKeys, Key, IsPress, IsRelease
  <1> QED
    BY <1>1, <1>2, <1>3, <1>4

\* What holds after n events holds, once the first was read, after n - 1.
LEMMA Forward ==
  ASSUME ButtonInv, events # <<>>, events' = Tail(events),
         UNCHANGED <<clock, finger, since, unseen, watching>>,
         \A n \in 1 .. Len(events) : \A p \in Int : Holding(n, p) => Holding(n - 1, p)',
         \A n \in 1 .. Len(events) : Unheld(n) => Unheld(n - 1)'
  PROVE  Paired' /\ Fingered'
  <1> USE DEF ButtonInv, ButtonTypes
  <1>1. /\ events' \in Seq(KeyEvents) /\ Len(events') = Len(events) - 1 /\ Len(events) >= 1
        /\ \A i \in 1 .. Len(events) - 1 : events'[i] = events[i + 1]
    BY Removed
  <1>2. ASSUME NEW i \in 1 .. Len(events')
        PROVE  PairedAt(i)'
    <2>1. PairedAt(i + 1) /\ events'[i] = events[i + 1] /\ events[i + 1] \in KeyEvents
      BY <1>1 DEF Paired
    <2>2. events[i + 1].at - events[i + 1].real \in Int
      BY <2>1 DEF KeyEvents
    <2>3. i \in 1 .. Len(events) /\ i + 1 - 1 = i
      BY <1>1
    <2> QED
      BY <2>1, <2>2, <2>3 DEF PairedAt
  <1>3. Fingered'
    <2>1. Len(events) \in 1 .. Len(events) /\ Len(events') = Len(events) - 1
      BY <1>1
    <2> QED
      BY <2>1 DEF Fingered
  <1> QED
    BY <1>2, <1>3 DEF Paired

-----------------------------------------------------------------------------
\* What an action does to the types and to the report.
LEMMA ButtonKeepsTypes ==
  ASSUME ButtonTypes, [Next]_vars
  PROVE  ButtonTypes'
  <1> USE DEF ButtonTypes
  <1>1. /\ clock' \in Nat /\ since' \in Nat /\ down' \in Nat
    <2>1. CASE PushDown
      BY <2>1 DEF PushDown
    <2>2. CASE LetGo
      BY <2>2 DEF LetGo
    <2>3. CASE Pass
      BY <2>3, ClockAssumption DEF Pass
    <2>4. CASE ReadPress
      BY <2>4 DEF ReadPress
    <2>5. CASE Autorepeat \/ OtherKey \/ ReadRelease \/ ReadOther \/ WatchFails \/ UNCHANGED vars
      BY <2>5 DEF Autorepeat, OtherKey, ReadRelease, ReadOther, WatchFails, vars
    <2> QED
      BY <2>1, <2>2, <2>3, <2>4, <2>5 DEF Next
  <1>2. finger' \in BOOLEAN /\ unseen' \in BOOLEAN /\ held' \in BOOLEAN /\ watching' \in BOOLEAN
    BY Zenon DEF Next, vars, PushDown, LetGo, Autorepeat, OtherKey, Pass, ReadPress,
       ReadRelease, ReadOther, WatchFails
  <1>3. events' \in Seq(KeyEvents)
    <2>1. ASSUME NEW e \in KeyEvents, Emit(e) PROVE events' \in Seq(KeyEvents)
      BY <2>1 DEF Emit
    <2>2. CASE PushDown \/ Autorepeat \/ OtherKey
      <3>1. /\ Event("down", 0, TRUE) \in KeyEvents
            /\ Event("repeat", 0, TRUE) \in KeyEvents
            /\ Event("other", 0, TRUE) \in KeyEvents
        BY DEF Event, KeyEvents
      <3> QED
        BY <2>1, <2>2, <3>1 DEF PushDown, Autorepeat, OtherKey
    <2>3. CASE LetGo
      <3>1. Event("up", clock - since, ~unseen) \in KeyEvents
        BY DEF Event, KeyEvents
      <3> QED
        BY <2>1, <2>3, <3>1 DEF LetGo
    <2>4. CASE ReadPress \/ ReadRelease \/ ReadOther
      <3>1. events # <<>> /\ events' = Tail(events)
        BY <2>4 DEF ReadPress, ReadRelease, ReadOther
      <3> QED
        BY <3>1
    <2>5. CASE Pass \/ WatchFails \/ UNCHANGED vars
      BY <2>5 DEF Pass, WatchFails, vars
    <2> QED
      BY <2>2, <2>3, <2>4, <2>5 DEF Next
  <1> QED
    BY <1>1, <1>2, <1>3

(* What the hardware emits keeps the queue in order and in pairs.          *)
LEMMA Hardware ==
  ASSUME ButtonInv, PushDown \/ LetGo \/ Autorepeat \/ OtherKey
  PROVE  InOrder' /\ InTime' /\ Paired' /\ Fingered'
  <1> USE DEF ButtonInv, ButtonTypes
  <1>1. CASE Autorepeat \/ OtherKey
    <2>1. PICK k \in {"repeat", "other"} : Emit(Event(k, 0, TRUE))
      BY <1>1 DEF Autorepeat, OtherKey
    <2>2. Event(k, 0, TRUE) \in KeyEvents /\ Event(k, 0, TRUE).at = clock /\ ~Key(Event(k, 0, TRUE))
      BY DEF Event, KeyEvents, Key, IsPress, IsRelease
    <2> QED
      BY <1>1, <2>1, <2>2, AppendedOther DEF Autorepeat, OtherKey, Emit
  <1>2. CASE PushDown
    <2> DEFINE e == Event("down", 0, TRUE)
    <2>1. e \in KeyEvents /\ e.at = clock /\ IsPress(e) /\ ~IsRelease(e)
      BY DEF Event, KeyEvents, IsPress, IsRelease
    <2> HIDE DEF e
    <2>2. /\ Len(events') = Len(events) + 1 /\ events'[Len(events) + 1] = e
          /\ InOrder' /\ InTime' /\ \A i \in 1 .. Len(events) : PairedAt(i)'
      BY <1>2, <2>1, Appended DEF PushDown, Emit, e
    <2>3. Paired'
      BY <2>1, <2>2 DEF Paired, PairedAt
    <2>4. Fingered'
      <3>1. NoKeys(Len(events) + 1, Len(events))'
        BY <2>2 DEF NoKeys
      <3>2. Holding(Len(events), since)'
        BY <1>2, <2>1, <2>2, <3>1 DEF Holding, NoKeys, PushDown
      <3> QED
        BY <1>2, <3>2 DEF Fingered, PushDown
    <2> QED
      BY <2>2, <2>3, <2>4
  <1>3. CASE LetGo
    <2> DEFINE e == Event("up", clock - since, ~unseen)
    <2>1. /\ e \in KeyEvents /\ e.at = clock /\ e.at - e.real = since /\ e.seen = ~unseen
      BY DEF Event, KeyEvents
    <2> HIDE DEF e
    <2>2. /\ Len(events') = Len(events) + 1 /\ events'[Len(events) + 1] = e
          /\ InOrder' /\ InTime' /\ \A i \in 1 .. Len(events) : PairedAt(i)'
          /\ \A n \in 0 .. Len(events) : \A p \in Int : Holding(n, p) => Holding(n, p)'
          /\ \A n \in 0 .. Len(events) : Unheld(n) => Unheld(n)'
      BY <1>3, <2>1, Appended DEF LetGo, Emit, e
    <2>3. ASSUME NEW i \in 1 .. Len(events'), i = Len(events) + 1
          PROVE  PairedAt(i)'
      <3>1. PICK n \in 0 .. Len(events) : n = Len(events) /\ n = i - 1
        BY <2>3
      <3>2. events'[i] = e
        BY <2>2, <2>3
      <3>3. CASE unseen
        <4>1. Unheld(n)' /\ ~events'[i].seen
          BY <1>3, <2>1, <2>2, <3>1, <3>2, <3>3 DEF Fingered, LetGo
        <4> QED
          BY <3>1, <4>1 DEF PairedAt
      <3>4. CASE ~unseen
        <4>1. PICK p \in Int : p = since
          OBVIOUS
        <4>2. Holding(n, p)'
          BY <1>3, <2>2, <3>1, <3>4, <4>1 DEF Fingered, LetGo
        <4>3. events'[i].seen /\ events'[i].at - events'[i].real = p
          BY <2>1, <3>2, <3>4, <4>1
        <4> QED
          BY <3>1, <4>2, <4>3 DEF PairedAt
      <3> QED
        BY <3>3, <3>4
    <2>4. Paired'
      BY <2>2, <2>3 DEF Paired
    <2>5. Fingered'
      BY <1>3 DEF Fingered, LetGo
    <2> QED
      BY <2>2, <2>4, <2>5
  <1> QED
    BY <1>1, <1>2, <1>3

\* Reading keeps the holds that are open further on.
LEMMA Reading ==
  ASSUME ButtonInv, ReadPress \/ ReadRelease \/ ReadOther
  PROVE  InOrder' /\ InTime' /\ Paired' /\ Fingered'
  <1> USE DEF ButtonInv, ButtonTypes
  <1>1. /\ events # <<>> /\ events' = Tail(events) /\ watching /\ Head(events) = events[1]
        /\ UNCHANGED <<clock, finger, since, unseen, watching>>
    BY DEF ReadPress, ReadRelease, ReadOther
  <1>2. /\ Len(events') = Len(events) - 1 /\ Len(events) >= 1
        /\ \A i \in 1 .. Len(events) - 1 : events'[i] = events[i + 1]
        /\ InOrder' /\ InTime'
        /\ \A i \in 1 .. Len(events) : \A j \in 1 .. i :
             NoKeys(j + 1, i) => NoKeys(j, i - 1)'
    BY <1>1, Removed
  <1>3. events[1] \in KeyEvents /\ events[1].at \in Nat
    BY <1>2, EventTypes
  <1>4. ASSUME NEW i \in 1 .. Len(events), NEW p \in Int, Holding(i, p)
        PROVE  Holding(i - 1, p)'
    <2>1. CASE \E j \in 2 .. i : IsPress(events[j]) /\ events[j].at = p /\ NoKeys(j + 1, i)
      <3>1. PICK j \in 2 .. i : IsPress(events[j]) /\ events[j].at = p /\ NoKeys(j + 1, i)
        BY <2>1
      <3>2. j - 1 \in 1 .. i - 1 /\ events'[j - 1] = events[j] /\ NoKeys(j, i - 1)'
        BY <3>1, <1>2
      <3> QED
        BY <3>1, <3>2 DEF Holding, IsPress
    <2>2. CASE IsPress(events[1]) /\ events[1].at = p /\ NoKeys(2, i)
      <3>1. ReadPress
        BY <2>2, <1>1 DEF ReadRelease, ReadOther, IsPress, IsRelease
      <3>2. NoKeys(1, i - 1)'
        BY <2>2, <1>2
      <3>3. held' /\ p <= down' /\ down' <= p + MaxLag
        BY <3>1, <2>2, <1>1, <1>2, <1>3, ClockAssumption DEF ReadPress, InTime, InOrder
      <3> QED
        BY <3>2, <3>3 DEF Holding
    <2>3. CASE NoKeys(1, i) /\ held /\ p <= down /\ down <= p + MaxLag
      <3>1. ~Key(events[1])
        BY <2>3 DEF NoKeys
      <3>2. held' /\ down' = down
        BY <2>3, <3>1, <1>1 DEF ReadPress, ReadRelease, ReadOther, Key
      <3>3. NoKeys(1, i - 1)'
        BY <2>3, <1>2 DEF NoKeys
      <3> QED
        BY <2>3, <3>2, <3>3, Zenon DEF Holding
    <2>4. \A j \in 1 .. i : j \in 2 .. i \/ (j = 1 /\ j + 1 = 2)
      OBVIOUS
    <2> QED
      BY <1>4, <2>1, <2>2, <2>3, <2>4, Zenon DEF Holding
  <1>5. ASSUME NEW i \in 1 .. Len(events), Unheld(i)
        PROVE  Unheld(i - 1)'
    <2>1. NoKeys(1, i) /\ ~held /\ ~Key(events[1])
      BY <1>5 DEF Unheld, NoKeys
    <2>2. ~held'
      BY <2>1, <1>1 DEF ReadPress, ReadRelease, ReadOther, Key
    <2>3. NoKeys(1, i - 1)'
      BY <2>1, <1>2 DEF NoKeys
    <2> QED
      BY <2>2, <2>3 DEF Unheld
  <1> QED
    BY <1>1, <1>2, <1>4, <1>5, Forward

\* The hold a release ends was really as long as it is measured, give or take
\* the lag.
LEMMA Measured ==
  ASSUME ButtonInv, ReadRelease
  PROVE  LET e == Head(events)
         IN /\ e \in KeyEvents /\ e.seen
            /\ clock - down <= e.real + MaxLag /\ e.real <= clock - down + MaxLag
  <1> USE DEF ButtonInv, ButtonTypes
  <1>1. /\ events # <<>> /\ Len(events) >= 1 /\ Head(events) = events[1] /\ watching /\ held
        /\ IsRelease(events[1]) /\ PairedAt(1)
    BY DEF ReadRelease, Paired
  <1>2. events[1] \in KeyEvents /\ events[1].at \in Nat /\ events[1].real \in Int
    BY <1>1, EventTypes
  <1>3. events[1].seen /\ Holding(0, events[1].at - events[1].real)
    BY <1>1 DEF PairedAt, Unheld
  <1>4. clock - events[1].at <= MaxLag /\ events[1].at <= clock
    BY <1>1 DEF InTime, InOrder
  <1>5. LET p == events[1].at - events[1].real IN p <= down /\ down <= p + MaxLag
    BY <1>3 DEF Holding
  <1> QED
    BY <1>1, <1>2, <1>3, <1>4, <1>5, ClockAssumption

(* A release is reported in its band, or the hold was in a dead zone.      *)
LEMMA ReleaseReportsRightly ==
  ASSUME ButtonInv, ReadRelease
  PROVE  NoWrongBand'
  <1> DEFINE d == clock - down
             r == Head(events).real
  <1>1. /\ d \in Int /\ r \in Int /\ Head(events).seen
        /\ d <= r + MaxLag /\ r <= d + MaxLag /\ MaxLag \in Nat /\ MaxLag <= 500
    BY Measured, ClockAssumption, LagAssumption
    DEF ButtonInv, ButtonTypes, KeyEvents, ShortHoldMin, ShortPressMax
  <1>2. Classify(d) # "none" => Classify(r) \in {Classify(d), "none"}
    <2> HIDE DEF d, r
    <2> QED
      BY <1>1, DeadZonesSeparateBands
  <1> QED
    BY <1>1, <1>2 DEF ReadRelease, NoWrongBand, NotFired

(* Every step keeps the whole invariant.                                   *)
LEMMA ButtonStep == ButtonInv /\ [Next]_vars => ButtonInv'
  <1> SUFFICES ASSUME ButtonInv, [Next]_vars PROVE ButtonInv'
    OBVIOUS
  <1>1. ButtonTypes'
    BY ButtonKeepsTypes DEF ButtonInv
  <1>2. InOrder' /\ InTime' /\ Paired' /\ Fingered'
    <2>1. CASE Pass
      <3>1. InOrder' /\ InTime'
        <4>1. /\ Len(events) \in Nat /\ \A i \in 1 .. Len(events) : events[i].at \in Nat
              /\ Len(events) >= 1 => events[1].at \in Nat /\ Head(events) = events[1]
          BY EventTypes DEF ButtonInv, ButtonTypes
        <4>2. clock' = clock + Tick /\ events' = events /\ watching' = watching /\ Tick \in Nat
          BY <2>1, ClockAssumption DEF Pass
        <4>3. watching /\ Len(events) >= 1 => clock' - events[1].at <= MaxLag
          BY <2>1, <4>1, <4>2 DEF Pass, ButtonInv, ButtonTypes
        <4> QED
          BY <4>1, <4>2, <4>3, ClockAssumption DEF ButtonInv, ButtonTypes, InOrder, InTime
      <3>2. Paired' /\ Fingered'
        BY <2>1 DEF Pass, ButtonInv, Paired, PairedAt, Fingered, Holding, Unheld, NoKeys
      <3> QED
        BY <3>1, <3>2
    <2>2. CASE WatchFails \/ UNCHANGED vars
      BY <2>2 DEF WatchFails, vars, ButtonInv, InOrder, InTime, Paired, PairedAt, Fingered,
         Holding, Unheld, NoKeys
    <2> QED
      BY <2>1, <2>2, Hardware, Reading DEF Next
  <1>3. NoWrongBand'
    <2>1. CASE ReadRelease
      BY <2>1, ReleaseReportsRightly
    <2>2. CASE UNCHANGED vars
      BY <2>2 DEF vars, ButtonInv, NoWrongBand
    <2>3. CASE Next /\ ~ReadRelease
      <3>1. fired' = NotFired \/ fired' = fired
        BY <2>3 DEF Next, PushDown, LetGo, Autorepeat, OtherKey, Pass, ReadPress, ReadOther,
           WatchFails
      <3> QED
        BY <3>1 DEF ButtonInv, NoWrongBand, NotFired
    <2> QED
      BY <2>1, <2>2, <2>3
  <1> QED
    BY <1>1, <1>2, <1>3 DEF ButtonInv

\* Whatever the lag below the narrowest gap and whatever is queued, no press is
\* reported as another band's, nor one that began before the device was opened.
THEOREM ButtonNoWrongBand == Spec => []NoWrongBand
  <1>1. Init => ButtonInv
    BY ButtonInit
  <1>2. ButtonInv /\ [Next]_vars => ButtonInv'
    BY ButtonStep
  <1>3. ButtonInv => NoWrongBand
    BY DEF ButtonInv
  <1> QED
    BY <1>1, <1>2, <1>3, PTL DEF Spec

-----------------------------------------------------------------------------
\* The button and the switch: only a brief press is behind a request.
THEOREM ButtonSwitchOnlyTapsFlip == ButtonSwitchSpec => []OnlyTapsFlip
  <1> DEFINE Inv == ButtonInv /\ OnlyTapsFlip
  <1>1. ButtonSwitchInit => Inv
    BY ButtonInit DEF ButtonSwitchInit, SwitchInit, OnlyTapsFlip
  <1>2. Inv /\ [ButtonSwitchNext]_buttonSwitchVars => Inv'
    <2> SUFFICES ASSUME Inv, [ButtonSwitchNext]_buttonSwitchVars PROVE Inv'
      OBVIOUS
    <2>1. [Next]_vars
      BY DEF ButtonSwitchNext, buttonSwitchVars, Watcher, Press, Release, Ignore, Outside,
         PanelFlips, ProcessEnds, Next
    <2>2. OnlyTapsFlip'
      <3>1. CASE Release
        <4>1. CASE asked
          BY <3>1, <4>1 DEF Release, OnBand, Ask, OnlyTapsFlip, switchVars
        <4>2. CASE ~asked /\ Classify(clock - down) # "shortpress"
          BY <3>1, <4>2 DEF Release, OnBand, OnlyTapsFlip, switchVars
        <4>3. CASE ~asked /\ Classify(clock - down) = "shortpress"
          <5>1. cause' = fired' /\ fired'.seen = Head(events).seen
                /\ fired'.real = Head(events).real
            BY <3>1, <4>3 DEF Release, OnBand, Ask, ReadRelease
          <5>2. Head(events).seen /\ Head(events).real <= clock - down + MaxLag
                /\ Head(events).real \in Int /\ clock - down \in Int
            BY <3>1, Measured DEF Release, KeyEvents, ButtonInv, ButtonTypes
          <5>3. clock - down < ShortPressMax
            BY <4>3, <5>2, ClassifyTable
          <5> QED
            BY <5>1, <5>2, <5>3, ClockAssumption DEF OnlyTapsFlip, ShortPressMax
        <4> QED
          BY <4>1, <4>2, <4>3
      <3>2. CASE Press \/ Ignore \/ Outside \/ ProcessEnds \/ UNCHANGED buttonSwitchVars
        BY <3>2 DEF Press, Ignore, Outside, ProcessEnds, Stop, buttonSwitchVars, switchVars,
           OnlyTapsFlip
      <3>3. CASE PanelFlips
        BY <3>3 DEF PanelFlips, Flip, OnlyTapsFlip
      <3> QED
        BY <3>1, <3>2, <3>3 DEF ButtonSwitchNext, Watcher
    <2> QED
      BY <2>1, <2>2, ButtonStep
  <1> QED
    BY <1>1, <1>2, PTL DEF ButtonSwitchSpec
=============================================================================
