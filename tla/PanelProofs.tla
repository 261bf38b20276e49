---------------------------- MODULE PanelProofs ----------------------------
(***************************************************************************)
(* Proofs about the front panel, for any number of screens.                *)
(*                                                                         *)
(* What the panel shows at a hold or parked depends on how the display     *)
(* goroutine got there, so the inductive invariant follows it location by  *)
(* location: which LED writes it may still have to do (Shape), what        *)
(* stealthOn is (Mode), what the framebuffer shows (Frame) and, until      *)
(* Shutdown writes LEDs of its own, what the LEDs show or are about to     *)
(* show (Lamps).                                                           *)
(***************************************************************************)
EXTENDS Panel, TLAPS

Last == <<Write("white", FALSE)>>
DarkWrites == {LedsDark, Last, <<>>}
BootWrites == {LedsBooting, <<Write("white", TRUE)>>, <<>>}
RunWrites == {LedsRunning, Last, <<>>}

Shape ==
  /\ pc \in Locations \ {"clear", "build", "loop", "fadeIn"} => todo["display"] = <<>>
  /\ pc \in {"clear", "build", "loop"} /\ stealthOn => todo["display"] \in DarkWrites
  /\ pc = "clear" /\ ~stealthOn => todo["display"] \in BootWrites
  /\ pc = "build" /\ ~stealthOn => todo["display"] \in RunWrites
  /\ pc = "fadeIn" => todo["display"] \in RunWrites
  /\ pc = "loop" /\ ~stealthOn => todo["display"] = <<>>
  /\ todo["signal"] \in BootWrites

Mode ==
  /\ pc = "new" => ~stealthOn
  /\ pc \in {"logo", "animate", "offHold", "fadeIn", "onHold"} \/ Engaging => ~stealthOn
  /\ pc \in {"parked", "leave"} => stealthOn

Frame ==
  /\ pc \in {"parked", "leave", "fadeIn", "offHold", "engage"} => fb = Black
  /\ pc \in {"build", "loop"} /\ stealthOn => fb = Black

Settling(w, b) ==      \* the LEDs after the display goroutine's pending writes w
  \/ todo["display"] = w
  \/ todo["display"] = Last /\ leds["blue"] = b
  \/ todo["display"] = <<>> /\ LedsAre(b, FALSE)

Lamps ==
  sd # "exit" =>
    /\ todo["signal"] = <<>>
    /\ pc \in {"clear", "build", "loop"} /\ stealthOn => Settling(LedsDark, FALSE)
    /\ pc = "build" /\ ~stealthOn => Settling(LedsRunning, TRUE)
    /\ pc = "fadeIn" => Settling(LedsRunning, TRUE)
    /\ pc = "loop" /\ ~stealthOn => LedsAre(TRUE, FALSE)
    /\ pc \in {"offHold", "onHold"} \/ Engaging => LedsAre(TRUE, FALSE)
    /\ pc \in {"parked", "leave"} => LedsAre(FALSE, FALSE)

PanelInv == TypeOK /\ Shape /\ Mode /\ Frame /\ Lamps

Writes == [led : {"blue", "white"}, on : BOOLEAN]

(* What the LED writes in progress leave to do.                            *)
LEMMA WritesFacts ==
  /\ LedsDark # <<>> /\ Head(LedsDark) = Write("blue", FALSE) /\ Tail(LedsDark) = Last
  /\ LedsRunning # <<>> /\ Head(LedsRunning) = Write("blue", TRUE) /\ Tail(LedsRunning) = Last
  /\ LedsBooting # <<>> /\ Head(LedsBooting) = Write("blue", FALSE)
  /\ Tail(LedsBooting) = <<Write("white", TRUE)>>
  /\ <<Write("white", TRUE)>> # <<>> /\ Tail(<<Write("white", TRUE)>>) = <<>>
  /\ Head(<<Write("white", TRUE)>>) = Write("white", TRUE)
  /\ Last # <<>> /\ Head(Last) = Write("white", FALSE) /\ Tail(Last) = <<>>
  /\ LedsDark # Last /\ LedsRunning # Last
  <1>1. \A x, y : /\ <<x, y>> # <<>> /\ Head(<<x, y>>) = x /\ Tail(<<x, y>>) = <<y>>
                  /\ <<x>> # <<>> /\ Head(<<x>>) = x /\ Tail(<<x>>) = <<>>
                  /\ <<x, y>> # <<y>>
    OBVIOUS
  <1> QED
    BY <1>1 DEF LedsDark, LedsRunning, LedsBooting, Last

(* One LED write is a record of the right type.                            *)
LEMMA WriteFacts ==
  \A l \in {"blue", "white"}, b \in BOOLEAN :
    Write(l, b) \in Writes /\ Write(l, b).led = l /\ Write(l, b).on = b
  BY DEF Write, Writes

(* Every list of pending writes is a sequence of writes.                   *)
LEMMA WritesTypes ==
  DarkWrites \cup BootWrites \cup RunWrites \subseteq Seq(Writes)
  <1>1. \A x, y \in Writes : <<x, y>> \in Seq(Writes) /\ <<x>> \in Seq(Writes)
    OBVIOUS
  <1>2. <<>> \in Seq(Writes)
    OBVIOUS
  <1> QED
    BY <1>1, <1>2, WriteFacts
    DEF DarkWrites, BootWrites, RunWrites, LedsDark, LedsRunning, LedsBooting, Last

(* Taking the next write off a list.                                       *)
LEMMA HeadAndTail ==
  ASSUME NEW q \in Seq(Writes), q # <<>>
  PROVE  Head(q) \in Writes /\ Tail(q) \in Seq(Writes)
  OBVIOUS

(* A run may start from any LEDs and any frame the previous run left.      *)
LEMMA PanelInitInv == Init => PanelInv
  <1> SUFFICES ASSUME Init PROVE PanelInv
    OBVIOUS
  <1>1. TypeOK
    <2>1. todo \in [{"display", "signal"} -> Seq(Writes)]
      BY DEF Init
    <2>2. idx \in Screens /\ fb \in Screens \cup {Black, Banner, Boot, Stale}
          /\ shown \in Screens \cup {NoScreen}
      BY NAssumption DEF Init, Screens, NoScreen
    <2> QED
      BY <2>1, <2>2 DEF Init, TypeOK, Locations, Writes
  <1>2. Shape /\ Mode /\ Frame /\ Lamps
    BY DEF Init, Shape, Mode, Frame, Lamps, Engaging, BootWrites, Locations
  <1> QED
    BY <1>1, <1>2 DEF PanelInv

(* The rotation index wraps around within the registry.                    *)
LEMMA NextIndex == \A i \in Screens : (i + 1) % N \in Screens
  BY NAssumption DEF Screens

(* Every step keeps the types, given the rest of the invariant.            *)
LEMMA PanelTypeStep == PanelInv /\ [Next]_vars => TypeOK'
  <1> SUFFICES ASSUME PanelInv, [Next]_vars PROVE TypeOK'
    OBVIOUS
  <1> USE NAssumption DEF PanelInv, TypeOK, Locations, At, Goto, KeepLeds, KeepFlags,
          KeepScreen, TakeToken
  <1>1. ASSUME NEW g \in {"display", "signal"}, LedWrite(g) PROVE TypeOK'
    <2>1. todo \in [{"display", "signal"} -> Seq(Writes)] /\ todo[g] # <<>>
      BY <1>1 DEF LedWrite, Writes
    <2>2. Head(todo[g]) \in Writes /\ Tail(todo[g]) \in Seq(Writes)
      BY <2>1, HeadAndTail
    <2>3. todo' \in [{"display", "signal"} -> Seq(Writes)]
      BY <1>1, <2>1, <2>2 DEF LedWrite
    <2>4. leds' \in [{"blue", "white"} -> BOOLEAN]
      BY <1>1, <2>2 DEF LedWrite, Writes
    <2> QED
      BY <1>1, <2>3, <2>4 DEF LedWrite, Writes
  <1>2. CASE BootStep \/ Build
    <2> USE WritesTypes DEF Writes, DarkWrites, BootWrites, RunWrites
    <2> USE DEF StartLeds, Screens, Black, Boot
    <2>1. CASE StoreMode BY <2>1 DEF StoreMode
    <2>2. CASE OpenFails BY <2>2 DEF OpenFails
    <2>3. CASE OpenAndReset BY <2>3 DEF OpenAndReset
    <2>4. CASE Open BY <2>4 DEF Open
    <2>5. CASE Clear BY <2>5 DEF Clear
    <2>6. CASE Logo BY <2>6 DEF Logo
    <2>7. CASE Animate BY <2>7 DEF Animate
    <2>8. CASE Build BY <2>8 DEF Build
    <2> QED
      BY <1>2, <2>1, <2>2, <2>3, <2>4, <2>5, <2>6, <2>7, <2>8 DEF BootStep
  <1>3. CASE CarouselStep
    <2> USE WritesTypes DEF Writes, DarkWrites, RunWrites
    <2> USE DEF StartLeds, Screens, Black, Banner
    <2>1. CASE Park BY <2>1 DEF Park
    <2>2. CASE FadeOut BY <2>2 DEF FadeOut
    <2>3. CASE Unpark BY <2>3 DEF Unpark
    <2>4. CASE ExitStealth BY <2>4 DEF ExitStealth
    <2>5. CASE OffHoldOver BY <2>5 DEF OffHoldOver
    <2>6. CASE OffHoldToggled BY <2>6 DEF OffHoldToggled
    <2>7. CASE FadeIn BY <2>7 DEF FadeIn
    <2>8. CASE OnHoldOver BY <2>8, NextIndex DEF OnHoldOver
    <2>9. CASE OnHoldToggled
      <3>1. idx' \in Screens
        BY <2>9, NextIndex DEF OnHoldToggled
      <3> QED
        BY <2>9, <3>1 DEF OnHoldToggled
    <2>10. CASE ShowBanner BY <2>10 DEF ShowBanner
    <2>11. CASE BannerOver BY <2>11 DEF BannerOver
    <2>12. CASE Engage BY <2>12 DEF Engage
    <2> QED
      BY <1>3, <2>1, <2>2, <2>3, <2>4, <2>5, <2>6, <2>7, <2>8, <2>9, <2>10,
         <2>11, <2>12 DEF CarouselStep
  <1>4. CASE Press
    BY <1>4 DEF Press
  <1>5. CASE Signal \/ Exit
    BY <1>5 DEF Signal, Exit
  <1>6. CASE Shutdown
    <2>1. LedsBooting \in Seq(Writes) /\ <<>> \in Seq(Writes)
      BY WritesTypes DEF BootWrites
    <2> QED
      BY <1>6, <2>1 DEF Shutdown, Writes
  <1>7. CASE UNCHANGED vars
    BY <1>7 DEF vars
  <1> QED
    BY <1>1, <1>2, <1>3, <1>4, <1>5, <1>6, <1>7 DEF Next, DisplayStep, SignalStep

(* The inductive step: what each location implies about LEDs, screen and   *)
(* mode survives every step of every goroutine.                            *)
LEMMA PanelStep == PanelInv /\ [Next]_vars => (Shape /\ Mode /\ Frame /\ Lamps)'
  <1> SUFFICES ASSUME PanelInv, [Next]_vars PROVE (Shape /\ Mode /\ Frame /\ Lamps)'
    OBVIOUS
  <1> USE WritesFacts, WriteFacts DEF PanelInv, Shape, Mode, Frame, Lamps, Engaging, Settling,
          LedsAre, DarkWrites, BootWrites, RunWrites, Locations
  <1>0. TypeOK
    OBVIOUS
  <1>1. CASE LedWrite("display")
    <2>1. /\ todo["display"] # <<>>
          /\ leds' = [leds EXCEPT ![Head(todo["display"]).led] = Head(todo["display"]).on]
          /\ todo' = [todo EXCEPT !["display"] = Tail(@)]
          /\ leds \in [{"blue", "white"} -> BOOLEAN]
          /\ todo["display"] \in DarkWrites \cup BootWrites \cup RunWrites
          /\ DOMAIN todo = {"display", "signal"}
      BY <1>0, <1>1 DEF LedWrite, TypeOK
    <2>2. UNCHANGED <<pc, stealthOn, fb, sd>> /\ todo'["signal"] = todo["signal"]
      BY <2>1, <1>1 DEF LedWrite
    <2>3. todo'["display"] = Tail(todo["display"])
      BY <2>1
    <2>4. CASE todo["display"] = Last
      BY <2>1, <2>2, <2>3, <2>4
    <2>5. CASE todo["display"] \in {LedsDark, LedsRunning}
      <3>1. CASE todo["display"] = LedsDark
        BY <2>1, <2>2, <2>3, <3>1
      <3>2. CASE todo["display"] = LedsRunning
        BY <2>1, <2>2, <2>3, <3>2
      <3> QED
        BY <2>5, <3>1, <3>2
    <2>6. CASE todo["display"] \in BootWrites /\ pc = "clear" /\ ~stealthOn
      BY <2>1, <2>2, <2>3, <2>6
    <2>7. pc \in Locations /\ stealthOn \in BOOLEAN
      BY <1>0 DEF TypeOK
    <2>8. \/ todo["display"] \in {Last, LedsDark, LedsRunning}
          \/ todo["display"] \in BootWrites /\ pc = "clear" /\ ~stealthOn
      BY <2>1, <2>7
    <2> QED
      BY <2>4, <2>5, <2>6, <2>8
  <1>2. CASE LedWrite("signal")
    <2>1. UNCHANGED <<pc, stealthOn, fb, sd>> /\ todo'["display"] = todo["display"]
          /\ todo["signal"] # <<>> /\ todo'["signal"] = Tail(todo["signal"])
      BY <1>0, <1>2 DEF LedWrite, TypeOK
    <2> QED
      BY <2>1
  <1> USE DEF At, Goto, KeepLeds, KeepFlags, KeepScreen, TakeToken, StartLeds
  <1>3. CASE BootStep \/ Build
    <2>1. CASE StoreMode BY <2>1 DEF StoreMode
    <2>2. CASE OpenFails BY <2>2 DEF OpenFails
    <2>3. CASE OpenAndReset BY <2>3 DEF OpenAndReset
    <2>4. CASE Open BY <1>0, <2>4 DEF Open, TypeOK
    <2>5. CASE Clear BY <2>5 DEF Clear
    <2>6. CASE Logo BY <2>6 DEF Logo
    <2>7. CASE Animate BY <1>0, <2>7 DEF Animate, TypeOK
    <2>8. CASE Build BY <2>8 DEF Build
    <2> QED
      BY <1>3, <2>1, <2>2, <2>3, <2>4, <2>5, <2>6, <2>7, <2>8 DEF BootStep
  <1>4. CASE CarouselStep
    <2>1. CASE Park BY <2>1 DEF Park
    <2>2. CASE FadeOut BY <2>2 DEF FadeOut
    <2>3. CASE Unpark BY <2>3 DEF Unpark
    <2>4. CASE ExitStealth BY <1>0, <2>4 DEF ExitStealth, TypeOK
    <2>5. CASE OffHoldOver BY <2>5 DEF OffHoldOver
    <2>6. CASE OffHoldToggled BY <2>6 DEF OffHoldToggled
    <2>7. CASE FadeIn BY <2>7 DEF FadeIn
    <2>8. CASE OnHoldOver BY <2>8 DEF OnHoldOver
    <2>9. CASE OnHoldToggled BY <2>9 DEF OnHoldToggled
    <2>10. CASE ShowBanner BY <2>10 DEF ShowBanner
    <2>11. CASE BannerOver BY <2>11 DEF BannerOver
    <2>12. CASE Engage BY <1>0, <2>12 DEF Engage, TypeOK
    <2> QED
      BY <1>4, <2>1, <2>2, <2>3, <2>4, <2>5, <2>6, <2>7, <2>8, <2>9, <2>10,
         <2>11, <2>12 DEF CarouselStep
  <1>5. CASE Press \/ Signal \/ Exit
    <2>1. UNCHANGED <<pc, stealthOn, fb, leds, todo>>
          /\ (sd' # "exit" => sd # "exit")
      BY <1>5 DEF Press, Signal, Exit
    <2> QED
      BY <2>1
  <1>6. CASE Shutdown
    <2>1. /\ todo'["display"] = todo["display"]
          /\ todo'["signal"] = IF stealthOn THEN <<>> ELSE LedsBooting
          /\ sd' = "exit" /\ UNCHANGED <<pc, stealthOn, fb, leds>>
      BY <1>0, <1>6 DEF Shutdown, TypeOK
    <2> QED
      BY <2>1
  <1>7. CASE UNCHANGED vars
    BY <1>7 DEF vars
  <1> QED
    BY <1>1, <1>2, <1>3, <1>4, <1>5, <1>6, <1>7 DEF Next, DisplayStep, SignalStep

(* The invariant holds throughout every run.                               *)
LEMMA PanelInvariant == Spec => []PanelInv
  <1>1. PanelInv /\ [Next]_vars => PanelInv'
    BY PanelTypeStep, PanelStep DEF PanelInv
  <1> QED
    BY PanelInitInv, <1>1, PTL DEF Spec

(* Types of the panel's state, for every N.                                *)
THEOREM PanelTypeCorrect == Spec => []TypeOK
  <1>1. PanelInv => TypeOK
    BY DEF PanelInv
  <1> QED
    BY PanelInvariant, <1>1, PTL

(* Parked in stealth, the panel shows nothing until Shutdown writes LEDs.  *)
THEOREM PanelParkedIsDark == Spec => []ParkedIsDark
  <1>1. PanelInv => ParkedIsDark
    BY DEF PanelInv, Frame, Lamps, ParkedIsDark
  <1> QED
    BY PanelInvariant, <1>1, PTL

(* At every hold of the running carousel the LEDs read "running".          *)
THEOREM PanelRunningLeds == Spec => []RunningLeds
  <1>1. PanelInv => RunningLeds
    BY DEF PanelInv, Lamps, RunningLeds, Engaging
  <1> QED
    BY PanelInvariant, <1>1, PTL

(* A screen fades in over black only.                                      *)
THEOREM PanelFadesInOverBlack == Spec => []FadesInOverBlack
  <1>1. PanelInv => FadesInOverBlack
    BY DEF PanelInv, Frame, FadesInOverBlack
  <1> QED
    BY PanelInvariant, <1>1, PTL

-----------------------------------------------------------------------------
(* The rotation index is the successor of the last screen shown, except    *)
(* while that screen is still held.                                        *)
Rotation ==
  shown # NoScreen => idx = IF pc = "onHold" THEN shown ELSE (shown + 1) % N

(* Screens come up in rotation order, for any number of screens.           *)
THEOREM PanelRoundRobin == Spec => RoundRobin
  <1>1. Init => Rotation
    BY DEF Init, Rotation
  <1>2. TypeOK /\ Rotation /\ [Next]_vars => Rotation'
    <2> SUFFICES ASSUME TypeOK, Rotation, [Next]_vars PROVE Rotation'
      OBVIOUS
    <2> USE DEF Rotation, At, Goto, KeepScreen
    <2>1. ASSUME UNCHANGED <<pc, idx, shown>> PROVE Rotation'
      BY <2>1
    <2>2. ASSUME UNCHANGED <<idx, shown>>, pc # "onHold", pc' # "onHold" PROVE Rotation'
      BY <2>2
    <2>3. CASE FadeIn
      BY <2>3 DEF FadeIn
    <2>4. CASE OnHoldOver \/ OnHoldToggled
      BY <2>4 DEF OnHoldOver, OnHoldToggled
    <2>5. CASE BootStep \/ Build
      BY <2>5, <2>2 DEF BootStep, StoreMode, OpenFails, OpenAndReset, Open, Clear, Logo,
         Animate, Build
    <2>6. CASE Park \/ FadeOut \/ Unpark \/ ExitStealth
      BY <2>6, <2>2 DEF Park, FadeOut, Unpark, ExitStealth
    <2>7. CASE OffHoldOver \/ OffHoldToggled \/ ShowBanner \/ BannerOver \/ Engage
      BY <2>7, <2>2 DEF OffHoldOver, OffHoldToggled, ShowBanner, BannerOver, Engage
    <2>8. CASE LedWrite("display") \/ LedWrite("signal")
      BY <2>8, <2>1 DEF LedWrite
    <2>9. CASE Press \/ Signal \/ Shutdown \/ Exit \/ UNCHANGED vars
      BY <2>9, <2>1 DEF Press, Signal, Shutdown, Exit, vars
    <2> QED
      BY <2>3, <2>4, <2>5, <2>6, <2>7, <2>8, <2>9
      DEF Next, DisplayStep, SignalStep, CarouselStep
  <1>3. Rotation /\ [Next]_vars =>
          [pc = "fadeIn" /\ pc' = "onHold" /\ shown # NoScreen
             => fb' = (shown + 1) % N]_vars
    <2> SUFFICES ASSUME Rotation, Next, pc = "fadeIn", pc' = "onHold", shown # NoScreen
                 PROVE  fb' = (shown + 1) % N
      OBVIOUS
    <2>1. FadeIn
      BY DEF Next, DisplayStep, SignalStep, BootStep, CarouselStep, LedWrite, Press, Signal,
         Shutdown, Exit, StoreMode, OpenFails, OpenAndReset, Open, Clear, Logo, Animate,
         Build, Park, FadeOut, Unpark, ExitStealth, OffHoldOver, OffHoldToggled,
         OnHoldOver, OnHoldToggled, ShowBanner, BannerOver, Engage, At
    <2> QED
      BY <2>1 DEF FadeIn, Rotation
  <1> QED
    BY <1>1, <1>2, <1>3, PanelTypeCorrect, PTL DEF Spec, RoundRobin

-----------------------------------------------------------------------------
(* Until it is pressed, a stealth boot is at a dark location with only     *)
(* darkening LED writes to do.                                             *)
Quiet ==
  opts.stealth /\ ~pressed =>
    /\ ~toggle
    /\ pc = "new" \/ stealthOn
    /\ pc \in {"new", "open", "failed", "reset", "clear", "build", "loop", "parked"}

(* A stealth boot that is neither pressed nor shut down lights nothing.    *)
THEOREM PanelStealthBootStaysDark == Spec => StealthBootStaysDark
  <1>1. Init => Quiet
    BY DEF Init, Quiet
  <1>2. PanelInv /\ Quiet /\ [Next]_vars => Quiet'
    <2> SUFFICES ASSUME PanelInv, Quiet, [Next]_vars, opts'.stealth, ~pressed'
                 PROVE  /\ ~toggle'
                        /\ pc' = "new" \/ stealthOn'
                        /\ pc' \in {"new", "open", "failed", "reset", "clear", "build",
                                    "loop", "parked"}
      BY DEF Quiet
    <2> USE DEF Quiet, At, Goto, KeepFlags, TakeToken
    <2>1. CASE LedWrite("display") \/ LedWrite("signal")
      BY <2>1 DEF LedWrite
    <2>2. CASE BootStep \/ Build
      BY <2>2 DEF BootStep, StoreMode, OpenFails, OpenAndReset, Open, Clear, Logo,
         Animate, Build
    <2>3. CASE CarouselStep
      BY <2>3 DEF CarouselStep, Park, FadeOut, Unpark, ExitStealth, OffHoldOver,
         OffHoldToggled, FadeIn, OnHoldOver, OnHoldToggled, ShowBanner, BannerOver, Engage
    <2>4. CASE Press \/ Signal \/ Shutdown \/ Exit \/ UNCHANGED vars
      BY <2>4 DEF Press, Signal, Shutdown, Exit, vars
    <2> QED
      BY <2>1, <2>2, <2>3, <2>4 DEF Next, DisplayStep, SignalStep
  <1>3. PanelInv /\ Quiet /\ [Next]_vars =>
          [opts.stealth /\ ~pressed /\ sd # "exit" => ~Lights]_vars
    <2> SUFFICES ASSUME PanelInv, Quiet, Next, opts.stealth, ~pressed, sd # "exit"
                 PROVE  ~Lights
      OBVIOUS
    <2>1. CASE LedWrite("display")
      <3>1. /\ todo["display"] \in {LedsDark, Last} /\ fb' = fb
            /\ leds' = [leds EXCEPT ![Head(todo["display"]).led] = Head(todo["display"]).on]
            /\ leds \in [{"blue", "white"} -> BOOLEAN]
        BY <2>1 DEF LedWrite, PanelInv, Shape, Mode, Quiet, Locations, DarkWrites, TypeOK
      <3> QED
        BY <3>1, WritesFacts, WriteFacts DEF Lights
    <2>2. CASE LedWrite("signal")
      BY <2>2 DEF LedWrite, PanelInv, Lamps
    <2>3. CASE BootStep \/ Build
      BY <2>3 DEF BootStep, StoreMode, OpenFails, OpenAndReset, Open, Clear, Logo, Animate,
         Build, At, Quiet, KeepLeds, KeepScreen, StartLeds, Lights
    <2>4. CASE CarouselStep
      BY <2>4 DEF CarouselStep, Park, FadeOut, Unpark, ExitStealth, OffHoldOver,
         OffHoldToggled, FadeIn, OnHoldOver, OnHoldToggled, ShowBanner, BannerOver,
         Engage, At, Quiet, KeepLeds, KeepScreen, StartLeds, Lights, TakeToken
    <2>5. CASE Press \/ Signal \/ Shutdown \/ Exit
      BY <2>5 DEF Press, Signal, Shutdown, Exit, Lights
    <2> QED
      BY <2>1, <2>2, <2>3, <2>4, <2>5 DEF Next, DisplayStep, SignalStep
  <1> QED
    BY <1>1, <1>2, <1>3, PanelInvariant, PTL DEF Spec, StealthBootStaysDark

-----------------------------------------------------------------------------
(* The panel implements the switch: a press asks, taking the token flips,  *)
(* and every other step is the end of the process or invisible.            *)
THEOREM PanelImplementsSwitch == Spec => SwitchSafety
  <1>1. Init => Switch!SwitchInit
    BY DEF Init, Switch!SwitchInit, Heading, Engaging
  <1>2. PanelInv /\ [Next]_vars => [Switch!SwitchNext]_(Switch!switchVars)
    <2> SUFFICES ASSUME PanelInv, [Next]_vars
                 PROVE  Switch!SwitchNext \/ UNCHANGED <<Heading, toggle, exited>>
      BY DEF Switch!switchVars
    <2> USE DEF Heading, Engaging, PanelInv, Mode, At, Goto, KeepFlags, TakeToken
    <2>1. CASE StoreMode \/ Open \/ Clear \/ Logo \/ Animate \/ Build
      <3>1. (Heading' <=> Heading) /\ UNCHANGED <<toggle, exited>>
        BY <2>1 DEF StoreMode, Open, Clear, Logo, Animate, Build
      <3> QED
        BY <3>1
    <2>2. CASE OpenFails \/ OpenAndReset \/ Exit
      <3>1. (Heading' <=> Heading) /\ toggle' = toggle /\ ~exited /\ exited' = TRUE
        BY <2>2 DEF OpenFails, OpenAndReset, Exit
      <3> QED
        BY <3>1 DEF Switch!SwitchNext, Switch!Stop
    <2>3. CASE Unpark \/ OffHoldToggled \/ OnHoldToggled
      <3>1. (Heading' <=> ~Heading) /\ toggle /\ toggle' = FALSE /\ ~exited /\ exited' = exited
        BY <2>3 DEF Unpark, OffHoldToggled, OnHoldToggled
      <3> QED
        BY <3>1 DEF Switch!SwitchNext, Switch!Flip
    <2>4. CASE Park \/ FadeOut \/ ExitStealth \/ OffHoldOver \/ FadeIn \/ OnHoldOver
               \/ ShowBanner \/ BannerOver \/ Engage
      <3>1. (Heading' <=> Heading) /\ UNCHANGED <<toggle, exited>>
        BY <2>4 DEF Park, FadeOut, ExitStealth, OffHoldOver, FadeIn, OnHoldOver, ShowBanner,
           BannerOver, Engage
      <3> QED
        BY <3>1
    <2>5. CASE Press
      <3>1. (Heading' <=> Heading) /\ ~exited /\ toggle' = TRUE /\ exited' = exited
        BY <2>5 DEF Press
      <3> QED
        BY <3>1 DEF Switch!SwitchNext, Switch!Ask
    <2>6. CASE LedWrite("display") \/ LedWrite("signal") \/ Signal \/ Shutdown \/ UNCHANGED vars
      BY <2>6 DEF LedWrite, Signal, Shutdown, vars
    <2> QED
      BY <2>1, <2>2, <2>3, <2>4, <2>5, <2>6
      DEF Next, DisplayStep, SignalStep, BootStep, CarouselStep
  <1> QED
    BY <1>1, <1>2, PanelInvariant, PTL DEF Spec, SwitchSafety, Switch!SwitchSpec
=============================================================================
