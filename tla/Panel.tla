------------------------------- MODULE Panel -------------------------------
(***************************************************************************)
(* The front panel of internal/display: the goroutine that boots it (New)  *)
(* and then runs the fade carousel (functions.go), the stealth mode that   *)
(* the reset button toggles (stealth.go), and Shutdown, which the signal   *)
(* handler runs on a goroutine of its own.                                 *)
(*                                                                         *)
(* The carousel is the only writer of the framebuffer and of stealthOn, so *)
(* a run of its local steps is one action; a load or store of stealthOn, a *)
(* receive from stealthToggle and every single LED write is a step of its  *)
(* own, because those are what the other goroutines see or race with.      *)
(* LEDs and framebuffer keep their contents over a restart, so a run       *)
(* starts from whatever the previous one left.                             *)
(***************************************************************************)
EXTENDS Naturals, Sequences

CONSTANT N     \* screens in the rotation

ASSUME NAssumption == N \in Nat \ {0}

VARIABLES
  opts,       \* [stealth, reset]: --stealth-mode and --reset
  pc,         \* where the display goroutine is
  idx,        \* rotation index of startFadeCarousel
  stealthOn,  \* atomic flag: no output wanted
  toggle,     \* a token in stealthToggle (capacity 1)
  fb,         \* what the framebuffer shows
  leds,       \* the two LEDs
  todo,       \* LED writes a goroutine is about to do: "display", "signal"
  sd,         \* the signal handler: "waiting", "gate" or "exit"
  exited,     \* the process is gone
  shown,      \* history: the last screen faded in
  pressed     \* history: the button has been pressed

vars == <<opts, pc, idx, stealthOn, toggle, fb, leds, todo, sd, exited, shown,
          pressed>>

Screens == 0 .. N - 1
Black == N             \* framebuffer contents that are no screen
Banner == N + 1
Boot == N + 2
Stale == N + 3
NoScreen == N

Write(led, on) == [led |-> led, on |-> on]

DarkForgetsWhite == <<Write("blue", FALSE)>>     \* mutated: white stays as it was

LedsDark == <<Write("blue", FALSE), Write("white", FALSE)>>
LedsBooting == <<Write("blue", FALSE), Write("white", TRUE)>>
LedsRunning == <<Write("blue", TRUE), Write("white", FALSE)>>

Init ==
  /\ opts \in [stealth : BOOLEAN, reset : BOOLEAN]
  /\ pc = "new"
  /\ idx = 0
  /\ stealthOn = FALSE
  /\ toggle = FALSE
  /\ fb \in {Black, Stale}
  /\ leds \in [{"blue", "white"} -> BOOLEAN]
  /\ todo = [g \in {"display", "signal"} |-> <<>>]
  /\ sd = "waiting"
  /\ exited = FALSE
  /\ shown = NoScreen
  /\ pressed = FALSE

(* The display goroutine is at l, its LED writes done.                     *)
At(l) == ~exited /\ pc = l /\ todo["display"] = <<>>

(* Frame conditions: what the steps of the display goroutine leave alone.  *)
Goto(l) == pc' = l /\ UNCHANGED <<opts, sd, pressed>>
KeepLeds == UNCHANGED <<leds, todo>>
KeepFlags == UNCHANGED <<stealthOn, toggle, exited>>
KeepScreen == UNCHANGED <<idx, fb, shown>>
StartLeds(w) == todo' = [todo EXCEPT !["display"] = w] /\ UNCHANGED leds

(* One brightness write of goroutine g.                                    *)
LedWrite(g) ==
  /\ ~exited /\ todo[g] # <<>>
  /\ leds' = [leds EXCEPT ![Head(todo[g]).led] = Head(todo[g]).on]
  /\ todo' = [todo EXCEPT ![g] = Tail(@)]
  /\ UNCHANGED <<opts, pc, idx, stealthOn, toggle, fb, sd, exited, shown, pressed>>

-----------------------------------------------------------------------------
(* New.                                                                    *)
StoreMode ==
  /\ At("new")
  /\ stealthOn' = opts.stealth
  /\ Goto("open")
  /\ KeepLeds /\ KeepScreen /\ UNCHANGED <<toggle, exited>>

(* openFramebuffer fails: main logs and exits.                             *)
OpenFails ==
  /\ At("open")
  /\ exited' = TRUE
  /\ Goto("failed")
  /\ KeepLeds /\ KeepScreen /\ UNCHANGED <<stealthOn, toggle>>

(* --reset: clear the screen and return, which ends main.                  *)
OpenAndReset ==
  /\ At("open") /\ opts.reset
  /\ fb' = Black
  /\ exited' = TRUE
  /\ Goto("reset")
  /\ KeepLeds /\ UNCHANGED <<idx, shown, stealthOn, toggle>>

Open ==
  /\ At("open") /\ ~opts.reset
  /\ Goto("clear")
  /\ StartLeds(IF stealthOn THEN LedsDark ELSE LedsBooting)
  /\ KeepFlags /\ KeepScreen

Clear ==
  /\ At("clear")
  /\ fb' = Black
  /\ Goto(IF stealthOn THEN "build" ELSE "logo")        \* withPanel
  /\ KeepLeds /\ KeepFlags /\ UNCHANGED <<idx, shown>>

Logo ==
  /\ At("logo")
  /\ fb' = Boot
  /\ Goto("animate")
  /\ KeepLeds /\ KeepFlags /\ UNCHANGED <<idx, shown>>

(* The loader bar is full: ledsRunning.                                    *)
Animate ==
  /\ At("animate")
  /\ Goto("build")
  /\ StartLeds(LedsRunning)
  /\ KeepFlags /\ KeepScreen

Build ==
  /\ At("build")
  /\ Goto("loop")
  /\ KeepLeds /\ KeepFlags /\ KeepScreen

-----------------------------------------------------------------------------
(* startFadeCarousel.                                                      *)
Park ==
  /\ At("loop") /\ stealthOn
  /\ Goto("parked")
  /\ KeepLeds /\ KeepFlags /\ KeepScreen

FadeOut ==
  /\ At("loop") /\ ~stealthOn
  /\ fb' = Black
  /\ Goto("offHold")
  /\ KeepLeds /\ KeepFlags /\ UNCHANGED <<idx, shown>>

TakeToken ==
  /\ toggle
  /\ toggle' = FALSE
  /\ UNCHANGED <<stealthOn, exited>>

StealthIsFinal ==        \* mutated: a panel booted in stealth ignores the button
  /\ At("parked") /\ ~opts.stealth
  /\ TakeToken
  /\ Goto("leave")
  /\ KeepLeds /\ KeepScreen

Unpark ==
  /\ At("parked")
  /\ TakeToken
  /\ Goto("leave")
  /\ KeepLeds /\ KeepScreen

LeaveUnlit ==            \* mutated: the LEDs stay dark
  /\ At("leave")
  /\ stealthOn' = FALSE
  /\ Goto("fadeIn")
  /\ KeepLeds /\ KeepScreen /\ UNCHANGED <<toggle, exited>>

ExitStealth ==
  /\ At("leave")
  /\ stealthOn' = FALSE
  /\ StartLeds(LedsRunning)
  /\ Goto("fadeIn")
  /\ KeepScreen /\ UNCHANGED <<toggle, exited>>

OffHoldOver ==
  /\ At("offHold")
  /\ Goto("fadeIn")
  /\ KeepLeds /\ KeepFlags /\ KeepScreen

SkipScreen ==            \* mutated: an interrupted blank hold advances the rotation
  /\ At("offHold")
  /\ TakeToken
  /\ idx' = (idx + 1) % N
  /\ Goto("banner")
  /\ KeepLeds /\ UNCHANGED <<fb, shown>>

OffHoldToggled ==
  /\ At("offHold")
  /\ TakeToken
  /\ Goto("banner")
  /\ KeepLeds /\ KeepScreen

FadeIn ==
  /\ At("fadeIn")
  /\ fb' = idx
  /\ shown' = idx
  /\ Goto("onHold")
  /\ KeepLeds /\ KeepFlags /\ UNCHANGED idx

OnHoldUnwrapped ==       \* mutated: the index runs past the last screen
  /\ At("onHold")
  /\ idx' = idx + 1
  /\ Goto("loop")
  /\ KeepLeds /\ KeepFlags /\ UNCHANGED <<fb, shown>>

OnHoldShort ==           \* mutated: off by one, the last screen is never reached
  /\ At("onHold")
  /\ idx' = IF idx + 1 >= N - 1 THEN 0 ELSE idx + 1
  /\ Goto("loop")
  /\ KeepLeds /\ KeepFlags /\ UNCHANGED <<fb, shown>>

OnHoldOver ==
  /\ At("onHold")
  /\ idx' = (idx + 1) % N
  /\ Goto("loop")
  /\ KeepLeds /\ KeepFlags /\ UNCHANGED <<fb, shown>>

OnHoldToggled ==
  /\ At("onHold")
  /\ TakeToken
  /\ idx' = (idx + 1) % N
  /\ Goto("banner")
  /\ KeepLeds /\ UNCHANGED <<fb, shown>>

(* enterStealth: banner, hold, darken, and only then engage.               *)
ShowBanner ==
  /\ At("banner")
  /\ fb' = Banner
  /\ Goto("bannerHold")
  /\ KeepLeds /\ KeepFlags /\ UNCHANGED <<idx, shown>>

BannerOver ==
  /\ At("bannerHold")
  /\ fb' = Black
  /\ Goto("engage")
  /\ KeepLeds /\ KeepFlags /\ UNCHANGED <<idx, shown>>

ForgetStore ==           \* mutated: stealthOn is not stored
  /\ At("engage")
  /\ StartLeds(LedsDark)
  /\ Goto("loop")
  /\ KeepScreen /\ KeepFlags

Engage ==
  /\ At("engage")
  /\ stealthOn' = TRUE
  /\ StartLeds(LedsDark)
  /\ Goto("loop")
  /\ KeepScreen /\ UNCHANGED <<toggle, exited>>

-----------------------------------------------------------------------------
(* ToggleStealth, called on the reset-button watcher's goroutine.          *)
Press ==
  /\ ~exited
  /\ toggle' = TRUE
  /\ pressed' = TRUE
  /\ UNCHANGED <<opts, pc, idx, stealthOn, fb, leds, todo, sd, exited, shown>>

(* The signal handler: SIGTERM, then Shutdown's withPanel, then os.Exit.   *)
Signal ==
  /\ ~exited /\ sd = "waiting"
  /\ sd' = "gate"
  /\ UNCHANGED <<opts, pc, idx, stealthOn, toggle, fb, leds, todo, exited, shown, pressed>>

Shutdown ==
  /\ ~exited /\ sd = "gate"
  /\ sd' = "exit"
  /\ todo' = [todo EXCEPT !["signal"] = IF stealthOn THEN <<>> ELSE LedsBooting]
  /\ UNCHANGED <<opts, pc, idx, stealthOn, toggle, fb, leds, exited, shown, pressed>>

Exit ==
  /\ ~exited /\ sd = "exit" /\ todo["signal"] = <<>>
  /\ exited' = TRUE
  /\ UNCHANGED <<opts, pc, idx, stealthOn, toggle, fb, leds, todo, sd, shown, pressed>>

BootStep == StoreMode \/ OpenFails \/ OpenAndReset \/ Open \/ Clear \/ Logo
            \/ Animate
CarouselStep == Park \/ FadeOut \/ Unpark \/ ExitStealth \/ OffHoldOver
                \/ OffHoldToggled \/ FadeIn \/ OnHoldOver \/ OnHoldToggled
                \/ ShowBanner \/ BannerOver \/ Engage
DisplayStep == BootStep \/ Build \/ CarouselStep \/ LedWrite("display")
SignalStep == Shutdown \/ Exit \/ LedWrite("signal")

Next == DisplayStep \/ SignalStep \/ Press \/ Signal

Spec == Init /\ [][Next]_vars

(* The Go scheduler runs both goroutines, and every hold of the carousel   *)
(* is a timer.  Build has no fairness: the first lookups of the screens    *)
(* run commands without a timeout on this goroutine, so New need not       *)
(* return.  Nobody has to press the button or send a signal.  A select     *)
(* with both cases ready picks either, so the two interrupted holds are    *)
(* fair on their own.                                                      *)
FairSpec ==
  /\ Spec
  /\ WF_vars(BootStep \/ CarouselStep \/ LedWrite("display"))
  /\ WF_vars(SignalStep)
  /\ SF_vars(OffHoldToggled) /\ SF_vars(OnHoldToggled)

-----------------------------------------------------------------------------
Locations == {"new", "open", "failed", "reset", "clear", "logo", "animate",
  "build", "loop", "parked", "leave", "offHold", "fadeIn", "onHold", "banner",
  "bannerHold", "engage"}

(* Types of the state.                                                     *)
TypeOK ==
  /\ opts \in [stealth : BOOLEAN, reset : BOOLEAN]
  /\ pc \in Locations
  /\ idx \in Screens
  /\ stealthOn \in BOOLEAN /\ toggle \in BOOLEAN /\ exited \in BOOLEAN
  /\ pressed \in BOOLEAN
  /\ fb \in Screens \cup {Black, Banner, Boot, Stale}
  /\ leds \in [{"blue", "white"} -> BOOLEAN]
  /\ todo \in [{"display", "signal"} -> Seq([led : {"blue", "white"}, on : BOOLEAN])]
  /\ sd \in {"waiting", "gate", "exit"}
  /\ shown \in Screens \cup {NoScreen}

LedsAre(b, w) == leds["blue"] = b /\ leds["white"] = w

(* Parked in stealth the panel shows nothing at all, neither pixels nor    *)
(* LEDs, however stealth was reached (boot or button) and whatever the     *)
(* previous run left lit; Shutdown's own writes aside (see ExitsDark).     *)
ParkedIsDark ==
  pc = "parked" /\ sd # "exit" => fb = Black /\ LedsAre(FALSE, FALSE)

(* Whenever the running carousel holds, the LED pair reads "running": blue *)
(* lit and white settled dark, never both lit or both dark by accident.    *)
RunningLeds ==
  pc \in {"offHold", "onHold", "bannerHold"} /\ sd # "exit" => LedsAre(TRUE, FALSE)

(* A screen is only ever faded in over black: the previous screen, the     *)
(* boot logo, the banner or a stale frame is gone first.                   *)
FadesInOverBlack == pc = "fadeIn" => fb = Black

(* Screens come up in rotation order, none skipped and none repeated, also *)
(* across an interruption by stealth mode.                                 *)
RoundRobin ==
  [][pc = "fadeIn" /\ pc' = "onHold" /\ shown # NoScreen
       => fb' = (shown + 1) % N]_vars

(* A stealth boot that is neither pressed nor shut down never turns on a   *)
(* LED or draws a lit frame, not even briefly.                             *)
Lights == \/ ~leds["blue"] /\ leds'["blue"]
          \/ ~leds["white"] /\ leds'["white"]
          \/ fb' # fb /\ fb' # Black
StealthBootStaysDark ==
  [][opts.stealth /\ ~pressed /\ sd # "exit" => ~Lights]_vars

(* enterStealth is on its way: banner up, flag not stored yet.             *)
Engaging == pc \in {"banner", "bannerHold", "engage"}

(* Between the receive and the stealthOn.Store the panel is already on its *)
(* way to the other mode.                                                  *)
Heading ==
  \/ pc = "new" /\ opts.stealth
  \/ Engaging
  \/ stealthOn /\ pc # "leave"

Switch == INSTANCE StealthSwitch WITH
  stealth <- Heading, asked <- toggle, stopped <- exited

(* The button's promise: an accepted press flips stealth mode at most      *)
(* once, and stealth mode never flips by itself.                           *)
SwitchSafety == Switch!SwitchSpec

(* New has returned and main is in startFadeCarousel.                      *)
Built == pc \in {"loop", "parked", "leave", "offHold", "fadeIn", "onHold", "banner",
                 "bannerHold", "engage"}

(* Once New has returned, every press is acted on in the end: one accepted *)
(* during the boot, and one at any point of the carousel.  A boot that     *)
(* hangs in a screen's first lookup is promised nothing.                   *)
SwitchPromise == <>Built => Switch!SwitchFairness

(* Left alone out of stealth mode, a carousel that has been started shows  *)
(* every screen again and again.                                           *)
EveryScreenShown ==
  <>[](Built /\ ~stealthOn /\ ~toggle /\ ~exited)
    => \A i \in Screens : []<>(fb = i)

(* Shutdown: "In stealth mode both are dark, including on shutdown", so a  *)
(* process that ends by a signal in stealth mode leaves both LEDs dark.    *)
ExitsDark ==
  exited /\ sd = "exit" /\ stealthOn /\ ~opts.stealth => LedsAre(FALSE, FALSE)
=============================================================================
