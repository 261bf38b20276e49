------------------------------ MODULE Screens ------------------------------
(***************************************************************************)
(* The screens and their collectors (internal/display/screens.go).  New    *)
(* builds the enabled screens one after the other: a first reading, drawn  *)
(* without a lock and published, and then a goroutine that for ever stats, *)
(* redraws under screenMu, publishes and sleeps.  Once all are built, the  *)
(* carousel samples their images under the same lock, one fade step        *)
(* (internal/display/functions.go) at a time.                              *)
(*                                                                         *)
(* A source is one thing that is looked up and drawn as one row; a slice   *)
(* is what is published in one call: sources, and a figure that only the   *)
(* dashboard shows, looked up as it is published.  A source's reading   *)
(* says only which lookup it came from as far as anyone can tell: one of   *)
(* Good, Failed, or the placeholder Checking.  What sources and slices a   *)
(* screen has, and what it makes of a failed lookup, is its profile.       *)
(***************************************************************************)
EXTENDS Integers, Sequences, SequencesExt

CONSTANTS
  Enabled,   \* names of the screens the options enable
  Good       \* what a lookup that succeeds may find

Failed == "failed"        \* "not mounted", "--%", "unreachable", "disconnected"
Checking == "checking"    \* drawn before the first lookup
Blank == "blank"          \* nothing drawn, or an empty text
Zero == "zero"            \* published by buildHost and publishSystem for a failed lookup
Aside == "aside"          \* uptime and load average, that only the dashboard shows,
                          \* taken as one figure
NoOne == "no one"
Carousel == "carousel"

(* A profile: rows in drawing order, slices in publishing order, what New  *)
(* looks up before it draws, whether New publishes, where the goroutine's  *)
(* loop starts; the sources that keep their value over a failed lookup,    *)
(* those whose failure leaves an empty row on the panel, those whose       *)
(* failure is not published, those whose failure is published as zero;     *)
(* whether the loop's only sleep is the rest of a sample window.           *)
Profile(rows, slices) ==
  [rows |-> rows, slices |-> slices, first |-> ToSet(rows), publishFirst |-> TRUE,
   loop |-> "sleep", keeps |-> {}, unmarked |-> {}, withheld |-> {}, zeroed |-> {},
   paced |-> FALSE]

HostScreen ==
  [Profile(<<"hostname">>, <<{"hostname", Aside}>>) EXCEPT
     !.first = {}, !.publishFirst = FALSE, !.loop = "stat", !.keeps = {"hostname"}]

NetworkScreen ==
  [Profile(<<"lan", "wan">>, <<{"lan", "wan"}>>) EXCEPT
     !.first = {"lan"}, !.loop = "stat", !.keeps = {"lan"}]

StorageScreen == Profile(<<"sdcard", "ssd">>, <<{"sdcard"}, {"ssd"}>>)

SystemScreen ==
  [Profile(<<"cpu", "mem", "rootfs">>, <<{"cpu", Aside}, {"mem"}, {"rootfs"}>>) EXCEPT
     !.loop = "stat", !.unmarked = {"rootfs"}, !.withheld = {"mem"}, !.zeroed = {"cpu"},
     !.paced = TRUE]

AutosshScreen == Profile(<<"tunnel1", "tunnel2">>, <<{"tunnel1"}, {"tunnel2"}>>)
WireguardScreen == Profile(<<"wireguard">>, <<{"wireguard"}>>)
TailscaleScreen == Profile(<<"tailscale">>, <<{"tailscale"}>>)

Screen ==
  [host |-> HostScreen, network |-> NetworkScreen, storage |-> StorageScreen,
   system |-> SystemScreen, autossh |-> AutosshScreen, wireguard |-> WireguardScreen,
   tailscale |-> TailscaleScreen]

(* The registry, in the order of init().                                   *)
Registry ==
  [host |-> 1, network |-> 2, storage |-> 3, system |-> 4, autossh |-> 5, wireguard |-> 6,
   tailscale |-> 7]

ASSUME EnabledAssumption == Enabled \subseteq DOMAIN Screen /\ Enabled # {}
ASSUME GoodAssumption ==
  Good # {} /\ Good \cap {Failed, Checking, Blank, Zero} = {}

Rows(s) == Screen[s].rows
Sources(s) == ToSet(Rows(s))
Slices(s) == ToSet(Screen[s].slices)
AllFigures == UNION {UNION Slices(s) : s \in Enabled}

VARIABLES
  demo,      \* opts.Demo
  built,     \* New: the screens that are built
  pc,        \* location of New in a screen's build, then of its goroutine
  step,      \* drawing or publishing: how far
  reading,   \* a screen's own variables: what its sources last said
  image,     \* the pixels of a screen, row by row
  drawn,     \* history: the screen's last complete drawing
  web,       \* the hub's snapshot, figure by figure
  screenMu,  \* who holds it
  cpc,       \* location of the carousel
  target,    \* the screen the carousel is sampling
  frame,     \* the rows sampled in this fade step
  burst      \* history: publications since the collector last slept

drawVars == <<step, image, drawn>>
carouselVars == <<cpc, target, frame>>
vars == <<demo, built, pc, step, reading, image, drawn, web, screenMu, cpc, target,
          frame, burst>>

Init ==
  /\ demo \in BOOLEAN
  /\ built = {}
  /\ pc = [s \in Enabled |-> "unbuilt"]
  /\ step = [s \in Enabled |-> 0]
  /\ reading = [s \in Enabled |-> [x \in Sources(s) |-> Checking]]
  /\ image = [s \in Enabled |-> [x \in Sources(s) |-> Blank]]
  /\ drawn = image
  /\ web = [x \in AllFigures |-> Blank]
  /\ screenMu = NoOne
  /\ cpc = "off" /\ target = NoOne /\ frame = <<>>
  /\ burst = [s \in Enabled |-> 0]

(* New is building screen s.                                               *)
Building(s) ==
  s \notin built /\ \A t \in Enabled : Registry[t] < Registry[s] => t \in built
Goto(s, l) == pc' = [pc EXCEPT ![s] = l]

(* Whether New starts a goroutine for screen s.                            *)
Runs(s) == ~demo \/ s = "host"

-----------------------------------------------------------------------------
(* Collectors.                                                             *)

(* The value of source x after a lookup that found v.                      *)
ResolveBlindly(s, x, v) ==   \* mutated: a failed lookup's zero value is assigned
  IF v = Failed /\ x \in Screen[s].keeps THEN Blank ELSE v

Resolve(s, x, v) ==
  IF v = Failed /\ x \in Screen[s].keeps THEN reading[s][x] ELSE v

(* One lookup of each source in xs.  The CPU lookup is the one that takes  *)
(* a sample window; it may fail before that, or after.                     *)
Lookup(s, xs) ==
  \E found \in [xs -> Good \cup {Failed}], slept \in BOOLEAN :
    /\ reading' = [reading EXCEPT ![s] =
                     [x \in Sources(s) |-> IF x \in xs THEN Resolve(s, x, found[x]) ELSE @[x]]]
    /\ Screen[s].paced /\ found["cpu"] # Failed => slept
    /\ slept => Screen[s].paced
    /\ burst' = IF slept THEN [burst EXCEPT ![s] = 0] ELSE burst

(* New: the first reading of the next screen, or the demo's constants.     *)
FirstStat(s) ==
  /\ pc[s] = "unbuilt" /\ Building(s)
  /\ IF demo
     THEN /\ reading' = [reading EXCEPT ![s] = [x \in Sources(s) |-> CHOOSE g \in Good : TRUE]]
          /\ UNCHANGED burst
     ELSE Lookup(s, Screen[s].first)
  /\ Goto(s, "draw")
  /\ UNCHANGED <<demo, built, drawVars, web, screenMu, carouselVars>>

Stat(s) ==
  /\ pc[s] = "stat"
  /\ IF demo THEN UNCHANGED <<reading, burst>> ELSE Lookup(s, Sources(s))
  /\ Goto(s, "lock")
  /\ UNCHANGED <<demo, built, drawVars, web, screenMu, carouselVars>>

LockSkipped(s) ==            \* mutated: the redraw is not under screenMu
  /\ pc[s] = "lock"
  /\ Goto(s, "draw")
  /\ UNCHANGED <<demo, built, drawVars, reading, web, screenMu, carouselVars, burst>>

Lock(s) ==
  /\ pc[s] = "lock" /\ screenMu = NoOne
  /\ screenMu' = s
  /\ Goto(s, "draw")
  /\ UNCHANGED <<demo, built, drawVars, reading, web, carouselVars, burst>>

(* What row x shows.  drawStorageRow writes "not mounted"; drawSystem does *)
(* not look at notMounted and writes the empty texts that diskFor left.    *)
Shows(s, x) ==
  IF reading[s][x] = Failed /\ x \in Screen[s].unmarked THEN Blank ELSE reading[s][x]

(* draw*: blank the image, then one row after the other.                   *)
Draw(s) ==
  /\ pc[s] = "draw" /\ step[s] <= Len(Rows(s))
  /\ image' = [image EXCEPT ![s] =
                 IF step[s] = 0 THEN [x \in Sources(s) |-> Blank]
                 ELSE [@ EXCEPT ![Rows(s)[step[s]]] = Shows(s, Rows(s)[step[s]])]]
  /\ step' = [step EXCEPT ![s] = @ + 1]
  /\ UNCHANGED <<demo, built, pc, reading, drawn, web, screenMu, carouselVars, burst>>

UnlockForgotten(s) ==        \* mutated: the lock is not released
  /\ pc[s] = "draw" /\ step[s] > Len(Rows(s))
  /\ drawn' = [drawn EXCEPT ![s] = image[s]]
  /\ step' = [step EXCEPT ![s] = 0]
  /\ Goto(s, "publish")
  /\ UNCHANGED <<demo, built, reading, image, web, screenMu, carouselVars, burst>>

(* The drawing is complete; only a goroutine's is under the lock.          *)
Drawn(s) ==
  /\ pc[s] = "draw" /\ step[s] > Len(Rows(s))
  /\ drawn' = [drawn EXCEPT ![s] = image[s]]
  /\ step' = [step EXCEPT ![s] = 0]
  /\ screenMu' = IF Building(s) THEN screenMu ELSE NoOne
  /\ Goto(s, "publish")
  /\ UNCHANGED <<demo, built, reading, image, web, carouselVars, burst>>

SaysAfresh(s, x) ==          \* mutated: the web figure is looked up again
  CHOOSE g \in Good : TRUE

(* What a slice says of source x.                                          *)
Says(s, x) ==
  IF reading[s][x] = Failed
  THEN IF x \in Screen[s].zeroed THEN Zero
       ELSE IF x \in Screen[s].withheld THEN web[x] ELSE Failed
  ELSE reading[s][x]

(* What host.Uptime or cpu.LoadAverage gives.                              *)
FoundAside(s) == IF Runs(s) THEN Good \cup {Zero} ELSE Good

(* One publish call.                                                       *)
Publish(s) ==
  LET slices == IF Building(s) /\ ~Screen[s].publishFirst THEN <<>> ELSE Screen[s].slices IN
  /\ pc[s] = "publish" /\ step[s] < Len(slices)
  /\ \E aside \in FoundAside(s) :
       web' = [x \in AllFigures |-> IF x \notin slices[step[s] + 1] THEN web[x]
                                   ELSE IF x = Aside THEN aside ELSE Says(s, x)]
  /\ step' = [step EXCEPT ![s] = @ + 1]
  /\ burst' = IF step[s] = 0 THEN [burst EXCEPT ![s] = @ + 1] ELSE burst
  /\ UNCHANGED <<demo, built, pc, reading, image, drawn, screenMu, carouselVars>>

(* publishHost and the other publishers have returned.                     *)
Published(s) ==
  /\ pc[s] = "publish"
  /\ step[s] = Len(Screen[s].slices) \/ (Building(s) /\ ~Screen[s].publishFirst)
  /\ step' = [step EXCEPT ![s] = 0]
  /\ IF Building(s)
     THEN built' = built \cup {s} /\ Goto(s, IF Runs(s) THEN Screen[s].loop ELSE "done")
     ELSE Goto(s, "sleep") /\ UNCHANGED built
  /\ UNCHANGED <<demo, reading, image, drawn, web, screenMu, carouselVars, burst>>

SleepUnpaced(s) ==           \* mutated: buildSystem relies on cpu.Percent to sleep
  /\ pc[s] = "sleep"
  /\ Goto(s, "stat")
  /\ burst' = IF Screen[s].paced THEN burst ELSE [burst EXCEPT ![s] = 0]
  /\ UNCHANGED <<demo, built, drawVars, reading, web, screenMu, carouselVars>>

(* time.Sleep; for buildSystem the rest of the window, if any is left.     *)
Sleep(s) ==
  /\ pc[s] = "sleep"
  /\ Goto(s, "stat")
  /\ burst' = [burst EXCEPT ![s] = 0]
  /\ UNCHANGED <<demo, built, drawVars, reading, web, screenMu, carouselVars>>

-----------------------------------------------------------------------------
(* The carousel: fade steps over the images, in an order that is Panel's.  *)
StartCarousel ==
  /\ cpc = "off" /\ built = Enabled
  /\ cpc' = "ready"
  /\ UNCHANGED <<demo, built, pc, drawVars, reading, web, screenMu, target, frame, burst>>

FadeLock(s) ==
  /\ cpc = "ready" /\ screenMu = NoOne
  /\ screenMu' = Carousel
  /\ target' = s
  /\ cpc' = "sample"
  /\ UNCHANGED <<demo, built, pc, drawVars, reading, web, frame, burst>>

FadeSample ==
  /\ cpc = "sample" /\ Len(frame) < Len(Rows(target))
  /\ frame' = Append(frame, image[target][Rows(target)[Len(frame) + 1]])
  /\ UNCHANGED <<demo, built, pc, drawVars, reading, web, screenMu, cpc, target, burst>>

FadeUnlock ==
  /\ cpc = "sample" /\ Len(frame) = Len(Rows(target))
  /\ screenMu' = NoOne
  /\ cpc' = "ready" /\ target' = NoOne /\ frame' = <<>>
  /\ UNCHANGED <<demo, built, pc, drawVars, reading, web, burst>>

-----------------------------------------------------------------------------
CollectorStep(s) ==
  \/ FirstStat(s) \/ Stat(s) \/ Lock(s) \/ Draw(s) \/ Drawn(s) \/ Publish(s) \/ Published(s)
  \/ Sleep(s)
CarouselStep == StartCarousel \/ (\E s \in Enabled : FadeLock(s)) \/ FadeSample \/ FadeUnlock

Next == (\E s \in Enabled : CollectorStep(s)) \/ CarouselStep

Spec == Init /\ [][Next]_vars

(* Everything local is scheduled and screenMu is a Go mutex, which hands   *)
(* over to a waiter that starves.  Nothing makes a lookup return: commands *)
(* are run without a timeout.                                              *)
FairSpec ==
  /\ Spec
  /\ \A s \in Enabled :
       SF_vars(Lock(s)) /\ WF_vars(Draw(s) \/ Drawn(s) \/ Published(s) \/ Sleep(s))
  /\ SF_vars(\E s \in Enabled : FadeLock(s)) /\ WF_vars(StartCarousel \/ FadeSample \/ FadeUnlock)

(* The lookups of screen s return, and so do those made to publish it.     *)
Responsive(s) == WF_vars(Stat(s) \/ Publish(s))

-----------------------------------------------------------------------------
Readings == Good \cup {Failed, Checking}

(* Types of the state.  In particular no screen holds the zero value of a  *)
(* failed lookup: a host name or LAN address is kept instead.              *)
TypeOK ==
  /\ demo \in BOOLEAN /\ built \subseteq Enabled
  /\ pc \in [Enabled -> {"unbuilt", "stat", "lock", "draw", "publish", "sleep", "done"}]
  /\ step \in [Enabled -> Nat]
  /\ DOMAIN reading = Enabled /\ DOMAIN image = Enabled /\ DOMAIN drawn = Enabled
  /\ \A s \in Enabled :
       /\ reading[s] \in [Sources(s) -> Readings]
       /\ image[s] \in [Sources(s) -> Readings \cup {Blank}]
       /\ drawn[s] \in [Sources(s) -> Readings \cup {Blank}]
  /\ web \in [AllFigures -> Readings \cup {Blank, Zero}]
  /\ screenMu \in Enabled \cup {NoOne, Carousel}
  /\ cpc \in {"off", "ready", "sample"}
  /\ target \in Enabled \cup {NoOne} /\ (cpc = "sample" => target # NoOne)
  /\ frame \in Seq(Readings \cup {Blank})
  /\ burst \in [Enabled -> Nat]

(* The comment at screenMu: every fade step shows a complete drawing of    *)
(* its screen, never the blank background or half of the rows.             *)
WholeFrames ==
  cpc = "sample" /\ Len(frame) = Len(Rows(target)) =>
    \A i \in 1 .. Len(frame) : frame[i] = drawn[target][Rows(target)[i]]

(* Panel and dashboard are fed from one reading: while a collector sleeps, *)
(* both show what its last lookup of a source found, or the value kept     *)
(* over a failed one.  After any other failure the panel shows no figure,  *)
(* and the dashboard is told of it, where telling it is not left out (the  *)
(* memory) or zero (the CPU), which nothing is claimed about.              *)
PanelAndWebAgree ==
  \A s \in Enabled : pc[s] = "sleep" =>
    \A x \in Sources(s) :
      IF reading[s][x] # Failed
      THEN image[s][x] = reading[s][x] /\ web[x] = reading[s][x]
      ELSE /\ image[s][x] \in {Failed, Blank}
           /\ x \notin Screen[s].withheld \cup Screen[s].zeroed => web[x] = Failed

(* buildSystem's comment: a source that fails at once must not turn the    *)
(* loop into a spin that fills every subscriber's buffer.  A collector     *)
(* publishes at most twice before it has slept a full interval: its first  *)
(* reading or one that took its window, then one that failed at once.      *)
NoSpin == \A s \in Enabled : burst[s] <= 2

(* A lookup that hangs stops its own screen only: the carousel goes on,    *)
(* and so does every collector whose lookups return.                       *)
HungLookupIsLocal ==
  /\ cpc = "ready" ~> cpc = "sample"
  /\ \A s \in Enabled :
       Responsive(s) => (pc[s] \in {"stat", "lock"} ~> pc[s] = "sleep")

=============================================================================
