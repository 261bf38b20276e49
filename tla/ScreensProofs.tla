--------------------------- MODULE ScreensProofs ---------------------------
(***************************************************************************)
(* Proofs about the screens, for any of them enabled and any readings.     *)
(***************************************************************************)
EXTENDS Screens, TLAPS

Cells == Readings \cup {Blank}

RowNames ==
  {"hostname", "lan", "wan", "sdcard", "ssd", "cpu", "mem", "rootfs", "tunnel1", "tunnel2",
   "wireguard", "tailscale"}

(* Every profile lists its rows as a sequence.                             *)
LEMMA RowsAreSequences == \A s \in DOMAIN Screen : Rows(s) \in Seq(RowNames)
  <1>1. HostScreen.rows = <<"hostname">> /\ NetworkScreen.rows = <<"lan", "wan">>
    BY DEF HostScreen, NetworkScreen, Profile
  <1>2. SystemScreen.rows = <<"cpu", "mem", "rootfs">>
    BY DEF SystemScreen, Profile
  <1>3. StorageScreen.rows = <<"sdcard", "ssd">> /\ AutosshScreen.rows = <<"tunnel1", "tunnel2">>
    BY DEF StorageScreen, AutosshScreen, Profile
  <1>4. WireguardScreen.rows = <<"wireguard">> /\ TailscaleScreen.rows = <<"tailscale">>
    BY DEF WireguardScreen, TailscaleScreen, Profile
  <1>5. \A s \in DOMAIN Screen :
          Screen[s] \in {HostScreen, NetworkScreen, StorageScreen, SystemScreen, AutosshScreen,
                         WireguardScreen, TailscaleScreen}
    BY DEF Screen
  <1>6. \A p \in {HostScreen, NetworkScreen, StorageScreen, SystemScreen, AutosshScreen,
                  WireguardScreen, TailscaleScreen} : p.rows \in Seq(RowNames)
    <2> USE DEF RowNames
    <2>1. /\ <<"hostname">> \in Seq(RowNames) /\ <<"lan", "wan">> \in Seq(RowNames)
          /\ <<"cpu", "mem", "rootfs">> \in Seq(RowNames)
          /\ <<"sdcard", "ssd">> \in Seq(RowNames) /\ <<"tunnel1", "tunnel2">> \in Seq(RowNames)
          /\ <<"wireguard">> \in Seq(RowNames) /\ <<"tailscale">> \in Seq(RowNames)
      OBVIOUS
    <2> QED
      BY <1>1, <1>2, <1>3, <1>4, <2>1
  <1> QED
    BY <1>5, <1>6 DEF Rows

(* The lock is never held under the name of nobody or of the carousel by a *)
(* screen.                                                                 *)
LEMMA ScreenNames ==
  \A s \in Enabled : s # NoOne /\ s # Carousel /\ Rows(s) \in Seq(RowNames)
  <1>1. Enabled \subseteq
          {"host", "network", "storage", "system", "autossh", "wireguard", "tailscale"}
    BY EnabledAssumption DEF Screen
  <1>2. \A s \in Enabled : Rows(s) \in Seq(RowNames)
    BY RowsAreSequences, EnabledAssumption
  <1> QED
    BY <1>1, <1>2 DEF NoOne, Carousel

(* The registry is a strict order of the screens.                          *)
LEMMA RegistryOrders ==
  ASSUME NEW s \in Enabled, NEW t \in Enabled
  PROVE  Registry[s] \in Nat /\ Registry[t] \in Nat /\ (s # t => Registry[s] # Registry[t])
  BY EnabledAssumption DEF Screen, Registry

(* New builds one screen at a time.                                        *)
LEMMA OneBuilding ==
  ASSUME NEW s \in Enabled, NEW t \in Enabled, Building(s), Building(t)
  PROVE  s = t
  <1>1. ~(Registry[s] < Registry[t]) /\ ~(Registry[t] < Registry[s])
    BY DEF Building
  <1>2. Registry[s] \in Nat /\ Registry[t] \in Nat /\ (s # t => Registry[s] # Registry[t])
    BY RegistryOrders
  <1> QED
    BY <1>1, <1>2

(* Everything a slice publishes is a row of its screen, or no row at all.  *)
LEMMA SlicesAreSources ==
  \A s \in Enabled : \A i \in 1 .. Len(Screen[s].slices) :
    Screen[s].slices[i] \subseteq Sources(s) \cup {Aside}
  <1> SUFFICES ASSUME NEW s \in Enabled, NEW i \in 1 .. Len(Screen[s].slices)
               PROVE  Screen[s].slices[i] \subseteq Sources(s) \cup {Aside}
    OBVIOUS
  <1>1. s \in {"host", "network", "storage", "system", "autossh", "wireguard", "tailscale"}
    BY EnabledAssumption DEF Screen
  <1>2. /\ HostScreen.rows = <<"hostname">> /\ HostScreen.slices = <<{"hostname", Aside}>>
        /\ NetworkScreen.rows = <<"lan", "wan">> /\ NetworkScreen.slices = <<{"lan", "wan"}>>
    BY DEF HostScreen, NetworkScreen, Profile
  <1>3. /\ SystemScreen.rows = <<"cpu", "mem", "rootfs">>
        /\ SystemScreen.slices = <<{"cpu", Aside}, {"mem"}, {"rootfs"}>>
    BY DEF SystemScreen, Profile
  <1>4. /\ StorageScreen.rows = <<"sdcard", "ssd">>
        /\ StorageScreen.slices = <<{"sdcard"}, {"ssd"}>>
        /\ AutosshScreen.rows = <<"tunnel1", "tunnel2">>
        /\ AutosshScreen.slices = <<{"tunnel1"}, {"tunnel2"}>>
    BY DEF StorageScreen, AutosshScreen, Profile
  <1>5. /\ WireguardScreen.rows = <<"wireguard">> /\ WireguardScreen.slices = <<{"wireguard"}>>
        /\ TailscaleScreen.rows = <<"tailscale">> /\ TailscaleScreen.slices = <<{"tailscale"}>>
    BY DEF WireguardScreen, TailscaleScreen, Profile
  <1>6. CASE s = "host"
    BY <1>2, <1>6 DEF Screen, Sources, Rows, ToSet
  <1>7. CASE s = "network"
    <2>1. Rows(s) = <<"lan", "wan">> /\ Screen[s].slices = <<{"lan", "wan"}>>
      BY <1>2, <1>7 DEF Screen, Rows
    <2> QED
      BY <2>1 DEF Sources, ToSet
  <1>8. CASE s = "storage"
    <2>1. Rows(s) = <<"sdcard", "ssd">> /\ Screen[s].slices = <<{"sdcard"}, {"ssd"}>>
      BY <1>4, <1>8 DEF Screen, Rows
    <2> QED
      BY <2>1 DEF Sources, ToSet
  <1>9. CASE s = "system"
    <2>1. Rows(s) = <<"cpu", "mem", "rootfs">> /\ Screen[s].slices = <<{"cpu", Aside}, {"mem"}, {"rootfs"}>>
      BY <1>3, <1>9 DEF Screen, Rows
    <2>2. i \in {1, 2, 3}
      BY <2>1
    <2>3. Sources(s) = {Rows(s)[k] : k \in 1 .. 3}
      BY <2>1 DEF Sources, ToSet
    <2>4. "cpu" \in Sources(s) /\ "mem" \in Sources(s) /\ "rootfs" \in Sources(s)
      <3>1. Rows(s)[1] \in Sources(s) /\ Rows(s)[2] \in Sources(s) /\ Rows(s)[3] \in Sources(s)
        BY <2>3
      <3> QED
        BY <2>1, <3>1
    <2>5. CASE i = 1
      BY <2>1, <2>4, <2>5
    <2>6. CASE i = 2
      BY <2>1, <2>4, <2>6
    <2>7. CASE i = 3
      BY <2>1, <2>4, <2>7
    <2> QED
      BY <2>2, <2>5, <2>6, <2>7
  <1>10. CASE s = "autossh"
    <2>1. Rows(s) = <<"tunnel1", "tunnel2">> /\ Screen[s].slices = <<{"tunnel1"}, {"tunnel2"}>>
      BY <1>4, <1>10 DEF Screen, Rows
    <2> QED
      BY <2>1 DEF Sources, ToSet
  <1>11. CASE s = "wireguard"
    BY <1>5, <1>11 DEF Screen, Sources, Rows, ToSet
  <1>12. CASE s = "tailscale"
    BY <1>5, <1>12 DEF Screen, Sources, Rows, ToSet
  <1> QED
    BY <1>1, <1>6, <1>7, <1>8, <1>9, <1>10, <1>11, <1>12

(* What a screen publishes is on the dashboard.                            *)
LEMMA SlicesAreFigures ==
  \A s \in Enabled : \A i \in 1 .. Len(Screen[s].slices) :
    Screen[s].slices[i] \subseteq AllFigures
  <1> SUFFICES ASSUME NEW s \in Enabled, NEW i \in 1 .. Len(Screen[s].slices)
               PROVE  Screen[s].slices[i] \subseteq AllFigures
    OBVIOUS
  <1>1. Screen[s].slices[i] \in Slices(s)
    BY DEF Slices, ToSet
  <1> QED
    BY <1>1 DEF AllFigures

(* The k-th row of a screen is one of its sources.                         *)
LEMMA RowIsSource ==
  \A s \in Enabled : \A k \in 1 .. Len(Rows(s)) : Rows(s)[k] \in Sources(s)
  BY ScreenNames DEF Sources, ToSet

(* A collector goroutine starts by sleeping or by looking up.              *)
LEMMA LoopStarts == \A s \in Enabled : Screen[s].loop \in {"stat", "sleep"}
  <1>1. HostScreen.loop = "stat" /\ NetworkScreen.loop = "stat" /\ SystemScreen.loop = "stat"
    BY DEF HostScreen, NetworkScreen, SystemScreen, Profile
  <1>2. /\ StorageScreen.loop = "sleep" /\ AutosshScreen.loop = "sleep"
        /\ WireguardScreen.loop = "sleep" /\ TailscaleScreen.loop = "sleep"
    BY DEF StorageScreen, AutosshScreen, WireguardScreen, TailscaleScreen, Profile
  <1> QED
    BY <1>1, <1>2, EnabledAssumption DEF Screen

-----------------------------------------------------------------------------
(* Nothing is built, drawn or published yet.                               *)
LEMMA TypeInit == Init => TypeOK
  BY DEF Init, TypeOK, Readings

(* A lookup gives each of its sources a reading.                           *)
LEMMA LookupTyped ==
  ASSUME TypeOK, NEW s \in Enabled, NEW xs, Lookup(s, xs)
  PROVE  /\ reading' = [reading EXCEPT ![s] = reading'[s]]
         /\ reading'[s] \in [Sources(s) -> Readings]
         /\ burst' \in [Enabled -> Nat]
  BY DEF Lookup, Resolve, TypeOK, Readings

(* Every step of New, a collector or the carousel keeps the types.         *)
LEMMA TypeStep == TypeOK /\ [Next]_vars => TypeOK'
  <1> SUFFICES ASSUME TypeOK, [Next]_vars PROVE TypeOK'
    OBVIOUS
  <1> USE DEF Readings
  <1>1. ASSUME NEW s \in Enabled, FirstStat(s) PROVE TypeOK'
    <2>1. CASE demo
      <3>1. (CHOOSE g \in Good : TRUE) \in Readings
        BY GoodAssumption
      <3>2. /\ DOMAIN reading' = Enabled
            /\ \A t \in Enabled : reading'[t] \in [Sources(t) -> Readings]
        <4>1. /\ [x \in Sources(s) |-> CHOOSE g \in Good : TRUE] \in [Sources(s) -> Readings]
              /\ reading' = [reading EXCEPT ![s] = [x \in Sources(s) |-> CHOOSE g \in Good : TRUE]]
          BY <1>1, <2>1, <3>1 DEF FirstStat
        <4> QED
          BY <4>1 DEF TypeOK
      <3> QED
        BY <1>1, <2>1, <3>2 DEF FirstStat, TypeOK, drawVars, carouselVars, Goto
    <2>2. CASE ~demo
      BY <1>1, <2>2, LookupTyped DEF FirstStat, TypeOK, drawVars, carouselVars, Goto
    <2> QED
      BY <2>1, <2>2
  <1>2. ASSUME NEW s \in Enabled, Stat(s) PROVE TypeOK'
    BY <1>2, LookupTyped DEF Stat, TypeOK, drawVars, carouselVars, Goto
  <1>3. ASSUME NEW s \in Enabled, Lock(s) PROVE TypeOK'
    BY <1>3 DEF Lock, TypeOK, drawVars, carouselVars, Goto
  <1>4. ASSUME NEW s \in Enabled, Draw(s) PROVE TypeOK'
    <2>1. step[s] \in Nat /\ Len(Rows(s)) \in Nat
      BY ScreenNames DEF TypeOK
    <2>2. image'[s] \in [Sources(s) -> Readings \cup {Blank}]
      <3>1. CASE step[s] = 0
        BY <1>4, <3>1 DEF Draw, TypeOK
      <3>2. CASE step[s] # 0
        <4>1. Rows(s)[step[s]] \in Sources(s)
          BY <1>4, <2>1, <3>2, RowIsSource DEF Draw
        <4>2. Shows(s, Rows(s)[step[s]]) \in Readings \cup {Blank}
          BY <4>1 DEF Shows, TypeOK
        <4> QED
          BY <1>4, <3>2, <4>1, <4>2 DEF Draw, TypeOK
      <3> QED
        BY <3>1, <3>2
    <2>3. DOMAIN image' = Enabled /\ \A t \in Enabled \ {s} : image'[t] = image[t]
      BY <1>4 DEF Draw, TypeOK
    <2>4. step' \in [Enabled -> Nat]
      BY <1>4 DEF Draw, TypeOK
    <2> QED
      BY <1>4, <2>2, <2>3, <2>4 DEF Draw, TypeOK, carouselVars
  <1>5. ASSUME NEW s \in Enabled, Drawn(s) PROVE TypeOK'
    BY <1>5 DEF Drawn, TypeOK, carouselVars, Goto
  <1>6. ASSUME NEW s \in Enabled, Publish(s) PROVE TypeOK'
    <2> DEFINE slices == IF Building(s) /\ ~Screen[s].publishFirst THEN <<>> ELSE Screen[s].slices
    <2>1. step[s] < Len(slices) /\ step[s] \in Nat
      BY <1>6 DEF Publish, TypeOK
    <2>2. slices[step[s] + 1] \subseteq Sources(s) \cup {Aside}
      BY <2>1, SlicesAreSources
    <2>3. \A x \in AllFigures : x \in slices[step[s] + 1] /\ x # Aside =>
            Says(s, x) \in Readings \cup {Blank, Zero}
      BY <2>2 DEF TypeOK, Says
    <2>4. \E aside \in Good \cup {Zero} :
            web' = [x \in AllFigures |-> IF x \notin slices[step[s] + 1] THEN web[x]
                                        ELSE IF x = Aside THEN aside ELSE Says(s, x)]
      BY <1>6 DEF Publish, FoundAside
    <2>5. web' \in [AllFigures -> Readings \cup {Blank, Zero}]
      BY <2>3, <2>4 DEF TypeOK
    <2>6. step' \in [Enabled -> Nat] /\ burst' \in [Enabled -> Nat]
      BY <1>6 DEF Publish, TypeOK
    <2> QED
      BY <1>6, <2>5, <2>6 DEF Publish, TypeOK, carouselVars
  <1>7. ASSUME NEW s \in Enabled, Published(s) PROVE TypeOK'
    <2>1. built' \subseteq Enabled
      BY <1>7 DEF Published, TypeOK
    <2>2. Screen[s].loop \in {"stat", "sleep"}
      BY LoopStarts
    <2>3. pc' \in [Enabled -> {"unbuilt", "stat", "lock", "draw", "publish", "sleep", "done"}]
      BY <1>7, <2>2 DEF Published, TypeOK, Goto
    <2> QED
      BY <1>7, <2>1, <2>3 DEF Published, TypeOK, carouselVars
  <1>8. ASSUME NEW s \in Enabled, Sleep(s) PROVE TypeOK'
    BY <1>8 DEF Sleep, TypeOK, drawVars, carouselVars, Goto
  <1>9. CASE StartCarousel
    BY <1>9 DEF StartCarousel, TypeOK, drawVars
  <1>10. ASSUME NEW s \in Enabled, FadeLock(s) PROVE TypeOK'
    BY <1>10, ScreenNames DEF FadeLock, TypeOK, drawVars
  <1>11. CASE FadeSample
    <2>1. target \in Enabled
      BY <1>11 DEF FadeSample, TypeOK
    <2>2. Rows(target)[Len(frame) + 1] \in Sources(target)
      BY <1>11, <2>1, ScreenNames, RowIsSource DEF FadeSample, TypeOK
    <2>3. frame' \in Seq(Readings \cup {Blank})
      BY <1>11, <2>1, <2>2 DEF FadeSample, TypeOK
    <2> QED
      BY <1>11, <2>3 DEF FadeSample, TypeOK, drawVars
  <1>12. CASE FadeUnlock
    BY <1>12 DEF FadeUnlock, TypeOK, drawVars
  <1>13. CASE UNCHANGED vars
    BY <1>13 DEF vars, TypeOK
  <1> QED
    BY <1>1, <1>2, <1>3, <1>4, <1>5, <1>6, <1>7, <1>8, <1>9, <1>10, <1>11, <1>12, <1>13
    DEF Next, CollectorStep, CarouselStep

(* The state of the screens keeps its types; in particular no screen ever  *)
(* holds the zero value of a failed host name or address lookup.           *)
THEOREM ScreensTypeCorrect == Spec => []TypeOK
  BY TypeInit, TypeStep, PTL DEF Spec

-----------------------------------------------------------------------------
(* Who holds screenMu, and what that means for the image and the frame.    *)
Mutex ==
  /\ \A s \in Enabled : pc[s] = "draw" /\ ~Building(s) => screenMu = s
  /\ (cpc = "sample") = (screenMu = Carousel)
  /\ cpc # "off" => built = Enabled

Images == \A s \in Enabled : pc[s] # "draw" => image[s] = drawn[s]

Sampled ==
  cpc = "sample" =>
    \A i \in 1 .. Len(frame) : frame[i] = image[target][Rows(target)[i]]

FrameInv == Mutex /\ Images /\ Sampled /\ (cpc # "sample" => frame = <<>>)

(* Nothing is drawn and the carousel does not run.                         *)
LEMMA FrameInit == Init => FrameInv
  BY DEF Init, FrameInv, Mutex, Images, Sampled, Carousel, NoOne

(* While the carousel samples, its screen is not being drawn.              *)
LEMMA NotDrawnWhileSampled ==
  ASSUME TypeOK, FrameInv, cpc = "sample", NEW s \in Enabled
  PROVE  pc[s] # "draw"
  BY ScreenNames DEF FrameInv, Mutex, Building, TypeOK

(* Every step keeps the lock's owner, the images and the frame in line.    *)
LEMMA FrameStep == TypeOK /\ FrameInv /\ [Next]_vars => FrameInv'
  <1> SUFFICES ASSUME TypeOK, FrameInv, [Next]_vars PROVE FrameInv'
    OBVIOUS
  <1> USE ScreenNames DEF FrameInv, Mutex, Images, Sampled
  <1>1. ASSUME NEW s \in Enabled, FirstStat(s) PROVE FrameInv'
    BY <1>1 DEF FirstStat, TypeOK, drawVars, carouselVars, Goto, Building
  <1>2. ASSUME NEW s \in Enabled, Stat(s) PROVE FrameInv'
    BY <1>2 DEF Stat, TypeOK, drawVars, carouselVars, Goto, Building
  <1>3. ASSUME NEW s \in Enabled, Lock(s) PROVE FrameInv'
    BY <1>3 DEF Lock, TypeOK, drawVars, carouselVars, Goto, Building, NoOne, Carousel
  <1>4. ASSUME NEW s \in Enabled, Draw(s) PROVE FrameInv'
    BY <1>4, NotDrawnWhileSampled DEF Draw, TypeOK, carouselVars, Building
  <1>5. ASSUME NEW s \in Enabled, Drawn(s) PROVE FrameInv'
    BY <1>5, NotDrawnWhileSampled DEF Drawn, TypeOK, carouselVars, Goto, Building, NoOne, Carousel
  <1>6. ASSUME NEW s \in Enabled, Publish(s) PROVE FrameInv'
    BY <1>6 DEF Publish, TypeOK, carouselVars, Building
  <1>7. ASSUME NEW s \in Enabled, Published(s) PROVE FrameInv'
    <2>1. pc'[s] # "draw" /\ \A t \in Enabled \ {s} : pc'[t] = pc[t]
      BY <1>7, LoopStarts DEF Published, TypeOK, Goto
    <2>2. CASE Building(s)
      <3>1. cpc = "off" /\ \A t \in Enabled \ {s} : ~Building(t)
        <4>1. built # Enabled
          BY <2>2 DEF Building
        <4> QED
          BY <2>2, <4>1, OneBuilding
      <3>2. UNCHANGED <<screenMu, cpc, target, frame, image, drawn>>
        BY <1>7 DEF Published, carouselVars
      <3>3. Mutex'
        BY <2>1, <3>1, <3>2
      <3>4. Images'
        BY <1>7, <2>1, <2>2, <3>2 DEF Published
      <3> QED
        BY <3>1, <3>2, <3>3, <3>4
    <2>3. CASE ~Building(s)
      BY <1>7, <2>1, <2>3 DEF Published, carouselVars, Building
    <2> QED
      BY <2>2, <2>3
  <1>8. ASSUME NEW s \in Enabled, Sleep(s) PROVE FrameInv'
    BY <1>8 DEF Sleep, TypeOK, drawVars, carouselVars, Goto, Building
  <1>9. CASE StartCarousel
    BY <1>9 DEF StartCarousel, TypeOK, drawVars, Building
  <1>10. ASSUME NEW s \in Enabled, FadeLock(s) PROVE FrameInv'
    <2>1. frame' = <<>> /\ Len(frame') = 0
      BY <1>10 DEF FadeLock
    <2>2. Mutex'
      BY <1>10 DEF FadeLock, drawVars, Building, NoOne, Carousel
    <2>3. Images'
      BY <1>10 DEF FadeLock, drawVars
    <2> QED
      BY <1>10, <2>1, <2>2, <2>3 DEF FadeLock
  <1>11. CASE FadeSample
    BY <1>11 DEF FadeSample, TypeOK, drawVars, Building
  <1>12. CASE FadeUnlock
    BY <1>12 DEF FadeUnlock, TypeOK, drawVars, Building, NoOne, Carousel
  <1>13. CASE UNCHANGED vars
    BY <1>13 DEF vars, Building
  <1> QED
    BY <1>1, <1>2, <1>3, <1>4, <1>5, <1>6, <1>7, <1>8, <1>9, <1>10, <1>11, <1>12, <1>13
    DEF Next, CollectorStep, CarouselStep

(* A fade step shows one complete drawing, whatever is redrawn meanwhile:  *)
(* the carousel and the collectors exclude each other, and New draws       *)
(* without the lock only while there is no carousel.                       *)
THEOREM ScreensWholeFrames == Spec => []WholeFrames
  <1>1. TypeOK /\ FrameInv => WholeFrames
    <2> SUFFICES ASSUME TypeOK, FrameInv, cpc = "sample" PROVE WholeFrames
      BY DEF WholeFrames
    <2>1. target \in Enabled
      BY DEF TypeOK
    <2>2. image[target] = drawn[target]
      BY <2>1, NotDrawnWhileSampled DEF FrameInv, Images
    <2> QED
      BY <2>2 DEF WholeFrames, FrameInv, Sampled
  <1> QED
    BY TypeInit, TypeStep, FrameInit, FrameStep, <1>1, PTL DEF Spec

-----------------------------------------------------------------------------
(* Screens the loop of New has not come to.                                *)
Later(s) == s \notin built /\ ~Building(s)

(* How often a collector can have published since it last slept, by where  *)
(* it is: New's publication and the first of its goroutine may follow one  *)
(* another, and so may one after a full window and one that failed.        *)
SpinInv ==
  \A s \in Enabled :
    /\ burst[s] <= 2
    /\ pc[s] # "sleep" /\ (pc[s] = "publish" => step[s] = 0) => burst[s] <= 1
    /\ Later(s) => pc[s] = "unbuilt"
    /\ pc[s] = "unbuilt" => burst[s] = 0
    /\ Building(s) =>
         /\ pc[s] \in {"unbuilt", "draw", "publish"} /\ burst[s] <= 1
         /\ (pc[s] = "publish" => step[s] = 0) => burst[s] = 0

(* Nothing is published yet.                                               *)
LEMMA SpinInit == Init => SpinInv
  BY DEF Init, SpinInv

(* A lookup lets a collector's count be or resets it.                      *)
LEMMA LookupBurst ==
  ASSUME TypeOK, NEW s \in Enabled, NEW xs, Lookup(s, xs)
  PROVE  /\ burst'[s] \in {0, burst[s]}
         /\ \A t \in Enabled \ {s} : burst'[t] = burst[t]
  BY DEF Lookup, TypeOK

(* Every step keeps the counts.                                            *)
LEMMA SpinStep == TypeOK /\ SpinInv /\ [Next]_vars => SpinInv'
  <1> SUFFICES ASSUME TypeOK, SpinInv, [Next]_vars PROVE SpinInv'
    OBVIOUS
  <1> USE DEF SpinInv
  <1>1. ASSUME NEW s \in Enabled, FirstStat(s) PROVE SpinInv'
    <2>1. burst'[s] \in {0, burst[s]} /\ \A t \in Enabled \ {s} : burst'[t] = burst[t]
      BY <1>1, LookupBurst DEF FirstStat
    <2> QED
      BY <1>1, <2>1 DEF FirstStat, TypeOK, drawVars, Goto, Building, Later
  <1>2. ASSUME NEW s \in Enabled, Stat(s) PROVE SpinInv'
    <2>1. burst'[s] \in {0, burst[s]} /\ \A t \in Enabled \ {s} : burst'[t] = burst[t]
      BY <1>2, LookupBurst DEF Stat
    <2> QED
      BY <1>2, <2>1 DEF Stat, TypeOK, drawVars, Goto, Building, Later
  <1>3. ASSUME NEW s \in Enabled, Lock(s) PROVE SpinInv'
    BY <1>3 DEF Lock, TypeOK, drawVars, Goto, Building, Later
  <1>4. ASSUME NEW s \in Enabled, Draw(s) PROVE SpinInv'
    BY <1>4 DEF Draw, TypeOK, Building, Later
  <1>5. ASSUME NEW s \in Enabled, Drawn(s) PROVE SpinInv'
    BY <1>5 DEF Drawn, TypeOK, Goto, Building, Later
  <1>6. ASSUME NEW s \in Enabled, Publish(s) PROVE SpinInv'
    BY <1>6 DEF Publish, TypeOK, Building, Later
  <1>7. ASSUME NEW s \in Enabled, Published(s) PROVE SpinInv'
    <2>1. pc'[s] \in {"done", "sleep", "stat"} /\ \A t \in Enabled \ {s} : pc'[t] = pc[t]
      BY <1>7, LoopStarts DEF Published, TypeOK, Goto
    <2>2. CASE Building(s)
      <3>1. built' = built \cup {s} /\ burst' = burst /\ burst[s] <= 1
        BY <1>7, <2>2 DEF Published
      <3>2. ~Building(s)' /\ ~Later(s)'
        BY <3>1 DEF Building, Later
      <3>3. \A t \in Enabled : Later(t)' => Later(t)
        BY <3>1, <2>2, RegistryOrders DEF Building, Later
      <3>4. \A t \in Enabled : Building(t)' => Later(t)
        BY <3>1, <2>2, OneBuilding DEF Building, Later
      <3>5. \A t \in Enabled \ {s} : step'[t] = step[t]
        BY <1>7 DEF Published, TypeOK
      <3> QED
        BY <2>1, <3>1, <3>2, <3>3, <3>4, <3>5 DEF TypeOK
    <2>3. CASE ~Building(s)
      BY <1>7, <2>1, <2>3 DEF Published, TypeOK, Goto, Building, Later
    <2> QED
      BY <2>2, <2>3
  <1>8. ASSUME NEW s \in Enabled, Sleep(s) PROVE SpinInv'
    BY <1>8 DEF Sleep, TypeOK, drawVars, Goto, Building, Later
  <1>9. CASE CarouselStep
    BY <1>9 DEF CarouselStep, StartCarousel, FadeLock, FadeSample, FadeUnlock, drawVars, Building,
       Later
  <1>10. CASE UNCHANGED vars
    BY <1>10 DEF vars, Building, Later
  <1> QED
    BY <1>1, <1>2, <1>3, <1>4, <1>5, <1>6, <1>7, <1>8, <1>9, <1>10
    DEF Next, CollectorStep

(* No collector publishes more than twice before it has slept a full       *)
(* interval, however its lookups fail.                                     *)
THEOREM ScreensNoSpin == Spec => []NoSpin
  <1>1. SpinInv => NoSpin
    BY DEF SpinInv, NoSpin
  <1> QED
    BY TypeInit, TypeStep, SpinInit, SpinStep, <1>1, PTL DEF Spec

-----------------------------------------------------------------------------
(* The screen each source belongs to.                                      *)
Owner ==
  [hostname |-> "host", lan |-> "network", wan |-> "network", sdcard |-> "storage",
   ssd |-> "storage", cpu |-> "system", mem |-> "system", rootfs |-> "system",
   tunnel1 |-> "autossh", tunnel2 |-> "autossh", wireguard |-> "wireguard",
   tailscale |-> "tailscale"]

(* No two screens have a source in common.                                 *)
LEMMA SourcesOwned == \A s \in Enabled : \A x \in Sources(s) : Owner[x] = s
  <1> SUFFICES ASSUME NEW s \in Enabled, NEW x \in Sources(s) PROVE Owner[x] = s
    OBVIOUS
  <1>1. s \in {"host", "network", "storage", "system", "autossh", "wireguard", "tailscale"}
    BY EnabledAssumption DEF Screen
  <1>2. PICK k \in 1 .. Len(Rows(s)) : x = Rows(s)[k]
    BY DEF Sources, ToSet
  <1>3. CASE s = "host"
    <2>1. Rows(s) = <<"hostname">>
      BY <1>3 DEF Rows, Screen, HostScreen, Profile
    <2> QED
      BY <1>2, <1>3, <2>1 DEF Owner
  <1>4. CASE s = "network"
    <2>1. Rows(s) = <<"lan", "wan">>
      BY <1>4 DEF Rows, Screen, NetworkScreen, Profile
    <2> QED
      BY <1>2, <1>4, <2>1 DEF Owner
  <1>5. CASE s = "storage"
    <2>1. Rows(s) = <<"sdcard", "ssd">>
      BY <1>5 DEF Rows, Screen, StorageScreen, Profile
    <2> QED
      BY <1>2, <1>5, <2>1 DEF Owner
  <1>6. CASE s = "system"
    <2>1. Rows(s) = <<"cpu", "mem", "rootfs">>
      BY <1>6 DEF Rows, Screen, SystemScreen, Profile
    <2> QED
      BY <1>2, <1>6, <2>1 DEF Owner
  <1>7. CASE s = "autossh"
    <2>1. Rows(s) = <<"tunnel1", "tunnel2">>
      BY <1>7 DEF Rows, Screen, AutosshScreen, Profile
    <2> QED
      BY <1>2, <1>7, <2>1 DEF Owner
  <1>8. CASE s = "wireguard"
    <2>1. Rows(s) = <<"wireguard">>
      BY <1>8 DEF Rows, Screen, WireguardScreen, Profile
    <2> QED
      BY <1>2, <1>8, <2>1 DEF Owner
  <1>9. CASE s = "tailscale"
    <2>1. Rows(s) = <<"tailscale">>
      BY <1>9 DEF Rows, Screen, TailscaleScreen, Profile
    <2> QED
      BY <1>2, <1>9, <2>1 DEF Owner
  <1> QED
    BY <1>1, <1>3, <1>4, <1>5, <1>6, <1>7, <1>8, <1>9

(* Every source of a screen is in one of the slices it publishes.          *)
LEMMA SlicesCover ==
  \A s \in Enabled : \A x \in Sources(s) :
    \E i \in 1 .. Len(Screen[s].slices) : x \in Screen[s].slices[i]
  <1> SUFFICES ASSUME NEW s \in Enabled, NEW x \in Sources(s)
               PROVE  \E i \in 1 .. Len(Screen[s].slices) : x \in Screen[s].slices[i]
    OBVIOUS
  <1>1. s \in {"host", "network", "storage", "system", "autossh", "wireguard", "tailscale"}
    BY EnabledAssumption DEF Screen
  <1>2. PICK k \in 1 .. Len(Rows(s)) : x = Rows(s)[k]
    BY DEF Sources, ToSet
  <1>3. CASE s = "host"
    <2>1. Rows(s) = <<"hostname">> /\ Screen[s].slices = <<{"hostname", Aside}>>
      BY <1>3 DEF Rows, Screen, HostScreen, Profile
    <2> QED
      BY <1>2, <2>1
  <1>4. CASE s = "network"
    <2>1. Rows(s) = <<"lan", "wan">> /\ Screen[s].slices = <<{"lan", "wan"}>>
      BY <1>4 DEF Rows, Screen, NetworkScreen, Profile
    <2> QED
      BY <1>2, <2>1
  <1>5. CASE s = "storage"
    <2>1. Rows(s) = <<"sdcard", "ssd">> /\ Screen[s].slices = <<{"sdcard"}, {"ssd"}>>
      BY <1>5 DEF Rows, Screen, StorageScreen, Profile
    <2> QED
      BY <1>2, <2>1
  <1>6. CASE s = "system"
    <2>1. /\ Rows(s) = <<"cpu", "mem", "rootfs">>
          /\ Screen[s].slices = <<{"cpu", Aside}, {"mem"}, {"rootfs"}>>
      BY <1>6 DEF Rows, Screen, SystemScreen, Profile
    <2> QED
      BY <1>2, <2>1
  <1>7. CASE s = "autossh"
    <2>1. Rows(s) = <<"tunnel1", "tunnel2">> /\ Screen[s].slices = <<{"tunnel1"}, {"tunnel2"}>>
      BY <1>7 DEF Rows, Screen, AutosshScreen, Profile
    <2> QED
      BY <1>2, <2>1
  <1>8. CASE s = "wireguard"
    <2>1. Rows(s) = <<"wireguard">> /\ Screen[s].slices = <<{"wireguard"}>>
      BY <1>8 DEF Rows, Screen, WireguardScreen, Profile
    <2> QED
      BY <1>2, <2>1
  <1>9. CASE s = "tailscale"
    <2>1. Rows(s) = <<"tailscale">> /\ Screen[s].slices = <<{"tailscale"}>>
      BY <1>9 DEF Rows, Screen, TailscaleScreen, Profile
    <2> QED
      BY <1>2, <2>1
  <1> QED
    BY <1>1, <1>3, <1>4, <1>5, <1>6, <1>7, <1>8, <1>9

(* A screen that sleeps at once has been published by New.                 *)
LEMMA SleepersPublished ==
  \A s \in Enabled : Screen[s].loop = "sleep" => Screen[s].publishFirst
  <1>1. HostScreen.loop # "sleep"
    BY DEF HostScreen, Profile
  <1>2. /\ NetworkScreen.publishFirst /\ StorageScreen.publishFirst
        /\ SystemScreen.publishFirst /\ AutosshScreen.publishFirst
        /\ WireguardScreen.publishFirst /\ TailscaleScreen.publishFirst
    BY DEF NetworkScreen, StorageScreen, SystemScreen, AutosshScreen, WireguardScreen,
       TailscaleScreen, Profile
  <1> QED
    BY <1>1, <1>2, EnabledAssumption DEF Screen

(* Every source is among the figures of the dashboard, and none of them is *)
(* the one that only the dashboard shows.                                  *)
LEMMA SourcesPublished ==
  \A s \in Enabled : \A x \in Sources(s) : x \in AllFigures /\ x # Aside
  <1>1. \A s \in Enabled : \A x \in Sources(s) : x \in AllFigures
    BY SlicesCover, SlicesAreFigures
  <1>2. \A s \in Enabled : \A x \in Sources(s) : x \in RowNames
    BY ScreenNames DEF Sources, ToSet
  <1> QED
    BY <1>1, <1>2 DEF RowNames, Aside

(* What the dashboard may say of a source, given its reading.              *)
Agrees(s, x) ==
  IF reading[s][x] # Failed THEN web[x] = reading[s][x]
  ELSE x \notin Screen[s].withheld \cup Screen[s].zeroed => web[x] = Failed

(* The image follows the reading it is drawn from, row by row.             *)
DrawnFromReading(s) ==
  /\ pc[s] \notin {"draw", "publish"} => step[s] = 0
  /\ pc[s] = "draw" =>
       \A k \in 1 .. Len(Rows(s)) :
         k < step[s] => image[s][Rows(s)[k]] = Shows(s, Rows(s)[k])
  /\ pc[s] \in {"publish", "sleep"} => \A x \in Sources(s) : image[s][x] = Shows(s, x)

(* The dashboard follows it slice by slice.                                *)
PublishedFromReading(s) ==
  /\ pc[s] = "publish" =>
       \A i \in 1 .. Len(Screen[s].slices) :
         i <= step[s] => \A x \in Screen[s].slices[i] : x # Aside => Agrees(s, x)
  /\ pc[s] = "sleep" => \A x \in Sources(s) : Agrees(s, x)

AgreeInv == \A s \in Enabled : DrawnFromReading(s) /\ PublishedFromReading(s)

(* Nothing is drawn or published yet.                                      *)
LEMMA AgreeInit == Init => AgreeInv
  BY DEF Init, AgreeInv, DrawnFromReading, PublishedFromReading

(* A screen whose own variables and figures a step leaves alone.           *)
LEMMA AgreeUntouched ==
  ASSUME NEW s \in Enabled, DrawnFromReading(s), PublishedFromReading(s),
         pc'[s] = pc[s], step'[s] = step[s], image'[s] = image[s], reading'[s] = reading[s],
         \A x \in Sources(s) : web'[x] = web[x]
  PROVE  DrawnFromReading(s)' /\ PublishedFromReading(s)'
  <1>1. DrawnFromReading(s)'
    BY DEF DrawnFromReading, Shows
  <1>2. \A x \in Sources(s) : Agrees(s, x) => Agrees(s, x)'
    BY DEF Agrees
  <1>3. PublishedFromReading(s)'
    <2>1. \A i \in 1 .. Len(Screen[s].slices) : \A x \in Screen[s].slices[i] :
            x # Aside => x \in Sources(s)
      BY SlicesAreSources
    <2> QED
      BY <1>2, <2>1 DEF PublishedFromReading
  <1> QED
    BY <1>1, <1>3

(* What Publish says of a source agrees with its reading.                  *)
LEMMA SaysAgrees ==
  ASSUME NEW s \in Enabled, NEW x \in Sources(s),
         web'[x] = Says(s, x), reading' = reading
  PROVE  Agrees(s, x)'
  BY DEF Says, Agrees

(* Every step keeps panel and dashboard on one reading.                    *)
LEMMA AgreeStep == TypeOK /\ AgreeInv /\ [Next]_vars => AgreeInv'
  <1> SUFFICES ASSUME TypeOK, AgreeInv, [Next]_vars,
                      NEW s \in Enabled
               PROVE  DrawnFromReading(s)' /\ PublishedFromReading(s)'
    BY DEF AgreeInv
  <1>0. DrawnFromReading(s) /\ PublishedFromReading(s)
    BY DEF AgreeInv
  <1>1. ASSUME NEW t \in Enabled, FirstStat(t) \/ Stat(t)
        PROVE  DrawnFromReading(s)' /\ PublishedFromReading(s)'
    <2>1. /\ UNCHANGED <<step, image, web>>
          /\ pc[t] \in {"unbuilt", "stat"}
          /\ pc' = [pc EXCEPT ![t] = "draw"] \/ pc' = [pc EXCEPT ![t] = "lock"]
      BY <1>1 DEF FirstStat, Stat, drawVars, Goto
    <2>2. \A u \in Enabled \ {t} : reading'[u] = reading[u]
      BY <1>1, LookupTyped DEF FirstStat, Stat, TypeOK
    <2>3. CASE s = t
      <3>1. step'[s] = 0 /\ pc'[s] \in {"draw", "lock"}
        BY <1>0, <2>1, <2>3 DEF DrawnFromReading, Shows, TypeOK
      <3>2. DrawnFromReading(s)'
        BY <3>1, ScreenNames DEF DrawnFromReading, Shows
      <3>3. PublishedFromReading(s)'
        BY <1>0, <2>1, <3>1 DEF PublishedFromReading
      <3> QED
        BY <3>2, <3>3
    <2>4. CASE s # t
      BY <1>0, <2>1, <2>2, <2>4, AgreeUntouched DEF TypeOK
    <2> QED
      BY <2>3, <2>4
  <1>2. ASSUME NEW t \in Enabled, Lock(t) \/ Sleep(t)
        PROVE  DrawnFromReading(s)' /\ PublishedFromReading(s)'
    <2>1. /\ UNCHANGED <<step, image, web, reading>>
          /\ pc[t] \in {"lock", "sleep"}
          /\ pc' = [pc EXCEPT ![t] = "draw"] \/ pc' = [pc EXCEPT ![t] = "stat"]
      BY <1>2 DEF Lock, Sleep, drawVars, Goto
    <2>2. CASE s = t
      <3>1. step'[s] = 0 /\ pc'[s] \in {"draw", "stat"}
        BY <1>0, <2>1, <2>2 DEF DrawnFromReading, Shows, TypeOK
      <3>2. DrawnFromReading(s)'
        BY <3>1, ScreenNames DEF DrawnFromReading, Shows
      <3>3. PublishedFromReading(s)'
        BY <1>0, <2>1, <3>1 DEF PublishedFromReading
      <3> QED
        BY <3>2, <3>3
    <2>3. CASE s # t
      BY <1>0, <2>1, <2>3, AgreeUntouched DEF TypeOK
    <2> QED
      BY <2>2, <2>3
  <1>3. ASSUME NEW t \in Enabled, Draw(t)
        PROVE  DrawnFromReading(s)' /\ PublishedFromReading(s)'
    <2>1. /\ UNCHANGED <<pc, web, reading>>
          /\ pc[t] = "draw" /\ step' = [step EXCEPT ![t] = @ + 1]
          /\ step[t] <= Len(Rows(t))
      BY <1>3 DEF Draw
    <2>2. CASE s = t
      <3>1. PublishedFromReading(s)'
        BY <1>0, <2>1, <2>2 DEF PublishedFromReading
      <3>2. step[s] \in Nat /\ step'[s] = step[s] + 1
        BY <2>1, <2>2 DEF TypeOK
      <3>3. CASE step[s] = 0
        BY <2>1, <2>2, <3>1, <3>2, <3>3, ScreenNames DEF DrawnFromReading, Shows
      <3>4. CASE step[s] # 0
        <4>1. /\ step[s] \in 1 .. Len(Rows(s))
              /\ Rows(s)[step[s]] \in Sources(s)
          BY <2>1, <2>2, <3>2, <3>4, RowIsSource, ScreenNames
        <4>2. image'[s] = [image[s] EXCEPT ![Rows(s)[step[s]]] = Shows(s, Rows(s)[step[s]])]
          BY <1>3, <2>2, <3>4 DEF Draw, TypeOK
        <4>3. ASSUME NEW k \in 1 .. Len(Rows(s)), k < step'[s]
              PROVE  image'[s][Rows(s)[k]] = Shows(s, Rows(s)[k])
          <5>1. Rows(s)[k] \in Sources(s)
            BY RowIsSource
          <5>2. CASE Rows(s)[k] = Rows(s)[step[s]]
            BY <4>1, <4>2, <5>2 DEF TypeOK
          <5>3. CASE Rows(s)[k] # Rows(s)[step[s]]
            <6>1. k < step[s]
              BY <3>2, <4>3, <5>3, ScreenNames
            <6> QED
              BY <1>0, <2>1, <2>2, <4>2, <5>1, <5>3, <6>1 DEF DrawnFromReading, Shows, TypeOK
          <5> QED
            BY <5>2, <5>3
        <4> QED
          BY <2>1, <2>2, <3>1, <4>3 DEF DrawnFromReading, Shows
      <3> QED
        BY <3>1, <3>3, <3>4, <2>1, <2>2 DEF DrawnFromReading, Shows
    <2>3. CASE s # t
      <3>1. image'[s] = image[s] /\ step'[s] = step[s]
        BY <1>3, <2>3 DEF Draw, TypeOK
      <3> QED
        BY <1>0, <2>1, <3>1, AgreeUntouched
    <2> QED
      BY <2>2, <2>3
  <1>4. ASSUME NEW t \in Enabled, Drawn(t)
        PROVE  DrawnFromReading(s)' /\ PublishedFromReading(s)'
    <2>1. /\ UNCHANGED <<image, web, reading>>
          /\ pc[t] = "draw" /\ pc' = [pc EXCEPT ![t] = "publish"]
          /\ step' = [step EXCEPT ![t] = 0] /\ step[t] > Len(Rows(t))
      BY <1>4 DEF Drawn, Goto
    <2>2. CASE s = t
      <3>1. pc'[s] = "publish" /\ step'[s] = 0
        BY <2>1, <2>2 DEF TypeOK
      <3>2. ASSUME NEW x \in Sources(s) PROVE image[s][x] = Shows(s, x)
        <4>1. PICK k \in 1 .. Len(Rows(s)) : x = Rows(s)[k]
          BY DEF Sources, ToSet
        <4>2. k < step[s]
          BY <2>1, <2>2, ScreenNames DEF TypeOK
        <4> QED
          BY <1>0, <2>1, <2>2, <4>1, <4>2 DEF DrawnFromReading, Shows
      <3>3. DrawnFromReading(s)'
        BY <2>1, <3>1, <3>2 DEF DrawnFromReading, Shows
      <3>4. PublishedFromReading(s)'
        BY <1>0, <2>1, <3>1 DEF PublishedFromReading
      <3> QED
        BY <3>3, <3>4
    <2>3. CASE s # t
      BY <1>0, <2>1, <2>3, AgreeUntouched DEF TypeOK
    <2> QED
      BY <2>2, <2>3
  <1>5. ASSUME NEW t \in Enabled, Publish(t)
        PROVE  DrawnFromReading(s)' /\ PublishedFromReading(s)'
    <2> DEFINE slice == Screen[t].slices[step[t] + 1]
    <2>0. ~(Building(t) /\ ~Screen[t].publishFirst) /\ step[t] \in Nat
      <3>1. step[t] \in Nat /\ Len(<< >>) = 0
        BY DEF TypeOK
      <3> QED
        BY <1>5, <3>1 DEF Publish
    <2>1. /\ UNCHANGED <<pc, image, reading>>
          /\ pc[t] = "publish" /\ step' = [step EXCEPT ![t] = @ + 1]
          /\ step[t] < Len(Screen[t].slices) /\ step[t] \in Nat
      BY <1>5, <2>0 DEF Publish
    <2>2. \A x \in AllFigures : x # Aside =>
            web'[x] = IF x \in slice THEN Says(t, x) ELSE web[x]
      BY <1>5, <2>0 DEF Publish
    <2>3. slice \subseteq Sources(t) \cup {Aside}
      BY <2>1, SlicesAreSources
    <2>4. CASE s = t
      <3>1. DrawnFromReading(s)'
        BY <1>0, <2>1, <2>4 DEF DrawnFromReading, Shows
      <3>2. ASSUME NEW x \in Sources(s)
            PROVE  x \in slice \/ Agrees(s, x) => Agrees(s, x)'
        <4>1. x \in AllFigures /\ x # Aside
          BY SourcesPublished
        <4>2. CASE x \in slice
          BY <2>1, <2>2, <2>4, <4>1, <4>2, SaysAgrees
        <4>3. CASE x \notin slice
          BY <2>1, <2>2, <4>1, <4>3 DEF Agrees
        <4> QED
          BY <4>2, <4>3
      <3>3. step'[s] = step[s] + 1
        BY <2>1, <2>4 DEF TypeOK
      <3>4. ASSUME NEW i \in 1 .. Len(Screen[s].slices), i <= step'[s],
                   NEW x \in Screen[s].slices[i], x # Aside
            PROVE  Agrees(s, x)'
        <4>1. x \in Sources(s)
          BY <3>4, SlicesAreSources
        <4>2. i <= step[s] \/ i = step[s] + 1
          BY <2>1, <2>4, <3>3, <3>4
        <4>3. x \in slice \/ Agrees(s, x)
          BY <1>0, <2>1, <2>4, <3>4, <4>2 DEF PublishedFromReading
        <4> QED
          BY <3>2, <4>1, <4>3
      <3>5. PublishedFromReading(s)'
        BY <2>1, <2>4, <3>2, <3>4 DEF PublishedFromReading
      <3> QED
        BY <3>1, <3>5
    <2>5. CASE s # t
      <3>1. \A x \in Sources(s) : x \in AllFigures /\ x # Aside /\ x \notin slice
        BY <2>3, <2>5, SourcesOwned, SourcesPublished
      <3>2. \A x \in Sources(s) : web'[x] = web[x]
        BY <2>2, <3>1
      <3> QED
        BY <1>0, <2>1, <2>5, <3>2, AgreeUntouched DEF TypeOK
    <2> QED
      BY <2>4, <2>5
  <1>6. ASSUME NEW t \in Enabled, Published(t)
        PROVE  DrawnFromReading(s)' /\ PublishedFromReading(s)'
    <2>1. /\ UNCHANGED <<image, web, reading>>
          /\ pc[t] = "publish" /\ step' = [step EXCEPT ![t] = 0]
          /\ step[t] = Len(Screen[t].slices) \/ (Building(t) /\ ~Screen[t].publishFirst)
          /\ \/ Building(t) /\ (Goto(t, "done") \/ Goto(t, Screen[t].loop))
             \/ ~Building(t) /\ Goto(t, "sleep")
      BY <1>6 DEF Published
    <2>2. CASE s = t
      <3>1. pc'[s] \in {"done", "stat", "sleep"} /\ step'[s] = 0
        BY <2>1, <2>2, LoopStarts DEF Goto, TypeOK
      <3>2. pc'[s] = "sleep" => step[s] = Len(Screen[s].slices)
        BY <2>1, <2>2, SleepersPublished DEF Goto, TypeOK
      <3>3. DrawnFromReading(s)'
        BY <1>0, <2>1, <2>2, <3>1 DEF DrawnFromReading, Shows
      <3>4. ASSUME pc'[s] = "sleep", NEW x \in Sources(s) PROVE Agrees(s, x)'
        <4>1. PICK i \in 1 .. Len(Screen[s].slices) : x \in Screen[s].slices[i]
          BY SlicesCover
        <4>2. Agrees(s, x)
          <5>1. i <= step[s]
            BY <3>2, <3>4 DEF TypeOK
          <5> QED
            BY <1>0, <2>1, <2>2, <4>1, <5>1, SourcesPublished DEF PublishedFromReading
        <4> QED
          BY <2>1, <4>2 DEF Agrees
      <3>5. PublishedFromReading(s)'
        BY <1>0, <2>1, <3>1, <3>4 DEF PublishedFromReading
      <3> QED
        BY <3>3, <3>5
    <2>3. CASE s # t
      BY <1>0, <2>1, <2>3, AgreeUntouched DEF TypeOK, Goto
    <2> QED
      BY <2>2, <2>3
  <1>7. CASE CarouselStep \/ UNCHANGED vars
    <2>1. UNCHANGED <<pc, step, image, reading, web>>
      BY <1>7 DEF CarouselStep, StartCarousel, FadeLock, FadeSample, FadeUnlock, drawVars, vars
    <2> QED
      BY <1>0, <2>1, AgreeUntouched
  <1> QED
    BY <1>1, <1>2, <1>3, <1>4, <1>5, <1>6, <1>7 DEF Next, CollectorStep

(* Panel and dashboard are fed from one reading: when a collector goes to  *)
(* sleep both show what its last lookup of each source found or the value  *)
(* kept over a failed one; after any other failure the panel shows no      *)
(* figure and the dashboard is told, but for the memory and the CPU.       *)
THEOREM ScreensPanelAndWebAgree == Spec => []PanelAndWebAgree
  <1>1. AgreeInv => PanelAndWebAgree
    BY DEF AgreeInv, DrawnFromReading, PublishedFromReading, Agrees, Shows, PanelAndWebAgree
  <1> QED
    BY TypeInit, TypeStep, AgreeInit, AgreeStep, <1>1, PTL DEF Spec
=============================================================================
