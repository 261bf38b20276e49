# cloudkey, specified and checked

`cloudkey` is a Go daemon for the UniFi Cloud Key Gen2: it drives the front
panel (a small OLED, a blue and a white LED, a reset button) and serves a live
dashboard page over HTTP and server-sent events.  This directory holds TLA+
models of it, TLC runs over small instances, and TLAPS proofs.  Paths and line
numbers below are relative to `src/`.

## The system

| component | source | state | operations | talks to |
|---|---|---|---|---|
| state hub | `internal/state/state.go` | one `Snapshot`, a map of subscriber channels (capacity 8), one mutex | `Subscribe`/cancel, `Publish*`, `Snapshot` | collectors call `Publish*`; SSE handlers hold a channel |
| SSE server | `internal/api/api.go` | one goroutine per request with a channel and a TCP connection | `Serve`, `sseHandler` | hub, page, `main` |
| page | `website/dashboard.html` | `data`, `connected`, an `EventSource` | `onmessage`, `onerror`, `mergePatch` | SSE server |
| front panel | `internal/display/display.go`, `stealth.go`, `functions.go` | framebuffer, two LEDs, `stealthOn`, `stealthToggle`, rotation index | `New`, the carousel, `ToggleStealth`, `Shutdown` | button watcher, signal handler, screens |
| screens and collectors | `internal/display/screens.go` | one image and one goroutine per screen, `screenMu` | stat, redraw, publish | carousel (reads the images), hub |
| app liveness | `internal/api/apps.go` | the configured apps; the rest lives for one scan | scan `/proc/*/net/tcp*`, probe | hub |
| process | `cmd/cloudkey/main.go` | pidfile, server context, `serverDone` | start everything, signal handler | all of the above |
| reset button | `pkg/resetbutton` | time of the last key-down | `Watch`, `classify` | `ToggleStealth` |
| framebuffer driver | `pkg/framebuffer` | the mapped memory | `Open`, `Set`, `At` | panel, screens |
| tunnel readers | `pkg/wireguard`, `pkg/tailscale`, `pkg/systemd` | none | run a command, parse its answer | collectors |
| system readers | the rest of `pkg/*` | none (CPU keeps two samples) | parse `/proc`, run commands | collectors |
| runbook | `scripts/runbook/*.sh` | files, services, network namespaces | timers and one-shot installers | systemd |

What is hard about it, component by component:

* **Hub and dashboard.** Publishers, handlers and a browser interleave freely; a
  client can stall, vanish without a word, or come back while the handler of its
  previous connection still runs; the daemon can restart under an open page.
  Correct means: a client misses nothing but what was counted as dropped, never
  goes back, is unsubscribed in the end, and never blocks a collector.
* **Front panel.** Three goroutines (display, button watcher, signal handler)
  share two LEDs and a flag; the display can be at any point of its loop when a
  press or a signal comes; hardware keeps its contents over a restart.  Correct
  means: stealth is dark, the LED pair is never ambiguous, every press counts
  once, the rotation is not disturbed.
* **Process.** Three goroutines can each end the process, `os.Exit` skips
  deferred functions, and streams do not end by themselves.
* **Screens and collectors.** A loop per screen draws an image the carousel is
  reading and publishes what it drew; every lookup can fail, take its time or
  never return.  Correct means: whole pictures, the same story on panel and
  dashboard, and trouble in one screen stays there.
* **App liveness.** A scan is dozens of reads of a procfs that changes under it.
  Correct means: a steady app is up, a dead one is down, at the latest when the
  box has settled.
* **Reset button.** Holds are timed when events are read, so a late reader
  measures wrongly; the dead zones between bands have to absorb that.  What the
  button asks of the panel must not make the watcher wait for the panel.
* **Tunnel rows.** Three kinds of command output become rows of one list, which is
  shared with readers that hold no lock and merged row by row by the page.
  Correct means: a row says what its source reported, two sources of one name
  keep their rows, and nobody sees a list change while reading it.
* **Framebuffer driver.** Four pixel formats, packed with eight-bit shifts at
  offsets the device chooses, and an `Open` that can fail at every step.
  Correct means: what is accepted is shown as drawn, and nothing leaks.
* **Runbook.** Four scripts stop, start and restart the same units from timers and
  by hand, with no lock between them, on a box that may lose power at any time.

## Modules

| module | models | role |
|---|---|---|
| `Hub` | `state.go` | one action per method, each runs under `h.mu` |
| `Dashboard` | `sseHandler`, wire, page; EXTENDS `Hub` | composition from collector to pixel |
| `Panel` | `display.go`, `stealth.go`, the carousel in `functions.go` | the display goroutine and those it races with |
| `StealthSwitch` | what the button promises | abstract specification that `Panel` implements |
| `Lifecycle` | `main.go`, `api.Serve` | start-up, shutdown, pidfile |
| `ResetButton` | `pkg/resetbutton` | event loop and band table against a physical button |
| `ButtonSwitch` | `main`'s callback, `ToggleStealth`; EXTENDS `ResetButton`, `StealthSwitch` | composition from a press to the request to flip |
| `Tunnels` | `pkg/wireguard`, `pkg/tailscale`, `pkg/systemd`, the rows of `screens.go`, `PublishTunnel`, `mergePatch` | tunnel rows from command output to page |
| `Framebuffer` | `pkg/framebuffer` | `Open` and the four formats against the display hardware |
| `MediaApps` | `scripts/runbook`: the library repair, liveness probe, VPN heal, backup | four scripts on the same units |
| `Screens` | `screens.go`, fade steps in `functions.go` | collectors against the carousel, under `screenMu` |
| `Apps` | `apps.go` | the scan against the box's processes |
| `MC*` | | instances for TLC |
| `DashboardProofs`, `PanelProofs`, `ServiceProofs`, `ScreensProofs`, `AppsProofs`, `ResetButtonProofs`, `FramebufferProofs`, `TunnelsProofs` | | theorems |

**Hub.** A *key* is one slot of the snapshot a patch can carry: a plain slice or
one tunnel row.  Its value is the number of times it was published, so no two
readings look alike.  `Broadcast` is the non-blocking send of `broadcast`;
`received` and `lost` are history variables that the code does not have: what a
subscriber has been handed, and which keys' latest patch was dropped for it;
they start over with each subscription.  JSON encoding is left out, and
with it the early return of `broadcast` when encoding fails, which the state's
types exclude.

**Dashboard.** Each connection has its handler (`pc`), its channel (in `Hub`) and
its wire.  `Break` cuts a connection; the handler (`HandlerReturns`, through a
failed write or `ctx.Done`) and the page (`OnError`) notice independently.
`Restart` loses everything the daemon held and nothing the page shows.
`Seed`, newer than any real version, stands for the demo data in the page.

**Panel.** The carousel is the only writer of framebuffer and `stealthOn`, so a
run of its local steps is one action; loads and stores of `stealthOn`, receives
from `stealthToggle` and each LED write are steps of their own.  `pc` names the
point of `New` or `startFadeCarousel` the goroutine has reached, `todo` the LED
writes a goroutine is in the middle of.  The initial state has any LEDs and
either a black or a stale frame, as hardware left by a previous run.  LED writes
are taken to succeed, as they do on the device.  `Build` is the one step of `New`
that need never happen: it runs each screen's first lookup, a command without a
timeout, on the display goroutine.  So `SwitchPromise` and `EveryScreenShown` are
about a panel whose `New` has returned (`Built`); the safety properties are about
every panel.

**Lifecycle.** `net/http` and the pidfile package are modelled by the contract
the code relies on: `Shutdown` makes `Serve` return at once and itself returns
when nothing is active or its context expires; `Create` refuses a file of a
live process; `Clear` removes the file `Create` made.

**Screens.** The seven screens run one and the same loop; how they differ is a
table of *profiles*: which sources they look up and draw, what they publish
together, what `New` looks up before the first drawing, and what becomes of a
failed lookup: the old value is kept (host name, LAN address), the failure is
shown and published, it is not published (memory), published as zero (CPU), or
leaves an empty row on the panel (`unmarked`: the root file system, whose
`notMounted` `drawSystem` does not look at).  `Aside` are the two figures that
only the dashboard shows, uptime and load average; a failed one is published as
zero, and no property is about them.  Drawing is
row by row, as the carousel could see it if `screenMu` did not keep it out.
`drawn` (the last complete drawing) and `burst` (publications since the last
sleep) are history variables.  No lookup is assumed to return: most run a
command without a timeout.

**Apps.** `ns` and `binds` are the box: which namespace each pid is in and what it
listens on.  The processes act between any two steps of the scan, and a pid may
be reused.  `heard`, `steady` and `churned` are history variables of one scan:
what listened at some time, what listened all the time, which namespaces a
process left.

**ResetButton and ButtonSwitch.** The clock advances in ticks of 250 ms; the
constraint in `Pass` is the watcher's lag, at most the half second that the
narrowest dead zone is wide (`LagAssumption`).  Each key event carries (as history)
how long the button was really held, and whether the press was seen from its
beginning; `fired` is the report of the last step.  `ButtonSwitch` runs `main`'s
callback and `ToggleStealth` within the step that reads a release, as the code
does, and takes the panel by `StealthSwitch`, the specification `Panel` is shown
to implement: it may flip at any time after a request or never.  `cause` is the
press behind a pending request (history).

**Tunnels.** A report is what a command may answer, already cut into fields;
splitting lines and unmarshalling JSON is left out, but not the arithmetic on
what they contain: the parts of a handshake age, the sums over peers, the choice
of an address, in every order Go's map may yield.  `Ago` is how `wg` prints an
age, in years, days, hours, minutes and seconds, and no part at all below one
second ("Now"); a peer that never shook hands (`Never`) has no such line.  The
parser knows neither years nor "Now": `RowsTellReports` names both cases
(`YearsAgo`, `JustNow`) as its exceptions, and says with `IsUp` what the comments
promise.  Backing arrays have addresses, so that sharing one is visible:
`Snapshot` hands out an address, `PublishTunnel` builds another array.  Each
collector is the only writer of its row, so a reading with its publication is
one step; two tunnels of one type have different names (`NamesAssumption`): a
second autossh tunnel of the same name would overwrite the first one's row.
Loops over parts, peers and patches are recursive functions, a value per turn of
the loop.  `ReportsAssumption` gives each command's answers their shape and says
that the peers of one answer are finitely many; `AddrsAssumption` that the empty
address is not an IPv4 one.  `Assign` is the page's `Object.assign`.
Only tests call `Snapshot` today; what is checked is the promise of its comments
(`internal/state/state.go:160` and 270).  The rows of the demo mode are left out.

**Framebuffer.** The device's answers to the two ioctls are constants; the steps of
`Open` fail or not, and `Fails` stands for the deferred calls that run on the way
out.  The memory is byte by byte, the display hardware (`Decoded`) reads it by the
bit fields the device reported and not by the driver's formats, and `shown` is
what was drawn (history).  `Device` asks of the kernel that the visible rectangle
lies within a line and the lines within the memory.

**MediaApps.** A unit is inactive, in its `ExecStartPre` before or after the old
library was moved away, freshly started, or past the probe's grace period;
systemd's start, stop and restart are modelled by what they do to it.  Each script
is a program counter with the list its loop has yet to visit; it advances one
`systemctl` call at a time, with the others in between.  `torn` (a repair was cut
short) and `judged` (stopped while the probe was waiting for an answer) are
history variables and name two ways the scripts are known to fall short, see
below.  Any start may fail: an app's own (`FailsToStart`), the tunnel's, and with
it that of every service that `Requires=` it (`Begun`); `tunnel` says whether its
unit is up, and whether it passes traffic is a guess made anew by every check.
The backup may be killed at any point, which runs no trap (`BackupKilled`).  The number of failed probes is counted no further than the threshold,
which decides the same.  The system's SQLite library is taken to be installed, as
phase 1 does.

## Runs

| run | instance | shows |
|---|---|---|
| `dashboard` | 2 connections, 2 keys, buffer 2, wire 1, 2 versions per key | of the hub: types and the buffer bound, `NoSendOnClosed`, `FeedCoherent`, `NeverBackwards`; of the whole: `NothingLostEndToEnd`, `OnlyLiveReadings`; handlers of vanished browsers unsubscribe, whatever the browser does; with a running browser the page recovers and accepted patches arrive |
| `panel` | 3 screens | darkness, LEDs, rotation, refinement of `StealthSwitch`; once `New` has returned also its fairness, and every screen shown |
| `panel_exit` | 3 screens | **violated**: an LED stays lit on shutdown in stealth |
| `lifecycle` | 1 page request, 2 streams | the pidfile on every path, a signal ends the process |
| `lifecycle_drain` | 1 page request, 1 stream | **violated**: exit before the drain is over |
| `screens` | host and system | whole pictures, `PanelAndWebAgree`, `NoSpin`, and a hung lookup stops its own screen only |
| `apps` | 3 processes, 2 namespaces, 1 app | steady apps are up, silent ones are not, and a quiet box is reported as it is |
| `reset_button` | 6.5 s, lag up to 0.5 s, 2 unread events | `NoWrongBand`, `OnlyTapsFlip`; the watcher never stops reading, whatever the panel does |
| `framebuffer` | 4 accepted layouts panned three ways, 10 refused devices, 5 colours, 2 pixels set | `OpenReleases`, `ShowsWhatWasSet` |
| `tunnels` | 3 sources, 2 of one name, 20 answers in all, 3 readings | `RowsTellReports`, `PageShowsHubRows`, `SnapshotsFrozen` |
| `tunnels_stale` | the same, 1 reading | **violated**: a peer last heard of a year and five seconds ago makes its tunnel up |
| `runbook` | 2 apps, one with a library and probed, one pinned to the tunnel; threshold 2, 1 restart an hour | `CopiedAtRest`, `RunsOnWorkingLibrary`; what the backup stopped and noted runs again, save after a kill or a failed start, and a pinned app even then; a hung app is restarted |

*Why the bounds are enough.*  Two clients are the fewest that can differ in what
was dropped for them; two keys the fewest for a patch of one to overtake the
drop of the other; a buffer of 2 holds a patch behind another and is full after
two, and when it is full is the only thing the size of the real one (8) decides.  Two connections let a
reconnected page coexist with the handler of its broken connection.  Three
screens make "skipped", "repeated" and "in order" differ; the carousel never
compares indices otherwise.  Host and system are between them every treatment of
a failed lookup, the screen that `New` does not publish and the loop without a
sleep of its own; the theorems of `ScreensProofs` hold for any set of screens.
In `apps`, three processes let two share a namespace, with or without one that
may not be inspected; apps do not influence each other.  The button's instance
runs past the six-second ceiling with the lag on top.  The framebuffers have two
by two visible points with a margin on two sides and a byte of padding, so that
a pixel misplaced by any offset hits something that must not change; the theorems
cover all devices and all colours.  The tunnels' answers lie on both sides
of three minutes, below a second, above a year and at parts of every unit; three readings let one row be replaced
while another was added.  In `runbook` the repair, the probe and the backup meet over
one app, vpn-heal and the backup over the other; no app is both probed and pinned,
as an operator's services may be, because such an instance is too large to
finish.  So probe and heal meet over one unit in the theorems only
(`MediaAppsCopiedAtRest`, `MediaAppsProbeWithinLimits`,
`MediaAppsRunOnWorkingLibrary`), which are for any sets of apps; the two liveness
properties are not shown for it.  A threshold of 2 has a count before it.
`CHECK_DEADLOCK FALSE` is said only where the system stops: a process that exits,
an `Open` that failed, and the end of the observed time.

*Fairness.*  Weak fairness of each goroutine's own steps, lookups excepted: the Go
scheduler runs every runnable goroutine, and a goroutine that waits for anything
but a command waits for a timer or for a condition in the guards.  Commands have
no timeout, so no lookup is assumed to return: not those of `Screens`, and not
`Build` in `Panel`.  `select` chooses among ready cases at random, so
in `Panel` each way a hold can end is strongly fair.  `screenMu` is granted
strongly fairly: a waiter of a Go mutex that starves for a millisecond is served
next.  In `Apps` the ticker keeps
ticking.  The page's callbacks and
its reconnection are the browser's event loop and `EventSource`.  In
`ButtonSwitch` the watcher runs, and the panel is not assumed to.  In `MediaApps`
timers elapse, vpn-heal's too, and a script that runs goes on (weak fairness); a
unit that is started again and again gets through its start, a tunnel that is
healed again and again comes up, and a probe that is possible again and again is
made and judged: power is not lost, heals do not strike and starts do not fail
within every single one of them (strong fairness).  No single start is assumed
to succeed.  Nothing is assumed of connections, operators, signals, readings, upgrades, hangs or other
processes.

## Proofs

All for every value of the constants.

* `DashboardProofs`: of the hub, type correctness with the buffer bound, `FeedCoherent`,
  `NoSendOnClosed`, `NeverBackwards`.  The invariant is
  `TypeOK /\ FeedCoherent /\ \A c \in subs : NeverAhead(c)`: `FeedCoherent`
  alone says nothing about how a dropped key's received version relates to the
  snapshot, so a publication could append a patch that is not newer.  Of the
  dashboard, `NothingLostEndToEnd` and `OnlyLiveReadings`.  Its steps are the
  hub's, but for a restart, which leaves no subscriber; `NetInv` adds, for a
  connection that is up, that the page gets to what its handler was last handed
  by reading its wire (`Arrives`), that nothing on the wire is newer than the
  snapshot (`Fresh`), and that a page that is not live yet reads a full frame
  first: that is what clears the demo rows and those of an earlier daemon.
* `PanelProofs`: the panel's invariants, its two action properties, and that it
  implements `StealthSwitch`'s safety part.  What the panel shows depends on how
  the goroutine got where it is, so `PanelInv` follows it location by location:
  pending LED writes (`Shape`), the flag (`Mode`), the frame (`Frame`), the LEDs
  (`Lamps`).
* `ServiceProofs`, of the daemon: `NoStalePidfile`, from an invariant that adds that
  a file is ours only while `pid` is set and that no goroutine that clears it
  runs before `main` creates it.  Of the runbook: `RunsOnWorkingLibrary`, where
  `RepairInv` adds that a library is missing only while its unit is in the middle
  of a repair, unless one was cut short: an app about to start would otherwise
  find none to repair and run; `CopiedAtRest`, where `RestInv` holds throughout
  the backup's loop: what it stopped and noted, and no probe is waiting for, is at
  rest from its stop to the copy, unless it is pinned; and the probe's limits, which say that no interleaving of scripts makes it count past
  its threshold or restart past its hourly limit.
* `ScreensProofs`: type correctness, `WholeFrames`, `NoSpin`, `PanelAndWebAgree`.  A fade step shows
  whole pictures because the lock's holder is where it says it is: the invariant
  says that an image under redraw has its screen as holder of `screenMu` (or no
  carousel yet), that an image not under redraw equals `drawn`, and that what
  was sampled is a prefix of it.  `NoSpin` needs, location by location, how
  much of the burst a loop may already have used.  `PanelAndWebAgree` says of each
  source that panel and dashboard show the figure its lookup found or kept; and
  after any other failure that the panel shows no figure and the dashboard is
  told, but for the memory and the CPU, of which it claims nothing.  It follows one
  reading through the rows drawn so far and the slices published so far; no two
  screens have a source in common (`SourcesOwned`), so they do not disturb each
  other.
* `AppsProofs`: type correctness (at most one table per namespace),
  `UpWasListening` and `SteadyIsUp`.  For the last, `SteadyInv` says of each steady
  listener that its process is yet to be looked at, or its namespace is seen
  and its table yet to be read, or its port found; for the root namespace only
  the daemon's own table counts, because a pid chosen elsewhere may have been
  reused there.
* `ResetButtonProofs`: the classes of `Classify`, that two durations in different
  bands are more than half a second apart, and from it `NoWrongBand` and
  `OnlyTapsFlip`.  What is measured is the time between two *readings*, so the
  invariant has to follow a press through the queue: events lie in it in the
  order of their times and none is older than the lag; a key-down is followed by
  its key-up with the hold between their times; and `down` is at most the lag
  later than the press whose key-up comes next.
* `FramebufferProofs`: what the 16-bit format keeps of any colour, `OpenReleases`
  for any device, that no byte stored needs more than eight bits, and
  `ShowsWhatWasSet`.  Its invariant `Drawn` is about bytes: those of a touched
  point are the packed colour last set there, and all others are as `Open` found
  them.  A step keeps it because the bytes of two points of the visible
  rectangle do not meet (a line is at least as long as its pixels, and padding
  belongs to none); that the hardware's bit fields and `At` then give the
  colour back is arithmetic, once per format.
* `TunnelsProofs`: `SnapshotsFrozen`, where the array of a reader still holds what it
  held when it was given and there is always a third array; that of
  any handshake age `wg` prints the parser reads back all but the whole years,
  and so any age below a year to the second (`HandshakeAgeReadBack`);
  `RowsTellReports`; and
  `PageShowsHubRows`.  The loops are followed turn by turn: that the recursive
  function exists, and what it has computed after each turn, is shown by
  induction on the turn, each time for the set of turns at which the claim holds
  (`IntervalInduction`), which needs no operator as a parameter.  A sum over peers
  does not depend on the order in which Go yields them, because taking any one
  element first gives the same sum.  `RowsTellReports` needs to know that the
  list has one row per source read so far, each with its own key (`HubTells`), so
  that `Publish` replaces that row or appends.  For `PageShowsHubRows`, `CaughtUp`
  says that a chain of merges leads from the page over the pending patches to the
  hub's rows (`Leads`).  A publication makes the chain longer by one merge, which
  has to do to the encoded list what `Publish` did to the hub's
  (`MergeFollowsUpsert`): it does because encoding keeps the key, so that both find
  the same first row or none, and the collectors' rows encode to the same fields,
  so that assigning one over another leaves nothing of it.

Assumptions: the named `ASSUME`s on constants, nothing else (`NeverAssumption`, that
no age stands for a handshake that never was, and `TurnAssumption`, that the
backup's list has an order, among them).  Every safety
property of the passing runs is a theorem.  Left to TLC are the liveness
properties, which need fairness and `ENABLED`: of the hub and the dashboard
`AbandonedUnsubscribed`, `BackToLive` and `Delivered`; of the panel
`EveryScreenShown` and `SwitchPromise`, the fairness of the switch whose safety
part is proved; and `SignalEnds`, `HungLookupIsLocal`, `SettlesOnTheTruth`, `NeverDeaf`,
`NoOneLeftDown`, `HungIsRestarted`.

## Where code and documentation disagree

Three runs end in a counterexample on purpose; `PROJECT.json` quotes the lines.  A
shutdown can leave an LED lit in stealth mode (`panel_exit`), the server is
not drained before `os.Exit` (`lifecycle_drain`), and a tunnel whose last
handshake is more than a year old can be up (`tunnels_stale`).

Met while modelling, and stated here without a run of their own:

* `internal/state/state.go:14` and 182 say a client whose patch was dropped heals
  with the next patch that gets through.  Patches carry one slice, so it heals
  for that slice only; `lost` keeps track of it, key by key.
* `internal/display/stealth.go:24` says a double tap collapses into one flip.  Once
  the carousel has taken the first tap the channel is empty again, and
  `enterStealth` then takes five seconds: a second tap in that time flips back.
* `internal/display/screens.go:226` says a failed CPU reading is omitted from the
  web slice rather than published as zero.  `publishSystem` publishes it as 0%, and
  `publishSystem` and `buildHost` do the same with a failed load average and
  uptime.  `PanelAndWebAgree` claims nothing of these figures (`zeroed`, `Aside`).
* `internal/display/screens.go:75` says a failed disk lookup renders "not mounted" on
  the panel.  `drawStorageRow` does; `drawSystem`, which draws the root file
  system, writes the empty texts and leaves the row blank (`unmarked`).
* `pkg/wireguard/wireguard.go:36` says a tunnel is up when any peer shook hands
  within three minutes.  A handshake of this very second is printed as "Now", of
  which `parseHandshakeAge` recognises nothing: such a tunnel is down until the
  next reading (`JustNow`).
* `pkg/cpu/cpu.go:65` promises 0-100.  The kernel lets `iowait` go back, and then
  the unsigned idle difference underflows.
* `scripts/runbook/phase9-backup.sh:95` says the apps are restarted however the
  script exits.  An interrupt during `systemctl stop` leaves that app down: it is
  not in the list yet (`BackupInterrupted`).  A start that fails is silenced at
  line 97 and not retried, and SIGKILL runs no trap (`BackupKilled`): what the
  backup had stopped stays down, unless it is pinned and vpn-heal starts it.
* `scripts/runbook/phase4-vpn-heal.sh:97` starts the services whether or not line 92
  brought the tunnel up; they require it and fail with it, until a later run.
* The same line says the databases are copied at rest.  The heal timer restarts a
  pinned service without a main process, so it wakes apps the backup stopped;
  and an app still starting when the backup looks is not "active" and not stopped.
* `scripts/runbook/phase2-06-servarr-liveness-probe.sh:24` says a stopped unit stays
  stopped.  It is looked at before the probe waits up to ten seconds, and
  restarted after (`judged`); line 29 says failures are consecutive, but the
  counter survives a restart by anybody else.
* `scripts/runbook/phase2-05-servarr-sqlite-heal.sh:48` takes a missing library for an
  app that ships none, which is also what a repair interrupted between `mv` and
  `ln` leaves (`torn`).

## Not modelled

Text layout and drawing, HTML, flag parsing, the parsers of `/proc`, fonts, images,
build metadata, and `inspiration/` (not part of the daemon): data without a state
or an interleaving of their own.  CPU, memory, storage, host, network and ping
readers appear only through what their failure or delay does to a screen.  Of the
runbook: the one-shot installers, the set-up of the network namespaces, the
operator's restore, the pruning of old snapshots, and the incoming sync.

## Plan

Done: the daemon's components with their compositions, the framebuffer driver, the
tunnel rows, and the runbook's watchers against the backup.  Left, the most
important first:

1. The runbook's incoming sync with its locks, and the operator's restore.
2. CPU usage from two samples with counters of finite width.
3. Theorems about the steps that the liveness properties rest on: that what leads
   to a goal stays enabled until it is taken, and what measure each step lowers.
