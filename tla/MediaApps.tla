----------------------------- MODULE MediaApps -----------------------------
(***************************************************************************)
(* The runbook's scripts around the media apps (src/scripts/runbook), all  *)
(* of them acting on the same systemd units without a common lock:         *)
(*   sqlite-heal      repairs an app's SQLite library before each start;   *)
(*   liveness-probe   restarts an app that is active but does not answer;  *)
(*   vpn-heal         restarts the tunnel and the services pinned to it;   *)
(*   backup           stops the apps, copies, and starts them again.       *)
(* They run on timers, any of them may be in the middle of its work when   *)
(* another one acts, and the box may lose power at any point.              *)
(***************************************************************************)
EXTENDS Naturals, FiniteSets

CONSTANTS
  Apps,           \* the media apps the backup stops
  Turn,           \* of each: its place in the backup's list (APPS)
  Probed,         \* those the liveness probe looks at (all of them, in the code)
  Pinned,         \* those in the namespace of the tunnel (vpn-heal's SERVICES)
  Ships,          \* those that ship a SQLite library of their own
  FailThreshold,  \* failed probes before a restart (3 in the code)
  MaxRestarts,    \* restarts an hour (3 in the code)
  NoApp

ASSUME AppsAssumption == /\ Probed \cup Pinned \cup Ships \subseteq Apps
                         /\ NoApp \notin Apps
ASSUME TurnAssumption == Turn \in [Apps -> Nat]
ASSUME LimitsAssumption == FailThreshold \in Nat \ {0} /\ MaxRestarts \in Nat

VARIABLES
  unit,       \* "inactive", or "failed" after a start that failed; "pre" and
              \* "displaced" within ExecStartPre; "young" and "grown" when active
  tunnel,     \* the tunnel's unit is active, whether or not it passes traffic
  hung,       \* the probed apps that are active and do not answer
  library,    \* "upstream" (needs a newer glibc), "fits", "link", or "missing"
  backup,     \* the backup's step, and the apps its loop has yet to look at
  stopped,    \* its list of the apps it stopped
  heal,       \* vpn-heal's step, and the services its loop has yet to look at
  probe,      \* the app whose answer the probe is waiting for, if any
  fails,      \* its files in /run/servarr-probe: failed probes ...
  restarts,   \* ... and the restarts of the last hour
  torn,       \* history: apps whose repair was cut short since their upgrade
  judged      \* history: apps this backup stopped while the probe waited for them

appVars == <<unit, tunnel, hung, library, torn>>
probeVars == <<probe, fails, restarts>>
backupVars == <<backup, stopped, judged>>
vars == <<appVars, probeVars, backupVars, heal>>

Idle == [step |-> "idle", todo |-> {}, at |-> NoApp]
At(s, a, todo) == [step |-> s, todo |-> todo, at |-> a]

Active(a) == unit[a] \in {"young", "grown"}
Down(a) == unit[a] \in {"inactive", "failed"}
Starting(a) == unit[a] \in {"pre", "displaced"}
Loads(lib) == lib \in {"link", "fits"}

-----------------------------------------------------------------------------
\* systemd.  Starting an active unit does nothing; restarting cancels whatever
\* it was doing, its ExecStartPre included.  A pinned app's start brings up the
\* tunnel first (Requires=), and fails if that one does.

\* whether the tunnel is up once these have been started
Pulled(apps) == IF apps \cap Pinned = {} THEN {tunnel} ELSE {tunnel, TRUE}
Begun(a, up) == IF a \in Pinned /\ ~up THEN "failed" ELSE "pre"
Cut(apps) == torn \cup {a \in apps : unit[a] = "displaced"}

Start(apps, up) ==     \* systemctl start
  /\ unit' = [a \in Apps |-> IF a \in apps /\ Down(a) THEN Begun(a, up) ELSE unit[a]]
  /\ tunnel' = up
  /\ UNCHANGED <<hung, library, torn>>

\* an interrupted repair is not resumed: nothing but the app is in the unit
Restart(apps) ==       \* systemctl restart
  /\ \E up \in Pulled(apps) :
       /\ unit' = [a \in Apps |-> IF a \in apps THEN Begun(a, up) ELSE unit[a]]
       /\ tunnel' = up
  /\ hung' = hung \ apps
  /\ torn' = Cut(apps)
  /\ UNCHANGED library

Stop(apps) ==          \* systemctl stop
  /\ unit' = [a \in Apps |-> IF a \in apps /\ ~Down(a) THEN "inactive" ELSE unit[a]]
  /\ hung' = hung \ apps
  /\ torn' = Cut(apps)
  /\ UNCHANGED library

\* the enabled units start at boot, the tunnel among them
Init ==
  /\ tunnel \in BOOLEAN /\ unit = [a \in Apps |-> Begun(a, tunnel)]
  /\ library = [a \in Apps |-> IF a \in Ships THEN "upstream" ELSE "missing"]
  /\ backup = Idle /\ heal = Idle /\ probe = NoApp
  /\ stopped = {} /\ torn = {} /\ judged = {} /\ hung = {}
  /\ fails = [a \in Probed |-> 0] /\ restarts = [a \in Probed |-> 0]

-----------------------------------------------------------------------------
\* An app starting: sqlite-heal, then the app itself, which may hang for any
\* reason and surely does without a library that loads.

Runs(a, lib) ==
  /\ unit' = [unit EXCEPT ![a] = "young"]
  /\ hung' \in {h \in {hung, hung \cup ({a} \cap Probed)} :
                  a \in Ships \cap Probed /\ ~Loads(lib) => a \in h}

\* a wrong version: the test of the copy is the wrong way round
NothingToRepairInverted(a) ==
  /\ unit[a] = "pre" /\ library[a] # "fits"
  /\ Runs(a, library[a])
  /\ UNCHANGED <<tunnel, library, torn, probeVars, backupVars, heal>>

\* the early exits: no library (not an app this applies to), a link already,
\* or a copy that loads.  The system's own library is there (phase 1).
NothingToRepair(a) ==
  /\ unit[a] = "pre" /\ library[a] # "upstream"
  /\ Runs(a, library[a])
  /\ UNCHANGED <<tunnel, library, torn, probeVars, backupVars, heal>>

\* mv or rm of the copy that does not load
Displace(a) ==
  /\ unit[a] = "pre" /\ library[a] = "upstream"
  /\ unit' = [unit EXCEPT ![a] = "displaced"]
  /\ library' = [library EXCEPT ![a] = "missing"]
  /\ UNCHANGED <<tunnel, hung, torn, probeVars, backupVars, heal>>

\* ln -sf
Link(a) ==
  /\ unit[a] = "displaced"
  /\ library' = [library EXCEPT ![a] = "link"]
  /\ Runs(a, "link")
  /\ UNCHANGED <<tunnel, torn, probeVars, backupVars, heal>>

\* the start fails for whatever reason: a job that timed out, a program that is gone
FailsToStart(a) ==
  /\ Starting(a)
  /\ unit' = [unit EXCEPT ![a] = "failed"]
  /\ torn' = Cut({a})
  /\ UNCHANGED <<tunnel, hung, library, probeVars, backupVars, heal>>

Grow(a) ==             \* GRACE seconds after the start
  /\ unit[a] = "young"
  /\ unit' = [unit EXCEPT ![a] = "grown"]
  /\ UNCHANGED <<tunnel, hung, library, torn, probeVars, backupVars, heal>>

Hang(a) ==
  /\ Active(a) /\ hung' = hung \cup {a}
  /\ UNCHANGED <<unit, tunnel, library, torn, probeVars, backupVars, heal>>

\* an in-app upgrade replaces the app's tree, link included, and restarts it
Upgrade(a) ==
  /\ a \in Ships /\ Active(a) /\ a \notin hung
  /\ \E lib \in {"upstream", "fits"} : library' = [library EXCEPT ![a] = lib]
  /\ unit' = [unit EXCEPT ![a] = "pre"]
  /\ hung' = hung \ {a}
  /\ torn' = torn \ {a}
  /\ UNCHANGED <<tunnel, probeVars, backupVars, heal>>

\* power is lost and comes back: /run is empty
Reboot ==
  /\ tunnel' \in BOOLEAN /\ unit' = [a \in Apps |-> Begun(a, tunnel')]
  /\ hung' = {}
  /\ torn' = Cut(Apps)
  /\ backup' = Idle /\ heal' = Idle /\ probe' = NoApp
  /\ stopped' = {} /\ judged' = {}
  /\ fails' = [a \in Probed |-> 0] /\ restarts' = [a \in Probed |-> 0]
  /\ UNCHANGED library

-----------------------------------------------------------------------------
\* phase9-backup.sh

BackupBegins ==
  /\ backup.step \in {"idle", "killed"}
  /\ backup' = At("stop", NoApp, Apps)
  /\ UNCHANGED <<stopped, judged, appVars, probeVars, heal>>

\* is-active, then systemctl stop, which returns when the app has stopped
BackupLooks(a) ==
  /\ backup.step = "stop" /\ a \in backup.todo
  /\ \A b \in backup.todo : Turn[a] <= Turn[b]
  /\ backup' = IF Active(a) THEN At("stopping", a, backup.todo \ {a})
                            ELSE At("stop", NoApp, backup.todo \ {a})
  /\ UNCHANGED <<stopped, judged, appVars, probeVars, heal>>

BackupStops ==
  LET a == backup.at
  IN /\ backup.step = "stopping"
     /\ Stop({a})
     /\ stopped' = stopped \cup {a}
     /\ judged' = IF probe = a THEN judged \cup {a} ELSE judged \ {a}
     /\ backup' = At("stop", NoApp, backup.todo)
     /\ UNCHANGED <<tunnel, probeVars, heal>>

BackupCopies ==
  /\ backup.step = "stop" /\ backup.todo = {}
  /\ backup' = At("copy", NoApp, {})
  /\ UNCHANGED <<stopped, judged, appVars, probeVars, heal>>

\* a wrong version: no trap
BackupJustExits ==
  /\ backup.step \in {"stop", "copy"}
  /\ backup' = Idle /\ judged' = {}
  /\ UNCHANGED <<stopped, appVars, probeVars, heal>>

\* the end of the copy or, before it, an error exit or a signal: each of them
\* runs the EXIT trap
BackupExits ==
  /\ backup.step \in {"stop", "copy"}
  /\ backup' = At("restart", NoApp, {}) /\ judged' = {}
  /\ UNCHANGED <<stopped, appVars, probeVars, heal>>

\* a signal while systemctl stop waits: the stop job goes on without the
\* script, which has not noted it yet
BackupInterrupted ==
  /\ backup.step = "stopping"
  /\ Stop({backup.at})
  /\ backup' = At("restart", NoApp, {}) /\ judged' = {}
  /\ UNCHANGED <<stopped, tunnel, probeVars, heal>>

\* SIGKILL, or a signal while the trap runs: nothing is left to start the apps.
\* Killed while systemctl stop waits, it is interrupted first.
BackupKilled ==
  /\ backup.step \in {"stop", "copy", "restart"}
  /\ backup' = At("killed", NoApp, {})
  /\ stopped' = {} /\ judged' = {}
  /\ UNCHANGED <<appVars, probeVars, heal>>

\* the EXIT trap; it silences a start that fails and goes on to the next
BackupRestarts(a) ==
  /\ backup.step = "restart" /\ a \in stopped
  /\ \E up \in Pulled({a}) : Start({a}, up)
  /\ stopped' = stopped \ {a}
  /\ UNCHANGED <<backup, judged, probeVars, heal>>

BackupEnds ==
  /\ backup.step = "restart" /\ stopped = {}
  /\ backup' = Idle
  /\ UNCHANGED <<stopped, judged, appVars, probeVars, heal>>

-----------------------------------------------------------------------------
\* phase4-vpn-heal.sh.  Whether the tunnel passes traffic is found out anew
\* by every check, and either answer is possible.

HealBegins ==
  /\ heal = Idle
  /\ \/ /\ tunnel
        /\ heal' = At("dns", NoApp, Pinned)      \* healthy
        /\ UNCHANGED appVars
     \/ /\ heal' = At("down", NoApp, {})         \* stopping the tunnel stops
        /\ Stop(Pinned)                          \* what Requires= it
        /\ tunnel' = FALSE
  /\ UNCHANGED <<probeVars, backupVars>>

\* the tunnel, then the services; whether that worked is asked only later
HealStarts ==
  /\ heal.step = "down"
  /\ \E up \in {tunnel, TRUE} : Start(Pinned, up)
  /\ heal' = At("wait", NoApp, {})
  /\ UNCHANGED <<probeVars, backupVars>>

HealVerifies ==                                  \* once systemctl start is back
  /\ heal.step = "wait" /\ \A a \in Pinned : ~Starting(a)
  /\ heal' = Idle \/ (tunnel /\ heal' = At("dns", NoApp, Pinned))
  /\ UNCHANGED <<appVars, probeVars, backupVars>>

\* heal_service_dns: a service without a main process counts as broken
HealChecks(a) ==
  /\ heal.step = "dns" /\ a \in heal.todo
  /\ \/ /\ Active(a)
        /\ heal' = At("dns", NoApp, heal.todo \ {a})
        /\ UNCHANGED appVars
     \/ /\ Restart({a})
        /\ heal' = At("dns_wait", a, heal.todo \ {a})
  /\ UNCHANGED <<probeVars, backupVars>>

HealRestarted ==
  /\ heal.step = "dns_wait" /\ ~Starting(heal.at)
  /\ heal' = At("dns", NoApp, heal.todo)
  /\ UNCHANGED <<appVars, probeVars, backupVars>>

HealEnds ==
  /\ heal.step = "dns" /\ heal.todo = {}
  /\ heal' = Idle
  /\ UNCHANGED <<appVars, probeVars, backupVars>>

-----------------------------------------------------------------------------
\* phase2-06-servarr-liveness-probe.sh

\* a wrong version: any app is probed, active or not
ProbeLooksAnyway(a) ==
  /\ probe = NoApp
  /\ probe' = a
  /\ UNCHANGED <<fails, restarts, appVars, backupVars, heal>>

\* is-active and the grace period, long before the answer is in.  The pass
\* takes the apps in turn and is over in between.
ProbeLooks(a) ==
  /\ probe = NoApp /\ unit[a] = "grown"
  /\ probe' = a
  /\ UNCHANGED <<fails, restarts, appVars, backupVars, heal>>

ProbeAnswered(a) ==
  /\ probe = a /\ Active(a) /\ a \notin hung
  /\ fails' = [fails EXCEPT ![a] = 0]
  /\ probe' = NoApp
  /\ UNCHANGED <<restarts, appVars, backupVars, heal>>

\* a wrong version: a failure short of the threshold is not written down
ProbeFailsUnsaved(a) ==
  /\ probe = a
  /\ probe' = NoApp
  /\ IF fails[a] + 1 >= FailThreshold /\ restarts[a] < MaxRestarts
     THEN /\ Restart({a})
          /\ fails' = [fails EXCEPT ![a] = 0]
          /\ restarts' = [restarts EXCEPT ![a] = @ + 1]
     ELSE UNCHANGED <<fails, restarts, appVars>>
  /\ UNCHANGED <<backupVars, heal>>

\* no answer in time; fails is counted no further than the threshold
ProbeFails(a) ==
  LET n == fails[a] + 1
  IN /\ probe = a
     /\ probe' = NoApp
     /\ IF n >= FailThreshold /\ restarts[a] < MaxRestarts
        THEN /\ Restart({a})
             /\ fails' = [fails EXCEPT ![a] = 0]
             /\ restarts' = [restarts EXCEPT ![a] = @ + 1]
        ELSE /\ fails' = [fails EXCEPT ![a] = IF n > FailThreshold THEN @ ELSE n]
             /\ UNCHANGED <<restarts, appVars>>
     /\ UNCHANGED <<backupVars, heal>>

HourOver(a) ==         \* the oldest restart no longer counts
  /\ restarts[a] > 0
  /\ restarts' = [restarts EXCEPT ![a] = @ - 1]
  /\ UNCHANGED <<probe, fails, appVars, backupVars, heal>>

-----------------------------------------------------------------------------
Starts(a) == NothingToRepair(a) \/ Displace(a) \/ Link(a)
Backup == \/ BackupStops \/ BackupCopies \/ BackupExits \/ BackupEnds
          \/ \E a \in Apps : BackupLooks(a) \/ BackupRestarts(a)
Heal == \/ HealStarts \/ HealVerifies \/ HealRestarted \/ HealEnds
        \/ \E a \in Pinned : HealChecks(a)
Probe(a) == ProbeLooks(a) \/ ProbeAnswered(a) \/ ProbeFails(a)

Next == \/ \E a \in Apps : Starts(a) \/ FailsToStart(a) \/ Upgrade(a)
        \/ \E a \in Probed : Grow(a) \/ Hang(a) \/ HourOver(a) \/ Probe(a)
        \/ Reboot
        \/ BackupBegins \/ BackupInterrupted \/ BackupKilled \/ Backup
        \/ HealBegins \/ Heal

\* Timers elapse, vpn-heal's every minute; a started script and a starting unit
\* go on; and what is started over and over gets through in the end, an app and
\* the tunnel: not every start is hit by a power loss or a heal, or fails.
\* Nothing makes an app hang or upgrade, a backup begin, or one start succeed.
Fairness == /\ \A a \in Apps : SF_vars(Starts(a))
            /\ WF_vars(Backup) /\ WF_vars(HealBegins \/ Heal)
            /\ SF_vars(HealStarts /\ tunnel')
            /\ \A a \in Probed : WF_vars(Grow(a)) /\ SF_vars(Probe(a))

Spec == Init /\ [][Next]_vars /\ Fairness

-----------------------------------------------------------------------------
\* The backup captures an app it stopped at rest (phase9-backup.sh:100), as
\* far as the watchers let it: only vpn-heal wakes one early, and only a
\* pinned one; or the probe, if it was waiting for an answer of that very app
\* at the moment it was stopped.
CopiedAtRest ==
  backup.step = "copy" =>
    \A a \in stopped : Down(a) \/ a \in Pinned \cup judged

\* An app whose repair was not cut short never runs on a library that does not
\* load, however many upgrades, restarts and power losses it has been through.
RunsOnWorkingLibrary ==
  \A a \in Ships \ torn : Active(a) => Loads(library[a])

\* Every app the backup stopped and noted runs again, "however this script
\* exits" (phase9-backup.sh:95), but for two ways: its start in the trap fails
\* and is not retried, or the script is killed and runs no trap.  A pinned app
\* runs again even so, for vpn-heal starts what has no main process.
NoOneLeftDown ==
  \A a \in Apps : a \in stopped ~>
    Active(a) \/ (a \notin Pinned /\ (unit[a] = "failed" \/ backup.step = "killed"))

\* An app that is active but does not answer does not stay so, unless its
\* restarts of the hour are used up.
HungIsRestarted ==
  \A a \in Probed :
    a \in hung ~> a \notin hung \/ restarts[a] = MaxRestarts
=============================================================================
