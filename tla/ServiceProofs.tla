--------------------------- MODULE ServiceProofs ---------------------------
(***************************************************************************)
(* Proofs about services and what ends and starts them: the life of the    *)
(* daemon's own process, for any sets of requests, and the runbook's       *)
(* scripts around the media apps, for any sets of apps and any limits.     *)
(***************************************************************************)
EXTENDS Lifecycle, MediaApps, TLAPS

-----------------------------------------------------------------------------
(* The daemon.  That no pidfile is left behind needs to know more than the *)
(* three ways out: the file names this process only while pid is set, and  *)
(* main creates it before it starts the goroutines that can clear it.      *)

Ending == main \in {"fatal", "return"} \/ server = "fatal" \/ handler = "exit"

LifeInv ==
  /\ file = "ours" => pid
  /\ main = "start" => file # "ours" /\ ~Ending
  /\ Ending => file # "ours"
  /\ main \in {"start", "serve"} => server = "none" /\ handler = "none"
  /\ exit \in {"ok", "fatal"} => file # "ours"

(* A process that starts owns no pidfile yet.                              *)
LEMMA LifeInvInit == LifeInit => LifeInv
  BY DEF LifeInit, LifeInv, Ending

(* No goroutine's step leaves our pidfile behind an ending it began.       *)
LEMMA LifeInvStep == LifeInv /\ [LifeNext]_lifeVars => LifeInv'
  <1> SUFFICES ASSUME LifeInv, [LifeNext]_lifeVars PROVE LifeInv'
    OBVIOUS
  <1> USE DEF LifeInv, Ending, Alive, ClearPidfile
  <1>1. CASE MainStep
    BY <1>1 DEF MainStep, BadConfig, CreatePidfile, StartServer, StartHandler, RunDisplay,
       NewFails, NewResets, MainEnds
  <1>2. CASE ServerStep
    BY <1>2 DEF ServerStep, Listen, AcceptFails, ServeReturns, ServeFails, ServerFatal
  <1>3. CASE DrainStep
    BY <1>3 DEF DrainStep, BeginShutdown, GraceOver
  <1>4. CASE HandlerStep
    BY <1>4 DEF HandlerStep, AwaitServer, ShutdownPanel, HandlerExits
  <1>5. CASE SignalArrives \/ KilledEarly
    BY <1>5 DEF SignalArrives, KilledEarly
  <1>6. ASSUME NEW r \in Requests, Accept(r) \/ Finish(r) PROVE LifeInv'
    BY <1>6 DEF Accept, Finish
  <1>7. CASE UNCHANGED lifeVars
    BY <1>7 DEF lifeVars
  <1> QED
    BY <1>1, <1>2, <1>3, <1>4, <1>5, <1>6, <1>7 DEF LifeNext

(* However the process ends, short of an unhandled signal, its pidfile is  *)
(* gone: whichever goroutine ends it cleared the file first, and none can  *)
(* bring it back.                                                          *)
THEOREM LifecycleNoStalePidfile == LifeSpec => []NoStalePidfile
  <1>1. LifeInv => NoStalePidfile
    BY DEF LifeInv, NoStalePidfile
  <1> QED
    BY LifeInvInit, LifeInvStep, <1>1, PTL DEF LifeSpec

-----------------------------------------------------------------------------
(* The media apps.  First the types, which hold whatever the scripts do to *)
(* one another, the counters of the liveness probe within their limits.    *)

UnitStates == {"inactive", "failed", "pre", "displaced", "young", "grown"}
Libraries == {"upstream", "fits", "link", "missing"}

UnitsOK ==
  /\ unit \in [Apps -> UnitStates]
  /\ library \in [Apps -> Libraries]

WithinLimits ==
  /\ fails \in [Probed -> 0 .. FailThreshold]
  /\ restarts \in [Probed -> 0 .. MaxRestarts]

(* What every script and every app does to a unit keeps it a unit.         *)
LEMMA UnitsOKStep == UnitsOK /\ [Next]_vars => UnitsOK'
  <1> SUFFICES ASSUME UnitsOK, [Next]_vars PROVE UnitsOK'
    OBVIOUS
  <1> USE DEF UnitsOK, UnitStates, Libraries
  <1>1. ASSUME NEW a \in Apps, Starts(a) PROVE UnitsOK'
    BY <1>1 DEF Starts, NothingToRepair, Displace, Link, Runs
  <1>2. ASSUME NEW a \in Apps, Upgrade(a) \/ FailsToStart(a) PROVE UnitsOK'
    BY <1>2 DEF Upgrade, FailsToStart
  <1>3. ASSUME NEW a \in Probed, Grow(a) \/ Hang(a) \/ HourOver(a) PROVE UnitsOK'
    BY <1>3 DEF Grow, Hang, HourOver, appVars
  <1>4. ASSUME NEW a \in Probed, Probe(a) PROVE UnitsOK'
    BY <1>4 DEF Probe, ProbeLooks, ProbeAnswered, ProbeFails, Restart, Begun, appVars
  <1>5. CASE Reboot
    BY <1>5 DEF Reboot, Begun
  <1>6. CASE BackupBegins \/ BackupInterrupted \/ BackupKilled
    BY <1>6 DEF BackupBegins, BackupInterrupted, BackupKilled, Stop, appVars
  <1>7. CASE Backup
    BY <1>7 DEF Backup, BackupStops, BackupCopies, BackupExits, BackupEnds, BackupLooks,
       BackupRestarts, Stop, Start, Begun, appVars
  <1>8. CASE HealBegins
    BY <1>8 DEF HealBegins, Stop, appVars
  <1>9. CASE Heal
    <2>1. CASE HealStarts
      BY <2>1 DEF HealStarts, Start, Begun
    <2>2. CASE HealVerifies \/ HealRestarted \/ HealEnds
      BY <2>2 DEF HealVerifies, HealRestarted, HealEnds, appVars
    <2>3. ASSUME NEW a \in Pinned, HealChecks(a) PROVE UnitsOK'
      BY <2>3 DEF HealChecks, Restart, Begun, appVars
    <2> QED
      BY <1>9, <2>1, <2>2, <2>3 DEF Heal
  <1>10. CASE UNCHANGED vars
    BY <1>10 DEF vars, appVars
  <1> QED
    BY <1>1, <1>2, <1>3, <1>4, <1>5, <1>6, <1>7, <1>8, <1>9, <1>10 DEF Next

(* A failed probe is counted no further than the threshold, and an app is  *)
(* restarted no more often in an hour than the script allows itself.       *)
LEMMA WithinLimitsStep == WithinLimits /\ [Next]_vars => WithinLimits'
  <1> SUFFICES ASSUME WithinLimits, [Next]_vars PROVE WithinLimits'
    OBVIOUS
  <1> USE LimitsAssumption DEF WithinLimits
  <1>1. CASE UNCHANGED probeVars
    BY <1>1 DEF probeVars
  <1>2. ASSUME NEW a \in Probed, HourOver(a) PROVE WithinLimits'
    BY <1>2 DEF HourOver
  <1>3. ASSUME NEW a \in Probed, ProbeLooks(a) \/ ProbeAnswered(a) PROVE WithinLimits'
    BY <1>3 DEF ProbeLooks, ProbeAnswered
  <1>4. ASSUME NEW a \in Probed, ProbeFails(a) PROVE WithinLimits'
    BY <1>4 DEF ProbeFails
  <1>5. CASE Reboot
    BY <1>5 DEF Reboot, Begun
  <1>6. CASE \/ \E a \in Apps : Starts(a) \/ FailsToStart(a) \/ Upgrade(a)
             \/ \E a \in Probed : Grow(a) \/ Hang(a)
             \/ BackupBegins \/ BackupInterrupted \/ BackupKilled \/ Backup
             \/ HealBegins \/ Heal
    <2>1. UNCHANGED probeVars
      BY <1>6 DEF Starts, NothingToRepair, Displace, Link, FailsToStart, Upgrade, Grow,
         Hang, BackupBegins, BackupInterrupted, BackupKilled, Backup, BackupStops, BackupCopies, BackupExits,
         BackupEnds, BackupLooks, BackupRestarts, HealBegins, Heal, HealStarts,
         HealVerifies, HealRestarted, HealEnds, HealChecks
    <2> QED
      BY <1>1, <2>1
  <1>7. CASE UNCHANGED vars
    BY <1>7 DEF vars, probeVars
  <1> QED
    BY <1>2, <1>3, <1>4, <1>5, <1>6, <1>7 DEF Next, Probe

-----------------------------------------------------------------------------
(* RunsOnWorkingLibrary is not inductive by itself: an app about to start  *)
(* must have a library at all, so only an app in the middle of its repair  *)
(* may be without one, unless a repair of it was cut short.                *)
RepairInv ==
  /\ UnitsOK
  /\ \A a \in Ships \ torn :
       /\ Active(a) => Loads(library[a])
       /\ library[a] = "missing" => unit[a] = "displaced"

(* No step starts an app on a library that does not load, or takes one away.*)
LEMMA RepairInvStep == RepairInv /\ [Next]_vars => RepairInv'
  <1> SUFFICES ASSUME RepairInv, [Next]_vars,
                      NEW s \in Ships, s \notin torn'
               PROVE  /\ Active(s)' => Loads(library[s])'
                      /\ library'[s] = "missing" => unit'[s] = "displaced"
    BY UnitsOKStep DEF RepairInv
  <1>0. s \in Apps /\ Ships \subseteq Apps /\ Pinned \subseteq Apps /\ Probed \subseteq Apps
    BY AppsAssumption
  <1> USE <1>0 DEF RepairInv, UnitsOK, UnitStates, Libraries, Active, Loads
  <1>1. ASSUME NEW apps, Restart(apps) \/ Stop(apps)
        PROVE  /\ Active(s)' => Loads(library[s])'
               /\ library'[s] = "missing" => unit'[s] = "displaced"
    BY <1>1 DEF Restart, Stop, Cut, Begun, Down
  <1>2. ASSUME NEW apps, NEW up, Start(apps, up)
        PROVE  /\ Active(s)' => Loads(library[s])'
               /\ library'[s] = "missing" => unit'[s] = "displaced"
    BY <1>2 DEF Start, Begun, Down
  <1>3. CASE UNCHANGED appVars
    BY <1>3 DEF appVars
  <1>4. ASSUME NEW a \in Apps, Starts(a)
        PROVE  /\ Active(s)' => Loads(library[s])'
               /\ library'[s] = "missing" => unit'[s] = "displaced"
    <2>1. CASE NothingToRepair(a)
      BY <2>1 DEF NothingToRepair, Runs
    <2>2. CASE Displace(a)
      BY <2>2 DEF Displace
    <2>3. CASE Link(a)
      BY <2>3 DEF Link, Runs
    <2> QED
      BY <1>4, <2>1, <2>2, <2>3 DEF Starts
  <1>5. ASSUME NEW a \in Apps, Upgrade(a) \/ FailsToStart(a)
        PROVE  /\ Active(s)' => Loads(library[s])'
               /\ library'[s] = "missing" => unit'[s] = "displaced"
    BY <1>5 DEF Upgrade, FailsToStart, Cut, Starting
  <1>6. ASSUME NEW a \in Probed, Grow(a) \/ Hang(a) \/ HourOver(a)
        PROVE  /\ Active(s)' => Loads(library[s])'
               /\ library'[s] = "missing" => unit'[s] = "displaced"
    BY <1>6 DEF Grow, Hang, HourOver, appVars
  <1>7. ASSUME NEW a \in Probed, Probe(a)
        PROVE  Restart({a}) \/ UNCHANGED appVars
    BY <1>7 DEF Probe, ProbeLooks, ProbeAnswered, ProbeFails, appVars
  <1>8. CASE Reboot
    BY <1>8 DEF Reboot, Cut, Begun
  <1>9. CASE BackupBegins \/ BackupInterrupted \/ BackupKilled \/ Backup
    <2>1. \/ \E a : Stop({a})
          \/ \E a, up : Start({a}, up)
          \/ UNCHANGED appVars
      BY <1>9 DEF BackupBegins, BackupInterrupted, BackupKilled, Backup, BackupStops, BackupCopies,
         BackupExits, BackupEnds, BackupLooks, BackupRestarts, appVars
    <2> QED
      BY <2>1, <1>1, <1>2, <1>3
  <1>10. CASE HealBegins \/ Heal
    <2>1. \/ Stop(Pinned)
          \/ \E a : Restart({a})
          \/ \E up : Start(Pinned, up)
          \/ UNCHANGED appVars
      BY <1>10 DEF HealBegins, Heal, HealStarts, HealVerifies, HealRestarted, HealEnds,
         HealChecks, appVars
    <2> QED
      BY <2>1, <1>1, <1>2, <1>3
  <1>11. CASE UNCHANGED vars
    BY <1>3, <1>11 DEF vars
  <1> QED
    BY <1>1, <1>3, <1>4, <1>5, <1>6, <1>7, <1>8, <1>9, <1>10, <1>11 DEF Next

(* An app whose repair was not cut short since its last upgrade never runs *)
(* on a library that does not load, for any apps and whatever the scripts, *)
(* upgrades and power losses do to it meanwhile.                           *)
THEOREM MediaAppsRunOnWorkingLibrary == Spec => []RunsOnWorkingLibrary
  <1>1. Init => RepairInv
    BY AppsAssumption DEF Init, RepairInv, UnitsOK, UnitStates, Libraries, Active, Begun
  <1>2. RepairInv => RunsOnWorkingLibrary
    BY DEF RepairInv, RunsOnWorkingLibrary
  <1> QED
    BY <1>1, <1>2, RepairInvStep, PTL DEF Spec

(* The units are in one of their states, and the liveness probe keeps to   *)
(* its limits: no failure counted beyond the threshold, no restart beyond  *)
(* those of the hour, whatever the limits are.                             *)
THEOREM MediaAppsProbeWithinLimits == Spec => [](UnitsOK /\ WithinLimits)
  <1>1. Init => UnitsOK /\ WithinLimits
    BY LimitsAssumption DEF Init, UnitsOK, UnitStates, Libraries, WithinLimits, Begun
  <1> QED
    BY <1>1, UnitsOKStep, WithinLimitsStep, PTL DEF Spec

-----------------------------------------------------------------------------
(* CopiedAtRest holds in the copy because it held since each app was       *)
(* stopped: neither is the probe waiting for an app on the list that is    *)
(* neither pinned nor judged, nor can it begin to, since it only looks at  *)
(* apps that are active.                                                   *)
RestInv ==
  /\ UnitsOK
  /\ stopped \subseteq Apps
  /\ backup.step = "stopping" => backup.at \in Apps
  /\ backup.step \in {"idle", "killed"} => stopped = {}
  /\ backup.step \in {"stop", "stopping", "copy"} =>
       \A a \in stopped \ (Pinned \cup judged) : Down(a) /\ probe # a

(* No step of a script, an app or the probe disturbs what is on that list. *)
LEMMA RestInvStep == RestInv /\ [Next]_vars => RestInv'
  <1> DEFINE AtRest == \A a \in stopped \ (Pinned \cup judged) :
                         Down(a) /\ probe # a
             Listed == {"stop", "stopping", "copy"}
             Goal == /\ stopped \subseteq Apps
                     /\ backup.step = "stopping" => backup.at \in Apps
                     /\ backup.step \in {"idle", "killed"} => stopped = {}
                     /\ backup.step \in Listed => AtRest
  <1> SUFFICES ASSUME RestInv, [Next]_vars PROVE Goal'
    BY UnitsOKStep DEF RestInv
  <1>1. Goal
    BY DEF RestInv
  <1> USE DEF UnitsOK, UnitStates, Down
  <1>2. UnitsOK /\ stopped \subseteq Apps
    BY DEF RestInv
  (* Whatever leaves the backup and the apps on its list alone.            *)
  <1>3. ASSUME UNCHANGED backupVars,
               \A a \in stopped \ (Pinned \cup judged) :
                 Down(a) /\ probe # a => Down(a)' /\ probe' # a
        PROVE  Goal'
    BY <1>1, <1>3 DEF backupVars
  <1>4. ASSUME NEW a \in Apps, Starts(a) \/ FailsToStart(a) \/ Upgrade(a) PROVE Goal'
    <2>1. UNCHANGED <<probe, backupVars>>
      BY <1>4 DEF Starts, NothingToRepair, Displace, Link, FailsToStart, Upgrade, probeVars
    <2>2. ~Down(a) /\ \A b \in Apps \ {a} : unit'[b] = unit[b]
      BY <1>2, <1>4 DEF Starts, NothingToRepair, Displace, Link, FailsToStart, Upgrade,
         Starting, Active, Runs
    <2> QED
      BY <1>2, <1>3, <2>1, <2>2
  <1>5. ASSUME NEW a \in Probed, Grow(a) \/ Hang(a) \/ HourOver(a) PROVE Goal'
    <2>1. UNCHANGED <<probe, backupVars>>
      BY <1>5 DEF Grow, Hang, HourOver, probeVars
    <2>2. \/ ~Down(a) /\ \A b \in Apps \ {a} : unit'[b] = unit[b]
          \/ UNCHANGED unit
      BY <1>2, <1>5 DEF Grow, Hang, HourOver, appVars
    <2> QED
      BY <1>2, <1>3, <2>1, <2>2
  <1>6. ASSUME NEW a \in Probed, Probe(a) PROVE Goal'
    <2>1. UNCHANGED backupVars
      BY <1>6 DEF Probe, ProbeLooks, ProbeAnswered, ProbeFails
    <2>2. CASE ProbeLooks(a)
      BY <1>2, <1>3, <2>1, <2>2 DEF ProbeLooks, appVars
    <2>3. CASE ProbeAnswered(a)
      BY <1>2, <1>3, <2>1, <2>3, AppsAssumption DEF ProbeAnswered, appVars
    <2>4. CASE ProbeFails(a)
      <3>1. probe = a /\ probe' = NoApp /\ (Restart({a}) \/ UNCHANGED appVars)
        BY <2>4 DEF ProbeFails
      <3> QED
        BY <1>2, <1>3, <2>1, <3>1, AppsAssumption DEF Restart, Begun, appVars
    <2> QED
      BY <1>6, <2>2, <2>3, <2>4 DEF Probe
  <1>7. CASE Reboot
    BY <1>7 DEF Reboot, Idle
  <1>8. CASE BackupBegins
    BY <1>1, <1>8 DEF BackupBegins, Idle, At, appVars, probeVars
  <1>9. CASE BackupInterrupted \/ BackupKilled
    BY <1>1, <1>9 DEF BackupInterrupted, BackupKilled, At
  <1>10. CASE Backup
    <2>1. ASSUME NEW a \in Apps, BackupLooks(a) PROVE Goal'
      BY <1>1, <2>1 DEF BackupLooks, At, appVars, probeVars
    <2>2. CASE BackupStops
      BY <1>1, <1>2, <2>2 DEF BackupStops, Stop, At, probeVars
    <2>3. CASE BackupCopies
      BY <1>1, <2>3 DEF BackupCopies, At, appVars, probeVars
    <2>4. CASE BackupExits
      BY <1>1, <2>4 DEF BackupExits, At
    <2>5. CASE BackupEnds
      BY <2>5 DEF BackupEnds, Idle
    <2>6. ASSUME NEW a \in Apps, BackupRestarts(a) PROVE Goal'
      BY <1>1, <2>6 DEF BackupRestarts
    <2> QED
      BY <1>10, <2>1, <2>2, <2>3, <2>4, <2>5, <2>6 DEF Backup
  <1>11. CASE HealBegins \/ Heal
    <2>1. UNCHANGED <<probe, backupVars>>
      BY <1>11 DEF HealBegins, Heal, HealStarts, HealVerifies, HealRestarted, HealEnds,
         HealChecks, probeVars
    <2>2. \A a \in Apps \ Pinned : unit'[a] = unit[a]
      <3>1. \/ Stop(Pinned) \/ (\E up : Start(Pinned, up)) \/ UNCHANGED appVars
            \/ \E a \in Pinned : Restart({a})
        BY <1>11 DEF HealBegins, Heal, HealStarts, HealVerifies, HealRestarted, HealEnds,
           HealChecks
      <3> QED
        BY <1>2, <3>1 DEF Stop, Start, Restart, appVars
    <2> QED
      BY <1>2, <1>3, <2>1, <2>2
  <1>12. CASE UNCHANGED vars
    BY <1>3, <1>12 DEF vars, appVars, probeVars
  <1> QED
    BY <1>4, <1>5, <1>6, <1>7, <1>8, <1>9, <1>10, <1>11, <1>12 DEF Next

(* The copy finds at rest every app the backup stopped and noted, but for  *)
(* pinned ones and those the probe was waiting for as they were stopped.   *)
THEOREM MediaAppsCopiedAtRest == Spec => []CopiedAtRest
  <1>1. Init => RestInv
    BY DEF Init, RestInv, UnitsOK, UnitStates, Libraries, Idle, Begun
  <1>2. RestInv => CopiedAtRest
    BY DEF RestInv, CopiedAtRest
  <1> QED
    BY <1>1, <1>2, RestInvStep, PTL DEF Spec
=============================================================================
