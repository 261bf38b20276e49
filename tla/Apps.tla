-------------------------------- MODULE Apps --------------------------------
(***************************************************************************)
(* The app collector (internal/api/apps.go).  Every tick it finds out      *)
(* which ports listen anywhere on the box: it lists the processes, picks   *)
(* one per network namespace, reads that process's listening tables, and   *)
(* publishes an app as up when its port was in one of them.  None of this  *)
(* is atomic: processes come and go, listen and stop listening while the   *)
(* scan runs, and a pid may be reused.  Without a procfs it dials each     *)
(* port on the loopback of its own namespace instead.                      *)
(*                                                                         *)
(* An app stands for its port, as no two of interest share one.  The IPv4  *)
(* and the IPv6 table of a process are read as one, listing /proc is one   *)
(* step, and what listens in the daemon's namespace answers on loopback.   *)
(***************************************************************************)
EXTENDS Integers, Sequences, FiniteSets

CONSTANTS
  Procs,       \* pids of other processes
  Self,        \* the daemon's own
  Namespaces,
  Root,        \* the daemon's namespace
  Gone,        \* namespace of a pid nobody has
  Foreign,     \* processes the daemon may not inspect
  AppPorts     \* the configured apps

ASSUME AppsAssumption ==
  /\ Self \notin Procs /\ Root \in Namespaces /\ Gone \notin Namespaces
  /\ Foreign \subseteq Procs
  /\ IsFiniteSet(Namespaces)

VARIABLES
  procfs,     \* the kernel has a procfs
  ns,         \* the namespace of each pid
  binds,      \* ports each process listens on, in its namespace
  pc,         \* "idle", "list", "read", "probe", "publish" or "stopped"
  todo,       \* pids yet to be looked at, or apps yet to be probed
  seen,       \* netTableDirs: namespaces that have a table to read
  dirs,       \* netTableDirs: whose tables will be read
  ports,      \* the ports found
  ok,         \* some table was read
  up,         \* what the hub was told: the apps that are up
  told,       \* the hub has been told
  heard,      \* history: ports that listened at some time of this scan
  steady,     \* history: <<p, a>> where p listened on a all through this scan
  churned     \* history: namespaces a process left in this scan

worldVars == <<procfs, ns, binds>>
scanVars == <<pc, todo, seen, dirs, ports, ok>>
historyVars == <<heard, steady, churned>>
vars == <<worldVars, scanVars, up, told, historyVars>>

Everyone == Procs \cup {Self}
Alive(p) == ns[p] # Gone

Holding == {h \in Everyone \X AppPorts : h[2] \in binds[h[1]]}
ListeningIn(n) == UNION {binds[p] : p \in {q \in Everyone : ns[q] = n}}
Listening == UNION {binds[p] : p \in Everyone}

Init ==
  /\ procfs \in BOOLEAN
  /\ ns = [p \in Everyone |-> IF p = Self THEN Root ELSE Gone]
  /\ binds = [p \in Everyone |-> {}]
  /\ pc = "idle"
  /\ todo = {} /\ seen = {} /\ dirs = <<>> /\ ports = {} /\ ok = FALSE
  /\ up = {} /\ told = FALSE
  /\ heard = {} /\ steady = {} /\ churned = {}

-----------------------------------------------------------------------------
(* The box: processes start in a namespace, listen, close and exit.        *)
Spawn(p, n) ==
  /\ ~Alive(p)
  /\ ns' = [ns EXCEPT ![p] = n]
  /\ UNCHANGED <<procfs, binds, scanVars, up, told, historyVars>>

ExitProcess(p) ==
  /\ p # Self /\ Alive(p)
  /\ ns' = [ns EXCEPT ![p] = Gone]
  /\ binds' = [binds EXCEPT ![p] = {}]
  /\ steady' = {h \in steady : h[1] # p}
  /\ churned' = churned \cup {ns[p]}
  /\ UNCHANGED <<procfs, scanVars, up, told, heard>>

Bind(p, a) ==
  /\ Alive(p) /\ a \notin ListeningIn(ns[p])
  /\ binds' = [binds EXCEPT ![p] = @ \cup {a}]
  /\ heard' = heard \cup {a}
  /\ UNCHANGED <<procfs, ns, scanVars, up, told, steady, churned>>

Close(p, a) ==
  /\ a \in binds[p]
  /\ binds' = [binds EXCEPT ![p] = @ \ {a}]
  /\ steady' = steady \ {<<p, a>>}
  /\ UNCHANGED <<procfs, ns, scanVars, up, told, heard, churned>>

World ==
  \/ \E p \in Procs : ExitProcess(p) \/ \E n \in Namespaces : Spawn(p, n)
  \/ \E p \in Everyone, a \in AppPorts : Bind(p, a) \/ Close(p, a)

-----------------------------------------------------------------------------
(* collectApps.                                                            *)
ScanFrom(namespaces, found) ==
  /\ pc = "idle"
  /\ pc' = "list"
  /\ seen' = namespaces /\ ports' = found /\ ok' = FALSE /\ dirs' = <<Self>>
  /\ heard' = Listening /\ steady' = Holding /\ churned' = {}
  /\ UNCHANGED <<worldVars, todo, up, told>>

OwnNamespace == IF procfs THEN {Root} ELSE {}

ScanKeepingSeen == ScanFrom(seen \cup OwnNamespace, {})  \* mutated: seen outlives the tick
ScanKeepingPorts == ScanFrom(OwnNamespace, ports)        \* mutated: the set is not made anew

(* A tick, or the first scan: our own table first, whatever else there is. *)
StartScan == ScanFrom(OwnNamespace, {})

Stop ==
  /\ pc = "idle" /\ told
  /\ pc' = "stopped"
  /\ UNCHANGED <<worldVars, todo, seen, dirs, ports, ok, up, told, historyVars>>

ListProcesses ==
  /\ pc = "list"
  /\ pc' = "read"
  /\ todo' = IF procfs THEN {p \in Everyone : Alive(p)} ELSE {}
  /\ UNCHANGED <<worldVars, seen, dirs, ports, ok, up, told, historyVars>>

LinkUnless(p, skip) ==
  /\ pc = "read" /\ p \in todo
  /\ todo' = todo \ {p}
  /\ IF skip
     THEN UNCHANGED <<seen, dirs>>
     ELSE seen' = seen \cup {ns[p]} /\ dirs' = Append(dirs, p)
  /\ UNCHANGED <<worldVars, pc, ports, ok, up, told, historyVars>>

Unreadable(p) == ~Alive(p) \/ p \in Foreign

LinkRootOnly(p) == LinkUnless(p, TRUE)           \* mutated: only our own tables are read
LinkUnseen(p) == LinkUnless(p, Unreadable(p))    \* mutated: every process's are

(* The namespace link of one process: unreadable, seen, or a new one.      *)
Link(p) == LinkUnless(p, Unreadable(p) \/ ns[p] \in seen)

(* The tables of the next process chosen, if it is still there.            *)
ReadTable ==
  /\ pc = "read" /\ todo = {} /\ dirs # <<>>
  /\ dirs' = Tail(dirs)
  /\ IF procfs /\ Alive(Head(dirs))
     THEN ok' = TRUE /\ ports' = ports \cup ListeningIn(ns[Head(dirs)])
     ELSE UNCHANGED <<ok, ports>>
  /\ UNCHANGED <<worldVars, pc, todo, seen, up, told, historyVars>>

ReadAll ==
  /\ pc = "read" /\ todo = {} /\ dirs = <<>>
  /\ IF ok THEN pc' = "publish" /\ todo' = {} ELSE pc' = "probe" /\ todo' = AppPorts
  /\ UNCHANGED <<worldVars, seen, dirs, ports, ok, up, told, historyVars>>

(* probeTCP: dial the loopback address.                                    *)
Probe(a) ==
  /\ pc = "probe" /\ a \in todo
  /\ todo' = todo \ {a}
  /\ ports' = IF a \in ListeningIn(Root) THEN ports \cup {a} ELSE ports
  /\ UNCHANGED <<worldVars, pc, seen, dirs, ok, up, told, historyVars>>

PublishApps ==
  /\ pc = "publish" \/ (pc = "probe" /\ todo = {})
  /\ up' = ports \cap AppPorts
  /\ told' = TRUE
  /\ pc' = "idle"
  /\ UNCHANGED <<worldVars, todo, seen, dirs, ports, ok, historyVars>>

ScanStep ==
  \/ StartScan \/ ListProcesses \/ ReadTable \/ ReadAll \/ PublishApps
  \/ \E p \in Everyone : Link(p)
  \/ \E a \in AppPorts : Probe(a)

Next == World \/ ScanStep \/ Stop

Spec == Init /\ [][Next]_vars

(* The ticker keeps ticking.  Nothing is assumed of the box.               *)
FairSpec == Spec /\ WF_vars(ScanStep)

-----------------------------------------------------------------------------
(* Types of the state; a scan reads one table per namespace, not one per   *)
(* process.                                                                *)
TypeOK ==
  /\ procfs \in BOOLEAN /\ ok \in BOOLEAN /\ told \in BOOLEAN
  /\ ns \in [Everyone -> Namespaces \cup {Gone}] /\ ns[Self] = Root
  /\ binds \in [Everyone -> SUBSET AppPorts]
  /\ pc \in {"idle", "list", "read", "probe", "publish", "stopped"}
  /\ todo \subseteq Everyone \cup AppPorts
  /\ seen \subseteq Namespaces
  /\ dirs \in Seq(Everyone) /\ Len(dirs) <= Cardinality(Namespaces)
  /\ ports \subseteq AppPorts /\ up \subseteq AppPorts
  /\ heard \subseteq AppPorts
  /\ steady \subseteq Everyone \X AppPorts
  /\ churned \subseteq Namespaces

(* An app is reported up only if something listened on its port while the  *)
(* scan ran: a port found once is not reported for ever, and a reused pid  *)
(* or namespace makes no difference.                                       *)
UpWasListening == [][PublishApps => up' \subseteq heard]_vars

(* An app that listens all through a scan is reported up, if it is in our  *)
(* own namespace, procfs or not; or, with a procfs, in any other one as    *)
(* long as the daemon may inspect it and no process of its namespace exits *)
(* meanwhile: the one whose table was to be read could be that one, and no *)
(* other is tried in its place.                                            *)
SteadyIsUp ==
  [][PublishApps =>
       \A h \in steady :
         \/ h[2] \in up'
         \/ ns[h[1]] # Root /\ (~procfs \/ h[1] \in Foreign \/ ns[h[1]] \in churned)]_vars

(* Ports the scan can find: those of a namespace with an inspectable       *)
(* process, or of the daemon's own.                                        *)
Findable ==
  IF procfs
  THEN UNION {ListeningIn(n) : n \in {ns[p] : p \in {q \in Everyone \ Foreign : Alive(q)}}}
  ELSE ListeningIn(Root)

(* What the page shows is right in the end: once the box is quiet, and     *)
(* until the collector is stopped, exactly the apps that listen are up.    *)
SettlesOnTheTruth ==
  <>[][UNCHANGED worldVars]_vars => <>[](pc = "stopped" \/ up = Findable)
=============================================================================
