------------------------------ MODULE Tunnels ------------------------------
(***************************************************************************)
(* The tunnel rows from their sources to the page: what `systemctl`, `wg`  *)
(* and `tailscale` report is parsed (pkg/systemd, pkg/wireguard,           *)
(* pkg/tailscale), turned into one row (internal/display/screens.go),      *)
(* upserted into the hub's list (internal/state/state.go) and merged by    *)
(* the page row by row (website/dashboard.html).  Beside the page stands a *)
(* caller of Snapshot, which reads the list it was given without a lock.   *)
(*                                                                         *)
(* Each source has one collector goroutine, the only writer of its row, so *)
(* a reading and its publication are one step.  What a full subscriber     *)
(* buffer drops is the subject of module Hub; here it has room.            *)
(***************************************************************************)
EXTENDS Integers, SequencesExt

CONSTANTS
  Sources,      \* the configured tunnels
  Type,         \* of each: "AUTOSSH", "WIREGUARD" or "TAILSCALE"
  Name,         \* of each: its display name, chosen by the operator
  Reports,      \* of each: what its command may answer
  Addrs,        \* the addresses a report may name
  IPv4,         \* those that are IPv4
  NoAddr,       \* the empty address
  Never,        \* the age of a handshake that never was
  Failed,       \* the answer of a command that failed or made no sense
  Unread,       \* what is known of a source before its first report
  Seed,         \* the rows a page shows before it is connected
  MaxReadings   \* bound: readings by all collectors together

Key(row) == <<row.type, row.name>>

\* the operator may give two tunnels one name, but not two autossh tunnels
ASSUME NamesAssumption ==
  \A s, t \in Sources : Type[s] = Type[t] /\ Name[s] = Name[t] => s = t
ASSUME TypesAssumption ==
  \A s \in Sources : Type[s] \in {"AUTOSSH", "WIREGUARD", "TAILSCALE"}
ASSUME ReadingsAssumption == MaxReadings \in Nat
ASSUME AddrsAssumption == IPv4 \subseteq Addrs /\ NoAddr \in Addrs \ IPv4
ASSUME NeverAssumption == Never \notin Nat

\* what the commands print, once it has been told apart from an error;
\* tailscale's peers differ in their addresses
SystemdReports == [state : STRING, entered : Nat, uptime : Nat]
WireguardReports == Seq([age : Nat \cup {Never}, endpoint : Addrs, rx : Nat])
TailscaleReports ==
  [running : BOOLEAN, peers : SUBSET [online : BOOLEAN, ips : Seq(Addrs), rx : Nat]]
ASSUME ReportsAssumption ==
  \A s \in Sources : \A report \in Reports[s] :
    /\ report # Unread
    /\ report # Failed /\ Type[s] = "AUTOSSH" => report \in SystemdReports
    /\ report # Failed /\ Type[s] = "WIREGUARD" => report \in WireguardReports
    /\ report # Failed /\ Type[s] = "TAILSCALE" =>
         report \in TailscaleReports /\ IsFiniteSet(report.peers)

VARIABLES
  arrays,     \* backing arrays of the tunnel list, by address
  snap,       \* h.snap.Tunnels: the address of the current one
  connected,  \* the page has an event stream
  pending,    \* the patches on their way to it
  page,       \* the page's data.tunnels
  held,       \* the array a caller of Snapshot was given, or NoArray
  seen,       \* the rows that caller has read of it
  given,      \* history: what that array held when it was given
  told,       \* history: the last report read of each source
  probed,     \* history: the address pinged for its row
  readings    \* history: readings so far

listVars == <<arrays, snap>>
pageVars == <<connected, pending, page>>
readerVars == <<held, seen, given>>
historyVars == <<told, probed, readings>>
vars == <<listVars, pageVars, readerVars, historyVars>>

Arrays == 1..3
NoArray == 0

-----------------------------------------------------------------------------
\* Parsing.  A status is what a reading says: up, bytes received, connected
\* time, and the address worth pinging.

Down == [up |-> FALSE, rx |-> 0, conn |-> 0, target |-> NoAddr]
HandshakeStaleAfter == 180
handshakeUnit == [day |-> 86400, hour |-> 3600, minute |-> 60, second |-> 1]
Year == 31536000

\* how wg prints an age: the units that are not zero, largest first, from
\* years of 365 days down to seconds; an age below a second has none ("Now")
WithPart(parts, n, unit) ==
  IF n > 0 THEN Append(parts, [n |-> n, unit |-> unit]) ELSE parts
Ago(age) ==
  LET rest == age % Year
      years == WithPart(<<>>, age \div Year, "year")
      days == WithPart(years, rest \div 86400, "day")
      hours == WithPart(days, (rest % 86400) \div 3600, "hour")
      minutes == WithPart(hours, (rest % 3600) \div 60, "minute")
  IN WithPart(minutes, rest % 60, "second")

\* handshakeToken finds the parts in units the parser knows, and passes over a year
Recognised(parts) == \E i \in DOMAIN parts : parts[i].unit \in DOMAIN handshakeUnit
Length(part) ==
  IF part.unit \in DOMAIN handshakeUnit THEN part.n * handshakeUnit[part.unit] ELSE 0
\* a wrong version: only the last part counts
ParseLastPart(parts) == Length(parts[Len(parts)])
ParseHandshakeAge(parts) ==
  LET age[i \in 0 .. Len(parts)] ==
        IF i = 0 THEN 0 ELSE age[i - 1] + Length(parts[i])
  IN age[Len(parts)]

\* a peer's block: its endpoint, its handshake line if it ever shook hands, its counter
IsRecent(p) ==
  /\ p.age # Never
  /\ Recognised(Ago(p.age)) /\ ParseHandshakeAge(Ago(p.age)) < HandshakeStaleAfter
Block(st, p) ==
  [st EXCEPT !.target = IF @ = NoAddr THEN p.endpoint ELSE @,
             !.up = @ \/ IsRecent(p),
             !.rx = @ + p.rx]
ParseShow(peers) ==
  LET st[i \in 0 .. Len(peers)] == IF i = 0 THEN Down ELSE Block(st[i - 1], peers[i])
  IN st[Len(peers)]

FirstIPv4(ips) ==
  LET i == SelectInSeq(ips, LAMBDA a : a \in IPv4)
  IN IF i = 0 THEN NoAddr ELSE ips[i]

\* the Peer object is a Go map: its order differs from call to call
Entry(st, p) ==
  [st EXCEPT !.rx = @ + p.rx,
             !.target = IF @ = NoAddr /\ p.online THEN FirstIPv4(p.ips) ELSE @]
ParseStatus(running, order) ==
  LET st[i \in 0 .. Len(order)] ==
        IF i = 0 THEN [Down EXCEPT !.up = running] ELSE Entry(st[i - 1], order[i])
  IN st[Len(order)]

\* systemctl exits with an error for every state but active: only its word counts
IsActive(unit) == unit.state = "active"
\* microseconds since boot, as is the uptime; 0 if it never was or cannot be read
ActiveEnterMonotonic(unit) == unit.entered
StatAutoSSH(unit) ==
  LET entered == ActiveEnterMonotonic(unit)
  IN [Down EXCEPT !.up = IsActive(unit),
                  !.conn = IF IsActive(unit) /\ entered > 0 /\ unit.uptime > entered
                           THEN unit.uptime - entered ELSE 0]

Stats(s, report) ==
  CASE report = Failed -> {Down}
    [] report # Failed /\ Type[s] = "AUTOSSH" -> {StatAutoSSH(report)}
    [] report # Failed /\ Type[s] = "WIREGUARD" -> {ParseShow(report)}
    [] report # Failed /\ Type[s] = "TAILSCALE" ->
         {ParseStatus(report.running, order) : order \in SetToSeqs(report.peers)}

-----------------------------------------------------------------------------
\* Lists of rows.

\* Publish's loop: replace the first row of that key, or append
Upsert(rows, row) ==
  LET i == SelectInSeq(rows, LAMBDA r : Key(r) = Key(row))
  IN IF i = 0 THEN Append(rows, row) ELSE [rows EXCEPT ![i] = row]

\* a row as JSON: lastSeen is left out when it is empty
Encode(row) ==
  [f \in {g \in DOMAIN row : g # "lastSeen" \/ row[g] # ""} |-> row[f]]
EncodeAll(rows) == [i \in DOMAIN rows |-> Encode(rows[i])]

\* the old fields with those of the patch over them
Assign(old, patch) ==
  [f \in DOMAIN old \cup DOMAIN patch |-> IF f \in DOMAIN patch THEN patch[f] ELSE old[f]]
\* a wrong version: rows told apart by their names alone
MergeByName(rows, row) ==
  LET i == SelectInSeq(rows, LAMBDA r : r.name = row.name)
  IN IF i = 0 THEN Append(rows, row)
     ELSE [rows EXCEPT ![i] = Assign(rows[i], row)]
\* mergePatch: a Map keyed by type and name keeps the order of insertion, and
\* the fields a patch leaves out survive
MergeRow(rows, row) ==
  LET i == SelectInSeq(rows, LAMBDA r : Key(r) = Key(row))
  IN IF i = 0 THEN Append(rows, row)
     ELSE [rows EXCEPT ![i] = Assign(rows[i], row)]

-----------------------------------------------------------------------------
Init ==
  /\ arrays = [a \in Arrays |-> <<>>] /\ snap = 1
  /\ connected = FALSE /\ pending = <<>> /\ page = Seed
  /\ held = NoArray /\ seen = <<>> /\ given = <<>>
  /\ told = [s \in Sources |-> Unread]
  /\ probed = [s \in Sources |-> NoAddr]
  /\ readings = 0

\* the list as a Snapshot caller may still be reading it stays as it is: the
\* new one is built in another array (unreachable ones are collected)
UpsertInPlace(row) ==          \* a wrong version: the current array is changed
  /\ arrays' = [arrays EXCEPT ![snap] = Upsert(@, row)]
  /\ UNCHANGED snap
UpsertCopied(row) ==
  LET fresh == CHOOSE a \in Arrays : a \notin {snap, held}
  IN /\ arrays' = [a \in Arrays |->
                     CASE a = fresh -> Upsert(arrays[snap], row)
                       [] a = held -> arrays[a]
                       [] a \notin {fresh, held} -> <<>>]
     /\ snap' = fresh

PublishTunnel(row) ==
  /\ UpsertCopied(row)
  /\ pending' = IF connected THEN Append(pending, Encode(row)) ELSE pending
  /\ UNCHANGED <<connected, page, readerVars>>

\* one turn of a collector: read, ping what is up, publish
Collect(s, report) ==
  /\ readings < MaxReadings
  /\ \E st \in Stats(s, report) :
       LET pings == st.up /\ st.target # NoAddr
       IN \E answered \in {FALSE, pings} :
            /\ PublishTunnel([type |-> Type[s], name |-> Name[s], up |-> st.up,
                              rx |-> st.rx, conn |-> st.conn,
                              ping |-> answered, lastSeen |-> ""])
            /\ probed' = [probed EXCEPT ![s] = IF pings THEN st.target ELSE NoAddr]
  /\ told' = [told EXCEPT ![s] = report]
  /\ readings' = readings + 1

\* Subscribe and the first frame, which replaces the page's data
Connect ==
  /\ ~connected
  /\ connected' = TRUE /\ pending' = <<>>
  /\ page' = EncodeAll(arrays[snap])
  /\ UNCHANGED <<listVars, readerVars, historyVars>>

Disconnect ==
  /\ connected
  /\ connected' = FALSE /\ pending' = <<>>
  /\ UNCHANGED <<page, listVars, readerVars, historyVars>>

OnPatch ==
  /\ pending # <<>>
  /\ page' = MergeRow(page, Head(pending))
  /\ pending' = Tail(pending)
  /\ UNCHANGED <<connected, listVars, readerVars, historyVars>>

\* (*Hub).Snapshot copies the slice header under the lock
Snapshot ==
  /\ held = NoArray
  /\ held' = snap /\ given' = arrays[snap] /\ seen' = <<>>
  /\ UNCHANGED <<listVars, pageVars, historyVars>>

\* the caller reads the next row, without the lock
ReadRow ==
  /\ held # NoArray /\ Len(seen) < Len(given)
  /\ seen' = Append(seen, arrays[held][Len(seen) + 1])
  /\ UNCHANGED <<held, given, listVars, pageVars, historyVars>>

DropSnapshot ==
  /\ held # NoArray
  /\ held' = NoArray /\ seen' = <<>> /\ given' = <<>>
  /\ UNCHANGED <<listVars, pageVars, historyVars>>

Next == \/ \E s \in Sources : \E report \in Reports[s] : Collect(s, report)
        \/ Connect \/ Disconnect \/ OnPatch
        \/ Snapshot \/ ReadRow \/ DropSnapshot

Spec == Init /\ [][Next]_vars

-----------------------------------------------------------------------------
\* What the rows should say, from the reports alone.

\* A tunnel is up when its backend runs, its unit is active, or some peer
\* shook hands less than three minutes ago.
IsUp(s, report) ==
  /\ report # Failed
  /\ CASE Type[s] = "AUTOSSH" -> report.state = "active"
       [] Type[s] = "WIREGUARD" ->
            \E i \in DOMAIN report : report[i].age \in 0 .. HandshakeStaleAfter - 1
       [] Type[s] = "TAILSCALE" -> report.running

\* The two ages the parser has no words for: its only recent peers shook
\* hands this very second, or some peer did so a year ago and more.
JustNow(s, report) ==
  /\ report # Failed /\ Type[s] = "WIREGUARD"
  /\ \A i \in DOMAIN report : report[i].age \notin 1 .. HandshakeStaleAfter - 1
YearsAgo(s, report) ==
  /\ report # Failed /\ Type[s] = "WIREGUARD"
  /\ \E i \in DOMAIN report : report[i].age # Never /\ report[i].age >= Year

\* The bytes received from all peers together.
Received(s, report) ==
  CASE report = Failed \/ Type[s] = "AUTOSSH" -> 0
    [] report # Failed /\ Type[s] = "WIREGUARD" ->
         MapThenSumSet(LAMBDA i : report[i].rx, DOMAIN report)
    [] report # Failed /\ Type[s] = "TAILSCALE" ->
         MapThenSumSet(LAMBDA p : p.rx, report.peers)

\* The addresses worth pinging: the first endpoint wg lists, or the first
\* IPv4 of any online peer of the tailnet.
Targets(s, report) ==
  CASE Type[s] = "AUTOSSH" -> {}
    [] Type[s] = "WIREGUARD" ->
         {report[i].endpoint : i \in {j \in DOMAIN report :
            /\ report[j].endpoint # NoAddr
            /\ \A k \in 1 .. j - 1 : report[k].endpoint = NoAddr}}
    [] Type[s] = "TAILSCALE" ->
         {a \in IPv4 : \E p \in report.peers :
                         p.online /\ \E i \in DOMAIN p.ips : p.ips[i] = a}

RowTells(s) ==
  \E i \in DOMAIN arrays[snap] :
    LET row == arrays[snap][i]
        worth == IF row.up THEN Targets(s, told[s]) ELSE {}
    IN /\ Key(row) = <<Type[s], Name[s]>>
       /\ row.up => IsUp(s, told[s]) \/ YearsAgo(s, told[s])
       /\ IsUp(s, told[s]) => row.up \/ JustNow(s, told[s])
       /\ row.rx = Received(s, told[s])
       /\ row.ping => probed[s] # NoAddr
       /\ row.conn > 0 => row.up
       /\ IF worth = {} THEN probed[s] = NoAddr ELSE probed[s] \in worth

\* Every row of the hub tells what its source last reported, whatever the
\* units of an age, the number of peers and the order in which Go ranges over
\* them: up or down, the bytes of all peers, no ping of a tunnel that is down,
\* and a ping of a peer that can answer whenever there is one.  Each source has
\* one row of its own, also when two of them share a name.  Two words of wg
\* are misread, and only these: a handshake of this very second ("Now") counts
\* as none, and the years of an older one are passed over.
RowsTellReports ==
  /\ Len(arrays[snap]) = Cardinality({s \in Sources : told[s] # Unread})
  /\ \A s \in Sources : told[s] # Unread => RowTells(s)

\* handshakeStaleAfter "is how long since a peer's last handshake before the
\* tunnel is considered down" (wireguard.go:29): a row that is up has a peer
\* that shook hands within three minutes.
StaleMeansDown ==
  \A s \in Sources : Type[s] = "WIREGUARD" /\ told[s] # Unread =>
    \A i \in DOMAIN arrays[snap] :
      Key(arrays[snap][i]) = <<Type[s], Name[s]>> /\ arrays[snap][i].up =>
        IsUp(s, told[s])

\* the page's rows once it has merged these patches, one by one
Merged(rows, patches) ==
  LET merged[i \in 0 .. Len(patches)] ==
        IF i = 0 THEN rows ELSE MergeRow(merged[i - 1], patches[i])
  IN merged[Len(patches)]

\* Once a connected page has applied what is on its way, it shows the hub's
\* rows, in the hub's order and with no field of an older row left over.
PageShowsHubRows ==
  connected => Merged(page, pending) = EncodeAll(arrays[snap])

\* What Snapshot handed out never changes under its reader (state.go:270: a
\* fresh array "freezes every previously handed-out snapshot for safe
\* lock-free reads forever").
SnapshotsFrozen ==
  \A i \in DOMAIN seen : seen[i] = given[i]
=============================================================================
