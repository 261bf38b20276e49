----------------------------- MODULE Dashboard -----------------------------
(***************************************************************************)
(* The web dashboard end to end: collectors publish into the hub (Hub),    *)
(* one sseHandler goroutine per request (internal/api/api.go) copies its   *)
(* channel onto a TCP stream, and the page (website/dashboard.html) merges *)
(* what it reads into the state it shows, reconnecting after an error.     *)
(*                                                                         *)
(* A connection that breaks is noticed independently by its two ends, so a *)
(* page can be on a new connection while the handler of its old one is     *)
(* still subscribed.  net/http and EventSource are modelled by what the    *)
(* code relies on: a write to a dead connection fails or the request       *)
(* context ends; the page gets an error event and connects again.          *)
(***************************************************************************)
EXTENDS Hub

CONSTANTS
  NoConn,   \* the page has no connection
  WireCap   \* bound: events in flight on one connection (socket buffers)

ASSUME WireAssumption == WireCap \in Nat \ {0} /\ NoConn \notin Conns

VARIABLES
  ready,      \* collectors holding a reading they have yet to publish
  pc,         \* handler of a connection: "idle", "initial" or "loop"
  initial,    \* the handler's local `initial`
  alive,      \* the TCP connection is up
  wire,       \* events written by the handler, not yet read by the page
  cur,        \* the page's EventSource connection
  data,       \* the page's `data`
  connected   \* the page's `connected` (the footer says LIVE)

netVars == <<ready, pc, initial, alive, wire, cur, data, connected>>
vars == <<hubVars, netVars>>

Seed == MaxVersion + 1            \* the demo value the page is served with
Full(s) == [kind |-> "full", view |-> s]
Patch(m) == [kind |-> "patch", key |-> m.key, ver |-> m.ver]

Init ==
  /\ HubInit
  /\ ready = {}
  /\ pc = [c \in Conns |-> "idle"]
  /\ initial = [c \in Conns |-> ZeroSnapshot]
  /\ alive = [c \in Conns |-> FALSE]
  /\ wire = [c \in Conns |-> <<>>]
  /\ cur = NoConn
  /\ data = [k \in Keys |-> Seed]
  /\ connected = FALSE

-----------------------------------------------------------------------------
(* Collectors: take a reading, then publish it.                            *)
Stat(k) ==
  /\ k \notin ready
  /\ snap[k] < MaxVersion
  /\ ready' = ready \cup {k}
  /\ UNCHANGED <<hubVars, pc, initial, alive, wire, cur, data, connected>>

PublishReading(k) ==
  /\ k \in ready
  /\ Publish(k)
  /\ ready' = ready \ {k}
  /\ UNCHANGED <<pc, initial, alive, wire, cur, data, connected>>

-----------------------------------------------------------------------------
(* sseHandler.                                                             *)

SubscribeLate(c) ==        \* mutated: the first frame is not the snapshot taken with the registration
  /\ cur = NoConn
  /\ pc[c] = "idle"
  /\ Subscribe(c)
  /\ initial' = [initial EXCEPT ![c] = ZeroSnapshot]
  /\ pc' = [pc EXCEPT ![c] = "initial"]
  /\ alive' = [alive EXCEPT ![c] = TRUE]
  /\ wire' = [wire EXCEPT ![c] = <<>>]
  /\ cur' = c
  /\ UNCHANGED <<ready, data, connected>>

Connect(c) ==
  /\ cur = NoConn
  /\ pc[c] = "idle"
  /\ Subscribe(c)
  /\ initial' = [initial EXCEPT ![c] = snap]
  /\ pc' = [pc EXCEPT ![c] = "initial"]
  /\ alive' = [alive EXCEPT ![c] = TRUE]
  /\ wire' = [wire EXCEPT ![c] = <<>>]
  /\ cur' = c
  /\ UNCHANGED <<ready, data, connected>>

(* initial is not used again, so the model forgets it.                     *)
WriteInitial(c) ==
  /\ pc[c] = "initial" /\ alive[c]
  /\ wire' = [wire EXCEPT ![c] = Append(@, Full(initial[c]))]
  /\ initial' = [initial EXCEPT ![c] = ZeroSnapshot]
  /\ pc' = [pc EXCEPT ![c] = "loop"]
  /\ UNCHANGED <<hubVars, ready, alive, cur, data, connected>>

Forward(c) ==
  /\ pc[c] = "loop" /\ alive[c]
  /\ Len(wire[c]) < WireCap          \* else the write blocks
  /\ Receive(c)
  /\ wire' = [wire EXCEPT ![c] = Append(@, Patch(Head(queue[c])))]
  /\ UNCHANGED <<ready, pc, initial, alive, cur, data, connected>>

HandlerEnds(c) ==          \* the deferred cancel runs
  /\ pc' = [pc EXCEPT ![c] = "idle"]
  /\ initial' = [initial EXCEPT ![c] = ZeroSnapshot]
  /\ Cancel(c)
  /\ UNCHANGED <<ready, alive, wire, cur, data, connected>>

EndsOnNextPatch(c) ==      \* mutated: no ctx.Done case and no keepalive, only patch writes can fail
  /\ pc[c] = "loop" /\ ~alive[c] /\ queue[c] # <<>>
  /\ HandlerEnds(c)

(* The connection is dead: the write in hand (first frame, patch or        *)
(* keepalive comment) fails, or ctx.Done is selected.                      *)
HandlerReturns(c) ==
  /\ pc[c] # "idle" /\ ~alive[c]
  /\ HandlerEnds(c)

-----------------------------------------------------------------------------
(* The page.                                                               *)
Apply(view, m) ==
  IF m.kind = "full" THEN m.view ELSE Merge(view, m)

MergeAlways(c) ==          \* mutated: a full frame is merged, so rows it lacks linger
  /\ cur = c /\ wire[c] # <<>>
  /\ data' = LET m == Head(wire[c]) IN
       IF m.kind = "full" THEN [k \in Keys |-> IF m.view[k] = 0 THEN data[k] ELSE m.view[k]]
       ELSE Merge(data, m)
  /\ connected' = TRUE
  /\ wire' = [wire EXCEPT ![c] = Tail(@)]
  /\ UNCHANGED <<hubVars, ready, pc, initial, alive, cur>>

OnMessage(c) ==
  /\ cur = c /\ wire[c] # <<>>
  /\ data' = Apply(data, Head(wire[c]))
  /\ connected' = TRUE
  /\ wire' = [wire EXCEPT ![c] = Tail(@)]
  /\ UNCHANGED <<hubVars, ready, pc, initial, alive, cur>>

CloseForGood(c) ==         \* mutated: onerror calls es.close(), the page never connects again
  /\ cur = c /\ ~alive[c] /\ connected
  /\ connected' = FALSE
  /\ wire' = [wire EXCEPT ![c] = <<>>]
  /\ UNCHANGED <<hubVars, ready, pc, initial, alive, cur, data>>

OnError(c) ==
  /\ cur = c /\ ~alive[c]
  /\ cur' = NoConn
  /\ connected' = FALSE
  /\ wire' = [wire EXCEPT ![c] = <<>>]
  /\ UNCHANGED <<hubVars, ready, pc, initial, alive, data>>

-----------------------------------------------------------------------------
(* The environment: a connection breaks; the daemon is restarted.          *)
Break(c) ==
  /\ alive[c]
  /\ alive' = [alive EXCEPT ![c] = FALSE]
  /\ UNCHANGED <<hubVars, ready, pc, initial, wire, cur, data, connected>>

Restart ==
  /\ snap' = ZeroSnapshot
  /\ subs' = {}
  /\ chan' = [c \in Conns |-> "none"]
  /\ queue' = [c \in Conns |-> <<>>]
  /\ received' = [c \in Conns |-> ZeroSnapshot]
  /\ lost' = [c \in Conns |-> {}]
  /\ ready' = {}
  /\ pc' = [c \in Conns |-> "idle"]
  /\ initial' = [c \in Conns |-> ZeroSnapshot]
  /\ alive' = [c \in Conns |-> FALSE]
  /\ UNCHANGED <<wire, cur, data, connected>>

HandlerStep(c) == WriteInitial(c) \/ Forward(c) \/ HandlerReturns(c)
PageStep(c) == OnMessage(c) \/ OnError(c)

Next ==
  \/ \E k \in Keys : Stat(k) \/ PublishReading(k)
  \/ \E c \in Conns : Connect(c) \/ HandlerStep(c) \/ PageStep(c) \/ Break(c)
  \/ Restart

Spec == Init /\ [][Next]_vars

(* The Go scheduler runs every goroutine.  Nothing makes a browser read,   *)
(* a connection break, the daemon restart or a collector take a reading.   *)
FairSpec ==
  /\ Spec
  /\ \A k \in Keys : WF_vars(PublishReading(k))
  /\ \A c \in Conns : WF_vars(HandlerStep(c))

(* The browser runs its event loop, and EventSource retries.               *)
BrowserRuns ==
  /\ \A c \in Conns : WF_vars(PageStep(c))
  /\ WF_vars(\E c \in Conns : Connect(c))

-----------------------------------------------------------------------------
(* What event m says about key k, if anything.                             *)
Says(m, k, v) ==
  \/ m.kind = "full" /\ m.view[k] = v
  \/ m.kind = "patch" /\ m.key = k /\ m.ver = v

(* From the collector's lock to the pixel: while the page's connection is  *)
(* up and its handler streams, the current value of every key that was not *)
(* dropped for it is on the page, on the wire, or in the channel.          *)
NothingLostEndToEnd ==
  \A c \in Conns : cur = c /\ alive[c] /\ pc[c] = "loop" =>
    \A k \in Keys \ lost[c] :
      \/ data[k] = snap[k]
      \/ \E i \in 1 .. Len(wire[c]) : Says(wire[c][i], k, snap[k])
      \/ \E i \in 1 .. Len(queue[c]) : queue[c][i] = [key |-> k, ver |-> snap[k]]

(* While the footer says LIVE over a connection that is up, the page shows *)
(* nothing but readings of the running daemon: no demo row it was served   *)
(* with and no row left over from before a reconnect or a restart.         *)
OnlyLiveReadings ==
  \A c \in Conns : cur = c /\ alive[c] /\ connected =>
    \A k \in Keys : data[k] <= snap[k]

(* A subscriber whose browser went away is unsubscribed in the end, even   *)
(* if no collector ever publishes again: abandoned tabs do not accumulate  *)
(* in the hub.                                                             *)
AbandonedUnsubscribed ==
  \A c \in Conns : (c \in subs /\ ~alive[c]) ~> (c \notin subs \/ alive[c])

(* While the browser runs, and unless connections keep breaking, the page  *)
(* is live again and again: a transient failure is not the end of the      *)
(* dashboard's updates.                                                    *)
BackToLive ==
  BrowserRuns /\ <>[][\A c \in Conns : alive[c] => alive'[c]]_vars => []<>connected

(* A patch accepted into the channel reaches the page of a running browser *)
(* unless the connection breaks first.                                     *)
Delivered ==
  BrowserRuns =>
    \A c \in Conns, k \in Keys :
      (cur = c /\ alive[c] /\ k \notin lost[c]) ~>
        (data[k] = snap[k] \/ k \in lost[c] \/ cur # c \/ ~alive[c])
=============================================================================
