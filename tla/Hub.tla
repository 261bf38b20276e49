-------------------------------- MODULE Hub --------------------------------
(***************************************************************************)
(* The shared state hub of internal/state/state.go: one authoritative      *)
(* Snapshot, and one bounded channel per subscribed SSE client.  Every     *)
(* method of the code runs under h.mu, so each of them is one action here. *)
(*                                                                         *)
(* A key is one slot of the snapshot that a patch can carry: a plain slice *)
(* ("host", "net", "cpu", ...) or one tunnel row (a Type/Name pair).  What *)
(* the slot holds is the number of times it has been published, so two     *)
(* readings never look equal; 0 is the zero value the hub starts from (for *)
(* a tunnel: no row yet).                                                  *)
(***************************************************************************)
EXTENDS Naturals, Sequences

CONSTANTS
  Keys,              \* slots of the Snapshot
  Conns,             \* channels that can be subscribed (one per SSE request)
  SubscriberBuffer,  \* capacity of a subscriber's channel (8 in the code)
  MaxVersion         \* bound: publications of one key

ASSUME BufferAssumption == SubscriberBuffer \in Nat \ {0}
ASSUME VersionAssumption == MaxVersion \in Nat

VARIABLES
  snap,        \* h.snap
  subs,        \* h.subs: the channels broadcast sends to
  chan,        \* whether each channel is "none", "open" or "closed"
  queue,       \* what each channel buffers
  received,    \* history: the snapshot a subscriber has been handed so far
  lost         \* history: keys whose latest patch was dropped for a subscriber

hubVars == <<snap, subs, chan, queue, received, lost>>

Versions == 0 .. MaxVersion
Patches == [key : Keys, ver : Versions]
ZeroSnapshot == [k \in Keys |-> 0]

HubInit ==                                                       \* NewHub
  /\ snap = ZeroSnapshot
  /\ subs = {}
  /\ chan = [c \in Conns |-> "none"]
  /\ queue = [c \in Conns |-> <<>>]
  /\ received = [c \in Conns |-> ZeroSnapshot]
  /\ lost = [c \in Conns |-> {}]

HasRoom(c) == Len(queue[c]) < SubscriberBuffer

Merge(view, m) == [view EXCEPT ![m.key] = m.ver]

-----------------------------------------------------------------------------
(* broadcast: a non-blocking send to every subscriber.                     *)

BroadcastForgetting(m) ==      \* mutated: a full buffer makes room by forgetting its oldest patch
  /\ queue' = [c \in Conns |->
       IF c \notin subs THEN queue[c]
       ELSE IF HasRoom(c) THEN Append(queue[c], m)
            ELSE Append(Tail(queue[c]), m)]
  /\ lost' = [c \in Conns |-> IF c \in subs THEN lost[c] \ {m.key} ELSE lost[c]]

BroadcastInFront(m) ==       \* mutated: the newest patch overtakes the pending ones
  /\ queue' = [c \in Conns |->
       IF c \in subs /\ HasRoom(c) THEN <<m>> \o queue[c] ELSE queue[c]]
  /\ lost' = [c \in Conns |->
       IF c \notin subs THEN lost[c]
       ELSE IF HasRoom(c) THEN lost[c] \ {m.key} ELSE lost[c] \cup {m.key}]

BroadcastUnbounded(m) ==     \* mutated: one more than the buffer holds is accepted
  /\ queue' = [c \in Conns |->
       IF c \in subs /\ Len(queue[c]) <= SubscriberBuffer
       THEN Append(queue[c], m) ELSE queue[c]]
  /\ lost' = [c \in Conns |->
       IF c \notin subs THEN lost[c]
       ELSE IF Len(queue[c]) <= SubscriberBuffer
            THEN lost[c] \ {m.key} ELSE lost[c] \cup {m.key}]

Broadcast(m) ==
  /\ queue' = [c \in Conns |->
       IF c \in subs /\ HasRoom(c) THEN Append(queue[c], m) ELSE queue[c]]
  /\ lost' = [c \in Conns |->
       IF c \notin subs THEN lost[c]
       ELSE IF HasRoom(c) THEN lost[c] \ {m.key} ELSE lost[c] \cup {m.key}]

(* PublishHost, ..., PublishTunnel: store the new value, then broadcast it. *)
Publish(k) ==
  /\ snap[k] < MaxVersion
  /\ snap' = [snap EXCEPT ![k] = @ + 1]
  /\ Broadcast([key |-> k, ver |-> snap[k] + 1])
  /\ UNCHANGED <<subs, chan, received>>

(* Subscribe: snapshot and registration under one lock.                    *)
Subscribe(c) ==
  /\ c \notin subs
  /\ subs' = subs \cup {c}
  /\ chan' = [chan EXCEPT ![c] = "open"]
  /\ queue' = [queue EXCEPT ![c] = <<>>]
  /\ received' = [received EXCEPT ![c] = snap]
  /\ lost' = [lost EXCEPT ![c] = {}]
  /\ UNCHANGED snap

(* The subscriber's receive from its channel (the handler's `msg := <-ch`). *)
Receive(c) ==
  /\ c \in subs
  /\ queue[c] # <<>>
  /\ queue' = [queue EXCEPT ![c] = Tail(@)]
  /\ received' = [received EXCEPT ![c] = Merge(@, Head(queue[c]))]
  /\ UNCHANGED <<snap, subs, chan, lost>>

CloseOnly(c) ==              \* mutated: closed, but left in the subscriber map
  /\ c \in subs
  /\ chan' = [chan EXCEPT ![c] = "closed"]
  /\ queue' = [queue EXCEPT ![c] = <<>>]
  /\ UNCHANGED <<snap, subs, received, lost>>

(* The cancel func: delete from the map and close, under the lock, once.   *)
(* The history of a client that left is of no interest and cleared.        *)
Cancel(c) ==
  /\ c \in subs
  /\ subs' = subs \ {c}
  /\ chan' = [chan EXCEPT ![c] = "closed"]
  /\ queue' = [queue EXCEPT ![c] = <<>>]
  /\ received' = [received EXCEPT ![c] = ZeroSnapshot]
  /\ lost' = [lost EXCEPT ![c] = {}]
  /\ UNCHANGED snap

HubNext ==
  \/ \E k \in Keys : Publish(k)
  \/ \E c \in Conns : Subscribe(c) \/ Receive(c) \/ Cancel(c)

HubSpec == HubInit /\ [][HubNext]_hubVars

-----------------------------------------------------------------------------
(* Types of the state; a stalled client costs the hub at most              *)
(* subscriberBuffer pending patches, whatever the collectors publish.      *)
TypeOK ==
  /\ snap \in [Keys -> Versions]
  /\ subs \subseteq Conns
  /\ chan \in [Conns -> {"none", "open", "closed"}]
  /\ queue \in [Conns -> Seq(Patches)]
  /\ \A c \in Conns : Len(queue[c]) <= SubscriberBuffer
  /\ received \in [Conns -> [Keys -> Versions]]
  /\ lost \in [Conns -> SUBSET Keys]

(* broadcast only sends to open channels (a send on a closed channel would *)
(* panic the whole daemon), and every open channel is still subscribed.    *)
NoSendOnClosed == \A c \in Conns : c \in subs <=> chan[c] = "open"

(* The patches of one key sit in a queue oldest first, each newer than     *)
(* what the subscriber already has and no newer than the snapshot.         *)
QueueOrdered(c) ==
  /\ \A i \in 1 .. Len(queue[c]) :
       /\ received[c][queue[c][i].key] < queue[c][i].ver
       /\ queue[c][i].ver <= snap[queue[c][i].key]
  /\ \A i, j \in 1 .. Len(queue[c]) :
       i < j /\ queue[c][i].key = queue[c][j].key => queue[c][i].ver < queue[c][j].ver

(* For every key whose latest patch was not dropped for this subscriber,   *)
(* that patch is on its way or already applied.                            *)
NothingMissed(c) ==
  \A k \in Keys \ lost[c] :
    \/ received[c][k] = snap[k]
    \/ \E i \in 1 .. Len(queue[c]) : queue[c][i] = [key |-> k, ver |-> snap[k]]

(* Subscribe's promise: taking the snapshot and registering under one lock *)
(* means a subscriber neither misses an update nor is sent one that its    *)
(* initial frame already reflects; only a counted drop makes it fall       *)
(* behind, and only on the dropped keys.                                   *)
FeedCoherent == \A c \in subs : QueueOrdered(c) /\ NothingMissed(c)

(* While a client stays subscribed nothing it is handed takes a key back   *)
(* to an older reading.                                                    *)
NeverBackwards ==
  [][\A c \in Conns : c \in subs /\ c \in subs' =>
       \A k \in Keys : received[c][k] <= received'[c][k]]_hubVars
=============================================================================
