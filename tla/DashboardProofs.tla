-------------------------- MODULE DashboardProofs --------------------------
(***************************************************************************)
(* Proofs about the hub and the dashboard it feeds, for any number of      *)
(* keys, subscribers, connections and versions and any buffer sizes.       *)
(*                                                                         *)
(* FeedCoherent is not inductive by itself: it says nothing of a dropped   *)
(* key beyond its queued patches, so a publication could append a patch    *)
(* that is not newer than what the subscriber has.  NeverAhead, that no    *)
(* subscriber has been handed a version the snapshot has yet to reach,     *)
(* closes the gap.  A publication raises one key's version and appends it  *)
(* to a queue, where it is newer than everything queued for that key, or   *)
(* adds the key to lost; a receive moves the head of the queue into        *)
(* received.                                                               *)
(*                                                                         *)
(* The dashboard's steps are steps of the hub, except for a restart, which *)
(* leaves no subscriber.  Past the hub the argument is that the page, once *)
(* it has read what is on its wire, is where its handler is.               *)
(***************************************************************************)
EXTENDS Dashboard, SequenceTheorems, TLAPS

NeverAhead(c) == \A k \in Keys : received[c][k] <= snap[k]

HubInv == TypeOK /\ FeedCoherent /\ \A c \in subs : NeverAhead(c)

(* The shape of a queue after Append and after Tail.                       *)
LEMMA AppendFacts ==
  ASSUME NEW S, NEW q \in Seq(S), NEW m \in S
  PROVE  /\ Append(q, m) \in Seq(S)
         /\ Len(Append(q, m)) = Len(q) + 1
         /\ \A i \in 1 .. Len(q) : Append(q, m)[i] = q[i]
         /\ Append(q, m)[Len(q) + 1] = m
  OBVIOUS

(* What Receive leaves of a queue, and what it takes.                      *)
LEMMA TailFacts ==
  ASSUME NEW S, NEW q \in Seq(S), q # <<>>
  PROVE  /\ Tail(q) \in Seq(S)
         /\ Len(q) \in Nat \ {0}
         /\ Len(Tail(q)) = Len(q) - 1
         /\ \A i \in 1 .. Len(Tail(q)) : Tail(q)[i] = q[i + 1]
         /\ Head(q) = q[1] /\ Head(q) \in S
  OBVIOUS

(* NewHub: a hub without subscribers satisfies the invariant.              *)
LEMMA HubInitInv == HubInit => HubInv
  <1> SUFFICES ASSUME HubInit PROVE HubInv
    OBVIOUS
  <1>1. TypeOK
    BY BufferAssumption, VersionAssumption
    DEF HubInit, TypeOK, Versions, ZeroSnapshot
  <1>2. FeedCoherent
    BY DEF HubInit, FeedCoherent
  <1>3. \A c \in subs : NeverAhead(c)
    BY DEF HubInit
  <1> QED
    BY <1>1, <1>2, <1>3 DEF HubInv

(* Types, including the bound on a queue's length.                         *)
LEMMA HubTypeStep == TypeOK /\ [HubNext]_hubVars => TypeOK'
  <1> SUFFICES ASSUME TypeOK, [HubNext]_hubVars PROVE TypeOK'
    OBVIOUS
  <1> USE BufferAssumption, VersionAssumption DEF TypeOK, Versions
  <1>1. ASSUME NEW k \in Keys, Publish(k) PROVE TypeOK'
    <2> DEFINE m == [key |-> k, ver |-> snap[k] + 1]
    <2>1. m \in Patches
      BY <1>1 DEF Publish, Patches
    <2>2. queue' \in [Conns -> Seq(Patches)]
      BY <1>1, <2>1, AppendFacts DEF Publish, Broadcast
    <2>3. \A c \in Conns : Len(queue'[c]) <= SubscriberBuffer
      <3> SUFFICES ASSUME NEW c \in Conns PROVE Len(queue'[c]) <= SubscriberBuffer
        OBVIOUS
      <3>0. queue[c] \in Seq(Patches) /\ Len(queue[c]) \in Nat
        OBVIOUS
      <3>1. CASE c \in subs /\ HasRoom(c)
        <4>1. queue'[c] = Append(queue[c], m)
          BY <1>1, <3>1 DEF Publish, Broadcast
        <4> QED
          BY <3>0, <3>1, <4>1, <2>1, AppendFacts DEF HasRoom
      <3>2. CASE ~(c \in subs /\ HasRoom(c))
        BY <1>1, <3>2 DEF Publish, Broadcast
      <3> QED
        BY <3>1, <3>2
    <2>4. snap' \in [Keys -> 0 .. MaxVersion]
      BY <1>1 DEF Publish
    <2>5. lost' \in [Conns -> SUBSET Keys]
      BY <1>1 DEF Publish, Broadcast
    <2> QED
      BY <1>1, <2>2, <2>3, <2>4, <2>5 DEF Publish
  <1>2. ASSUME NEW c \in Conns, Subscribe(c) PROVE TypeOK'
    BY <1>2 DEF Subscribe
  <1>3. ASSUME NEW c \in Conns, Receive(c) PROVE TypeOK'
    <2>1. /\ queue[c] \in Seq(Patches)
          /\ Tail(queue[c]) \in Seq(Patches)
          /\ Len(Tail(queue[c])) <= Len(queue[c])
          /\ Head(queue[c]) \in Patches
      BY <1>3, TailFacts DEF Receive
    <2>2. Merge(received[c], Head(queue[c])) \in [Keys -> 0 .. MaxVersion]
      BY <2>1 DEF Merge, Patches
    <2> QED
      BY <1>3, <2>1, <2>2 DEF Receive
  <1>4. ASSUME NEW c \in Conns, Cancel(c) PROVE TypeOK'
    <2>1. ZeroSnapshot \in [Keys -> Versions]
      BY VersionAssumption DEF ZeroSnapshot, Versions
    <2>2. received' \in [Conns -> [Keys -> Versions]]
      BY <1>4, <2>1 DEF Cancel
    <2>3. queue' \in [Conns -> Seq(Patches)] /\ \A d \in Conns : Len(queue'[d]) <= SubscriberBuffer
      BY <1>4, BufferAssumption DEF Cancel
    <2> QED
      BY <1>4, <2>2, <2>3 DEF Cancel
  <1>5. CASE UNCHANGED hubVars
    BY <1>5 DEF hubVars
  <1> QED
    BY <1>1, <1>2, <1>3, <1>4, <1>5 DEF HubNext

(* No subscriber's channel ever holds more than subscriberBuffer patches,  *)
(* for every buffer size, number of clients and number of keys.            *)
THEOREM HubTypeCorrect == HubSpec => []TypeOK
  <1>1. HubInit => TypeOK
    BY HubInitInv DEF HubInv
  <1> QED
    BY <1>1, HubTypeStep, PTL DEF HubSpec

-----------------------------------------------------------------------------
Coherent(c) == QueueOrdered(c) /\ NothingMissed(c) /\ NeverAhead(c)

(* TypeOK in the terms the arithmetic needs.                               *)
LEMMA HubTypes ==
  ASSUME HubInv
  PROVE  /\ subs \subseteq Conns
         /\ snap \in [Keys -> Nat]
         /\ \A c \in Conns : received[c] \in [Keys -> Nat]
         /\ \A c \in Conns : queue[c] \in Seq(Patches) /\ Len(queue[c]) \in Nat
         /\ \A p \in Patches : p.key \in Keys /\ p.ver \in Nat
         /\ \A k \in Keys, v \in Nat : v <= MaxVersion => [key |-> k, ver |-> v] \in Patches
  <1>1. TypeOK /\ Versions \subseteq Nat
    BY VersionAssumption DEF HubInv, Versions
  <1>2. \A p \in Patches : p.key \in Keys /\ p.ver \in Nat
    BY <1>1 DEF Patches
  <1>3. \A k \in Keys, v \in Nat : v <= MaxVersion => [key |-> k, ver |-> v] \in Patches
    BY VersionAssumption DEF Patches, Versions
  <1>4. \A c \in Conns : queue[c] \in Seq(Patches) /\ Len(queue[c]) \in Nat
    BY <1>1 DEF TypeOK
  <1> QED
    BY <1>1, <1>2, <1>3, <1>4 DEF TypeOK

(* A publication keeps the feed of every subscriber coherent.              *)
LEMMA PublishCoherent ==
  ASSUME HubInv, NEW k \in Keys, Publish(k), NEW c \in subs'
  PROVE  Coherent(c)'
  <1> DEFINE m == [key |-> k, ver |-> snap[k] + 1]
             q == queue[c]
             r == queue'[c]
  <1>0. /\ c \in Conns /\ c \in subs /\ received'[c] = received[c]
        /\ q \in Seq(Patches) /\ Len(q) \in Nat
        /\ \A i \in 1 .. Len(q) : q[i] \in Patches
        /\ snap \in [Keys -> Nat] /\ received[c] \in [Keys -> Nat]
        /\ \A p \in Patches : p.key \in Keys /\ p.ver \in Nat
    BY HubTypes DEF Publish
  <1>1. /\ snap'[k] = snap[k] + 1
        /\ \A l \in Keys : l # k => snap'[l] = snap[l]
    BY <1>0 DEF Publish
  <1>2. QueueOrdered(c) /\ NothingMissed(c) /\ NeverAhead(c)
    BY <1>0 DEF HubInv, FeedCoherent
  <1>3. NeverAhead(c)'
    BY <1>0, <1>1, <1>2 DEF NeverAhead
  <1>4. m.key = k /\ m.ver = snap[k] + 1
    OBVIOUS
  <1>5. \A i \in 1 .. Len(q) :
          /\ received[c][q[i].key] < q[i].ver
          /\ q[i].ver <= snap'[q[i].key]
          /\ q[i].key = k => q[i].ver < m.ver
    BY <1>0, <1>1, <1>2 DEF QueueOrdered
  <1>6. CASE HasRoom(c)
    <2>1. r = Append(q, m) /\ lost'[c] = lost[c] \ {k}
      BY <1>0, <1>6 DEF Publish, Broadcast, HubInv, TypeOK
    <2>2. /\ Len(r) = Len(q) + 1
          /\ \A i \in 1 .. Len(q) : r[i] = q[i]
          /\ r[Len(q) + 1] = m
      BY <1>0, <2>1
    <2> HIDE DEF m, r
    <2>3. received[c][k] < m.ver
      BY <1>0, <1>2, <1>4 DEF NeverAhead
    <2>4. QueueOrdered(c)'
      <3>1. ASSUME NEW i \in 1 .. Len(r)
            PROVE  received'[c][r[i].key] < r[i].ver /\ r[i].ver <= snap'[r[i].key]
        <4>1. CASE i = Len(q) + 1
          BY <1>0, <1>1, <1>4, <2>2, <2>3, <4>1
        <4>2. CASE i \in 1 .. Len(q)
          BY <1>0, <1>5, <2>2, <4>2
        <4> QED
          BY <1>0, <2>2, <4>1, <4>2
      <3>2. ASSUME NEW i \in 1 .. Len(r), NEW j \in 1 .. Len(r), i < j, r[i].key = r[j].key
            PROVE  r[i].ver < r[j].ver
        <4>1. i \in 1 .. Len(q) /\ r[i] = q[i]
          BY <1>0, <2>2, <3>2
        <4>2. CASE j = Len(q) + 1
          BY <1>4, <1>5, <2>2, <3>2, <4>1, <4>2
        <4>3. CASE j \in 1 .. Len(q)
          BY <1>2, <2>2, <3>2, <4>1, <4>3 DEF QueueOrdered
        <4> QED
          BY <1>0, <2>2, <4>2, <4>3
      <3> QED
        BY <3>1, <3>2 DEF QueueOrdered, r
    <2>5. NothingMissed(c)'
      <3> SUFFICES ASSUME NEW l \in Keys \ lost'[c]
                   PROVE  \/ received'[c][l] = snap'[l]
                          \/ \E i \in 1 .. Len(r) : r[i] = [key |-> l, ver |-> snap'[l]]
        BY DEF NothingMissed, r
      <3>1. CASE l = k
        <4>1. Len(q) + 1 \in 1 .. Len(r)
          BY <1>0, <2>2
        <4>2. r[Len(q) + 1] = [key |-> l, ver |-> snap'[l]]
          BY <1>1, <2>2, <3>1 DEF m
        <4>3. \E i \in 1 .. Len(r) : r[i] = [key |-> l, ver |-> snap'[l]]
          BY <4>1, <4>2, Zenon
        <4> QED
          BY <4>3
      <3>2. CASE l # k
        <4>1. l \notin lost[c] /\ snap'[l] = snap[l]
          BY <1>1, <2>1, <3>2
        <4>2. CASE received[c][l] = snap[l]
          BY <1>0, <4>1, <4>2
        <4>3. CASE \E i \in 1 .. Len(q) : q[i] = [key |-> l, ver |-> snap[l]]
          <5>1. PICK i \in 1 .. Len(q) : q[i] = [key |-> l, ver |-> snap[l]]
            BY <4>3
          <5>2. i \in 1 .. Len(r)
            BY <1>0, <2>2
          <5>3. r[i] = [key |-> l, ver |-> snap'[l]]
            BY <2>2, <4>1, <5>1
          <5> QED
            BY <5>2, <5>3, Zenon
        <4> QED
          BY <1>2, <4>1, <4>2, <4>3 DEF NothingMissed
      <3> QED
        BY <3>1, <3>2
    <2> QED
      BY <1>3, <2>4, <2>5 DEF Coherent
  <1>7. CASE ~HasRoom(c)
    <2>1. r = q /\ lost'[c] = lost[c] \cup {k}
      BY <1>0, <1>7 DEF Publish, Broadcast, HubInv, TypeOK
    <2>2. QueueOrdered(c)'
      BY <1>0, <1>2, <1>5, <2>1 DEF QueueOrdered
    <2>3. NothingMissed(c)'
      BY <1>0, <1>1, <1>2, <2>1 DEF NothingMissed
    <2> QED
      BY <1>3, <2>2, <2>3 DEF Coherent
  <1> QED
    BY <1>6, <1>7

(* A receive keeps the receiver's own feed coherent: its head is newer     *)
(* than what it had, and what follows it for the same key newer still.     *)
LEMMA ReceiveCoherent ==
  ASSUME HubInv, NEW c \in Conns, Receive(c)
  PROVE  Coherent(c)'
  <1> DEFINE q == queue[c]
             r == queue'[c]
             h == Head(q)
  <1>0. /\ c \in subs /\ q # <<>> /\ q \in Seq(Patches)
        /\ lost'[c] = lost[c] /\ snap' = snap
        /\ snap \in [Keys -> Nat] /\ received[c] \in [Keys -> Nat]
        /\ \A p \in Patches : p.key \in Keys /\ p.ver \in Nat
    <2>1. c \in subs /\ q # <<>> /\ snap' = snap /\ lost' = lost
      BY DEF Receive
    <2> QED
      BY <2>1, HubTypes
  <1>1. /\ Len(q) \in Nat \ {0} /\ r = Tail(q)
        /\ \A i \in 1 .. Len(q) : q[i] \in Patches
    BY <1>0 DEF HubInv, TypeOK, Receive
  <1>2. /\ Len(r) = Len(q) - 1
        /\ \A i \in 1 .. Len(r) : r[i] = q[i + 1] /\ i + 1 \in 1 .. Len(q)
        /\ h = q[1] /\ h \in Patches
    BY <1>0, <1>1
  <1>3. /\ received'[c][h.key] = h.ver
        /\ \A l \in Keys : l # h.key => received'[c][l] = received[c][l]
    <2>1. received'[c] = [received[c] EXCEPT ![h.key] = h.ver]
      BY <1>0 DEF Receive, Merge, HubInv, TypeOK
    <2> QED
      BY <1>0, <1>2, <2>1
  <1>4. QueueOrdered(c) /\ NothingMissed(c) /\ NeverAhead(c)
    BY <1>0 DEF HubInv, FeedCoherent
  <1> HIDE DEF r, h
  <1>5. QueueOrdered(c)'
    <2>1. \A i \in 1 .. Len(r) : r[i].ver <= snap[r[i].key]
      BY <1>2, <1>4 DEF QueueOrdered
    <2>2. ASSUME NEW i \in 1 .. Len(r)
          PROVE  received'[c][r[i].key] < r[i].ver
      <3>1. r[i] = q[i + 1] /\ i + 1 \in 1 .. Len(q) /\ 1 \in 1 .. Len(q) /\ 1 < i + 1
        BY <1>1, <1>2
      <3>2. CASE r[i].key = h.key
        BY <1>2, <1>3, <1>4, <3>1, <3>2 DEF QueueOrdered
      <3>3. CASE r[i].key # h.key
        BY <1>0, <1>1, <1>3, <1>4, <3>1, <3>3 DEF QueueOrdered
      <3> QED
        BY <3>2, <3>3
    <2>3. \A i, j \in 1 .. Len(r) :
            i < j /\ r[i].key = r[j].key => r[i].ver < r[j].ver
      <3> SUFFICES ASSUME NEW i \in 1 .. Len(r), NEW j \in 1 .. Len(r), i < j,
                          r[i].key = r[j].key
                   PROVE  r[i].ver < r[j].ver
        OBVIOUS
      <3>1. i + 1 < j + 1
        BY <1>1, <1>2
      <3> QED
        BY <1>2, <1>4, <3>1 DEF QueueOrdered
    <2> QED
      BY <1>0, <2>1, <2>2, <2>3 DEF QueueOrdered, r
  <1>6. NothingMissed(c)'
    <2> SUFFICES ASSUME NEW l \in Keys \ lost[c]
                 PROVE  \/ received'[c][l] = snap[l]
                        \/ \E i \in 1 .. Len(r) : r[i] = [key |-> l, ver |-> snap[l]]
      BY <1>0 DEF NothingMissed, r
    <2>1. CASE \E i \in 1 .. Len(q) : q[i] = [key |-> l, ver |-> snap[l]]
      <3>1. PICK i \in 1 .. Len(q) : q[i] = [key |-> l, ver |-> snap[l]]
        BY <2>1
      <3>2. CASE i = 1
        BY <1>2, <1>3, <3>1, <3>2
      <3>3. CASE i # 1
        <4>1. i - 1 \in 1 .. Len(r) /\ r[i - 1] = q[i]
          BY <1>1, <1>2, <3>3
        <4> QED
          BY <3>1, <4>1
      <3> QED
        BY <3>2, <3>3
    <2>2. CASE received[c][l] = snap[l]
      <3>1. received[c][h.key] < h.ver /\ h.ver <= snap[h.key] /\ 1 \in 1 .. Len(q)
        BY <1>1, <1>2, <1>4 DEF QueueOrdered
      <3>2. h.key # l
        BY <1>0, <1>2, <2>2, <3>1
      <3> QED
        BY <1>3, <2>2, <3>2
    <2> QED
      BY <1>4, <2>1, <2>2 DEF NothingMissed
  <1>7. NeverAhead(c)'
    <2>1. h.ver <= snap[h.key]
      BY <1>1, <1>2, <1>4 DEF QueueOrdered
    <2>2. \A l \in Keys : received'[c][l] <= snap[l]
      BY <1>3, <1>4, <2>1 DEF NeverAhead
    <2> QED
      BY <1>0, <2>2 DEF NeverAhead
  <1> QED
    BY <1>5, <1>6, <1>7 DEF Coherent

(* A subscriber a step leaves alone stays coherent.                        *)
LEMMA UntouchedCoherent ==
  ASSUME NEW c \in Conns, Coherent(c), snap' = snap, queue'[c] = queue[c],
         received'[c] = received[c], lost'[c] = lost[c]
  PROVE  Coherent(c)'
  BY DEF Coherent, QueueOrdered, NothingMissed, NeverAhead

(* Every method of the hub preserves the invariant.                        *)
LEMMA HubInvStep == HubInv /\ [HubNext]_hubVars => HubInv'
  <1> SUFFICES ASSUME HubInv, [HubNext]_hubVars PROVE HubInv'
    OBVIOUS
  <1>1. TypeOK'
    BY HubTypeStep DEF HubInv
  <1>2. \A c \in subs : Coherent(c)
    BY DEF HubInv, FeedCoherent, Coherent
  <1>3. ASSUME NEW c \in subs' PROVE Coherent(c)'
    <2>0. c \in Conns
      BY <1>1 DEF TypeOK
    <2>1. ASSUME NEW k \in Keys, Publish(k) PROVE Coherent(c)'
      BY <2>1, PublishCoherent
    <2>2. ASSUME NEW d \in Conns, Subscribe(d) PROVE Coherent(c)'
      <3>1. CASE c = d
        <4>1. received'[c] = snap /\ queue'[c] = <<>> /\ snap' = snap
          BY <2>2, <3>1 DEF Subscribe, HubInv, TypeOK
        <4>2. snap \in [Keys -> Nat]
          BY VersionAssumption DEF HubInv, TypeOK, Versions
        <4> QED
          BY <4>1, <4>2 DEF Coherent, QueueOrdered, NothingMissed, NeverAhead
      <3>2. CASE c # d
        <4>1. c \in subs
          BY <2>2, <3>2 DEF Subscribe
        <4> QED
          BY <1>2, <2>0, <2>2, <3>2, <4>1, UntouchedCoherent DEF Subscribe, HubInv, TypeOK
      <3> QED
        BY <3>1, <3>2
    <2>3. ASSUME NEW d \in Conns, Receive(d) PROVE Coherent(c)'
      <3>1. CASE c = d
        BY <2>3, <3>1, ReceiveCoherent
      <3>2. CASE c # d
        BY <1>2, <2>0, <2>3, <3>2, UntouchedCoherent DEF Receive, HubInv, TypeOK
      <3> QED
        BY <3>1, <3>2
    <2>4. ASSUME NEW d \in Conns, Cancel(d) PROVE Coherent(c)'
      BY <1>2, <2>0, <2>4, UntouchedCoherent DEF Cancel, HubInv, TypeOK
    <2>5. CASE UNCHANGED hubVars
      BY <1>2, <2>0, <2>5, UntouchedCoherent DEF hubVars
    <2> QED
      BY <2>1, <2>2, <2>3, <2>4, <2>5 DEF HubNext
  <1> QED
    BY <1>1, <1>3 DEF HubInv, FeedCoherent, Coherent

(* Subscribe's and broadcast's promise for every instance: a subscriber    *)
(* falls behind only on keys whose latest patch was dropped for it.        *)
THEOREM HubFeedCoherent == HubSpec => []FeedCoherent
  <1>1. HubInv => FeedCoherent
    BY DEF HubInv
  <1> QED
    BY HubInitInv, HubInvStep, <1>1, PTL DEF HubSpec

(* Broadcast never sends on a closed channel.                              *)
THEOREM HubNoSendOnClosed == HubSpec => []NoSendOnClosed
  <1>1. HubInit => NoSendOnClosed
    BY DEF HubInit, NoSendOnClosed
  <1>2. TypeOK /\ NoSendOnClosed /\ [HubNext]_hubVars => NoSendOnClosed'
    <2> SUFFICES ASSUME TypeOK, NoSendOnClosed, [HubNext]_hubVars, NEW c \in Conns
                 PROVE  (c \in subs)' <=> (chan[c] = "open")'
      BY DEF NoSendOnClosed
    <2> USE DEF TypeOK, NoSendOnClosed
    <2>1. ASSUME NEW k \in Keys, Publish(k) PROVE (c \in subs)' <=> (chan[c] = "open")'
      BY <2>1 DEF Publish
    <2>2. ASSUME NEW d \in Conns, Subscribe(d) PROVE (c \in subs)' <=> (chan[c] = "open")'
      BY <2>2 DEF Subscribe
    <2>3. ASSUME NEW d \in Conns, Receive(d) PROVE (c \in subs)' <=> (chan[c] = "open")'
      BY <2>3 DEF Receive
    <2>4. ASSUME NEW d \in Conns, Cancel(d) PROVE (c \in subs)' <=> (chan[c] = "open")'
      BY <2>4 DEF Cancel
    <2>5. CASE UNCHANGED hubVars
      BY <2>5 DEF hubVars
    <2> QED
      BY <2>1, <2>2, <2>3, <2>4, <2>5 DEF HubNext
  <1> QED
    BY <1>1, <1>2, HubTypeCorrect, PTL DEF HubSpec

(* What a subscriber is handed never takes a key back.                     *)
THEOREM HubNeverBackwards == HubSpec => NeverBackwards
  <1>1. HubInv /\ [HubNext]_hubVars =>
          [\A c \in Conns : c \in subs /\ c \in subs' =>
             \A k \in Keys : received[c][k] <= received'[c][k]]_hubVars
    <2> SUFFICES ASSUME HubInv, HubNext,
                        NEW c \in Conns, c \in subs, c \in subs', NEW k \in Keys
                 PROVE  received[c][k] <= received'[c][k]
      OBVIOUS
    <2>0. /\ received[c] \in [Keys -> Nat] /\ received[c][k] \in Nat
          /\ received \in [Conns -> [Keys -> Versions]]
      BY HubTypes DEF HubInv, TypeOK
    <2>1. ASSUME NEW d \in Conns, Receive(d) PROVE received[c][k] <= received'[c][k]
      <3>1. CASE c # d
        <4>1. received'[c] = received[c]
          BY <2>0, <2>1, <3>1 DEF Receive
        <4> QED
          BY <2>0, <4>1
      <3>2. CASE c = d
        <4>1. /\ queue[c] \in Seq(Patches) /\ queue[c] # <<>>
              /\ received'[c] = [received[c] EXCEPT ![Head(queue[c]).key] = Head(queue[c]).ver]
          BY <2>0, <2>1, <3>2 DEF Receive, Merge, HubInv, TypeOK
        <4>2. 1 \in 1 .. Len(queue[c]) /\ Head(queue[c]) = queue[c][1]
              /\ Head(queue[c]) \in Patches
          BY <4>1
        <4>3. received[c][Head(queue[c]).key] < Head(queue[c]).ver
          BY <4>2 DEF HubInv, FeedCoherent, QueueOrdered
        <4>4. Head(queue[c]).key \in Keys /\ Head(queue[c]).ver \in Nat
          BY <4>2, VersionAssumption DEF Patches, Versions
        <4>5. received[c] \in [Keys -> Nat]
          BY <2>0
        <4> QED
          BY <4>1, <4>3, <4>4, <4>5
      <3> QED
        BY <3>1, <3>2
    <2>2. ASSUME NEW d \in Conns, Subscribe(d) PROVE received[c][k] <= received'[c][k]
      <3>1. received'[c] = received[c]
        BY <2>0, <2>2 DEF Subscribe
      <3> QED
        BY <2>0, <3>1
    <2>3. ASSUME received' = received PROVE received[c][k] <= received'[c][k]
      BY <2>0, <2>3
    <2>4. ASSUME NEW d \in Conns, Cancel(d) PROVE received[c][k] <= received'[c][k]
      <3>1. c # d
        BY <2>4 DEF Cancel
      <3>2. received'[c] = received[c]
        BY <2>0, <2>4, <3>1 DEF Cancel
      <3> QED
        BY <2>0, <3>2
    <2> QED
      BY <2>1, <2>2, <2>3, <2>4 DEF HubNext, Publish
  <1> QED
    BY HubInitInv, HubInvStep, <1>1, PTL DEF HubSpec, NeverBackwards

-----------------------------------------------------------------------------
Events == {Full(s) : s \in [Keys -> Versions]} \cup {Patch(m) : m \in Patches}

Mentions(m, k) == m.kind = "full" \/ (m.kind = "patch" /\ m.key = k)

(* Event m is about no version that snapshot s has yet to reach.           *)
Fresh(m, s) ==
  /\ m.kind = "full" => \A k \in Keys : m.view[k] <= s[k]
  /\ m.kind = "patch" => m.ver <= s[m.key]

(* What the handler of c was last handed of key k is what the page shows   *)
(* of it once it has read its wire.                                        *)
Arrives(c, k) ==
  \/ /\ data[k] = received[c][k]
     /\ \A i \in 1 .. Len(wire[c]) : ~Mentions(wire[c][i], k)
  \/ \E i \in 1 .. Len(wire[c]) :
       /\ Says(wire[c][i], k, received[c][k])
       /\ \A j \in 1 .. Len(wire[c]) : i < j => ~Mentions(wire[c][j], k)

NetTypeOK ==
  /\ pc \in [Conns -> {"idle", "initial", "loop"}]
  /\ initial \in [Conns -> [Keys -> Versions]]
  /\ alive \in [Conns -> BOOLEAN]
  /\ wire \in [Conns -> Seq(Events)]
  /\ cur \in Conns \cup {NoConn}
  /\ data \in [Keys -> Nat]
  /\ connected \in BOOLEAN

(* A handler that runs is subscribed; a connection that is up has one; a   *)
(* page without a connection is not live.                                  *)
Attached ==
  /\ \A c \in Conns : pc[c] # "idle" => c \in subs
  /\ \A c \in Conns : alive[c] => pc[c] # "idle"
  /\ cur = NoConn => ~connected

(* The page's connection, while it is up: before the first frame the page  *)
(* is not live, and until it is, that frame is the next it reads.          *)
Follows(c) ==
  /\ pc[c] = "initial" =>
       initial[c] = received[c] /\ wire[c] = <<>> /\ ~connected
  /\ pc[c] = "loop" =>
       /\ ~connected => wire[c] # <<>> /\ Head(wire[c]).kind = "full"
       /\ \A k \in Keys : Arrives(c, k)
  /\ \A i \in 1 .. Len(wire[c]) : Fresh(wire[c][i], snap)
  /\ connected => \A k \in Keys : data[k] <= snap[k]

NetInv ==
  /\ NetTypeOK /\ Attached
  /\ \A c \in Conns : cur = c /\ alive[c] => Follows(c)

(* The hub's part of every step of the dashboard but a restart.            *)
LEMMA StepsOfTheHub ==
  Next => HubNext \/ UNCHANGED hubVars \/ Restart
  <1> SUFFICES ASSUME Next, ~Restart PROVE HubNext \/ UNCHANGED hubVars
    OBVIOUS
  <1>1. ASSUME NEW k \in Keys, Stat(k) \/ PublishReading(k)
        PROVE  UNCHANGED hubVars \/ Publish(k)
    BY <1>1 DEF Stat, PublishReading
  <1>2. ASSUME NEW c \in Conns, Connect(c) \/ HandlerStep(c)
        PROVE  UNCHANGED hubVars \/ Subscribe(c) \/ Receive(c) \/ Cancel(c)
    <2>1. Connect(c) => Subscribe(c)
      BY DEF Connect
    <2>2. WriteInitial(c) => UNCHANGED hubVars
      BY DEF WriteInitial
    <2>3. Forward(c) => Receive(c)
      BY DEF Forward
    <2>4. HandlerReturns(c) => Cancel(c)
      BY DEF HandlerReturns, HandlerEnds
    <2> QED
      BY <1>2, <2>1, <2>2, <2>3, <2>4 DEF HandlerStep
  <1>3. ASSUME NEW c \in Conns, PageStep(c) \/ Break(c)
        PROVE  UNCHANGED hubVars
    BY <1>3 DEF PageStep, OnMessage, OnError, Break
  <1> QED
    BY <1>1, <1>2, <1>3, Zenon DEF Next, HubNext

(* The hub's invariant is kept by the dashboard's steps; after a restart   *)
(* there is no subscriber for it to speak of.                              *)
LEMMA HubInvInDashboard == HubInv /\ [Next]_vars => HubInv'
  <1> SUFFICES ASSUME HubInv, [Next]_vars PROVE HubInv'
    OBVIOUS
  <1>1. CASE Restart
    <2>1. TypeOK'
      BY <1>1, BufferAssumption, VersionAssumption DEF Restart, TypeOK, Versions, ZeroSnapshot
    <2> QED
      BY <1>1, <2>1 DEF Restart, HubInv, FeedCoherent
  <1>2. CASE ~Restart
    BY <1>2, StepsOfTheHub, HubInvStep DEF vars
  <1> QED
    BY <1>1, <1>2

(* The page is served with the demo data and has no connection.            *)
LEMMA NetInit == Init => NetInv
  <1> SUFFICES ASSUME Init PROVE NetInv
    OBVIOUS
  <1>1. NetTypeOK
    <2>1. alive \in [Conns -> BOOLEAN] /\ connected \in BOOLEAN
      BY Zenon DEF Init
    <2>2. wire \in [Conns -> Seq(Events)]
      BY DEF Init
    <2>3. initial \in [Conns -> [Keys -> Versions]] /\ data \in [Keys -> Nat]
      BY VersionAssumption DEF Init, ZeroSnapshot, Versions, Seed
    <2>4. pc \in [Conns -> {"idle", "initial", "loop"}] /\ cur \in Conns \cup {NoConn}
      BY DEF Init
    <2> QED
      BY <2>1, <2>2, <2>3, <2>4 DEF NetTypeOK
  <1>2. Attached
    BY DEF Init, Attached
  <1>3. \A c \in Conns : cur # c
    BY WireAssumption DEF Init
  <1> QED
    BY <1>1, <1>2, <1>3 DEF NetInv

(* An event on a wire, read off as a record.                               *)
LEMMA EventFacts ==
  /\ \A v \in [Keys -> Versions] :
       Full(v) \in Events /\ Full(v).kind = "full" /\ Full(v).view = v
  /\ \A m \in Patches :
       /\ Patch(m) \in Events /\ Patch(m).kind = "patch"
       /\ Patch(m).key = m.key /\ Patch(m).ver = m.ver
  /\ \A e \in Events :
       \/ e.kind = "full" /\ e.view \in [Keys -> Versions]
       \/ e.kind = "patch" /\ e.key \in Keys /\ e.ver \in Versions
  <1>1. \A m \in Patches : m.key \in Keys /\ m.ver \in Versions
    BY DEF Patches
  <1>2. \A v \in [Keys -> Versions] :
          Full(v) \in Events /\ Full(v).kind = "full" /\ Full(v).view = v
    BY DEF Events, Full
  <1>3. \A m \in Patches :
          /\ Patch(m) \in Events /\ Patch(m).kind = "patch"
          /\ Patch(m).key = m.key /\ Patch(m).ver = m.ver
    BY DEF Events, Patch
  <1>4. ASSUME NEW e \in Events
        PROVE  \/ e.kind = "full" /\ e.view \in [Keys -> Versions]
               \/ e.kind = "patch" /\ e.key \in Keys /\ e.ver \in Versions
    <2>1. CASE \E v \in [Keys -> Versions] : e = Full(v)
      BY <1>2, <2>1
    <2>2. CASE \E m \in Patches : e = Patch(m)
      BY <1>1, <1>3, <2>2
    <2> QED
      BY <2>1, <2>2 DEF Events
  <1> QED
    BY <1>2, <1>3, <1>4

(* What Apply makes of the page's data.                                    *)
LEMMA ApplyFacts ==
  ASSUME NEW view \in [Keys -> Nat], NEW e \in Events
  PROVE  /\ Apply(view, e) \in [Keys -> Nat]
         /\ \A k \in Keys :
              /\ ~Mentions(e, k) => Apply(view, e)[k] = view[k]
              /\ \A v : Says(e, k, v) => Apply(view, e)[k] = v
              /\ Mentions(e, k) => Says(e, k, Apply(view, e)[k])
  <1>1. Versions \subseteq Nat
    BY VersionAssumption DEF Versions
  <1>2. CASE e.kind = "full"
    <2>1. e.view \in [Keys -> Versions] /\ Apply(view, e) = e.view
      BY <1>2, EventFacts DEF Apply
    <2> QED
      BY <1>1, <1>2, <2>1 DEF Mentions, Says
  <1>3. CASE e.kind = "patch"
    <2>1. /\ e.key \in Keys /\ e.ver \in Versions
          /\ Apply(view, e) = [view EXCEPT ![e.key] = e.ver]
      BY <1>3, EventFacts DEF Apply, Merge
    <2> QED
      BY <1>1, <1>3, <2>1 DEF Mentions, Says
  <1> QED
    BY <1>2, <1>3, EventFacts

(* Every step keeps the types of the handlers, the wires and the page.     *)
LEMMA NetTypeStep == HubInv /\ NetTypeOK /\ [Next]_vars => NetTypeOK'
  <1> SUFFICES ASSUME HubInv, NetTypeOK, [Next]_vars PROVE NetTypeOK'
    OBVIOUS
  <1>0. /\ snap \in [Keys -> Versions] /\ ZeroSnapshot \in [Keys -> Versions]
        /\ \A c \in Conns : queue[c] \in Seq(Patches)
    BY VersionAssumption DEF HubInv, TypeOK, ZeroSnapshot, Versions
  <1>1. ASSUME NEW k \in Keys, Stat(k) \/ PublishReading(k) PROVE NetTypeOK'
    BY <1>1 DEF Stat, PublishReading, NetTypeOK
  <1>2. ASSUME NEW c \in Conns, Connect(c) PROVE NetTypeOK'
    <2>1. alive' \in [Conns -> BOOLEAN]
      BY <1>2, Zenon DEF Connect, NetTypeOK
    <2>2. initial' \in [Conns -> [Keys -> Versions]] /\ wire' \in [Conns -> Seq(Events)]
      BY <1>0, <1>2 DEF Connect, NetTypeOK
    <2> QED
      BY <1>2, <2>1, <2>2 DEF Connect, NetTypeOK
  <1>3. ASSUME NEW c \in Conns, WriteInitial(c) PROVE NetTypeOK'
    <2>1. Full(initial[c]) \in Events
      BY EventFacts DEF NetTypeOK
    <2>2. wire' \in [Conns -> Seq(Events)]
      BY <1>3, <2>1, AppendFacts DEF WriteInitial, NetTypeOK
    <2> QED
      BY <1>0, <1>3, <2>2 DEF WriteInitial, NetTypeOK
  <1>4. ASSUME NEW c \in Conns, Forward(c) PROVE NetTypeOK'
    <2>1. Patch(Head(queue[c])) \in Events
      <3>1. queue[c] # <<>>
        BY <1>4 DEF Forward, Receive
      <3> QED
        BY <1>0, <3>1, TailFacts, EventFacts
    <2>2. wire' \in [Conns -> Seq(Events)]
      BY <1>4, <2>1, AppendFacts DEF Forward, NetTypeOK
    <2> QED
      BY <1>4, <2>2 DEF Forward, NetTypeOK
  <1>5. ASSUME NEW c \in Conns, HandlerReturns(c) PROVE NetTypeOK'
    BY <1>0, <1>5 DEF HandlerReturns, HandlerEnds, NetTypeOK
  <1>6. ASSUME NEW c \in Conns, OnMessage(c) PROVE NetTypeOK'
    <2>1. wire[c] \in Seq(Events) /\ wire[c] # <<>>
      BY <1>6 DEF OnMessage, NetTypeOK
    <2>2. Head(wire[c]) \in Events /\ Tail(wire[c]) \in Seq(Events)
      BY <2>1, TailFacts
    <2>3. data' \in [Keys -> Nat]
      BY <1>6, <2>2, ApplyFacts DEF OnMessage, NetTypeOK
    <2> QED
      BY <1>6, <2>2, <2>3 DEF OnMessage, NetTypeOK
  <1>7. ASSUME NEW c \in Conns, OnError(c) PROVE NetTypeOK'
    <2>1. wire' \in [Conns -> Seq(Events)]
      BY <1>7 DEF OnError, NetTypeOK
    <2>2. UNCHANGED <<pc, initial, alive, data>> /\ cur' = NoConn /\ connected' = FALSE
      BY <1>7 DEF OnError
    <2>3. connected' \in BOOLEAN
      BY <2>2, Zenon
    <2> QED
      BY <2>1, <2>2, <2>3 DEF NetTypeOK
  <1>8. ASSUME NEW c \in Conns, Break(c) PROVE NetTypeOK'
    <2>1. alive' \in [Conns -> BOOLEAN]
      BY <1>8, Zenon DEF Break, NetTypeOK
    <2> QED
      BY <1>8, <2>1 DEF Break, NetTypeOK
  <1>9. CASE Restart
    <2>1. alive' \in [Conns -> BOOLEAN]
      BY <1>9, Zenon DEF Restart
    <2> QED
      BY <1>0, <1>9, <2>1 DEF Restart, NetTypeOK
  <1>10. CASE UNCHANGED vars
    BY <1>10 DEF vars, netVars, NetTypeOK
  <1> QED
    BY <1>1, <1>2, <1>3, <1>4, <1>5, <1>6, <1>7, <1>8, <1>9, <1>10
    DEF Next, HandlerStep, PageStep

(* Handlers stay subscribed for as long as they run.                       *)
LEMMA AttachedStep == HubInv /\ NetTypeOK /\ Attached /\ [Next]_vars => Attached'
  <1> SUFFICES ASSUME HubInv, NetTypeOK, Attached, [Next]_vars PROVE Attached'
    OBVIOUS
  <1> USE DEF Attached, NetTypeOK
  <1>1. ASSUME NEW k \in Keys, Stat(k) \/ PublishReading(k) PROVE Attached'
    BY <1>1 DEF Stat, PublishReading, Publish, hubVars
  <1>2. ASSUME NEW c \in Conns, Connect(c) PROVE Attached'
    BY <1>2, WireAssumption DEF Connect, Subscribe
  <1>3. ASSUME NEW c \in Conns, WriteInitial(c) PROVE Attached'
    BY <1>3 DEF WriteInitial, hubVars
  <1>4. ASSUME NEW c \in Conns, Forward(c) PROVE Attached'
    BY <1>4 DEF Forward, Receive
  <1>5. ASSUME NEW c \in Conns, HandlerReturns(c) PROVE Attached'
    BY <1>5 DEF HandlerReturns, HandlerEnds, Cancel
  <1>6. ASSUME NEW c \in Conns, OnMessage(c) \/ OnError(c) PROVE Attached'
    BY <1>6, WireAssumption DEF OnMessage, OnError, hubVars
  <1>7. ASSUME NEW c \in Conns, Break(c) PROVE Attached'
    BY <1>7 DEF Break, hubVars
  <1>8. CASE Restart
    BY <1>8 DEF Restart
  <1>9. CASE UNCHANGED vars
    BY <1>9 DEF vars, netVars, hubVars
  <1> QED
    BY <1>1, <1>2, <1>3, <1>4, <1>5, <1>6, <1>7, <1>8, <1>9
    DEF Next, HandlerStep, PageStep

(* A connection that a step leaves alone, while the snapshot only grows.   *)
LEMMA FollowsUntouched ==
  ASSUME NetTypeOK, NEW c \in Conns, Follows(c),
         pc'[c] = pc[c], initial'[c] = initial[c], wire'[c] = wire[c],
         received'[c] = received[c], data' = data, connected' = connected,
         snap \in [Keys -> Nat], snap' \in [Keys -> Nat],
         \A k \in Keys : snap[k] <= snap'[k]
  PROVE  Follows(c)'
  <1>1. \A k \in Keys : Arrives(c, k) => Arrives(c, k)'
    BY DEF Arrives
  <1>2. \A i \in 1 .. Len(wire[c]) : Fresh(wire[c][i], snap')
    <2> SUFFICES ASSUME NEW i \in 1 .. Len(wire[c]) PROVE Fresh(wire[c][i], snap')
      OBVIOUS
    <2> DEFINE e == wire[c][i]
    <2>1. e \in Events
      BY DEF NetTypeOK
    <2>2. Fresh(e, snap)
      BY DEF Follows
    <2>3. Versions \subseteq Nat
      BY VersionAssumption DEF Versions
    <2>4. CASE e.kind = "full" /\ e.view \in [Keys -> Versions]
      <3>1. ASSUME NEW k \in Keys PROVE e.view[k] <= snap'[k]
        <4>1. e.view[k] <= snap[k]
          BY <2>2, <2>4, Zenon DEF Fresh
        <4>2. e.view[k] \in Nat
          BY <2>3, <2>4
        <4> QED
          BY <4>1, <4>2
      <3>2. wire'[c][i] = e /\ e.kind # "patch"
        BY <2>4
      <3> QED
        BY <3>1, <3>2, Zenon DEF Fresh
    <2>5. CASE e.kind = "patch" /\ e.key \in Keys /\ e.ver \in Versions
      <3>1. e.ver <= snap[e.key] /\ snap[e.key] <= snap'[e.key]
        BY <2>2, <2>5 DEF Fresh
      <3>2. e.ver \in Nat /\ snap[e.key] \in Nat /\ snap'[e.key] \in Nat
        BY <2>3, <2>5
      <3>3. e.ver <= snap'[e.key]
        BY <3>1, <3>2
      <3> QED
        BY <2>5, <3>3 DEF Fresh
    <2> QED
      BY <2>1, <2>4, <2>5, EventFacts
  <1>3. connected => \A k \in Keys : data[k] <= snap'[k]
    BY DEF Follows, NetTypeOK
  <1> QED
    BY <1>1, <1>2, <1>3 DEF Follows

(* An event appended to a wire, and what it says handed to the handler.    *)
LEMMA ArrivesAppended ==
  ASSUME NEW c \in Conns, NEW k \in Keys, wire[c] \in Seq(Events), NEW e \in Events,
         wire'[c] = Append(wire[c], e), data' = data,
         \/ Says(e, k, received'[c][k])
         \/ ~Mentions(e, k) /\ Arrives(c, k) /\ received'[c][k] = received[c][k]
  PROVE  Arrives(c, k)'
  <1> DEFINE w == wire[c]
             x == wire'[c]
  <1>1. /\ Len(w) \in Nat /\ Len(x) = Len(w) + 1
        /\ \A i \in 1 .. Len(w) : x[i] = w[i]
        /\ x[Len(w) + 1] = e
    BY AppendFacts
  <1>2. \A i \in 1 .. Len(x) : i \in 1 .. Len(w) \/ i = Len(w) + 1
    BY <1>1
  <1> HIDE DEF w, x
  <1>3. CASE Says(e, k, received'[c][k])
    <2>1. Len(w) + 1 \in 1 .. Len(x) /\ \A j \in 1 .. Len(x) : ~(Len(w) + 1 < j)
      BY <1>1
    <2> QED
      BY <1>1, <1>3, <2>1 DEF Arrives, x
  <1>4. CASE ~Mentions(e, k) /\ Arrives(c, k) /\ received'[c][k] = received[c][k]
    <2>1. CASE data[k] = received[c][k] /\ \A i \in 1 .. Len(w) : ~Mentions(w[i], k)
      BY <1>1, <1>2, <1>4, <2>1 DEF Arrives, x
    <2>2. CASE \E i \in 1 .. Len(w) :
                 /\ Says(w[i], k, received[c][k])
                 /\ \A j \in 1 .. Len(w) : i < j => ~Mentions(w[j], k)
      <3>1. PICK i \in 1 .. Len(w) :
              /\ Says(w[i], k, received[c][k])
              /\ \A j \in 1 .. Len(w) : i < j => ~Mentions(w[j], k)
        BY <2>2
      <3>2. /\ i \in 1 .. Len(x) /\ Says(x[i], k, received'[c][k])
            /\ \A j \in 1 .. Len(x) : i < j => ~Mentions(x[j], k)
        BY <1>1, <1>2, <1>4, <3>1
      <3> QED
        BY <3>2 DEF Arrives, x
    <2> QED
      BY <1>4, <2>1, <2>2 DEF Arrives, w
  <1> QED
    BY <1>3, <1>4

(* The page reads the next event of its wire.                              *)
LEMMA ArrivesRead ==
  ASSUME NetTypeOK, NEW c \in Conns, NEW k \in Keys, Arrives(c, k), wire[c] # <<>>,
         wire'[c] = Tail(wire[c]), data' = Apply(data, Head(wire[c])),
         received'[c] = received[c]
  PROVE  Arrives(c, k)'
  <1> DEFINE w == wire[c]
             x == wire'[c]
  <1>1. /\ Len(w) \in Nat \ {0} /\ Len(x) = Len(w) - 1
        /\ \A i \in 1 .. Len(x) : x[i] = w[i + 1] /\ i + 1 \in 1 .. Len(w)
        /\ Head(w) = w[1] /\ Head(w) \in Events /\ 1 \in 1 .. Len(w)
    <2>1. w \in Seq(Events)
      BY DEF NetTypeOK
    <2> QED
      BY <2>1, TailFacts
  <1>2. /\ ~Mentions(w[1], k) => data'[k] = data[k]
        /\ \A v : Says(w[1], k, v) => data'[k] = v
    <2>1. data \in [Keys -> Nat] /\ Head(w) \in Events
      BY <1>1 DEF NetTypeOK
    <2>2. /\ ~Mentions(Head(w), k) => Apply(data, Head(w))[k] = data[k]
          /\ \A v : Says(Head(w), k, v) => Apply(data, Head(w))[k] = v
      BY <2>1, ApplyFacts
    <2> QED
      BY <1>1, <2>2
  <1> HIDE DEF w, x
  <1>3. CASE data[k] = received[c][k] /\ \A i \in 1 .. Len(w) : ~Mentions(w[i], k)
    BY <1>1, <1>2, <1>3 DEF Arrives, x
  <1>4. CASE \E i \in 1 .. Len(w) :
               /\ Says(w[i], k, received[c][k])
               /\ \A j \in 1 .. Len(w) : i < j => ~Mentions(w[j], k)
    <2>1. PICK i \in 1 .. Len(w) :
            /\ Says(w[i], k, received[c][k])
            /\ \A j \in 1 .. Len(w) : i < j => ~Mentions(w[j], k)
      BY <1>4
    <2>2. CASE i = 1
      <3>1. data'[k] = received'[c][k]
        BY <1>2, <2>1, <2>2
      <3>2. \A j \in 1 .. Len(x) : ~Mentions(x[j], k)
        BY <1>1, <2>1, <2>2
      <3> QED
        BY <3>1, <3>2 DEF Arrives, x
    <2>3. CASE i # 1
      <3>1. i - 1 \in 1 .. Len(x) /\ x[i - 1] = w[i]
        BY <1>1, <2>3
      <3>2. \A j \in 1 .. Len(x) : i - 1 < j => ~Mentions(x[j], k)
        BY <1>1, <2>1
      <3>3. Says(x[i - 1], k, received'[c][k])
        BY <2>1, <3>1
      <3> QED
        BY <3>1, <3>2, <3>3 DEF Arrives, x
    <2> QED
      BY <2>2, <2>3
  <1> QED
    BY <1>3, <1>4 DEF Arrives, w

(* The handler hands the page the next patch of its channel.               *)
LEMMA FollowsForward ==
  ASSUME HubInv, NetTypeOK, Attached, NEW c \in Conns, Follows(c), Forward(c)
  PROVE  Follows(c)'
  <1> DEFINE h == Head(queue[c])
             e == Patch(h)
             w == wire[c]
             x == wire'[c]
  <1>1. /\ pc[c] = "loop" /\ pc'[c] = "loop" /\ c \in subs
        /\ data' = data /\ connected' = connected /\ snap' = snap
        /\ queue[c] # <<>>
    BY DEF Forward, Receive, Attached
  <1>2. queue[c] \in Seq(Patches) /\ received[c] \in [Keys -> Nat]
    BY HubTypes
  <1>3. /\ h \in Patches /\ h = queue[c][1] /\ 1 \in 1 .. Len(queue[c])
        /\ h.key \in Keys
    <2>1. Len(queue[c]) \in Nat \ {0} /\ h \in Patches /\ h = queue[c][1]
      BY <1>1, <1>2, TailFacts
    <2> QED
      BY <2>1, HubTypes
  <1>4. h.ver <= snap[h.key]
    BY <1>1, <1>3 DEF HubInv, FeedCoherent, QueueOrdered
  <1>5. /\ e \in Events /\ e.kind = "patch" /\ e.key = h.key /\ e.ver = h.ver
        /\ w \in Seq(Events) /\ x = Append(w, e)
    BY <1>3, EventFacts DEF Forward, NetTypeOK
  <1>6. /\ Len(w) \in Nat /\ Len(x) = Len(w) + 1
        /\ \A i \in 1 .. Len(w) : x[i] = w[i]
        /\ x[Len(w) + 1] = e
    BY <1>5, AppendFacts
  <1>7. received'[c] = [received[c] EXCEPT ![h.key] = h.ver]
    BY DEF Forward, Receive, Merge, HubInv, TypeOK
  <1> HIDE DEF h, e
  <1>8. ASSUME NEW k \in Keys PROVE Arrives(c, k)'
    <2>1. CASE k = h.key
      <3>1. Says(e, k, received'[c][k])
        BY <1>2, <1>3, <1>5, <1>7, <2>1 DEF Says
      <3> QED
        BY <1>1, <1>5, <3>1, ArrivesAppended
    <2>2. CASE k # h.key
      <3>1. ~Mentions(e, k) /\ received'[c][k] = received[c][k] /\ Arrives(c, k)
        BY <1>1, <1>2, <1>3, <1>5, <1>7, <2>2 DEF Mentions, Follows
      <3> QED
        BY <1>1, <1>5, <3>1, ArrivesAppended
    <2> QED
      BY <2>1, <2>2
  <1>9. ASSUME NEW i \in 1 .. Len(x) PROVE Fresh(x[i], snap')
    <2>1. CASE i \in 1 .. Len(w)
      <3>1. Fresh(w[i], snap)
        BY <2>1 DEF Follows
      <3> QED
        BY <1>1, <1>6, <2>1, <3>1, Zenon DEF Fresh
    <2>2. CASE i = Len(w) + 1
      BY <1>1, <1>4, <1>5, <1>6, <2>2 DEF Fresh
    <2> QED
      BY <1>6, <2>1, <2>2
  <1>10. ~connected => x # <<>> /\ Head(x).kind = "full"
    <2> SUFFICES ASSUME ~connected PROVE x # <<>> /\ Head(x).kind = "full"
      OBVIOUS
    <2>1. w # <<>> /\ Head(w).kind = "full"
      BY <1>1 DEF Follows
    <2>2. x \in Seq(Events) /\ x # <<>> /\ 1 \in 1 .. Len(w)
      BY <1>5, <1>6, <2>1
    <2>3. Head(x) = Head(w)
      BY <1>5, <1>6, <2>1, <2>2
    <2> QED
      BY <2>1, <2>2, <2>3
  <1>11. connected' => \A k \in Keys : data'[k] <= snap'[k]
    BY <1>1 DEF Follows
  <1> QED
    BY <1>1, <1>8, <1>9, <1>10, <1>11 DEF Follows

(* The page reads an event: the first one is a full snapshot and leaves    *)
(* nothing of what the page showed before.                                 *)
LEMMA FollowsMessage ==
  ASSUME HubInv, NetTypeOK, Attached, NEW c \in Conns, alive[c], Follows(c), OnMessage(c)
  PROVE  Follows(c)'
  <1> DEFINE w == wire[c]
             x == wire'[c]
             h == Head(w)
  <1>1. /\ w # <<>> /\ w \in Seq(Events) /\ x = Tail(w)
        /\ data' = Apply(data, h) /\ connected' = TRUE /\ pc' = pc
        /\ UNCHANGED <<snap, received, initial>>
        /\ data \in [Keys -> Nat] /\ snap \in [Keys -> Nat]
    <2>1. w \in Seq(Events) /\ x = Tail(w) /\ data \in [Keys -> Nat]
      BY DEF OnMessage, NetTypeOK
    <2> QED
      BY <2>1, HubTypes DEF OnMessage, hubVars
  <1>2. pc[c] = "loop"
    BY <1>1 DEF Follows, Attached, NetTypeOK
  <1>3. /\ Len(x) \in Nat /\ h = w[1] /\ h \in Events /\ 1 \in 1 .. Len(w)
        /\ \A i \in 1 .. Len(x) : x[i] = w[i + 1] /\ i + 1 \in 1 .. Len(w)
    <2>1. /\ Len(w) \in Nat \ {0} /\ x \in Seq(Events) /\ Len(x) = Len(w) - 1
          /\ \A i \in 1 .. Len(x) : x[i] = w[i + 1]
          /\ h = w[1] /\ h \in Events
      BY <1>1, TailFacts
    <2> QED
      BY <2>1
  <1>4. \A k \in Keys : Arrives(c, k)'
    BY <1>1, <1>2, ArrivesRead DEF Follows
  <1>5. \A i \in 1 .. Len(x) : Fresh(x[i], snap')
    <2> SUFFICES ASSUME NEW i \in 1 .. Len(x) PROVE Fresh(x[i], snap')
      OBVIOUS
    <2>1. Fresh(w[i + 1], snap) /\ x[i] = w[i + 1]
      BY <1>3 DEF Follows
    <2> QED
      BY <1>1, <2>1, Zenon DEF Fresh
  <1>6. \A k \in Keys : data'[k] <= snap'[k]
    <2> SUFFICES ASSUME NEW k \in Keys PROVE Apply(data, h)[k] <= snap[k]
      BY <1>1
    <2>1. CASE Mentions(h, k)
      <3>1. Says(h, k, Apply(data, h)[k])
        BY <1>1, <1>3, <2>1, ApplyFacts
      <3>2. Fresh(h, snap)
        BY <1>3 DEF Follows
      <3> QED
        BY <3>1, <3>2, Zenon DEF Says, Fresh
    <2>2. CASE ~Mentions(h, k)
      <3>1. connected
        BY <1>2, <2>2 DEF Follows, Mentions
      <3>2. Apply(data, h)[k] = data[k]
        BY <1>1, <1>3, <2>2, ApplyFacts
      <3> QED
        BY <3>1, <3>2 DEF Follows
    <2> QED
      BY <2>1, <2>2
  <1> QED
    BY <1>1, <1>2, <1>4, <1>5, <1>6 DEF Follows

(* Every step keeps the page of a connection that is up where it should be.*)
LEMMA NetStep == HubInv /\ NetInv /\ [Next]_vars => NetInv'
  <1> SUFFICES ASSUME HubInv, NetInv, [Next]_vars PROVE NetInv'
    OBVIOUS
  <1>0. NetTypeOK /\ Attached /\ NetTypeOK' /\ Attached' /\ HubInv'
    BY NetTypeStep, AttachedStep, HubInvInDashboard DEF NetInv
  <1> SUFFICES ASSUME NEW c \in Conns, cur' = c, alive'[c] PROVE Follows(c)'
    BY <1>0 DEF NetInv
  <1>1. /\ snap \in [Keys -> Nat] /\ received \in [Conns -> [Keys -> Versions]]
        /\ snap' \in [Keys -> Nat]
    <2>1. snap' \in [Keys -> Versions] /\ Versions \subseteq Nat
      BY <1>0, VersionAssumption DEF HubInv, TypeOK, Versions
    <2> QED
      BY <2>1, HubTypes DEF HubInv, TypeOK
  <1>2. cur = c /\ alive[c] => Follows(c)
    BY DEF NetInv
  <1>3. ASSUME cur = c, alive[c], UNCHANGED <<data, connected>>,
               pc'[c] = pc[c], initial'[c] = initial[c], wire'[c] = wire[c],
               received'[c] = received[c], \A k \in Keys : snap[k] <= snap'[k]
        PROVE  Follows(c)'
    BY <1>0, <1>1, <1>2, <1>3, FollowsUntouched
  <1>4. ASSUME UNCHANGED hubVars
        PROVE  received'[c] = received[c] /\ \A k \in Keys : snap[k] <= snap'[k]
    BY <1>1, <1>4 DEF hubVars
  <1>5. ASSUME NEW k \in Keys, Stat(k) PROVE Follows(c)'
    BY <1>3, <1>4, <1>5 DEF Stat
  <1>6. ASSUME NEW k \in Keys, PublishReading(k) PROVE Follows(c)'
    <2>1. \A l \in Keys : snap[l] <= snap'[l]
      BY <1>1, <1>6 DEF PublishReading, Publish
    <2> QED
      BY <1>3, <1>6, <2>1 DEF PublishReading, Publish
  <1>7. ASSUME NEW d \in Conns, Connect(d) PROVE Follows(c)'
    <2>1. /\ d = c /\ ~connected' /\ pc'[c] = "initial" /\ wire'[c] = <<>>
          /\ initial'[c] = snap /\ received'[c] = snap
      BY <1>0, <1>1, <1>7 DEF Connect, Subscribe, Attached, NetTypeOK
    <2> QED
      BY <2>1 DEF Follows
  <1>8. ASSUME NEW d \in Conns, WriteInitial(d) PROVE Follows(c)'
    <2>1. cur = c /\ alive[c] /\ UNCHANGED <<data, connected>>
      BY <1>8 DEF WriteInitial
    <2>2. CASE d # c
      BY <1>0, <1>3, <1>4, <1>8, <2>1, <2>2 DEF WriteInitial, NetTypeOK
    <2>3. CASE d = c
      <3> DEFINE e == Full(received[c])
      <3>1. /\ pc[c] = "initial" /\ wire[c] = <<>> /\ ~connected
            /\ initial[c] = received[c] /\ c \in subs
        BY <1>0, <1>2, <1>8, <2>1, <2>3 DEF WriteInitial, Follows, Attached
      <3>2. /\ pc'[c] = "loop" /\ wire'[c] = Append(wire[c], e)
            /\ received' = received /\ snap' = snap
        BY <1>0, <1>8, <2>3, <3>1 DEF WriteInitial, NetTypeOK, hubVars
      <3>3. /\ e \in Events /\ e.kind = "full" /\ e.view = received[c]
            /\ wire[c] \in Seq(Events)
        BY <1>0, <1>1, EventFacts DEF NetTypeOK
      <3>4. Len(wire'[c]) = 1 /\ wire'[c][1] = e /\ wire'[c] # <<>> /\ Head(wire'[c]) = e
        BY <3>1, <3>2, <3>3
      <3>5. \A k \in Keys : received[c][k] <= snap[k]
        BY <3>1 DEF HubInv, NeverAhead
      <3> HIDE DEF e
      <3>6. \A k \in Keys : Arrives(c, k)'
        <4>1. \A k \in Keys : Says(e, k, received'[c][k])
          BY <3>2, <3>3 DEF Says
        <4> QED
          BY <2>1, <3>2, <3>3, <4>1, ArrivesAppended
      <3>7. Fresh(e, snap')
        BY <3>2, <3>3, <3>5 DEF Fresh
      <3> QED
        BY <2>1, <3>1, <3>2, <3>3, <3>4, <3>6, <3>7 DEF Follows
    <2> QED
      BY <2>2, <2>3
  <1>9. ASSUME NEW d \in Conns, Forward(d) PROVE Follows(c)'
    <2>1. cur = c /\ alive[c]
      BY <1>9 DEF Forward
    <2>2. CASE d = c
      BY <1>0, <1>2, <1>9, <2>1, <2>2, FollowsForward
    <2>3. CASE d # c
      BY <1>0, <1>1, <1>3, <1>9, <2>1, <2>3 DEF Forward, Receive, NetTypeOK
    <2> QED
      BY <2>2, <2>3
  <1>10. ASSUME NEW d \in Conns, HandlerReturns(d) PROVE Follows(c)'
    <2>1. cur = c /\ alive[c] /\ d # c
      BY <1>10 DEF HandlerReturns, HandlerEnds
    <2> QED
      BY <1>0, <1>1, <1>3, <1>10, <2>1 DEF HandlerReturns, HandlerEnds, Cancel, NetTypeOK
  <1>11. ASSUME NEW d \in Conns, OnMessage(d) PROVE Follows(c)'
    <2>1. cur = c /\ alive[c] /\ d = c
      BY <1>11 DEF OnMessage
    <2> QED
      BY <1>0, <1>2, <1>11, <2>1, FollowsMessage
  <1>12. ASSUME NEW d \in Conns, OnError(d) PROVE Follows(c)'
    BY <1>12, WireAssumption DEF OnError
  <1>13. ASSUME NEW d \in Conns, Break(d) PROVE Follows(c)'
    <2>1. cur = c /\ alive[c]
      BY <1>0, <1>13 DEF Break, NetTypeOK
    <2> QED
      BY <1>3, <1>4, <1>13, <2>1 DEF Break
  <1>14. CASE Restart
    BY <1>14 DEF Restart
  <1>15. CASE UNCHANGED vars
    BY <1>3, <1>4, <1>15 DEF vars, netVars
  <1> QED
    BY <1>5, <1>6, <1>7, <1>8, <1>9, <1>10, <1>11, <1>12, <1>13, <1>14, <1>15
    DEF Next, HandlerStep, PageStep

(* The hub is part of the dashboard: its invariant and the page's hold     *)
(* together.                                                               *)
LEMMA DashboardInvariant == Spec => [](HubInv /\ NetInv)
  <1>1. Init => HubInv /\ NetInv
    BY HubInitInv, NetInit DEF Init
  <1>2. HubInv /\ NetInv /\ [Next]_vars => (HubInv /\ NetInv)'
    BY HubInvInDashboard, NetStep
  <1> QED
    BY <1>1, <1>2, PTL DEF Spec

(* While the footer says LIVE over a connection that is up, the page shows *)
(* readings of the running daemon only, for any keys, connections, buffer  *)
(* and wire sizes, through breaks, reconnects and restarts.                *)
THEOREM DashboardOnlyLiveReadings == Spec => []OnlyLiveReadings
  <1>1. NetInv => OnlyLiveReadings
    BY DEF NetInv, Follows, OnlyLiveReadings
  <1> QED
    BY DashboardInvariant, <1>1, PTL

(* What the hub did not drop for a page is on the page, on the wire or in  *)
(* the channel: nothing is lost between the collector's lock and the page. *)
THEOREM DashboardNothingLost == Spec => []NothingLostEndToEnd
  <1>1. HubInv /\ NetInv => NothingLostEndToEnd
    <2> SUFFICES ASSUME HubInv, NetInv,
                        NEW c \in Conns, cur = c, alive[c], pc[c] = "loop",
                        NEW k \in Keys \ lost[c]
                 PROVE  \/ data[k] = snap[k]
                        \/ \E i \in 1 .. Len(wire[c]) : Says(wire[c][i], k, snap[k])
                        \/ \E i \in 1 .. Len(queue[c]) :
                             queue[c][i] = [key |-> k, ver |-> snap[k]]
      BY DEF NothingLostEndToEnd
    <2>1. Arrives(c, k) /\ c \in subs
      BY DEF NetInv, Follows, Attached
    <2>2. NothingMissed(c)
      BY <2>1 DEF HubInv, FeedCoherent
    <2>3. CASE received[c][k] = snap[k]
      BY <2>1, <2>3 DEF Arrives
    <2>4. CASE received[c][k] # snap[k]
      BY <2>2, <2>4 DEF NothingMissed
    <2> QED
      BY <2>3, <2>4
  <1> QED
    BY DashboardInvariant, <1>1, PTL
=============================================================================
