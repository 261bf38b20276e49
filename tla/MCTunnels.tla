----------------------------- MODULE MCTunnels -----------------------------
\* An autossh tunnel, and a WireGuard and a Tailscale one of the same name.
EXTENDS Tunnels

CONSTANTS none, failed, never, a1, a2, b4, b6, c4, c6

MCSources == {"ssh", "wg", "ts"}
MCType == [ssh |-> "AUTOSSH", wg |-> "WIREGUARD", ts |-> "TAILSCALE"]
MCName == [ssh |-> "office", wg |-> "home", ts |-> "home"]
MCIPv4 == {a1, a2, b4, c4}
MCAddrs == MCIPv4 \cup {b6, c6, none}

Peer(age, endpoint, rx) == [age |-> age, endpoint |-> endpoint, rx |-> rx]
Node(online, ips, rx) == [online |-> online, ips |-> ips, rx |-> rx]
Unit(state, entered, uptime) == [state |-> state, entered |-> entered, uptime |-> uptime]

\* ages on both sides of three minutes, two with a small last part, and the two
\* the parser has no words for, beside a peer that is recent and alone
MCReports ==
  [ssh |-> {Unit("activating", 3, 9), Unit("active", 3, 9), Unit("active", 0, 9)},
   wg |-> {failed}
          \cup {<<Peer(a, a1, 1)>> : a \in {never, 0, 65, 179, 180, 3605, Year + 5}}
          \cup {<<Peer(never, none, 0), Peer(86402, a2, 2)>>,
                <<Peer(0, a1, 1), Peer(2, none, 1), Peer(7200, a2, 2)>>},
   ts |-> {failed}
          \cup {[running |-> TRUE, peers |-> {Node(o, <<b6, b4>>, 1), Node(p, <<c4, c6>>, 2)}] :
                  o \in BOOLEAN, p \in BOOLEAN}
          \cup {[running |-> FALSE, peers |-> {Node(TRUE, <<b6, b4>>, 1)}],
                [running |-> TRUE, peers |-> {Node(TRUE, <<b6, b6>>, 1), Node(TRUE, <<c6, c4>>, 2)}]}]

MCSeed == <<[type |-> "WIREGUARD", name |-> "home", up |-> FALSE, rx |-> 0, conn |-> 0,
             ping |-> FALSE, lastSeen |-> "2m ago"]>>
=============================================================================
