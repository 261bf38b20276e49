---------------------------- MODULE MCMediaApps ----------------------------
\* One app with a library of its own that the probe looks at, and one pinned to
\* the tunnel.
EXTENDS MediaApps

CONSTANTS radarr, nzbget
MCApps == {radarr, nzbget}
MCTurn == [a \in MCApps |-> IF a = nzbget THEN 1 ELSE 2]
MCProbed == {radarr}
MCPinned == {nzbget}
MCShips == {radarr}
=============================================================================
