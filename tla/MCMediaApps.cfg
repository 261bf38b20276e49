SPECIFICATION Spec
CONSTANTS
  radarr = radarr
  nzbget = nzbget
  NoApp = none
  Apps <- MCApps
  Turn <- MCTurn
  Probed <- MCProbed
  Pinned <- MCPinned
  Ships <- MCShips
  FailThreshold = 2
  MaxRestarts = 1
INVARIANTS
  CopiedAtRest
  RunsOnWorkingLibrary
PROPERTIES
  NoOneLeftDown
  HungIsRestarted
