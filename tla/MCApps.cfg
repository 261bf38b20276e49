SPECIFICATION FairSpec
CONSTANTS
  Procs = {p1, p2, p3}
  Self = self
  Namespaces = {root, vpn}
  Root = root
  Gone = gone
  Foreign = {p3}
  AppPorts = {sonarr}
INVARIANTS TypeOK
PROPERTIES UpWasListening SteadyIsUp SettlesOnTheTruth
CHECK_DEADLOCK FALSE
