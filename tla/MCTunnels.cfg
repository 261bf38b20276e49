SPECIFICATION Spec
CONSTANTS
  none = none
  failed = failed
  never = never
  a1 = a1
  a2 = a2
  b4 = b4
  b6 = b6
  c4 = c4
  c6 = c6
  NoAddr = none
  Never = never
  Failed = failed
  Unread = unread
  Sources <- MCSources
  Type <- MCType
  Name <- MCName
  Reports <- MCReports
  IPv4 <- MCIPv4
  Addrs <- MCAddrs
  Seed <- MCSeed
  MaxReadings = 3
INVARIANTS
  RowsTellReports
  PageShowsHubRows
  SnapshotsFrozen
