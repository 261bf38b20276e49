SPECIFICATION FairSpec
CONSTANTS
  Pages = {page}
  Streams = {s1, s2}
INVARIANT NoStalePidfile
PROPERTY SignalEnds
CHECK_DEADLOCK FALSE
