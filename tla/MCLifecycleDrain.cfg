SPECIFICATION LifeSpec
CONSTANTS
  Pages = {page}
  Streams = {s1}
INVARIANT DrainBeforeExit
CHECK_DEADLOCK FALSE
