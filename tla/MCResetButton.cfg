SPECIFICATION ButtonSwitchSpec
CONSTANTS
  Tick = 250
  MaxClock = 6500
  MaxLag = 500
  QueueCap = 2
INVARIANTS NoWrongBand OnlyTapsFlip
PROPERTIES NeverDeaf
CHECK_DEADLOCK FALSE
