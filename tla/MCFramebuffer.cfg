SPECIFICATION Spec
CONSTANTS
  Devices <- MCDevices
  Colours <- MCColours
  Leftover = 85
  MaxSets = 2
INVARIANTS
  FramebufferTypeOK
  OpenReleases
  ShowsWhatWasSet
CHECK_DEADLOCK FALSE
