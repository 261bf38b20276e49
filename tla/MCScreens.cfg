SPECIFICATION FairSpec
CONSTANTS
  Enabled = {"host", "system"}
  Good = {"ok"}
INVARIANTS TypeOK WholeFrames PanelAndWebAgree NoSpin
PROPERTIES HungLookupIsLocal
CHECK_DEADLOCK FALSE
