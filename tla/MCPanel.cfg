SPECIFICATION FairSpec
CONSTANT N = 3
INVARIANTS TypeOK ParkedIsDark RunningLeds
PROPERTIES RoundRobin SwitchSafety SwitchPromise EveryScreenShown
CHECK_DEADLOCK FALSE
