SPECIFICATION Spec
CONSTANT N = 3
INVARIANT ExitsDark
CHECK_DEADLOCK FALSE
