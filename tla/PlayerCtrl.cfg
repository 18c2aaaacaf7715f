SPECIFICATION CtrlFairSpec
CONSTANTS
  MaxRounds = 3
INVARIANT FailedLoopNeverSleeps
PROPERTY StopEndsLoop
CHECK_DEADLOCK FALSE
