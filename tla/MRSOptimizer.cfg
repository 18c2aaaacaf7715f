SPECIFICATION Spec
CONSTANTS
  CompNums <- FourComponentsOrTooMany
  ConstraintSets <- AFewConstraints
  MissionSets <- TwoMissionSets
  IntWidth = 8
  Limits <- SmallLimits
  Steps <- SmallSteps
  Fitness <- TwoFitnesses
INVARIANT AgentsComplete
INVARIANT RecordsAscend
INVARIANT CurveIsExact
INVARIANT EndedIsComplete
INVARIANT OvershootBounded
CHECK_DEADLOCK FALSE
