SPECIFICATION SimFairSpec
CONSTANTS
  r1 = r1
  g1 = g1
  g2 = g2
  n1 = n1
  p1 = p1
  Idle = Idle
  NoName = NoName
  Away = Away
  Start = Start
  Null = Null
  Robots <- OneRobot
  Interruptible <- NoRobot
  Grass <- TwoGrass
  Names <- OneName
  Poses <- OnePose
  Ranges <- SomeRanges
  Blobs <- SomeBlobs
  Deltas <- SomeDeltas
  MaxLoad = 2
  LinkMayFail = TRUE
  MaxGrass = 1
  MaxStraw = 1
INVARIANT BaleBacked
INVARIANT ReactsToSenses
INVARIANT OneDrawPerRound
PROPERTY FullLoadIsBaled
CHECK_DEADLOCK FALSE
