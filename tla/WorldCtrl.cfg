SPECIFICATION FairSpec
CONSTANTS
  r1 = r1
  r2 = r2
  g1 = g1
  g2 = g2
  n1 = n1
  n2 = n2
  p1 = p1
  Idle = Idle
  NoName = NoName
  Away = Away
  Start = Start
  Robots <- TwoRobots
  Interruptible <- OneRobot
  Grass <- TwoGrass
  Names <- TwoNames
  Poses <- OnePose
  LinkMayFail = FALSE
  MaxGrass = 2
  MaxStraw = 1
INVARIANT NameInOnePlace
INVARIANT MowedCount
INVARIANT NamelessOnlyWhenDry
PROPERTY ImplementsSimWorld
PROPERTY QueuedGrassIsMoved
PROPERTY QueuedBaleIsShown
CHECK_DEADLOCK FALSE
