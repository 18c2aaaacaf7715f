SPECIFICATION Spec
CONSTANTS
  r1 = r1
  r2 = r2
  t1 = t1
  t2 = t2
  Robots <- TwoRobots
  Tasks <- TwoTasks
  Lifetime = 3
  MaxRobots = 3
  MaxMessages = 4
  MaxSends = 3
INVARIANT OldestFirst
INVARIANT NewsInOrder
PROPERTY ImplementsMailboxes
CHECK_DEADLOCK FALSE
