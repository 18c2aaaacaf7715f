SPECIFICATION FairSpec
CONSTANTS
  Servers = {s1, s2}
  Callers = {c1, c2, c3}
  Remote = {c3}
  NumFields = 2
  Values <- TwoValues
  Default <- AllOnes
  Unset = Unset
  UserFiles <- SomeFiles
  Nobody = Nobody
 
INVARIANT LookUpIsLive
INVARIANT PortNotLeaked
PROPERTY ShutDownEndsServer
CHECK_DEADLOCK FALSE
