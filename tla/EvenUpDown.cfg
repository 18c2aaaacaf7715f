SPECIFICATION FairSpec
CONSTANTS
  NumAgents = 3
  NumMissions = 2
  Energies <- TwoEnergies
  Perfs <- SmallPerfs
  Works <- SmallWorks
INVARIANT WorkCovered
PROPERTY NeverLonger
PROPERTY Terminates
CHECK_DEADLOCK FALSE
