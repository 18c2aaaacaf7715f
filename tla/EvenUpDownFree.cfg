SPECIFICATION Spec
CONSTANTS
  NumAgents = 3
  NumMissions = 2
  Energies <- TwoEnergies
  Perfs <- SmallPerfs
  Works <- SmallWorks
INVARIANT NoFreeTimeLeft
CHECK_DEADLOCK FALSE
