SPECIFICATION SessionFairSpec
CONSTANTS
  d1 = d1
  d2 = d2
  d3 = d3
  Nobody = Nobody
  Devices <- ThreeDevices
  Listed <- TwoDevices
  Threadable <- OneDevice
  Simulations <- OtherDevice
  MaxInbox = 1
  MaxUnderWay = 2
INVARIANT WaitedMeansGone
INVARIANT StreamInStep
PROPERTY AskedAloneIsGot
PROPERTY CloseReturnsIfFed
PROPERTY ReaderGoesAway
CHECK_DEADLOCK FALSE
