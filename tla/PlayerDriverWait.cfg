SPECIFICATION DriverFairSpec
CONSTANTS
  Clients = {c1}
  Requester = r
  Threads <- MCThreads
  NoQueue = NoQueue
  NoThread = NoThread
  Replace = TRUE
  Maxlen = 1
  WaitTimed = FALSE
  Patience = {1}
  MaxMessages = 1
PROPERTY NoSleepOverMessages
CHECK_DEADLOCK FALSE
