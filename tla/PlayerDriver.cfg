SPECIFICATION DriverFairSpec
CONSTANTS
  Clients = {c1}
  Requester = r
  Threads <- MCThreads
  NoQueue = NoQueue
  NoThread = NoThread
  Replace = TRUE
  Maxlen = 1
  WaitTimed = TRUE
  Patience = {0, 1}
  MaxMessages = 2
INVARIANT OneMainAtATime
INVARIANT StoppedMeansDone
INVARIANT SubscriptionsCounted
INVARIANT NewestCommandKept
INVARIANT AnswerIsOwn
PROPERTY RequestsEnd
PROPERTY ThreadStateSettles
CHECK_DEADLOCK FALSE
