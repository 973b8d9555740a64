SPECIFICATION FairSpec
CONSTANTS
  Writers = {w1, w2}
  Readers = {r1}
  NoThread = NoThread
  MaxEarly = 0
  MaxMsgs = 0
  MaxChunks = 2
  ArmaCap = 1
  MaxConnects = 1
\* The program stops once the instance is destroyed or a fault ended it.
CHECK_DEADLOCK FALSE
PROPERTY DisconnectReturns
