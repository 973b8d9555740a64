SPECIFICATION Spec
CONSTANTS
  Writers = {}
  Readers = {r1, r2, r3}
  NoThread = NoThread
  MaxMsgs = 0
  MaxChunks = 1
  ArmaCap = 1
  MaxAttempts = 3
\* The program stops once the instance is destroyed or a fault ended it.
CHECK_DEADLOCK FALSE
PROPERTY CanceledDoesNotRead
