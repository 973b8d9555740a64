SPECIFICATION FairSpec
CONSTANTS
  Writers = {w1, w2}
  Readers = {r1}
  NoThread = NoThread
  MaxEarly = 1
  MaxMsgs = 2
  MaxChunks = 2
  ArmaCap = 1
  MaxConnects = 3
\* The program stops once the instance is destroyed or a fault ended it.
CHECK_DEADLOCK FALSE
CONSTRAINT EarlyBound
INVARIANTS
  TypeOK
  StraysAreEarly
  ThreadsEndWithPort
  FlushedWhenStopped
  HeadNeverFreed
  TailLiveBetweenCommands
PROPERTIES
  ImplementsOutbox
  CommandReturns
  QueuedIsWritten
