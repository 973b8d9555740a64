SPECIFICATION Spec
CONSTANTS
  Writers = {w1, w2}
  Readers = {r1}
  NoThread = NoThread
  MaxEarly = 0
  MaxMsgs = 1
  MaxChunks = 0
  ArmaCap = 1
  MaxConnects = 1
SYMMETRY ThreadSymmetry
\* The program stops once the instance is destroyed or a fault ended it.
CHECK_DEADLOCK FALSE
INVARIANT DisconnectAnswers
