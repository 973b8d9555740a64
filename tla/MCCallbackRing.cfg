SPECIFICATION Spec
CONSTANTS
  Senders = {s1, s2}
  RingSize = 4
  ArmaCap = 3
  MaxStrings = 8
  Io = Io
  MaxLocal = 3
INVARIANTS
  TypeOK
  BufferedStringsLive
  InOrder
\* The threads stop after their last string.
CHECK_DEADLOCK FALSE
