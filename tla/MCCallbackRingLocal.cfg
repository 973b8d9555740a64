SPECIFICATION Spec
CONSTANTS
  Senders = {s1, s2}
  RingSize = 3
  ArmaCap = 2
  MaxStrings = 6
  Io = Io
  MaxLocal = 3
\* The threads stop after their last string.
CHECK_DEADLOCK FALSE
INVARIANT LocalStringsLive
