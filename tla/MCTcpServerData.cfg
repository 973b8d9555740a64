SPECIFICATION Spec
CONSTANTS
  MaxConns = 2
  ArmaCap = 2
  MaxListens = 1
  MaxData = 1
  WaitForAnnouncement = FALSE
INVARIANT ListedAreLive
CHECK_DEADLOCK FALSE
