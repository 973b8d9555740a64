SPECIFICATION Spec
CONSTANTS
  MaxConns = 2
  ArmaCap = 2
  MaxListens = 1
  MaxData = 1
  WaitForAnnouncement = TRUE
INVARIANT HandlerFindsConnection
CHECK_DEADLOCK FALSE
