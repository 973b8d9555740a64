SPECIFICATION FairSpec
CONSTANTS
  MaxConns = 3
  ArmaCap = 2
  MaxListens = 1
  MaxData = 1
  WaitForAnnouncement = TRUE
\* Everything may be destroyed, or wait for clients that never come.
CHECK_DEADLOCK FALSE
INVARIANTS
  TypeOK
  ListMatchesRegistry
  UsersMatch
  OnlyHandlersMeetDeleted
  ReadersLive
  ChainsKept
PROPERTIES
  ImplementsLifecycle
  Announced
