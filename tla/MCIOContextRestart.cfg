CONSTANTS
  Users = {u1, u2}
  Threads = {t1, t2}
SPECIFICATION FairSpec
PROPERTY EveryHandlerRuns
CHECK_DEADLOCK FALSE
