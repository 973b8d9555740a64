\* Three instances created and destroyed in any order.  Every instance may be
\* gone for good, so the system may stop.
CONSTANTS
  Users = {u1, u2, u3}
  Threads = {t1, t2, t3}
SPECIFICATION FairSpec
INVARIANTS
  TypeOK
  OneDispatcher
  DispatcherWhileUsed
PROPERTY HandlersRun
CHECK_DEADLOCK FALSE
