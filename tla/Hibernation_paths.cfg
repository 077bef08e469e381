SPECIFICATION FairSpec
CONSTANTS
  User = {u1, u2}
  Worker = worker
  Suspender = suspender
  NoThread = NoThread
  MaxRequests = 3
  ActiveOnly = FALSE
  BlockOverPending = FALSE
  TimerRaces = FALSE
CHECK_DEADLOCK FALSE
INVARIANTS BlockCountExact DeconSound SuspendPowersDown NoCircularWait
PROPERTIES IdleDisplayHibernates RequestsEnd
