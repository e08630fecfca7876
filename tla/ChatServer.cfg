\* Three handler threads, two launches; a question is up to two model calls and may
\* cost twice its estimate.
SPECIFICATION FairSpec
CONSTANTS
  Threads = {t1, t2, t3}
  Nobody = Nobody
  Estimate = 2
  MaxCallCost = 2
  MaxCalls = 2
  Budgets = {0, 3}
  NoBudget = NoBudget
  MaxRequests = 3
  MaxSessions = 2
INVARIANTS
  TypeOK
  OvershootIsOneQuestion
  MeterReconciles
PROPERTIES
  ImplementsSession
  RequestsEnd
CHECK_DEADLOCK FALSE
