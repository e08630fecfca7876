\* Two units on a pool of two, one retry, a progress callback that may raise at
\* every event.
SPECIFICATION FairSpec
CONSTANTS
  Ids = {u1, u2}
  MaxUnits = 2
  Concurrency = 2
  MaxRetries = 1
  MaxCallCost = 1
  Budgets = {0, 1, 2}
  NoBudget = NoBudget
  NoOutcome = NoOutcome
  CallbackRaises = TRUE
INVARIANT
  NoOrphanWorkers
PROPERTIES
  ImplementsFanout
  RunEnds
