\* Four units on a pool of two, in every mix of priming and wave units and repeated
\* ids, under every cap that matters; one call each, no retries.
SPECIFICATION Spec
CONSTANTS
  Ids = {u1, u2, u3, u4}
  MaxUnits = 4
  Concurrency = 2
  MaxRetries = 0
  MaxCallCost = 1
  Budgets = {0, 1, 2}
  NoBudget = NoBudget
  NoOutcome = NoOutcome
  CallbackRaises = FALSE
SYMMETRY IdSymmetry
INVARIANTS
  TypeOK
  OvershootWithinOneWave
  ResultReconciles
