\* Reports of two proposals for safe, unsafe and absent targets, one or two trials scored
\* differently, failures at every call, a --min-gain that may keep edits that gain nothing,
\* and a budget that runs out in every phase.  The target of OtherTargets cannot be reached.
SPECIFICATION FairSpec
CONSTANTS
  Questions = {q1, q2}
  Files = {f1}
  Texts = {a}
  Absent = Absent
  Unsafe = Unsafe
  NoSnapshot = NoSnapshot
  Commands <- MCCommands
  MetTargets = {2}
  OtherTargets = {3}
  Gains = {0, 1}
  TrialCounts = {1, 2}
  Budgets = {4}
  NoBudget = NoBudget
  MaxRounds = 2
  MaxProposals = 2
  CoachEstimate = 1
  EvalEstimate = 1
  MaxCoachCost = 1
  MaxEvalCost = 1
INVARIANTS
  TypeOK
  WorkingTreeIsPicked
  FrontierClimbs
  LoopStaysInBudget
PROPERTY
  CommandEnds
CHECK_DEADLOCK FALSE
