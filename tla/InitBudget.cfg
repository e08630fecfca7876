\* One headless init over one table, every estimate exact and nothing failing: what is
\* billed against what --budget allowed.
SPECIFICATION Spec
CONSTANTS
  c1 = c1
  c2 = c2
  Columns <- MCColumns
  TableNote = TableNote
  Words = {"cost"}
  NameWords <- MCNameWords
  Topical = {}
  NumericText = {c2}
  Commented = {c1}
  Threshold = 2
  MaxData = 1
  NoFile = NoFile
  NTables = 1
  FirstColumns <- MCFirstColumns
  LaterColumns <- MCLaterColumns
  Clocks = {"none"}
  Selections <- MCSelections
  Budgets = {3}
  NoBudget = NoBudget
  Estimate = 1
  MaxCost = 1
  Concurrency = 2
  AutoCoach = TRUE
  MaxSurvivors = 1
  MaxCommands = 1
  MaxEvents = 0
CHECK_DEADLOCK FALSE
INVARIANT
  AutoStaysInBudget
