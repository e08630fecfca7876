\* Two tables, three commands of every kind, and one kill, failed call, edit by hand or
\* change of the database at any moment; a budget of one call, or none.
SPECIFICATION Spec
CONSTANTS
  c1 = c1
  c2 = c2
  Columns <- MCColumns
  TableNote = TableNote
  Words = {"cost"}
  NameWords <- MCNameWords
  Topical = {}
  NumericText = {c2}
  Commented = {c1}
  Threshold = 2
  MaxData = 2
  NoFile = NoFile
  NTables = 2
  FirstColumns <- MCFirstColumns
  LaterColumns <- MCLaterColumns
  Clocks = {"none"}
  Selections <- MCSelections
  Budgets = {1}
  NoBudget = NoBudget
  Estimate = 1
  MaxCost = 1
  Concurrency = 2
  AutoCoach = TRUE
  MaxSurvivors = 1
  MaxCommands = 3
  MaxEvents = 1
CHECK_DEADLOCK FALSE
INVARIANTS
  TypeOK
  HandsAreRespected
  SkipsAreEarned
  LedgerReconciles
PROPERTY
  QueueKeepsItsQuestions
