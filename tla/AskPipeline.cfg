\* Three tables with every lexical ranking, up to one repair, every kind of statement.
SPECIFICATION Spec
CONSTANTS
  NumTables = 3
  Unknown = Unknown
  MaxScore = 1
  Caps = {0, 1, 2}
  DefaultCap = 2
  Repairs = {0, 1}
  NoStatement = NoStatement
  NoResult = NoResult
INVARIANTS
  TypeOK
  SpendIsTraced
  OnlyValidatedSqlRuns
  PromptIsSound
CHECK_DEADLOCK FALSE
