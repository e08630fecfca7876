\* Two evals side by side, or one of two passes, with a release and its loading, and one edit,
\* migration, kill or failure at any point of them.
SPECIFICATION Spec
CONSTANTS
  c1 = c1
  c2 = c2
  Evals = {e1, e2}
  NQuestions = 1
  Columns = {c1, c2}
  Types = {"text", "varchar", "int"}
  Family <- MCFamily
  Missing = Missing
  Possible <- MCPossible
  FirstSchema <- MCFirstSchema
  FirstDeclared <- MCFirstDeclared
  AgentModels = {"agent"}
  Models = {"agent", "other"}
  Trials = {1, 2}
  None = None
  MaxCost = 1
  Limits <- MCLimits
  MaxEvents = 1
CHECK_DEADLOCK FALSE
INVARIANTS
  TypeOK
  RunsAreOnTheBooks
  ReleaseEarnedItsScore
  WarningsAreTrue
