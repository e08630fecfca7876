\* Whether two statements that ran are always compared.
SPECIFICATION ScoringSpec
CONSTANTS
  one = one
  oneFloat = oneFloat
  two = two
  nan = nan
  Cells <- MCCells
  Canon <- MCCanon
  Raises = Raises
  GoldResults <- MCGoldResults
  GenResults <- MCGenResults
  NoSql = NoSql
  Broken = Broken
  MaxAttempts = 3
  GoldPanel = 3
  FreePanel = 2
  MaxUsage = 1
CHECK_DEADLOCK FALSE
INVARIANT
  ComparisonNeverRaises
