\* Every pair of small results in both match modes; a cap of three assignments, which the
\* widest search passes.
SPECIFICATION FairScoring
CONSTANTS
  one = one
  oneFloat = oneFloat
  two = two
  nan = nan
  Cells <- MCCells
  Canon <- MCCanon
  Raises = Raises
  GoldResults <- MCGoldResults
  GenResults <- MCGenResults
  NoSql = NoSql
  Broken = Broken
  MaxAttempts = 3
  GoldPanel = 3
  FreePanel = 2
  MaxUsage = 1
CHECK_DEADLOCK FALSE
INVARIANTS
  ScoringTypeOK
  ScoreIsReproduction
PROPERTY
  ScoringEnds
