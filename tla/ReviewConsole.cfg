\* Two handlers at a time, three requests and commands, one of which may be killed.
SPECIFICATION Spec
CONSTANTS
  Handlers = {h1, h2}
  Ids = {i1, i2}
  Sqls = {s1, s2}
  Rows = {r1}
  Verdicts = {"correct", "manual_review"}
  NoVerdict = NoVerdict
  Missing = Missing
  Keep = Keep
  MaxRequests = 3
  MaxKills = 1
  MaxRuns = 2
  MaxHands = 1
SYMMETRY Symmetry
CONSTRAINT HalvesApart
INVARIANTS
  TypeOK
  AcceptedIsGolden
  TrailIsTrue
PROPERTY
  DevGrowsByWhatRan
CHECK_DEADLOCK FALSE
