\* Up to four commands (coach, coach --from-test-failure, coach apply, an accept in the
\* console), two at a time, one of which may be killed; one edit by hand.  An edit can be
\* written and then another one over it.  The constraint is explained in MCCoachDesk.
SPECIFICATION Spec
CONSTANTS
  Clerks = {c1, c2}
  Files = {f1, f2}
  Listed = {f1, f2}
  Unsafe = Unsafe
  Items = {t1}
  MaxCommands = 4
  MaxKills = 1
  MaxRuns = 1
  MaxProposals = 1
  MaxHands = 1
SYMMETRY Symmetry
CONSTRAINT Focus
INVARIANTS
  TypeOK
  AppliedOnce
  RecordsAreTrue
  PaidOncePerRun
CHECK_DEADLOCK FALSE
