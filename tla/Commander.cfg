CONSTANTS
  Process = {p1}
  Self = p1
  User = {u1}
  MaxRounds = 2
  MaxTotal = 2
  MaxRestarts = 1
  MaxRaises = 1
  None = None
  Window = 2
  Required = 1
  MinFreeze = 3
  MinPromote = 2
  MinSamples = 2
  Schemes <- MCSchemes
  Dates = {1, 2, 3}
  Targets <- MCTargets
  RegimeCap = 0
  Arms <- MCArms
  MinDraws = 3
  MaxDraws = 4
  MaxCycles = 4
  Span = 1
  WindowOfEffect = 1
  PendingCycles = 2
  PendingCandidates = 1
SPECIFICATION MCSpec
INVARIANTS QuietIsShown PlanIsTheRun RegimesAsPlanned  ReportsAgree
CHECK_DEADLOCK FALSE
