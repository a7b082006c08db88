CONSTANTS
  Models = {m1, m2}
  MaxAttempts = 4
  MaxLosses = 3
  MaxPending = 2
  MaxPendingCandidates = 1
  EffectWindow = 2
  FreezeTotal = 2
  ParamKeys = {"stop_loss_pct", "cash_reserve"}
  ScoreKeys = {"change_5d"}
  WeightKeys = {"trend_hunter"}
  ShippedValues <- MCShipped
  Defaults <- MCDefaults
  Protected = {"stop_loss_pct", "cash_reserve"}
  Tightening = {"stop_loss_pct"}
  Bounds <- MCBounds
  Space <- MCSpace
  Budgets <- MCBudgets
  Patches <- MCPatches
  StepLimit = 30
  DriftLimit = 50
  LossLimit = 2
  EvolveAfter = 1
  AutoApplies = {TRUE, FALSE}
  MaxGates = 2
  MaxProposals = 2
  Codes = {1, 2}
  LastDay = 3
  Reports <- MCReports
  StockCount = 1
  MinHistory = 2
  Lookback = 2
  Buffer = 1
  Future = 1
  OnlineAllowed = TRUE
  MockAllowed = TRUE
  Packets <- MCPackets
  Replies <- MCReplies
  Verdicts <- MCVerdicts
  Weighings <- MCWeighings
  Allowance <- MCAllowance
  Slates <- MCSlates
  Fills <- MCFills
  Outcomes <- MCOutcomes
  Sayings <- MCSayings
  Clamps <- MCClamps
  Cautious <- MCCautious
  Bold <- MCBold
  MinTraded = 2
  LastCycles = 1
  ReviewSize = 2
  MaxTries = 3
SPECIFICATION TrainingSpec
INVARIANTS
  ParamsOfActive
  StreakMatchesHistory
  PendingIsCarried
  PendingIsBounded
  EffectsOnTime
  DriftBounded
  LoadsAreSound
  PlanIsTheMeetings
  PlanIsFunded
  RecordIsTrue
  AdviceIsEarned
PROPERTIES
  ProfitOnlyTightens
  WindowCloses
CHECK_DEADLOCK FALSE
