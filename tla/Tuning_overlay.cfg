CONSTANTS
  ParamKeys = {"stop_loss_pct", "cash_reserve"}
  ScoreKeys = {"change_5d"}
  WeightKeys = {"trend_hunter"}
  ShippedValues <- MCShipped
  Defaults <- MCDefaults
  Protected = {"stop_loss_pct", "cash_reserve"}
  Tightening = {"stop_loss_pct"}
  Bounds <- MCBounds
  Space <- MCSpace
  Budgets <- MCBudgets
  Patches <- MCPatches
  StepLimit = 30
  DriftLimit = 50
  LossLimit = 2
  EvolveAfter = 1
  AutoApplies = {FALSE}
  MaxGates = 2
  MaxProposals = 2
SPECIFICATION TuningSpec
INVARIANTS IdentityKept
CHECK_DEADLOCK FALSE
