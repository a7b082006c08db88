CONSTANTS
  st1 = st1
  st2 = st2
  st3 = st3
  Stocks <- MCStocks
  Plans <- MCPlans
  MaxPositions = 2
  Days = 4
  Quotes <- MCQuotes
  Markets <- MCMarkets
  Atrs = {0, 80}
  Capital = 50000
  Lot = 2
  Slippage = 1
  Commission = 1
  StampTax = 1
  StopLoss = 5
  TakeProfit = 15
  MaxWeight = 20
  Industry <- MCIndustry
  MaxIndustry = 30
  DropToReduce = 4
  DropToClose = 7
  CrashDrop = 7
  CrashSell = 15
  LossDays = 1
  LossDrop = 1
  LossReduce = 3
  Allowed = {"mean_reversion", "value_quality", "defensive_low_vol"}
  Modes = {"hybrid"}
  Observations <- MCObservations
  Stages = {"active"}
  OwnReadings = {}
  Results <- MCResults
  Archives <- MCArchives
  MaxCycles = 3
  MaxFaults = 1
  MinCycles = 3
  MinRegimeCycles = 2
  TopN = 3
  Cooldown = 1
  MinConfidence = 6000
  Margin = 800
  AgentGap = 1800
  MinStyle = 40
  s1 = s1
  s2 = s2
  Watched <- MCWatched
  Prices <- MCPrices
  Buys <- MCBuys
  RegimeOf <- MCRegimeOf
  MaxDay = 3
  Horizons <- MCHorizons
  Main = 2
  IdOrder <- MCIdOrder
  MinSamples = 2
  MinEpisodes = 2
  CooldownCycles = 2
  MaxCases = 3
  MaxFails = 1
  w1 = w1
  w2 = w2
  Workers = {w1}
  Training = {"a", "b"}
  Public = {"p"}
  Secret = {"k"}
  Values = {"v"}
  Overlap = FALSE
  MaxPatches = 2
  MaxRaises = 2
  Request = {r1, r2}
  Calls <- MCCalls
  MaxIterations = 2
  MaxCalls = 2
  Window = 3
  page = page
  loader = loader
  Readers = {page}
  Downloads = {loader}
  StatusAge = 1
  AuditAge = 1
  MaxAge = 6
  Taken <- MCTaken
SPECIFICATION DecisionsSpec
INVARIANTS AccountsBalance StopsBind ActsOnEvidence AcknowledgedIsStored FailedLeavesFiles CallsAreSound StoreIsShown
PROPERTIES SwitchesAreSound
CHECK_DEADLOCK FALSE
