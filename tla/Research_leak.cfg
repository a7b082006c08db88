SPECIFICATION ResearchSpec
CONSTANTS
  s1 = s1
  s2 = s2
  Watched <- MCWatched
  Prices <- MCPrices
  Buys <- MCBuys
  RegimeOf <- MCRegimeOf
  MaxDay = 3
  Horizons <- MCHorizons
  Main = 2
  IdOrder <- MCIdOrder
  MinSamples = 2
  MinEpisodes = 2
  CooldownCycles = 2
  MaxCases = 4
  MaxFails = 1
INVARIANTS NoFutureLeak
CHECK_DEADLOCK FALSE
