CONSTANTS
  st1 = st1
  st2 = st2
  st3 = st3
  Stocks <- MCStocks
  Plans <- MCPlans
  MaxPositions = 2
  Days = 4
  Quotes <- MCQuotes
  Markets <- MCMarkets
  Atrs = {0, 80}
  Capital = 50000
  Lot = 2
  Slippage = 1
  Commission = 1
  StampTax = 1
  StopLoss = 5
  TakeProfit = 15
  MaxWeight = 20
  Industry <- MCIndustry
  MaxIndustry = 30
  DropToReduce = 4
  DropToClose = 7
  CrashDrop = 7
  CrashSell = 15
  LossDays = 1
  LossDrop = 1
  LossReduce = 3
SPECIFICATION TraderSpec
INVARIANTS
  TPlusOne
CHECK_DEADLOCK FALSE
