------------------------------ MODULE Simulator ------------------------------
(***************************************************************************)
(* SimulatedTrader (invest/foundation/engine/simulator.py) with the risk   *)
(* policy and the emergency detector of invest/foundation/risk/: a plan of *)
(* purchases is carried out over some trading days.  step(date) is taken   *)
(* apart into its stages: portfolio risk, exits, purchases, emergencies.   *)
(*                                                                         *)
(* Prices and rates in percent are integers; money is in hundredths of the *)
(* unit of prices, so that fees are exact.  A price of 0 says that there   *)
(* is no usable quote: the stock is not listed yet, or the close of its    *)
(* row is out of range.                                                    *)
(***************************************************************************)
EXTENDS Integers, FiniteSets, SequencesExt

CONSTANTS
  Stocks,
  Plans,          \* the plans: TradingPlan.positions, sequences of [code, weight, trail]
  MaxPositions,   \* TradingPlan.max_positions
  Days,           \* trading days
  Quotes,         \* closing prices other than 0
  Markets(_),     \* Markets(q): what the quotes q may be on the next trading day
  Atrs,           \* average true ranges; 0 when there is too little history
  Capital, Lot,   \* initial_capital; shares are bought in lots
  Slippage, Commission, StampTax,
  StopLoss, TakeProfit,
  MaxWeight, Industry, MaxIndustry,
  DropToReduce, DropToClose,      \* policy "portfolio"
  CrashDrop, CrashSell,           \* policy "emergency": a crash; one that is severe
  LossDays, LossDrop, LossReduce  \* a rapid loss; one that is severe

ASSUME TraderConstants ==
  /\ Plans \subseteq Seq([code : Stocks, weight : Nat, trail : Nat])
  /\ {MaxPositions, Days, Capital, Lot, LossDays} \subseteq Nat \ {0}
  /\ {Slippage, Commission, StampTax, StopLoss, TakeProfit} \subseteq 0 .. 99
  /\ Commission + StampTax <= 100
  /\ Quotes \subseteq Nat \ {0} /\ Atrs \subseteq Nat
  /\ DropToReduce <= DropToClose

VARIABLES
  plan,     \* trading_plan
  riskOn,   \* enable_risk_control
  stage,    \* what step(date) has done of the day
  day,      \* current_date
  quote,    \* per stock [price, chg]: get_price and pct_chg for the day
  book,     \* the trader's account, see Book
  values    \* EmergencyDetector.portfolio_values, the last LossDays + 1

setup == <<plan, riskOn>>
traderVars == <<setup, stage, day, quote, book, values>>

\* entry: entry_date; price: entry_price; high: highest_price; take: 0 for None;
\* held: hold_days of the stock
Position == [code : Stocks, entry : 1 .. Days, price : Nat, shares : Nat \ {0},
             stop : Nat, take : Nat, trail : Nat, high : Nat, held : Nat]

Why == {"risk", "exit", "emergency", "settlement"}

Quoted == [Stocks -> [price : Quotes \cup {0}, chg : Int]]

\* realised: the sum of the pnl of the sales; excess: commission charged on shares that
\* were not bought; bought: _plan_bought; sales: the sales of the day
Book == [cash : Int, positions : Seq(Position), realised : Int, excess : Nat,
         bought : SUBSET Stocks,
         sales : SUBSET [code : Stocks, entry : 1 .. Days, why : Why]]

Pct(x, r) == (x * r) \div 100
Price(s) == quote[s].price

MinOf(S) == CHOOSE x \in S : \A y \in S : x <= y

\* The sum of a sequence
Total(s) ==
  LET sum[n \in 0 .. Len(s)] == IF n = 0 THEN 0 ELSE sum[n - 1] + s[n]
  IN  sum[Len(s)]

Worth(p, price) == p.shares * price

---------------------------------------------------------------------------
(* Valuations *)

\* get_total_value: a position without a price counts for nothing
TotalValue(b) ==
  b.cash + 100 * Total([i \in DOMAIN b.positions |->
                          Worth(b.positions[i], Price(b.positions[i].code))])

\* The price a position is sold or recorded at when it must be: its entry price if none
PriceOf(p) == IF Price(p.code) = 0 THEN p.price ELSE Price(p.code)

InIndustry(b, ind) == SelectSeq(b.positions, LAMBDA p : Industry[p.code] = ind)

\* PortfolioRiskManager.check_portfolio_risk
RiskAction(b) ==
  LET value == TotalValue(b)
      Drop(r) == 100 * Capital - value >= r * Capital
      Exposure(ind) == LET held == InIndustry(b, ind)
                       IN  Total([i \in DOMAIN held |-> Worth(held[i], PriceOf(held[i]))])
  IN  CASE Drop(DropToClose) -> "close_all"
        [] ~Drop(DropToClose) /\
             (\/ Drop(DropToReduce)
              \/ \E p \in ToSet(b.positions) :
                   Exposure(Industry[p.code]) * 10000 > MaxIndustry * value) -> "reduce"
        [] OTHER -> "none"

\* check_can_open_position
MayOpen(b, s, weight) ==
  \/ ~riskOn
  \/ /\ weight <= MaxWeight
     /\ LET held == InIndustry(b, Industry[s])
            cost == Total([i \in DOMAIN held |-> Worth(held[i], held[i].price)])
        IN  weight * TotalValue(b) + cost * 10000 <= MaxIndustry * TotalValue(b)

---------------------------------------------------------------------------
(* Purchases and sales *)

\* buy: how many shares, in whole lots, and the commission.  When the commission makes the
\* purchase too dear fewer shares are bought, for the same commission.
SharesFor(b, weight, price) ==
  LET budget == MinOf({Pct(Capital, weight), Pct(Capital, 50), b.cash \div 100})
      Lots(x) == ((x \div price) \div Lot) * Lot
      n == Lots(budget)
      fee == n * price * Commission
  IN  IF 100 * n * price + fee <= b.cash THEN <<n, fee>>
      ELSE <<Lots((b.cash - fee) \div 100), fee>>

\* buy; b itself if the cash does not buy one lot
Bought(b, item) ==
  LET price == Pct(Price(item.code), 100 + Slippage)
      order == SharesFor(b, item.weight, price)
      n == order[1]
      new == [code |-> item.code, entry |-> day, price |-> price, shares |-> n,
              stop |-> Pct(price, 100 - StopLoss),
              take |-> IF item.trail > 0 THEN 0 ELSE Pct(price, 100 + TakeProfit),
              trail |-> item.trail, high |-> price, held |-> 0]
  IN  IF b.cash <= 0 \/ n <= 0 THEN b
      ELSE [b EXCEPT !.cash = @ - 100 * n * price - order[2],
                     !.excess = @ + order[2] - n * price * Commission,
                     !.positions = Append(@, new),
                     !.bought = @ \cup {item.code}]

\* What is left of a position of which n shares are sold
Rest(p, n) == [p EXCEPT !.shares = @ - n]

\* The positions when n shares of p are sold; one that is sold out is removed.
Left(positions, p, n) ==
  LET at == CHOOSE i \in DOMAIN positions : positions[i].code = p.code
  IN  IF n < p.shares THEN [positions EXCEPT ![at] = Rest(p, n)] ELSE RemoveAt(positions, at)

Cost(shares, price) == shares * price * (100 + Commission)

\* Mutant: the cost of the whole position is charged to a sale of a part of it
Sold_WholeCost(b, p, n, price, why) ==
  LET net == n * Pct(price, 100 - Slippage) * (100 - Commission - StampTax)
  IN  [b EXCEPT !.cash = @ + net,
                !.realised = @ + net - Cost(p.shares, p.price),
                !.positions = Left(@, p, n),
                !.sales = @ \cup {[code |-> p.code, entry |-> p.entry, why |-> why]}]

\* _sell_partial: n shares of position p are sold
Sold(b, p, n, price, why) ==
  LET net == n * Pct(price, 100 - Slippage) * (100 - Commission - StampTax)
  IN  [b EXCEPT !.cash = @ + net,
                !.realised = @ + net - Cost(n, p.price),
                !.positions = Left(@, p, n),
                !.sales = @ \cup {[code |-> p.code, entry |-> p.entry, why |-> why]}]

\* Of each position in turn so many shares are sold, of some none
SoldInTurn(b, shares, why) ==
  LET after[n \in 0 .. Len(b.positions)] ==
        IF n = 0 THEN b
        ELSE IF shares[n] = 0 THEN after[n - 1]
        ELSE LET p == b.positions[n] IN Sold(after[n - 1], p, shares[n], PriceOf(p), why)
  IN  after[Len(b.positions)]

\* The shares of the positions that are to leave
AllOf(positions, leaving) ==
  [i \in DOMAIN positions |-> IF i \in leaving THEN positions[i].shares ELSE 0]

\* force_close_all, and the settlement after the last day
ClosedAll(b, why) == SoldInTurn(b, AllOf(b.positions, DOMAIN b.positions), why)

\* reduce_positions: the older half of the positions is halved
Reduced(b, why) ==
  LET older == {i \in 1 .. Len(b.positions) \div 2 : Price(b.positions[i].code) # 0}
  IN  SoldInTurn(b, [i \in DOMAIN b.positions |->
                       IF i \in older THEN b.positions[i].shares \div 2 ELSE 0], why)

---------------------------------------------------------------------------
TraderInit ==
  /\ plan \in Plans
  /\ riskOn \in BOOLEAN
  /\ stage = "closed"
  /\ day = 0
  /\ quote = [s \in Stocks |-> [price |-> 0, chg |-> 0]]
  /\ book = [cash |-> 100 * Capital, positions |-> <<>>, realised |-> 0, excess |-> 0,
             bought |-> {}, sales |-> {}]
  /\ values = <<>>

\* A trading day begins
Open ==
  /\ stage = "closed" /\ day < Days
  /\ stage' = "open"
  /\ day' = day + 1
  /\ quote' \in Markets(quote) /\ quote' \in Quoted
  /\ book' = [book EXCEPT !.sales = {}]
  /\ UNCHANGED <<setup, values>>

\* check_portfolio_risk and what it asks for
CheckRisk ==
  /\ stage = "open"
  /\ stage' = "risk"
  /\ book' = IF ~riskOn \/ book.positions = <<>> THEN book
             ELSE CASE RiskAction(book) = "close_all" -> ClosedAll(book, "risk")
                    [] RiskAction(book) = "reduce"    -> Reduced(book, "risk")
                    [] RiskAction(book) = "none"      -> book
  /\ UNCHANGED <<setup, day, quote, values>>

\* Is position p to be sold at this price?  Trailing stop, stop loss, take profit, ATR
Exits(p, price, high, atr) ==
  \/ p.trail > 0 /\ (high - price) * 100 >= p.trail * high
  \/ price <= p.stop
  \/ p.take > 0 /\ price >= p.take
  \/ riskOn /\ atr > 0 /\ (price <= p.price - 2 * atr \/ price >= p.price + 3 * atr)

\* check_and_close_positions; then hold_days go up by one
CheckExits ==
  /\ stage = "risk"
  /\ stage' = "exits"
  /\ \E atr \in Atrs :
       LET Checked(p) == p.held >= 1 /\ Price(p.code) # 0
           High(p) == IF Checked(p) /\ Price(p.code) > p.high THEN Price(p.code) ELSE p.high
           leaving == {i \in DOMAIN book.positions :
                         LET p == book.positions[i]
                         IN  Checked(p) /\ Exits(p, Price(p.code), High(p), atr)}
           Kept(p) == [p EXCEPT !.high = High(p), !.held = p.held + 1]
           after == SoldInTurn(book, AllOf(book.positions, leaving), "exit")
       IN  book' = [after EXCEPT !.positions = [i \in DOMAIN @ |-> Kept(@[i])]]
  /\ UNCHANGED <<setup, day, quote, values>>

\* What becomes of one item of the plan.  (A stock in cooldown has been bought, so the plan
\* skips it anyway.)
Carried(b, item) ==
  IF \/ Len(b.positions) >= MaxPositions
     \/ item.code \in b.bought
     \/ item.code \in {p.code : p \in ToSet(b.positions)}
     \/ Price(item.code) = 0
     \/ ~MayOpen(b, item.code, item.weight)
  THEN b ELSE Bought(b, item)

\* _execute_plan_step
ExecutePlan ==
  /\ stage = "exits"
  /\ stage' = "bought"
  /\ LET after[n \in 0 .. Len(plan)] ==
           IF n = 0 THEN book ELSE Carried(after[n - 1], plan[n])
     IN  book' = after[Len(plan)]
  /\ UNCHANGED <<setup, day, quote, values>>

\* _check_single_crash: the worst of the stocks held that crashed, the first of equals
Crashed ==
  LET Chg(i) == quote[book.positions[i].code].chg
      crashes == {i \in DOMAIN book.positions : Chg(i) < -CrashDrop}
      worst == {i \in crashes : \A j \in crashes : Chg(i) <= Chg(j)}
  IN  IF worst = {} THEN {} ELSE {book.positions[MinOf(worst)].code}

\* _check_rapid_loss: the fall over LossDays days that had positions, in percent
RapidLoss(history, drop) ==
  /\ Len(history) = LossDays + 1
  /\ history[1] > 0
  /\ (history[1] - Last(history)) * 100 > drop * history[1]

\* Mutant: the stop is moved to the price, not below it
Tightened_ToPrice(b, codes) ==
  LET New(p) == IF p.code \in codes /\ Price(p.code) # 0 /\ Price(p.code) > p.stop
                THEN [p EXCEPT !.stop = Price(p.code)] ELSE p
  IN  [b EXCEPT !.positions = [i \in DOMAIN @ |-> New(@[i])]]

\* _handle_emergency, TIGHTEN_STOP
Tightened(b, codes) ==
  LET New(p) == LET stop == Pct(Price(p.code), 98)
                IN  IF p.code \in codes /\ stop > p.stop THEN [p EXCEPT !.stop = stop] ELSE p
  IN  [b EXCEPT !.positions = [i \in DOMAIN @ |-> New(@[i])]]

\* _handle_emergency, SELL_WORST
WorstSold(b, codes) ==
  SoldInTurn(b, AllOf(b.positions,
                      {i \in DOMAIN b.positions :
                         LET p == b.positions[i]
                         IN  p.code \in codes /\ p.held >= 1 /\ Price(p.code) # 0}), "emergency")

\* EmergencyDetector.check finds the events, then each is handled in turn
Emergencies ==
  /\ stage = "bought"
  /\ stage' = "closed"
  /\ IF ~riskOn \/ book.positions = <<>> THEN UNCHANGED <<book, values>>
     ELSE LET crash == Crashed
              severe == \E s \in crash : quote[s].chg <= -CrashSell
              history == LET all == Append(values, TotalValue(book))
                         IN  IF Len(all) > LossDays + 1 THEN Tail(all) ELSE all
              handled == IF severe THEN WorstSold(book, crash) ELSE Tightened(book, crash)
          IN  /\ values' = history
              /\ book' = CASE RapidLoss(history, LossReduce) -> Reduced(handled, "emergency")
                           [] /\ ~RapidLoss(history, LossReduce)
                              /\ RapidLoss(history, LossDrop) -> Tightened(handled, Stocks)
                           [] OTHER -> handled
  /\ UNCHANGED <<setup, day, quote>>

\* run_simulation: after the last day every position is sold
Settle ==
  /\ stage = "closed" /\ day = Days
  /\ stage' = "settled"
  /\ book' = ClosedAll(book, "settlement")
  /\ UNCHANGED <<setup, day, quote, values>>

TraderNext ==
  Open \/ CheckRisk \/ CheckExits \/ ExecutePlan \/ Emergencies \/ Settle

TraderSpec == TraderInit /\ [][TraderNext]_traderVars

---------------------------------------------------------------------------
(* Properties *)

\* Types, and the limits on positions: no stock twice, no more than the plan allows
TraderTypeOK ==
  /\ plan \in Plans
  /\ riskOn \in BOOLEAN
  /\ stage \in {"closed", "open", "risk", "exits", "bought", "settled"}
  /\ day \in 0 .. Days
  /\ quote \in Quoted
  /\ book \in Book
  /\ Len(book.positions) <= MaxPositions
  /\ Cardinality({p.code : p \in ToSet(book.positions)}) = Len(book.positions)
  /\ values \in Seq(Int) /\ Len(values) <= LossDays + 1

\* What the positions cost
Costs(positions) ==
  [i \in DOMAIN positions |-> Cost(positions[i].shares, positions[i].price)]

\* The account balances through partial sales, forced sales and purchases cut to the cash:
\* what is in cash and in positions, at cost, is the capital and the pnl of the sales
\* (less what a cut purchase paid in commission on shares it did not buy).  So the pnl
\* per stock that the result reports adds up to the return; and commission and lots never
\* overdraw the cash.
AccountsBalance ==
  /\ book.cash >= 0
  /\ book.cash + Total(Costs(book.positions)) = 100 * Capital + book.realised - book.excess

\* No stop is left standing: at the end of a day no position bought before yesterday has a
\* price at or below its stop, whichever of the risk stages set the stop or sold a part
StopsBind ==
  stage = "closed" =>
    \A p \in ToSet(book.positions) :
      p.held >= 2 /\ Price(p.code) # 0 => Price(p.code) > p.stop

\* The T+1 rule of A shares, which the class documents: what was bought on a day is not
\* sold on it (but for the settlement, which only ends the simulation)
TPlusOne == \A s \in book.sales : s.entry < day \/ s.why = "settlement"
=============================================================================
