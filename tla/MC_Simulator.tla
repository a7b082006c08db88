--------------------------- MODULE MC_Simulator ---------------------------
\* TLC instances of Simulator: three stocks, two of them of one industry.
EXTENDS Simulator

CONSTANTS st1, st2, st3
MCStocks == {st1, st2, st3}
Item(s, weight, trail) == [code |-> s, weight |-> weight, trail |-> trail]
MCPlans == { <<Item(st1, 20, 0), Item(st2, 20, 10), Item(st3, 20, 0)>>,
             <<Item(st3, 60, 0), Item(st1, 60, 0), Item(st2, 20, 10)>> }
MCIndustry == (st1 :> 1) @@ (st2 :> 2) @@ (st3 :> 2)
MCQuotes == {700, 800, 900, 1000, 1100}

\* A quote after a move of the price; a stock that is halted keeps its row, with its change
Moved(q, move) ==
  LET New(p) == [price |-> p, chg |-> IF q.price = 0 THEN 0
                                      ELSE ((p - q.price) * 100) \div q.price]
      from == IF q.price = 0 THEN 1000 ELSE q.price
  IN  CASE move = "halted"  -> q
        [] move = "invalid" -> [price |-> 0, chg |-> 0]
        [] move = "flat"    -> New(from)
        [] move = "up"      -> New(MinOf({from + 100, 1100}))
        [] move = "down"    -> New(IF from > 800 THEN from - 100 ELSE 700)
        [] move = "crash"   -> New(IF from > 900 THEN from - 200 ELSE 700)

Moves == {"halted", "invalid", "flat", "up", "down", "crash"}

\* The whole market moves one way, or one stock goes its own way in a flat market
MCMarkets(q) ==
  {[s \in Stocks |-> Moved(q[s], m)] : m \in Moves} \cup
  {[s \in Stocks |-> Moved(q[s], IF s = t THEN m ELSE "flat")] :
     t \in Stocks, m \in Moves \ {"flat"}}
===========================================================================
