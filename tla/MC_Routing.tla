----------------------------- MODULE MC_Routing -----------------------------
\* TLC instances of Routing.
EXTENDS Routing

Res(ret, sharpe, strategy, ok, drawdown) ==
  [ret |-> ret, sharpe |-> sharpe, excess |-> ret, strategy |-> strategy, bench |-> ok, win |-> ok,
   drawdown |-> drawdown]
Good == Res(400, 150, 90, 100, 300)
Bad  == Res(-150, -50, 20, 0, 800)
MCResults == {Good, Bad}

\* Three cycles of a model in a regime in an earlier run
Runs(m, r, result) ==
  [i \in 1 .. 3 |-> [id |-> i, stage |-> "active", result |-> result, model |-> m, regime |-> r]]
MCArchives ==
  {Runs("value_quality", "bull", Bad)  \o Runs("defensive_low_vol", "oscillation", Good),
   Runs("value_quality", "bull", Good) \o Runs("defensive_low_vol", "bear", Bad),
   Runs("mean_reversion", "bull", Good) \o Runs("defensive_low_vol", "bear", Bad)}

Market(change, above, index) ==
  [change |-> change, above |-> above, volatility |-> 10, breadth |-> above, index |-> index]
MCObservations == {Market(400, 70, 0), Market(0, 50, 0), Market(-400, 30, 0)}
=============================================================================
