------------------------------ MODULE MC_Tuning ------------------------------
\* TLC instance of Tuning, in tenths of a percent: two parameters, one of which the
\* budget of a falling market overlays, one scoring weight and one agent.
EXTENDS Tuning, TLC

Just(k, x) == k :> x

MCShipped  == [stop_loss_pct |-> 50, cash_reserve |-> 200, change_5d |-> 150, trend_hunter |-> 100]
MCDefaults == [stop_loss_pct |-> 50, cash_reserve |-> 300]
MCBounds   == [stop_loss_pct |-> <<20, 150>>, cash_reserve |-> <<0, 800>>]
MCSpace    == [stop_loss_pct |-> <<30, 100>>]
MCBudgets  == [bull |-> {<<>>}, bear |-> {Just("cash_reserve", 450)}]
MCPatches  ==
  [params  |-> {Just("stop_loss_pct", 40), Just("stop_loss_pct", 64), Just("stop_loss_pct", 76),
                Just("cash_reserve", 260) @@ Just("stop_loss_pct", 20), Just("cash_reserve", 400)},
   scoring |-> {Just("change_5d", 190), Just("change_5d", 230)},
   weights |-> {Just("trend_hunter", 75), Just("trend_hunter", 45)}]
=============================================================================
