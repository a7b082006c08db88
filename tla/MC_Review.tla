------------------------------ MODULE MC_Review ------------------------------
(* Two agents and two stocks; one slate names a stock twice.  The window of *)
(* the track record is shorter than the history.                            *)
EXTENDS Review, TLC

By(agent, code_) == [agent |-> agent, code |-> code_]

MCSlates == {<<By("hunter", "a"), By("hunter", "a"), By("quality", "b")>>, <<By("hunter", "b")>>}

MCFills == {"a" :> 5, ("a" :> -4) @@ ("b" :> 3)}

CameTo(ret, bench, regime, by, bias, heard) ==
  [ret |-> ret, bench |-> bench, regime |-> regime, by |-> by, model |-> "m", bias |-> bias,
   heard |-> heard]

MCOutcomes ==
  {CameTo(250, TRUE, "bear", "meeting", "", 4), CameTo(-250, TRUE, "bear", "meeting", "", NoFeedback),
   CameTo(0, FALSE, "oscillation", "algorithm", "tighten_risk", 3),
   CameTo(-40, FALSE, "unknown", "llm", "tighten_risk", 2)}

Told(says, params, weights) == [says |-> says, params |-> params, weights |-> weights]

MCSayings ==
  {Told("nothing", <<>>, <<>>), Told("garbled evo", <<>>, <<>>),
   Told("only evo", [stop_loss_pct |-> 50], <<>>),
   Told("decision", [stop_loss_pct |-> 50000, other |-> 7],
       [hunter |-> 500, quality |-> Odd, stranger |-> 90])}

MCClamps   == [stop_loss_pct |-> <<100, 1500>>, position_size |-> <<500, 3000>>]
MCCautious == [stop_loss_pct |-> 300, position_size |-> 1500]
MCBold     == [position_size |-> 2500]
=============================================================================
