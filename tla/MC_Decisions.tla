---------------------------- MODULE MC_Decisions ----------------------------
(***************************************************************************)
(* One TLC instance for parts that share no state two of the models keep:  *)
(* the simulated trader, the model router, the research case store, the    *)
(* configuration services, the agent loop, and the summaries of the market *)
(* data store beside a download.  `part` is the one that runs in a         *)
(* behaviour; the others stay in one of their initial states.              *)
(***************************************************************************)
EXTENDS MC_Simulator, MC_Routing, MC_Research, MC_ConfigStore, Brain, MarketData

CONSTANTS page, loader

\* The agent loop: a tool call that may be run, and one that is refused; the guardrails are all
\* that keeps it from changing something
C(tool, args, confirm) == [tool |-> tool, args |-> args, confirm |-> confirm]

MCCalls == {C("gated", "fit", TRUE), C("direct", "placeholder", FALSE)}

\* The market data: one thread that asks, and one that synchronises
MCTaken == {"daily", "dragon"}

VARIABLE part

decisions == <<part, traderVars, routingVars, researchVars, configVars, brainVars, marketVars>>

Parts == {"trader", "router", "research", "config", "brain", "summaries"}

DecisionsInit ==
  /\ part \in Parts
  /\ TraderInit
  /\ part = "trader" \/ plan = CHOOSE p \in Plans : TRUE
  /\ part = "trader" \/ ~riskOn
  /\ RoutingInit
  /\ part = "router" \/ /\ archive = CHOOSE past \in Archives : TRUE
                        /\ configured = "value_quality"
  /\ ResearchInit
  /\ part = "research" \/ price = CHOOSE p \in Prices : TRUE
  /\ ConfigInit
  /\ part = "config" \/ \A f \in Files : file[f] = Missing
  /\ BrainInit
  /\ MarketInit
  /\ part = "summaries" \/ embedded

Only(p) ==
  /\ part = p /\ part' = p
  /\ p # "trader"    => UNCHANGED traderVars
  /\ p # "router"    => UNCHANGED routingVars
  /\ p # "research"  => UNCHANGED researchVars
  /\ p # "config"    => UNCHANGED configVars
  /\ p # "brain"     => UNCHANGED brainVars
  /\ p # "summaries" => UNCHANGED marketVars

\* (bound) A loop asks the LLM again while the other request waits for nothing.
Rounds == \A r, q \in Request :
  r # q /\ req'[r].rounds > 0 /\ req'[r].at # "done" => req'[q].at \in {"idle", "done"}

\* (bound) A command has a server without a runtime beside it.
Commands == embedded => \A d \in Downloads : work'[d] = Free \/ work'[d].served

DecisionsNext ==
  \/ Only("trader")    /\ TraderNext
  \/ Only("router")    /\ RoutingNext
  \/ Only("research")  /\ ResearchNext
  \/ Only("config")    /\ ConfigNext
  \/ Only("brain")     /\ BrainNext /\ Rounds
  \/ Only("summaries") /\ MarketNext /\ Commands

DecisionsSpec == DecisionsInit /\ [][DecisionsNext]_decisions
=============================================================================
