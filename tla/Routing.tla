------------------------------- MODULE Routing -------------------------------
(***************************************************************************)
(* Which model runs the next training cycle.  Every recorded cycle is a    *)
(* file; the leaderboard (invest/leaderboard) is computed from the files,  *)
(* the allocator (invest/allocator) from the leaderboard, and the router   *)
(* (invest/router) decides with it, the market and perhaps an agent's      *)
(* advice whether the controller changes models (TrainingRoutingService).  *)
(*                                                                         *)
(* Rates, weights and money are integers: returns, drawdowns, Sharpe       *)
(* ratios and rates in hundredths, scores and weights in ten-thousandths.  *)
(* A model has one configuration, the one shipped with it.                 *)
(***************************************************************************)
EXTENDS Integers, FiniteSets, Sequences, FiniteSetsExt, SequencesExt

CONSTANTS
  Allowed,        \* model_routing_allowed_models
  Modes,          \* routing modes tried: "rule", "hybrid", "agent"
  Observations,   \* what the market may look like, records of Stats
  Stages,         \* deployment stages a recorded cycle may have
  OwnReadings,    \* regimes that a model may see in spite of the router's reading
  Results,        \* how a cycle may end, records of Result
  Archives,       \* sequences of records that earlier runs may have left behind
  MaxCycles,      \* bound of the cycles of a process
  MaxFaults,      \* bound of the cycles abandoned, configurations and restarts
  MinCycles, MinRegimeCycles,              \* DEFAULT_LEADERBOARD_POLICY
  TopN, Cooldown,                          \* allocator_top_n, cooldown_cycles
  MinConfidence, Margin, AgentGap, MinStyle

Model   == {"momentum", "mean_reversion", "value_quality", "defensive_low_vol"}
Regime  == {"bull", "oscillation", "bear"}
NoModel == "none"

ASSUME RoutingConstants ==
  /\ {MaxCycles, MinCycles, MinRegimeCycles, TopN} \subseteq Nat \ {0}
  /\ OwnReadings \subseteq Regime /\ Allowed \subseteq Model /\ Allowed # {}
  /\ Modes \subseteq {"rule", "hybrid", "agent"}
  /\ Stages \subseteq {"active", "candidate", "override"}
  /\ {MaxFaults, Cooldown, MinConfidence, Margin, AgentGap, MinStyle} \subseteq Nat

Stats  == [change : Int, above : 0 .. 100, volatility : Nat, breadth : 0 .. 100, index : Int]
Result == [ret : Int, sharpe : Int, excess : Int, strategy : 0 .. 100,
           bench : {0, 100}, win : {0, 100}, drawdown : Nat]

\* DEFAULT_MODEL_REGIME_COMPATIBILITY
Profile ==
  [momentum          |-> [bull |-> 100, oscillation |-> 45,  bear |-> 10],
   mean_reversion    |-> [bull |-> 20,  oscillation |-> 100, bear |-> 65],
   defensive_low_vol |-> [bull |-> 35,  oscillation |-> 78,  bear |-> 100],
   value_quality     |-> [bull |-> 82,  oscillation |-> 76,  bear |-> 62]]

\* DEFAULT_REGIME_PRIORS
Prior ==
  [bull |-> [momentum |-> 45, mean_reversion |-> 15, value_quality |-> 25, defensive_low_vol |-> 15],
   oscillation |-> [momentum |-> 10, mean_reversion |-> 40, value_quality |-> 25, defensive_low_vol |-> 25],
   bear |-> [momentum |-> 5, mean_reversion |-> 15, value_quality |-> 30, defensive_low_vol |-> 50]]

\* REGIME_WEIGHT_CAPS
Caps == [bull        |-> [momentum |-> 7000],
         oscillation |-> [momentum |-> 2500, mean_reversion |-> 5000],
         bear        |-> [momentum |-> 2000, defensive_low_vol |-> 6000]]

\* The critical regimes of a family: a model fails there when its return, benchmark rate
\* and win rate are all at or under these.  The rule of value_quality for oscillation
\* asks for a share of losses, which the leaderboard's figures never carry: it is void.
HardFail ==
  [momentum          |-> [bull |-> <<-10, 25, 45>>, bear |-> <<-40, 25, 40>>],
   mean_reversion    |-> [oscillation |-> <<-20, 25, 40>>, bear |-> <<-50, 20, 35>>],
   defensive_low_vol |-> [bear |-> <<-15, 30, 45>>, oscillation |-> <<-25, 25, 40>>],
   value_quality     |-> [bear |-> <<-35, 25, 40>>]]

VARIABLES
  mode,        \* model_routing_mode
  archive,     \* the cycle records of earlier runs, in other directories
  files,       \* cycle_<id>.json of the output directory, NoFile where there is none
  configured,  \* investment_model of the configuration file
  model,       \* controller.model_name
  cycle,       \* current_cycle_id, the cycles this process recorded
  lastSwitch,  \* last_model_switch_cycle_id, 0 for None
  switches,    \* the switches in routing_history: cycle, from, to
  running,     \* the cycle under way: what the router decided on, NoRun outside
  faults       \* how many of these there were

routingVars ==
  <<mode, archive, files, configured, model, cycle, lastSwitch, switches, running, faults>>

NoFile == [model |-> NoModel]
NoRun  == [model |-> NoModel, regime |-> "none"]

---------------------------------------------------------------------------
(* The leaderboard, of the records in the order of the cycle ids *)

Records(m) ==
  LET all == archive \o files IN SelectSeq(all, LAMBDA r : r.model = m)
InRegime(rs, r) == SelectSeq(rs, LAMBDA x : x.regime = r)

Average(rs, F(_)) ==
  IF rs = <<>> THEN 0 ELSE FoldLeft(LAMBDA t, x : t + F(x.result), 0, rs) \div Len(rs)

Figures(rs) ==
  [cycles   |-> Len(rs),
   ret      |-> Average(rs, LAMBDA x : x.ret),
   sharpe   |-> Average(rs, LAMBDA x : x.sharpe),
   excess   |-> Average(rs, LAMBDA x : x.excess),
   strategy |-> Average(rs, LAMBDA x : x.strategy),
   bench    |-> Average(rs, LAMBDA x : x.bench),
   win      |-> Average(rs, LAMBDA x : x.win),
   drawdown |-> Average(rs, LAMBDA x : x.drawdown)]

\* composite_score and regime_score
Score(f) ==
  30 * f.ret + 1000 * f.sharpe + 15 * f.excess + 1500 * f.strategy + 1800 * f.bench - 45 * f.drawdown
Weighed(x, m, r) == (x * Max({25, Profile[m][r]})) \div 100
RegimeScore(f, m, r) ==
  Weighed(35 * f.ret + 900 * f.sharpe + 1200 * f.strategy + 1500 * f.bench - 40 * f.drawdown, m, r)

\* deployment_stage of the record with the highest cycle id, whichever run wrote it
LatestStage(rs) ==
  LET last == CHOOSE i \in DOMAIN rs : \A j \in DOMAIN rs :
                rs[j].id < rs[i].id \/ (rs[j].id = rs[i].id /\ j <= i)
  IN  rs[last].stage

FailsRegime(m, here, r) ==
  /\ r \in DOMAIN HardFail[m] /\ here[r].cycles >= 2
  /\ here[r].ret <= HardFail[m][r][1] /\ here[r].bench <= HardFail[m][r][2]
  /\ here[r].win <= HardFail[m][r][3]

PassesGate(m, f, here, rs) ==
  /\ Score(f) >= 0 /\ f.ret >= 0 /\ f.drawdown <= 1500
  /\ LatestStage(rs) = "active"
  /\ \A r \in Regime : ~FailsRegime(m, here, r)

EnoughCycles(f, here) ==
  /\ f.cycles >= MinCycles
  /\ \E r \in Regime : here[r].cycles >= MinRegimeCycles

\* What a model ranks by in a regime: what it did there, or else all it did
Standing(m, f, here, r) ==
  IF here[r].cycles > 0 THEN RegimeScore(here[r], m, r) ELSE (Score(f) * Profile[m][r]) \div 100

\* The entry of a model; one without records passes no gate
Entry(m, rs, f, here) ==
  [figures  |-> f, here |-> here,
   eligible |-> EnoughCycles(f, here) /\ PassesGate(m, f, here, rs),
   standing |-> [bull |-> Standing(m, f, here, "bull"), bear |-> Standing(m, f, here, "bear"),
                 oscillation |-> Standing(m, f, here, "oscillation")]]

EntryOf(m) ==
  LET rs == Records(m)
  IN  Entry(m, rs, Figures(rs),
            [bull |-> Figures(InRegime(rs, "bull")), bear |-> Figures(InRegime(rs, "bear")),
             oscillation |-> Figures(InRegime(rs, "oscillation"))])

Board == [momentum |-> EntryOf("momentum"), mean_reversion |-> EntryOf("mean_reversion"),
          defensive_low_vol |-> EntryOf("defensive_low_vol"), value_quality |-> EntryOf("value_quality")]

Eligible(b) == {m \in Model : b[m].eligible}

---------------------------------------------------------------------------
(* The allocator *)

\* Lexicographic order of tuples of integers
Before(s, t) ==
  \E i \in DOMAIN s : s[i] > t[i] /\ \A j \in 1 .. i - 1 : s[j] = t[j]

\* Of a pool, the models that ran in this regime, or else all of it; of these the ones
\* whose style fits the regime, if there are any
Fitting(b, pool, r) ==
  LET seen  == {m \in pool : b[m].here[r].cycles > 0}
      known == IF seen # {} THEN seen ELSE pool
      fit   == {m \in known : Profile[m][r] >= 20}
  IN  IF fit # {} THEN fit ELSE known

Candidates(b, r) == Fitting(b, Eligible(b), r)

Ranked(b, r) ==
  LET Key(m) == LET f == b[m].figures IN
                <<b[m].standing[r], Profile[m][r], Score(f), f.strategy, f.ret, f.sharpe>>
  IN  SetToSortSeq(Candidates(b, r), LAMBDA x, y : Before(Key(x), Key(y)))

Bonus(b, top, m, r) ==
  LET best == Max({0} \cup {b[x].standing[r] : x \in Range(top)})
      f    == b[m].figures
  IN  IF m \notin Range(top) THEN 0
      ELSE 40 * ((100 * Max({0, b[m].standing[r]})) \div (IF best = 0 THEN 10000 ELSE best))
           + 20 * f.bench + 20 * f.strategy + 20 * Profile[m][r]

Shares(w) ==
  LET total == FoldSet(LAMBDA m, t : w[m] + t, 0, DOMAIN w)
  IN  [m \in DOMAIN w |-> (w[m] * 10000) \div (IF total = 0 THEN 10000 ELSE total)]

\* What the caps take away goes to the models without a cap
Capped(r, w) ==
  LET cut  == [m \in Model |-> IF m \in DOMAIN Caps[r] THEN Min({w[m], Caps[r][m]}) ELSE w[m]]
      free == Model \ DOMAIN Caps[r]
      rest == Max({0, 10000 - FoldSet(LAMBDA m, t : cut[m] + t, 0, Model)})
  IN  Shares([m \in Model |-> IF m \in free THEN cut[m] + rest \div Cardinality(free) ELSE cut[m]])

\* The prior counts for 65 %, what the board says for 35 %; the style scales both
Mixed(b, top, m, r) == Weighed(Prior[r][m] * 65 + (Bonus(b, top, m, r) * 35) \div 100, m, r)

\* model_weights: weights under 1 % are dropped
Weights(b, r, ranked) ==
  LET top    == SubSeq(ranked, 1, Min({TopN, Len(ranked)}))
      capped == Capped(r, Shares([m \in Model |-> Mixed(b, top, m, r)]))
      kept   == {m \in Model : capped[m] >= 100}
  IN  IF ranked = <<>> THEN <<>> ELSE Shares([m \in kept |-> capped[m]])

PlanConfidence(b, r, ranked) ==
  LET first  == b[ranked[1]].standing[r]
      second == IF Len(ranked) > 1 THEN b[ranked[2]].standing[r] ELSE (first * 4) \div 5
      raw    == 5200 + Max({0, first - second}) \div 50 + 8 * Profile[ranked[1]][r]
  IN  IF ranked = <<>> THEN 3500 ELSE Max({3500, Min({9200, raw})})

---------------------------------------------------------------------------
(* The router *)

\* RegimeClassifier._rule_based
Classify(s) ==
  LET bull == s.change >= 300 /\ s.above >= 55 /\ s.breadth >= 58
      bear == s.change <= -300 /\ s.above <= 45 /\ s.breadth <= 42
  IN  CASE bull \/ s.index >= 200 ->
             [regime |-> "bull", confidence |-> 7200 + 100 * Min({18, Max({0, s.above - 55})})]
        [] ~(bull \/ s.index >= 200) /\ (bear \/ s.index <= -200) ->
             [regime |-> "bear", confidence |-> 7400 + 100 * Min({16, Max({0, 45 - s.above})})]
        [] ~(bull \/ s.index >= 200 \/ bear \/ s.index <= -200) ->
             IF s.volatility >= 28 THEN [regime |-> "bear", confidence |-> 6300]
                                   ELSE [regime |-> "oscillation", confidence |-> 5800]

\* classify: an agent that agrees with the rules adds to the confidence.  The router asks
\* for "hybrid" in agent mode too, so that no agent's regime replaces that of the rules.
Readings(s) ==
  LET rule      == Classify(s)
      Agreed(c) == [rule EXCEPT !.confidence = Min({9500, Max({@, c}) + 500})]
  IN  {rule} \cup IF mode = "rule" THEN {} ELSE {Agreed(c) : c \in {0, 9000}}

Weight(w, m) == IF m \in DOMAIN w THEN w[m] ELSE 0

\* _evaluate_cooldown_exception: a weak model may be left early for one that is far better
Weak(f) == f.bench <= 45 \/ f.ret <= 0
Exception(b, to, w, confidence) ==
  LET old == b[model].figures
      new == b[to].figures
  IN  /\ old.cycles > 0 /\ new.cycles > 0
      /\ Weak(old)
      /\ confidence >= 7200
      /\ Weight(w, to) - Weight(w, model) >= 1000
      /\ new.bench - old.bench >= 15 \/ new.ret - old.ret >= 75

\* Mutant: the last cycle of the cooldown is not one of it
CoolingDown_Short == lastSwitch # 0 /\ (cycle + 1) - lastSwitch < Cooldown
CoolingDown == lastSwitch # 0 /\ (cycle + 1) - lastSwitch <= Cooldown

\* hold_current: the later tests overwrite what the one of the style said
StyleMismatch(to, r) ==
  Profile[to][r] < MinStyle /\ Profile[model][r] >= Profile[to][r]
Holds(b, to, r, w, confidence) ==
  \/ confidence < MinConfidence
  \/ Weight(w, to) - Weight(w, model) < Margin
  \/ CoolingDown /\ ~Exception(b, to, w, confidence)
  \/ ~CoolingDown /\ StyleMismatch(to, r)

\* The weights of the models allowed; the present model is always allowed
Offered(w) == [m \in DOMAIN w \cap (Allowed \cup {model}) |-> w[m]]

\* What the selector agent may make of the first choice
Advised(first, w) ==
  CASE mode = "rule"   -> {first}
    [] mode = "hybrid" -> {first} \cup {m \in Allowed \cup {model} : w[first] - Weight(w, m) <= AgentGap}
    [] mode = "agent"  -> {first} \cup Allowed \cup {model}

\* The head of active_models; of several that weigh the same here, where weights are coarser
\* than the code's, it may be any
Heaviest(w) == {m \in DOMAIN w : \A x \in DOMAIN w : w[x] <= w[m]}

\* route: the models that may be selected in the regime r, from the weights w offered and
\* the confidence of reading and plan
Selected(b, r, w, confidence) ==
  IF DOMAIN w = {} THEN {model}
  ELSE {IF to # model /\ Holds(b, to, r, w, confidence) THEN model ELSE to :
          to \in UNION {Advised(first, w) : first \in Heaviest(w)}}

---------------------------------------------------------------------------
(* The controller *)

RoutingInit ==
  /\ mode \in Modes
  /\ archive \in Archives
  /\ files = [i \in 1 .. MaxCycles |-> NoFile]
  /\ configured \in Allowed /\ model = configured
  /\ cycle = 0 /\ lastSwitch = 0 /\ switches = <<>>
  /\ running = NoRun
  /\ faults = 0

\* apply_model_routing at the start of the cycle cycle + 1
Route ==
  /\ running = NoRun /\ cycle < MaxCycles
  /\ \E b \in {Board}, s \in Observations : \E reading \in Readings(s) :
     \E ranked \in {Ranked(b, reading.regime)} :
     \E w \in {Offered(Weights(b, reading.regime, ranked))},
        c \in {Max({reading.confidence, PlanConfidence(b, reading.regime, ranked)})} :
     \E to \in Selected(b, reading.regime, w, c) :
       /\ model' = to
       /\ running' = [model |-> to, regime |-> reading.regime]
       /\ IF to = model THEN UNCHANGED <<lastSwitch, switches>>
          ELSE /\ lastSwitch' = cycle + 1
               /\ switches' = Append(switches, [cycle |-> cycle + 1, from |-> model, to |-> to])
  /\ UNCHANGED <<mode, archive, files, configured, cycle, faults>>

\* finalize_cycle counts the cycle, save_cycle_result writes its file, with the regime
\* the model itself saw
Record ==
  /\ running # NoRun
  /\ cycle' = cycle + 1
  /\ \E result \in Results, stage \in Stages, regime \in {running.regime} \cup OwnReadings :
       files' = [files EXCEPT ![cycle + 1] =
                   [id |-> cycle + 1, stage |-> stage, result |-> result,
                    model |-> running.model, regime |-> regime]]
  /\ running' = NoRun
  /\ UNCHANGED <<mode, archive, configured, model, lastSwitch, switches, faults>>

\* The cycle is skipped or raises: the next one has the same number
Abandon ==
  /\ running # NoRun /\ faults < MaxFaults
  /\ running' = NoRun
  /\ faults' = faults + 1
  /\ UNCHANGED <<mode, archive, files, configured, model, cycle, lastSwitch, switches>>

\* A request changes the configured model: sync_runtime_from_config, in another thread,
\* which a cycle that has not selected its stocks yet then runs
Configure ==
  /\ faults < MaxFaults
  /\ faults' = faults + 1
  /\ \E m \in Allowed :
       /\ configured' = m /\ model' = m
       /\ running' \in {running, IF running = NoRun THEN NoRun ELSE [running EXCEPT !.model = m]}
  /\ UNCHANGED <<mode, archive, files, cycle, lastSwitch, switches>>

\* A new process on the same output directory: cycles are counted from 0 again
Restart ==
  /\ faults < MaxFaults
  /\ faults' = faults + 1
  /\ model' = configured
  /\ cycle' = 0 /\ lastSwitch' = 0 /\ switches' = <<>>
  /\ running' = NoRun
  /\ UNCHANGED <<mode, archive, files, configured>>

RoutingNext == Route \/ Record \/ Abandon \/ Configure \/ Restart

RoutingSpec == RoutingInit /\ [][RoutingNext]_routingVars

---------------------------------------------------------------------------
(* Properties *)

\* Types.
RoutingTypeOK ==
  /\ mode \in Modes /\ model \in Model /\ configured \in Allowed
  /\ cycle \in 0 .. MaxCycles /\ lastSwitch \in 0 .. MaxCycles
  /\ \A i \in DOMAIN switches : switches[i].from # switches[i].to

Switched == running = NoRun /\ running' # NoRun /\ model' # model
Regime1  == running'.regime

\* Two switches of the router are more than Cooldown cycles apart, unless the model it
\* leaves has done badly.
SwitchesAreSpaced ==
  [][Switched /\ switches # <<>> =>
       cycle + 1 - Last(switches).cycle > Cooldown \/ Weak(Figures(Records(model)))]_routingVars

\* The router changes to a model whose style fits the market badly, while the present one
\* fits it at least as well, only where the cooldown's exception lets it: the test of the
\* cooldown comes last and overwrites the hold for style.
StyleRespected ==
  [][Switched /\ StyleMismatch(model', Regime1) => CoolingDown /\ Weak(Figures(Records(model)))]_routingVars

\* No order of the router's holds lets a switch through that one of them forbids.
SwitchesAreSound == SwitchesAreSpaced /\ StyleRespected

==============================================================================
