------------------------------- MODULE Meeting -------------------------------
(***************************************************************************)
(* The selection stage of a training cycle: TrainingSelectionService lays  *)
(* the budget of the market's regime over the parameters and lets the      *)
(* model read the market; SelectionMeeting lets agents pick among its      *)
(* candidates, all at once in threads, has each pick debated, adds their   *)
(* scores up and makes a plan; the service cuts the plan to the budget.    *)
(*                                                                         *)
(* What an agent or a judge says is the LLM's choice: it may fail, be no   *)
(* JSON, have malformed parts, or name stocks that are no candidates.      *)
(* Scores and confidences are in percent, an agent's weight is in tenths,  *)
(* the weight of a position and the cash reserve in ten-thousandths.       *)
(* Trailing stops, reasons and the bookkeeping of calls are left out.      *)
(***************************************************************************)
EXTENDS Integers, FiniteSets, SequencesExt

CONSTANTS
  Packets,    \* what the model may put out, records of Packet
  Replies,    \* what an agent may get from the LLM, records of Reply
  Verdicts,   \* what a judge may say, records of Ruling
  Weighings,  \* agent_weights of the configuration
  Allowance   \* the budget of each regime, and of none: records of Allowed

Agents  == {"trend_hunter", "contrarian", "quality_agent", "defensive_agent"}
Regimes == {"bull", "oscillation", "bear"}

Code == STRING

\* candidates: stock_summaries in order, algo: their algo_score; score and hint: score and
\* weight_hint of the stocks that have a signal (hint 0: none); reading: the regime; data:
\* the stocks the cycle has data of; oversold and rebound: what the contrarian's filter leaves
\* of the candidates, its best first, and its score of them
Packet == [model : STRING, reading : Regimes \cup {"unknown"}, candidates : Seq(Code),
           algo : [Code -> 0 .. 100], score : [Code -> Int], hint : [Code -> Nat], max : Nat,
           data : SUBSET Code, oversold : Seq(Code), rebound : [Code -> 0 .. 100]]

\* "broken": the call fails or is no JSON; "garbled": a pick is no object; "said"
Reply == [kind : {"broken", "garbled", "said"}, picks : Seq([code : Code, score : Int]),
          conf : Int, selected : Seq(Code)]

\* says "missing": the debate raised; conf is out of range or no number ("wordy") if the
\* judge likes
Ruling == [says : {"buy", "hold", "avoid", "missing"}, conf : Int, wordy : BOOLEAN]

Whole == 10000   \* all of the capital

\* threshold: of the signals' score, enforced when the model has not used it itself
Allowed == [max : Nat \ {0}, size : Nat, cash : 0 .. Whole, threshold : Int, enforced : BOOLEAN]

\* SelectionMeeting._get_model_roster
Preference ==
  [momentum          |-> <<"trend_hunter", "quality_agent", "defensive_agent">>,
   mean_reversion    |-> <<"contrarian", "defensive_agent", "quality_agent">>,
   value_quality     |-> <<"quality_agent", "defensive_agent", "trend_hunter">>,
   defensive_low_vol |-> <<"defensive_agent", "quality_agent", "contrarian">>]

ASSUME MeetingConstants ==
  /\ \A a \in DOMAIN Allowance : Allowance[a] \in Allowed
  /\ Regimes \cup {"unknown"} \subseteq DOMAIN Allowance
  /\ \A w \in Weighings : DOMAIN w \subseteq Agents /\ \A a \in DOMAIN w : w[a] \in Int
  /\ Verdicts \subseteq Ruling /\ Replies \subseteq Reply

\* What a model puts out: at least one candidate (without one the meeting returns an empty plan
\* at once and the cycle is skipped), and a score for each.
Offers(p) ==
  /\ {"model", "reading", "candidates", "algo", "score", "hint", "max", "data", "oversold", "rebound"}
       \subseteq DOMAIN p
  /\ p.model \in DOMAIN Preference /\ p.reading \in Regimes \cup {"unknown"}
  /\ p.candidates \in Seq(Code) /\ p.candidates # <<>>
  /\ \A c \in ToSet(p.candidates) : p.algo[c] \in 0 .. 100
  /\ p.oversold \in Seq(ToSet(p.candidates))
  /\ \A c \in ToSet(p.oversold) : p.rebound[c] \in 0 .. 100
  /\ \A c \in DOMAIN p.hint : p.hint[c] \in Nat
  /\ p.max \in Nat \ {0}

ASSUME PacketsOffer == \A p \in Packets : Offers(p)

VARIABLES
  round,      \* how far the stage has come
  asked,      \* the regime of the last routing decision
  profile,    \* current_cycle_regime_profile: the regime whose budget is in force
  packet,     \* the model's output, under: the regime in whose parameters it was made
  weighing,   \* the meeting's agent_weights
  running,    \* agents whose threads are at work
  arrived,    \* results of the agents, in the order of their completion
  debated,    \* code -> verdict
  tplan       \* the plan: positions and cash reserve

meetingVars == <<round, asked, profile, packet, weighing, running, arrived, debated, tplan>>

\* The sum of a sequence
Total(s) ==
  LET sum[n \in 0 .. Len(s)] == IF n = 0 THEN 0 ELSE sum[n - 1] + s[n]
  IN  sum[Len(s)]

\* The part of a sequence that is in a set
Those(s, some) ==
  LET kept[n \in 0 .. Len(s)] ==
        IF n = 0 THEN <<>> ELSE IF s[n] \in some THEN Append(kept[n - 1], s[n]) ELSE kept[n - 1]
  IN  kept[Len(s)]

\* A set in the order of its scores, the highest first, and then of its places
InScoreOrder(some, score, place) ==
  LET above == [c \in some |->
        {d \in some : score[d] > score[c] \/ (score[d] = score[c] /\ place[d] < place[c])}]
  IN  [i \in 1 .. Cardinality(some) |-> CHOOSE c \in some : Cardinality(above[c]) = i - 1]

\* Where each element of a sequence is first
FirstAt(s) == [c \in ToSet(s) |-> Min({i \in DOMAIN s : s[i] = c})]

\* The packet the model made in the parameters of a regime
Under(p, regime) == [f \in DOMAIN p \cup {"under"} |-> IF f = "under" THEN regime ELSE p[f]]

\* in hundredths
Cost   == [trend_hunter |-> 100, contrarian |-> 100, quality_agent |-> 80, defensive_agent |-> 65]
Purse  == [bull |-> 190, oscillation |-> 235, bear |-> 215, unknown |-> 210]
Seats(regime) == IF regime \in {"oscillation", "unknown"} THEN 3 ELSE 2

\* Who of the first n preferred is invited, and what they cost
Invited(p) ==
  LET invited[n \in 0 .. Len(Preference[p.model])] ==
        IF n = 0 THEN [agents |-> <<>>, spent |-> 0]
        ELSE LET s == invited[n - 1]
                 a == Preference[p.model][n]
             IN  IF /\ Len(s.agents) < Seats(p.reading)
                    /\ s.spent + Cost[a] <= Purse[p.reading] \/ Len(s.agents) < 2
                 THEN [agents |-> Append(s.agents, a), spent |-> s.spent + Cost[a]]
                 ELSE s
  IN  invited[Len(Preference[p.model])]

Roster(p) == Invited(p).agents

(* An agent's thread. *)

Hunter(a) == a \in {"trend_hunter", "contrarian"}

Picked(codes, score) == [i \in DOMAIN codes |-> [code |-> codes[i], score |-> score[codes[i]]]]

FirstOf(s, n) == SubSeq(s, 1, IF Len(s) < n THEN Len(s) ELSE n)

Clamp(x) == IF x < 0 THEN 0 ELSE IF x > 100 THEN 100 ELSE x

\* What an agent is shown, and the scores it falls back on: the contrarian has no
\* analyze_context and is given what perceive and pre_filter leave, which may be nothing
Shown(a, p) == IF a = "contrarian" THEN p.oversold ELSE p.candidates
Mark(a, p)  == IF a = "contrarian" THEN p.rebound ELSE p.algo

\* the candidates by algo_score, as sorted() leaves them
ByScore(p) == InScoreOrder(ToSet(p.candidates), p.algo, FirstAt(p.candidates))

Algorithmic(a, p) ==
  [agent    |-> a,
   picks    |-> Picked(IF Hunter(a) THEN FirstOf(Shown(a, p), 5) ELSE FirstOf(ByScore(p), 4), Mark(a, p)),
   conf     |-> IF Shown(a, p) = <<>> THEN 0 ELSE 50, selected |-> <<>>]

\* A hunter takes the first it was shown when none of its picks is one; a specialist's picks
\* may be empty, its score and confidence never 0.
Validated(a, p, reply) ==
  LET known == FirstOf(Those(reply.picks, {k \in ToSet(reply.picks) : k.code \in ToSet(Shown(a, p))}),
                       IF Hunter(a) THEN 8 ELSE 4)
      half(x) == IF x = 0 /\ ~Hunter(a) THEN 50 ELSE Clamp(x)
  IN IF Hunter(a) /\ known = <<>>
     THEN [agent |-> a, picks |-> Picked(FirstOf(Shown(a, p), 3), [c \in ToSet(Shown(a, p)) |-> 50]),
           conf |-> 50, selected |-> <<>>]
     ELSE [agent |-> a,
           picks |-> [i \in DOMAIN known |-> [code |-> known[i].code, score |-> half(known[i].score)]],
           conf  |-> half(reply.conf), selected |-> reply.selected]

\* An agent that is shown nothing does not ask the LLM; a hunter validates outside of its try.
Result(a, p, reply) ==
  CASE Shown(a, p) = <<>> \/ reply.kind = "broken" -> <<Algorithmic(a, p)>>
    [] Shown(a, p) # <<>> /\ reply.kind = "garbled" ->
         IF Hunter(a) THEN <<>> ELSE <<Algorithmic(a, p)>>
    [] Shown(a, p) # <<>> /\ reply.kind = "said"    -> <<Validated(a, p, reply)>>

(* What the meeting makes of the results. *)

\* a bug: in the order of completion
InRosterOrder_Arrival(p, results) == results

\* hunter_outputs: those that succeeded, in the roster's order, whoever was first
InRosterOrder(p, results) ==
  LET mine(a) == Those(results, {r \in ToSet(results) : r.agent = a})
      places  == Those([i \in DOMAIN Roster(p) |-> i],
                      {i \in DOMAIN Roster(p) : mine(Roster(p)[i]) # <<>>})
  IN  [n \in DOMAIN places |-> mine(Roster(p)[places[n]])[1]]

DebatedCodes(results) ==
  UNION {{k.code : k \in ToSet(r.picks)} : r \in ToSet(results)} \cap ToSet(packet.candidates)

WeightOf(w, a) == IF a \in DOMAIN w THEN w[a] ELSE 10

\* a score after weight and verdict, in millionths
Adjusted(w, k, a, verdicts) ==
  LET base == k.score * WeightOf(w, a)
      v    == IF k.code \in DOMAIN verdicts THEN verdicts[k.code] ELSE [says |-> "hold"]
  IN CASE v.says = "avoid" -> base * 500
       [] v.says = "buy"   -> base * (1000 + 3 * v.conf)
       [] OTHER            -> base * 1000

\* What one result adds to the scores, in order; a score of 0 counts as the confidence, and
\* without picks the codes the LLM listed as "selected" are taken as they are.
Votes(w, r, verdicts) ==
  LET picks == IF r.picks # <<>>
               THEN [i \in DOMAIN r.picks |->
                       [code |-> r.picks[i].code, value |-> Adjusted(w, r.picks[i], r.agent, verdicts)]]
               ELSE [i \in DOMAIN r.selected |-> [code |-> r.selected[i], value |-> r.conf * 10000]]
  IN [i \in DOMAIN picks |->
        [code  |-> picks[i].code,
         value |-> (IF picks[i].value = 0 THEN r.conf * 10000 ELSE picks[i].value) * r.conf]]

Lesser(x, y) == IF x < y THEN x ELSE y
Larger(x, y) == IF x > y THEN x ELSE y

\* _aggregate: the best codes by the sum of their votes, the first named before the others
Aggregated(p, w, results, verdicts) ==
  LET votes == FlattenSeq([i \in DOMAIN results |-> Votes(w, results[i], verdicts)])
      codes == [i \in DOMAIN votes |-> votes[i].code]
      sum   == [c \in ToSet(codes) |->
                  Total([i \in DOMAIN votes |-> IF votes[i].code = c THEN votes[i].value ELSE 0])]
  IN  FirstOf(InScoreOrder(ToSet(codes), sum, FirstAt(codes)), p.max)

Chosen(p, w, results, verdicts) ==
  LET voted == IF results = <<>> THEN <<>> ELSE Aggregated(p, w, results, verdicts)
  IN IF voted # <<>> THEN voted ELSE FirstOf(ByScore(p), p.max)

Rounded(x, n, unit) == ((2 * x + n * unit) \div (2 * n * unit)) * unit   \* x / n

\* _to_trading_plan_v2: each weight is bounded by what is not kept in cash; their sum is not
Planned(p, codes) ==
  LET cash      == Lesser(Allowance[p.under].cash, 7000)
      available == Whole - cash
      default   == Rounded(Lesser(Allowance[p.under].size * Len(codes), available),
                           Len(codes), 10)
      hinted(c) == c \in DOMAIN p.hint /\ p.hint[c] > 0
  IN [positions |-> [i \in DOMAIN codes |->
        [code |-> codes[i],
         weight |-> Lesser(IF hinted(codes[i]) THEN p.hint[codes[i]] ELSE default, available)]],
      cash |-> cash]

(* _apply_regime_hard_filter: the cuts, in their order. *)

Strong(position, budget) ==
  budget.enforced /\ position.code \in DOMAIN packet.score
    => packet.score[position.code] >= budget.threshold

Weights(positions) == [i \in DOMAIN positions |-> positions[i].weight]

\* a bug: the cash reserve is not taken off first
Scaled_Whole(positions, cap) ==
  LET sum == Total(Weights(positions))
  IN IF sum <= Whole THEN positions
     ELSE [i \in DOMAIN positions |->
             [code |-> positions[i].code, weight |-> Rounded(positions[i].weight * cap, sum, 1)]]

Scaled(positions, cap) ==
  LET sum == Total(Weights(positions))
  IN IF sum <= cap THEN positions
     ELSE [i \in DOMAIN positions |->
             [code |-> positions[i].code, weight |-> Rounded(positions[i].weight * cap, sum, 1)]]

CutTo(p, budget) ==
  LET kept == FirstOf(Those(p.positions, {q \in ToSet(p.positions) : Strong(q, budget)}), budget.max)
      cash == Larger(p.cash, budget.cash)
  IN [positions |-> Scaled([i \in DOMAIN kept |->
                            [code |-> kept[i].code, weight |-> Lesser(kept[i].weight, budget.size)]],
                           Whole - cash),
      cash |-> cash]

-----------------------------------------------------------------------------
NoPlan == [positions |-> <<>>, cash |-> 0]

MeetingInit ==
  /\ round = "routed"
  /\ asked \in {"bull", "unknown"}
  /\ profile = "unknown"
  /\ \E p \in Packets : packet = Under(p, "unknown")
  /\ weighing \in Weighings
  /\ running = {} /\ arrived = <<>> /\ debated = <<>>
  /\ tplan = NoPlan

\* The budget of the routed regime is laid over, and the model reads the market.
ModelRuns ==
  /\ round = "routed"
  /\ profile' = asked
  /\ packet' = Under(packet, asked)
  /\ round' = "read"
  /\ UNCHANGED <<asked, weighing, running, arrived, debated, tplan>>

Inferred == IF asked # "unknown" THEN asked ELSE packet.reading

\* _refresh_runtime_profile_from_model_regime: nobody had routed, and the model's own reading
\* asks for another budget, in which it runs again when a parameter changes.
BudgetRefreshed ==
  /\ Inferred \notin {"unknown", profile}
  /\ profile' = Inferred
  /\ packet' = IF Allowance[Inferred] # Allowance[profile]
               THEN Under(packet, Inferred) ELSE packet

MeetingBegins ==
  /\ round = "read"
  /\ BudgetRefreshed \/ (Inferred \in {"unknown", profile} /\ UNCHANGED <<profile, packet>>)
  /\ running' = ToSet(Roster(packet))
  /\ round' = "agents"
  /\ UNCHANGED <<asked, weighing, arrived, debated, tplan>>

AgentDone(a, reply) ==
  /\ round = "agents" /\ a \in running
  /\ running' = running \ {a}
  /\ arrived' = IF Result(a, packet, reply) = <<>> THEN arrived
                ELSE Append(arrived, Result(a, packet, reply)[1])
  /\ round' = IF running' = {} THEN "debates" ELSE round
  /\ UNCHANGED <<asked, profile, packet, weighing, debated, tplan>>

Undebated == DebatedCodes(arrived) \ DOMAIN debated

Debate(c, v) ==
  /\ round = "debates" /\ c \in Undebated
  /\ debated' = [d \in DOMAIN debated \cup {c} |-> IF d = c THEN v ELSE debated[d]]
  /\ UNCHANGED <<round, asked, profile, packet, weighing, running, arrived, tplan>>

\* What the meeting chooses on results
Meant(results) == Chosen(packet, weighing, InRosterOrder(packet, results), debated)

\* A judge's confidence that is no number is multiplied all the same: the cycle fails.
Unusable == \E c \in DOMAIN debated : debated[c].says = "buy" /\ debated[c].wordy

PlanMade ==
  /\ round = "debates" /\ Undebated = {}
  /\ IF Unusable
     THEN round' = "failed" /\ UNCHANGED tplan
     ELSE round' = "planned" /\ tplan' = Planned(packet, Meant(arrived))
  /\ UNCHANGED <<asked, profile, packet, weighing, running, arrived, debated>>

\* A plan without a stock the cycle has data of skips it.
PlanCut ==
  /\ round = "planned"
  /\ tplan' = CutTo(tplan, Allowance[profile])
  /\ round' = IF {q.code : q \in ToSet(tplan'.positions)} \cap packet.data = {}
              THEN "skipped" ELSE "selected"
  /\ UNCHANGED <<asked, profile, packet, weighing, running, arrived, debated>>

MeetingNext ==
  \/ ModelRuns \/ MeetingBegins \/ PlanMade \/ PlanCut
  \/ \E a \in running, reply \in Replies : AgentDone(a, reply)
  \/ \E c \in Undebated, v \in Verdicts : Debate(c, v)

MeetingSpec == MeetingInit /\ [][MeetingNext]_meetingVars
-----------------------------------------------------------------------------
MeetingTypeOK ==
  /\ round \in {"routed", "read", "agents", "debates", "failed", "planned", "skipped", "selected"}
  /\ {asked, profile, packet.under} \subseteq Regimes \cup {"unknown"}
  /\ running \subseteq Agents
  /\ \A r \in ToSet(arrived) : r.agent \in Agents
  /\ tplan.cash \in 0 .. Whole

\* Whatever agents and judges say, and whichever of them fails, a meeting that ends in a
\* plan has a plan for some of the model's candidates, each once and no more than asked for;
\* another stock is in it only when every pick of a specialist was rejected and its reply
\* lists stocks beside the picks.  And the plan is the same whichever thread was first.
PlanIsFromCandidates ==
  round = "planned" =>
    LET codes == {q.code : q \in ToSet(tplan.positions)}
        loose == UNION {ToSet(r.selected) : r \in {x \in ToSet(arrived) : x.picks = <<>>}}
    IN /\ codes # {} /\ Cardinality(codes) = Len(tplan.positions)
       /\ Len(tplan.positions) <= packet.max
       /\ codes \subseteq ToSet(packet.candidates) \cup loose

ThreadsDoNotDecide ==
  round = "planned" =>
    \A order \in SetToSeqs(ToSet(arrived)) :
      [i \in DOMAIN tplan.positions |-> tplan.positions[i].code]
        = Meant(order)

PlanIsTheMeetings == PlanIsFromCandidates /\ ThreadsDoNotDecide

\* A plan that is traded keeps within the budget of the one regime that the model read and
\* was run in: positions, the size of each, the signals' threshold, and the cash, up to half
\* a ten-thousandth for each rounded weight.
PlanIsFunded ==
  round = "selected" =>
    LET budget == Allowance[profile]
        spent  == Total(Weights(tplan.positions))
    IN /\ Inferred # "unknown" => profile = Inferred
       /\ Allowance[packet.under] = budget
       /\ Len(tplan.positions) <= budget.max
       /\ tplan.cash >= budget.cash
       /\ 2 * (spent + tplan.cash - Whole) <= Len(tplan.positions)
       /\ \A q \in ToSet(tplan.positions) : q.weight <= budget.size /\ Strong(q, budget)
=============================================================================
