-------------------------------- MODULE Review --------------------------------
(***************************************************************************)
(* What a training cycle learns from: the agents' track record            *)
(* (AgentTracker), and the review meeting that weighs the cycle against    *)
(* similar cycles of the history (review_protocol) and proposes parameters *)
(* and weights of the agents (ReviewMeeting, ReviewDecisionAgent).         *)
(*                                                                         *)
(* A cycle that is skipped or fails after the meeting keeps its number:    *)
(* the next attempt adds predictions to those already there.  What the     *)
(* LLM says is any of a set of Sayings.  Returns are in hundredths of a    *)
(* percent, parameters in ten-thousandths, weights in hundredths.  The     *)
(* reasoning, its anchors and the suggestions in words are left out.       *)
(***************************************************************************)
EXTENDS Integers, FiniteSets, SequencesExt

CONSTANTS
  Slates,        \* the picks of a meeting, agent by agent: sequences of PickedBy
  Fills,         \* simulations: functions from the codes traded to their profit
  Outcomes,      \* what the cycle came to: records of Outcome
  Sayings,       \* what the LLM may say in a review: records [says, params, weights]
  Clamps,        \* parameter -> <<least, greatest>>: the bounds of a review's proposals
  Cautious, Bold,   \* fallback.evo: the conservative and the aggressive adjustments
  MinTraded,     \* agent_weight.min_traded_count
  LastCycles,    \* of the track record a review looks at
  ReviewSize,    \* size of the review window
  MaxTries       \* attempts in a behaviour

PickedBy == [agent : STRING, code : STRING]
Regime == {"bull", "oscillation", "bear", "unknown"}
Bias   == {"", "tighten_risk", "recalibrate_probability"}

NoFeedback == -1
Odd        == -1000000      \* a weight that is no number

\* by: who made the plan; heard: episodes of the research feedback
Outcome == [ret : Int, bench : BOOLEAN, regime : Regime, by : {"meeting", "llm", "algorithm"},
            model : STRING, bias : Bias, heard : Nat \cup {NoFeedback}]

\* What a saying says beside its params and weights.  "nothing": no LLM, or its call fails or is
\* no JSON; "only evo": its judge answers, its decision does not; "garbled evo": the same, and
\* the judge's adjustments are no object.
Says == {"nothing", "only evo", "garbled evo", "decision"}

Numbers(f) == \A x \in DOMAIN f : f[x] \in Int

ASSUME ReviewConstants ==
  /\ {MinTraded, LastCycles, ReviewSize, MaxTries} \subseteq Nat \ {0}
  /\ \A p \in DOMAIN Clamps : {Clamps[p][1], Clamps[p][2]} \subseteq Int /\ Clamps[p][1] <= Clamps[p][2]
  /\ Outcomes \subseteq Outcome /\ \A o \in Outcomes : o.bias # "" => o.heard >= 0
  /\ \A slate \in Slates : slate \in Seq(PickedBy)
  /\ \A s \in Sayings : s.says \in Says /\ Numbers(s.params) /\ Numbers(s.weights)
  /\ Numbers(Cautious) /\ Numbers(Bold) /\ \A f \in Fills : Numbers(f) /\ DOMAIN f \subseteq STRING

VARIABLES
  step,          \* how far the attempt at a cycle has come
  tries,         \* attempts begun
  predictions,   \* AgentTracker.predictions, in order; try: the attempt (for the properties)
  books,         \* cycle_history: plan, trades and outcome of each recorded cycle, and what its
                 \* review knew and did
  trade,         \* the plan of this attempt and what its stocks brought
  result,        \* its outcome
  advice         \* the proposals of its review

reviewVars == <<step, tries, predictions, books, trade, result, advice>>

This     == Len(books) + 1      \* cycle_id
Untraded == [plan |-> {}, pnl |-> <<>>]
Silence  == [params |-> <<>>, weights |-> <<>>]
Untold   == -1000000            \* actual_return of a prediction not traded
Won(p)   == p.ret > 0

\* r @@ s of TLC, which the provers do not open
With(r, s) == [f \in DOMAIN r \cup DOMAIN s |-> IF f \in DOMAIN r THEN r[f] ELSE s[f]]

(* The track record. *)

\* a bug: the outcomes of all predictions, whatever their cycle
Reconciled_All(preds, pnl) ==
  [i \in DOMAIN preds |->
     IF preds[i].code \in DOMAIN pnl THEN [preds[i] EXCEPT !.ret = pnl[preds[i].code]]
                                     ELSE preds[i]]

Reconciled(preds, pnl) ==
  [i \in DOMAIN preds |->
     IF preds[i].cycle = This /\ preds[i].code \in DOMAIN pnl
     THEN [preds[i] EXCEPT !.ret = pnl[preds[i].code]]
     ELSE preds[i]]

Marked(preds, codes) ==
  [i \in DOMAIN preds |-> IF preds[i].cycle = This
                          THEN [preds[i] EXCEPT !.selected = preds[i].code \in codes]
                          ELSE preds[i]]

\* compute_accuracy: the places of the predictions of the last cycles that have any
Recent(preds) ==
  LET cycles == {p.cycle : p \in ToSet(preds)}
      last   == {c \in cycles : Cardinality({d \in cycles : d > c}) < LastCycles}
  IN {i \in DOMAIN preds : preds[i].cycle \in last}

Ranked(preds)    == {preds[i].agent : i \in Recent(preds)}
Traded(preds, a) == Cardinality({i \in Recent(preds) : preds[i].agent = a /\ preds[i].ret # Untold})
Gained(preds, a) == Cardinality({i \in Recent(preds) : preds[i].agent = a /\ Won(preds[i])})

(* The evidence: similar cycles and what they have in common. *)

Lost(r) == r.ret <= 0

\* the first that fits
Label(r) ==
  LET loss == IF r.ret < 0 THEN -r.ret ELSE 0
      fits == << <<~Lost(r), "">>,
                 <<r.regime = "bear" /\ loss > 0, "overexposed_in_bear">>,
                 <<r.regime = "bull" /\ loss > 0 /\ r.by # "algorithm", "trend_chase_failed">>,
                 <<r.regime = "oscillation" /\ loss > 0, "mean_revert_failed">>,
                 <<r.bias = "tighten_risk" /\ ~r.applied /\ loss >= 100, "late_exit">>,
                 <<r.bench /\ loss > 0 /\ loss <= 100, "early_stopout">>,
                 <<~r.bench, "weak_signal_entry">>,
                 <<TRUE, "unclassified_loss">> >>
  IN fits[CHOOSE i \in DOMAIN fits : fits[i][1] /\ \A j \in 1 .. (i - 1) : ~fits[j][1]][2]

\* a bug: a profit may be evidence of a failure
StrictMatch_AnyResult(c, r) ==
  /\ r.regime # "unknown" => c.regime = r.regime
  /\ ~r.bench => ~c.bench
  /\ c.bias = r.bias \/ "" \in {c.bias, r.bias}

\* The cycle under review has no diagnosis yet, so drivers never conflict.
StrictMatch(c, r) ==
  IF ~Lost(r) THEN ~Lost(c)
  ELSE /\ Lost(c)
       /\ r.regime # "unknown" => c.regime = r.regime
       /\ ~r.bench => ~c.bench
       /\ c.bias = r.bias \/ "" \in {c.bias, r.bias}
       /\ Label(c) = Label(r) \/ "unclassified_loss" \in {Label(c), Label(r)}

Points(n, condition) == IF condition THEN n ELSE 0

Likeness(c, r) ==
  LET supported == Points(1, c.matched) + Points(1, c.driver) + Points(1, c.heard > 0)
  IN Points(4, c.regime = r.regime /\ r.regime # "unknown")
     + Points(3, (c.by = "meeting") = (r.by = "meeting")) + Points(2, c.by = r.by)
     + Points(2, c.bench = r.bench) + Points(3, c.model = r.model)
     + Points(2, c.bias = r.bias /\ r.bias # "") + Points(1, Lost(c) = Lost(r))
     + Points(4, StrictMatch(c, r)) + (IF supported > 2 THEN 2 ELSE supported)

\* _build_similar_results: the numbers of the three cycles of the history most like this one
Similar(r) ==
  LET fit == {n \in DOMAIN books :
                IF Lost(r) THEN StrictMatch(books[n], r) /\ Likeness(books[n], r) >= 7
                           ELSE Likeness(books[n], r) >= 5}
      nearer(m, n) == \/ Likeness(books[m], r) > Likeness(books[n], r)
                      \/ Likeness(books[m], r) = Likeness(books[n], r) /\ m > n
  IN {n \in fit : Cardinality({m \in fit : nearer(m, n)}) < 3}

\* the review window, without the cycle under review
Window == {n \in DOMAIN books : n > Len(books) + 1 - ReviewSize}

\* _build_causal_diagnosis: the drivers with their scores; near: the similar cycles
Drivers(r, near) ==
  LET at(cond(_)) == Cardinality({n \in near : cond(books[n])})
      repeat  == IF Lost(r) THEN at(LAMBDA c : c.regime = r.regime /\ Lost(c)) ELSE 0
      gap     == IF r.bench THEN 0 ELSE at(LAMBDA c : ~c.bench)
      undone  == Cardinality({n \in Window : ~books[n].applied})
      cluster == at(LAMBDA c : (c.by = "meeting") = (r.by = "meeting"))
      scored(name, n, base, each, most) ==
        {[code |-> name, score |-> IF base + each * n > most THEN most ELSE base + each * n]}
  IN IF near = {} THEN {}
     ELSE UNION {IF repeat > 0 THEN scored("regime_repeat_loss", repeat, 35, 10, 80) ELSE {},
                 IF gap > 0 THEN scored("benchmark_gap", gap, 20, 8, 70) ELSE {},
                 IF undone > 0 THEN scored("review_not_applied", undone, 18, 7, 60) ELSE {},
                 IF cluster > 1 THEN scored("selection_mode_cluster", cluster, 16, 5, 50) ELSE {}}

\* The drivers are in the order of their names where scores are equal.
Order == [benchmark_gap |-> 1, regime_repeat_loss |-> 2, review_not_applied |-> 3,
          selection_mode_cluster |-> 4]
PrimaryDriver(drivers) ==
  IF drivers = {} THEN "none"
  ELSE (CHOOSE d \in drivers : \A e \in drivers \ {d} :
          d.score > e.score \/ (d.score = e.score /\ Order[d.code] < Order[e.code])).code

\* research_feedback of the facts: the last of the window that has one
Heard(r) ==
  LET told == {n \in Window : books[n].heard # NoFeedback}
  IN IF r.heard # NoFeedback \/ told = {} THEN r
     ELSE books[CHOOSE n \in told : \A m \in told : m <= n]

GatePassed(r, near, drivers) ==
  /\ Lost(r) => near # {} /\ drivers # {}
  /\ Heard(r).heard # NoFeedback => Heard(r).heard >= 3

(* The decision. *)

Bounded(x, low, high) == IF x < low THEN low ELSE IF x > high THEN high ELSE x

\* a share above 1 and up to 100 is taken for a percentage
Proposable(params) ==
  LET share(x) == IF x > 10000 /\ x <= 1000000 THEN x \div 100 ELSE x
  IN [p \in DOMAIN params \cap DOMAIN Clamps |-> Bounded(share(params[p]), Clamps[p][1], Clamps[p][2])]

Weighed(weights, known) ==
  [a \in {x \in DOMAIN weights : known # {} => x \in known} |->
     IF weights[a] = Odd THEN 100 ELSE Bounded(weights[a], 30, 200)]

\* _evo_judge_fallback
JudgesFallback(r, drivers) ==
  LET wins == Cardinality({n \in Window : ~Lost(books[n])}) + Points(1, ~Lost(r))
      all  == Cardinality(Window) + 1
  IN IF \/ Heard(r).bias # "" \/ PrimaryDriver(drivers) \in {"regime_repeat_loss", "benchmark_gap"}
        \/ 100 * wins < 35 * all
     THEN Cautious
     ELSE IF 100 * wins > 65 * all THEN Bold ELSE <<>>

\* _fallback_decision: an agent with trades enough is weighed by its accuracy, to the cent
ByAccuracy(preds) ==
  [a \in Ranked(preds) |->
     IF Traded(preds, a) >= MinTraded
     THEN 50 + (200 * Gained(preds, a) + Traded(preds, a)) \div (2 * Traded(preds, a))
     ELSE 100]

Decided(r, drivers, s) ==
  CASE s.says = "decision" -> [params |-> s.params, weights |-> s.weights]
    [] s.says = "only evo" -> [params |-> s.params, weights |-> ByAccuracy(predictions)]
    [] s.says = "nothing"  -> [params |-> JudgesFallback(r, drivers), weights |-> ByAccuracy(predictions)]

Adopted(decision, passed) ==
  IF passed
  THEN [params |-> Proposable(decision.params), weights |-> Weighed(decision.weights, Ranked(predictions))]
  ELSE Silence

-----------------------------------------------------------------------------
ReviewInit ==
  /\ step = "idle" /\ tries = 0
  /\ predictions = <<>> /\ books = <<>>
  /\ trade = Untraded /\ result = <<>> /\ advice = Silence

\* The picks of an attempt's meeting are recorded; MaxTries bounds the attempts.
RecordPredictions(slate) ==
  /\ step = "idle" /\ tries < MaxTries
  /\ tries' = tries + 1
  /\ predictions' = predictions \o [i \in DOMAIN slate |->
       [cycle |-> This, try |-> tries', agent |-> slate[i].agent, code |-> slate[i].code,
        selected |-> FALSE, ret |-> Untold]]
  /\ step' = "picked"
  /\ trade' = Untraded /\ advice' = Silence /\ result' = <<>>
  /\ UNCHANGED books

\* The plan is empty, its stocks have no data, or the days are too few; or a stage raises.
GiveUp ==
  /\ step \in {"picked", "marked", "simulated", "reviewed"}
  /\ step' = "idle"
  /\ UNCHANGED <<tries, predictions, books, trade, result, advice>>

MarkSelected(codes) ==
  /\ step = "picked"
  /\ predictions' = Marked(predictions, codes)
  /\ trade' = [trade EXCEPT !.plan = codes]
  /\ step' = "marked"
  /\ UNCHANGED <<tries, books, result, advice>>

RecordOutcomes(pnl) ==
  /\ step = "marked" /\ DOMAIN pnl \subseteq trade.plan
  /\ predictions' = Reconciled(predictions, pnl)
  /\ trade' = [trade EXCEPT !.pnl = pnl]
  /\ step' = "simulated"
  /\ UNCHANGED <<tries, books, result, advice>>

\* The adjustments of the LLM's judge are taken as they come; as a list they have no items(),
\* and the cycle fails.
HoldReview(o, s) ==
  /\ step = "simulated"
  /\ IF s.says = "garbled evo"
     THEN step' = "idle" /\ UNCHANGED <<result, advice>>
     ELSE \E r \in {With(o, [applied |-> FALSE])} :
          \E near \in {Similar(r)} : \E drivers \in {Drivers(r, near)} :
            /\ step' = "reviewed"
            /\ advice' = Adopted(Decided(r, drivers, s), GatePassed(r, near, drivers))
            /\ result' = With(o, [applied |-> advice' # Silence, matched |-> near # {},
                                  driver  |-> drivers # {}])
  /\ UNCHANGED <<tries, predictions, books, trade>>

RecordCycle ==
  /\ step = "reviewed"
  /\ books' = Append(books, With(result, With(trade, [try |-> tries])))
  /\ step' = "idle"
  /\ UNCHANGED <<tries, predictions, trade, result, advice>>

ReviewNext ==
  \/ GiveUp \/ RecordCycle
  \/ \E slate \in Slates : RecordPredictions(slate)
  \/ \E codes \in {DOMAIN f : f \in Fills} : MarkSelected(codes)
  \/ \E pnl \in Fills : RecordOutcomes(pnl)
  \/ \E o \in Outcomes, s \in Sayings : HoldReview(o, s)

ReviewSpec == ReviewInit /\ [][ReviewNext]_reviewVars
-----------------------------------------------------------------------------
ReviewTypeOK ==
  /\ step \in {"idle", "picked", "marked", "simulated", "reviewed"}
  /\ tries \in 0 .. MaxTries /\ Len(books) <= tries
  /\ \A p \in ToSet(predictions) : p.cycle <= This /\ p.try <= tries /\ p.selected \in BOOLEAN
  /\ DOMAIN advice.params \subseteq DOMAIN Clamps

\* However many attempts a cycle took, and whatever was skipped or failed before it and is
\* attempted after it: what the agents predicted for the attempt that was recorded is marked
\* with its plan and its trades, and never touched again.
RecordIsTrue ==
  \A n \in DOMAIN books, p \in ToSet(predictions) :
    p.try = books[n].try =>
      /\ p.cycle = n /\ p.selected = (p.code \in books[n].plan)
      /\ p.ret = IF p.code \in DOMAIN books[n].pnl THEN books[n].pnl[p.code] ELSE Untold

\* Whatever the LLM says, a review proposes nothing after a loss that the history does not
\* bear out: an earlier loss in the same market, behind the benchmark if this one is.  Nor
\* does it on feedback of less than three episodes.  Its values are within their bounds, its
\* weights are those of agents with a record (when there is one).
BorneOut ==
  Lost(result) =>
    \E n \in DOMAIN books :
      /\ books[n].ret <= 0
      /\ result.regime \in {"unknown", books[n].regime}
      /\ ~result.bench => ~books[n].bench

AdviceIsEarned ==
  step = "reviewed" /\ advice # Silence =>
    /\ BorneOut
    /\ result.heard \notin 0 .. 2
    /\ \A p \in DOMAIN advice.params : advice.params[p] \in Clamps[p][1] .. Clamps[p][2]
    /\ \A a \in DOMAIN advice.weights :
         /\ advice.weights[a] \in 30 .. 200
         /\ Ranked(predictions) # {} => \E p \in ToSet(predictions) : p.agent = a
=============================================================================
