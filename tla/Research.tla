------------------------------ MODULE Research ------------------------------
(***************************************************************************)
(* The research case store (invest/research, app/stock_analysis_services,  *)
(* app/training/research_services): every question about a stock, and      *)
(* every stock a training cycle selects, becomes a case; the case is       *)
(* scored against the prices that followed it, and the scored cases answer *)
(* later questions and tell the training when to tighten its parameters.   *)
(*                                                                         *)
(* Two actors use the store's directory without a lock: the thread of the  *)
(* questions and the worker thread of the training.  A file is emptied     *)
(* before it is written, so a reader meanwhile gets an exception.          *)
(*                                                                         *)
(* Abstracted: prices are whole numbers and every day trades; the policy   *)
(* of a case is the actor that made it; Brier score and intervals are one  *)
(* choice of the gate; the limit of 200 records is not reached.            *)
(***************************************************************************)
EXTENDS Integers, FiniteSets, FiniteSetsExt

CONSTANTS Watched,       \* codes of the stocks asked about or selected
          Prices,        \* price functions [Watched -> [1..MaxDay -> Nat]]
          Buys,          \* stocks whose rank gives a stance with an entry price
          RegimeOf,      \* the market's regime on each day
          MaxDay,        \* bound: days of data
          Horizons,      \* DEFAULT_HORIZONS
          Main,          \* the horizon of the recommendation, T+20
          IdOrder,       \* the order of the hashes of a case's attributions
          MinSamples,    \* samples below which there is no recommendation, 3
          MinEpisodes,   \* the feedback gate's min_episode_count, 5
          CooldownCycles,\* research_feedback.optimization.cooldown_cycles, 3
          MaxCases,      \* bound: cases begun
          MaxFails       \* bound: writes that raise

ASSUME ResearchAssumption ==
  /\ Main \in Horizons /\ Horizons \subseteq Nat \ {0}
  /\ {MinSamples, MinEpisodes, CooldownCycles, MaxCases, MaxFails} \subseteq Nat
  /\ RegimeOf \in [1..MaxDay -> STRING]

VARIABLES price, today,   \* what the repository holds: prices up to today
          cases,          \* files of research_cases: key -> episode (0: none)
          scored,         \* files of research_attributions
          torn,           \* keys of the files being written
          asker, trainer, \* the actors: where each stands
          answer,         \* the last question answered and what it rests on
          cycleNo, lastOpt, change,
          begun, fails

researchVars == <<price, today, cases, scored, torn, asker, trainer, answer, cycleNo, lastOpt, change, begun, fails>>

Labels == {"hit", "miss", "invalidated", "not_triggered", "timeout"}
NoJob == [pc |-> "idle", todo |-> {}, key |-> <<>>, day |-> 0]
NoAnswer == [asof |-> 0, rests |-> {}]
NoPlan == [cycle |-> 0, evidence |-> 0, cutoff |-> 0]

-----------------------------------------------------------------------------
(* Attribution *)

\* A key stands for the hashes of snapshot, policy and hypothesis, which
\* repeat when the same stock is asked about as of the same day.
Key(by, s, d) == <<by, s, d>>

StanceOf(k) == IF k[2] \in Buys THEN "buy" ELSE "watch"

Bars(k, h) == (k[3] + 1) .. (IF k[3] + h < today THEN k[3] + h ELSE today)

\* One horizon of evaluate_case: a horizon that is not over yet is scored by
\* the days there are.
LabelAt(k, h) ==
  LET base == price[k[2]][k[3]]
      seen == {price[k[2]][d] : d \in Bars(k, h)}
      last == price[k[2]][Max(Bars(k, h))]
      entry == IF k[2] \in Buys THEN 99 ELSE 100
  IN CASE Bars(k, h) = {} -> "timeout"
       [] k[2] \in Buys /\ Min(seen) * 100 > base * 99 -> "not_triggered"
       [] Min(seen) * 100 <= base * 94 -> "invalidated"
       [] last * 100 > base * entry -> "hit"
       [] OTHER -> "miss"

Aggregate(k) ==
  LET labels == {LabelAt(k, h) : h \in Horizons}
  IN CASE "hit" \in labels -> "hit"
       [] "invalidated" \in labels -> "invalidated"
       [] "miss" \in labels -> "miss"
       [] "not_triggered" \in labels -> "not_triggered"
       [] OTHER -> "timeout"

HasScoredHorizon(k) == \E h \in Horizons : LabelAt(k, h) # "timeout"

Attribution(k) ==
  [key |-> k, result |-> Aggregate(k), main |-> LabelAt(k, Main),
   ends |-> Max(UNION {Bars(k, h) : h \in Horizons})]

-----------------------------------------------------------------------------
(* Reading the store *)

\* attribution_by_hypothesis: the files are sorted by their hashes, and the
\* last one of a hypothesis wins.
AttributionOf(k) ==
  CHOOSE a \in scored : /\ a.key = k
                        /\ \A b \in scored : b.key = k => IdOrder[b.result] <= IdOrder[a.result]

ScoredKeys == {k \in DOMAIN cases : \E a \in scored : a.key = k}

\* iter_similar_attributions: by model, regime and stance, of whatever day.
Similar(k) == {j \in ScoredKeys : RegimeOf[j[3]] = RegimeOf[k[3]] /\ StanceOf(j) = StanceOf(k)}

\* Mutant: a record for each file of an attribution.
Episoded_PerFile(cutoff) == {a \in scored : a.key \in DOMAIN cases /\ a.key[3] <= cutoff}

\* The scored cases of a model and a configuration up to a cutoff, one record
\* each.
Episoded(cutoff) == {AttributionOf(k) : k \in {j \in ScoredKeys : j[3] <= cutoff}}

Episodes(recs) == {cases[r.key] : r \in recs} \ {0}

Scope(cutoff) ==
  LET all == Episoded(cutoff)
      own == {r \in all : RegimeOf[r.key[3]] = RegimeOf[cutoff]}
  IN IF Cardinality(own) >= 3 THEN own ELSE all

\* The T+20 rates of the recommendation, hits below 45% or invalidations from 35%.
Tighten(recs) ==
  LET n == Cardinality(recs)
      Share(l) == 100 * Cardinality({r \in recs : r.main = l})
  IN n >= MinSamples /\ (Share("hit") < 45 * n \/ Share("invalidated") >= 35 * n)

Evidence(recs) == IF Episodes(recs) = {} THEN Cardinality(recs) ELSE Cardinality(Episodes(recs))

-----------------------------------------------------------------------------
ResearchInit ==
  /\ price \in Prices
  /\ today = 1
  /\ cases = <<>> /\ scored = {} /\ torn = {}
  /\ asker = NoJob /\ trainer = NoJob
  /\ answer = NoAnswer
  /\ cycleNo = 0 /\ lastOpt = 0 /\ change = NoPlan
  /\ begun = 0 /\ fails = 0

\* The repository receives another day.
NewDay ==
  /\ today < MaxDay
  /\ today' = today + 1
  /\ UNCHANGED <<price, cases, scored, torn, asker, trainer, answer, cycleNo, lastOpt, change, begun, fails>>

Readable == torn = {}

-----------------------------------------------------------------------------
(* A question about stock s as of day d *)

\* ask_stock up to the estimate; a torn file makes it raise, and the question
\* fails before anything is stored.
AskStock(s, d) ==
  /\ asker.pc = "idle"
  /\ begun < MaxCases
  /\ d <= today
  /\ LET k == Key("ask", s, d)
     IN IF Readable
        THEN /\ answer' = [asof |-> d, rests |-> {AttributionOf(j).ends : j \in Similar(k)}]
             /\ asker' = [NoJob EXCEPT !.pc = "case", !.key = k]
             /\ begun' = begun + 1
        ELSE UNCHANGED <<answer, asker, begun>>
  /\ UNCHANGED <<price, today, cases, scored, torn, trainer, cycleNo, lastOpt, change, fails>>

-----------------------------------------------------------------------------
(* The artifacts of a training cycle *)

\* A cycle has simulated day d and what was selected; each stock is estimated,
\* saved and scored in turn.
CycleSimulated(d, selected) ==
  /\ trainer.pc = "idle"
  /\ begun + Cardinality(selected) <= MaxCases
  /\ d < today
  /\ trainer' = [NoJob EXCEPT !.pc = "next", !.todo = selected, !.day = d]
  /\ cycleNo' = cycleNo + 1
  /\ begun' = begun + Cardinality(selected)
  /\ UNCHANGED <<price, today, cases, scored, torn, asker, answer, lastOpt, change, fails>>

\* The next stock: a torn file makes its estimate raise, and it is left out.
NextStock ==
  /\ trainer.pc = "next"
  /\ IF trainer.todo = {}
     THEN trainer' = [trainer EXCEPT !.pc = "feedback"]
     ELSE \E s \in trainer.todo :
            trainer' = [trainer EXCEPT !.todo = @ \ {s},
                                       !.pc = IF Readable THEN "case" ELSE "next",
                                       !.key = Key("train", s, trainer.day)]
  /\ UNCHANGED <<price, today, cases, scored, torn, asker, answer, cycleNo, lastOpt, change, begun, fails>>

\* What comes after the artifacts of a stock: the end of the question, or the
\* next stock of the cycle.
After(actor) == IF actor.key[1] = "ask" THEN NoJob ELSE [actor EXCEPT !.pc = "next"]

\* save_case: the file is opened, and then written.
OpenCase(actor, actor2) ==
  /\ actor.pc = "case"
  /\ torn' = torn \union {actor.key}
  /\ actor2 = [actor EXCEPT !.pc = "writing"]
  /\ UNCHANGED <<cases, scored, fails>>

EpisodeOf(actor) == IF actor.key[1] = "ask" THEN 0 ELSE cycleNo

WriteCase(actor, actor2) ==
  /\ actor.pc = "writing"
  /\ cases' = [k \in DOMAIN cases \union {actor.key} |->
                 IF k = actor.key THEN EpisodeOf(actor) ELSE cases[k]]
  /\ torn' = torn \ {actor.key}
  /\ actor2 = [actor EXCEPT !.pc = "score"]
  /\ UNCHANGED <<scored, fails>>

\* evaluate_case and save_attribution: nothing is saved while every horizon is
\* a timeout.  Saving again replaces the file of the same result only.
SaveAttribution(k) ==
  IF HasScoredHorizon(k)
  THEN {a \in scored : ~ (a.key = k /\ a.result = Aggregate(k))} \union {Attribution(k)}
  ELSE scored

ScoreCase(actor, actor2) ==
  /\ actor.pc = "score"
  /\ scored' = SaveAttribution(actor.key)
  /\ actor2 = After(actor)
  /\ UNCHANGED <<cases, torn, fails>>

\* The evaluation or the write of the attribution raises: the case stays.
ScoreRaises(actor, actor2) ==
  /\ actor.pc = "score"
  /\ fails < MaxFails
  /\ fails' = fails + 1
  /\ actor2 = After(actor)
  /\ UNCHANGED <<cases, scored, torn>>

Persist(actor, actor2) ==
  \/ OpenCase(actor, actor2)
  \/ WriteCase(actor, actor2)
  \/ ScoreCase(actor, actor2)
  \/ ScoreRaises(actor, actor2)

AskerStep ==
  /\ Persist(asker, asker')
  /\ UNCHANGED <<price, today, trainer, answer, cycleNo, lastOpt, change, begun>>

TrainerStep ==
  /\ Persist(trainer, trainer')
  /\ UNCHANGED <<price, today, asker, answer, cycleNo, lastOpt, change, begun>>

-----------------------------------------------------------------------------
(* The feedback of a cycle *)

\* load_research_feedback: what cannot be read is no feedback.
Feedback == IF Readable THEN Scope(trainer.day) ELSE {}

\* build_feedback_optimization_plan: the gate is active from MinEpisodes on;
\* its other checks (Brier score, intervals, the other horizons) may fail too.
Actionable(recs, others) ==
  /\ Evidence(recs) >= MinEpisodes
  /\ Tighten(recs) \/ others
  /\ lastOpt = 0 \/ cycleNo - lastOpt >= CooldownCycles

ApplyFeedback(others) ==
  /\ trainer.pc = "feedback"
  /\ IF Actionable(Feedback, others)
     THEN /\ change' = [cycle |-> cycleNo, cutoff |-> trainer.day, evidence |-> Evidence(Feedback)]
          /\ lastOpt' = cycleNo
     ELSE UNCHANGED <<change, lastOpt>>
  /\ trainer' = NoJob
  /\ UNCHANGED <<price, today, cases, scored, torn, asker, answer, cycleNo, begun, fails>>

ResearchNext ==
  \/ NewDay
  \/ \E s \in Watched, d \in 1..MaxDay : AskStock(s, d)
  \/ \E d \in 1..MaxDay, selected \in SUBSET Watched \ {{}} : CycleSimulated(d, selected)
  \/ NextStock
  \/ AskerStep
  \/ TrainerStep
  \/ \E others \in BOOLEAN : ApplyFeedback(others)

ResearchSpec == ResearchInit /\ [][ResearchNext]_researchVars

-----------------------------------------------------------------------------
(* Properties *)

\* The parameters are tightened on enough different evidence: behind a change
\* there are at least MinEpisodes different scored cases of days up to its
\* cutoff, however often a stock was asked about or a case was scored again.
ActsOnEvidence ==
  change.cycle # 0 =>
    LET past == {k \in ScoredKeys : k[3] <= change.cutoff}
    IN Cardinality(past) >= MinEpisodes

\* A question as of a day is answered by what was known that day, as
\* test_ask_stock_as_of_date_blocks_future_leak says of it.
NoFutureLeak == \A d \in answer.rests : d <= answer.asof
=============================================================================
