----------------------------- MODULE Evidence -----------------------------
(***************************************************************************)
(* What is read from recorded training cycles: the freeze gate and the     *)
(* reports of app/training/reporting.py, the evaluation and the promotion  *)
(* gate of app/lab/evaluation.py, the summaries app/validation/ makes of   *)
(* the cycle files, and the regime rules of invest/shared/                 *)
(* model_governance.py.  Pure functions of a sequence of records.          *)
(*                                                                         *)
(* A record: id and date of the cycle, the regime as the routing decision  *)
(* (routed), the audit tags (tagged) and the snapshot (self) name it, ""   *)
(* for none; its return in percent, benchmark passed or not, Sharpe ratio  *)
(* in tenths, drawdown in percent; the research feedback; the number of    *)
(* proposals asked and approved and what became of them; the candidate (0  *)
(* for none), its deployment stage, lineage status, effect and A/B         *)
(* comparison; whether an overlay or a budget cut was in force.            *)
(* A rate or a mean is compared by cross multiplication, never divided.    *)
(***************************************************************************)
EXTENDS Integers, FiniteSets, Sequences, FiniteSetsExt, SequencesExt, Functions

CONSTANTS
  Window,       \* freeze_total_cycles
  Required,     \* freeze_profit_required
  MinFreeze,    \* episodes the freeze gate's feedback needs, 8
  MinPromote,   \* episodes the promotion gate's feedback needs, 5
  MinSamples    \* min_samples of the promotion gate

Profit(r) == r.ret > 0

CountOf(s, T(_)) == Cardinality({i \in DOMAIN s : T(s[i])})
TotalOf(s, F(_)) == SumFunction([i \in DOMAIN s |-> F(s[i])])
Returns(s)       == TotalOf(s, LAMBDA r : r.ret)
Benched(s)       == CountOf(s, LAMBDA r : r.bench)
Won(s)           == CountOf(s, Profit)
LastN(s, n)      == SubSeq(s, IF Len(s) > n THEN Len(s) - n + 1 ELSE 1, Len(s))

---------------------------------------------------------------------------
(* The regime of a cycle, as its readers find it *)

Named(names) == LET N == {i \in DOMAIN names : names[i] # ""}
                IN  IF N = {} THEN "unknown" ELSE names[Min(N)]

\* _cycle_regime, _record_regime, _record_regime_name
RegimeOf(r)     == Named(<<r.routed, r.tagged>>)
\* _result_regime of the lab, whose results have no snapshot to name a third
ResultRegime(r) == RegimeOf(r)
\* aggregate_cycle_metrics
FileRegime(r)   == Named(<<r.routed, r.self>>)

Regimes(s, Of(_)) == {Of(s[i]) : i \in DOMAIN s}
In(s, Of(_), g)   == {i \in DOMAIN s : Of(s[i]) = g}

\* ... and what is counted and added up of some of the cycles
CountAt(s, I, T(_)) == Cardinality({i \in I : T(s[i])})
TotalAt(s, I, F(_)) == SumFunction([i \in I |-> F(s[i])])

---------------------------------------------------------------------------
(* Reports of a run: app/training/reporting.py *)

\* build_promotion_record
GateStatus(r) ==
  CASE r.status \in {"candidate_expired", "candidate_pruned"} -> "rejected"
    [] r.status = "override_expired"                          -> "override_rejected"
    [] OTHER -> CASE r.stage = "override"           -> "override_pending"
                  [] r.stage # "override" /\ r.cand = 0 -> "not_applicable"
                  [] r.stage # "override" /\ r.cand # 0 ->
                       IF r.status = "candidate_applied" THEN "applied_to_active"
                       ELSE "awaiting_gate"

Unresolved(r) == r.stage = "candidate" \/ r.status = "candidate_pending"

\* build_governance_metrics; cycles without a result count in the total alone
GovernanceMetrics(s) ==
  [total    |-> Len(s),
   attempts |-> CountOf(s, LAMBDA r : r.cand # 0 \/ r.stage = "override"),
   awaiting |-> CountOf(s, LAMBDA r : GateStatus(r) = "awaiting_gate"),
   drift    |-> CountOf(s, LAMBDA r : r.cand # 0 /\ r.status # "candidate_applied"),
   pending  |-> CountOf(s, Unresolved),
   override |-> CountOf(s, LAMBDA r : r.stage = "override"),
   live     |-> CountOf(s, LAMBDA r : r.stage = "active"),
   rejected |-> CountOf(s, LAMBDA r : GateStatus(r) = "rejected")]

\* classify_no_proposal_reason; what a cycle without proposals comes to
NoProposalReason(r) ==
  IF r.asked > 0 THEN ""
  ELSE IF Profit(r) /\ r.bench THEN "observe_only_profitable_cycle" ELSE "review_observe_only"

\* build_proposal_gate_summary: a cycle with proposals has been through the gate
ProposalGateSummary(s) ==
  LET Asked == {i \in DOMAIN s : s[i].asked > 0} IN
  [gated     |-> Cardinality(Asked),
   quiet     |-> Len(s) - Cardinality(Asked),
   reasons   |-> [w \in {NoProposalReason(s[i]) : i \in DOMAIN s} \ {""} |->
                    CountOf(s, LAMBDA r : NoProposalReason(r) = w)],
   requested |-> TotalAt(s, Asked, LAMBDA r : r.asked),
   approved  |-> TotalAt(s, Asked, LAMBDA r : r.approved),
   blocked   |-> TotalAt(s, Asked, LAMBDA r : r.asked - r.approved),
   built     |-> CountAt(s, Asked, LAMBDA r : r.outcome = "built"),
   refused   |-> CountAt(s, Asked, LAMBDA r : r.outcome = "rejected"),
   deferred  |-> CountAt(s, Asked, LAMBDA r : r.outcome = "deferred")]

\* evaluate_proposal_effect on the return, of the proposals of the i-th cycle whose
\* window of w cycles is over
EffectOf(s, i, w) ==
  LET past == LastN(SubSeq(s, 1, i), w)
      seen == SubSeq(s, i + 1, IF i + w < Len(s) THEN i + w ELSE Len(s))
      lift == Returns(seen) * Len(past) - Returns(past) * Len(seen)
  IN  CASE seen = <<>>           -> "inconclusive"
        [] seen # <<>> /\ lift > 0 -> "improved"
        [] seen # <<>> /\ lift < 0 -> "worsened"
        [] seen # <<>> /\ lift = 0 -> "neutral"

Effects == {"improved", "worsened", "neutral", "inconclusive"}

\* apply_proposal_outcome, and the effect it leaves a suggestion with: the effect of
\* each proposal of cycle i, <<adoption, effect, how many>>
Tracked(s, i, w) ==
  LET r == s[i] IN
  {<<"rejected_by_proposal_gate", "not_applicable", r.asked - r.approved>>,
   <<IF r.outcome = "built" THEN "adopted_to_candidate" ELSE "deferred_pending_candidate",
     CASE r.outcome # "built"                        -> "pending_adoption"
       [] r.outcome = "built" /\ r.effect # "done" -> "pending"
       [] r.outcome = "built" /\ r.effect = "done" -> EffectOf(s, i, w),
     r.approved>>}

\* build_suggestion_adoption_summary
SuggestionSummary(s, w) ==
  LET Of(T(_)) == SumFunction([i \in DOMAIN s |->
                    SumFunction([t \in Tracked(s, i, w) |-> IF T(t) THEN t[3] ELSE 0])])
  IN [count     |-> TotalOf(s, LAMBDA r : r.asked),
      adopted   |-> Of(LAMBDA t : t[1] = "adopted_to_candidate"),
      deferred  |-> Of(LAMBDA t : t[1] = "deferred_pending_candidate"),
      rejected  |-> Of(LAMBDA t : t[1] = "rejected_by_proposal_gate"),
      pending   |-> Of(LAMBDA t : t[2] = "pending"),
      unadopted |-> Of(LAMBDA t : t[2] = "pending_adoption"),
      completed |-> Of(LAMBDA t : t[2] \in Effects)]

\* build_regime_failure_dashboard, the regimes that have cycles
FailureDashboard(s) ==
  [g \in Regimes(s, RegimeOf) |->
     LET b == In(s, RegimeOf, g) IN
     [total |-> Cardinality(b), wins |-> CountAt(s, b, Profit),
      losses |-> Cardinality(b) - CountAt(s, b, Profit),
      missed |-> Cardinality(b) - CountAt(s, b, LAMBDA r : r.bench),
      ret |-> TotalAt(s, b, LAMBDA r : r.ret),
      negative |-> TotalAt(s, b, LAMBDA r : IF r.ret < 0 THEN r.ret ELSE 0)]]

\* build_regime_discipline_dashboard
DisciplineDashboard(s) ==
  [g \in Regimes(s, RegimeOf) |->
     LET b == In(s, RegimeOf, g) IN
     [total |-> Cardinality(b), overlays |-> CountAt(s, b, LAMBDA r : r.overlay),
      cuts |-> CountAt(s, b, LAMBDA r : r.cut)]]

---------------------------------------------------------------------------
(* The freeze gate *)

\* evaluate_research_feedback_gate: too little feedback lets pass
FeedbackGate(f, min) == [active |-> f.episodes >= min, passed |-> f.episodes >= min => ~f.bad]

\* rolling_self_assessment looks at the last snapshots
RecentOf(snaps) == LastN(snaps, Window)

\* The rates of the window: win rate, return, Sharpe ratio, drawdown, benchmark
Performs(recent) ==
  LET n == Len(recent) IN
  /\ Won(recent) * Window >= Required * n
  /\ Returns(recent) > 0
  /\ TotalOf(recent, LAMBDA r : r.sharpe) >= 8 * n
  /\ TotalOf(recent, LAMBDA r : r.dd) < 15 * n
  /\ 10 * Benched(recent) >= 6 * n

\* Mutant: an open candidate does not stand in the way
Undisputed_Drift(s) == GovernanceMetrics(s).override = 0

\* The governance checks, over the whole history
Undisputed(s) ==
  LET g == GovernanceMetrics(s) IN g.drift = 0 /\ g.pending = 0 /\ g.override = 0

\* evaluate_freeze_gate, should_freeze
FreezeGate(s, snaps, feedback) ==
  LET ready == Len(s) >= Window /\ snaps # <<>> IN
  [ready  |-> ready,
   passed |-> /\ ready /\ Performs(RecentOf(snaps)) /\ Undisputed(s)
              /\ FeedbackGate(feedback, MinFreeze).passed]

\* What build_freeze_report and generate_training_report share
Sections(s, w) ==
  [governance  |-> GovernanceMetrics(s),  gates      |-> ProposalGateSummary(s),
   suggestions |-> SuggestionSummary(s, w), failures |-> FailureDashboard(s),
   discipline  |-> DisciplineDashboard(s)]

\* Mutant: a skipped cycle is counted when it is attempted and again as skipped
TrainingReport_Twice(tries, skipped, s, gate, w) ==
  LET attempted == Max({tries, Len(s)}) + skipped IN
  [status   |-> IF s = <<>> THEN "no_data" ELSE IF attempted > Len(s)
                THEN "completed_with_skips" ELSE "completed",
   attempted |-> attempted, successful |-> Len(s), skipped |-> attempted - Len(s),
   profits  |-> Won(s), losses |-> Len(s) - Won(s),
   frozen   |-> s # <<>> /\ gate.passed, sections |-> Sections(s, w)]

\* generate_training_report; frozen says that the gate is passed, not that the run froze
TrainingReport(tries, skipped, s, gate, w) ==
  LET attempted == Max({tries, Len(s) + skipped})
      missing   == Max({skipped, attempted - Len(s)})
  IN  [status   |-> IF s = <<>> THEN "no_data"
                    ELSE IF missing > 0 THEN "completed_with_skips" ELSE "completed",
       attempted |-> attempted, successful |-> Len(s), skipped |-> missing,
       profits  |-> Won(s), losses |-> Len(s) - Won(s),
       frozen   |-> s # <<>> /\ gate.passed, sections |-> Sections(s, w)]

---------------------------------------------------------------------------
(* The evaluation of a run: app/lab/evaluation.py.  ok is the sequence of its results *)

\* Twice the median
Median2(s) ==
  LET t == SortSeq([i \in DOMAIN s |-> s[i].ret], LAMBDA a, b : a < b)
      n == Len(t)
  IN  IF n % 2 = 1 THEN 2 * t[(n + 1) \div 2] ELSE t[n \div 2] + t[n \div 2 + 1]

\* build_return_profile, of the cycles in I
ReturnProfile(ok, I) ==
  [samples |-> Cardinality(I), total |-> TotalAt(ok, I, LAMBDA r : r.ret),
   up |-> CountAt(ok, I, Profit), down |-> CountAt(ok, I, LAMBDA r : r.ret < 0),
   flat |-> CountAt(ok, I, LAMBDA r : r.ret = 0)]

\* build_regime_validation_summary
RegimeValidation(ok) ==
  [g \in Regimes(ok, ResultRegime) |-> ReturnProfile(ok, In(ok, ResultRegime, g))]

\* evaluate_return_objectives under the default policy
MeetsReturns(ok) ==
  LET p == ReturnProfile(ok, DOMAIN ok) IN
  /\ p.total >= 0 /\ Median2(ok) >= 0
  /\ 2 * p.up >= p.samples /\ 2 * p.down <= p.samples /\ 2 * Benched(ok) >= p.samples

\* evaluate_regime_validation under the default policy
MeetsRegimes(ok) ==
  LET v == RegimeValidation(ok) IN
  /\ Cardinality(DOMAIN v) >= 2
  /\ \A g \in DOMAIN v :
       /\ 4 * v[g].samples <= 3 * Len(ok)
       /\ v[g].total >= 0 /\ 10 * v[g].up >= 4 * v[g].samples
       /\ 10 * CountAt(ok, In(ok, ResultRegime, g), LAMBDA r : r.bench) >= 4 * v[g].samples

\* _latest_ab_comparison, _latest_research_feedback: the latest by market date, then by
\* cycle, of the i in S; 0 for none
LatestOf(ok, S) ==
  IF S = {} THEN 0
  ELSE CHOOSE i \in S : \A j \in S : \/ ok[j].date < ok[i].date
                                     \/ ok[j].date = ok[i].date /\ j <= i

\* evaluate_candidate_ab
MeetsAB(ok) ==
  LET i == LatestOf(ok, {j \in DOMAIN ok : ok[j].ab # "none"}) IN i # 0 => ok[i].ab = "better"

\* The feedback check of the promotion gate: unlike the freeze gate it asks for feedback
MeetsFeedback(ok) ==
  LET i == LatestOf(ok, {j \in DOMAIN ok : ok[j].fb.episodes > 0})
  IN  i # 0 /\ LET g == FeedbackGate(ok[i].fb, MinPromote) IN g.active /\ g.passed

\* build_promotion_summary
Verdict(ok) ==
  IF ok = <<>> THEN "insufficient_data"
  ELSE IF /\ Len(ok) >= MinSamples /\ MeetsReturns(ok) /\ MeetsRegimes(ok)
          /\ MeetsAB(ok) /\ MeetsFeedback(ok)
       THEN "promoted" ELSE "rejected"

\* The results of cycles that ran, in their order
OkOf(results) ==
  LET ok[n \in 0 .. Len(results)] ==
        IF n = 0 THEN <<>>
        ELSE IF results[n].item = "ok" THEN Append(ok[n - 1], results[n]) ELSE ok[n - 1]
  IN  ok[Len(results)]

\* build_training_evaluation_summary
EvaluationSummary(results) ==
  LET ok == OkOf(results) IN
  [total |-> Len(results), success |-> Len(ok),
   no_data |-> CountOf(results, LAMBDA r : r.item = "no_data"),
   error   |-> CountOf(results, LAMBDA r : r.item = "error"),
   profile |-> ReturnProfile(ok, DOMAIN ok), regimes |-> RegimeValidation(ok),
   verdict |-> Verdict(ok), governance |-> GovernanceMetrics(results)]

\* build_training_memory_summary; the cycles are those of all results, recorded or not
MemorySummary(results) ==
  LET e == EvaluationSummary(results)
  IN  [success |-> e.success, skipped |-> e.no_data, error |-> e.error,
       cycles |-> [i \in DOMAIN results |-> results[i].id]]

\* _derive_run_status
RunStatus(results) ==
  LET e == EvaluationSummary(results) IN
  CASE e.total = 0                                 -> "empty"
    [] e.total > 0 /\ e.error = e.total            -> "failed"
    [] e.error > 0 /\ e.error < e.total            -> "partial_failure"
    [] e.error = 0 /\ e.total > 0 /\ e.success = 0 -> "insufficient_data"
    [] e.error = 0 /\ e.success > 0                ->
         IF e.no_data > 0 THEN "completed_with_skips" ELSE "completed"

---------------------------------------------------------------------------
(* The summaries of the files of a run: app/validation/ *)

\* aggregate_cycle_metrics: a file has no status, so every file is a completed cycle
FileMetrics(s) ==
  [cycles |-> Len(s), completed |-> Len(s), skipped |-> 0, profits |-> Won(s),
   total |-> Returns(s), median2 |-> IF s = <<>> THEN 0 ELSE Median2(s),
   regimes |-> [g \in Regimes(s, FileRegime) |-> ReturnProfile(s, In(s, FileRegime, g))]]

\* extract_latest_candidate, 0 if none was built
LatestCandidate(s) ==
  LET B == {i \in DOMAIN s : s[i].outcome = "built"} IN IF B = {} THEN 0 ELSE s[Max(B)].cand

Settled == {"candidate_applied", "candidate_pruned", "candidate_expired", "override_expired"}

\* build_candidate_resolution_summary: by candidate the last terminal status on its path
CandidateResolution(s) ==
  [c \in {s[i].cand : i \in DOMAIN s} \ {0} |->
     LET end == {i \in DOMAIN s : s[i].cand = c /\ s[i].status \in Settled}
     IN  IF end = {} THEN "candidate_pending" ELSE s[Max(end)].status]

\* build_normalized_validation_summary; the report is derived from the files when there is none
NormalizedSummary(s, w) ==
  [metrics |-> FileMetrics(s), focus |-> LatestCandidate(s), candidates |-> CandidateResolution(s),
   report  |-> TrainingReport(Len(s), 0, s, [passed |-> FALSE], w)]

\* summarize_regime_performance, _build_regime_performance_from_cycle_history
RegimePerformance(s) ==
  [g \in Regimes(s, RegimeOf) |->
     LET b == In(s, RegimeOf, g) IN
     [cycles |-> Cardinality(b), wins |-> CountAt(s, b, Profit),
      ret |-> TotalAt(s, b, LAMBDA r : r.ret), bench |-> CountAt(s, b, LAMBDA r : r.bench)]]

\* evaluate_regime_hard_fail under the default policy: the regimes that fail on average
\* return, benchmark and win rate at once
HardFails(s) ==
  LET p == RegimePerformance(s) IN
  {g \in DOMAIN p \cap {"bull", "bear"} :
     /\ p[g].cycles >= 2 /\ 2 * p[g].ret <= -p[g].cycles
     /\ 4 * p[g].bench <= p[g].cycles /\ 10 * p[g].wins <= 4 * p[g].cycles}

\* build_phase1_calibration_summary
CalibrationSummary(s, report) ==
  [completed   |-> Len(s), performance |-> RegimePerformance(s), failed |-> HardFails(s),
   overlays    |-> LET d == report.sections.discipline
                   IN  SumFunction([g \in DOMAIN d |-> d[g].overlays]),
   suggestions |-> report.sections.suggestions,
   briefs      |-> [i \in DOMAIN s |-> [id |-> s[i].id, date |-> s[i].date,
                                        regime |-> RegimeOf(s[i]), ret |-> s[i].ret]]]

\* run_candidate_ab_comparison: arms are [status, ret, bench, score]
ABComparison(active, candidate) ==
  IF active.status # "ok" \/ candidate.status # "ok" THEN "incomparable"
  ELSE IF /\ candidate.ret >= active.ret /\ candidate.score >= active.score
          /\ active.bench => candidate.bench
       THEN "better" ELSE "worse"
=============================================================================
