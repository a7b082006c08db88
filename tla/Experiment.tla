---------------------------- MODULE Experiment ----------------------------
(***************************************************************************)
(* A run of training cycles as an experiment: which market date and which  *)
(* sample of stocks each cycle is about (app/training/cycle_services.py),  *)
(* how the run is driven (train_main and run_continuous, the threshold     *)
(* calibration, the candidate validation with its follow-ups, the rounds   *)
(* of the lab), when it freezes, and what its reports say in the end.      *)
(*                                                                         *)
(* A cycle is one step from its cutoff date to its record; TrainingCycle   *)
(* has the stages in between.  The operators of that module decide here    *)
(* too what becomes of proposals and candidates.  Dates and seeds are      *)
(* numbers; seed n is the experiment's seed plus n, seed 0 no seed.        *)
(***************************************************************************)
EXTENDS Evidence

CONSTANTS
  Schemes,      \* the experiments, see Scheme
  Dates,        \* market dates, 1 .. n
  Targets,      \* target_regimes, a sequence
  RegimeCap,    \* min_regime_samples, 0 for none
  Arms,         \* what an arm of an A/B comparison may come to
  MinDraws, MaxDraws,       \* probes of the calibration's pre-selection
  MaxCycles,    \* the most cycles an experiment has
  Span,         \* the step of the rolling policy
  WindowOfEffect, PendingCycles, PendingCandidates

\* driver: "training", "calibration", "validation" or "lab"; mode: the cutoff policy,
\* "pinned" the sequence the pre-selection of a calibration makes; routed: model routing is
\* on; plan, spare: the dates of the sequence policy, which a validation always has, and of
\* its follow-ups; ends: what its cycles may come to
ASSUME ExperimentConstants ==
  /\ \A s \in Schemes :
       /\ s.driver \in {"training", "calibration", "validation", "lab"}
       /\ s.mode \in {"fixed", "random", "rolling", "sequence", "balanced", "pinned"}
       /\ s.mode = "pinned" => s.driver = "calibration"
       /\ s.driver = "validation" => s.mode = "sequence"
       /\ s.rounds \in 1 .. MaxCycles
       /\ s.plan \in Seq(Dates) /\ s.spare \in Seq(Dates)
       /\ s.driver = "validation" => ~s.routed
       /\ \A e \in s.ends : e.ret \in Int /\ e.asked \in Nat /\ e.blocked \in 0 .. e.asked
  /\ Targets \in Seq(STRING) /\ Targets # <<>> /\ Range(Targets) \cap {"", "unknown"} = {}
  /\ {MaxCycles, RegimeCap, MinDraws, MaxDraws, WindowOfEffect} \subseteq Nat
  /\ Window \in Nat \ {0} /\ Required \in 0 .. Window

VARIABLES
  scheme,     \* the experiment, never changed
  phase,      \* "probing", "idle", "chosen", "done", "frozen" or "failed"
  limit,      \* max_cycles of the run and of its follow-ups
  tries,      \* total_cycle_attempts
  skipped,    \* skipped_cycle_count
  record,     \* cycle_history
  judged,     \* assessment_history: the cycles it has a snapshot of
  files,      \* the cycle_<n>.json files as written
  results,    \* the lab's results
  probes,     \* _regime_probe_cache, <<date, regime>>
  sight,      \* <<date, seed, regime>>: what the data of a date and a sample show
  drawn,      \* pre-selection: <<draws made, dates seen>>
  pinned,     \* pre-selection: the <<date, seed>> matched; then those of the policy
  dates,      \* dates of the sequence policy
  spare,      \* followup_cutoff_dates not used yet
  focus,      \* focus_candidate_ref
  heard,      \* last_research_feedback
  now,        \* the cutoff of the cycle under way
  late        \* a cycle raised after its record was appended

choice == <<probes, sight, drawn, pinned, dates, spare, focus>>
experimentVars ==
  <<scheme, phase, limit, tries, skipped, record, judged, files, results, choice, heard, now, late>>

Gov == INSTANCE TrainingCycle WITH
  Models <- {"m"}, MaxAttempts <- MaxCycles, MaxLosses <- 1, FreezeTotal <- Window,
  MaxPending <- PendingCycles, MaxPendingCandidates <- PendingCandidates,
  EffectWindow <- WindowOfEffect,
  driver <- "continuous", autoApply <- FALSE, pc <- "idle", attempts <- tries, history <- record,
  losses <- 0, active <- <<"m", 0>>, params <- <<"m", 0>>, locked <- FALSE, start <- <<>>,
  work <- <<>>, mishap <- <<>>

Silence  == [episodes |-> 0, bad |-> FALSE]
NoCutoff == [date |-> 0, seed |-> 0, target |-> "", by |-> ""]

ExperimentInit ==
  /\ scheme \in Schemes
  /\ phase = IF scheme.mode = "pinned" THEN "probing" ELSE "idle"
  /\ limit = scheme.rounds
  /\ tries = 0 /\ skipped = 0 /\ focus = 0 /\ late = FALSE
  /\ record = <<>> /\ judged = <<>> /\ files = <<>> /\ results = <<>> /\ pinned = <<>>
  /\ probes = {} /\ sight = {} /\ drawn = <<0, {}>>
  /\ dates = scheme.plan /\ spare = scheme.spare
  /\ heard = Silence /\ now = NoCutoff

Snapshots == [i \in DOMAIN judged |-> record[judged[i]]]
Gate      == FreezeGate(record, Snapshots, heard)

\* The regimes the model may see in a date's sample: always the same one
RegimesAt(d, n) == LET known == {v \in sight : v[1] = d /\ v[2] = n}
                   IN  IF known = {} THEN Range(Targets) ELSE {v[3] : v \in known}

---------------------------------------------------------------------------
(* The pre-selection of _probe_target_regime_samples *)

Target == Targets[1]

\* By confidence, which the regime determines, then by date, and no two share a date; the
\* first of them count
Ranked(matched) ==
  LET n == IF Len(matched) < scheme.rounds THEN Len(matched) ELSE scheme.rounds IN
  {q \in [1 .. n -> Range(matched)] :
     /\ \A i, j \in 1 .. n : i < j => q[i][1] < q[j][1]
     /\ \A m \in Range(matched) \ Range(q), i \in 1 .. n : q[i][1] < m[1]}

\* One draw: date and sample are the seed's, the regime is the one the sample shows.  A
\* date seen before is passed over; enough matches end it, but only on a match
Draw ==
  /\ phase = "probing"
  /\ \E d \in Dates : \E g \in RegimesAt(d, drawn[1] + 1) :
       LET n     == drawn[1] + 1
           fresh == d \notin drawn[2]
           hit   == fresh /\ g = Target
           found == IF hit THEN Append(pinned, <<d, n>>) ELSE pinned
           over  == \/ n = MaxDraws
                    \/ hit /\ Len(found) >= scheme.rounds /\ n >= MinDraws
       IN  /\ drawn' = <<n, drawn[2] \cup {d}>>
           /\ sight' = IF fresh THEN sight \cup {<<d, n, g>>} ELSE sight
           /\ pinned' \in IF over THEN Ranked(found) ELSE {found}
           /\ phase' = CASE ~over -> "probing"
                         [] over /\ Len(found) < scheme.rounds -> "failed"
                         [] over /\ Len(found) >= scheme.rounds -> "idle"
           /\ dates' = IF phase' = "idle" THEN [i \in DOMAIN pinned' |-> pinned'[i][1]] ELSE dates
  /\ UNCHANGED <<scheme, limit, tries, skipped, record, judged, files, results, probes, spare,
                 focus, heard, now, late>>

---------------------------------------------------------------------------
(* The cutoff of a cycle *)

NextId == Len(record) + 1

\* Mutant: the index counts the attempts
Index_ByAttempt == IF tries + 1 < Len(dates) THEN tries + 1 ELSE Len(dates)

\* The place in the sequence: by the number of the cycle, held at the last date
Index == IF NextId < Len(dates) THEN NextId ELSE Len(dates)

\* Mutant: the seed of the cycle is kept
SeedOf_Experiment == IF scheme.seeded THEN NextId ELSE 0

\* prepare_cycle_context: a pinned sample comes before the seed of the experiment
SeedOf == IF scheme.mode = "pinned" THEN pinned[Index][2]
          ELSE IF scheme.seeded THEN NextId ELSE 0

\* _resolve_cutoff, all policies but the balanced one
DatesOf(mode) ==
  CASE mode = "fixed"                -> {Min(Dates)}
    [] mode \in {"sequence", "pinned"} -> {dates[Index]}
    [] mode = "rolling"              -> {Min({Min(Dates) + Span * (NextId - 1), Max(Dates)})}
    [] mode = "random"               -> Dates

\* _resolve_regime_coverage, before its cap
CoverageOf(s, g) == CountOf(s, LAMBDA r : RegimeOf(r) = g)

Capped(n)   == IF RegimeCap > 0 /\ n > RegimeCap THEN RegimeCap ELSE n
Covered(g)  == Capped(CoverageOf(record, g))
\* The least covered, the first listed of several
LeastCovered == LET i == Min({i \in DOMAIN Targets : \A j \in DOMAIN Targets :
                                Covered(Targets[i]) <= Covered(Targets[j])})
                IN  Targets[i]

\* _resolve_regime_balanced_cutoff: the dates sampled are probed, each once in the life of
\* the controller; a probe that raises stays "unknown".  Without a match the fallback
Balanced ==
  \E sampled \in SUBSET Dates \ {{}} :
    LET new == sampled \ {p[1] : p \in probes} IN
    \E seen \in [new -> Range(Targets) \cup {"unknown"}] :
      LET all     == probes \cup {<<d, seen[d]>> : d \in new}
          matches == {p[1] : p \in {q \in all : q[1] \in sampled /\ q[2] = LeastCovered}}
      IN  /\ probes' = all
          /\ IF matches # {}
             THEN \E d \in matches :
                    now' = [date |-> d, seed |-> SeedOf, target |-> LeastCovered, by |-> "match"]
             ELSE \E d \in Dates :
                    now' = [date |-> d, seed |-> SeedOf, target |-> LeastCovered, by |-> "fallback"]

\* run_continuous asks the freeze gate before each cycle; the lab's rounds do not
Begin ==
  /\ phase = "idle" /\ tries < limit
  /\ scheme.driver = "training" => ~Gate.passed
  /\ IF scheme.mode = "balanced" THEN Balanced
     ELSE /\ \E d \in DatesOf(scheme.mode) :
               now' = [date |-> d, seed |-> SeedOf, target |-> "", by |-> scheme.mode]
          /\ UNCHANGED probes
  /\ phase' = "chosen" /\ tries' = tries + 1
  /\ UNCHANGED <<scheme, limit, skipped, record, judged, files, results, sight, drawn, pinned,
                 dates, spare, focus, heard, late>>

---------------------------------------------------------------------------
(* The end of a cycle *)

\* What the lab is told of a round without a record: among the rest the number its cycle had
Blank(item, n) == [item |-> item, id |-> n, cand |-> 0, stage |-> "", status |-> "", outcome |-> "none"]
Reported(r) == results' = IF scheme.driver = "lab" THEN Append(results, r) ELSE results

\* The number in last_cycle_meta: a cycle writes it when its cutoff is chosen, so the round of
\* one that raises before is told under the number of the round before it
NumberTold == {NextId, IF results = <<>> THEN NextId ELSE Last(results).id}

\* No data, nothing selected, or too few days: the number of the cycle is used again
Skipped ==
  /\ phase = "chosen" /\ phase' = "idle" /\ now' = NoCutoff
  /\ skipped' = skipped + 1
  /\ Reported(Blank("no_data", NextId))
  /\ UNCHANGED <<scheme, limit, tries, record, judged, files, choice, heard, late>>

\* An exception ends run_continuous; the lab goes on with its next round
Halt == phase' = IF scheme.driver = "lab" THEN "idle" ELSE "failed"

Raised ==
  /\ phase = "chosen" /\ Halt /\ now' = NoCutoff
  /\ \E n \in NumberTold : Reported(Blank("error", n))
  /\ UNCHANGED <<scheme, limit, tries, skipped, record, judged, files, choice, heard, late>>

\* What speaks against the candidate of the cycle
Against(e, ab, overlap) ==
  \/ ab = "worse" /\ overlap
  \/ e.fb.bad /\ e.fb.episodes >= MinPromote
  \/ HardFails(record) # {}

\* The record of a cycle that comes to e in regime g, with the outcome o of its proposals and
\* the comparison ab of the candidate built
RecordOf(e, g, o, ab, overlap) ==
  [item |-> "ok", id |-> NextId, date |-> now.date, seed |-> now.seed, target |-> now.target,
   routed |-> IF scheme.routed THEN g ELSE "",
   tagged |-> IF scheme.driver = "validation" THEN "" ELSE g, self |-> g,
   ret |-> e.ret, bench |-> e.bench, sharpe |-> e.sharpe, dd |-> e.dd, fb |-> e.fb,
   asked |-> e.asked, approved |-> IF o = "rejected" THEN 0 ELSE e.asked - e.blocked,
   outcome |-> o, cand |-> Gov!CandidateOf(o), stage |-> Gov!StageOf(o, FALSE),
   status |-> Gov!StatusOf(o, Against(e, ab, overlap)),
   effect |-> IF o = "built" THEN "pending" ELSE "none", ab |-> ab,
   overlay |-> e.overlay, cut |-> e.cut]

Records(e, g) ==
  {RecordOf(e, g, o, IF o = "built" THEN ab ELSE "none", overlap) :
     o \in {v \in Gov!OutcomesOf(e.asked > 0) : v \in {"built", "deferred"} => e.blocked < e.asked},
     ab \in {ABComparison(a, b) : a, b \in Arms}, overlap \in BOOLEAN}

\* finalize_cycle from the record to the file.  after: what an exception lets through,
\* "append", "judge" or "save", the last of which is the whole
Ends(after) ==
  \E e \in scheme.ends : \E g \in RegimesAt(now.date, now.seed) : \E r \in Records(e, g) :
    LET kept == Gov!Refreshed(Append(record, r)) IN
    /\ record' = IF after = "append" THEN Append(record, r) ELSE kept
    /\ judged' = IF after = "append" THEN judged ELSE Append(judged, r.id)
    /\ files'  = IF after = "save" THEN Append(files, kept[r.id]) ELSE files
    /\ sight'  = IF now.seed = 0 THEN sight ELSE sight \cup {<<now.date, now.seed, g>>}
    /\ heard'  = IF e.fb = Silence THEN heard ELSE e.fb
    /\ Reported(IF after = "save" THEN kept[r.id] ELSE Blank("error", r.id))

Complete ==
  /\ phase = "chosen" /\ phase' = "idle" /\ now' = NoCutoff
  /\ Ends("save")
  /\ UNCHANGED <<scheme, limit, tries, skipped, probes, drawn, pinned, dates, spare, focus, late>>

\* Refreshing the effects, or writing the file, raises
RaisedLate ==
  /\ phase = "chosen" /\ scheme.fragile /\ Halt /\ now' = NoCutoff
  /\ \E after \in {"append", "judge"} : Ends(after)
  /\ late' = TRUE
  /\ UNCHANGED <<scheme, limit, tries, skipped, probes, drawn, pinned, dates, spare, focus>>

\* freeze_model
FreezeModel ==
  /\ phase = "idle" /\ tries < limit
  /\ scheme.driver = "training" /\ Gate.passed
  /\ phase' = "frozen"
  /\ UNCHANGED <<scheme, limit, tries, skipped, record, judged, files, results, choice, heard,
                 now, late>>

\* The cycles asked for are used up: the report; a validation looks for its candidate
Conclude ==
  /\ phase = "idle" /\ tries = limit
  /\ phase' = "done"
  /\ focus' = IF scheme.driver = "validation" /\ focus = 0 /\ spare = scheme.spare
              THEN LatestCandidate(files) ELSE focus
  /\ UNCHANGED <<scheme, limit, tries, skipped, record, judged, files, results, probes, sight,
                 drawn, pinned, dates, spare, heard, now, late>>

\* run_terminal_candidate_resolution_validation: one more cycle while the candidate is open
FollowUp ==
  /\ phase = "done" /\ spare # <<>> /\ focus # 0
  /\ CandidateResolution(files)[focus] \notin Settled
  /\ phase' = "idle" /\ limit' = limit + 1
  /\ dates' = Append(dates, Head(spare)) /\ spare' = Tail(spare)
  /\ UNCHANGED <<scheme, tries, skipped, record, judged, files, results, probes, sight, drawn,
                 pinned, focus, heard, now, late>>

ExperimentNext ==
  \/ Draw \/ Begin \/ Skipped \/ Raised \/ Complete \/ RaisedLate
  \/ FreezeModel \/ Conclude \/ FollowUp

ExperimentSpec == ExperimentInit /\ [][ExperimentNext]_experimentVars

---------------------------------------------------------------------------
(* Properties *)

\* A calibration on a target regime pins the dates and samples it probed: its n-th cycle is
\* about the n-th of them, and so in the regime probed, however many attempts were skipped
PinnedAsProbed ==
  scheme.mode = "pinned" => \A i \in DOMAIN record :
    /\ i \in DOMAIN pinned /\ <<record[i].date, record[i].seed>> = pinned[i]
    /\ record[i].self = Target

\* With a date for every cycle asked for, the n-th cycle recorded is about the n-th date of
\* the plan and its follow-ups
SequenceInOrder ==
  scheme.mode = "sequence" /\ scheme.rounds <= Len(scheme.plan) =>
    \A i \in DOMAIN record : i \in DOMAIN dates /\ record[i].date = dates[i]

\* Balanced sampling: as long as every cycle turned out in the regime its date was chosen
\* for, no target is ahead of another by more than one cycle
CoverageIsBalanced ==
  scheme.mode = "balanced" /\ (\A i \in DOMAIN record : RegimeOf(record[i]) = record[i].target)
    => \A g, h \in Range(Targets) :
         Capped(CountOf(record, LAMBDA r : r.self = g)) <= CountOf(record, LAMBDA r : r.self = h) + 1

\* The cycles of an experiment are about the dates, samples and regimes it planned for
\* (cycle_services.py:118-309, phase1_calibration.py:409-487)
RegimesAsPlanned == PinnedAsProbed /\ SequenceInOrder /\ CoverageIsBalanced

\* A run that froze has earned it: its last cycles, all of them judged, won often enough and
\* gained; no cycle of the run ever had a candidate, and the research feedback it heard last
\* is too little to count or does not warn (reporting.py:1216-1304)
FreezeIsEarned ==
  phase = "frozen" =>
    LET n == Len(record) IN
    /\ n >= Window /\ judged = [i \in 1 .. n |-> i]
    /\ Cardinality({i \in n - Window + 1 .. n : record[i].ret > 0}) >= Required
    /\ SumFunction([i \in 1 .. Window |-> record[n - Window + i].ret]) > 0
    /\ \A i \in 1 .. n : record[i].outcome # "built" /\ record[i].cand = 0
    /\ ~(heard.bad /\ heard.episodes >= MinFreeze)

OfBuckets(d, F(_)) == SumFunction([g \in DOMAIN d |-> F(d[g])])

\* Every suggestion has one adoption and one effect, and the proposal gate knows them all
SuggestionsAddUp(t) ==
  LET u == t.sections.suggestions
      p == t.sections.gates
  IN  /\ u.count = u.adopted + u.deferred + u.rejected
      /\ u.count = u.rejected + u.pending + u.unadopted + u.completed
      /\ p.requested = u.count /\ p.approved = u.adopted + u.deferred /\ p.blocked = u.rejected
      /\ p.gated + p.quiet = t.successful /\ p.built + p.refused + p.deferred = p.gated

\* The dashboards split the cycles of the report by regime
DashboardsAddUp(t) ==
  /\ OfBuckets(t.sections.failures, LAMBDA b : b.total) = t.successful
  /\ OfBuckets(t.sections.failures, LAMBDA b : b.wins) = t.profits
  /\ OfBuckets(t.sections.discipline, LAMBDA b : b.total) = t.successful

\* The files tell the same: cycles, profits, and of every candidate whether it was ever
\* settled, a settled one may be taken up again; only the effects they name may be those of
\* an earlier day
FilesAgree(t, v) ==
  LET settled == {c \in DOMAIN v.candidates : v.candidates[c] \in Settled}
  IN  /\ v.metrics.cycles = t.successful /\ v.metrics.profits = t.profits
      /\ v.report.sections.governance = t.sections.governance
      /\ Cardinality(DOMAIN v.candidates) = t.sections.gates.built
      /\ Cardinality(settled) <= t.sections.governance.rejected
      /\ DOMAIN v.candidates \ settled \subseteq {Gov!Open}
      /\ \A i \in DOMAIN files : files[i].effect # record[i].effect =>
           files[i].effect = "pending" /\ i + WindowOfEffect <= Len(record)

\* The cycles the lab remembers: one for each round, in order, and none that was recorded is
\* missing; a round without a record has the number of the cycle tried again, or tried before
InOrder(ids) ==
  /\ DOMAIN ids = 1 .. tries
  /\ 1 .. Len(record) \subseteq Range(ids) /\ Range(ids) \subseteq 1 .. Len(record) + 1
  /\ \A i, j \in DOMAIN ids : i <= j => ids[i] <= ids[j]

\* The lab's evaluation counts each round once, whatever came of it
LabAgrees(t, e) ==
  scheme.driver = "lab" =>
    /\ e.total = tries /\ e.success = t.successful /\ e.no_data = skipped
    /\ InOrder(MemorySummary(results).cycles)
    /\ RunStatus(results) = "completed" <=> t.status = "completed"
    /\ e.governance = [t.sections.governance EXCEPT !.total = tries]
    /\ e.verdict = "promoted" => Won(record) * 2 >= Len(record) /\ HardFails(record) = {}

\* The readers of the regime agree, but in a validation, where only the aggregate finds one
RegimesAgree(t) ==
  IF scheme.driver = "validation" THEN DOMAIN t.sections.failures \subseteq {"unknown"}
  ELSE /\ DOMAIN t.sections.failures = DOMAIN RegimePerformance(record)
       /\ \A g \in DOMAIN t.sections.failures :
            /\ t.sections.failures[g].total = CountOf(record, LAMBDA r : r.self = g)
            /\ FileMetrics(files).regimes[g].samples = t.sections.failures[g].total

\* The report t of a run says what happened, and everything else that is read of it the same
ReportIsTrue(t) ==
  /\ t.attempted = tries /\ t.successful = Len(record) /\ t.losses = t.successful - t.profits
  /\ scheme.driver # "lab" => t.skipped = skipped
  /\ SuggestionsAddUp(t) /\ DashboardsAddUp(t) /\ RegimesAgree(t)
  /\ FilesAgree(t, NormalizedSummary(files, WindowOfEffect))
  /\ LabAgrees(t, EvaluationSummary(results))
  /\ scheme.driver = "calibration" =>
       LET c == CalibrationSummary(record, t)
       IN  c.completed = t.successful /\ c.suggestions = SuggestionSummary(record, WindowOfEffect)

\* What a finished run is said to have done is the same in its training report, its
\* dashboards, the summaries of its files, the calibration's summary and the lab's evaluation
\* (reporting.py:233-1453, evaluation.py:402-655, prephase1.py:218-673)
ReportsAgree ==
  phase = "done" /\ ~late => ReportIsTrue(TrainingReport(tries, skipped, record, Gate, WindowOfEffect))
=============================================================================
