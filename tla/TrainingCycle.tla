---------------------------- MODULE TrainingCycle ----------------------------
(***************************************************************************)
(* SelfLearningController.run_training_cycle (app/train.py) and the        *)
(* services of app/training/ it runs one after the other: load the data,   *)
(* route to a model, open the runtime window, select, simulate, count the  *)
(* loss, review, build a candidate configuration from the proposals of the *)
(* cycle, record the result, refresh the effects of earlier proposals,     *)
(* close the window.  Stages may raise; `finally` closes the window.       *)
(*                                                                         *)
(* The cycle runs in one thread.  Another thread, a request that changes   *)
(* the configuration, may reset the controller between any two stages.     *)
(*                                                                         *)
(* A configuration is <<m, n>>: the model's name, and the cycle that built *)
(* its file, 0 for the file shipped with the model.  Parameters are named  *)
(* by the configuration they were loaded from.                             *)
(***************************************************************************)
EXTENDS Naturals, FiniteSets, Sequences, FiniteSetsExt

CONSTANTS
  Models,                \* the investment models
  MaxAttempts,           \* max_cycles of run_continuous; bound of a body's rounds
  MaxLosses,             \* max_losses_before_optimize
  MaxPending,            \* policy max_pending_cycles
  MaxPendingCandidates,  \* policy max_pending_candidates
  EffectWindow,          \* DEFAULT_EFFECT_WINDOW_CYCLES
  FreezeTotal            \* freeze_total_cycles

ASSUME CycleConstants ==
  /\ Models # {}
  /\ {MaxAttempts, MaxLosses, MaxPending, MaxPendingCandidates, EffectWindow, FreezeTotal}
       \subseteq Nat \ {0}

VARIABLES
  driver,      \* "continuous": run_continuous; "body": the rounds of InvestmentBodyService
  autoApply,   \* auto_apply_mutation
  pc,          \* the stage run_training_cycle has finished
  attempts,    \* total_cycle_attempts
  history,     \* cycle_history; the n-th cycle recorded has cycle_id n
  losses,      \* consecutive_losses
  active,      \* model_name and model_config_path
  params,      \* current_params
  locked,      \* current_cycle_runtime_locked
  start,       \* current_cycle_start_params, NoParams outside a window
  work,        \* locals of execute_loaded_cycle and the proposals of the cycle
  mishap        \* what exceptions and other threads did, see Fault

mode == <<driver, autoApply>>
runtime == <<active, params, locked, start>>
cycleVars == <<mode, pc, attempts, history, losses, runtime, work, mishap>>

Config   == Models \X (0 .. MaxAttempts)
Shipped(m) == <<m, 0>>
NoParams == <<>>

Stage    == {"active", "candidate", "override"}
Terminal == {"candidate_expired", "candidate_pruned", "candidate_applied"}
Status   == Terminal \cup {"candidate_pending", "active_only"}
Verdict  == {"none", "rejected", "deferred", "built", "applied"}

\* A recorded cycle; cand is the cycle that built its candidate, 0 if it has none
Cycle == [profit : BOOLEAN, cand : 0 .. MaxAttempts, stage : Stage, status : Status,
          effect : {"none", "pending", "done"}]

\* The cycle under way: its result, whether it has proposals, what became of them
Work  == [profit : BOOLEAN, queued : BOOLEAN, outcome : Verdict, overrides : BOOLEAN]
NoWork == [profit |-> FALSE, queued |-> FALSE, outcome |-> "none", overrides |-> FALSE]

\* stray: a loss or profit was counted of a cycle that was never recorded;
\* late: a recorded cycle raised before effects were refreshed;
\* reset: another thread changed the configuration inside a window
Fault == [stray : BOOLEAN, late : BOOLEAN, reset : BOOLEAN]

Cid == Len(history) + 1

---------------------------------------------------------------------------
(* Governance: pure functions of the history *)

\* latest_open_candidate_record: the latest cycle whose candidate is unresolved
Open == LET P == {i \in DOMAIN history : history[i].status = "candidate_pending"}
        IN  IF P = {} THEN 0 ELSE history[Max(P)].cand

CandidateCycles == {i \in DOMAIN history : history[i].stage = "candidate"}

\* The candidate cycles at the end of the history that are all about candidate c
LastRun(c) ==
  {i \in CandidateCycles : \A j \in CandidateCycles : j >= i => history[j].cand = c}

\* Mutant: the cycle under way is not counted
Age_WithoutThisCycle(c) == Cardinality(LastRun(c))

\* pending_candidate_age of candidate c in the cycle under way
Age(c) == Cardinality(LastRun(c)) + 1

\* pending_candidate_count
Distinct(c) == Cardinality({history[i].cand : i \in CandidateCycles} \cup {c})

\* The candidate of the cycle under way: the one built, or the one carried forward
CandidateOf(o) == IF o \in {"built", "applied"} THEN Cid ELSE Open

\* infer_deployment_stage
StageOf(o, overrides) ==
  CASE o = "applied" -> IF overrides THEN "override" ELSE "active"
    [] o # "applied" -> IF CandidateOf(o) # 0 THEN "candidate" ELSE "active"

\* evaluate_promotion_discipline as build_lineage_record writes it down; against:
\* the A/B comparison, the research feedback or a regime speaks against the candidate
StatusOf(o, against) ==
  LET c == CandidateOf(o) IN
  CASE o = "applied"                         -> "candidate_applied"
    [] o # "applied" /\ c = 0                -> "active_only"
    [] o # "applied" /\ c # 0                ->
         IF Age(c) > MaxPending THEN "candidate_expired"
         ELSE IF against \/ Distinct(c) > MaxPendingCandidates THEN "candidate_pruned"
         ELSE "candidate_pending"

\* Mutant: the window is one cycle longer than it says
Refreshed_Late(h) ==
  [i \in DOMAIN h |-> IF h[i].effect = "pending" /\ Len(h) > i + EffectWindow
                      THEN [h[i] EXCEPT !.effect = "done"] ELSE h[i]]

\* refresh_cycle_history_suggestion_effects
Refreshed(h) ==
  [i \in DOMAIN h |-> IF h[i].effect = "pending" /\ Len(h) >= i + EffectWindow
                      THEN [h[i] EXCEPT !.effect = "done"] ELSE h[i]]

---------------------------------------------------------------------------
CycleInit ==
  /\ driver \in {"continuous", "body"}
  /\ autoApply \in BOOLEAN
  /\ pc = "idle"
  /\ attempts = 0
  /\ history = <<>>
  /\ losses = 0
  /\ active \in {Shipped(m) : m \in Models}
  /\ params = active
  /\ locked = FALSE
  /\ start = NoParams
  /\ work = NoWork
  /\ mishap = [stray |-> FALSE, late |-> FALSE, reset |-> FALSE]

\* finalize_cycle_runtime_window: parameters changed in the window are rolled back
CloseWindow ==
  /\ locked' = FALSE
  /\ params' = IF locked THEN start ELSE params
  /\ start' = NoParams
  /\ work' = NoWork
  /\ UNCHANGED active

\* run_continuous or a round of the body begins a cycle
Attempt ==
  /\ pc = "idle" /\ attempts < MaxAttempts
  /\ pc' = "loading"
  /\ attempts' = attempts + 1
  /\ UNCHANGED <<mode, history, losses, runtime, work, mishap>>

\* No data: the cycle is skipped
NoData ==
  /\ pc = "loading"
  /\ pc' = "idle"
  /\ UNCHANGED <<mode, attempts, history, losses, runtime, work, mishap>>

\* Mutant: the old model's parameters are kept as overrides of the new one
Route_KeepsParams ==
  /\ pc = "loading"
  /\ pc' = "routed"
  /\ \/ \E m \in Models \ {active[1]} :
          /\ active' = Shipped(m)
          /\ mishap' = [mishap EXCEPT !.reset = FALSE]
     \/ UNCHANGED <<active, mishap>>
  /\ UNCHANGED <<mode, attempts, history, losses, params, locked, start, work>>

\* The data is there; the router, or the experiment's list of models, may switch models
Route ==
  /\ pc = "loading"
  /\ pc' = "routed"
  /\ \/ \E m \in Models \ {active[1]} :
          /\ active' = Shipped(m) /\ params' = Shipped(m)
          /\ mishap' = [mishap EXCEPT !.reset = FALSE]
     \/ UNCHANGED <<active, params, mishap>>
  /\ UNCHANGED <<mode, attempts, history, losses, locked, start, work>>

OpenWindow ==
  /\ pc = "routed"
  /\ pc' = "window"
  /\ locked' = TRUE
  /\ start' = params
  /\ UNCHANGED <<mode, attempts, history, losses, active, params, work, mishap>>

\* Mutant: an early return ahead of the `try`
Skip_LeavesWindow ==
  /\ pc = "window"
  /\ pc' = "idle"
  /\ work' = NoWork
  /\ UNCHANGED <<mode, attempts, history, losses, runtime, mishap>>

\* Nothing selected, or too few trading days after the cutoff: skipped
Skip ==
  /\ pc = "window"
  /\ pc' = "idle"
  /\ CloseWindow
  /\ UNCHANGED <<mode, attempts, history, losses, mishap>>

\* (mutant) a profit does not end the streak
CountedLosses_NeverCleared(profit) ==
  IF profit THEN losses ELSE IF losses + 1 >= MaxLosses THEN 0 ELSE losses + 1

\* The simulation ends with a profit or a loss; at MaxLosses losses in a row, and on
\* research feedback, the optimisers queue proposals, or raise and queue none
CountedLosses(profit) ==
  IF profit \/ losses + 1 >= MaxLosses THEN 0 ELSE losses + 1

Simulate ==
  /\ pc = "window"
  /\ pc' = "counted"
  /\ \E profit, queued \in BOOLEAN :
       /\ losses' = CountedLosses(profit)
       /\ work' = [work EXCEPT !.profit = profit, !.queued = queued]
  /\ UNCHANGED <<mode, attempts, history, runtime, mishap>>

\* The review may queue proposals of its own; the bundle of them all is written
Review ==
  /\ pc = "counted"
  /\ pc' = "reviewed"
  /\ \E queued \in {work.queued, TRUE} : work' = [work EXCEPT !.queued = queued]
  /\ UNCHANGED <<mode, attempts, history, losses, runtime, mishap>>

\* Mutant: a candidate is built although another is pending
OutcomesOf_IgnoresOpen(queued) ==
  CASE ~queued              -> {"none"}
    [] queued /\ autoApply  -> {"rejected", "applied"}
    [] queued /\ ~autoApply -> {"rejected", "built"}

\* build_cycle_candidate_from_proposals: what may become of the proposals
OutcomesOf(queued) ==
  CASE ~queued                          -> {"none"}
    [] queued /\ autoApply              -> {"rejected", "applied"}
    [] queued /\ ~autoApply /\ Open # 0 -> {"rejected", "deferred"}
    [] queued /\ ~autoApply /\ Open = 0 -> {"rejected", "built"}

\* A candidate taken over at once is loaded with current_params over its own: what
\* differs from the defaults there hides what the candidate changes
Build ==
  /\ pc = "reviewed"
  /\ pc' = "built"
  /\ \E o \in OutcomesOf(work.queued), overrides \in BOOLEAN :
       /\ work' = [work EXCEPT !.outcome = o, !.overrides = o = "applied" /\ overrides]
       /\ IF o = "applied"
          THEN /\ active' = <<active[1], Cid>>
               /\ params' \in {params, active'}
          ELSE UNCHANGED <<active, params>>
  /\ UNCHANGED <<mode, attempts, history, losses, locked, start, mishap>>

\* build_cycle_result; finalize_cycle appends the result
Record ==
  /\ pc = "built"
  /\ pc' = "recorded"
  /\ \E against \in BOOLEAN :
       history' = Append(history,
         [profit |-> work.profit,
          cand   |-> CandidateOf(work.outcome),
          stage  |-> StageOf(work.outcome, work.overrides),
          status |-> StatusOf(work.outcome, against),
          effect |-> IF work.outcome \in {"built", "applied"} THEN "pending" ELSE "none"])
  /\ mishap' = [mishap EXCEPT !.stray = @ /\ ~work.profit, !.late = TRUE]
  /\ UNCHANGED <<mode, attempts, losses, runtime, work>>

\* finalize_cycle refreshes the effects of every proposal adopted so far
Settle ==
  /\ pc = "recorded"
  /\ pc' = "settled"
  /\ history' = Refreshed(history)
  /\ mishap' = [mishap EXCEPT !.late = FALSE]
  /\ UNCHANGED <<mode, attempts, losses, runtime, work>>

\* The result is saved; `finally` closes the window
Finish ==
  /\ pc = "settled"
  /\ pc' = "idle"
  /\ CloseWindow
  /\ UNCHANGED <<mode, attempts, history, losses, mishap>>

\* What a stage that raises may leave of the streak: the optimisers report their own
\* error before the streak is reset, and the report may raise
LossesLeft == {losses} \cup (IF pc = "window" /\ losses + 1 >= MaxLosses THEN {losses + 1} ELSE {})

\* A stage raises.  The body goes on with its next round, run_continuous does not
Fail ==
  /\ pc \notin {"idle", "ended"}
  /\ pc' = IF driver = "body" THEN "idle" ELSE "ended"
  /\ CloseWindow
  /\ losses' \in LossesLeft
  /\ mishap' = [mishap EXCEPT !.stray = @ \/ losses' # losses
                                          \/ pc \in {"counted", "reviewed", "built"}]
  /\ UNCHANGED <<mode, attempts, history>>

\* evaluate_freeze_gate: every candidate or override there ever was stands in the way;
\* the rates it asks for besides are a choice
MayFreeze ==
  /\ Len(history) >= FreezeTotal
  /\ \A i \in DOMAIN history : history[i].stage = "active"

\* run_continuous stops: the model is frozen, or the attempts are used up
Freeze ==
  /\ driver = "continuous" /\ pc = "idle"
  /\ attempts < MaxAttempts /\ MayFreeze
  /\ pc' = "ended"
  /\ UNCHANGED <<mode, attempts, history, losses, runtime, work, mishap>>

Report ==
  /\ driver = "continuous" /\ pc = "idle" /\ attempts = MaxAttempts
  /\ pc' = "ended"
  /\ UNCHANGED <<mode, attempts, history, losses, runtime, work, mishap>>

\* refresh_runtime_from_config in another thread: m is the model configured
Refresh ==
  /\ \E m \in Models :
       /\ active' = Shipped(m)
       /\ params' = IF active = Shipped(m) THEN params ELSE Shipped(m)
       /\ mishap' = IF active = Shipped(m) THEN mishap ELSE [mishap EXCEPT !.reset = locked]
  /\ UNCHANGED <<mode, pc, attempts, history, losses, locked, start, work>>

CycleStep ==
  \/ NoData \/ Route \/ OpenWindow \/ Skip \/ Simulate \/ Review \/ Build
  \/ Record \/ Settle \/ Finish \/ Fail

CycleNext == CycleStep \/ Attempt \/ Freeze \/ Report \/ Refresh

\* A cycle is one call: the thread runs it to its end
CycleSpec == CycleInit /\ [][CycleNext]_cycleVars /\ WF_cycleVars(CycleStep)

---------------------------------------------------------------------------
(* Properties *)

\* Types
CycleTypeOK ==
  /\ driver \in {"continuous", "body"}
  /\ autoApply \in BOOLEAN
  /\ pc \in {"idle", "loading", "routed", "window", "counted", "reviewed", "built",
             "recorded", "settled", "ended"}
  /\ attempts \in 0 .. MaxAttempts
  /\ history \in Seq(Cycle) /\ Len(history) <= attempts
  /\ losses \in Nat
  /\ active \in Config /\ params \in Config
  /\ locked \in BOOLEAN
  /\ start \in IF locked THEN Config ELSE {NoParams}
  /\ work \in Work
  /\ mishap \in Fault

\* The parameters in force are those of the configuration in force: switching models
\* and rolling back a window never leave one model running on another's parameters
\* (as long as candidates wait for approval and no thread reset a window under way)
ParamsOfActive == ~autoApply /\ ~mishap.reset => params = active

\* The losing streak at the end of the history
LastLosses == {i \in DOMAIN history : \A j \in i .. Len(history) : ~history[j].profit}

\* Between cycles the losing streak that triggers optimisation is the one the history
\* shows, modulo its threshold, unless a cycle raised after it was counted
StreakMatchesHistory ==
  pc = "idle" /\ ~mishap.stray => losses = Cardinality(LastLosses) % MaxLosses

\* A pending candidate is neither forgotten nor superseded: the next cycle recorded has
\* the same candidate, whatever proposals, skips, failures or model switches came between
PendingIsCarried ==
  \A i \in 1 .. Len(history) - 1 :
    history[i].status = "candidate_pending" => history[i + 1].cand = history[i].cand

\* The policy max_pending_cycles: no candidate is pending in more cycles, in whatever
\* order it was carried forward, pruned, taken up again and expired
PendingIsBounded ==
  \A c \in 1 .. MaxAttempts :
    Cardinality({i \in DOMAIN history :
      history[i].cand = c /\ history[i].status = "candidate_pending"}) <= MaxPending

\* Between cycles an adopted proposal has its effect judged if and only if the window
\* of cycles after it is complete, unless the last cycle raised before the refresh
EffectsOnTime ==
  pc = "idle" /\ ~mishap.late =>
    \A i \in DOMAIN history : history[i].effect # "none" =>
      (history[i].effect = "done" <=> Len(history) >= i + EffectWindow)

\* A runtime window that was opened is closed, however the cycle ends
WindowCloses == locked ~> ~locked

\* tests/test_prephase1_validation.py: a candidate that expired (or was pruned) is
\* resolved.  No later cycle has it for its candidate.
ResolvedStaysResolved ==
  \A i, j \in DOMAIN history :
    i < j /\ history[i].status \in Terminal => history[j].cand # history[i].cand
                                                \/ history[j].cand = 0
=============================================================================
