-------------------------------- MODULE Tuning --------------------------------
(***************************************************************************)
(* What TrainingCycle leaves as a choice: how the proposals of a cycle     *)
(* become a candidate configuration, over several generations of files.    *)
(* The cycle opens its runtime window and lays the budget of the market's  *)
(* regime over the parameters, the optimisers and the review queue         *)
(* proposals, the gate measures each value against the parameters that     *)
(* were in effect and against the first ancestor of the file in force, and *)
(* the mutator writes what passed into a file of a new generation.         *)
(*                                                                         *)
(* A configuration file is a function from keys to integers.  A key is a   *)
(* parameter, a leaf of the scoring section or an agent's weight.          *)
(***************************************************************************)
EXTENDS Integers, Sequences, Functions

CONSTANTS
  ParamKeys,     \* params of a model configuration
  ScoreKeys,     \* leaves of its scoring section
  WeightKeys,    \* its agent_weights
  ShippedValues,   \* the values of the file shipped with the model
  Defaults,      \* COMMON_PARAM_DEFAULTS
  Protected,     \* policy protected_params
  Tightening,    \* policy allowed_safety_tightening_params
  Bounds,        \* <<lowest, highest>> of the parameters that are clamped
  Space,         \* the same of the keys in the file's mutation_space
  Budgets,       \* regime |-> the overlays its budget, with or without correction, may lay
  Patches,       \* kind |-> the patches that optimisers and reviews ask for
  StepLimit,     \* max_single_step_ratio_vs_baseline, in percent
  DriftLimit,    \* max_param_ratio_vs_baseline, in percent
  LossLimit,     \* max_losses_before_optimize
  EvolveAfter,   \* recorded cycles before the population evolves
  AutoApplies,   \* values of auto_apply_mutation
  MaxGates,      \* bound: cycles
  MaxProposals   \* bound: proposals of a cycle

Keys == ParamKeys \cup ScoreKeys \cup WeightKeys

\* A section of a file, or a patch of it
Section(f, keys) ==
  f = [k \in DOMAIN f |-> f[k]] /\ DOMAIN f \subseteq keys /\ \A k \in DOMAIN f : f[k] \in Int

\* The keys an overlay of some regime sets
Overlaid == UNION {DOMAIN overlay : overlay \in UNION {Budgets[r] : r \in DOMAIN Budgets}}

\* Sections of a file share no key, and the parts of the program that speak of one speak of
\* its keys.
ASSUME TuningConstants ==
  /\ Section(ShippedValues, Keys)
  /\ ParamKeys \cap (ScoreKeys \cup WeightKeys) = {}
  /\ Section(Defaults, ParamKeys)
  /\ DOMAIN Bounds \subseteq ParamKeys
  /\ \A k \in DOMAIN Bounds : Bounds[k][1] \in Int /\ Bounds[k][2] \in Int
  /\ \A k \in DOMAIN Space : Space[k][1] \in Int /\ Space[k][2] \in Int
  /\ \A r \in DOMAIN Budgets : \A f \in Budgets[r] : Section(f, ParamKeys)
  /\ \A f \in Patches["params"] : Section(f, Keys)
  /\ \A f \in Patches["scoring"] : Section(f, ScoreKeys)
  /\ \A f \in Patches["weights"] : Section(f, WeightKeys)
  /\ AutoApplies \subseteq BOOLEAN
  /\ {StepLimit, DriftLimit, LossLimit, EvolveAfter, MaxGates, MaxProposals} \subseteq Nat

\* The files in invest/models/configs lie in their own mutation space.
ASSUME ShippedInSpace ==
  \A k \in DOMAIN Space \cap DOMAIN ShippedValues :
    Space[k][1] <= ShippedValues[k] /\ ShippedValues[k] <= Space[k][2]

\* They have every parameter that a profitable cycle may tighten, and no budget sets one.
ASSUME TighteningShipped == Tightening \subseteq (ParamKeys \cap DOMAIN ShippedValues) \ Overlaid

VARIABLES
  autoApplied,  \* auto_apply_mutation
  files,        \* the generations of the file: its values, and the ancestor in its meta
  inForce,      \* model_config_path, a place in files
  current,      \* current_params
  phase,        \* the stage execute_loaded_cycle has finished
  opened,       \* current_cycle_start_params, NoParameters outside a window
  effective,    \* current_cycle_effective_runtime_params
  queue,        \* current_cycle_learning_proposals
  profitable,   \* is_profit of the cycle under way
  streak,       \* consecutive_losses
  recorded,     \* how many cycles cycle_history holds
  begun         \* how many were begun

model  == <<autoApplied, files, inForce, current>>
window == <<opened, effective>>
counts == <<recorded, begun>>
tuningVars == <<model, phase, window, queue, profitable, streak, counts>>

NoParameters == <<>>

\* dict(g).update(f)
Over(f, g) ==
  [k \in DOMAIN f \cup DOMAIN g |-> IF k \in DOMAIN f THEN f[k] ELSE g[k]]

ParamsIn(file) == [k \in ParamKeys \cap DOMAIN file |-> file[k]]
Abs(x) == IF x < 0 THEN -x ELSE x

---------------------------------------------------------------------------
(* The regime's budget and the sanitizer *)

Within(bounds, x) == IF x < bounds[1] THEN bounds[1] ELSE IF x > bounds[2] THEN bounds[2] ELSE x

\* sanitize_runtime_param_adjustments: known parameters only, clamped
Sanitized(patch) ==
  [k \in DOMAIN patch \cap DOMAIN Bounds |-> Within(Bounds[k], patch[k])]

\* build_regime_runtime_profile: the parameters with the regime's budget over them
Profile(params, overlay) ==
  Over([k \in DOMAIN overlay |->
          IF k \in DOMAIN Bounds THEN Within(Bounds[k], overlay[k]) ELSE overlay[k]], params)

\* sync_runtime_policy after a reload: what differs from the defaults counts as an
\* explicit override of the file's values
Reloaded(file, params) ==
  LET explicit == {k \in DOMAIN params : k \notin DOMAIN Defaults \/ params[k] # Defaults[k]}
  IN  Over(Restrict(params, explicit), Over(ParamsIn(file), Defaults))

---------------------------------------------------------------------------
(* evaluate_candidate_proposal_gate *)

\* Mutant: the parent is taken for the baseline
Baseline_Parent(gens, i) == gens[i].values

\* _resolve_baseline_config: the ancestor that the file's meta names, or itself
Baseline(gens, i) == gens[gens[i].ancestor].values

\* _change_ratio and _drift_ratio, as percentages of the baseline
Exceeds(distance, base, limit) == Abs(distance) * 100 > limit * Abs(base)

\* _evaluate_identity_drift: one step too long, or a drift that passes the limit or,
\* beyond it already, grows
Drifts(now, asked, base) ==
  \/ Exceeds(asked - now, base, StepLimit)
  \/ /\ Exceeds(asked - base, base, DriftLimit)
     /\ Exceeds(now - base, base, DriftLimit) => Abs(asked - base) > Abs(now - base)

\* Mutant: a parameter that a profitable cycle may tighten may also be set anew
AllowedOnProfit_ByName(kind, k, now, asked) == kind = "params" /\ k \in Tightening

\* A profitable cycle freezes everything except a tighter stop
AllowedOnProfit(kind, k, now, asked) ==
  /\ kind = "params" /\ k \in Tightening
  /\ k \in DOMAIN now /\ asked < now[k]

\* May value `asked` of key k pass?  now: the values in effect, with what passed before
Passes(kind, k, asked, now, base) ==
  LET protected == kind # "params" \/ k \in Protected
      held == IF k \in DOMAIN now THEN now[k] ELSE base[k]
      measured == k \in DOMAIN base /\ (kind = "params" => k \in DOMAIN now)
  IN  /\ profitable => AllowedOnProfit(kind, k, now, asked)
      /\ protected /\ measured => ~Drifts(held, asked, base[k])

\* One proposal after another: [effective values, what passed, who was refused something]
Judge(state, proposal, base) ==
  LET patch == proposal.patch
      ok == {k \in DOMAIN patch : Passes(proposal.kind, k, patch[k], state.now, base)}
      passed == Restrict(patch, ok)
  IN  [now |-> Over(passed, state.now), passed |-> Over(passed, state.passed),
       refused |-> state.refused \cup (DOMAIN patch \ ok)]

\* The values the gate starts from: the parameters of the execution snapshot, the
\* scoring and the weights of the file in force
InEffect == Over(effective, Restrict(files[inForce].values, DOMAIN files[inForce].values \ ParamKeys))

\* What was judged after n proposals
GateAfter[n \in 0 .. Len(queue)] ==
  IF n = 0 THEN [now |-> InEffect, passed |-> NoParameters, refused |-> {}]
           ELSE Judge(GateAfter[n - 1], queue[n], Baseline(files, inForce))

Gate == GateAfter[Len(queue)]

\* YamlConfigMutator.mutate: the file in force with what passed, clamped to its mutation
\* space, as a file of its own
Mutated(passed) ==
  [values |-> Over([k \in DOMAIN passed |->
                      IF k \in DOMAIN Space THEN Within(Space[k], passed[k]) ELSE passed[k]],
                   files[inForce].values),
   ancestor |-> files[inForce].ancestor]

---------------------------------------------------------------------------
TuningInit ==
  /\ autoApplied \in AutoApplies
  /\ files = <<[values |-> ShippedValues, ancestor |-> 1]>>
  /\ inForce = 1
  /\ current = Reloaded(ShippedValues, <<>>)
  /\ phase = "idle"
  /\ opened = NoParameters /\ effective = NoParameters
  /\ queue = <<>>
  /\ profitable = FALSE
  /\ streak = 0
  /\ recorded = 0
  /\ begun = 0

\* begin_cycle_runtime_window and apply_regime_runtime_profile
OpenWindowIn(regime) ==
  /\ phase = "idle" /\ begun < MaxGates
  /\ phase' = "open"
  /\ begun' = begun + 1
  /\ opened' = current
  /\ \E overlay \in Budgets[regime] : effective' = Profile(current, overlay)
  /\ UNCHANGED <<model, queue, profitable, streak, recorded>>

\* The simulation ends; the snapshot holds the effective parameters and the result
Simulated(profit) ==
  /\ phase = "open"
  /\ phase' = "simulated"
  /\ profitable' = profit
  /\ streak' = IF profit THEN 0 ELSE streak + 1
  /\ UNCHANGED <<model, window, queue, counts>>

Triggered == ~profitable /\ streak >= LossLimit

\* Proposals made of some of the patches, in the order of their kinds
Queued(some) ==
  /\ Len(queue) + Len(some) <= MaxProposals
  /\ queue' = queue \o some

\* record_learning_proposal of at most one patch of a kind, sanitized if of parameters;
\* without an adjustment there is no proposal
Asked(kind) ==
  {<<>>} \cup {<<[kind |-> kind, patch |-> IF kind = "params" THEN Sanitized(p) ELSE p]>> :
                 p \in Patches[kind]}

\* The research feedback's plan, after losses or by itself, or no plan
Feedback ==
  /\ phase = "simulated"
  /\ phase' = IF Triggered THEN "analysis" ELSE "review"
  /\ \E p \in Asked("params"), s \in Asked("scoring") : Queued(p \o s)
  /\ UNCHANGED <<model, window, profitable, streak, counts>>

\* The LLM explains the losses; scoring follows parameters
Analyse ==
  /\ phase = "analysis"
  /\ phase' = "evolution"
  /\ \E p \in Asked("params"), s \in Asked("scoring") :
       /\ p = <<>> => s = <<>>
       /\ Queued(p \o s)
  /\ UNCHANGED <<model, window, profitable, streak, counts>>

\* The population evolves once there is a history to judge it by
Evolve ==
  /\ phase = "evolution"
  /\ phase' = "review"
  /\ streak' = 0
  /\ \E p \in IF recorded >= EvolveAfter THEN Asked("params") ELSE {<<>>} : Queued(p)
  /\ UNCHANGED <<model, window, profitable, counts>>

\* An optimiser raises: the error is an event, what was queued stays queued
OptimiserRaises ==
  /\ phase \in {"simulated", "analysis", "evolution"}
  /\ phase' = "review"
  /\ streak' = IF Triggered THEN 0 ELSE streak
  /\ UNCHANGED <<model, window, queue, profitable, counts>>

\* apply_review_decision
ReviewDecision ==
  /\ phase = "review"
  /\ phase' = "reviewed"
  /\ \E p \in Asked("params"), w \in Asked("weights") : Queued(p \o w)
  /\ UNCHANGED <<model, window, profitable, streak, counts>>

\* build_cycle_candidate_from_proposals: a file of the next generation, taken over at once
\* if mutations are applied automatically
CandidateBuilt ==
  /\ phase = "reviewed" /\ Gate.passed # <<>>
  /\ phase' = "built"
  /\ files' = Append(files, Mutated(Gate.passed))
  /\ IF autoApplied
     THEN /\ inForce' = Len(files')
          /\ current' = Reloaded(files'[Len(files')].values, current)
     ELSE UNCHANGED <<inForce, current>>
  /\ UNCHANGED <<autoApplied, window, queue, profitable, streak, counts>>

\* No proposals, everything refused, or another candidate is pending (see TrainingCycle)
NoCandidate ==
  /\ phase = "reviewed"
  /\ Gate.passed = <<>> \/ (~autoApplied /\ Len(files) > 1)
  /\ phase' = "built"
  /\ UNCHANGED <<model, window, queue, profitable, streak, counts>>

\* finalize_cycle_runtime_window: what changed in the window is put back
CloseTuning ==
  /\ phase' = "idle"
  /\ current' = opened
  /\ opened' = NoParameters /\ effective' = NoParameters
  /\ queue' = <<>>
  /\ profitable' = FALSE

\* The result is recorded, `finally` closes the window
Recorded ==
  /\ phase = "built"
  /\ recorded' = recorded + 1
  /\ CloseTuning
  /\ UNCHANGED <<autoApplied, files, inForce, streak, begun>>

\* A stage raises, or nothing is selected: `finally` closes the window
Abandoned ==
  /\ phase # "idle"
  /\ CloseTuning
  /\ UNCHANGED <<autoApplied, files, inForce, streak, counts>>

\* sync_runtime_from_config between two cycles: a generation is configured as the
\* model's file; the parameters are cleared ahead of the reload
Adopt(i) ==
  /\ phase = "idle" /\ i # inForce
  /\ inForce' = i
  /\ current' = Reloaded(files[i].values, <<>>)
  /\ UNCHANGED <<autoApplied, files, phase, window, queue, profitable, streak, counts>>

TuningNext ==
  \/ \E regime \in DOMAIN Budgets : OpenWindowIn(regime)
  \/ \E profit \in BOOLEAN : Simulated(profit)
  \/ Feedback \/ Analyse \/ Evolve \/ OptimiserRaises \/ ReviewDecision
  \/ CandidateBuilt \/ NoCandidate \/ Recorded \/ Abandoned
  \/ \E i \in DOMAIN files : Adopt(i)

TuningSpec == TuningInit /\ [][TuningNext]_tuningVars

---------------------------------------------------------------------------
(* Properties *)

\* The protection of a strategy's identity: however many generations of candidates were
\* built one upon the other, in whatever market, no protected value that is measured has
\* drifted further from the shipped file than the limit - except those that a regime's
\* budget overlays
DriftBounded ==
  \A i \in DOMAIN files, k \in (Protected \cup ScoreKeys \cup WeightKeys) \cap DOMAIN ShippedValues :
    k \notin Overlaid => ~Exceeds(files[i].values[k] - ShippedValues[k], ShippedValues[k], DriftLimit)

\* tests/test_training_proposal_flow.py, test_candidate_builder_rejects_cumulative_identity_drift:
\* the same of every protected value.  It fails for those a budget overlays
IdentityKept ==
  \A i \in DOMAIN files, k \in Protected \cap DOMAIN ShippedValues :
    ~Exceeds(files[i].values[k] - ShippedValues[k], ShippedValues[k], DriftLimit)

\* A candidate built in a profitable cycle differs from the file it was made from by
\* tighter stops only (where candidates wait for approval: one applied at once leaves
\* other parameters in effect than those of its file)
ProfitOnlyTightens ==
  [][profitable /\ ~autoApplied /\ files' # files =>
       LET parent == files[inForce].values
           child  == files'[Len(files')].values
       IN  \A k \in DOMAIN child :
             \/ k \in DOMAIN parent /\ child[k] = parent[k]
             \/ k \in Tightening /\ k \in DOMAIN parent /\ child[k] < parent[k]]_tuningVars
=============================================================================
