# TLA+ models of invest-evolution

The program trains and runs a "commander": a long-lived process that answers requests through an LLM,
runs training cycles of an investment model in worker threads, and is driven by a web server, a command
line, a file bridge and a cron service. This directory models the parts where several of these actors
meet: locks, shared state, queues, files, and what crashes and cancellations do to them. Every definition
is translated from the source; `PROJECT.json` maps it to the lines it stands for.

## Inventory

| Component (source) | State | Operations | Interacts with | What is hard | Correct when |
|---|---|---|---|---|---|
| Runtime instance lock (`app/commander_support/runtime_state.py`) | `commander.lock` | acquire, release | other processes, through the file | file operations interleave; crashes; pids reused | one runtime, and every start gets an answer |
| Training body (`app/investment_body_service.py`) | asyncio lock, `training_state`, `current_task`, four counters, `training.lock` | `run_cycles`, `autopilot_loop`, `stop` | called by requests and the autopilot; events to the runtime | cancellation of a coroutine that awaits a thread; an exception ahead of the `try` or in the `finally` | one run at a time, shown as such; the counters add up; the autopilot survives |
| Commander runtime (`app/commander.py`, `app/commander_support/*`) | `runtime_state`, `current_task`, `last_task`, `state.json`, `_started` | `start`, `stop`, `ask`, `execute_training_plan`, `reload_strategies`, restore | owns all the services below | operations overlap on the same fields; web threads; writes outside the handlers raise; restored snapshots | at rest when nothing is under way |
| Web event stream (`app/web_server.py`) | buffer, history, sequence number, condition | `_event_sink`, dispatcher, `/api/events` | training threads, HTTP clients | lazy start, full buffer, slow clients, wakeups | in order, once, no client left asleep |
| Chat request stream (`app/interfaces/web/routes/command.py`) | subscriptions and their queues, worker, generator | subscribe, publish, drain, unsubscribe | runtime events, `ask` | three threads, overflow, timeouts, clients that leave | what was queued is written before the answer |
| File bridge (`brain/bridge.py`) | inbox, outbox, batch | poll, handle, emit, quarantine | other programs' files; `ask` | half-written files, failing renames, stop in mid-batch | at most once, nothing lost without trace |
| Cron service (`brain/scheduler.py`) | jobs, store file | add, remove, run, save, load | web threads; `ask` | saves of several threads, crash or exception between the steps of one | no due run skipped, and none waits for ever while a loop runs |
| Heartbeat service (`brain/scheduler.py`) | a coroutine | tick | `ask` | cancelled by stop | as the users of the training body |
| Agent loop (`brain/runtime.py`, `brain/guardrails.py`, `brain/tools.py`) | sessions, messages of a loop | `process_direct`: explicit tool call, built-in intent, LLM loop | LLM; tools of the runtime, which patch the configuration, train or reload | requests of one session interleave; three ways to a tool; cancellation | nothing is changed with arguments the guardrails refuse; what the LLM is shown is a conversation |
| Training controller (`app/train.py`, `app/training/*`) | cycle history, attempts, consecutive losses, model and parameters in force, runtime window | `run_training_cycle`, `run_continuous`, `refresh_runtime_from_config` | data, selection, simulation, review, optimisation; the body's rounds; requests that change the configuration | a cycle that fails at one of its stages; a reset from another thread between two stages | parameters are those of the configuration; the losing streak is the one of the history; the window closes |
| Training governance (`app/freeze_gate.py`, `app/training/*`, `invest/shared/model_governance.py`) | none of its own: it reads the cycle history and the configuration files | proposals, their gate, candidate building, promotion, lineage, effects of proposals, freeze gate | controller | thresholds; many short steps; a candidate carried from cycle to cycle | a pending candidate is carried, and no longer than the policy says; effects are judged on time; drift is bounded |
| Simulator and risk (`invest/foundation/*`) | cash, positions, trades | a simulated day | controller | order of the stages of a day; money moved in parts | the account balances; stops are obeyed |
| Model routing (`invest/leaderboard`, `invest/allocator`, `invest/router`) | recorded cycles, the router's last switch | leaderboard, allocation, route | controller, which fails and restarts in between | thresholds and tie-breaks over three components | switches keep their distance and suit the market |
| Research cases (`invest/research`, `app/stock_analysis_services.py`) | files of cases and attributions | save, score, similar cases, feedback | questions and training, in two threads | one case is scored several times; torn files | training acts on enough distinct cases |
| Market data store (`market_data/*`) | SQLite tables, snapshots of summaries, a cache per process | synchronise, summarise, load for training | providers; training; web | several caches, one upon the other; a load is several transactions | summaries are fresh; training sees no future |
| Data download job (`app/commander_support/services.py`, `app/interfaces/web/routes/data.py`) | two flags | trigger | web threads | the flag is set in the thread | running is shown only while something runs |
| Configuration and control plane (`config/*`) | override file, public and local file, backups, live settings | patch, reload | web threads | read, merge, write without a lock; rollback of two files, which may fail as well | what was acknowledged is stored; what failed left nothing |
| Selection meeting (`invest/meetings/selection.py`, `invest/agents/*`, `app/training/selection_services.py`) | the model's output, results of the agents, debates, the plan | read the market, lay the budget over, ask the agents, debate, add up, cut | controller; LLMs in threads | agents finish in any order and say anything; the budget may change between two runs of the model | a plan is of the candidates, within the budget, and the same whichever thread was first |
| Review meeting and track record (`invest/meetings/review.py`, `app/training/review_*`, `invest/shared/tracking.py`) | predictions of the agents, the history of cycles | record, mark, reconcile, review, decide | controller, which skips, fails and tries again | attempts share the number of their cycle; the LLM's advice is unbounded | a record tells of the attempt that was recorded; advice is borne out by the history |
| Experiments: sampling, freezing, reports (`app/training/cycle_services.py`, `app/training/reporting.py`, `app/train.py`) | probes, the plan of dates, records, judgements, cycle files | draw samples, begin, complete, skip or fail a cycle, freeze, report | controller; files read by the lab and the validation | five policies of dates, retries, two numberings; a report is computed in five places | the samples are those planned, a freeze is earned, the reports agree |
| Training lab and validation (`app/validation/*`, `app/lab/*`) | files of finished runs | pre-selection, follow-ups, evaluation, promotion gate | experiments | a candidate is followed until it is settled | as the experiments |
| LLM gateway, stock analysis, task bus, rate limit, presentation | files, a window per client | | | mostly sequential | not modelled |

## Modules

| Module | Models | Abstraction |
|---|---|---|
| `InstanceLock` | what the instance lock promises | files and pids left out |
| `RuntimeLock` | `acquire_runtime_lock`, `release_runtime_lock` and what start and stop do around them | one step per file operation; a process is its pid |
| `RuntimeLockProofs` | theorems about it | |
| `TrainingBody` | `InvestmentBodyService` | one step per stretch between two awaits; a cycle has three outcomes |
| `Commander` | extends `TrainingBody` with `CommanderRuntime` | tasks by their type; the snapshot as what a restart reads |
| `CommanderProofs` | theorems about `TrainingBody`, and about `Commander` around it | |
| `WebEvents` | `/api/events` | one step per critical section, queue operation or yield |
| `RequestStream` | `/api/chat/stream` and the runtime's subscriptions | one packet key; a packet is its number and its text |
| `Bridge` | `BridgeHub`, `FileBridgeChannel` | a message is its file |
| `Cron` | `CronService` | ticks instead of milliseconds; a save is three steps |
| `ServiceProofs`, `StreamProofs` | theorems about `Bridge` and `Cron`, and about `RequestStream` and `WebEvents` | |
| `TrainingCycle` | `run_training_cycle`, `run_continuous` and the services of a cycle, with the governance of candidates | one step per stage; a configuration is the model and the cycle that built its file; what data, LLMs and numbers decide is a choice |
| `TrainingCycleProofs` | theorems about it, and about `Review`, `TrainingData`, `Tuning` and `Meeting` | |
| `Tuning` | what `TrainingCycle` leaves as a choice: optimisers, proposal gate, mutator | parameters are integers; a file is a function from keys to values |
| `TrainingData` | readiness, loads of training data, synchronisation beside them | a bar is a stock and a day; a rolling factor is known or not |
| `MarketData` | summaries of the store, their caches, the synchronisations that write it | a summary is its age and whether a table was written since |
| `Simulator` | `SimulatedTrader` with its risk policies | prices in integers; money in hundredths of their unit, so that fees are exact |
| `Routing` | leaderboard, allocator, router and the controller around them | integers in hundredths; one configuration per model |
| `Research` | the case store, its scoring and the feedback it gives | whole prices; Brier score and intervals are a choice |
| `ConfigStore` | the two configuration services | one step per file operation; a patch is valid |
| `Brain` | `process_direct`, guardrails, confirmation, sessions | a tool by who may keep it from changing something, arguments by what is wrong with them |
| `DecisionProofs`, `LearningProofs` | theorems about `ConfigStore`, `Brain` and `MarketData`, and about `Research`, `Routing` and `Simulator` | |
| `Meeting` | the selection stage: budget, agents, debates, votes, plan and cuts | what an agent or a judge says is a choice; scores in hundredths, weights in ten-thousandths |
| `Review` | the track record of the agents and the review meeting | what the LLM says is one of a set of sayings |
| `Evidence` | what is computed of finished cycles: freeze gate, A/B comparison, reports, summaries of files, lab evaluation | counts and sums of integers |
| `Experiment` | a run of cycles as an experiment, whichever of four drivers runs it; uses `Evidence`, and the governance operators of `TrainingCycle` | a cycle is one step from its date to its record |
| `ExperimentProofs` | theorems about it | |
| `MC_*` | TLC instances | |

`MC_Services` (lock, body, bridge, cron), `MC_Streams` (events, chat), `MC_Commander` (runtime, experiment), `MC_Decisions`
(trader, router, research, configuration, agent loop, summaries) and `MC_Training` (cycles, tuning, loads, selection meeting,
review) put several models that share no state into one instance. `part` says which of them runs in a behaviour; the
others stay in one of their initial states, in which none of their fair actions is enabled, so that a property of one model
holds in the sum just when it holds of that model alone, and the states of the sum are the sum of the states.

### How state and actions correspond to the code

*RuntimeLock.* `pc[p]` is the place of process `p` in `acquire_runtime_lock` (`open`, `read`, `probe`, `clear`,
`write`), in the start or the run of the runtime (`starting`, `running`), or in `release_runtime_lock`
(`reread`, `unlink`). `lockFile` is the file at the path: who made it and the pid in it. `Crash` may strike
anywhere; `Respawn` gives the pid to a new process. `SerialStart` says whether starts may overlap.

*TrainingBody.* `holder`, `state`, `task` and `lockFile` are `_lock`, `training_state`, `current_task` and
`training.lock`. A caller's `thread` is the worker thread it awaits. `Cancel` is CancelledError at that await:
`Close` is the `finally` clause, and a thread still at work becomes an `orphan`. `Closed` is what that clause makes of the
shared state; in `LastRoundRaises` the unlink of `training.lock` in it raises, after the state and ahead of the
event. `fault` remembers that `training_state` was left behind: by `_write_training_lock` raising ahead of the `try`,
or by a restored snapshot of a run.

*Commander.* `rstate`, `cur` and `disk` are `runtime_state`, the type of `current_task`, and `state.json`. A plan is
`PlanBegin`, the body's rounds and `PlanEnd`, or one of `PlanBusy`, `PlanRaises`, `PlanCancelled`; a plan may be run by a
tool of an ask (`askplan`). `ReloadBegin` to `ReloadSave` are the accesses of a Flask thread, which the event loop's steps
interleave. What the statements of a handler make of the three shared fields is a record that starts as `Now` and is
changed one statement after the other (`Marked`, `Started`, `Finished`, `Finalised`, `Failed`, `Done`); any of its writes - an event
row, the audit, a session message, an artifact, the snapshot - may raise, so that a handler ends with one of a *set* of records (`Torn` is one
that was cut short, `Cut` what `_complete_runtime_task` leaves), and `Become` takes one of them. `AskRaises` (`ask.py:111-129`), `PlanMarkRaises`
(`training.py:401-417`), `PlanRaises` and `PlanEnd` (with the writes of `finalize_training_execution` and of the `except` clause itself),
`StartRaises`, `StopRaises` and the reload's steps are the handlers with writes outside any `try`. `leftover` remembers
which field was left as it was by a cancellation, a failed reload, a crash or such a write, until the field is written
again. `MaxRaises` bounds the handlers of a behaviour in which a write raises.

*WebEvents.* `at[e]` is an emitting thread in `_event_sink`; `hands` has an element per dispatcher thread that was
ever started, with the event it took; `phase`, `last` and `pending` are a client's generator. `asleep` is a wait on
the condition that nothing has notified yet.

*RequestStream.* `pub` is the publication under way in the event loop: the subscriptions it has still to serve,
and where it is with a full queue. `worker` is the thread of `run_request`; `gen` is the generator: `stream` is its
first loop, `check` the test of `completed` after an empty poll, `drain` its second loop.

*Bridge.* `Poll` lists the inbox, `Take` and `Reject` read one file each, `Handle` and `Reply` are the two ends
of the await in `_handle`. `kept` remembers the files that could neither be unlinked nor moved.

*Cron.* `PassBegin`, `Look` and `JobEnds` are `_run_loop` and `_execute`; `Build`, `OpenStore`, `WriteStore` are
`_save`; `CronStart` is `start` with `_load`, and a store that cannot be read or decoded ends it before anything has changed.
`SaveFails` is a save that raises: in the loop it ends the loop, with `_running` still set (`scheduler.py:143` is outside the `try`); in a
web thread it ends the request.

*TrainingCycle.* `pc` is the stage that `run_training_cycle` has finished, `work` the locals of the cycle that later
stages read, `history` what `finalize_cycle` appended. `Attempt` is a driver beginning a cycle: `run_continuous`,
which ends with `Report`, `Freeze` or the first exception, or a round of the body, which goes on after one. `Fail` is
an exception out of any stage, with the `finally` clause; one out of the optimisers' own error report leaves the streak
counted and not yet reset (`LossesLeft`). `Age`, `Distinct`, `StageOf`, `StatusOf` and `Refreshed` are the
governance functions: `StatusOf` keeps the order of the tests in `evaluate_promotion_discipline` and
`build_lineage_record`, and its parameter `against` stands for the comparison of candidate and active model, the research
feedback and the regime. The statuses `override_pending` and `override_expired` are left out, because `candidate_applied` is tested
first and every override cycle has applied its candidate; so is the safety override of parameters, which nothing
calls. `Refresh` is the reset by another thread, taken as one step, as is routing. `fault` remembers what weakens
the properties: a loss counted of a cycle that was not recorded, a recorded cycle that raised before effects
were refreshed, a reset inside a window.

*InstanceLock.* `RuntimeLock` maps a process that is about to create, judge, clear or write a lock to `asking`, and one that
is starting up, running or about to unlink its own lock to `in`.

*Simulator.* `stage` is how far `step(date)` has come; `book` is the account with its positions, trades and `sales`.
`Sold`, `Bought`, `Reduced`, `ClosedAll`, `Tightened` are the operations of the trader, shared by the stages `CheckRisk`,
`CheckExits`, `ExecutePlan` and `Emergencies`, in the order in which `step` calls them. A loop over positions is `SoldInTurn`, the
one over the plan goes from item to item with `Carried`: each turn works on the book the one before left. Prices, rates and shares are
integers, as rounding has no part in the properties.

*Routing.* `archive` and what `Record` appends are the files of recorded cycles; `Board` is the leaderboard, `Ranked` and
`Weights` the allocation, `Route` a decision with its holds. `Readings` are the regimes and confidences it may read: the classifier is
called in mode `hybrid` whatever the router's mode (`engine.py:335`), so that an agent may raise the rule's confidence and never replaces its regime. `Abandon` is a cycle that fails after it was routed, `Restart`
a controller that forgets its last switch.

*Research.* `cases` and `scored` are the directories; `asker` and `trainer` the two threads, each with the case it is about
to write and the attributions it has still to compute; `torn` the files opened for writing and not yet written.

*ConfigStore.* A `request` of a thread goes through reading, merging, copying aside, writing, recording and, when a step raises,
putting the copies back; `file`, `copy` and `live` are what it works on. The rollback itself may raise (`CopyRaises`, `RestoreRaises`,
`CleanUpRaises`): a copy that cannot be taken back is unlinked all the same by the `finally` clause (`services.py:350-356`,
`control_plane.py:545-561`), and the settings of its file are lost; `stored` then no longer counts them, and the request ends as
`cleanspoilt`.

*Brain.* `req[r]` is where a request stands: idle, at the LLM, in a tool. `messages` are the messages of its loop, `session` the
history all requests of the session share, `changes` what tools changed. `Cancel` may strike at either await. A tool is `gated` (known to
the guardrails, and changes nothing without `confirm`: configuration patches, real training of several cycles), `direct` (known to them, and needs no
confirmation: plan creation and execution, prompts, evolution settings of minor keys, mock training), `free` (changes something and is not known to
them), `read` or `unknown`; the LLM may pass `confirm` itself. `Shown` is what the LLM is shown of the session, its last `Window` messages
(`runtime.py:281`): with an odd window it begins with a lone answer, and `COMMANDER_MEMORY_WINDOW=0` would show all of it
(`Window > 0` is assumed).

*MarketData.* `work` walks through the stages of a synchronisation, operation by operation (`StageOps`): the provider or the store is
asked, a table is written, once or for each stock, what was done is noted, the store is audited. A synchronisation is a refresh by the
server (`Refreshes`), a command line of `market_data.manager` in a process of its own (`CommandLines`) or what a training run derives
before it loads (`Derivatives`). A `query` walks through the lookups and stores of a summary. `raced` marks counts made while a table
was being written. The store may raise in a request at any stage (`SummaryAnswered`) and in a synchronisation at any operation
(`Fail`); when it does between the commit of a table and the invalidation, a transaction of its own (`FailHalf`), whatever
was summarised before is marked too, and so is what a process killed there would leave: then only the ages bound staleness.

*TrainingData.* `load.stage` is how far `load_stock_data` has come: readiness check, selection, bars, frames, or one of the fallbacks.

*Meeting.* `round` is how far the selection stage has come. `asked` is the regime of the last routing decision, `profile` the one
whose budget is in force, `packet` the model's output; `running` are the agents whose threads are at work, `arrived` their
results in the order of completion, `debated` the verdicts, `tplan` the plan. `Shown` is what an agent is shown of the
packet: the contrarian, which has no `analyze_context`, only what its pre-filter leaves, ordered by its own marks (`Mark`), and when that is
nothing it asks no LLM and picks nothing. `ModelRuns` and `MeetingBegins` lay the budget over
and run the model, again when its own reading asks for another budget; `AgentDone` is one agent's thread, `Debate` one judge's;
`PlanMade` adds the votes up, `PlanCut` is `_apply_regime_hard_filter`.

*Review.* `step` is how far an attempt at a cycle has come, `predictions` the tracker's list, `books` the history with the plan and
the trades of each cycle; `trade`, `result` and `advice` belong to the attempt under way. `RecordPredictions`, `MarkSelected` and
`RecordOutcomes` are the tracker's calls, `GiveUp` an attempt that is skipped or fails, `HoldReview` the meeting with its gate and
its decision, `RecordCycle` the end of the cycle.

*Experiment, Evidence.* `phase` is the state of the run, `record` the cycle history, `judged` the assessments, `files` the cycle files as they were
written, `results` what the lab collected. `Draw` is a probe of the calibration's pre-selection (`drawn`, `pinned`); `sight`
remembers what regime a date's sample has shown, since the same sample shows the same again. `Begin` asks the freeze
gate and takes the date of the cycle by the policy in force (`dates`, `probes`); `Skipped`, `Raised`, `Complete` and `RaisedLate`
are the ends of a cycle (the lab lists those without a record too, under the number their cycle had, or, raised before its cutoff was
chosen, under the number told last: `NumberTold`); `FreezeModel` and `Conclude` end the run, and `FollowUp` adds a cycle on a `spare` date
while the candidate in `focus` is not settled. `TrainingReport`, `NormalizedSummary`, `EvaluationSummary` and
`CalibrationSummary` are the reports, section by section.

*Tuning.* `files` are the configurations of the generations, `effective` the parameters in effect with the overlay of the
market; `Analyse`, `Evolve`, `Feedback` and `ReviewDecision` are the sources of proposals; `CandidateBuilt` is gate and mutator.

## Runs

| Run | Question | Bounds, and why they are enough |
|---|---|---|
| `services` | The lock: does it give one runtime when starts do not overlap, whatever crashes and reuses of pids come in between, and does it implement `InstanceLock`? The body: are lock, shown state, counters and autopilot right, and does every run end? The bridge: is every message handled once or accounted for? The cron service: is a due run ever skipped, or starved? | lock: 3 processes, 2 crashes: one holds, one has crashed, one starts. Body: 2 users and the autopilot, runs of up to 2 rounds, 4 in all: each caller can meet each other's run. Bridge: 3 messages, 1 failing file operation, any number of stops and crashes. Cron: 2 jobs, 2 ticks of each, a web thread beside the loop, any number of crashes |
| `streams` | Are events in order, without repetition, and does every client catch up? Does a chat client get what was published before the answer, and is its subscription given up? | 2 emitters, 2 clients, a queue and a history of 2: the queue overflows and the history drops events that a client has not read. Chat: 1 stream, a queue of 2, 2 texts: overflow, suppression, timeout, departure |
| `commander` | Is the runtime shown at rest when nothing is under way, and is what a plan reports its own run's? Experiments: are samples those planned, is a freeze earned, do all reports of one run agree? | runtime: 1 user, the autopilot, the reload thread, 1 restart, 1 handler whose writes raise, two stops that overlap: any two operations overlap. `OneAtATime` keeps a restart and a raising write apart, and nests the stops only around the first round and without the restart; a second round neither overlaps a reload nor follows either. With a second user, or a raising write beside a restart, the states exceed what a run can hold; the theorems speak of any number of each. Experiment: 2 to 4 cycles, 3 dates, 2 regimes, 4 draws, a freeze window of 2, by each driver and policy: cycles win, lose, propose, are refused, skip and fail; a date is met twice; a candidate is followed up |
| `decisions` | The account: does it balance, are stops obeyed? The router: do its switches keep their distance and suit the market? Research: is training moved by enough distinct cases? Configuration: is what was acknowledged stored, does what failed leave nothing? The agent loop: is nothing changed with arguments the guardrails refuse, and is what the LLM is shown a conversation? Summaries: are they fresh, is `running` true? | trader: 3 stocks, 2 positions, 4 days of quotes that fall, crash or rise. Router: 3 cycles on top of archives in which a model is, or is nearly, eligible. Research: 3 cases over 3 days. Configuration: one thread (overlap is `config_overlap`), 2 patches, 2 failing steps, the second in the rollback of the first. Loop: 2 requests, 2 iterations, 2 calls in a reply, an odd window of 3, a tool that asks for a confirmation and one that does not, the latter with arguments to be refused; a loop asks the LLM again while the other request waits for nothing (`Rounds`). Store: a page and a thread that synchronises; of the stages the daily bars and the dragon-tiger list (`Taken`), which have every kind of operation between them; command lines and training runs beside a server without a runtime (`Commands`); ages up to 6, one more than the oldest audit in memory may be |
| `training` | The controller: do model, parameters, streak, pending candidate and effects stay consistent over cycles that skip, fail, switch models or are reset, and does every window close? Tuning: is drift bounded, does a profitable cycle only tighten? Loads: does a cycle that is ready find its stocks, and no future in them? Meeting: is the plan the meeting's, and funded? Review: is the record true, is advice earned? | cycles: 2 models, 4 attempts, 2 cycles pending, 1 pending candidate, an effect window of 2: a candidate can be built, carried and expire, or be pruned at once and followed by another, and an effect can come due with a cycle to spare. Tuning: 2 gates of 2 proposals, two markets. Loads: 2 stocks, 3 days, reports late and without a date. Meeting: 3 candidates, one packet in which the contrarian is shown none of them, a roster of two or three agents, replies that are good, malformed, strange or missing. Review: 3 attempts, skipped, failed or recorded, and sayings in and out of bounds |
| `runtime_lock_race` | One runtime when starts overlap? **Violated.** | 2 processes, 1 crash |
| `training_cancelled` | Is training serial within a process? **Violated** by a cancellation. | 1 user and the autopilot |
| `candidate_reopened` | Is a candidate that expired resolved for good? **Violated.** | as `training` |
| `simulator_t1` | Is what was bought on a day kept over that day? **Violated.** | as `decisions` |
| `research_leak` | Does an answer about an earlier day rest on earlier days only? **Violated.** | 4 cases |
| `config_overlap` | Is an acknowledged patch stored when requests overlap? **Violated.** | 2 threads, 2 patches |
| `tuning_overlay` | Does a candidate keep protected parameters within their drift from the baseline? **Violated** where the market's overlay exceeds it. | as `training` |

`CHECK_DEADLOCK FALSE` is set where the system really stops: when its bounded input is used up, when it was stopped, or
when no client is left and no event is to come. The race of the lock checks for deadlock: a process can always go on.

### Fairness

* RuntimeLock: the steps of acquire and release, which never wait for anything (`LockFairness`).
* TrainingBody: the event loop resumes a coroutine whose thread has ended; a training cycle ends (its calls have
  timeouts). A user's lock write is not assumed to fail or succeed, and the cancellation of users is not assumed (`BodyFairness`).
* WebEvents, RequestStream: threads run, and a client that stays reads. No coroutine is assumed to end in
  `RequestStream`: the worker's 600 s timeout is what ends the wait. The keepalive's timeout is not used to prove
  that clients catch up in `WebEvents` (`WebFairness`, `StreamFairness`).
* Bridge, Cron: the event loop runs and the handler of a message or job returns or raises; the two go through `ask`,
  whose LLM calls time out (`BridgeFairness`, `CronFairness`).
* TrainingCycle: a cycle, once begun, goes on: it is one call in one thread, and its stages return or raise. No driver is
  assumed to begin another cycle.
* The parts of `decisions`, and `Commander`, `Experiment`, `Tuning`, `TrainingData`, `Meeting` and `Review`, state no fairness: nothing is claimed
  to happen eventually there. What their runs check are invariants and one action property.

## Proofs

`RuntimeLockProofs` proves, for any set of pids and any number of crashes, `TypeCorrect`, and under
`SerialStart \/ MaxCrash = 0` the theorems `HolderKeepsFile` and `OneRuntime`. `SingleInstance` is not inductive: a process
that holds the runtime says nothing of one that is about to unlink a stale lock. The strengthening says whose file is at
the path for every place in the code: a writer's and a holder's file is its own, a process about to clear a lock
has seen the payload of a dead process which is still there, and at most one process acquires at a time, or
nothing ever dies. The race of `runtime_lock_race` is a state outside it: two processes in `clear`. `ImplementsLock`
proves that `RuntimeLock` implements the safety part of `InstanceLock` from the same invariant: every step is an `Ask`, a `Grant`, a
`Refuse`, a `Leave` or a stutter of the abstract lock. That an answer comes (the liveness part) is model-checked, as
`ImplementsInstanceLock` of the run `services`.

`CommanderProofs` proves `BodyTypeOK`, `RunShown`, `CountersAddUp` and `AutopilotSurvives` of the training body for any processes, users
and bounds. `RunShown` is inductive with the types. `CountersAddUp` needs it, because a round is counted in the total
when the lock is taken and in a result when it is given up. The proofs go through the actions one by one; the
arithmetic of the counters is in lemmas of its own, since the counters are records in a function. It then proves of the
runtime `PlanIsTheRun` and `QuietIsShown`, and that what was proved of the body holds within it (`BodySurvivesRuntime`), where the
autopilot is cancelled, counters are restored and plans wait. `QuietIsShown` speaks of quiet states only; `CommanderInv`
says for the others who is responsible for what is shown: for each value of `current_task` and `runtime_state`, an operation that
will end it is under way, or it is among those left behind (`TaskAccounted`, `StateAccounted`); and a snapshot on disk is
one the body can start from (`SnapshotOK`). A handler in which a write raises is no exception: each of the records it may end with leaves what it
has not put back in `leftover`, and an operation under way never relies on it. So the theorem says more than that writes were left out: with
nothing under way, a task that is shown was left by one of the named steps, and by no other, for any number of raising writes.

`ServiceProofs` proves `HandledOnce` for any messages, failing file operations, stops and crashes. `BridgeInv` says
that a message in the batch, or not yet sent, has not been handled unless its file could not be removed (`Once`), that
every sent message is somewhere (`Accounted`), and counts replies against handlings while no operation has failed (`Answered`).
`NoRunSkipped` is proved for any jobs and any number of threads that save: nothing that is kept, in memory, in a save under
way or in the file, counts more ticks of a job than its finished runs have served (`CronInv`); a crash or a failing save may then leave any of them.

`StreamProofs` proves `StoryIsTold` for any number of streams, texts and packets, and any queue. `ChatInv` relates a stream's queue,
what its generator wrote and what the publication under way has still to do: `Packets` says that written and queued are
in order and end in the packet recorded last. `EventsKeepOrder` is proved for any emitters, clients, buffer and history: `WebInv` says that
at most one dispatcher is alive, that the numbers of the history are consecutive, that the event in the dispatcher's hand is
between history and buffer (`Numbered`, `Supplied`), and of each client that what it has pending lies beyond what it has sent (`Reader`).

`DecisionProofs` proves `AcknowledgedIsStored` and `FailedLeavesFiles` of the configuration files under the hypothesis `~Overlap`, that
patches do not overlap; `config_overlap` shows a violation without it. `ConfigInv` says for each place in a request which files
hold the old, which the new contents and which have a copy aside, so that a failure in any step can be undone, and what a rollback that fails
may lose is no longer counted as stored. It proves
`CallsAreSound` of the agent loop for any requests, tool calls and windows: `BrainInv` ties the messages of each request to its place in the
loop, and says that the session is made of questions, each beside its answer; from which follows the form of any window of it, the odd
ones with a lone answer at their head. That nothing was changed with refused arguments is a statement about the three ways to a tool: on the two that ask
the guardrails it follows from where they ask, on the third from the tools that way can reach. And it proves `StoreIsShown` of the store's summaries,
for any threads, whoever starts their synchronisations and whatever stages those consist of:
`MarketInv` bounds the age of each cached summary by the age of what it was computed from (`Ages`) and says who will invalidate one
that a write has overtaken, unless the invalidation raised (`Notice`); the flags follow the threads (`Threaded`).

`LearningProofs` proves `ActsOnEvidence` for any cases, horizons and days: a cycle that training acts on has enough distinct cases
scored by its date (`ResearchInv`), because a case stays a case and a scored one stays scored, and what a later scoring replaces is the same case's
(`ScoredForGood`); the counting rests on the cardinality of images of finite sets. And it proves `SwitchesAreSound`, an action property, from the type
invariant and what the router remembers of its last switch (`RoutingInv`).

It proves `AccountsBalance` and `StopsBind` of `Simulator`, and its type invariant, for any plans, prices, lots, fees, policies and number of days.
Of one sale and one purchase it is arithmetic: a sale moves its share of the cost from the positions to the pnl (`CostIsShared`, `EvenAfterSale`), a
purchase cut to the cash pays the commission of the uncut one (`OrderFits`, `EvenAfterPurchase`). The stages pass over the positions
and the plan; what a single turn keeps, a pass keeps by induction over the turns (`InductionUpTo`, `RecursionKeeps`). What makes it
inductive is to say, of the book between two turns, that the positions still to come are untouched and the others are what their turn left of
them (`Turned`), and that no stock has two positions (`Distinct`), or a sale would take another position than the one meant. The sum of a
sequence changes by one element as its elements do (`TotalChanged`, `TotalWithout`). `TraderInv` holds `StopsBind` from the check of the
exits to the end of the day only: the next day's prices undo it, and the exits restore it. Purchases cannot, because what was bought on the day is not
held yet; emergencies cannot, because they sell, or move a stop to 98 % of the price (`Follows`).

`ExperimentProofs` proves `RegimesAsPlanned`, `FreezeIsEarned` and `ReportsAgree` for any schemes, dates, targets, arms and bounds. `ExperimentInv` says of each record that it is
one the cycle's end can have made (`Counted`, field by field: only the effect of a record changes later), that a sample shows one
regime (`Sights`), where pinned samples and dates come from (`Pins`, `Dated`), that a balanced cycle aims at the least covered
target (`Aimed`), and, as long as nothing was raised late, that every record was judged (`Judged`). That balanced sampling keeps
the targets within one of each other is an argument on counts: only the least covered one is raised. `FreezeIsEarned` goes from the gate's
sums over the last records to the history, through a bijection of indices.

`ReportsAgree` rests on what is told of a run, `ReportInv`: that every record is one of its cycle, with the candidate it built or the one
left open, which is settled when it is open no more (`Tale`); that an attempt is recorded, skipped or under way (`Tally`); that the
files are the records but for an effect that came due since (`Filed`), and the lab's results the records among what came of the other rounds
(`Listed`, through an injection that keeps the fields: `Carried`), told under numbers in order (`Numbered`). That the reports follow from it is the conservation of counts. A sum
over a finite set is a function on its parts; that it exists and does not depend on the order is shown once (`SumsExist`,
`SumsAgree`), by induction with what is to be shown as a set of numbers (`FromZero`), since the library's induction takes an operator. Then a sum of sums
may be taken in any order (`SumOfSums`), buckets add up to the whole (`BucketsAddUp`), and a count of a history is that of a list which carries it
(`CarriedCount`, `GovernanceCarried`). Which candidate is open after a step follows from the last pending record (`OpenNext`); a promoted run
of the lab has won often enough because its verdict is reached from the records among its results (`PromotedHasWon`).

`TrainingCycleProofs` proves `CycleTypeOK`, `ParamsOfActive` and `PendingIsCarried` for any models, policies and number of
attempts, from one inductive invariant, `CycleInv`. `ParamsOfActive` needs that the parameters saved when the window
opened are those of the configuration too, and that no window is open while the router switches models
(`ParamsInv`, `Place`). `PendingIsCarried` needs what became of the proposals of the cycle under way: when a
candidate has just been built none is open, and none is pending where candidates are applied at once (`PendingInv`).
That the open candidate is the one at the end of the history rests on the maximum of a bounded set, `MaxExists`, from
the well-foundedness of the naturals.

Of the other three, `StreakMatchesHistory` says what the counter is at each place of a cycle: the losses since the last profit, modulo the threshold, with or without
the cycle under way (`StreakInv`); `PendingIsBounded` that from a cycle that leaves its candidate pending on every cycle is about that candidate (`PendingRun`), so
that its pending cycles are counted by its age; `EffectsOnTime` that an effect is still pending only before its window is over, or one cycle late
after a cycle that raised between its record and the refresh.

The same module proves `RecordIsTrue` and `AdviceIsEarned` of `Review` for any slates, fills, outcomes and sayings. `ReviewInv` says that every
recorded cycle is of a different attempt, and of the predictions of the attempt under way what their cycle, plan and trades make of
them (`Attempted`, `Traced`); since marks and outcomes go to predictions of the cycle's number only, those of a recorded cycle stay as they were (`Kept`).
`AdviceIsEarned` holds after one step, the meeting's: what passes the gate after a loss has a strict match of the history behind it
(`SimilarIsLike`), and what is clamped or weighed is a number whoever decided (`DecidedIsNumbers`), also where the accuracy of an agent is divided out.

It proves `LoadsAreSound` of `TrainingData` for any stocks, days, limits and reports. `DataInv` says that the store has no holes
(`Prefixed`: a synchronisation writes a stock's bars from the first on, so that a history is an interval), that what was found ready still is at each
stage (`Served`), and of the rows of a stock that they are the end of its history (`RowsEnd`), which may have grown since; a row then has, in the frame, at
least as many before it as its place in that end (`FrameWhole`), and `HistoryLimit`, lookback plus buffer, makes that enough for
the rows a decision looks at, however the derivation for another cutoff spoiled the stored factors.

It proves `DriftBounded` and the action property `ProfitOnlyTightens` of `Tuning` for any files, policies, budgets, patches and number of generations.
`TuningInv` says that every file, the parameters in force and those of an open window keep the measured values near the shipped
ones (`FileKept`, `ParamsKept`), and, where candidates wait for approval, that the stops in effect are those of the file in force.
The gate judges one proposal after another; that its verdict is sound (`Judged`) goes by induction over the queue
(`InductionUpTo`, `RecursionExists`, `GateIsAFold`: from the well-foundedness of the naturals, for the sets in question). What passed is near, because the
value it is measured against was; the mutator's clamping keeps it near, because a shipped file lies in its own mutation space
(`ShippedInSpace`, which the files in `invest/models/configs` satisfy); and a stop clamped from below its parent's stays at or below it. `TighteningShipped`
says that every shipped file has a stop and no regime's budget or correction sets one (`runtime_discipline.py:31-93`).

It proves `PlanIsTheMeetings` and `PlanIsFunded` of `Meeting` for any packets, replies, verdicts, weights and budgets. `MeetingInv` says which
regime's budget each stage was read in (`ReadInItsBudget`), that each agent of the roster is running or was heard at most once (`HeardOnce`), and that a plan is
what the results make of it. That the threads do not decide: results of different agents, sought agent by agent in the roster's order, give the
same sequence from every permutation (`WhoeverWasFirst`). That the plan has no stock twice: sorting by score and then by place leaves each
member of a finite set exactly once, by counting who is above it (`InScoreOrderIsOrder`). That it is funded: a weight scaled to the cap and rounded is off
by at most half a unit, and these sum to at most half of the number of positions (`ScaledIsFunded`); sums and filters of sequences are
reasoned about by the same induction (`TotalSums`, `ThoseAreIn`). `PacketsOffer` says what a model puts out; the meeting returns an empty plan
before it begins when there is no candidate, and the cycle is skipped.

Everything is proved from the assumptions on the constants in the modules; the only other hypotheses are
`SerialStart \/ MaxCrash = 0` for the lock and `~Overlap` for the configuration files, and the runs `runtime_lock_race` and `config_overlap` show
that the theorems fail without them. Each inductive invariant was checked with TLC before it was proved. Two theorems changed
a model: the proof of `SwitchesAreSound` found a case in which the router's style is not kept (below), and the proof of `FreezeIsEarned` needed
`Window > 0` and `Required <= Window`, which the code's defaults (`train.py:552-557`: 10 and 7) have;
the code does not enforce it. `ReportsAgree` needs of the constants that no more proposals of a cycle are blocked than asked for, and that a
validation runs without model routing (`phase0.py:702`), without which its readers of the regime would differ.

Model-checked only is liveness: `RunsEnd`, `BridgeAnswers`, `DueJobRuns`, `CatchesUp`, `SubscriptionEnds`, `WindowCloses`, and that the lock's
every request is answered (in `ImplementsInstanceLock`); the proof system has no ENABLED.

Each module has a type invariant (`...TypeOK`). It is proved for the lock, the body, the runtime, the services, the streams,
the store's summaries, the router, the simulator, the selection meeting and the cycle. For the others it was checked when they were written and is no property of a run.

## What the checks show

Seven promises of the repository do not hold (see `findings` in `PROJECT.json`):

* a single instance, when two starts race for a stale lock;
* no concurrent training, after a cancellation;
* an expired candidate stays resolved: `latest_open_candidate_record` passes over the cycle that says the candidate expired and finds
  an earlier one that says it is pending; the candidate is carried into every later cycle, expires anew in each, and
  every later proposal is deferred because of it;
* T+1: the emergency check follows the purchases of the day, and a rapid loss halves the older half of the positions whatever
  the day they were bought on (`reduce_positions` does not ask for `hold_days`, the sales of the worst stock and the exits do);
* no future in an answer about an earlier day: similar cases are looked up without a date;
* a patch answered with success is stored: of two overlapping ones the later write drops the earlier one's key;
* protected parameters stay near the baseline: drift is measured from the parameters in effect, in which the market's budget is
  laid over the file's, and what the overlay has moved may be written into the file.

The other properties hold within their bounds. The models also show, without contradicting any documented promise:

* a response of `/api/chat/stream` that is never begun keeps its subscription (`SubscriptionEnds` allows for it);
* a bridge that stops loses the messages of its batch (`lost` in `HandledOnce`), and a half-written file is quarantined;
* a crash in the middle of a save of the cron store loses all jobs (`Torn`); a save that raises after a run ends the loop for good,
  while `status()` goes on to say that the service is enabled (`SaveFails`; `DueJobRuns` excepts it);
* after `stop()` the autopilot of a later `start()` ends at once, since `_stop_event` stays set;
* a candidate that is applied at once is loaded inside the runtime window, whose end rolls its parameters back: its file is in
  force and its parameters are not, until the configuration is loaded again (`ParamsOfActive` excepts it);
* the router: a style that is held is overwritten when the exception to the cooldown applies, so that a model that suits the
  market badly may be switched to (`router/engine.py:388-420`; found while proving `SwitchesAreSound`, which allows for it);
* the selection meeting: the codes a specialist lists beside picks that were all rejected enter the plan unchecked
  (`PlanIsFromCandidates` excepts them); a judge's confidence that is no number fails the cycle; only the weights of two of
  the four agents reach the meeting (`policy_services.py:191-195`);
* the review: an attempt that is skipped or fails keeps its cycle number, so that its predictions are counted again in the
  next one's accuracy (`tracking.py:61`; `RecordIsTrue` speaks of the recorded attempt); the judge's adjustments are not validated
  (`review.py:752`), and a list in their place raises after the loss was counted;
* experiments: in a validation every reader of the regime but the files' aggregate finds it unknown (`RegimesAgree`); the n-th date of a
  sequence goes with the number of the cycle in the controller's life; a skipped cycle is tried on the same date again, and a
  balanced one may retry a date without data for ever; a probe that raised stays unknown (`cycle_services.py:176`); the freeze gate
  counts the candidates of the whole history, and passes with less evidence than the promotion asks for; files keep the effect as
  it was when they were written; a settled candidate may be taken up again and be counted as rejected twice (`FilesAgree` allows for both).

## Not modelled

* Presentation of answers (`app/stock_analysis.py`'s wording, `brain/presentation.py`, dashboards), the CLI and the web pages: formatting.
* Providers of market data, the LLM gateway: input and output, external services. What an LLM may answer is a choice where it is asked.
* Indicators, statistics of a simulation, scorers, the random search of the optimisers: numeric formulas without state.
* Writing of artifacts and traces, realism metrics, the legacy audit of the validation: sequential computations on files of finished runs.
* The task bus and the planner, which describe in an answer what a tool call will do.
* Rate limit and authentication of the web interface.

* In the modules, steps of the code that are taken to succeed or are left out on purpose:
  - a *cancelled* run whose `training.lock` cannot be removed (one that ends can: `LastRoundRaises`), and the exceptions of the builders between a count and its
    round's result (`investment_body_service.py:341-353`): they build dictionaries from values at hand;
  - writes of Flask threads while the runtime starts;
  - that a research attribution or case cannot be written (`case_store.py:52-53`); the feedback of `Research` is what is proposed, and `Tuning` what becomes of it;
  - `INVEST_FORCE_CUTOFF_DATE`, which overrides every policy of dates (`cycle_services.py:290-293`): `RegimesAsPlanned` is about runs without it;
  - the probe mode `routing_regime` of a calibration (`phase1_calibration.py:449-459`), in which the confidence varies within a regime;
  - `clamp_position_size` (`selection.py:1057`), as the weight is cut to its share after it all the same, and rounding in the simulator;
  - processes of different users: `is_pid_alive` takes a process it may not signal for dead (`runtime_state.py:79-83`).
* What properties do not say: `HandledOnce` excuses a missing reply once a file operation has failed; `StopsBind` is about positions bought before yesterday, because
  the exits of a day skip those bought on it (`simulator.py:357`); `RecordIsTrue` is silent on the predictions of failed attempts, which are marked
  with those of the attempt that shares their number.

## Plan

1. Done: models of the services, the streams, the runtime, the agent loop, the controller with its governance, tuning, data, meetings, reviews and
   experiments, the simulator, the router, research and configuration; theorems on the lock, the runtime with its body, the
   services, the streams, the configuration files, the agent loop, the summaries, research, the router, the simulator, the cycle, tuning, the selection meeting, the review, the
   loads of training data and the experiments.
2. More of the surface: the planner and the confirmation of its plans, stock analysis, plan creation in the commander.
