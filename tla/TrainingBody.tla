---------------------------- MODULE TrainingBody ----------------------------
(***************************************************************************)
(* InvestmentBodyService (app/investment_body_service.py): training runs   *)
(* of one or more rounds, each round a call of run_training_cycle in a     *)
(* worker thread.                                                          *)
(*                                                                         *)
(* A process has one event loop, so what happens between two awaits is one *)
(* step.  Its callers are coroutines: users' requests and the autopilot    *)
(* loop.  asyncio.Lock serialises the runs of a process; the file          *)
(* training.lock is shared by the processes of a workspace (the daemon,    *)
(* the web server, a `train-once` on the command line), which do not read  *)
(* it.  Cancelling a coroutine that awaits a worker thread does not stop   *)
(* the thread: it runs on as an orphan.                                    *)
(***************************************************************************)
EXTENDS Naturals, FiniteSets

CONSTANTS
  Process,        \* the processes of the workspace
  User,        \* the coroutines of a process that ask for a run
  MaxRounds,   \* bound: rounds of a run
  MaxTotal,    \* bound: rounds begun by a process
  None

Autopilot   == "autopilot"
Caller == User \cup {Autopilot}

ASSUME BodyConstants ==
  /\ Autopilot \notin User
  /\ None \notin Process \cup Caller \cup {"ok", "no_data", "error", "running"}
  /\ MaxRounds \in Nat \ {0}
  /\ MaxTotal \in Nat

VARIABLES
  holder,       \* self._lock: the caller inside run_cycles, per process
  state,        \* self.training_state
  task,         \* self.current_task: the caller it was made for
  trainingLock,     \* training.lock: the process that wrote it last
  left,         \* rounds a caller still has to finish, the one under way included
  thread,       \* the worker thread a caller awaits, its result once it has ended
  orphan,       \* worker threads whose caller was cancelled, per process
  tally,        \* total_cycles, success_cycles, no_data_cycles, failed_cycles
  cancelled,    \* history: rounds whose result a cancelled caller never took
  auto,         \* where autopilot_loop is
  stopping,     \* self._stop_event
  fault         \* training_state says "training" since an exception left run_cycles
                \* ahead of its `try`, or since a snapshot of a run under way was restored

run   == <<holder, state, task, trainingLock, left, thread>>
count == <<tally, cancelled>>
loop  == <<auto, stopping>>
bodyVars == <<run, orphan, count, loop, fault>>

\* How a cycle ends: with a result, with None, or with an exception
Outcome == {"ok", "no_data", "error"}

Tally == [total : Nat, success : Nat, no_data : Nat, failed : Nat]
Zero  == [total |-> 0, success |-> 0, no_data |-> 0, failed |-> 0]

\* A round begun, and a round's outcome taken by its caller
Begun(t)    == [t EXCEPT !.total = @ + 1]
Taken(t, o) == CASE o = "ok"      -> [t EXCEPT !.success = @ + 1]
                 [] o = "no_data" -> [t EXCEPT !.no_data = @ + 1]
                 [] o = "error"   -> [t EXCEPT !.failed = @ + 1]

---------------------------------------------------------------------------
BodyInit ==
  /\ holder = [p \in Process |-> None]
  /\ state = [p \in Process |-> "idle"]
  /\ task = [p \in Process |-> None]
  /\ trainingLock = None
  /\ left = [p \in Process |-> [c \in Caller |-> 0]]
  /\ thread = [p \in Process |-> [c \in Caller |-> None]]
  /\ orphan = [p \in Process |-> 0]
  /\ tally = [p \in Process |-> Zero]
  /\ cancelled = [p \in Process |-> 0]
  /\ auto = [p \in Process |-> "new"]
  /\ stopping = [p \in Process |-> FALSE]
  /\ fault = [p \in Process |-> FALSE]

Idle(p, c) == left[p][c] = 0

\* (mutant) `finally` without the reset of current_task
CloseKeepsTask(p, c) ==
  /\ holder' = [holder EXCEPT ![p] = None]
  /\ state' = [state EXCEPT ![p] = "idle"]
  /\ task' = task
  /\ trainingLock' = None
  /\ left' = [left EXCEPT ![p][c] = 0]
  /\ thread' = [thread EXCEPT ![p][c] = None]
  /\ fault' = [fault EXCEPT ![p] = FALSE]

\* `finally`: the bookkeeping of a run that ends, for whatever reason
Closed(p, c) ==
  /\ holder' = [holder EXCEPT ![p] = None]
  /\ state' = [state EXCEPT ![p] = "idle"]
  /\ task' = [task EXCEPT ![p] = None]
  /\ left' = [left EXCEPT ![p][c] = 0]
  /\ thread' = [thread EXCEPT ![p][c] = None]
  /\ fault' = [fault EXCEPT ![p] = FALSE]

Close(p, c) == Closed(p, c) /\ trainingLock' = None

\* Up to the first await nothing suspends: the lock that was seen free is taken, and the
\* first worker thread runs when the event loop turns to another coroutine.
RunCycles(p, c, n) ==
  /\ Idle(p, c)
  /\ holder[p] = None
  /\ tally[p].total + n <= MaxTotal
  /\ holder' = [holder EXCEPT ![p] = c]
  /\ state' = [state EXCEPT ![p] = "training"]
  /\ task' = [task EXCEPT ![p] = c]
  /\ trainingLock' = p
  /\ left' = [left EXCEPT ![p][c] = n]
  /\ thread' = [thread EXCEPT ![p][c] = "running"]
  /\ tally' = [tally EXCEPT ![p] = Begun(@)]
  /\ UNCHANGED <<orphan, cancelled, stopping, fault>>

\* _write_training_lock raises (the file may have been opened): the exception leaves
\* run_cycles ahead of its `try`, and training_state and current_task stay as set.
LockWriteRaises(p, c) ==
  /\ Idle(p, c)
  /\ holder[p] = None
  /\ state' = [state EXCEPT ![p] = "training"]
  /\ task' = [task EXCEPT ![p] = c]
  /\ trainingLock' \in {trainingLock, p}
  /\ fault' = [fault EXCEPT ![p] = TRUE]
  /\ UNCHANGED <<holder, left, thread, orphan, count, stopping>>

\* controller.configure_experiment raises inside the `try`, before the lock is taken
ConfigureRaises(p, c) ==
  /\ Idle(p, c)
  /\ holder[p] = None
  /\ Close(p, c)
  /\ UNCHANGED <<orphan, count, stopping>>

\* The cycle ends in its thread; the loop has yet to resume the caller.
CycleEnds(p, c) ==
  /\ thread[p][c] = "running"
  /\ \E o \in Outcome : thread' = [thread EXCEPT ![p][c] = o]
  /\ UNCHANGED <<holder, state, task, trainingLock, left, orphan, count, loop, fault>>

\* (mutant) a round begun without counting the one before
NextRoundUncounted(p, c) ==
  /\ thread[p][c] \in Outcome
  /\ left[p][c] > 1
  /\ tally' = [tally EXCEPT ![p] = Begun(@)]
  /\ left' = [left EXCEPT ![p][c] = @ - 1]
  /\ thread' = [thread EXCEPT ![p][c] = "running"]
  /\ UNCHANGED <<holder, state, task, trainingLock, orphan, cancelled, loop, fault>>

\* The caller takes the result and begins the next round ...
NextRound(p, c) ==
  /\ thread[p][c] \in Outcome
  /\ left[p][c] > 1
  /\ tally' = [tally EXCEPT ![p] = Begun(Taken(@, thread[p][c]))]
  /\ left' = [left EXCEPT ![p][c] = @ - 1]
  /\ thread' = [thread EXCEPT ![p][c] = "running"]
  /\ UNCHANGED <<holder, state, task, trainingLock, orphan, cancelled, loop, fault>>

\* (mutant) after a failure the rounds are not resumed
LastRoundIfOk(p, c) ==
  /\ thread[p][c] \in {"ok", "no_data"}
  /\ left[p][c] = 1
  /\ tally' = [tally EXCEPT ![p] = Taken(@, thread[p][c])]
  /\ Close(p, c)
  /\ UNCHANGED <<orphan, cancelled, stopping>>

\* ... or, after the last one, leaves.
LastRound(p, c) ==
  /\ thread[p][c] \in Outcome
  /\ left[p][c] = 1
  /\ tally' = [tally EXCEPT ![p] = Taken(@, thread[p][c])]
  /\ Close(p, c)
  /\ UNCHANGED <<orphan, cancelled, stopping>>

\* _clear_training_lock raises (unlink takes only a missing file for granted), and the
\* exception leaves run_cycles: the bookkeeping is done, but nobody is told.
LastRoundRaises(p, c) ==
  /\ trainingLock # None
  /\ thread[p][c] \in Outcome
  /\ left[p][c] = 1
  /\ tally' = [tally EXCEPT ![p] = Taken(@, thread[p][c])]
  /\ Closed(p, c)
  /\ UNCHANGED <<trainingLock, orphan, cancelled, stopping>>

\* CancelledError at the await: not an Exception, so the round is not counted; `finally`
\* runs, and a thread still at work stays behind.
Cancel(p, c) ==
  /\ thread[p][c] # None
  /\ orphan' = [orphan EXCEPT ![p] = IF thread[p][c] = "running" THEN @ + 1 ELSE @]
  /\ cancelled' = [cancelled EXCEPT ![p] = @ + 1]
  /\ Close(p, c)
  /\ UNCHANGED <<tally, stopping>>

OrphanEnds(p) ==
  /\ orphan[p] > 0
  /\ orphan' = [orphan EXCEPT ![p] = @ - 1]
  /\ UNCHANGED <<run, count, loop, fault>>

---------------------------------------------------------------------------
(* A caller that is not the autopilot.  Stopping cancels the bridge's, the heartbeat's and
   the cron's coroutines too, whichever run they may be waiting for. *)

UserStep(p, u) ==
  /\ \/ \E n \in 1..MaxRounds : RunCycles(p, u, n)
     \/ LockWriteRaises(p, u)
     \/ ConfigureRaises(p, u)
     \/ LastRound(p, u) \/ LastRoundRaises(p, u)
     \/ stopping[p] /\ Cancel(p, u)
  /\ UNCHANGED auto

(* autopilot_loop: "new" before its task exists, "check" at the loop's condition, "run"
   inside run_cycles, "sleep" in wait_for(stop_event), "off" once its task has ended *)

AutoGoto(p, l) == auto' = [auto EXCEPT ![p] = l]

\* create_task(autopilot_loop(...)) by start_runtime_background_services
AutoStart(p) ==
  /\ auto[p] = "new" /\ ~stopping[p]
  /\ AutoGoto(p, "check")
  /\ UNCHANGED <<run, orphan, count, stopping, fault>>

AutoRun(p) ==
  /\ auto[p] = "check" /\ ~stopping[p]
  /\ RunCycles(p, Autopilot, 1)
  /\ AutoGoto(p, "run")

\* run_cycles answers "busy"
AutoBusy(p) ==
  /\ auto[p] = "check" /\ ~stopping[p]
  /\ holder[p] # None
  /\ AutoGoto(p, "sleep")
  /\ UNCHANGED <<run, orphan, count, stopping, fault>>

\* autopilot_loop catches only CancelledError: another exception ends its task for good.
AutoDies(p) ==
  /\ ~stopping[p]
  /\ \/ auto[p] = "check" /\ LockWriteRaises(p, Autopilot)
     \/ auto[p] = "run" /\ LastRoundRaises(p, Autopilot)
  /\ AutoGoto(p, "off")

\* (mutant) a cycle's exception reaches autopilot_loop
AutoDoneOrOff(p) ==
  /\ ~stopping[p]
  /\ LastRound(p, Autopilot)
  /\ AutoGoto(p, IF thread[p][Autopilot] = "error" THEN "off" ELSE "sleep")

AutoDone(p) ==
  /\ ~stopping[p]
  /\ LastRound(p, Autopilot)
  /\ AutoGoto(p, "sleep")

\* The interval is over.
AutoWake(p) ==
  /\ auto[p] = "sleep" /\ ~stopping[p]
  /\ AutoGoto(p, "check")
  /\ UNCHANGED <<run, orphan, count, stopping, fault>>

\* stop_runtime_background_services: body.stop(), and cancel() of the autopilot's task
Stop(p) ==
  /\ ~stopping[p]
  /\ stopping' = [stopping EXCEPT ![p] = TRUE]
  /\ UNCHANGED <<run, orphan, count, auto, fault>>

\* The next step of a task that was cancelled raises CancelledError, wherever it waits.
AutoCancelled(p) ==
  /\ stopping[p]
  /\ \/ auto[p] = "run" /\ Cancel(p, Autopilot)
     \/ auto[p] \in {"check", "sleep"} /\ UNCHANGED <<run, orphan, count, stopping, fault>>
  /\ AutoGoto(p, "off")

AutoStep(p) == AutoRun(p) \/ AutoBusy(p) \/ AutoDone(p) \/ AutoWake(p) \/ AutoCancelled(p)

BodyNext == \E p \in Process :
  \/ \E u \in User : UserStep(p, u) \/ NextRound(p, u)
  \/ \E c \in Caller : CycleEnds(p, c)
  \/ AutoStart(p) \/ AutoStep(p) \/ AutoDies(p)
  \/ Stop(p) \/ OrphanEnds(p)

BodySpec == BodyInit /\ [][BodyNext]_bodyVars

\* A training cycle ends (its LLM calls time out), and the event loop resumes whatever
\* can go on.
BodyFairness == \A p \in Process :
  /\ WF_bodyVars(AutoStep(p))
  /\ \A c \in Caller : WF_bodyVars(CycleEnds(p, c))
  /\ \A u \in User : WF_bodyVars(NextRound(p, u) \/ (LastRound(p, u) /\ UNCHANGED auto))

FairBodySpec == BodySpec /\ BodyFairness

---------------------------------------------------------------------------
\* The types; in particular no thread is counted as ended that had not been left behind.
BodyTypeOK ==
  /\ holder \in [Process -> Caller \cup {None}]
  /\ state \in [Process -> {"idle", "training"}]
  /\ task \in [Process -> Caller \cup {None}]
  /\ trainingLock \in Process \cup {None}
  /\ left \in [Process -> [Caller -> 0..MaxRounds]]
  /\ thread \in [Process -> [Caller -> Outcome \cup {"running", None}]]
  /\ orphan \in [Process -> Nat]
  /\ tally \in [Process -> Tally]
  /\ cancelled \in [Process -> Nat]
  /\ auto \in [Process -> {"new", "check", "run", "sleep", "off"}]
  /\ stopping \in [Process -> BOOLEAN]
  /\ fault \in [Process -> BOOLEAN]

\* The asyncio.Lock, training_state, current_task and the coroutines agree: one run at a
\* time, shown as such; and no run is shown when there is none, unless an exception left
\* run_cycles between the assignments and its `try`.
RunShown == \A p \in Process :
  /\ \A c \in Caller :
       /\ thread[p][c] # None <=> holder[p] = c
       /\ left[p][c] > 0 <=> holder[p] = c
  /\ holder[p] # None => state[p] = "training" /\ task[p] = holder[p]
  /\ holder[p] = None => (state[p] = "training" <=> fault[p])
  /\ holder[p] = None /\ ~fault[p] => task[p] = None

\* Every round begun is accounted for once: by one of the three result counters, by the
\* run under way, or by the cancellation that lost its result.
CountersAddUp == \A p \in Process :
  tally[p].total = tally[p].success + tally[p].no_data + tally[p].failed
                   + cancelled[p] + (IF holder[p] = None THEN 0 ELSE 1)

\* However its cycles end, the autopilot goes on: its task ends only when the service stops
\* or the training lock can be neither written nor removed.
AutopilotSurvives == [][\A p \in Process :
  auto[p] # "off" /\ auto'[p] = "off" => stopping[p] \/ fault'[p] \/ trainingLock' # None]_bodyVars

\* A run does not hold the lock forever.
RunsEnd == \A p \in Process : holder[p] # None ~> holder[p] = None

Threads(p) == orphan[p] + Cardinality({c \in Caller : thread[p][c] = "running"})

\* "training.lock ... avoids concurrent training" (RUNTIME_STATE_DESIGN.md 2.3), for the
\* worker threads of one process
SerialInProcess == \A p \in Process : Threads(p) <= 1
=============================================================================
