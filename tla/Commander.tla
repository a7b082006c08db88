----------------------------- MODULE Commander -----------------------------
(***************************************************************************)
(* CommanderRuntime (app/commander.py) around its training body: start and *)
(* stop, requests (ask), training plans, strategy reloads, and the fields  *)
(* they all share: runtime_state, current_task and the persisted snapshot  *)
(* state.json.                                                             *)
(*                                                                         *)
(* Coroutines of the event loop interleave at their awaits only.  A reload *)
(* asked for over HTTP runs in a Flask thread, so each of its accesses to  *)
(* the shared fields is a step.  A crash loses everything but the snapshot *)
(* and training.lock; the next process restores the snapshot.  Any write   *)
(* may raise: of an event row (runtime_events.jsonl), the audit, a session *)
(* message, an artifact of the lab, or the snapshot.                       *)
(***************************************************************************)
EXTENDS TrainingBody

CONSTANTS
  Self,         \* this process: the composition has one
  MaxRestarts,  \* bound: crashes of a behaviour
  MaxRaises     \* bound: handlers of a behaviour in which writes raise

ASSUME CommanderConstants == Process = {Self} /\ {MaxRestarts, MaxRaises} \subseteq Nat

VARIABLES
  rstate,     \* runtime_state
  cur,        \* current_task: its type, None if there is none
  disk,       \* state.json
  op,         \* what each user's coroutine is doing
  reload,     \* where reload_strategies is, in its thread
  started,    \* _started
  stops,      \* calls of stop() under way
  leftover,   \* history: which shared fields an operation cut short left behind
  raises,     \* handlers in which a write has raised
  restarts

calls  == <<op, reload>>
life   == <<started, stops>>
shown  == <<rstate, cur, disk, leftover, raises>>
vars   == <<bodyVars, shown, calls, life, restarts>>

Tasks    == {"start", "stop", "ask", "train_plan", "training", "reload_strategies"}
AtRest   == {"initialized", "idle", "error", "stopped"}
RStates  == AtRest \cup {"stopping", "training", "busy", "reloading_strategies"}

\* build_persisted_status_payload, what restore_runtime_from_persisted_state reads of it
Snapshot(r, c, t) ==
  [rstate |-> r, cur |-> c, tally |-> t, state |-> state'[Self], task |-> task'[Self]]

NoSnapshot ==
  [rstate |-> "initialized", cur |-> None, tally |-> Zero, state |-> "idle", task |-> None]

---------------------------------------------------------------------------
(* The shared fields as the statements of a handler change them: a handler ends with one of a
   set of records, according to which of its writes raise.  left: what it leaves behind. *)

Both   == {"task", "state"}
Now    == [rstate |-> rstate, cur |-> cur, disk |-> disk, left |-> {}, raised |-> FALSE]
Marked == [Now EXCEPT !.rstate = "training", !.cur = "train_plan"]

Torn(b, r, c, what) == [b EXCEPT !.rstate = r, !.cur = c, !.left = @ \cup what, !.raised = TRUE]

\* What was left behind stays so until the field is written again.
Leave(what) == leftover' =
  (IF cur' = None THEN {} ELSE {"task"} \cap (IF cur' = cur THEN what \cup leftover ELSE what))
  \cup
  (IF rstate' \in AtRest THEN {}
   ELSE {"state"} \cap (IF rstate' = rstate THEN what \cup leftover ELSE what))

Become(ends) == \E b \in ends :
  /\ b.raised => raises < MaxRaises
  /\ rstate' = b.rstate /\ cur' = b.cur /\ disk' = b.disk /\ Leave(b.left)
  /\ raises' = IF b.raised THEN raises + 1 ELSE raises

Shared(r, c) == Become({[Now EXCEPT !.rstate = r, !.cur = c]})

\* _complete_runtime_task: the state, the event row that precedes the end of the task, the
\* snapshot.  Done: all of it; Cut: the row or the snapshot cannot be written.
Done(b, r) == [b EXCEPT !.rstate = r, !.cur = None, !.disk = Snapshot(r, None, tally'[Self])]
Cut(b, r)  == {Torn(b, r, b.cur, {"task"}), Torn(b, r, None, {})}

\* _on_body_event, after a row that may not be written; _emit_runtime_event swallows what
\* raises.  The snapshot of a run that begins is taken before total_cycles counts the round.
Started(b, who) ==
  {Torn(b, b.rstate, b.cur, {}), Torn(b, "training", "training", {}),
   [b EXCEPT !.rstate = "training", !.cur = "training",
             !.disk = [rstate |-> "training", cur |-> "training", tally |-> tally[Self],
                       state |-> "training", task |-> who]]}
Finished(b) == {Torn(b, b.rstate, b.cur, Both), Torn(b, "idle", None, {}), Done(b, "idle")}

\* The except clause of execute_training_plan_flow: the artifacts, which may raise, and the end
Failed(b) == {Torn(b, b.rstate, b.cur, Both), Done(b, "error")} \cup Cut(b, "error")
\* finalize_training_execution; whatever raises in it, or in wrapping its answer, fails the plan
Finalised(b, r) ==
  {Done(b, r)} \cup
  UNION {Failed([a EXCEPT !.raised = TRUE]) : a \in {b, Done(b, r)} \cup Cut(b, r)}

BodyIdle == UNCHANGED bodyVars

---------------------------------------------------------------------------
CommanderInit ==
  /\ BodyInit
  /\ rstate = "initialized" /\ cur = None
  /\ disk = NoSnapshot
  /\ op = [u \in User |-> "out"] /\ reload = "out"
  /\ started = FALSE /\ stops = 0
  /\ leftover = {} /\ raises = 0 /\ restarts = 0

OpGoto(u, l) == op' = [op EXCEPT ![u] = l] /\ UNCHANGED reload

(* ask: execute_runtime_ask, up to and from its await of process_direct *)

AskBegin(u) ==
  /\ op[u] = "out"
  /\ OpGoto(u, "ask")
  /\ Shared(rstate, "ask")
  /\ BodyIdle /\ UNCHANGED <<life, restarts>>

\* The row of the task, the user's message or the activity cannot be written: all of them ahead
\* of the `try`.
AskRaises(u) ==
  /\ op[u] = "out"
  /\ BodyIdle /\ UNCHANGED <<calls, life, restarts>>
  /\ Become({Torn(Now, rstate, "ask", {"task"})})

\* The answer, or an exception: either way the task in current_task is ended, whoever began it.
AskEnd(u) ==
  /\ op[u] = "ask"
  /\ OpGoto(u, "out")
  /\ BodyIdle /\ UNCHANGED <<life, restarts>>
  /\ Become({Done(Now, rstate)} \cup Cut(Now, rstate))

\* CancelledError is not an Exception: the task stays.
AskCancelled(u) ==
  /\ stopping[Self]
  /\ op[u] = "ask"
  /\ OpGoto(u, "out")
  /\ BodyIdle /\ UNCHANGED <<life, restarts>>
  /\ Become({[Now EXCEPT !.left = {"task"}]})

(* execute_training_plan_flow, called by a request or by a tool of an ask *)

Plan(u)     == IF op[u] = "ask" THEN "askplan" ELSE "plan"
PlanOver(u) == IF op[u] \in {"ask", "askplan"} THEN "ask" ELSE "out"

\* mark_training_plan_running, then run_cycles up to its first await
PlanBegin(u) ==
  /\ op[u] \in {"out", "ask"}
  /\ \E n \in 1..MaxRounds : RunCycles(Self, u, n)
  /\ OpGoto(u, Plan(u))
  /\ Become(Started(Marked, u))
  /\ UNCHANGED <<auto, life, restarts>>

\* The row of the task cannot be written, or the audit once the state is set: ahead of the `try`
PlanMarkRaises(u) ==
  /\ op[u] \in {"out", "ask"}
  /\ BodyIdle /\ UNCHANGED <<calls, life, restarts>>
  /\ Become({Torn(Now, rstate, "train_plan", {"task"}), Torn(Marked, "training", "train_plan", Both)})

\* (mutant) "busy" taken for a run under way
PlanBusyWaits(u) ==
  /\ op[u] \in {"out", "ask"}
  /\ holder[Self] # None
  /\ OpGoto(u, Plan(u))
  /\ BodyIdle /\ UNCHANGED <<life, restarts>>
  /\ Become(Finalised(Marked, "busy"))

\* The plan is marked as running before the body answers "busy".
PlanBusy(u) ==
  /\ op[u] \in {"out", "ask"}
  /\ holder[Self] # None
  /\ OpGoto(u, PlanOver(u))
  /\ BodyIdle /\ UNCHANGED <<life, restarts>>
  /\ Become(Finalised(Marked, "busy"))

\* (mutant) no except clause
PlanRaisesOnly(u) ==
  /\ op[u] \in {"out", "ask"}
  /\ LockWriteRaises(Self, u)
  /\ OpGoto(u, PlanOver(u))
  /\ Become({Marked})
  /\ UNCHANGED <<auto, life, restarts>>

\* run_cycles raises, ahead of its first event or between its two
PlanRaises(u) ==
  /\ op[u] \in {"out", "ask"}
  /\ OpGoto(u, PlanOver(u))
  /\ \/ /\ LockWriteRaises(Self, u)
        /\ Become(Failed(Marked))
     \/ /\ ConfigureRaises(Self, u)
        /\ \E a \in Started(Marked, u) : \E b \in Finished(a) : Become(Failed(b))
  /\ UNCHANGED <<auto, life, restarts>>

\* EVENT_TRAINING_FINISHED, then finalize_training_execution: "error" when every cycle failed
\* for want of data.  Without the event when the training lock cannot be removed.
PlanEnd(u) ==
  /\ op[u] \in {"plan", "askplan"}
  /\ OpGoto(u, PlanOver(u))
  /\ \/ /\ LastRound(Self, u)
        /\ \E b \in Finished(Now), r \in {"idle", "error"} : Become(Finalised(b, r))
     \/ /\ LastRoundRaises(Self, u)
        /\ Become(Failed(Torn(Now, rstate, cur, {})))
  /\ UNCHANGED <<auto, life, restarts>>

\* `finally` of run_cycles emits EVENT_TRAINING_FINISHED; the plan is not finalised.
PlanCancelled(u) ==
  /\ stopping[Self]
  /\ op[u] \in {"plan", "askplan"}
  /\ Cancel(Self, u)
  /\ OpGoto(u, "out")
  /\ Become(Finished(Now))
  /\ UNCHANGED <<auto, life, restarts>>

PlanRound(u) ==
  /\ NextRound(Self, u)
  /\ UNCHANGED <<shown, calls, life, restarts>>

UserOp(u) ==
  \/ AskBegin(u) \/ AskRaises(u) \/ AskEnd(u) \/ AskCancelled(u)
  \/ PlanBegin(u) \/ PlanMarkRaises(u) \/ PlanBusy(u) \/ PlanRaises(u)
  \/ PlanRound(u) \/ PlanEnd(u) \/ PlanCancelled(u)

---------------------------------------------------------------------------
(* reload_strategies in a Flask thread: _task_lock covers each access, not the operation *)

ReloadStep(at, to) == reload = at /\ reload' = to /\ UNCHANGED <<op, life, restarts>> /\ BodyIdle

ReloadBegin == ReloadStep("out", "begun") /\ Shared(rstate, "reload_strategies")
ReloadMark  == ReloadStep("begun", "marked") /\ Shared("reloading_strategies", cur)
ReloadIdle  == ReloadStep("marked", "ending") /\ Shared("idle", cur)
ReloadEnd   == ReloadStep("ending", "saving") /\ Shared(rstate, None)
\* The snapshot is written, or raises.
ReloadSave  == /\ ReloadStep("saving", "out")
               /\ Become({[Now EXCEPT !.disk = Snapshot(rstate, cur, tally[Self])],
                          Torn(Now, rstate, cur, {})})
\* The row of the task's begin or end cannot be written, or a strategy cannot be loaded:
\* nothing restores the fields.
ReloadRaises ==
  \/ ReloadStep("out", "out") /\ Become({Torn(Now, rstate, "reload_strategies", {"task"})})
  \/ ReloadStep("marked", "out") /\ Become({[Now EXCEPT !.left = Both]})
  \/ ReloadStep("ending", "out") /\ Become({Torn(Now, rstate, cur, {"task"})})

ReloadOp == ReloadBegin \/ ReloadMark \/ ReloadIdle \/ ReloadEnd \/ ReloadSave \/ ReloadRaises

---------------------------------------------------------------------------
(* The autopilot's runs reach the shared fields through _on_body_event. *)

AutopilotOp ==
  /\ \/ AutoRun(Self) /\ Become(Started(Now, Autopilot))
     \/ AutoDone(Self) /\ Become(Finished(Now))
     \/ AutoCancelled(Self) /\ Become(IF auto[Self] = "run" THEN Finished(Now) ELSE {Now})
     \/ AutoDies(Self) /\ Become({IF auto[Self] = "run" THEN Torn(Now, rstate, cur, Both) ELSE Now})
     \/ (AutoBusy(Self) \/ AutoWake(Self)) /\ Become({Now})
  /\ UNCHANGED <<calls, life, restarts>>

WorkerOp ==
  /\ OrphanEnds(Self) \/ \E c \in Caller : CycleEnds(Self, c)
  /\ UNCHANGED <<shown, calls, life, restarts>>

---------------------------------------------------------------------------
(* start_runtime_flow awaits nothing that suspends; stop_runtime_flow waits for the
   autopilot's task and for the notifications'.  _stop_event is never cleared: after a
   stop() the autopilot of a later start() ends at once. *)

\* The task and the state start() shows while it works
Starting == [Now EXCEPT !.rstate = "starting", !.cur = "start"]

\* When ending the task raises, start() fails with the services running.
StartOk ==
  /\ ~started
  /\ AutoStart(Self) \/ UNCHANGED bodyVars
  /\ started' = TRUE /\ UNCHANGED stops
  /\ Become({Done(Starting, "idle")} \cup
            UNION {{Done(b, "error")} \cup Cut(b, "error") : b \in Cut(Starting, "idle")})
  /\ UNCHANGED <<calls, restarts>>

\* acquire_runtime_lock or what follows it raises: "error", and the lock is given back.  The
\* row of the task's begin cannot be written: nothing restores the field.
StartRaises ==
  /\ ~started
  /\ BodyIdle /\ UNCHANGED <<calls, life, restarts>>
  /\ Become({Done(Starting, "error"), Torn(Now, rstate, "start", {"task"})}
            \cup Cut(Starting, "error"))

StopBegin ==
  /\ started /\ stops < 2
  /\ Stop(Self) \/ (stopping[Self] /\ UNCHANGED bodyVars)
  /\ stops' = stops + 1
  /\ Shared("stopping", "stop")
  /\ UNCHANGED <<calls, started, restarts>>

StopEnd ==
  /\ stops > 0
  /\ auto[Self] \in {"new", "off"}
  /\ stops' = stops - 1
  /\ started' = FALSE
  /\ BodyIdle /\ UNCHANGED <<calls, restarts>>
  /\ Become({Done(Now, "stopped")} \cup Cut(Now, "stopped"))

\* The row of the task's begin, the cron's store or the runtime lock raises: stop() has no
\* handler.
StopRaises ==
  /\ BodyIdle /\ UNCHANGED <<calls, restarts>>
  /\ \/ /\ started /\ UNCHANGED life
        /\ Become({Torn(Now, rstate, "stop", {"task"})})
     \/ /\ stops > 0 /\ auto[Self] \in {"new", "off"}
        /\ stops' = stops - 1 /\ started' \in {started, FALSE}
        /\ Become({Torn(Now, rstate, cur, Both)})

\* The process dies and another restores its snapshot; a snapshot cut short is ignored.
Restart ==
  /\ restarts < MaxRestarts
  /\ restarts' = restarts + 1
  /\ \E d \in {disk, NoSnapshot} :
       /\ rstate' = d.rstate /\ cur' = d.cur
       /\ tally' = [tally EXCEPT ![Self] = d.tally]
       /\ cancelled' = [cancelled EXCEPT ![Self] =
                          d.tally.total - (d.tally.success + d.tally.no_data + d.tally.failed)]
       /\ state' = [state EXCEPT ![Self] = d.state]
       /\ task' = [task EXCEPT ![Self] = d.task]
       /\ fault' = [fault EXCEPT ![Self] = d.state = "training"]
       /\ disk' = d
  /\ holder' = [holder EXCEPT ![Self] = None]
  /\ left' = [left EXCEPT ![Self] = [c \in Caller |-> 0]]
  /\ thread' = [thread EXCEPT ![Self] = [c \in Caller |-> None]]
  /\ orphan' = [orphan EXCEPT ![Self] = 0]
  /\ auto' = [auto EXCEPT ![Self] = "new"]
  /\ stopping' = [stopping EXCEPT ![Self] = FALSE]
  /\ op' = [u \in User |-> "out"] /\ reload' = "out"
  /\ started' = FALSE /\ stops' = 0
  /\ Leave(Both)
  /\ UNCHANGED <<trainingLock, raises>>

CommanderNext ==
  \/ \E u \in User : UserOp(u)
  \/ ReloadOp \/ AutopilotOp \/ WorkerOp
  \/ StartOk \/ StartRaises \/ StopBegin \/ StopEnd \/ StopRaises
  \/ Restart

CommanderSpec == CommanderInit /\ [][CommanderNext]_vars

---------------------------------------------------------------------------
\* The types; in particular a stop() is counted down once, however two of them overlap.
CommanderTypeOK ==
  /\ rstate \in RStates
  /\ cur \in Tasks \cup {None}
  /\ disk.rstate \in RStates /\ disk.cur \in Tasks \cup {None} /\ disk.tally \in Tally
  /\ op \in [User -> {"out", "ask", "plan", "askplan"}]
  /\ reload \in {"out", "begun", "marked", "ending", "saving"}
  /\ started \in BOOLEAN /\ stops \in 0..2
  /\ leftover \subseteq Both

Quiet == /\ \A u \in User : op[u] = "out"
         /\ holder[Self] = None /\ reload = "out" /\ stops = 0

\* When nothing is under way the runtime says so: no current task and a state of rest,
\* however the operations before overlapped.  Otherwise the field shown is the one an
\* operation left behind that was cut short and could not restore it: cancelled, failed while
\* reloading, or ended by a crash or by a write that raised where nothing, or again the same
\* write, handles it (ask.py:111-153, training.py:401-459, runtime_lifecycle.py:200-265)
QuietIsShown == Quiet =>
  /\ cur # None => "task" \in leftover
  /\ rstate \notin AtRest => "state" \in leftover

\* A plan that waits for its cycles is the run the body shows, and no other.
PlanIsTheRun == \A u \in User : op[u] \in {"plan", "askplan"} <=> holder[Self] = u
=============================================================================
