-------------------------------- MODULE Cron --------------------------------
(***************************************************************************)
(* CronService (brain/scheduler.py): jobs that are run at intervals by a   *)
(* coroutine, added and removed by API threads, and saved to a file after  *)
(* every change and every run.                                             *)
(*                                                                         *)
(* Time is abstracted to what next_run_at_ms tells: the ticks of a job     *)
(* that have come, and the tick up to which it has run.  A save builds its *)
(* payload, opens the file (which empties it) and writes: three steps that *)
(* the threads interleave, a crash may part and an OSError may end.        *)
(***************************************************************************)
EXTENDS Naturals, FiniteSets

CONSTANTS
  Job,        \* the jobs that may be added
  Api,        \* the threads that add and remove jobs
  Loop,       \* the event loop, as a thread that saves
  MaxTicks    \* bound: ticks of a job

ASSUME CronConstants == Loop \notin Api /\ MaxTicks \in Nat

VARIABLES
  jobs,       \* self.jobs
  upto,       \* a job's next_run_at_ms: the ticks it counts as run
  ticks,      \* the clock: ticks of a job that have come
  pass,       \* the due jobs the pass of _run_loop has still to run
  job,        \* the job that runs, in a set
  cron,       \* the coroutine: "off", "on", or "ended" by an exception, unknown to status()
  save,       \* a thread's save: its step and its payload
  store,      \* the file: its jobs, or that it is torn
  added,      \* history: jobs added so far; each has an id of its own
  served      \* history: the ticks of a job that a finished run has served

Saver    == Api \cup {Loop}
Payload  == [jobs : SUBSET Job, upto : [Job -> 0..MaxTicks]]
Nothing  == [jobs |-> {}, upto |-> [j \in Job |-> 0]]
Current  == [jobs |-> jobs, upto |-> upto]
Torn     == [torn |-> TRUE]
NoSave   == [at |-> "none", payload |-> Nothing]

saving   == <<save, store>>
table    == <<jobs, upto, added>>
running  == <<pass, job, cron>>
cronVars == <<table, ticks, running, saving, served>>

CronInit ==
  /\ jobs = {} /\ upto = [j \in Job |-> 0] /\ ticks = [j \in Job |-> 0]
  /\ pass = {} /\ job = {} /\ cron = "off"
  /\ save = [t \in Saver |-> NoSave] /\ store = Nothing
  /\ added = {}
  /\ served = [j \in Job |-> 0]

SaveAt(t, at, p) == save' = [save EXCEPT ![t] = [at |-> at, payload |-> p]]

(* _save: the payload is built from self.jobs, the file is emptied, the text is written. *)

Build(t) ==
  /\ save[t].at = "build"
  /\ SaveAt(t, "open", Current)
  /\ UNCHANGED <<table, ticks, running, store, served>>

OpenStore(t) ==
  /\ save[t].at = "open"
  /\ SaveAt(t, "write", save[t].payload)
  /\ store' = Torn
  /\ UNCHANGED <<table, ticks, running, served>>

\* A text written over another that was written meanwhile may leave the tail of the longer.
WriteStore(t) ==
  /\ save[t].at = "write"
  /\ SaveAt(t, "none", Nothing)
  /\ store' \in {save[t].payload} \cup (IF store = Torn THEN {} ELSE {Torn})
  /\ UNCHANGED <<table, ticks, running, served>>

\* The directory cannot be made, the file not be opened or not be written: an OSError.  It is the
\* answer of an API thread and of stop(); of the loop it is the end, since _execute saves outside
\* its try and _run_loop expects a cancellation only.  _running stays True.
SaveFails(t) ==
  /\ save[t].at # "none"
  /\ SaveAt(t, "none", Nothing)
  /\ store' \in IF save[t].at = "write" THEN {store, Torn} ELSE {store}
  /\ IF t = Loop /\ cron = "on" THEN cron' = "ended" /\ pass' = {}
                               ELSE UNCHANGED <<cron, pass>>
  /\ UNCHANGED <<table, ticks, job, served>>

SaveStep(t) == Build(t) \/ OpenStore(t) \/ WriteStore(t) \/ SaveFails(t)
Saving(t)   == save[t].at # "none"

---------------------------------------------------------------------------
(* add_job and remove_job, in a thread of the API *)

AddJob(t, j) ==
  /\ cron # "off" /\ ~Saving(t) /\ j \notin added
  /\ jobs' = jobs \cup {j} /\ added' = added \cup {j}
  /\ upto' = [upto EXCEPT ![j] = ticks[j]]
  /\ served' = [served EXCEPT ![j] = ticks[j]]
  /\ SaveAt(t, "build", Nothing)
  /\ UNCHANGED <<ticks, running, store>>

RemoveJob(t, j) ==
  /\ cron # "off" /\ ~Saving(t) /\ j \in jobs
  /\ jobs' = jobs \ {j}
  /\ SaveAt(t, "build", Nothing)
  /\ UNCHANGED <<upto, added, ticks, running, store, served>>

---------------------------------------------------------------------------
(* _run_loop and _execute, in the event loop *)

Tick(j) ==
  /\ j \in added /\ ticks[j] < MaxTicks
  /\ ticks' = [ticks EXCEPT ![j] = @ + 1]
  /\ UNCHANGED <<table, running, saving, served>>

Due(j) == upto[j] < ticks[j]

\* A pass goes over the list that self.jobs is when it begins, and compares with the time
\* when it begins: a job added, removed or due meanwhile makes no difference to it.
PassBegin ==
  /\ cron = "on" /\ pass = {} /\ job = {} /\ ~Saving(Loop)
  /\ pass' = {j \in jobs : Due(j)}
  /\ pass' # {}
  /\ UNCHANGED <<table, ticks, job, cron, saving, served>>

\* (mutant) next_run_at_ms moved on when the run begins
LookMovesOn(j) ==
  /\ j \in pass /\ job = {} /\ ~Saving(Loop)
  /\ pass' = pass \ {j}
  /\ job' = {j}
  /\ upto' = [upto EXCEPT ![j] = ticks[j]]
  /\ UNCHANGED <<jobs, added, ticks, cron, saving, served>>

\* The next job of the pass is run.
Look(j) ==
  /\ j \in pass /\ job = {} /\ ~Saving(Loop)
  /\ pass' = pass \ {j}
  /\ job' = {j}
  /\ UNCHANGED <<table, ticks, cron, saving, served>>

\* (mutant) a failed run that is not scheduled again
JobEndsOrFails(j) ==
  /\ j \in job
  /\ job' = {}
  /\ served' = [served EXCEPT ![j] = ticks[j]]
  /\ upto' \in {upto, [upto EXCEPT ![j] = ticks[j]]}
  /\ SaveAt(Loop, "build", Nothing)
  /\ UNCHANGED <<jobs, added, ticks, pass, cron, store>>

\* on_job returned or raised: either way the next run is an interval from now.
JobEnds(j) ==
  /\ j \in job
  /\ job' = {}
  /\ served' = [served EXCEPT ![j] = ticks[j]]
  /\ upto' = [upto EXCEPT ![j] = ticks[j]]
  /\ SaveAt(Loop, "build", Nothing)
  /\ UNCHANGED <<jobs, added, ticks, pass, cron, store>>

RunStep == PassBegin \/ \E j \in Job : Look(j) \/ JobEnds(j)

\* stop(): the run under way is cancelled, and the jobs are saved as they are.
CronStop ==
  /\ cron # "off" /\ ~Saving(Loop)
  /\ cron' = "off" /\ pass' = {} /\ job' = {}
  /\ SaveAt(Loop, "build", Nothing)
  /\ UNCHANGED <<table, ticks, store, served>>

CronCrash ==
  /\ cron' = "off" /\ pass' = {} /\ job' = {}
  /\ save' = [t \in Saver |-> NoSave]
  /\ UNCHANGED <<table, ticks, store, served>>

\* start(), in a new process: _load; a file that does not parse is moved away.  (One that is torn
\* within a character raises UnicodeDecodeError, which _load does not catch: nothing starts, and
\* nothing here changes.)
CronStart ==
  /\ cron = "off" /\ \A t \in Saver : ~Saving(t)
  /\ cron' = "on"
  /\ LET read == IF store = Torn THEN Nothing ELSE store IN
       /\ jobs' = read.jobs /\ upto' = read.upto
       /\ store' = read
  /\ UNCHANGED <<added, ticks, pass, job, save, served>>

ApiStep == \E t \in Api, j \in Job : AddJob(t, j) \/ RemoveJob(t, j)
CronStep == RunStep \/ \E t \in Saver : SaveStep(t)

CronNext ==
  \/ ApiStep \/ CronStep
  \/ \E j \in Job : Tick(j)
  \/ CronStart \/ CronStop \/ (cron # "off" /\ CronCrash)

\* The event loop and the threads run, and every run of a job ends.
CronFairness == WF_cronVars(RunStep) /\ \A t \in Saver : WF_cronVars(SaveStep(t))

CronSpec == CronInit /\ [][CronNext]_cronVars /\ CronFairness

---------------------------------------------------------------------------
\* The types, and one job runs at a time.
CronTypeOK ==
  /\ jobs \subseteq Job /\ added \subseteq Job
  /\ upto \in [Job -> 0..MaxTicks] /\ ticks \in [Job -> 0..MaxTicks]
  /\ pass \subseteq Job /\ job \subseteq Job /\ Cardinality(job) <= 1
  /\ cron \in {"off", "on", "ended"}
  /\ save \in [Saver -> [at : {"none", "build", "open", "write"}, payload : Payload]]
  /\ store \in Payload \cup {Torn}
  /\ served \in [Job -> 0..MaxTicks]

\* A run that was due is never taken for done before it is: not in memory, not in a file that
\* a crash or a failing save leaves, not in one that a slower thread overwrites.  What was
\* interrupted runs again.
NoRunSkipped == \A j \in Job :
  /\ upto[j] <= served[j]
  /\ store # Torn => store.upto[j] <= served[j]

\* A due job runs, whatever becomes of the jobs before it and of the saves of the API threads,
\* unless the service is stopped or the loop is ended by a failing save of its own.
DueJobRuns == \A j \in Job :
  j \in jobs /\ Due(j) /\ cron = "on" ~> cron # "on" \/ j \notin jobs \/ ~Due(j)
=============================================================================
