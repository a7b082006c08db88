----------------------------- MODULE MarketData -----------------------------
(***************************************************************************)
(* The canonical market data store (market_data/): the synchronisations    *)
(* that write it - the server's background download, the command line of   *)
(* market_data.manager in a process of its own, and the tables a training  *)
(* run derives - the summaries of it that are kept in its own              *)
(* ingestion_meta table (status: 30 s, quality audit: 300 s) and in the    *)
(* memory of a DataManager, and the requests for them.                     *)
(*                                                                         *)
(* Every step is one SQLite transaction.  A summary is abstracted to its   *)
(* age and to whether a table was written since.  Ages are in ticks; a     *)
(* request sees at most one tick.                                          *)
(***************************************************************************)
EXTENDS Integers, Sequences

CONSTANTS
  Readers,      \* threads that answer data status requests, or diagnose training data
  Downloads,    \* threads, of any process, that carry out a synchronisation
  Taken,        \* bound: the stages that synchronisations consist of; StageNames in the code
  StatusAge,    \* _STATUS_SUMMARY_MAX_AGE_SECONDS, in ticks
  AuditAge,     \* _QUALITY_AUDIT_MAX_AGE_SECONDS and the TTL of the DataManager
  MaxAge        \* bound: ages are not told apart from here on

ASSUME MarketConstants ==
  /\ MaxAge \in Nat
  /\ {StatusAge, AuditAge} \subseteq 1 .. MaxAge

VARIABLES
  embedded,  \* the web server's _runtime is not None
  snap,      \* ingestion_meta: the two snapshots, at most one of each
  query,     \* per thread, its request for a summary
  work,      \* per thread of a synchronisation, where it is
  job,       \* _DATA_DOWNLOAD_JOB.status
  flag,      \* _data_download_running
  memory     \* DataManager._quality_audit_cache

marketVars == <<embedded, snap, query, work, job, flag, memory>>

Threads == Readers \cup Downloads

\* The counts of a summary: their age, whether a table was written since they were made,
\* and a ghost, see MarkRaced
Age == 0 .. MaxAge
Body == [age : Age, behind : BOOLEAN, raced : BOOLEAN]
None == <<>>
AtMostOne(S) == {s \in Seq(S) : Len(s) <= 1}
Dated == [body : Body, age : Age]

Kinds == {"fast", "slow", "audit", "diagnose"}
PCs == {"idle", "look", "store", "lookAudit", "lookInner", "storeInner", "storeAudit", "done"}
SummaryRequest == [pc : PCs, kind : Kinds, age : Age,
            counts : AtMostOne(Body),     \* computed, not stored yet
            answer : AtMostOne(Body)]     \* the part of the answer that was just made

NoRequest == [pc |-> "idle", kind |-> "fast", age |-> 0,
              counts |-> None, answer |-> None]

(* The stages of a synchronisation.  "ask": of the provider, or of the store, without which     *)
(* the stage returns at once; "write": rows of a table; "each": the same, once for each stock   *)
(* or report date; "note": what was done, in ingestion_meta; "audit": persist_audit.            *)

SecurityStage == <<"write", "note", "audit">>

\* derived from the dates of the bars
CalendarStage == <<"write", "note">>
DailyStage    == <<"each", "note">> \o CalendarStage \o <<"audit">>
IndexStage    == <<"each", "note">> \o CalendarStage \o <<"audit">>

TradeDatesStage == <<"ask", "write", "note">>
StatusStage     == <<"ask", "write", "note">>
FactorStage     == <<"ask", "write", "note">>
CapitalStage    == <<"write", "note">>
DragonStage     == <<"ask", "write", "note">>

\* The industries of the securities are written after the reports
BulkStage      == <<"ask", "each", "write", "note", "audit">>
FinancialStage == <<"ask", "each", "note", "audit">>
\* The securities are written after their bars
TushareStage   == <<"ask", "each", "write", "note", "audit">>

StageOps == [security |-> SecurityStage, daily |-> DailyStage, index |-> IndexStage,
             calendar |-> CalendarStage, tradeDates |-> TradeDatesStage, status |-> StatusStage,
             factors |-> FactorStage, capital |-> CapitalStage, dragon |-> DragonStage,
             bulk |-> BulkStage, financials |-> FinancialStage, tushare |-> TushareStage]

StageNames == {"security", "daily", "index", "calendar", "tradeDates", "status",
               "factors", "capital", "dragon", "bulk", "financials", "tushare"}

Part(stage) == IF stage \in Taken THEN <<stage>> ELSE <<>>

\* sync_background_full_refresh does one stage after another; sync_daily_bars does that of the
\* securities first when there are none.
Refreshes ==
  LET refresh == Part("security") \o Part("daily") \o Part("index")
  IN  {refresh, Part("security") \o refresh}

\* What a command line does: with --source akshare what its options ask for, in this order, or
\* else the calendar; with baostock the calendar or the refresh; with tushare the financials
\* or the bars.  An option that the source does not provide ends it.
CommandLines ==
  LET Opt(stage, options) == IF stage \in options THEN Part(stage) ELSE <<>>
  IN  {Opt("tradeDates", options) \o Opt("capital", options) \o Opt("dragon", options)
         \o Opt("bulk", options)
         : options \in (SUBSET {"tradeDates", "capital", "dragon", "bulk"}) \ {{}}}
      \cup {Part("calendar"), Part("financials"), Part("tushare")} \cup Refreshes

\* What a training run derives before it loads; an error of the last stage is swallowed.
Derivatives ==
  LET derived == Part("calendar") \o Part("status") \o Part("factors")
  IN  {derived, derived \o Part("capital")}

\* todo: the stages left, at: the place in the first one, 0 if the thread has not begun to
\* run; half: committed, and not invalidated yet; served: the server keeps a job of it
Work == [todo : Seq(StageNames), at : Nat, half : BOOLEAN, auditing : BOOLEAN, served : BOOLEAN]
Free == [todo |-> <<>>, at |-> 0, half |-> FALSE, auditing |-> FALSE, served |-> FALSE]
NotBegun == [Free EXCEPT !.served = TRUE]

Idle(d) == work[d] = Free

MarketInit ==
  /\ embedded \in BOOLEAN
  /\ snap = [status |-> None, audit |-> None]
  /\ query = [t \in Threads |-> NoRequest]
  /\ work = [d \in Downloads |-> Free]
  /\ job = "idle"
  /\ flag = FALSE
  /\ memory = None

---------------------------------------------------------------------------
(* Requests for the status and the audit *)

YoungerThan(s, age) == s # None /\ s[1].age <= age

Counts == [age |-> 0, behind |-> FALSE, raced |-> FALSE]

\* Of the counts in an answer only the age is followed any further
AgeOf(b) == [b EXCEPT !.behind = FALSE, !.raced = FALSE]

\* get_status_summary(refresh) of a web thread, or the audit of another caller
Ask(t, kind) ==
  /\ query[t].pc = "idle"
  /\ query' = [query EXCEPT ![t] =
       [NoRequest EXCEPT !.pc = IF kind \in {"fast", "slow"} THEN "look" ELSE "lookAudit",
                         !.kind = kind]]

AskStatus(t) ==
  /\ t \in Readers
  /\ \E kind \in {"fast", "slow"} : Ask(t, kind)
  /\ UNCHANGED <<embedded, snap, work, job, flag, memory>>

\* MarketDataRepository.get_status_summary: the snapshot if it may be used, else a count
Look(t) ==
  /\ query[t].pc = "look"
  /\ IF query[t].kind = "fast" /\ YoungerThan(snap.status, StatusAge)
     THEN query' = [query EXCEPT ![t].pc = "lookAudit", ![t].answer = <<AgeOf(snap.status[1].body)>>]
     ELSE query' = [query EXCEPT ![t].pc = "store", ![t].counts = <<Counts>>]
  /\ UNCHANGED <<embedded, snap, work, job, flag, memory>>

\* ... and the count becomes the snapshot, dated now
Store(t) ==
  /\ query[t].pc = "store"
  /\ snap' = [snap EXCEPT !.status = <<[body |-> query[t].counts[1], age |-> 0]>>]
  /\ query' = [query EXCEPT ![t].pc = "lookAudit", ![t].counts = None,
                        ![t].answer = <<AgeOf(query[t].counts[1])>>]
  /\ UNCHANGED <<embedded, work, job, flag, memory>>

\* DataQualityService.audit: the snapshot if it may be used
LookAudit(t) ==
  /\ query[t].pc = "lookAudit"
  /\ IF query[t].kind \in {"fast", "diagnose"} /\ YoungerThan(snap.audit, AuditAge)
     THEN query' = [query EXCEPT ![t].pc = "done", ![t].answer = <<AgeOf(snap.audit[1].body)>>]
     ELSE query' = [query EXCEPT ![t].pc = "lookInner", ![t].answer = None]
  /\ UNCHANGED <<embedded, snap, work, job, flag, memory>>

\* _compute_audit_payload asks for the status, which may come from its snapshot
LookInner(t) ==
  /\ query[t].pc = "lookInner"
  /\ IF YoungerThan(snap.status, StatusAge)
     THEN query' = [query EXCEPT ![t].pc = "storeAudit", ![t].counts = <<snap.status[1].body>>]
     ELSE query' = [query EXCEPT ![t].pc = "storeInner", ![t].counts = <<Counts>>]
  /\ UNCHANGED <<embedded, snap, work, job, flag, memory>>

StoreInner(t) ==
  /\ query[t].pc = "storeInner"
  /\ snap' = [snap EXCEPT !.status = <<[body |-> query[t].counts[1], age |-> 0]>>]
  /\ query' = [query EXCEPT ![t].pc = "storeAudit"]
  /\ UNCHANGED <<embedded, work, job, flag, memory>>

StoreAudit(t) ==
  /\ query[t].pc = "storeAudit"
  /\ snap' = [snap EXCEPT !.audit = <<[body |-> query[t].counts[1], age |-> 0]>>]
  /\ query' = [query EXCEPT ![t].pc = "done", ![t].counts = None,
                        ![t].answer = <<AgeOf(query[t].counts[1])>>]
  /\ UNCHANGED <<embedded, work, job, flag, memory>>

\* The answer goes to whoever asked, or the store raises and there is none
SummaryAnswered(t) ==
  /\ t \in Readers /\ query[t].pc # "idle"
  /\ query[t].pc = "done" => query[t].kind # "diagnose"
  /\ query' = [query EXCEPT ![t] = NoRequest]
  /\ UNCHANGED <<embedded, snap, work, job, flag, memory>>

SummaryStep(t) ==
  Look(t) \/ Store(t) \/ LookAudit(t) \/ LookInner(t) \/ StoreInner(t) \/ StoreAudit(t)

---------------------------------------------------------------------------
(* The download *)

\* trigger_data_download: _DATA_DOWNLOAD_JOB.status is tested here and set by the thread
TriggerJob(d) ==
  /\ embedded /\ Idle(d)
  /\ job # "running"
  /\ work' = [work EXCEPT ![d] = NotBegun]
  /\ UNCHANGED <<embedded, snap, query, job, flag, memory>>

\* POST /api/data/download without a runtime: tested and set under one lock.  (A thread
\* that cannot be started puts the flag back, and nothing has happened.)
TriggerFlag(d) ==
  /\ ~embedded /\ Idle(d)
  /\ ~flag
  /\ flag' = TRUE
  /\ work' = [work EXCEPT ![d] = NotBegun]
  /\ UNCHANGED <<embedded, snap, query, job, memory>>

\* A command of another process, or a training run: there is no job of it
RunSync(d) ==
  /\ Idle(d)
  /\ \E stages \in CommandLines \cup Derivatives :
       work' = [work EXCEPT ![d] = [Free EXCEPT !.todo = stages, !.at = 1]]
  /\ UNCHANGED <<embedded, snap, query, job, flag, memory>>

Begin(d) ==
  /\ work[d] = NotBegun
  /\ \E stages \in Refreshes :
       work' = [work EXCEPT ![d] = [NotBegun EXCEPT !.todo = stages, !.at = 1]]
  /\ job' = IF embedded THEN "running" ELSE job
  /\ UNCHANGED <<embedded, snap, query, flag, memory>>

OpIn(w, ops) ==
  /\ w.todo # <<>>
  /\ w.at \in DOMAIN StageOps[Head(w.todo)] /\ StageOps[Head(w.todo)][w.at] \in ops

At(d, ops) == OpIn(work[d], ops)

Writing == {"write", "each"}

\* The next operation, of this stage or of the next one
StageOver(w) == [w EXCEPT !.todo = Tail(@), !.at = 1, !.half = FALSE, !.auditing = FALSE]
NextOp(w) ==
  IF w.at < Len(StageOps[Head(w.todo)])
  THEN [w EXCEPT !.at = @ + 1, !.half = FALSE, !.auditing = FALSE]
  ELSE StageOver(w)

\* f applied to counts: those a request made, and those of a snapshot
Each(f(_), o) == [i \in DOMAIN o |-> f(o[i])]
EachDated(f(_), o) == [i \in DOMAIN o |-> [o[i] EXCEPT !.body = f(@)]]
EachRequest(f(_)) == [t \in Threads |-> [query[t] EXCEPT !.counts = Each(f, @)]]

\* A table is written: INSERT OR REPLACE, then the transaction is committed
Write(d) ==
  /\ At(d, Writing) /\ ~work[d].half
  /\ LET Left(b) == [b EXCEPT !.behind = TRUE]
     IN  /\ snap' = [k \in DOMAIN snap |-> EachDated(Left, snap[k])]
         /\ query' = EachRequest(Left)
  /\ work' = [work EXCEPT ![d].half = TRUE]
  /\ UNCHANGED <<embedded, job, flag, memory>>

\* Nothing (more) to write: the provider answered with an error or without rows.  After "ask"
\* there is something.
Skip(d) ==
  /\ At(d, Writing \cup {"ask"}) /\ ~work[d].half
  /\ work' = [work EXCEPT ![d] = NextOp(@)]
  /\ UNCHANGED <<embedded, snap, query, job, flag, memory>>

\* The early returns of a stage
NothingThere(d) ==
  /\ At(d, {"ask"})
  /\ work' = [work EXCEPT ![d] = StageOver(@)]
  /\ UNCHANGED <<embedded, snap, query, job, flag, memory>>

Missed(b) == [b EXCEPT !.raced = b.behind]

\* Ghost: the counts on their way to a snapshot that the invalidation comes too early for
MarkRaced(d) == query' = [EachRequest(Missed) EXCEPT ![d] = NoRequest]

\* After a table was written, after notes were, and after the notes of an audit.  (That
\* notes are written, by a transaction before this one, concerns no summary.)
ToInvalidate(d) ==
  \/ work[d].half
  \/ At(d, {"note"})
  \/ work[d].auditing /\ query[d].pc = "done"

\* Back in the loop over stocks, or on
Announced(w) == IF OpIn(w, {"each"}) THEN [w EXCEPT !.half = FALSE] ELSE NextOp(w)

\* Mutant: only the status snapshot is deleted
Invalidate_StatusOnly(d) ==
  /\ ToInvalidate(d)
  /\ snap' = [snap EXCEPT !.status = None]
  /\ work' = [work EXCEPT ![d] = Announced(@)]
  /\ MarkRaced(d)
  /\ UNCHANGED <<embedded, job, flag, memory>>

\* _invalidate_status_summary_snapshot: a transaction of its own
Invalidate(d) ==
  /\ ToInvalidate(d)
  /\ snap' = [status |-> None, audit |-> None]
  /\ work' = [work EXCEPT ![d] = Announced(@)]
  /\ MarkRaced(d)
  /\ UNCHANGED <<embedded, job, flag, memory>>

\* persist_audit: an audit, whose notes then delete the snapshots it has just made
Audit(d) ==
  /\ At(d, {"audit"}) /\ ~work[d].auditing
  /\ Ask(d, "audit")
  /\ work' = [work EXCEPT ![d].auditing = TRUE]
  /\ UNCHANGED <<embedded, snap, job, flag, memory>>

\* Mutant: a failure leaves the status as it is
End_StatusKept(d, status) ==
  /\ work' = [work EXCEPT ![d] = Free]
  /\ job' = IF work[d].served /\ embedded /\ status = "ok" THEN status ELSE job
  /\ flag' = IF work[d].served /\ ~embedded THEN FALSE ELSE flag
  /\ query' = [query EXCEPT ![d] = NoRequest]
  /\ UNCHANGED <<embedded, snap, memory>>

\* The thread is over
End(d, status) ==
  /\ work' = [work EXCEPT ![d] = Free]
  /\ job' = IF work[d].served /\ embedded THEN status ELSE job
  /\ flag' = IF work[d].served /\ ~embedded THEN FALSE ELSE flag
  /\ query' = [query EXCEPT ![d] = NoRequest]
  /\ UNCHANGED <<embedded, snap, memory>>

Finish(d) == work[d].todo = <<>> /\ work[d].at = 1 /\ End(d, "ok")

\* The provider refuses the login, or a call of it or of the store raises
Fail(d) == work[d].todo # <<>> /\ ~work[d].half /\ End(d, "error")

\* The invalidation raises after the commit: the snapshots stay, and nobody will announce it
FailHalf(d) ==
  /\ work[d].half
  /\ work' = [work EXCEPT ![d] = Free]
  /\ job' = IF work[d].served /\ embedded THEN "error" ELSE job
  /\ flag' = IF work[d].served /\ ~embedded THEN FALSE ELSE flag
  /\ snap' = [k \in DOMAIN snap |-> EachDated(Missed, snap[k])]
  /\ MarkRaced(d)
  /\ UNCHANGED <<embedded, memory>>

DownloadStep(d) ==
  \/ Begin(d) \/ Write(d) \/ Skip(d) \/ NothingThere(d) \/ Invalidate(d)
  \/ Audit(d) \/ (work[d].auditing /\ SummaryStep(d))
  \/ Finish(d) \/ Fail(d) \/ FailHalf(d)

---------------------------------------------------------------------------
(* The DataManager *)

\* diagnose_training_data: _get_cached_quality_audit
Diagnose(t) ==
  /\ t \in Readers
  /\ memory = None      \* or expired
  /\ Ask(t, "diagnose")
  /\ UNCHANGED <<embedded, snap, work, job, flag, memory>>

\* The audit is remembered under the time it was asked for
Remember(t) ==
  /\ t \in Readers /\ query[t].pc = "done" /\ query[t].kind = "diagnose"
  /\ memory' = <<[body |-> query[t].answer[1], age |-> query[t].age]>>
  /\ query' = [query EXCEPT ![t] = NoRequest]
  /\ UNCHANGED <<embedded, snap, work, job, flag>>

\* Time passes, and a request is answered before it does so again
Tick ==
  /\ \A t \in Threads : query[t].pc = "idle" \/ query[t].age = 0
  /\ LET Older(n) == IF n < MaxAge THEN n + 1 ELSE n
         OlderBody(b) == [b EXCEPT !.age = Older(@)]
         \* one that has expired is as good as none
         OlderDated(o, limit) ==
           IF o = None \/ o[1].age = limit THEN None
           ELSE <<[body |-> OlderBody(o[1].body), age |-> o[1].age + 1]>>
     IN  /\ snap' = [status |-> OlderDated(snap.status, StatusAge),
                     audit |-> OlderDated(snap.audit, AuditAge)]
         /\ memory' = OlderDated(memory, AuditAge)
         /\ query' = [t \in Threads |->
                      IF query[t].pc = "idle" THEN query[t]
                      ELSE [EachRequest(OlderBody)[t] EXCEPT !.answer = Each(OlderBody, @),
                                                             !.age = Older(@)]]
  /\ UNCHANGED <<embedded, work, job, flag>>

MarketNext ==
  \/ \E t \in Readers :
       AskStatus(t) \/ Diagnose(t) \/ SummaryStep(t) \/ SummaryAnswered(t) \/ Remember(t)
  \/ \E d \in Downloads : TriggerJob(d) \/ TriggerFlag(d) \/ RunSync(d) \/ DownloadStep(d)
  \/ Tick

MarketSpec == MarketInit /\ [][MarketNext]_marketVars

---------------------------------------------------------------------------
(* Properties *)

MarketTypeOK ==
  /\ embedded \in BOOLEAN
  /\ snap \in [status : AtMostOne(Dated), audit : AtMostOne(Dated)]
  /\ query \in [Threads -> SummaryRequest]
  /\ work \in [Downloads -> Work]
  /\ job \in {"idle", "running", "ok", "error"}
  /\ flag \in BOOLEAN
  /\ memory \in AtMostOne(Dated)

\* A snapshot made before the last commit is about to be deleted, or it was stored by a
\* request whose counts the invalidation came too early for, or the invalidation raised: no
\* writer forgets to invalidate, whatever requests do in the meantime
SnapshotsAreInvalidated ==
  \A s \in {snap.status, snap.audit} :
    s # None /\ s[1].body.behind =>
      s[1].body.raced \/ \E d \in Downloads : work[d].half

\* However the two snapshots and the manager's memory feed on each other, an answer is not
\* older than the ages allowed add up to, with the time the requests themselves take; and
\* the summary of a refresh is from the time of the request
AnswersAreRecent ==
  /\ \A t \in Threads : LET r == query[t] IN
       r.answer # None => r.answer[1].age <= r.age +
         CASE r.pc = "lookAudit" /\ r.kind = "slow" -> 0
           [] r.pc = "lookAudit" /\ r.kind = "fast" -> StatusAge + 1
           [] r.pc = "done" /\ r.kind \in {"slow", "audit"} -> StatusAge + 1
           [] r.pc = "done" /\ r.kind \in {"fast", "diagnose"} -> StatusAge + AuditAge + 2
  /\ memory # None => memory[1].body.age <= 2 * (AuditAge + 1) + StatusAge

\* A download said to be running, by the job's status or by the flag, has a thread that will
\* say otherwise, whichever of its stages raises
RunningIsTrue == job = "running" \/ flag => \E d \in Downloads : work[d].served

\* What is shown of the store is not stale without a reason: a summary was invalidated in
\* time, no cache kept it past its age, and a running download has a thread.
StoreIsShown == SnapshotsAreInvalidated /\ AnswersAreRecent /\ RunningIsTrue
=============================================================================
