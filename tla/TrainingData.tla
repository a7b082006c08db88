---------------------------- MODULE TrainingData ----------------------------
(***************************************************************************)
(* Training data of the canonical store: what a training process loads for *)
(* a cutoff date (DataManager.load_stock_data, TrainingDatasetBuilder),    *)
(* while other processes synchronise bars and financial reports.           *)
(*                                                                         *)
(* A load reads the store in several transactions.  Prices are abstracted  *)
(* away: a bar is its stock and its trading day, and a rolling factor is   *)
(* known (TRUE) or not (NaN): the frame it was computed from was too short.*)
(***************************************************************************)
EXTENDS Integers, FiniteSets

CONSTANTS
  Codes,       \* stocks, numbers in the order of their codes
  LastDay,     \* trading days 1 .. LastDay
  Reports,     \* reports that may be synchronised: [code, report, publish], publish 0 if unknown
  StockCount, MinHistory,
  Lookback,    \* _TRAINING_MIN_LOOKBACK, and the longest rolling window
  Buffer,      \* _TRAINING_PRE_CUTOFF_BUFFER
  Future,      \* include_future_days, in trading days
  OnlineAllowed, MockAllowed

ASSUME TrainingDataConstants ==
  /\ Codes \subseteq Nat
  /\ {LastDay, StockCount, MinHistory, Lookback, Buffer} \subseteq Nat \ {0}
  /\ Future \in Nat
  /\ {OnlineAllowed, MockAllowed} \subseteq BOOLEAN

VARIABLES
  bars,      \* daily_bar: {<<code, day>>}
  factors,   \* factor_snapshot: <<code, day>> to whether the rolling factors are known
  reports,   \* financial_snapshot
  known,     \* has_daily_bars as this process remembers it; <<>> before it asked
  load       \* the load under way, or the last one

dataVars == <<bars, factors, reports, known, load>>

AllBars == Codes \X (1 .. LastDay)

HistoryLimit ==
  LET longest == IF MinHistory > Lookback THEN MinHistory ELSE Lookback IN longest + Buffer

History(c, cutoff) == {d \in 1 .. cutoff : <<c, d>> \in bars}

\* Mutant: bars after the cutoff count
LongEnough_AnyDay(cutoff) == {c \in Codes : Cardinality({b \in bars : b[1] = c}) >= MinHistory}

\* count_codes_with_history and select_codes_with_history
LongEnough(cutoff) == {c \in Codes : Cardinality(History(c, cutoff)) >= MinHistory}

Effective(r) == IF r.publish # 0 THEN r.publish ELSE r.report

\* Mutant: reports are known from the date they report on
LatestReports_ByReport(c, cutoff) ==
  LET seen == {r \in reports : r.code = c /\ r.report <= cutoff}
  IN  {r \in seen : \A q \in seen : Effective(q) <= Effective(r)}

\* query_latest_financial_snapshots: every report of the latest effective date
LatestReports(c, cutoff) ==
  LET seen == {r \in reports : r.code = c /\ Effective(r) <= cutoff}
  IN  {r \in seen : \A q \in seen : Effective(q) <= Effective(r)}

NoLoad == [stage |-> "idle", cutoff |-> 1, ready |-> FALSE, codes |-> {},
         rows |-> {}, frames |-> <<>>, source |-> "unknown"]

DataInit ==
  /\ bars \in {{}, {<<c, d>> : c \in Codes, d \in 1 .. MinHistory}}
  /\ factors = <<>>
  /\ reports = {}
  /\ known = <<>>
  /\ load = NoLoad

---------------------------------------------------------------------------
(* Synchronisation by other processes *)

\* sync_daily_bars, per code: INSERT OR REPLACE up to some day; a code may fail
SyncBars(c) ==
  /\ \E last \in 1 .. LastDay : bars' = bars \cup {<<c, d>> : d \in 1 .. last}
  /\ bars' # bars
  /\ UNCHANGED <<factors, reports, known, load>>

\* sync_financial_snapshots_*: a report replaces what is stored under its report date
SyncReport ==
  /\ \E r \in Reports \ reports :
       reports' = {q \in reports : q.code # r.code \/ q.report # r.report} \cup {r}
  /\ UNCHANGED <<bars, factors, known, load>>

---------------------------------------------------------------------------
(* A load *)

\* DataManager.__init__: the repository object remembers whether there were bars
Construct ==
  /\ known = <<>>
  /\ known' = <<bars # {}>>
  /\ UNCHANGED <<bars, factors, reports, load>>

\* check_training_readiness
Check ==
  /\ known # <<>> /\ load.stage = "idle"
  /\ \E cutoff \in 1 .. LastDay :
       load' = [NoLoad EXCEPT !.stage = IF known[1] THEN "checked" ELSE "missed",
                            !.cutoff = cutoff,
                            !.ready = LongEnough(cutoff) # {}]
  /\ UNCHANGED <<bars, factors, reports, known>>

\* The codes with most history first: select_codes_with_history(..., stock_count)
ByHistory(codes, cutoff) ==
  LET Before(a, b) == \/ Cardinality(History(a, cutoff)) > Cardinality(History(b, cutoff))
                      \/ /\ Cardinality(History(a, cutoff)) = Cardinality(History(b, cutoff))
                         /\ a < b
  IN  {c \in codes : Cardinality({b \in codes : Before(b, c)}) < StockCount}

\* ensure_runtime_derivatives, when capital flow is asked for: the factors of the days from
\* some first one on are written anew from the bars of those days alone
Derive ==
  /\ load.stage = "checked"
  /\ \E first \in 1 .. load.cutoff :
       LET end == load.cutoff + Future
           Window(c, d) == {e \in first .. d : <<c, e>> \in bars}
           fresh == {b \in bars : b[1] \in ByHistory(LongEnough(load.cutoff), load.cutoff) /\
                                  b[2] \in first .. end}
       IN  factors' = [b \in fresh \cup DOMAIN factors |->
                         IF b \in fresh THEN Cardinality(Window(b[1], b[2])) >= Lookback ELSE factors[b]]
  /\ load' = [load EXCEPT !.stage = "derived"]
  /\ UNCHANGED <<bars, reports, known>>

\* get_stocks, phase 1: the universe, ranked or sampled
Select ==
  /\ load.stage \in {"checked", "derived"}
  /\ LET codes == LongEnough(load.cutoff) IN
       IF codes = {} THEN load' = [load EXCEPT !.stage = "missed"]
       ELSE \E chosen \in {ByHistory(codes, load.cutoff)} \cup
                          {s \in SUBSET codes : Cardinality(s) = StockCount} :
              load' = [load EXCEPT !.stage = "selected", !.codes = chosen]
  /\ UNCHANGED <<bars, factors, reports, known>>

\* Phase 2, query_training_bars: of each stock the last HistoryLimit bars up to the cutoff
\* and those after it, with the factors stored for them
QueryBars ==
  /\ load.stage = "selected"
  /\ LET Recent(c) == {d \in History(c, load.cutoff) :
                         Cardinality({e \in History(c, load.cutoff) : e > d}) < HistoryLimit}
         After(c) == {d \in load.cutoff + 1 .. load.cutoff + Future : <<c, d>> \in bars}
         stored == [b \in bars |-> IF b \in DOMAIN factors THEN factors[b] ELSE FALSE]
     IN  load' = [load EXCEPT !.stage = "queried",
                    !.rows = {<<b[1], b[2], stored[b]>> :
                                b \in {x \in bars : /\ x[1] \in load.codes
                                                    /\ x[2] \in Recent(x[1]) \cup After(x[1])}}]
  /\ UNCHANGED <<bars, factors, reports, known>>

RowsOf(c) == {r \in load.rows : r[1] = c}
DaysOf(c) == {r[2] : r \in RowsOf(c)}

\* Phase 3, _prepare_training_frames: stocks with enough history; the latest reports are
\* merged in, which repeats a row for each; and factors that are not stored are computed
\* from the rows at hand: a row's is known if there are Lookback rows up to its place.
EnoughRows == {c \in load.codes : Cardinality({d \in DaysOf(c) : d <= load.cutoff}) >= MinHistory}
Copies(c) ==
  LET n == Cardinality(LatestReports(c, load.cutoff)) IN IF n = 0 THEN 1 ELSE n
RowIn(c, r, copy) ==
  [day   |-> r[2],
   whole |-> r[3] \/ Copies(c) * Cardinality({e \in DaysOf(c) : e < r[2]}) + copy >= Lookback]
FrameOf(c) == {RowIn(c, r, copy) : r \in RowsOf(c), copy \in 1 .. Copies(c)}

Prepare ==
  /\ load.stage = "queried"
  /\ load' = [load EXCEPT
       !.stage = IF EnoughRows = {} THEN "missed" ELSE "done",
       !.rows = {},
       !.frames = [c \in EnoughRows |-> [rows |-> FrameOf(c), reports |-> LatestReports(c, load.cutoff)]],
       !.source = IF EnoughRows = {} THEN load.source ELSE "offline"]
  /\ UNCHANGED <<bars, factors, reports, known>>

\* Online, mock, or DataSourceUnavailableError
FallBack ==
  /\ load.stage = "missed"
  /\ \E online \in (IF OnlineAllowed THEN BOOLEAN ELSE {FALSE}) :
       load' = [load EXCEPT !.stage = "done",
                            !.source = CASE online -> "online"
                                         [] ~online /\ MockAllowed -> "mock"
                                         [] ~online /\ ~MockAllowed -> "unavailable"]
  /\ UNCHANGED <<bars, factors, reports, known>>

\* The cycle goes on with what it got
Used ==
  /\ load.stage = "done"
  /\ load' = NoLoad
  /\ UNCHANGED <<bars, factors, reports, known>>

DataNext ==
  \/ \E c \in Codes : SyncBars(c)
  \/ SyncReport
  \/ Construct \/ Check \/ Derive \/ Select \/ QueryBars \/ Prepare \/ FallBack \/ Used

DataSpec == DataInit /\ [][DataNext]_dataVars

---------------------------------------------------------------------------
(* Properties *)

DataTypeOK ==
  /\ bars \subseteq AllBars
  /\ DOMAIN factors \subseteq bars /\ \A b \in DOMAIN factors : factors[b] \in BOOLEAN
  /\ reports \subseteq Reports
  /\ known \in {<<>>, <<TRUE>>, <<FALSE>>}
  /\ load.stage \in {"idle", "checked", "derived", "selected", "queried", "missed", "done"}
  /\ load.codes \subseteq Codes

\* Data that were found ready are served from the store, whatever is synchronised between
\* the transactions of the load: the stages' ideas of "enough history" agree
ReadyIsServed ==
  load.stage = "done" /\ load.ready /\ known[1] => load.source = "offline"

\* A frame is as the market was known at the cutoff: no bar after the horizon, enough
\* history before it, and no report that was not out yet although the store has it already
PointInTime ==
  \A c \in DOMAIN load.frames : LET f == load.frames[c] IN
    /\ \A row \in f.rows : row.day <= load.cutoff + Future
    /\ Cardinality({row.day : row \in f.rows} \cap 1 .. load.cutoff) >= MinHistory
    /\ \A r \in f.reports : Effective(r) <= load.cutoff

\* The rows a decision looks at have their factors if the store has the bars for them, even
\* when a derivation for another cutoff has overwritten good ones with unknown ones
FactorsWhole ==
  \A c \in DOMAIN load.frames : \A row \in load.frames[c].rows :
    LET history == History(c, load.cutoff)
        recent == Cardinality({d \in history : d > row.day}) < Buffer
    IN  recent /\ Cardinality({d \in history : d <= row.day}) >= Lookback => row.whole

\* Data that were found ready are found again, and a cutoff hides nothing of the past and
\* shows nothing of the future, whatever is synchronised in the middle of a load.
LoadsAreSound == ReadyIsServed /\ PointInTime /\ FactorsWhole

=============================================================================
