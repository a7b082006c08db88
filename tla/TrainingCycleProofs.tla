------------------------ MODULE TrainingCycleProofs ------------------------
(***************************************************************************)
(* TrainingCycle for any models and policies and any number of attempts:   *)
(* its state is well typed, the parameters in force are those of the       *)
(* configuration in force, and a pending candidate is carried from each    *)
(* cycle recorded to the next.  Then Review: the track record is true, and *)
(* advice is earned; TrainingData: loads of training data are sound        *)
(* whatever other processes synchronise in between; Tuning: no generation  *)
(* of a configuration drifts from the shipped file, and a profitable cycle *)
(* only tightens its stops; and Meeting: what is chosen does not depend on *)
(* the threads, and what is traded keeps within the budget of the regime.  *)
(***************************************************************************)
EXTENDS TrainingCycle, Review, TrainingData, Tuning, Meeting, FiniteSetTheorems, SequenceTheorems, WellFoundedInduction, TLAPS

\* A bounded set of natural numbers that is not empty has a maximum.
LEMMA MaxExists ==
  ASSUME NEW n \in Nat, NEW S \in SUBSET (1 .. n), S # {}
  PROVE  Max(S) \in S /\ \A y \in S : Max(S) >= y
<1> DEFINE R == OpToRel(<, Nat)
           T == {n - x : x \in S}
<1>1. IsWellFoundedOn(R, Nat)
  BY NatLessThanWellFounded
<1>2. T \subseteq Nat /\ T # {}
  <2>1. \A x \in S : n - x \in Nat
    OBVIOUS
  <2>2. PICK x \in S : TRUE
    OBVIOUS
  <2>3. n - x \in T
    OBVIOUS
  <2> QED
    BY <2>1, <2>3
<1>3. PICK t \in T : \A u \in T : ~ (<<u, t>> \in R)
  <2> HIDE DEF R, T
  <2> QED
    BY <1>1, <1>2, WFMin
<1>4. \A u \in T : ~ (u < t)
  BY <1>2, <1>3 DEF OpToRel
<1>5. PICK x \in S : t = n - x
  OBVIOUS
<1>6. \A y \in S : x >= y
  BY <1>4, <1>5
<1> QED
  BY <1>6 DEF Max

---------------------------------------------------------------------------
InCycle == {"loading", "routed", "window", "counted", "reviewed", "built"}

\* A cycle under way has not been recorded, and no window is open outside one.
Place ==
  /\ pc \in InCycle => Len(history) < attempts
  /\ pc \in {"idle", "loading", "routed", "ended"} => ~locked

\* What ParamsOfActive needs while a window is open.
ParamsInv ==
  ~autoApply /\ ~mishap.reset => params = active /\ (locked => start = active)

\* What PendingIsCarried needs: which cycles may leave a candidate pending, and which
\* outcomes the cycle under way may have reached.
PendingInv ==
  /\ \A i \in DOMAIN history :
       history[i].status = "candidate_pending" => history[i].cand # 0 /\ ~autoApply
  /\ pc = "built" => /\ work.outcome = "built" => Open = 0 /\ ~autoApply
                     /\ work.outcome = "applied" => autoApply

CycleInv == CycleTypeOK /\ Place /\ ParamsInv /\ PendingInv /\ PendingIsCarried

\* The candidate that is open is one a cycle built; a candidate pending at the end of
\* the history is the one.
LEMMA OpenCandidate ==
  ASSUME history \in Seq(Cycle)
  PROVE  /\ Open \in 0 .. MaxAttempts
         /\ Len(history) # 0 /\ history[Len(history)].status = "candidate_pending"
              => Open = history[Len(history)].cand
         /\ (\A i \in DOMAIN history : history[i].status # "candidate_pending") => Open = 0
<1> DEFINE n == Len(history)
           P == {i \in DOMAIN history : history[i].status = "candidate_pending"}
<1>1. n \in Nat /\ DOMAIN history = 1 .. n /\ \A i \in 1 .. n : history[i] \in Cycle
  OBVIOUS
<1>2. P \in SUBSET (1 .. n)
  BY <1>1
<1>3. ASSUME P # {} PROVE Max(P) \in P /\ \A y \in P : Max(P) >= y
  <2> HIDE DEF n, P
  <2> QED
    BY <1>1, <1>2, <1>3, MaxExists
<1>4. Open = IF P = {} THEN 0 ELSE history[Max(P)].cand
  BY DEF Open
<1>5. Open \in 0 .. MaxAttempts
  BY <1>1, <1>2, <1>3, <1>4, CycleConstants DEF Cycle
<1>6. ASSUME n # 0, history[n].status = "candidate_pending" PROVE Open = history[n].cand
  <2>1. n \in P
    BY <1>1, <1>6
  <2>2. Max(P) \in P /\ Max(P) >= n
    BY <1>3, <2>1
  <2>3. Max(P) \in 1 .. n
    BY <1>2, <2>2
  <2>4. Max(P) = n
    BY <1>1, <2>2, <2>3
  <2>5. P # {}
    BY <2>1
  <2> QED
    BY <1>4, <2>4, <2>5
<1>7. ASSUME \A i \in DOMAIN history : history[i].status # "candidate_pending" PROVE Open = 0
  BY <1>4, <1>7
<1> QED
  BY <1>5, <1>6, <1>7

LEMMA CycleInitInv == CycleInit => CycleInv
<1> SUFFICES ASSUME CycleInit PROVE CycleInv
  OBVIOUS
<1> USE CycleConstants DEF CycleInit
<1>1. history \in Seq(Cycle) /\ Len(history) = 0 /\ DOMAIN history = {}
  OBVIOUS
<1>2. active \in Config
  <2>1. PICK m \in Models : active = <<m, 0>>
    BY DEF Shipped
  <2>2. 0 \in 0 .. MaxAttempts
    OBVIOUS
  <2> QED
    BY <2>1, <2>2 DEF Config
<1>3. work \in Work /\ mishap \in Fault
  BY DEF NoWork, Work, Verdict, Fault
<1>4. losses \in Nat /\ attempts \in 0 .. MaxAttempts
  OBVIOUS
<1>5. CycleTypeOK
  <2>1. Len(history) <= attempts
    BY <1>1
  <2>2. start \in IF locked THEN Config ELSE {NoParams}
    OBVIOUS
  <2>3. driver \in {"continuous", "body"} /\ autoApply \in BOOLEAN /\ locked \in BOOLEAN
        /\ params \in Config
    BY <1>2
  <2> QED
    BY <1>1, <1>2, <1>3, <1>4, <2>1, <2>2, <2>3 DEF CycleTypeOK
<1>6. Place /\ ParamsInv /\ PendingInv /\ PendingIsCarried
  BY <1>1 DEF Place, InCycle, ParamsInv, PendingInv, PendingIsCarried
<1> QED
  BY <1>5, <1>6 DEF CycleInv

\* Closing a window, or finding none to close, leaves parameters of the right kind.
LEMMA Closed ==
  ASSUME CycleTypeOK, ParamsInv, CloseWindow,
         autoApply' = autoApply, mishap'.reset = mishap.reset
  PROVE  /\ active' \in Config /\ params' \in Config /\ locked' = FALSE
         /\ start' = NoParams /\ work' \in Work
         /\ ParamsInv'
<1> USE DEF CycleTypeOK, CloseWindow
<1>1. /\ active' \in Config /\ params' \in Config /\ locked' = FALSE
      /\ start' = NoParams
  OBVIOUS
<1>2. work' \in Work
  BY DEF Work, NoWork, Verdict
<1>3. ParamsInv'
  BY DEF ParamsInv
<1> QED
  BY <1>1, <1>2, <1>3

\* What is recorded is a cycle, and takes over the candidate that is open.
LEMMA WorkIsRecorded ==
  ASSUME CycleInv, pc = "built", NEW against \in BOOLEAN
  PROVE  LET c == CandidateOf(work.outcome)  s == StatusOf(work.outcome, against) IN
         /\ c \in 0 .. MaxAttempts
         /\ StageOf(work.outcome, work.overrides) \in Stage
         /\ s \in Status
         /\ s = "candidate_pending" => c # 0 /\ ~autoApply
         /\ Len(history) # 0 /\ history[Len(history)].status = "candidate_pending"
              => c = history[Len(history)].cand
<1> DEFINE c == CandidateOf(work.outcome)
           s == StatusOf(work.outcome, against)
           n == Len(history)
<1> USE CycleConstants DEF CycleInv, CycleTypeOK
<1>1. n \in Nat /\ n < attempts /\ attempts <= MaxAttempts /\ DOMAIN history = 1 .. n
  BY DEF Place, InCycle
<1>2. Cid \in 1 .. MaxAttempts
  BY <1>1 DEF Cid
<1>3. c \in 0 .. MaxAttempts
  BY <1>2, OpenCandidate DEF CandidateOf
<1>4. work.outcome \in Verdict /\ work.overrides \in BOOLEAN
  BY DEF Work
<1>5. StageOf(work.outcome, work.overrides) \in Stage
  BY <1>4 DEF StageOf, Stage
<1>6. /\ work.outcome = "applied" => s = "candidate_applied"
      /\ work.outcome # "applied" /\ c = 0 => s = "active_only"
      /\ work.outcome # "applied" /\ c # 0
           => s \in {"candidate_expired", "candidate_pruned", "candidate_pending"}
  BY DEF StatusOf
<1>7. s \in Status
  BY <1>6 DEF Status, Terminal
<1>8. s = "candidate_pending" => c # 0 /\ work.outcome # "applied"
  BY <1>6
<1>9. autoApply /\ work.outcome # "applied" => c = 0
  <2> SUFFICES ASSUME autoApply, work.outcome # "applied" PROVE c = 0
    OBVIOUS
  <2>1. work.outcome # "built"
    BY DEF PendingInv
  <2>2. Open = 0
    BY OpenCandidate DEF PendingInv
  <2> QED
    BY <2>1, <2>2 DEF CandidateOf
<1>10. ASSUME n # 0, history[n].status = "candidate_pending" PROVE c = history[n].cand
  <2>1. history[n].cand # 0 /\ ~autoApply /\ Open = history[n].cand
    BY <1>1, <1>10, OpenCandidate DEF PendingInv
  <2>2. work.outcome \notin {"built", "applied"}
    BY <2>1 DEF PendingInv
  <2> QED
    BY <2>1, <2>2 DEF CandidateOf
<1> HIDE DEF c, s
<1> QED
  BY <1>3, <1>5, <1>7, <1>8, <1>9, <1>10 DEF c, s

\* A step that records nothing and builds nothing keeps what is known of candidates.
LEMMA NothingRecorded ==
  ASSUME CycleInv, history' = history, autoApply' = autoApply, pc' # "built"
  PROVE  PendingInv' /\ PendingIsCarried'
BY DEF CycleInv, PendingInv, PendingIsCarried

\* Refreshing effects keeps the length of the history, its candidates and their status.
LEMMA RefreshedCycles ==
  ASSUME history \in Seq(Cycle)
  PROVE  LET h == Refreshed(history) IN
         /\ h \in Seq(Cycle) /\ Len(h) = Len(history) /\ DOMAIN h = DOMAIN history
         /\ \A i \in DOMAIN history :
              /\ h[i].cand = history[i].cand /\ h[i].status = history[i].status
              /\ h[i].profit = history[i].profit /\ h[i].stage = history[i].stage
<1> DEFINE h == Refreshed(history)
           n == Len(history)
<1>1. n \in Nat /\ DOMAIN history = 1 .. n /\ \A i \in 1 .. n : history[i] \in Cycle
  OBVIOUS
<1>2. h = [i \in 1 .. n |-> IF history[i].effect = "pending" /\ n >= i + EffectWindow
                             THEN [history[i] EXCEPT !.effect = "done"] ELSE history[i]]
  BY <1>1 DEF Refreshed
<1> HIDE DEF h
<1>3. \A i \in 1 .. n : /\ h[i] \in Cycle
                        /\ h[i].cand = history[i].cand /\ h[i].status = history[i].status
                        /\ h[i].profit = history[i].profit /\ h[i].stage = history[i].stage
  BY <1>1, <1>2 DEF Cycle
<1>4. h \in [1 .. n -> Cycle]
  BY <1>2, <1>3
<1>5. h \in Seq(Cycle) /\ Len(h) = n /\ DOMAIN h = 1 .. n
  BY <1>1, <1>4
<1> QED
  BY <1>1, <1>3, <1>5 DEF h

\* Recording a cycle, the one step where the history grows.
LEMMA RecordStep ==
  ASSUME CycleInv, Record
  PROVE  history' \in Seq(Cycle) /\ Len(history') <= attempts /\ PendingInv' /\ PendingIsCarried'
<1> USE DEF CycleInv, CycleTypeOK, Record
<1> DEFINE n == Len(history)
<1>1. PICK against \in BOOLEAN :
        history' = Append(history,
          [profit |-> work.profit,
           cand   |-> CandidateOf(work.outcome),
           stage  |-> StageOf(work.outcome, work.overrides),
           status |-> StatusOf(work.outcome, against),
           effect |-> IF work.outcome \in {"built", "applied"} THEN "pending" ELSE "none"])
  OBVIOUS
<1> DEFINE r == [profit |-> work.profit,
                 cand   |-> CandidateOf(work.outcome),
                 stage  |-> StageOf(work.outcome, work.overrides),
                 status |-> StatusOf(work.outcome, against),
                 effect |-> IF work.outcome \in {"built", "applied"}
                            THEN "pending" ELSE "none"]
<1>2. /\ r \in Cycle
      /\ r.status = "candidate_pending" => r.cand # 0 /\ ~autoApply
      /\ n # 0 /\ history[n].status = "candidate_pending" => r.cand = history[n].cand
  BY WorkIsRecorded DEF Cycle, Work
<1>3. n \in Nat /\ n < attempts /\ attempts \in Nat /\ DOMAIN history = 1 .. n
  BY DEF Place, InCycle
<1> HIDE DEF r
<1>4. /\ history' \in Seq(Cycle) /\ Len(history') = n + 1 /\ DOMAIN history' = 1 .. n + 1
      /\ history'[n + 1] = r /\ \A i \in 1 .. n : history'[i] = history[i]
  BY <1>1, <1>2, <1>3 DEF r
<1>5. PendingInv'
  BY <1>2, <1>3, <1>4 DEF PendingInv, mode
<1>6. PendingIsCarried'
  <2> SUFFICES ASSUME NEW i \in 1 .. n, history'[i].status = "candidate_pending"
               PROVE  history'[i + 1].cand = history'[i].cand
    BY <1>3, <1>4 DEF PendingIsCarried
  <2>1. CASE i < n
    BY <1>3, <1>4, <2>1 DEF PendingIsCarried
  <2>2. CASE i = n
    BY <1>2, <1>3, <1>4, <2>2
  <2> QED
    BY <1>3, <2>1, <2>2
<1> QED
  BY <1>3, <1>4, <1>5, <1>6

LEMMA CycleStepInv == CycleInv /\ [CycleNext]_cycleVars => CycleInv'
<1> SUFFICES ASSUME CycleInv, [CycleNext]_cycleVars PROVE CycleInv'
  OBVIOUS
<1> USE CycleConstants DEF CycleInv, CycleTypeOK, Place, InCycle, mode, runtime
<1>0. Len(history) \in Nat
  OBVIOUS
<1>1. CASE Attempt
  <2>1. CycleTypeOK' /\ Place' /\ ParamsInv'
    BY <1>0, <1>1 DEF Attempt, ParamsInv
  <2> QED
    BY <1>1, <2>1, NothingRecorded DEF Attempt
<1>2. CASE NoData
  <2>1. CycleTypeOK' /\ Place' /\ ParamsInv'
    BY <1>0, <1>2 DEF NoData, ParamsInv
  <2> QED
    BY <1>2, <2>1, NothingRecorded DEF NoData
<1>3. CASE Route
  <2>1. /\ active' \in Config /\ params' \in Config /\ mishap' \in Fault
        /\ (params' = active') \/ UNCHANGED <<active, params, mishap>>
    <3>1. CASE UNCHANGED <<active, params, mishap>>
      BY <3>1
    <3>2. CASE \E m \in Models \ {active[1]} :
                 /\ active' = Shipped(m) /\ params' = Shipped(m)
                 /\ mishap' = [mishap EXCEPT !.reset = FALSE]
      <4>1. PICK m \in Models :
              /\ active' = Shipped(m) /\ params' = Shipped(m)
              /\ mishap' = [mishap EXCEPT !.reset = FALSE]
        BY <3>2
      <4>2. Shipped(m) \in Config
        BY DEF Shipped, Config
      <4>3. mishap' \in Fault
        BY <4>1 DEF Fault
      <4> QED
        BY <4>1, <4>2, <4>3
    <3> QED
      BY <1>3, <3>1, <3>2 DEF Route
  <2>2. CycleTypeOK' /\ Place' /\ ParamsInv'
    BY <1>0, <1>3, <2>1 DEF Route, ParamsInv
  <2> QED
    BY <1>3, <2>2, NothingRecorded DEF Route
<1>4. CASE OpenWindow
  <2>1. CycleTypeOK' /\ Place' /\ ParamsInv'
    BY <1>0, <1>4 DEF OpenWindow, ParamsInv
  <2> QED
    BY <1>4, <2>1, NothingRecorded DEF OpenWindow
<1>5. CASE Skip
  <2>1. CycleTypeOK' /\ Place' /\ ParamsInv'
    BY <1>0, <1>5, Closed DEF Skip
  <2> QED
    BY <1>5, <2>1, NothingRecorded DEF Skip
<1>6. CASE Simulate
  <2>1. losses' \in Nat
    BY <1>0, <1>6 DEF Simulate, CountedLosses, CycleInv, CycleTypeOK
  <2>2. work' \in Work
    BY <1>6 DEF Simulate, Work
  <2>3. CycleTypeOK' /\ Place' /\ ParamsInv'
    BY <1>0, <1>6, <2>1, <2>2 DEF Simulate, ParamsInv
  <2> QED
    BY <1>6, <2>3, NothingRecorded DEF Simulate
<1>7. CASE Review
  <2>1. work' \in Work
    BY <1>7 DEF Review, Work
  <2>2. CycleTypeOK' /\ Place' /\ ParamsInv'
    BY <1>0, <1>7, <2>1 DEF Review, ParamsInv
  <2> QED
    BY <1>7, <2>2, NothingRecorded DEF Review
<1>8. CASE Build
  <2>1. PICK o \in OutcomesOf(work.queued), overrides \in BOOLEAN :
          /\ work' = [work EXCEPT !.outcome = o, !.overrides = o = "applied" /\ overrides]
          /\ IF o = "applied"
             THEN active' = <<active[1], Cid>> /\ params' \in {params, active'}
             ELSE UNCHANGED <<active, params>>
    BY <1>8 DEF Build
  <2>2. /\ o \in Verdict
        /\ o = "built" => Open = 0 /\ ~autoApply
        /\ o = "applied" => autoApply
    BY <2>1 DEF OutcomesOf, Verdict, Work
  <2>3. work' \in Work /\ work'.outcome = o
    BY <2>1, <2>2 DEF Work
  <2>4. Cid \in 0 .. MaxAttempts
    BY <1>0, <1>8 DEF Build, Cid
  <2>5. active' \in Config /\ params' \in Config
    BY <2>1, <2>4 DEF Config
  <2>6. CycleTypeOK' /\ Place'
    BY <1>0, <1>8, <2>3, <2>5 DEF Build
  <2>7. ParamsInv'
    BY <1>8, <2>1, <2>2 DEF Build, ParamsInv
  <2>8. PendingInv' /\ PendingIsCarried'
    BY <1>8, <2>2, <2>3 DEF Build, PendingInv, PendingIsCarried, Open
  <2> QED
    BY <2>6, <2>7, <2>8
<1>9. CASE Record
  <2>1. mishap' \in Fault
    BY <1>9 DEF Record, Fault, Work
  <2>2. CycleTypeOK' /\ Place'
    BY <1>0, <1>9, <2>1, RecordStep DEF Record
  <2>3. ParamsInv'
    BY <1>9 DEF Record, ParamsInv, Fault
  <2> QED
    BY <1>9, <2>2, <2>3, RecordStep
<1>10. CASE Settle
  <2>1. mishap' \in Fault
    BY <1>10 DEF Settle, Fault
  <2>2. CycleTypeOK' /\ Place'
    BY <1>0, <1>10, <2>1, RefreshedCycles DEF Settle
  <2>3. ParamsInv'
    BY <1>10 DEF Settle, ParamsInv, Fault
  <2>4. /\ Len(history') = Len(history) /\ DOMAIN history' = DOMAIN history
        /\ \A i \in DOMAIN history : /\ history'[i].cand = history[i].cand
                                    /\ history'[i].status = history[i].status
    BY <1>0, <1>10, RefreshedCycles DEF Settle
  <2>5. PendingInv'
    BY <1>10, <2>4 DEF Settle, PendingInv
  <2>6. DOMAIN history = 1 .. Len(history)
    OBVIOUS
  <2>7. PendingIsCarried'
    <3>1. ASSUME NEW i \in 1 .. Len(history) - 1, history'[i].status = "candidate_pending"
          PROVE  history'[i + 1].cand = history'[i].cand
      <4>1. i \in DOMAIN history /\ i + 1 \in DOMAIN history
        BY <1>0, <2>6
      <4>2. history[i].status = "candidate_pending"
        BY <2>4, <3>1, <4>1
      <4>3. history[i + 1].cand = history[i].cand
        BY <4>2 DEF PendingIsCarried
      <4> QED
        BY <2>4, <4>1, <4>3
    <3>2. Len(history') = Len(history)
      BY <2>4
    <3> QED
      BY <3>1, <3>2 DEF PendingIsCarried
  <2> QED
    BY <2>2, <2>3, <2>5, <2>7
<1>11. CASE Finish
  <2>1. CycleTypeOK' /\ Place' /\ ParamsInv'
    BY <1>0, <1>11, Closed DEF Finish
  <2> QED
    BY <1>11, <2>1, NothingRecorded DEF Finish
<1>12. CASE Fail
  <2>1. mishap' \in Fault /\ mishap'.reset = mishap.reset
    BY <1>12 DEF Fail, Fault
  <2>2. losses' \in Nat
    BY <1>0, <1>12 DEF Fail, LossesLeft, CycleInv, CycleTypeOK
  <2>3. CycleTypeOK' /\ Place' /\ ParamsInv'
    BY <1>0, <1>12, <2>1, <2>2, Closed DEF Fail
  <2> QED
    BY <1>12, <2>3, NothingRecorded DEF Fail
<1>13. CASE Freeze \/ Report
  <2>1. CycleTypeOK' /\ Place' /\ ParamsInv'
    BY <1>0, <1>13 DEF Freeze, Report, ParamsInv
  <2> QED
    BY <1>13, <2>1, NothingRecorded DEF Freeze, Report
<1>14. CASE Refresh
  <2>1. PICK m \in Models :
          /\ active' = Shipped(m)
          /\ params' = IF active = Shipped(m) THEN params ELSE Shipped(m)
          /\ mishap' = IF active = Shipped(m) THEN mishap ELSE [mishap EXCEPT !.reset = locked]
    BY <1>14 DEF Refresh
  <2>2. Shipped(m) \in Config
    BY DEF Shipped, Config
  <2>3. mishap' \in Fault
    BY <2>1 DEF Fault
  <2>4. CycleTypeOK' /\ Place'
    BY <1>0, <1>14, <2>1, <2>2, <2>3 DEF Refresh
  <2>5. ParamsInv'
    BY <1>14, <2>1 DEF Refresh, ParamsInv, Fault
  <2>6. PendingInv' /\ PendingIsCarried'
    BY <1>14 DEF Refresh, PendingInv, PendingIsCarried, Open
  <2> QED
    BY <2>4, <2>5, <2>6
<1>15. CASE UNCHANGED cycleVars
  BY <1>15 DEF cycleVars, ParamsInv, PendingInv, PendingIsCarried, Open
<1> QED
  BY <1>1, <1>2, <1>3, <1>4, <1>5, <1>6, <1>7, <1>8, <1>9, <1>10, <1>11, <1>12, <1>13,
     <1>14, <1>15 DEF CycleNext, CycleStep

\* The inductive invariant holds of every reachable state.
THEOREM CycleInvariant == CycleSpec => []CycleInv
BY CycleInitInv, CycleStepInv, PTL DEF CycleSpec

\* The state of the cycle keeps its types, for any policies and any number of attempts.
THEOREM CycleTypeCorrect == CycleSpec => []CycleTypeOK
<1>1. CycleInv => CycleTypeOK
  BY DEF CycleInv
<1> QED
  BY <1>1, CycleInvariant, PTL

\* A model never runs on another configuration's parameters, whichever stage raises,
\* unless a candidate was applied at once or a thread reset a window under way.
THEOREM ParamsFollowModel == CycleSpec => []ParamsOfActive
<1>1. CycleInv => ParamsOfActive
  BY DEF CycleInv, ParamsInv, ParamsOfActive
<1> QED
  BY <1>1, CycleInvariant, PTL

\* A pending candidate is the candidate of the next cycle recorded, whatever happens
\* between the two.
THEOREM PendingAlwaysCarried == CycleSpec => []PendingIsCarried
<1>1. CycleInv => PendingIsCarried
  BY DEF CycleInv
<1> QED
  BY <1>1, CycleInvariant, PTL
---------------------------------------------------------------------------
(* Effects of adopted proposals *)

\* A judged effect has its window behind it, one that is pending has not, unless the last
\* cycle recorded raised before the refresh.
EffectsInv ==
  \A i \in DOMAIN history :
    /\ history[i].effect = "done" => Len(history) >= i + EffectWindow
    /\ history[i].effect = "pending" /\ ~mishap.late => Len(history) < i + EffectWindow

\* Every step but the recording of a cycle and the refresh leaves the history alone, and
\* the parts of mishap that tell of them.
LEMMA HistoryKept ==
  ASSUME CycleInv, [CycleNext]_cycleVars, ~Record, ~Settle
  PROVE  history' = history /\ mishap'.late = mishap.late
<1>0. mishap \in Fault
  BY DEF CycleInv, CycleTypeOK
<1>1. CASE Fail
  BY <1>0, <1>1 DEF Fail, Fault
<1>2. CASE Route
  BY <1>0, <1>2 DEF Route, Fault
<1>3. CASE Refresh
  BY <1>0, <1>3 DEF Refresh, Fault
<1>4. CASE Attempt \/ NoData \/ OpenWindow \/ Skip
  BY <1>4 DEF Attempt, NoData, OpenWindow, Skip
<1>5. CASE Simulate
  BY <1>5, Zenon DEF Simulate
<1>6. CASE Review \/ Build
  BY <1>6, Zenon DEF Review, Build
<1>7. CASE Finish \/ Freeze \/ Report
  BY <1>7 DEF Finish, Freeze, Report
<1>8. CASE UNCHANGED cycleVars
  BY <1>8 DEF cycleVars
<1> QED
  BY <1>1, <1>2, <1>3, <1>4, <1>5, <1>6, <1>7, <1>8 DEF CycleNext, CycleStep

\* The cycle that Record appends, and what it leaves of the others.
LEMMA Appended ==
  ASSUME CycleInv, Record
  PROVE  LET n == Len(history) IN
         /\ n \in Nat /\ DOMAIN history = 1 .. n
         /\ Len(history') = n + 1 /\ DOMAIN history' = 1 .. n + 1
         /\ \A i \in 1 .. n : history'[i] = history[i]
         /\ history'[n + 1].profit = work.profit
         /\ history'[n + 1].cand = CandidateOf(work.outcome)
         /\ history'[n + 1].stage = StageOf(work.outcome, work.overrides)
         /\ \E against \in BOOLEAN : history'[n + 1].status = StatusOf(work.outcome, against)
         /\ history'[n + 1].effect \in {"none", "pending"}
BY DEF CycleInv, CycleTypeOK, Record

LEMMA EffectsStep == CycleInv /\ EffectsInv /\ [CycleNext]_cycleVars => EffectsInv'
<1> SUFFICES ASSUME CycleInv, EffectsInv, [CycleNext]_cycleVars PROVE EffectsInv'
  OBVIOUS
<1>0. EffectWindow \in Nat
  BY CycleConstants
<1>1. CASE ~Record /\ ~Settle
  BY <1>1, HistoryKept DEF EffectsInv
<1>2. CASE Record
  <2>1. mishap'.late = TRUE
    BY <1>2 DEF Record, CycleInv, CycleTypeOK, Fault
  <2>2. ASSUME NEW i \in DOMAIN history', history'[i].effect = "done"
        PROVE  Len(history') >= i + EffectWindow
    <3>1. i \in DOMAIN history /\ i \in Nat /\ history[i].effect = "done"
      BY <1>2, <2>2, Appended
    <3>2. Len(history) >= i + EffectWindow
      BY <3>1 DEF EffectsInv
    <3> QED
      BY <1>0, <1>2, <3>1, <3>2, Appended
  <2> QED
    BY <2>1, <2>2 DEF EffectsInv
<1>3. CASE Settle
  <2>1. history \in Seq(Cycle) /\ history' = Refreshed(history) /\ Len(history) \in Nat
    BY <1>3 DEF Settle, CycleInv, CycleTypeOK
  <2>2. Len(history') = Len(history) /\ DOMAIN history' = DOMAIN history
    BY <2>1, RefreshedCycles
  <2>3. ASSUME NEW i \in DOMAIN history
        PROVE  history'[i] = IF history[i].effect = "pending" /\ Len(history) >= i + EffectWindow
                             THEN [history[i] EXCEPT !.effect = "done"] ELSE history[i]
    BY <2>1, <2>3 DEF Refreshed
  <2>4. ASSUME NEW i \in DOMAIN history
        PROVE  /\ history'[i].effect = "done" => Len(history) >= i + EffectWindow
               /\ history'[i].effect = "pending" => Len(history) < i + EffectWindow
    <3>1. history[i] \in Cycle /\ i \in Nat
      BY <2>1, <2>4
    <3>2. CASE history[i].effect = "pending" /\ Len(history) >= i + EffectWindow
      BY <2>3, <2>4, <3>1, <3>2 DEF Cycle
    <3>3. CASE ~(history[i].effect = "pending" /\ Len(history) >= i + EffectWindow)
      <4>1. history'[i] = history[i]
        BY <2>3, <2>4, <3>3
      <4>2. history[i].effect = "done" => Len(history) >= i + EffectWindow
        BY <2>4 DEF EffectsInv
      <4> QED
        BY <1>0, <2>1, <3>1, <3>3, <4>1, <4>2
    <3> QED
      BY <3>2, <3>3
  <2> QED
    BY <2>2, <2>4 DEF EffectsInv
<1> QED
  BY <1>1, <1>2, <1>3

\* Between cycles an adopted proposal has its effect judged exactly when the window of
\* cycles after it is complete, however many cycles were skipped or raised in between.
THEOREM EffectsAlwaysOnTime == CycleSpec => []EffectsOnTime
<1>1. CycleInit => EffectsInv
  BY DEF CycleInit, EffectsInv
<1>2. CycleInv /\ EffectsInv => EffectsOnTime
  <2> SUFFICES ASSUME CycleInv, EffectsInv, ~mishap.late,
                      NEW i \in DOMAIN history, history[i].effect # "none"
               PROVE  history[i].effect = "done" <=> Len(history) >= i + EffectWindow
    BY DEF EffectsOnTime
  <2>1. history[i] \in Cycle /\ i \in Nat /\ Len(history) \in Nat
    BY DEF CycleInv, CycleTypeOK
  <2>2. history[i].effect \in {"pending", "done"}
    BY <2>1 DEF Cycle
  <2> QED
    BY <2>1, <2>2, CycleConstants DEF EffectsInv
<1> QED
  BY <1>1, <1>2, EffectsStep, CycleInvariant, PTL DEF CycleSpec
---------------------------------------------------------------------------
(* The losing streak *)

\* The remainder is the only number below the divisor that leaves a multiple of it.
LEMMA RemainderIsUnique ==
  ASSUME NEW c \in Nat, NEW m \in Nat \ {0}, NEW q \in Nat, NEW r \in 0 .. m - 1, c = m * q + r
  PROVE  c % m = r
<1> DEFINE p == c \div m
<1>1. c % m \in 0 .. m - 1 /\ c = m * p + (c % m) /\ p \in Nat
  OBVIOUS
<1> HIDE DEF p
<1>2. CASE p = q
  BY <1>1, <1>2
<1>3. CASE p > q
  <2>1. PICK d \in Nat : d >= 1 /\ p = q + d
    <3>1. p - q \in Nat /\ p - q >= 1 /\ p = q + (p - q)
      BY <1>1, <1>3
    <3> QED
      BY <3>1
  <2>2. m * (q + d) = m * q + m * d /\ m * d >= m
    BY <2>1
  <2> QED
    BY <1>1, <2>1, <2>2
<1>4. CASE p < q
  <2>1. PICK d \in Nat : d >= 1 /\ q = p + d
    <3>1. q - p \in Nat /\ q - p >= 1 /\ q = p + (q - p)
      BY <1>1, <1>4
    <3> QED
      BY <3>1
  <2>2. m * (p + d) = m * p + m * d /\ m * d >= m
    BY <1>1, <2>1
  <2> QED
    BY <1>1, <2>1, <2>2
<1> QED
  BY <1>1, <1>2, <1>3, <1>4

\* Counting one more loss: back to 0 at the threshold.
LEMMA NextRemainder ==
  ASSUME NEW c \in Nat, NEW m \in Nat \ {0}
  PROVE  (c + 1) % m = IF (c % m) + 1 >= m THEN 0 ELSE (c % m) + 1
<1>1. PICK q \in Nat, r \in 0 .. m - 1 : c % m = r /\ c = m * q + r
  <2>1. c % m \in 0 .. m - 1 /\ c = m * (c \div m) + (c % m) /\ c \div m \in Nat
    OBVIOUS
  <2> QED
    BY <2>1
<1>2. CASE r + 1 >= m
  <2>1. c + 1 = m * (q + 1) + 0
    BY <1>1, <1>2
  <2>2. q + 1 \in Nat /\ 0 \in 0 .. m - 1 /\ c + 1 \in Nat
    BY <1>1
  <2>3. (c + 1) % m = 0
    BY <2>1, <2>2, RemainderIsUnique
  <2> QED
    BY <1>1, <1>2, <2>3
<1>3. CASE ~(r + 1 >= m)
  <2>1. c + 1 = m * q + (r + 1)
    BY <1>1
  <2>2. r + 1 \in 0 .. m - 1 /\ c + 1 \in Nat
    BY <1>1, <1>3
  <2>3. (c + 1) % m = r + 1
    BY <2>1, <2>2, RemainderIsUnique
  <2> QED
    BY <1>1, <1>3, <2>3
<1> QED
  BY <1>2, <1>3

\* The losses since the last profit are counted modulo the threshold; while a cycle is
\* under way that counted its own result, that result is counted already.
Counted == {"counted", "reviewed", "built"}

StreakInv ==
  /\ pc \notin Counted /\ ~mishap.stray => losses = Cardinality(LastLosses) % MaxLosses
  /\ pc \in Counted /\ work.profit => losses = 0
  /\ pc \in Counted /\ ~work.profit /\ ~mishap.stray =>
       losses = (Cardinality(LastLosses) + 1) % MaxLosses

\* The streak is a finite set, and no cycle is numbered like the one under way.
LEMMA StreakIsFinite ==
  ASSUME CycleInv
  PROVE  /\ IsFiniteSet(LastLosses) /\ Cardinality(LastLosses) \in Nat
         /\ Len(history) + 1 \notin LastLosses
<1>1. Len(history) \in Nat /\ DOMAIN history = 1 .. Len(history)
  BY DEF CycleInv, CycleTypeOK
<1>2. IsFiniteSet(1 .. Len(history))
  BY <1>1, FS_Interval
<1>3. LastLosses \in SUBSET (1 .. Len(history))
  BY <1>1 DEF LastLosses
<1>4. IsFiniteSet(LastLosses)
  BY <1>2, <1>3, FS_Subset
<1>5. Len(history) + 1 \notin 1 .. Len(history)
  BY <1>1
<1> QED
  BY <1>3, <1>4, <1>5, FS_CardinalityType

\* A loss recorded makes the streak one cycle longer, a profit ends it.
LEMMA StreakRecorded ==
  ASSUME CycleInv, Record
  PROVE  Cardinality(LastLosses') = IF work.profit THEN 0 ELSE Cardinality(LastLosses) + 1
<1> DEFINE n == Len(history)
<1>1. /\ n \in Nat /\ DOMAIN history = 1 .. n
      /\ Len(history') = n + 1 /\ DOMAIN history' = 1 .. n + 1
      /\ \A i \in 1 .. n : history'[i] = history[i]
      /\ history'[n + 1].profit = work.profit
  BY Appended
<1>2. CASE work.profit
  <2>1. \A i \in 1 .. n + 1 : n + 1 \in i .. n + 1
    BY <1>1
  <2>2. LastLosses' = {i \in 1 .. n + 1 : \A j \in i .. n + 1 : ~history'[j].profit}
    BY <1>1 DEF LastLosses
  <2>3. LastLosses' = {}
    BY <1>1, <1>2, <2>1, <2>2
  <2> QED
    BY <1>2, <2>3, FS_EmptySet
<1>3. CASE ~work.profit
  <2>1. ASSUME NEW i \in 1 .. n
        PROVE  (\A j \in i .. n + 1 : ~history'[j].profit) <=> (\A j \in i .. n : ~history[j].profit)
    <3>1. \A j \in i .. n : j \in 1 .. n /\ j \in i .. n + 1
      BY <1>1
    <3>2. \A j \in i .. n + 1 : j \in i .. n \/ j = n + 1
      BY <1>1
    <3> QED
      BY <1>1, <1>3, <3>1, <3>2
  <2>2. \A j \in n + 1 .. n + 1 : ~history'[j].profit
    BY <1>1, <1>3
  <2>3. LastLosses' = LastLosses \cup {n + 1}
    <3>1. LastLosses' = {i \in 1 .. n + 1 : \A j \in i .. n + 1 : ~history'[j].profit}
      BY <1>1 DEF LastLosses
    <3>2. LastLosses = {i \in 1 .. n : \A j \in i .. n : ~history[j].profit}
      BY <1>1 DEF LastLosses
    <3>3. 1 .. n + 1 = (1 .. n) \cup {n + 1}
      BY <1>1
    <3> QED
      BY <2>1, <2>2, <3>1, <3>2, <3>3
  <2> QED
    BY <1>3, <2>3, StreakIsFinite, FS_AddElement
<1> QED
  BY <1>2, <1>3

\* What the recorded cycles have in common with those after a refresh.
LEMMA StreakRefreshed ==
  ASSUME CycleInv, Settle
  PROVE  LastLosses' = LastLosses
<1>1. history \in Seq(Cycle) /\ history' = Refreshed(history)
  BY DEF Settle, CycleInv, CycleTypeOK
<1>2. /\ Len(history') = Len(history) /\ DOMAIN history' = DOMAIN history
      /\ \A i \in DOMAIN history : history'[i].profit = history[i].profit
  BY <1>1, RefreshedCycles
<1>3. \A i \in DOMAIN history : \A j \in i .. Len(history) : j \in DOMAIN history
  BY <1>1
<1> QED
  BY <1>2, <1>3 DEF LastLosses

LEMMA StreakStep == CycleInv /\ StreakInv /\ [CycleNext]_cycleVars => StreakInv'
<1> SUFFICES ASSUME CycleInv, StreakInv, [CycleNext]_cycleVars PROVE StreakInv'
  OBVIOUS
<1>0. /\ MaxLosses \in Nat \ {0} /\ work \in Work /\ mishap \in Fault
      /\ Cardinality(LastLosses) \in Nat /\ 0 % MaxLosses = 0
  BY CycleConstants, StreakIsFinite DEF CycleInv, CycleTypeOK
<1>1. CASE Simulate
  <2>1. LastLosses' = LastLosses /\ mishap' = mishap /\ pc = "window" /\ pc' = "counted"
    <3>1. pc = "window" /\ pc' = "counted" /\ UNCHANGED <<history, mishap>>
      BY <1>1, Zenon DEF Simulate
    <3> QED
      BY <3>1 DEF LastLosses
  <2>2. PICK profit \in BOOLEAN, queued \in BOOLEAN :
          /\ losses' = CountedLosses(profit)
          /\ work' = [work EXCEPT !.profit = profit, !.queued = queued]
    BY <1>1, Zenon DEF Simulate
  <2>3. work'.profit = profit
    BY <1>0, <2>2 DEF Work
  <2>4. ~mishap.stray => losses = Cardinality(LastLosses) % MaxLosses
    BY <2>1 DEF StreakInv, Counted
  <2>5. (Cardinality(LastLosses) + 1) % MaxLosses =
          IF (Cardinality(LastLosses) % MaxLosses) + 1 >= MaxLosses THEN 0
          ELSE (Cardinality(LastLosses) % MaxLosses) + 1
    BY <1>0, NextRemainder
  <2>6. profit => losses' = 0
    BY <2>2 DEF CountedLosses
  <2>7. ~profit /\ ~mishap.stray => losses' = (Cardinality(LastLosses) + 1) % MaxLosses
    BY <2>2, <2>4, <2>5 DEF CountedLosses
  <2> QED
    BY <2>1, <2>3, <2>6, <2>7 DEF StreakInv, Counted
<1>2. CASE Review \/ Build
  <2>1. /\ work'.profit = work.profit /\ UNCHANGED <<history, losses, mishap>>
        /\ pc \in Counted /\ pc' \in Counted
    <3>1. CASE Review
      BY <1>0, <3>1 DEF Review, Work, Counted
    <3>2. CASE Build
      BY <1>0, <3>2 DEF Build, Work, Counted
    <3> QED
      BY <1>2, <3>1, <3>2
  <2> QED
    BY <2>1 DEF StreakInv, LastLosses
<1>3. CASE Record
  <2>1. /\ mishap'.stray = (mishap.stray /\ ~work.profit) /\ losses' = losses
        /\ pc \in Counted /\ pc' \notin Counted
    BY <1>0, <1>3 DEF Record, Fault, Counted, Work
  <2>2. work.profit \in BOOLEAN
    BY <1>0 DEF Work
  <2> QED
    BY <1>0, <1>3, <2>1, <2>2, StreakRecorded DEF StreakInv
<1>4. CASE Settle
  <2>1. mishap'.stray = mishap.stray /\ losses' = losses /\ pc \notin Counted /\ pc' \notin Counted
    BY <1>0, <1>4 DEF Settle, Fault, Counted
  <2> QED
    BY <1>4, <2>1, StreakRefreshed DEF StreakInv
<1>5. CASE Fail
  <2>1. /\ mishap'.stray = (mishap.stray \/ losses' # losses \/ pc \in Counted)
        /\ history' = history /\ pc' \notin Counted
    BY <1>0, <1>5 DEF Fail, Fault, Counted
  <2> QED
    BY <2>1 DEF StreakInv, LastLosses
<1>6. CASE Refresh
  <2>1. mishap'.stray = mishap.stray /\ UNCHANGED <<history, losses, pc, work>>
    BY <1>0, <1>6 DEF Refresh, Fault
  <2> QED
    BY <2>1 DEF StreakInv, LastLosses
<1>7. CASE Route
  <2>1. /\ mishap'.stray = mishap.stray /\ UNCHANGED <<history, losses>>
        /\ pc \notin Counted /\ pc' \notin Counted
    BY <1>0, <1>7 DEF Route, Fault, Counted
  <2> QED
    BY <2>1 DEF StreakInv, LastLosses
<1>8. CASE Attempt \/ NoData \/ OpenWindow \/ Skip \/ Finish \/ Freeze \/ Report
  <2>1. UNCHANGED <<history, losses, mishap>> /\ pc \notin Counted /\ pc' \notin Counted
    BY <1>8 DEF Attempt, NoData, OpenWindow, Skip, Finish, Freeze, Report, Counted
  <2> QED
    BY <2>1 DEF StreakInv, LastLosses
<1>9. CASE UNCHANGED cycleVars
  BY <1>9 DEF cycleVars, StreakInv, LastLosses
<1> QED
  BY <1>1, <1>2, <1>3, <1>4, <1>5, <1>6, <1>7, <1>8, <1>9 DEF CycleNext, CycleStep

\* The streak that triggers optimisation is the one the history shows, however cycles are
\* skipped, fail or are reviewed between two losses, unless a cycle raised once it was
\* counted.
THEOREM StreakAlwaysMatches == CycleSpec => []StreakMatchesHistory
<1>1. CycleInit => StreakInv
  <2> SUFFICES ASSUME CycleInit PROVE StreakInv
    OBVIOUS
  <2>1. LastLosses = {} /\ losses = 0 /\ pc \notin Counted
    BY DEF CycleInit, LastLosses, Counted
  <2>2. 0 % MaxLosses = 0
    BY CycleConstants
  <2> QED
    BY <2>1, <2>2, FS_EmptySet DEF StreakInv
<1>2. StreakInv => StreakMatchesHistory
  BY DEF StreakInv, Counted, StreakMatchesHistory
<1> QED
  BY <1>1, <1>2, StreakStep, CycleInvariant, PTL DEF CycleSpec
---------------------------------------------------------------------------
(* How long a candidate stays pending *)

\* From a cycle that leaves its candidate pending on, every cycle is a candidate cycle
\* about that candidate.
PendingRun ==
  \A i, j \in DOMAIN history :
    history[i].status = "candidate_pending" /\ i <= j =>
      history[j].stage = "candidate" /\ history[j].cand = history[i].cand

PendingOf(c) ==
  {i \in DOMAIN history : history[i].cand = c /\ history[i].status = "candidate_pending"}

BoundInv == PendingRun /\ \A c \in 1 .. MaxAttempts : Cardinality(PendingOf(c)) <= MaxPending

\* While a cycle's candidate is pending, it is the one that is open.
LEMMA OpenIsPending ==
  ASSUME CycleInv, PendingRun, NEW i \in DOMAIN history, history[i].status = "candidate_pending"
  PROVE  Open = history[i].cand
<1> DEFINE n == Len(history)
           P == {k \in DOMAIN history : history[k].status = "candidate_pending"}
<1>1. n \in Nat /\ DOMAIN history = 1 .. n
  BY DEF CycleInv, CycleTypeOK
<1>2. P \in SUBSET (1 .. n) /\ i \in P
  BY <1>1
<1>3. Max(P) \in P /\ Max(P) >= i
  <2> HIDE DEF n, P
  <2> QED
    BY <1>1, <1>2, MaxExists
<1>4. Open = history[Max(P)].cand
  BY <1>2 DEF Open
<1> HIDE DEF P
<1>5. Max(P) \in DOMAIN history /\ i <= Max(P)
  BY <1>1, <1>2, <1>3
<1> QED
  BY <1>4, <1>5 DEF PendingRun

\* A cycle about to be recorded while a candidate is pending is about that candidate.
LEMMA CarriedByRecord ==
  ASSUME CycleInv, PendingRun, Record,
         NEW i \in DOMAIN history, history[i].status = "candidate_pending"
  PROVE  /\ CandidateOf(work.outcome) = history[i].cand
         /\ StageOf(work.outcome, work.overrides) = "candidate"
<1>1. Open = history[i].cand /\ history[i].cand # 0 /\ ~autoApply
  BY OpenIsPending DEF CycleInv, PendingInv
<1>2. work.outcome \notin {"built", "applied"}
  BY <1>1 DEF Record, CycleInv, PendingInv
<1> QED
  BY <1>1, <1>2 DEF CandidateOf, StageOf

\* The cycles of a candidate are finitely many, and those that leave it pending are part
\* of the run its age is measured by.
LEMMA PendingInRun ==
  ASSUME CycleInv, PendingRun, NEW c
  PROVE  /\ PendingOf(c) \subseteq LastRun(c)
         /\ IsFiniteSet(PendingOf(c)) /\ IsFiniteSet(LastRun(c))
         /\ Cardinality(PendingOf(c)) \in Nat /\ Cardinality(LastRun(c)) \in Nat
         /\ Cardinality(PendingOf(c)) <= Cardinality(LastRun(c))
<1>1. Len(history) \in Nat /\ DOMAIN history = 1 .. Len(history)
  BY DEF CycleInv, CycleTypeOK
<1>2. PendingOf(c) \subseteq LastRun(c)
  BY <1>1 DEF PendingOf, LastRun, CandidateCycles, PendingRun
<1>3. LastRun(c) \in SUBSET (1 .. Len(history))
  BY <1>1 DEF LastRun, CandidateCycles
<1>4. IsFiniteSet(1 .. Len(history))
  BY <1>1, FS_Interval
<1>5. IsFiniteSet(LastRun(c))
  BY <1>3, <1>4, FS_Subset
<1>6. IsFiniteSet(PendingOf(c)) /\ Cardinality(PendingOf(c)) <= Cardinality(LastRun(c))
  BY <1>2, <1>5, FS_Subset
<1> QED
  BY <1>2, <1>5, <1>6, FS_CardinalityType

LEMMA BoundRecord == ASSUME CycleInv, BoundInv, Record PROVE BoundInv'
<1> DEFINE n == Len(history)
           b == CandidateOf(work.outcome)
<1>1. /\ n \in Nat /\ DOMAIN history = 1 .. n
      /\ Len(history') = n + 1 /\ DOMAIN history' = 1 .. n + 1
      /\ \A i \in 1 .. n : history'[i] = history[i]
      /\ history'[n + 1].cand = b
      /\ history'[n + 1].stage = StageOf(work.outcome, work.overrides)
  BY Appended
<1>2. PICK against \in BOOLEAN : history'[n + 1].status = StatusOf(work.outcome, against)
  BY Appended
<1>3. PendingRun
  BY DEF BoundInv
<1>4. ASSUME history'[n + 1].status = "candidate_pending"
      PROVE  Age(b) <= MaxPending /\ history'[n + 1].stage = "candidate"
  <2>1. work.outcome # "applied" /\ b # 0
    BY <1>2, <1>4 DEF StatusOf
  <2>2. ~(Age(b) > MaxPending)
    BY <1>2, <1>4, <2>1 DEF StatusOf
  <2>3. Age(b) \in Nat /\ MaxPending \in Nat
    BY <1>3, PendingInRun, CycleConstants DEF Age
  <2> QED
    BY <1>1, <2>1, <2>2, <2>3 DEF StageOf
<1>5. PendingRun'
  <2> SUFFICES ASSUME NEW i \in 1 .. n + 1, NEW j \in 1 .. n + 1,
                      history'[i].status = "candidate_pending", i <= j
               PROVE  history'[j].stage = "candidate" /\ history'[j].cand = history'[i].cand
    BY <1>1 DEF PendingRun
  <2>1. CASE j \in 1 .. n
    <3>1. i \in 1 .. n
      BY <1>1, <2>1
    <3> QED
      BY <1>1, <1>3, <2>1, <3>1 DEF PendingRun
  <2>2. CASE j = n + 1 /\ i \in 1 .. n
    BY <1>1, <1>3, <2>2, CarriedByRecord
  <2>3. CASE j = n + 1 /\ i = n + 1
    BY <1>4, <2>3
  <2> QED
    BY <1>1, <2>1, <2>2, <2>3
<1>6. ASSUME NEW c \in 1 .. MaxAttempts PROVE Cardinality(PendingOf(c)') <= MaxPending
  <2>1. CASE history'[n + 1].status = "candidate_pending" /\ b = c
    <3>1. PendingOf(c)' = PendingOf(c) \cup {n + 1}
      BY <1>1, <2>1 DEF PendingOf
    <3>2. n + 1 \notin PendingOf(c)
      BY <1>1 DEF PendingOf
    <3>3. Cardinality(PendingOf(c)') = Cardinality(PendingOf(c)) + 1
      BY <1>3, <3>1, <3>2, PendingInRun, FS_AddElement
    <3>4. Cardinality(LastRun(c)) + 1 <= MaxPending
      BY <1>4, <2>1 DEF Age
    <3> QED
      BY <1>3, <3>3, <3>4, PendingInRun, CycleConstants
  <2>2. CASE ~(history'[n + 1].status = "candidate_pending" /\ b = c)
    <3>1. PendingOf(c)' = PendingOf(c)
      BY <1>1, <2>2 DEF PendingOf
    <3> QED
      BY <3>1 DEF BoundInv
  <2> QED
    BY <2>1, <2>2
<1> QED
  BY <1>5, <1>6 DEF BoundInv

LEMMA BoundStep == CycleInv /\ BoundInv /\ [CycleNext]_cycleVars => BoundInv'
<1> SUFFICES ASSUME CycleInv, BoundInv, [CycleNext]_cycleVars PROVE BoundInv'
  OBVIOUS
<1>1. CASE Record
  BY <1>1, BoundRecord
<1>2. CASE Settle
  <2>1. history \in Seq(Cycle) /\ history' = Refreshed(history)
    BY <1>2 DEF Settle, CycleInv, CycleTypeOK
  <2>2. /\ DOMAIN history' = DOMAIN history
        /\ \A i \in DOMAIN history :
             /\ history'[i].cand = history[i].cand /\ history'[i].status = history[i].status
             /\ history'[i].stage = history[i].stage
    BY <2>1, RefreshedCycles
  <2>3. PendingRun'
    BY <2>2 DEF BoundInv, PendingRun
  <2>4. \A c : PendingOf(c)' = PendingOf(c)
    BY <2>2 DEF PendingOf
  <2> QED
    BY <2>3, <2>4 DEF BoundInv
<1>3. CASE ~Record /\ ~Settle
  BY <1>3, HistoryKept DEF BoundInv, PendingRun, PendingOf
<1> QED
  BY <1>1, <1>2, <1>3

\* However a candidate is carried forward, pruned, taken up again and expired, it is pending
\* in no more cycles than the policy max_pending_cycles says.
THEOREM PendingAlwaysBounded == CycleSpec => []PendingIsBounded
<1>1. CycleInit => BoundInv
  <2> SUFFICES ASSUME CycleInit PROVE BoundInv
    OBVIOUS
  <2>1. DOMAIN history = {}
    BY DEF CycleInit
  <2>2. \A c : PendingOf(c) = {}
    BY <2>1 DEF PendingOf
  <2>3. MaxPending \in Nat
    BY CycleConstants
  <2>4. \A c \in 1 .. MaxAttempts : Cardinality(PendingOf(c)) <= MaxPending
    BY <2>2, <2>3, FS_EmptySet
  <2> QED
    BY <2>1, <2>4 DEF BoundInv, PendingRun
<1>2. BoundInv => PendingIsBounded
  BY DEF BoundInv, PendingOf, PendingIsBounded
<1> QED
  BY <1>1, <1>2, BoundStep, CycleInvariant, PTL DEF CycleSpec

---------------------------------------------------------------------------
(* The track record and the review *)

Prediction == [cycle : Int, try : Int, agent : STRING, code : STRING, selected : BOOLEAN, ret : Int]

Listed ==
  /\ step \in {"idle", "picked", "marked", "simulated", "reviewed"}
  /\ tries \in Nat
  /\ predictions \in Seq(Prediction)
  /\ \E S : books \in Seq(S)
  /\ trade = [plan |-> trade.plan, pnl |-> trade.pnl]
  /\ step = "reviewed" => DOMAIN result \cap {"plan", "pnl", "try"} = {}

\* Every prediction is of an attempt, and every record of a different one; the attempt under
\* way has no record yet.
Attempted ==
  /\ \A i \in DOMAIN predictions : predictions[i].try \in 1 .. tries
  /\ \A n \in DOMAIN books : books[n].try \in 1 .. tries
  /\ step # "idle" => tries > 0 /\ \A n \in DOMAIN books : books[n].try < tries

\* The predictions of the attempt under way: of its cycle, marked with its plan once there is
\* one, and with its trades once it was simulated.
Traced ==
  step # "idle" => \A i \in DOMAIN predictions : predictions[i].try = tries =>
    /\ predictions[i].cycle = This
    /\ step # "picked" => predictions[i].selected = (predictions[i].code \in trade.plan)
    /\ predictions[i].ret = IF step \in {"simulated", "reviewed"} /\ predictions[i].code \in DOMAIN trade.pnl
                            THEN trade.pnl[predictions[i].code] ELSE Untold

\* RecordIsTrue by places, not by values
Kept ==
  \A n \in DOMAIN books, i \in DOMAIN predictions :
    predictions[i].try = books[n].try =>
      /\ predictions[i].cycle = n /\ predictions[i].selected = (predictions[i].code \in books[n].plan)
      /\ predictions[i].ret = IF predictions[i].code \in DOMAIN books[n].pnl
                              THEN books[n].pnl[predictions[i].code] ELSE Untold

ReviewInv == Listed /\ Attempted /\ Traced /\ Kept

LEMMA ThisIsNext == Listed => /\ Len(books) \in Nat /\ DOMAIN books = 1 .. Len(books)
                              /\ This = Len(books) + 1 /\ This \in Nat
<1> SUFFICES ASSUME Listed PROVE Len(books) \in Nat /\ DOMAIN books = 1 .. Len(books)
  BY DEF This
<1>1. PICK S : books \in Seq(S)
  BY DEF Listed
<1>2. QED
  BY <1>1, LenProperties

LEMMA PlacesOfPredictions ==
  Listed => /\ Len(predictions) \in Nat /\ DOMAIN predictions = 1 .. Len(predictions)
            /\ \A i \in DOMAIN predictions : predictions[i] \in Prediction
<1> SUFFICES ASSUME Listed
             PROVE  /\ Len(predictions) \in Nat /\ DOMAIN predictions = 1 .. Len(predictions)
                    /\ \A i \in DOMAIN predictions : predictions[i] \in Prediction
  OBVIOUS
<1>1. predictions \in Seq(Prediction)
  BY DEF Listed
<1>2. QED
  BY <1>1, LenProperties, ElementOfSeq

LEMMA ReviewInitInv == ReviewInit => ReviewInv
<1> SUFFICES ASSUME ReviewInit PROVE ReviewInv
  OBVIOUS
<1>1. predictions = <<>> /\ books = <<>> /\ step = "idle" /\ tries = 0 /\ trade = Untraded
  BY DEF ReviewInit
<1>2. DOMAIN predictions = {} /\ DOMAIN books = {}
  BY <1>1
<1>3. predictions \in Seq(Prediction) /\ books \in Seq(Prediction)
  BY <1>1, EmptySeq
<1>4. Listed
  BY <1>1, <1>3 DEF Listed, Untraded
<1>5. QED
  BY <1>1, <1>2, <1>4 DEF ReviewInv, Attempted, Traced, Kept

\* The predictions of a new attempt are put behind those of the attempts before it.
LEMMA PredictionsAdded ==
  ASSUME ReviewInv, NEW slate \in Slates, RecordPredictions(slate)
  PROVE  ReviewInv'
<1> DEFINE new == [i \in DOMAIN slate |->
                     [cycle |-> This, try |-> tries', agent |-> slate[i].agent,
                      code |-> slate[i].code, selected |-> FALSE, ret |-> Untold]]
           n == Len(predictions)
<1>1. /\ step = "idle" /\ step' = "picked" /\ tries' = tries + 1 /\ books' = books
      /\ predictions' = predictions \o new /\ trade' = Untraded
  BY DEF RecordPredictions
<1>2. slate \in Seq(PickedBy)
  BY ReviewConstants
<1>3. Len(slate) \in Nat /\ DOMAIN slate = 1 .. Len(slate) /\ \A i \in DOMAIN slate : slate[i] \in PickedBy
  BY <1>2, LenProperties, ElementOfSeq
<1>4. tries \in Nat /\ This \in Nat /\ This' = This /\ Untold \in Int
  BY <1>1, ThisIsNext DEF ReviewInv, Listed, This, Untold
<1>5. \A i \in 1 .. Len(slate) : new[i] \in Prediction
  BY <1>1, <1>3, <1>4 DEF PickedBy, Prediction
<1>6. new \in Seq(Prediction) /\ Len(new) = Len(slate)
  <2>1. new = [i \in 1 .. Len(slate) |-> new[i]]
    BY <1>3
  <2> HIDE DEF new
  <2>2. QED
    BY <1>3, <1>5, <2>1, IsASeq
<1>7. /\ predictions' \in Seq(Prediction) /\ Len(predictions') = n + Len(slate)
      /\ DOMAIN predictions' = 1 .. n + Len(slate)
      /\ \A i \in 1 .. n : predictions'[i] = predictions[i]
      /\ \A i \in n + 1 .. n + Len(slate) : predictions'[i] = new[i - n]
  <2>1. predictions \in Seq(Prediction)
    BY DEF ReviewInv, Listed
  <2> HIDE DEF new
  <2>2. /\ predictions \o new \in Seq(Prediction)
        /\ Len(predictions \o new) = Len(predictions) + Len(new)
        /\ \A i \in 1 .. Len(predictions) + Len(new) :
             (predictions \o new)[i] = IF i <= Len(predictions) THEN predictions[i]
                                        ELSE new[i - Len(predictions)]
    BY <1>6, <2>1, ConcatProperties, Zenon
  <2>3. predictions' \in Seq(Prediction) /\ Len(predictions') = n + Len(slate)
    BY <1>1, <1>6, <2>2
  <2>4. \A i \in 1 .. n + Len(slate) :
          predictions'[i] = IF i <= n THEN predictions[i] ELSE new[i - n]
    BY <1>1, <1>6, <2>2
  <2>5. n \in Nat
    BY <2>1, LenProperties
  <2>6. QED
    BY <1>3, <2>3, <2>4, <2>5, LenProperties
<1>8. \A i \in DOMAIN predictions' :
        \/ i \in DOMAIN predictions /\ predictions'[i] = predictions[i]
        \/ /\ predictions'[i].try = tries + 1 /\ predictions'[i].cycle = This
           /\ predictions'[i].selected = FALSE /\ predictions'[i].ret = Untold
  <2> SUFFICES ASSUME NEW i \in DOMAIN predictions', i \notin DOMAIN predictions
               PROVE  /\ predictions'[i].try = tries + 1 /\ predictions'[i].cycle = This
                      /\ predictions'[i].selected = FALSE /\ predictions'[i].ret = Untold
    BY <1>7, PlacesOfPredictions DEF ReviewInv
  <2>1. n \in Nat /\ i \in n + 1 .. n + Len(slate) /\ i - n \in 1 .. Len(slate)
    BY <1>3, <1>7, PlacesOfPredictions DEF ReviewInv
  <2>2. predictions'[i] = new[i - n]
    BY <1>7, <2>1
  <2>3. QED
    BY <1>1, <1>3, <2>1, <2>2
<1> HIDE DEF new
<1>9. Listed'
  BY <1>1, <1>4, <1>7 DEF ReviewInv, Listed, Untraded
<1>10. Attempted'
  BY <1>1, <1>4, <1>8, ThisIsNext DEF ReviewInv, Attempted
<1>11. Traced'
  BY <1>1, <1>4, <1>8 DEF ReviewInv, Attempted, Traced, Untraded
<1>12. Kept'
  BY <1>1, <1>4, <1>8 DEF ReviewInv, Attempted, Kept
<1>13. QED
  BY <1>9, <1>10, <1>11, <1>12 DEF ReviewInv

\* Marking and reconciling touch the predictions of the cycle under way only, and of those
\* the one mark.
LEMMA PredictionsMarked ==
  ASSUME ReviewInv, NEW codes, MarkSelected(codes)
  PROVE  ReviewInv'
<1>1. /\ step = "picked" /\ step' = "marked" /\ tries' = tries /\ books' = books
      /\ predictions' = Marked(predictions, codes) /\ trade' = [trade EXCEPT !.plan = codes]
  BY DEF MarkSelected
<1>2. This' = This /\ trade' = [plan |-> codes, pnl |-> trade.pnl]
  BY <1>1 DEF This, ReviewInv, Listed
<1>3. /\ DOMAIN predictions' = DOMAIN predictions
      /\ \A i \in DOMAIN predictions :
           predictions'[i] = IF predictions[i].cycle = This
                             THEN [predictions[i] EXCEPT !.selected = predictions[i].code \in codes]
                             ELSE predictions[i]
  BY <1>1, Zenon DEF Marked
<1>4. \A i \in DOMAIN predictions :
        /\ predictions[i] \in Prediction /\ predictions'[i] \in Prediction
        /\ predictions'[i].cycle = predictions[i].cycle /\ predictions'[i].try = predictions[i].try
        /\ predictions'[i].code = predictions[i].code /\ predictions'[i].ret = predictions[i].ret
        /\ predictions'[i].selected = IF predictions[i].cycle = This
                                      THEN predictions[i].code \in codes ELSE predictions[i].selected
  <2> SUFFICES ASSUME NEW i \in DOMAIN predictions
               PROVE  /\ predictions[i] \in Prediction /\ predictions'[i] \in Prediction
                      /\ predictions'[i].cycle = predictions[i].cycle
                      /\ predictions'[i].try = predictions[i].try
                      /\ predictions'[i].code = predictions[i].code
                      /\ predictions'[i].ret = predictions[i].ret
                      /\ predictions'[i].selected = IF predictions[i].cycle = This
                                                    THEN predictions[i].code \in codes
                                                    ELSE predictions[i].selected
    OBVIOUS
  <2> DEFINE p == predictions[i]
             q == IF p.cycle = This THEN [p EXCEPT !.selected = p.code \in codes] ELSE p
  <2>1. p \in Prediction /\ predictions'[i] = q
    BY <1>3, PlacesOfPredictions DEF ReviewInv
  <2> HIDE DEF p
  <2>2. q = [p EXCEPT !.selected = IF p.cycle = This THEN p.code \in codes ELSE p.selected]
    BY <2>1 DEF Prediction
  <2>3. (IF p.cycle = This THEN p.code \in codes ELSE p.selected) \in BOOLEAN
    <3>1. p.selected \in BOOLEAN /\ (p.code \in codes) \in BOOLEAN
      BY <2>1 DEF Prediction
    <3>2. QED
      BY <3>1, Zenon
  <2> DEFINE v == IF p.cycle = This THEN p.code \in codes ELSE p.selected
  <2>4. v \in BOOLEAN /\ predictions'[i] = [p EXCEPT !.selected = v]
    BY <2>1, <2>2, <2>3
  <2> HIDE DEF v
  <2>5. /\ predictions'[i] \in Prediction /\ predictions'[i].cycle = p.cycle
        /\ predictions'[i].try = p.try /\ predictions'[i].code = p.code
        /\ predictions'[i].ret = p.ret /\ predictions'[i].selected = v
    BY <2>1, <2>4 DEF Prediction
  <2>6. QED
    BY <2>1, <2>5 DEF p, v
<1>5. predictions' \in Seq(Prediction)
  <2>1. predictions' = [i \in 1 .. Len(predictions) |-> predictions'[i]]
    BY <1>1, <1>3, PlacesOfPredictions DEF ReviewInv, Marked
  <2>2. QED
    BY <1>3, <1>4, <2>1, IsASeq, PlacesOfPredictions DEF ReviewInv
<1>6. Listed'
  BY <1>1, <1>2, <1>5 DEF ReviewInv, Listed
<1>7. Attempted'
  BY <1>1, <1>3, <1>4 DEF ReviewInv, Attempted
<1>8. Traced'
  BY <1>1, <1>2, <1>3, <1>4 DEF ReviewInv, Traced
<1>9. Kept'
  <2>1. \A n \in DOMAIN books : n # This
    BY ThisIsNext DEF ReviewInv
  <2>2. QED
    BY <1>1, <1>3, <1>4, <2>1 DEF ReviewInv, Kept
<1>10. QED
  BY <1>6, <1>7, <1>8, <1>9 DEF ReviewInv

LEMMA PredictionsReconciled ==
  ASSUME ReviewInv, NEW pnl \in Fills, RecordOutcomes(pnl)
  PROVE  ReviewInv'
<1>1. /\ step = "marked" /\ step' = "simulated" /\ tries' = tries /\ books' = books
      /\ predictions' = Reconciled(predictions, pnl) /\ trade' = [trade EXCEPT !.pnl = pnl]
  BY DEF RecordOutcomes
<1>2. This' = This /\ trade' = [plan |-> trade.plan, pnl |-> pnl]
  BY <1>1 DEF This, ReviewInv, Listed
<1>3. /\ DOMAIN predictions' = DOMAIN predictions
      /\ \A i \in DOMAIN predictions :
           predictions'[i] = IF predictions[i].cycle = This /\ predictions[i].code \in DOMAIN pnl
                             THEN [predictions[i] EXCEPT !.ret = pnl[predictions[i].code]]
                             ELSE predictions[i]
  BY <1>1, Zenon DEF Reconciled
<1>4. \A i \in DOMAIN predictions :
        /\ predictions[i] \in Prediction /\ predictions'[i] \in Prediction
        /\ predictions'[i].cycle = predictions[i].cycle /\ predictions'[i].try = predictions[i].try
        /\ predictions'[i].code = predictions[i].code /\ predictions'[i].selected = predictions[i].selected
        /\ predictions'[i].ret = IF predictions[i].cycle = This /\ predictions[i].code \in DOMAIN pnl
                                 THEN pnl[predictions[i].code] ELSE predictions[i].ret
  <2> SUFFICES ASSUME NEW i \in DOMAIN predictions
               PROVE  /\ predictions[i] \in Prediction /\ predictions'[i] \in Prediction
                      /\ predictions'[i].cycle = predictions[i].cycle
                      /\ predictions'[i].try = predictions[i].try
                      /\ predictions'[i].code = predictions[i].code
                      /\ predictions'[i].selected = predictions[i].selected
                      /\ predictions'[i].ret =
                           IF predictions[i].cycle = This /\ predictions[i].code \in DOMAIN pnl
                           THEN pnl[predictions[i].code] ELSE predictions[i].ret
    OBVIOUS
  <2>1. predictions[i] \in Prediction
    BY PlacesOfPredictions DEF ReviewInv
  <2>2. predictions[i].code \in DOMAIN pnl => pnl[predictions[i].code] \in Int
    BY ReviewConstants DEF Numbers
  <2>3. QED
    BY <1>3, <2>1, <2>2 DEF Prediction
<1>5. predictions' \in Seq(Prediction)
  <2>1. predictions' = [i \in 1 .. Len(predictions) |-> predictions'[i]]
    BY <1>1, <1>3, PlacesOfPredictions DEF ReviewInv, Reconciled
  <2>2. QED
    BY <1>3, <1>4, <2>1, IsASeq, PlacesOfPredictions DEF ReviewInv
<1>6. Listed'
  BY <1>1, <1>2, <1>5 DEF ReviewInv, Listed
<1>7. Attempted'
  BY <1>1, <1>3, <1>4 DEF ReviewInv, Attempted
<1>8. Traced'
  BY <1>1, <1>2, <1>3, <1>4 DEF ReviewInv, Traced
<1>9. Kept'
  <2>1. \A n \in DOMAIN books : n # This
    BY ThisIsNext DEF ReviewInv
  <2>2. QED
    BY <1>1, <1>3, <1>4, <2>1 DEF ReviewInv, Kept
<1>10. QED
  BY <1>6, <1>7, <1>8, <1>9 DEF ReviewInv

\* The meeting leaves the track record and the history alone.
LEMMA ReviewHeld ==
  ASSUME ReviewInv, NEW o \in Outcomes, NEW s \in Sayings, HoldReview(o, s)
  PROVE  ReviewInv'
<1>1. /\ step = "simulated" /\ UNCHANGED <<tries, predictions, books, trade>>
      /\ step' = "idle" \/ (step' = "reviewed" /\ \E a, m, d : result' = With(o, [applied |-> a, matched |-> m, driver |-> d]))
  BY DEF HoldReview
<1>2. DOMAIN o = {"ret", "bench", "regime", "by", "model", "bias", "heard"}
  BY ReviewConstants DEF Outcome
<1>3. step' = "reviewed" => DOMAIN result' \cap {"plan", "pnl", "try"} = {}
  BY <1>1, <1>2 DEF With
<1>4. This' = This
  BY <1>1 DEF This
<1>5. Listed'
  BY <1>1, <1>3 DEF ReviewInv, Listed
<1>6. Attempted' /\ Traced' /\ Kept'
  BY <1>1, <1>4 DEF ReviewInv, Attempted, Traced, Kept
<1>7. QED
  BY <1>5, <1>6 DEF ReviewInv

\* The new record is of the attempt under way, whose predictions say what it says.
LEMMA CycleRecorded ==
  ASSUME ReviewInv, RecordCycle
  PROVE  ReviewInv'
<1> DEFINE b == With(result, With(trade, [try |-> tries]))
<1>1. /\ step = "reviewed" /\ step' = "idle" /\ UNCHANGED <<tries, predictions, trade>>
      /\ books' = Append(books, b)
  BY DEF RecordCycle
<1>2. b.try = tries /\ b.plan = trade.plan /\ b.pnl = trade.pnl
  <2>1. DOMAIN result \cap {"plan", "pnl", "try"} = {} /\ trade = [plan |-> trade.plan, pnl |-> trade.pnl]
    BY <1>1 DEF ReviewInv, Listed
  <2>2. \A x \in {"plan", "pnl", "try"} :
          x \in DOMAIN b /\ b[x] = IF x = "try" THEN tries ELSE trade[x]
    BY <2>1 DEF With
  <2>3. QED
    BY <2>2
<1> HIDE DEF b
<1>3. PICK S : books \in Seq(S)
  BY DEF ReviewInv, Listed
<1>4. books \in Seq(S \cup {b})
  BY <1>3, SeqMonotonic
<1>5. /\ books' \in Seq(S \cup {b}) /\ Len(books') = Len(books) + 1
      /\ books'[Len(books) + 1] = b /\ \A n \in 1 .. Len(books) : books'[n] = books[n]
  BY <1>1, <1>4, AppendProperties
<1>6. /\ DOMAIN books = 1 .. Len(books) /\ DOMAIN books' = 1 .. Len(books) + 1 /\ Len(books) \in Nat
      /\ This = Len(books) + 1
  BY <1>4, <1>5, LenProperties DEF This
<1>7. \A n \in DOMAIN books' : (n \in DOMAIN books /\ books'[n] = books[n]) \/ (n = This /\ books'[n] = b)
  BY <1>5, <1>6
<1>8. Listed'
  BY <1>1, <1>5 DEF ReviewInv, Listed
<1>9. Attempted'
  BY <1>1, <1>2, <1>7 DEF ReviewInv, Attempted, Listed
<1>10. Traced'
  BY <1>1 DEF Traced
<1>11. Kept'
  <2> SUFFICES ASSUME NEW n \in DOMAIN books', NEW i \in DOMAIN predictions,
                      predictions[i].try = books'[n].try
               PROVE  /\ predictions[i].cycle = n
                      /\ predictions[i].selected = (predictions[i].code \in books'[n].plan)
                      /\ predictions[i].ret = IF predictions[i].code \in DOMAIN books'[n].pnl
                                              THEN books'[n].pnl[predictions[i].code] ELSE Untold
    BY <1>1 DEF Kept
  <2>1. CASE n \in DOMAIN books /\ books'[n] = books[n]
    BY <2>1 DEF ReviewInv, Kept
  <2>2. CASE n = This /\ books'[n] = b
    BY <1>1, <1>2, <2>2 DEF ReviewInv, Traced
  <2>3. QED
    BY <1>7, <2>1, <2>2
<1>12. QED
  BY <1>8, <1>9, <1>10, <1>11 DEF ReviewInv

LEMMA ReviewStepInv == ReviewInv /\ [ReviewNext]_reviewVars => ReviewInv'
<1> SUFFICES ASSUME ReviewInv, [ReviewNext]_reviewVars PROVE ReviewInv'
  OBVIOUS
<1>1. CASE GiveUp \/ UNCHANGED reviewVars
  <2>1. UNCHANGED <<tries, predictions, books, trade, result>> /\ (step' = "idle" \/ step' = step)
    BY <1>1 DEF GiveUp, reviewVars
  <2>2. This' = This
    BY <2>1 DEF This
  <2>3. QED
    BY <2>1, <2>2 DEF ReviewInv, Listed, Attempted, Traced, Kept
<1>2. CASE RecordCycle
  BY <1>2, CycleRecorded
<1>3. CASE \E slate \in Slates : RecordPredictions(slate)
  BY <1>3, PredictionsAdded
<1>4. CASE \E codes \in {DOMAIN f : f \in Fills} : MarkSelected(codes)
  BY <1>4, PredictionsMarked
<1>5. CASE \E pnl \in Fills : RecordOutcomes(pnl)
  BY <1>5, PredictionsReconciled
<1>6. CASE \E o \in Outcomes, s \in Sayings : HoldReview(o, s)
  BY <1>6, ReviewHeld
<1>7. QED
  BY <1>1, <1>2, <1>3, <1>4, <1>5, <1>6 DEF ReviewNext

LEMMA ReviewInvariant == ReviewSpec => []ReviewInv
BY ReviewInitInv, ReviewStepInv, PTL DEF ReviewSpec

\* What the agents predicted for the attempt that was recorded is marked with its plan and its
\* trades, and never touched again, however many attempts shared the number of the cycle.
THEOREM RecordAlwaysTrue == ReviewSpec => []RecordIsTrue
<1>1. ReviewInv => RecordIsTrue
  BY DEF ReviewInv, Kept, RecordIsTrue, ToSet
<1>2. QED
  BY <1>1, ReviewInvariant, PTL

\* The values of a proposal are within their bounds, whatever was said.
LEMMA BoundedIsWithin ==
  ASSUME NEW x \in Int, NEW low \in Int, NEW high \in Int, low <= high
  PROVE  Bounded(x, low, high) \in low .. high
BY DEF Bounded

LEMMA ClampsAreRanges ==
  \A p \in DOMAIN Clamps : Clamps[p][1] \in Int /\ Clamps[p][2] \in Int /\ Clamps[p][1] <= Clamps[p][2]
BY ReviewConstants, Zenon

LEMMA ProposableIsWithin ==
  ASSUME NEW f, Numbers(f), NEW p \in DOMAIN Proposable(f)
  PROVE  Proposable(f)[p] \in Clamps[p][1] .. Clamps[p][2]
<1> DEFINE x == IF f[p] > 10000 /\ f[p] <= 1000000 THEN f[p] \div 100 ELSE f[p]
<1>1. p \in DOMAIN f /\ p \in DOMAIN Clamps /\ Proposable(f)[p] = Bounded(x, Clamps[p][1], Clamps[p][2])
  BY DEF Proposable
<1>2. f[p] \in Int
  BY <1>1, SMT DEF Numbers
<1>3. x \in Int
  BY <1>2
<1>4. Clamps[p][1] \in Int /\ Clamps[p][2] \in Int /\ Clamps[p][1] <= Clamps[p][2]
  BY <1>1, ClampsAreRanges
<1> HIDE DEF x
<1>5. QED
  BY <1>1, <1>3, <1>4, BoundedIsWithin

LEMMA WeighedIsWithin ==
  ASSUME NEW f, Numbers(f), NEW agents, NEW a \in DOMAIN Weighed(f, agents)
  PROVE  Weighed(f, agents)[a] \in 30 .. 200 /\ (agents # {} => a \in agents)
<1>1. /\ a \in DOMAIN f
      /\ agents # {} => a \in agents
      /\ Weighed(f, agents)[a] = IF f[a] = Odd THEN 100 ELSE Bounded(f[a], 30, 200)
  BY DEF Weighed
<1>2. f[a] \in Int
  BY <1>1, SMT DEF Numbers
<1>3. Bounded(f[a], 30, 200) \in 30 .. 200
  BY <1>2 DEF Bounded
<1>4. QED
  BY <1>1, <1>3

\* Weights by accuracy are numbers: nothing is divided by zero.
LEMMA AccuracyIsNumber == Listed => Numbers(ByAccuracy(predictions))
<1> SUFFICES ASSUME Listed, NEW a \in Ranked(predictions)
             PROVE  ByAccuracy(predictions)[a] \in Int
  BY DEF ByAccuracy, Numbers
<1> DEFINE T == Traded(predictions, a)
           G == Gained(predictions, a)
<1>1. IsFiniteSet(Recent(predictions))
  <2>1. Recent(predictions) \subseteq DOMAIN predictions
    BY DEF Recent
  <2>2. IsFiniteSet(DOMAIN predictions)
    BY PlacesOfPredictions, FS_Interval
  <2>3. QED
    BY <2>1, <2>2, FS_Subset
<1>2. T \in Nat
  <2>1. IsFiniteSet({i \in Recent(predictions) : predictions[i].agent = a /\ predictions[i].ret # Untold})
    BY <1>1, FS_Subset
  <2>2. QED
    BY <2>1, FS_CardinalityType DEF Traded
<1>3. G \in Nat
  <2>1. IsFiniteSet({i \in Recent(predictions) : predictions[i].agent = a /\ Won(predictions[i])})
    BY <1>1, FS_Subset
  <2>2. QED
    BY <2>1, FS_CardinalityType DEF Gained
<1>4. ByAccuracy(predictions)[a] = IF T >= MinTraded THEN 50 + (200 * G + T) \div (2 * T) ELSE 100
  BY DEF ByAccuracy
<1> HIDE DEF T, G
<1>5. CASE T >= MinTraded
  <2>1. MinTraded \in Nat \ {0}
    BY ReviewConstants, Zenon
  <2>2. T > 0 /\ 2 * T \in Nat \ {0} /\ 200 * G + T \in Int
    BY <1>2, <1>3, <1>5, <2>1
  <2>3. (200 * G + T) \div (2 * T) \in Int
    BY <2>2
  <2>4. QED
    BY <1>4, <1>5, <2>3
<1>6. QED
  BY <1>4, <1>5

LEMMA NothingIsNumbers == Numbers(<<>>)
<1>1. \A f : f = <<>> => DOMAIN f = {}
  OBVIOUS
<1>2. QED
  BY <1>1, Zenon DEF Numbers

\* Whatever the LLM says, what is weighed and bounded are numbers.
LEMMA DecidedIsNumbers ==
  ASSUME Listed, NEW r, NEW drivers, NEW s \in Sayings, s.says # "garbled evo"
  PROVE  Numbers(Decided(r, drivers, s).params) /\ Numbers(Decided(r, drivers, s).weights)
<1>1. s.says \in {"nothing", "only evo", "decision"} /\ Numbers(s.params) /\ Numbers(s.weights)
  BY ReviewConstants DEF Says
<1>2. Numbers(JudgesFallback(r, drivers))
  <2>1. JudgesFallback(r, drivers) \in {Cautious, Bold, <<>>}
    BY DEF JudgesFallback
  <2>2. QED
    BY <2>1, NothingIsNumbers, ReviewConstants
<1>3. QED
  BY <1>1, <1>2, AccuracyIsNumber DEF Decided

\* Whatever is near a loss is a loss of its market.
LEMMA SimilarIsLike ==
  ASSUME NEW r, Lost(r), NEW n \in Similar(r)
  PROVE  /\ n \in DOMAIN books /\ Lost(books[n])
         /\ r.regime # "unknown" => books[n].regime = r.regime
         /\ ~r.bench => ~books[n].bench
<1>1. n \in DOMAIN books /\ StrictMatch(books[n], r)
  BY DEF Similar
<1>2. QED
  BY <1>1 DEF StrictMatch

LEMMA ReviewEarned ==
  ASSUME ReviewInv, NEW o \in Outcomes, NEW s \in Sayings, HoldReview(o, s)
  PROVE  AdviceIsEarned'
<1> SUFFICES ASSUME step' = "reviewed", advice' # Silence
             PROVE  /\ BorneOut' /\ result'.heard \notin 0 .. 2
                    /\ \A p \in DOMAIN advice'.params : advice'.params[p] \in Clamps[p][1] .. Clamps[p][2]
                    /\ \A a \in DOMAIN advice'.weights :
                         /\ advice'.weights[a] \in 30 .. 200
                         /\ Ranked(predictions') # {} => \E q \in ToSet(predictions') : q.agent = a
  BY DEF AdviceIsEarned
<1> DEFINE r == With(o, [applied |-> FALSE])
           near == Similar(r)
           drivers == Drivers(r, near)
           decision == Decided(r, drivers, s)
<1>1. /\ s.says # "garbled evo" /\ predictions' = predictions /\ books' = books
      /\ advice' = Adopted(decision, GatePassed(r, near, drivers))
      /\ \E m, d : result' = With(o, [applied |-> advice' # Silence, matched |-> m, driver |-> d])
  BY Zenon DEF HoldReview
<1>2. \A x \in {"ret", "bench", "regime", "heard"} : result'[x] = o[x] /\ r[x] = o[x]
  <2>1. o \in Outcome
    BY ReviewConstants
  <2>2. DOMAIN o = {"ret", "bench", "regime", "by", "model", "bias", "heard"}
    BY <2>1 DEF Outcome
  <2>3. QED
    BY <1>1, <2>2 DEF With
<1>3. o.heard \in Nat \cup {NoFeedback}
  BY ReviewConstants DEF Outcome
<1> HIDE DEF r, near, drivers, decision
<1>4. /\ GatePassed(r, near, drivers)
      /\ advice'.params = Proposable(decision.params)
      /\ advice'.weights = Weighed(decision.weights, Ranked(predictions))
  BY <1>1 DEF Adopted
<1>5. BorneOut'
  <2> SUFFICES ASSUME Lost(result')
               PROVE  \E n \in DOMAIN books : /\ books[n].ret <= 0
                                              /\ result'.regime \in {"unknown", books[n].regime}
                                              /\ ~result'.bench => ~books[n].bench
    BY <1>1 DEF BorneOut
  <2>1. Lost(r)
    BY <1>2 DEF Lost
  <2>2. PICK n \in near : TRUE
    BY <1>4, <2>1 DEF GatePassed
  <2>3. /\ n \in DOMAIN books /\ Lost(books[n])
        /\ r.regime # "unknown" => books[n].regime = r.regime
        /\ ~r.bench => ~books[n].bench
    BY <2>1, <2>2, SimilarIsLike DEF near
  <2>4. QED
    BY <1>2, <2>3 DEF Lost
<1>6. result'.heard \notin 0 .. 2
  <2>1. r.heard # NoFeedback => Heard(r) = r
    BY DEF Heard
  <2>2. QED
    BY <1>2, <1>3, <1>4, <2>1 DEF GatePassed, NoFeedback
<1>7. Numbers(decision.params) /\ Numbers(decision.weights)
  BY <1>1, DecidedIsNumbers DEF ReviewInv, decision
<1>8. \A p \in DOMAIN advice'.params : advice'.params[p] \in Clamps[p][1] .. Clamps[p][2]
  BY <1>4, <1>7, ProposableIsWithin
<1>9. ASSUME NEW a \in DOMAIN advice'.weights
      PROVE  /\ advice'.weights[a] \in 30 .. 200
             /\ Ranked(predictions') # {} => \E q \in ToSet(predictions') : q.agent = a
  <2>1. advice'.weights[a] \in 30 .. 200 /\ (Ranked(predictions) # {} => a \in Ranked(predictions))
    BY <1>4, <1>7, WeighedIsWithin
  <2>2. a \in Ranked(predictions) => \E i \in DOMAIN predictions : predictions[i].agent = a
    BY DEF Ranked, Recent
  <2>3. QED
    BY <1>1, <2>1, <2>2 DEF ToSet
<1>10. QED
  BY <1>5, <1>6, <1>8, <1>9

\* A review proposes nothing after a loss that the history does not bear out, nor on too little
\* feedback, and its values are within bounds, whatever the LLM said.
THEOREM AdviceAlwaysEarned == ReviewSpec => []AdviceIsEarned
<1>1. ReviewInit => AdviceIsEarned
  BY DEF ReviewInit, AdviceIsEarned
<1>2. AdviceIsEarned /\ ReviewInv /\ [ReviewNext]_reviewVars => AdviceIsEarned'
  <2> SUFFICES ASSUME AdviceIsEarned, ReviewInv, [ReviewNext]_reviewVars PROVE AdviceIsEarned'
    OBVIOUS
  <2>1. CASE UNCHANGED reviewVars
    BY <2>1 DEF reviewVars, AdviceIsEarned, BorneOut
  <2>2. CASE \E o \in Outcomes, s \in Sayings : HoldReview(o, s)
    BY <2>2, ReviewEarned
  <2>3. CASE \/ GiveUp \/ RecordCycle
             \/ \E slate \in Slates : RecordPredictions(slate)
             \/ \E codes \in {DOMAIN f : f \in Fills} : MarkSelected(codes)
             \/ \E pnl \in Fills : RecordOutcomes(pnl)
    <3>1. step' # "reviewed"
      BY <2>3 DEF GiveUp, RecordCycle, RecordPredictions, MarkSelected, RecordOutcomes
    <3>2. QED
      BY <3>1 DEF AdviceIsEarned
  <2>4. QED
    BY <2>1, <2>2, <2>3 DEF ReviewNext
<1>3. QED
  BY <1>1, <1>2, ReviewInvariant, PTL DEF ReviewSpec
---------------------------------------------------------------------------
(* The loads of training data *)

\* The store has no holes: with a bar it has the stock's bars of all earlier days.
Prefixed ==
  \A b \in bars : /\ b = <<b[1], b[2]>> /\ b[1] \in Codes /\ b[2] \in Nat \ {0}
                  /\ \A e \in 1 .. b[2] : <<b[1], e>> \in bars

Shaped ==
  /\ load = [stage |-> load.stage, cutoff |-> load.cutoff, ready |-> load.ready, codes |-> load.codes,
             rows |-> load.rows, frames |-> load.frames, source |-> load.source]
  /\ load.stage \in {"idle", "checked", "derived", "selected", "queried", "missed", "done"}
  /\ load.cutoff \in 1 .. LastDay
  /\ load.ready \in BOOLEAN
  /\ \A b \in DOMAIN factors : factors[b] \in BOOLEAN
  /\ IsFiniteSet(reports)

\* What was found ready still is, at every stage.
Served ==
  /\ load.stage # "idle" => known # <<>>
  /\ load.stage \in {"checked", "derived"} /\ load.ready => LongEnough(load.cutoff) # {}
  /\ load.stage = "selected" => load.codes # {} /\ load.codes \subseteq LongEnough(load.cutoff)
  /\ load.stage = "queried" => load.codes # {}
  /\ load.stage = "missed" => ~(load.ready /\ known[1])
  /\ load.stage = "done" /\ load.ready /\ known[1] => load.source = "offline"

\* How many of h days of history are too old to be in the rows
Dropped(h) == IF h > HistoryLimit THEN h - HistoryLimit ELSE 0

\* The rows of a stock are the end of a history of h days; and none lies beyond a cutoff
\* that the history does not reach.
RowsEnd(c, h) ==
  /\ h \in MinHistory .. load.cutoff
  /\ 1 .. h \subseteq History(c, load.cutoff)
  /\ \A r \in RowsOf(c) : r[3] \in BOOLEAN
  /\ \A d \in Dropped(h) + 1 .. h : d \in DaysOf(c)
  /\ \A d \in DaysOf(c) : /\ d \in 1 .. load.cutoff + Future
                          /\ d > h => h = load.cutoff

RowsQueried == load.stage = "queried" => \A c \in load.codes : \E h \in Nat : RowsEnd(c, h)

\* A row with enough rows before it knows its factors.
FrameWhole(c, h) ==
  /\ h \in MinHistory .. load.cutoff
  /\ 1 .. h \subseteq History(c, load.cutoff)
  /\ \A row \in load.frames[c].rows :
       /\ row.day \in Nat
       /\ row.day > h => h = load.cutoff
       /\ (IF row.day > h THEN h ELSE row.day) - Dropped(h) >= Lookback => row.whole

Framed == PointInTime /\ \A c \in DOMAIN load.frames : \E h \in Nat : FrameWhole(c, h)

DataInv == Prefixed /\ Shaped /\ Served /\ RowsQueried /\ Framed

LEMMA DataNumbers ==
  /\ Future \in Nat
  /\ LastDay \in Nat \ {0} /\ StockCount \in Nat \ {0} /\ MinHistory \in Nat \ {0}
  /\ Lookback \in Nat \ {0} /\ Buffer \in Nat \ {0}
  /\ HistoryLimit \in Nat /\ HistoryLimit >= MinHistory + Buffer /\ HistoryLimit >= Lookback + Buffer
<1>1. /\ Future \in Nat
      /\ LastDay \in Nat \ {0} /\ StockCount \in Nat \ {0} /\ MinHistory \in Nat \ {0}
      /\ Lookback \in Nat \ {0} /\ Buffer \in Nat \ {0}
  BY TrainingDataConstants
<1>2. QED
  BY <1>1 DEF HistoryLimit

LEMMA NoFrames == DOMAIN <<>> = {}
OBVIOUS

\* A history is a stock's first days.
LEMMA HistoryIsPrefix ==
  ASSUME Prefixed, NEW c, NEW cutoff \in Nat
  PROVE  \E m \in 0 .. cutoff : History(c, cutoff) = 1 .. m
<1>1. CASE History(c, cutoff) = {}
  <2>1. 1 .. 0 = {}
    OBVIOUS
  <2>2. QED
    BY <1>1, <2>1
<1>2. CASE History(c, cutoff) # {}
  <2> DEFINE H == History(c, cutoff)
             m == Max(H)
  <2>1. H \in SUBSET (1 .. cutoff)
    BY DEF History
  <2>2. m \in H /\ \A y \in H : m >= y
    BY <1>2, <2>1, MaxExists
  <2> HIDE DEF m
  <2>3. m \in 1 .. cutoff
    BY <2>1, <2>2
  <2>4. <<c, m>> \in bars
    BY <2>2 DEF History
  <2>5. \A e \in 1 .. m : <<c, e>> \in bars
    BY <2>4 DEF Prefixed
  <2>6. H = 1 .. m
    BY <2>1, <2>2, <2>3, <2>5 DEF History
  <2>7. QED
    BY <2>3, <2>6
<1>3. QED
  BY <1>1, <1>2

LEMMA HistoryIsFinite ==
  ASSUME NEW c, NEW cutoff \in Nat
  PROVE  IsFiniteSet(History(c, cutoff)) /\ Cardinality(History(c, cutoff)) \in Nat
<1>1. IsFiniteSet(1 .. cutoff) /\ History(c, cutoff) \subseteq 1 .. cutoff
  BY FS_Interval DEF History
<1>2. QED
  BY <1>1, FS_Subset, FS_CardinalityType

\* Histories grow only, whatever is synchronised.
LEMMA HistoryGrows ==
  ASSUME bars \subseteq bars', NEW cutoff \in Nat
  PROVE  /\ \A c : History(c, cutoff) \subseteq History(c, cutoff)'
         /\ LongEnough(cutoff) \subseteq LongEnough(cutoff)'
<1>1. \A c : History(c, cutoff) \subseteq History(c, cutoff)'
  BY DEF History
<1>2. ASSUME NEW c \in LongEnough(cutoff)
      PROVE  c \in LongEnough(cutoff)'
  <2>1. IsFiniteSet(History(c, cutoff)') /\ Cardinality(History(c, cutoff)') \in Nat
    <3>1. IsFiniteSet(1 .. cutoff) /\ History(c, cutoff)' \subseteq 1 .. cutoff
      BY FS_Interval DEF History
    <3>2. QED
      BY <3>1, FS_Subset, FS_CardinalityType
  <2>2. Cardinality(History(c, cutoff)) <= Cardinality(History(c, cutoff)')
    BY <1>1, <2>1, FS_Subset
  <2>3. QED
    BY <2>1, <2>2, HistoryIsFinite, DataNumbers DEF LongEnough
<1>3. QED
  BY <1>1, <1>2

LEMMA DataInitInv == DataInit => DataInv
<1> SUFFICES ASSUME DataInit PROVE DataInv
  OBVIOUS
<1>1. /\ bars \in {{}, {<<c, d>> : c \in Codes, d \in 1 .. MinHistory}}
      /\ factors = <<>> /\ load = NoLoad
  BY DEF DataInit
<1>2. Prefixed
  <2>1. CASE bars = {}
    BY <2>1 DEF Prefixed
  <2>2. CASE bars = {<<c, d>> : c \in Codes, d \in 1 .. MinHistory}
    BY <2>2, DataNumbers DEF Prefixed
  <2>3. QED
    BY <1>1, <2>1, <2>2
<1>3. Shaped
  BY <1>1, DataNumbers, NoFrames, FS_EmptySet DEF DataInit, Shaped, NoLoad
<1>4. Served /\ RowsQueried
  BY <1>1 DEF Served, RowsQueried, NoLoad
<1>5. Framed
  <2>1. DOMAIN load.frames = {}
    BY <1>1, NoFrames DEF NoLoad
  <2>2. QED
    BY <2>1 DEF Framed, PointInTime
<1>6. QED
  BY <1>2, <1>3, <1>4, <1>5 DEF DataInv

\* Whatever was synchronised, a load under way is as sound as before.
LEMMA SynchronisedInv ==
  ASSUME DataInv, bars \subseteq bars', Prefixed', IsFiniteSet(reports'), UNCHANGED <<factors, known, load>>
  PROVE  DataInv'
<1>1. load.cutoff \in Nat
  BY DataNumbers DEF DataInv, Shaped
<1>2. /\ \A c : History(c, load.cutoff) \subseteq History(c, load.cutoff)'
      /\ LongEnough(load.cutoff) \subseteq LongEnough(load.cutoff)'
  BY <1>1, HistoryGrows
<1>3. Shaped'
  BY DEF DataInv, Shaped
<1>4. Served'
  BY <1>2 DEF DataInv, Served
<1>5. RowsQueried'
  <2>1. \A c : RowsOf(c)' = RowsOf(c) /\ DaysOf(c)' = DaysOf(c)
    BY DEF RowsOf, DaysOf
  <2>2. \A c, h : RowsEnd(c, h) => RowsEnd(c, h)'
    BY <1>2, <2>1 DEF RowsEnd
  <2>3. QED
    BY <2>2 DEF DataInv, RowsQueried
<1>6. Framed'
  <2>1. \A c, h : FrameWhole(c, h) => FrameWhole(c, h)'
    BY <1>2 DEF FrameWhole
  <2>2. PointInTime'
    BY DEF DataInv, Framed, PointInTime
  <2>3. QED
    BY <2>1, <2>2 DEF DataInv, Framed
<1>7. QED
  BY <1>3, <1>4, <1>5, <1>6 DEF DataInv

\* Outside its last stage a load has no frames.
LEMMA NotFramed ==
  ASSUME DOMAIN load'.frames = {}
  PROVE  Framed'
BY DEF Framed, PointInTime

LEMMA Checked ==
  ASSUME DataInv, Check
  PROVE  DataInv'
<1>1. PICK cutoff \in 1 .. LastDay :
        load' = [NoLoad EXCEPT !.stage = IF known[1] THEN "checked" ELSE "missed",
                               !.cutoff = cutoff, !.ready = LongEnough(cutoff) # {}]
  BY DEF Check
<1>2. /\ load'.stage = (IF known[1] THEN "checked" ELSE "missed")
      /\ load'.cutoff = cutoff /\ load'.ready = (LongEnough(cutoff) # {}) /\ load'.frames = <<>>
      /\ load' = [stage |-> load'.stage, cutoff |-> load'.cutoff, ready |-> load'.ready,
                  codes |-> load'.codes, rows |-> load'.rows, frames |-> load'.frames,
                  source |-> load'.source]
  BY <1>1 DEF NoLoad
<1>3. UNCHANGED <<bars, factors, reports, known>> /\ known # <<>>
  BY DEF Check
<1>4. Prefixed'
  BY <1>3 DEF DataInv, Prefixed
<1>5. Shaped'
  BY <1>2, <1>3 DEF DataInv, Shaped
<1>6. LongEnough(cutoff)' = LongEnough(cutoff)
  BY <1>3 DEF LongEnough, History
<1>7. Served' /\ RowsQueried'
  BY <1>2, <1>3, <1>6 DEF Served, RowsQueried
<1>8. Framed'
  BY <1>2, NoFrames, NotFramed
<1>9. QED
  BY <1>4, <1>5, <1>7, <1>8 DEF DataInv

LEMMA Derived ==
  ASSUME DataInv, Derive
  PROVE  DataInv'
<1>1. /\ load.stage = "checked" /\ load' = [load EXCEPT !.stage = "derived"]
      /\ bars' = bars /\ known' = known /\ reports' = reports
  BY DEF Derive
<1>2. \A b \in DOMAIN factors' : factors'[b] \in BOOLEAN
  <2>1. PICK fresh, end, first :
          factors' = [b \in fresh \cup DOMAIN factors |->
                        IF b \in fresh
                        THEN Cardinality({e \in first .. b[2] : <<b[1], e>> \in bars}) >= Lookback
                        ELSE factors[b]]
    BY Zenon DEF Derive
  <2>2. ASSUME NEW b \in DOMAIN factors' PROVE factors'[b] \in BOOLEAN
    <3>1. CASE b \in fresh
      <4>1. factors'[b] = (Cardinality({e \in first .. b[2] : <<b[1], e>> \in bars}) >= Lookback)
        BY <2>1, <3>1
      <4>2. QED
        BY <4>1
    <3>2. CASE b \notin fresh
      BY <2>1, <3>2 DEF DataInv, Shaped
    <3>3. QED
      BY <3>1, <3>2
  <2>3. QED
    BY <2>2
<1>3. load' = [stage |-> "derived", cutoff |-> load.cutoff, ready |-> load.ready, codes |-> load.codes,
               rows |-> load.rows, frames |-> load.frames, source |-> load.source]
  BY <1>1 DEF DataInv, Shaped
<1>4. Prefixed'
  BY <1>1 DEF DataInv, Prefixed
<1>5. Shaped'
  BY <1>1, <1>2, <1>3 DEF DataInv, Shaped
<1>6. LongEnough(load.cutoff)' = LongEnough(load.cutoff)
  BY <1>1, <1>3 DEF LongEnough, History
<1>7. Served' /\ RowsQueried'
  BY <1>1, <1>3, <1>6 DEF DataInv, Served, RowsQueried
<1>8. Framed'
  <2>1. \A c : History(c, load.cutoff)' = History(c, load.cutoff)
    BY <1>1, <1>3 DEF History
  <2>2. \A c, h : FrameWhole(c, h) => FrameWhole(c, h)'
    BY <1>3, <2>1 DEF FrameWhole
  <2>3. PointInTime'
    BY <1>3 DEF DataInv, Framed, PointInTime
  <2>4. QED
    BY <1>3, <2>2, <2>3 DEF DataInv, Framed
<1>9. QED
  BY <1>4, <1>5, <1>7, <1>8 DEF DataInv

\* Of stocks with enough history some are chosen.
LEMMA SomeIsChosen ==
  ASSUME NEW cutoff \in Nat, NEW codes, codes \subseteq Codes, codes # {}
  PROVE  ByHistory(codes, cutoff) # {}
<1> DEFINE N(c) == Cardinality(History(c, cutoff))
           Before(a, b) == N(a) > N(b) \/ (N(a) = N(b) /\ a < b)
<1>1. \A c : N(c) \in 0 .. cutoff
  <2> TAKE c
  <2>1. IsFiniteSet(1 .. cutoff) /\ Cardinality(1 .. cutoff) = cutoff /\ History(c, cutoff) \subseteq 1 .. cutoff
    BY FS_Interval DEF History
  <2>2. Cardinality(History(c, cutoff)) <= cutoff
    BY <2>1, FS_Subset
  <2>3. QED
    BY <2>2, HistoryIsFinite
<1> HIDE DEF N
<1>2. PICK a \in codes : \A b \in codes : N(a) >= N(b)
  <2> DEFINE S == {N(c) + 1 : c \in codes}
  <2>1. S \in SUBSET (1 .. cutoff + 1) /\ S # {}
    BY <1>1
  <2>2. Max(S) \in S /\ \A y \in S : Max(S) >= y
    <3> HIDE DEF S
    <3>1. cutoff + 1 \in Nat
      OBVIOUS
    <3>2. QED
      BY <2>1, <3>1, MaxExists
  <2>3. PICK a \in codes : N(a) + 1 = Max(S)
    BY <2>2
  <2>4. \A b \in codes : N(a) + 1 >= N(b) + 1
    BY <2>2, <2>3
  <2>5. QED
    BY <1>1, <2>4
<1>3. PICK c \in codes : \A b \in codes : ~Before(b, c)
  <2> DEFINE S == {b \in codes : N(b) = N(a)}
             R == OpToRel(<, Nat)
  <2>1. IsWellFoundedOn(R, Nat)
    BY NatLessThanWellFounded
  <2>2. S \subseteq Nat /\ S # {}
    BY <1>2, TrainingDataConstants
  <2>3. PICK c \in S : \A b \in S : ~ (<<b, c>> \in R)
    <3> HIDE DEF R, S
    <3> QED
      BY <2>1, <2>2, WFMin
  <2>4. \A b \in S : ~(b < c)
    BY <2>2, <2>3 DEF OpToRel
  <2>5. ASSUME NEW b \in codes PROVE ~Before(b, c)
    <3>1. N(c) = N(a) /\ N(a) >= N(b) /\ N(a) \in Nat /\ N(b) \in Nat
      BY <1>1, <1>2
    <3>2. N(b) = N(c) => ~(b < c)
      BY <2>4, <3>1
    <3>3. QED
      BY <3>1, <3>2
  <2>6. QED
    BY <2>3, <2>5
<1>4. {b \in codes : Before(b, c)} = {}
  BY <1>3
<1>5. Cardinality({b \in codes : Before(b, c)}) < StockCount
  BY <1>4, FS_EmptySet, DataNumbers
<1>6. QED
  BY <1>5 DEF ByHistory, N

LEMMA Selected ==
  ASSUME DataInv, Select
  PROVE  DataInv'
<1> DEFINE codes == LongEnough(load.cutoff)
<1>1. /\ load.stage \in {"checked", "derived"} /\ UNCHANGED <<bars, factors, reports, known>>
      /\ load.cutoff \in Nat
  <2>1. load.cutoff \in Nat
    BY DataNumbers DEF DataInv, Shaped
  <2>2. QED
    BY <2>1 DEF Select
<1>2. codes \subseteq Codes
  BY DEF LongEnough
<1>3. \/ codes = {} /\ load' = [load EXCEPT !.stage = "missed"]
      \/ \E chosen : /\ chosen # {} /\ chosen \subseteq codes
                     /\ load' = [load EXCEPT !.stage = "selected", !.codes = chosen]
  <2>1. CASE codes = {}
    BY <2>1 DEF Select
  <2>2. CASE codes # {}
    <3>1. PICK chosen \in {ByHistory(codes, load.cutoff)} \cup
                          {s \in SUBSET codes : Cardinality(s) = StockCount} :
            load' = [load EXCEPT !.stage = "selected", !.codes = chosen]
      BY <2>2, Zenon DEF Select
    <3>2. chosen \subseteq codes
      BY <3>1 DEF ByHistory
    <3>3. chosen # {}
      BY <1>1, <1>2, <2>2, <3>1, SomeIsChosen, FS_EmptySet, DataNumbers
    <3>4. QED
      BY <3>1, <3>2, <3>3
  <2>3. QED
    BY <2>1, <2>2
<1>4. PICK stage, chosen :
        /\ \/ stage = "missed" /\ codes = {}
           \/ stage = "selected" /\ chosen # {} /\ chosen \subseteq codes
        /\ load' = [stage |-> stage, cutoff |-> load.cutoff, ready |-> load.ready, codes |-> chosen,
                    rows |-> load.rows, frames |-> load.frames, source |-> load.source]
  <2>1. CASE codes = {} /\ load' = [load EXCEPT !.stage = "missed"]
    <3>1. load' = [stage |-> "missed", cutoff |-> load.cutoff, ready |-> load.ready, codes |-> load.codes,
                   rows |-> load.rows, frames |-> load.frames, source |-> load.source]
      BY <2>1 DEF DataInv, Shaped
    <3>2. QED
      BY <2>1, <3>1
  <2>2. CASE \E chosen : /\ chosen # {} /\ chosen \subseteq codes
                         /\ load' = [load EXCEPT !.stage = "selected", !.codes = chosen]
    <3>1. PICK chosen : /\ chosen # {} /\ chosen \subseteq codes
                        /\ load' = [load EXCEPT !.stage = "selected", !.codes = chosen]
      BY <2>2
    <3>2. load' = [stage |-> "selected", cutoff |-> load.cutoff, ready |-> load.ready, codes |-> chosen,
                   rows |-> load.rows, frames |-> load.frames, source |-> load.source]
      BY <3>1 DEF DataInv, Shaped
    <3>3. QED
      BY <3>1, <3>2
  <2>3. QED
    BY <1>3, <2>1, <2>2
<1> HIDE DEF codes
<1>5. Prefixed'
  BY <1>1 DEF DataInv, Prefixed
<1>6. Shaped'
  BY <1>1, <1>4 DEF DataInv, Shaped
<1>7. codes' = codes
  BY <1>1, <1>4 DEF codes, LongEnough, History
<1>8. Served' /\ RowsQueried'
  BY <1>1, <1>4, <1>7 DEF DataInv, Served, RowsQueried, codes
<1>9. Framed'
  <2>1. \A c : History(c, load.cutoff)' = History(c, load.cutoff)
    BY <1>1, <1>4 DEF History
  <2>2. \A c, h : FrameWhole(c, h) => FrameWhole(c, h)'
    BY <1>4, <2>1 DEF FrameWhole
  <2>3. PointInTime'
    BY <1>4 DEF DataInv, Framed, PointInTime
  <2>4. QED
    BY <1>4, <2>2, <2>3 DEF DataInv, Framed
<1>10. QED
  BY <1>5, <1>6, <1>8, <1>9 DEF DataInv

\* The rows of a stock with enough history are the end of its history.
LEMMA Queried ==
  ASSUME DataInv, QueryBars
  PROVE  DataInv'
<1> DEFINE LastOf(c) == {d \in History(c, load.cutoff) :
                           Cardinality({e \in History(c, load.cutoff) : e > d}) < HistoryLimit}
           After(c) == {d \in load.cutoff + 1 .. load.cutoff + Future : <<c, d>> \in bars}
           stored == [b \in bars |-> IF b \in DOMAIN factors THEN factors[b] ELSE FALSE]
           wanted == {x \in bars : x[1] \in load.codes /\ x[2] \in LastOf(x[1]) \cup After(x[1])}
           rows == {<<b[1], b[2], stored[b]>> : b \in wanted}
<1>1. /\ load.stage = "selected" /\ UNCHANGED <<bars, factors, reports, known>>
      /\ load' = [load EXCEPT !.stage = "queried", !.rows = rows]
  BY Zenon DEF QueryBars
<1>2. load.cutoff \in Nat /\ Prefixed
  BY DataNumbers DEF DataInv, Shaped
<1>3. \A b \in bars : stored[b] \in BOOLEAN
  BY DEF DataInv, Shaped
<1> HIDE DEF stored, rows
<1>a. \A b : b \in wanted <=> b \in bars /\ b[1] \in load.codes /\ b[2] \in LastOf(b[1]) \cup After(b[1])
  OBVIOUS
<1>b. \A r : r \in rows <=> \E b \in wanted : r = <<b[1], b[2], stored[b]>>
  BY DEF rows
<1> HIDE DEF wanted
<1>4. load' = [stage |-> "queried", cutoff |-> load.cutoff, ready |-> load.ready, codes |-> load.codes,
               rows |-> rows, frames |-> load.frames, source |-> load.source]
  BY <1>1 DEF DataInv, Shaped
<1>5. Prefixed'
  BY <1>1 DEF DataInv, Prefixed
<1>6. Shaped'
  BY <1>1, <1>4 DEF DataInv, Shaped
<1>7. Served'
  BY <1>1, <1>4 DEF DataInv, Served
<1>8. \A c : History(c, load.cutoff)' = History(c, load.cutoff)
  BY <1>1, <1>4 DEF History
<1>9. RowsQueried'
  <2> SUFFICES ASSUME NEW c \in load.codes PROVE \E h \in Nat : RowsEnd(c, h)'
    BY <1>4 DEF RowsQueried
  <2>1. PICK h \in 0 .. load.cutoff : History(c, load.cutoff) = 1 .. h
    BY <1>2, HistoryIsPrefix
  <2>2. h >= MinHistory
    <3>1. c \in LongEnough(load.cutoff)
      BY <1>1 DEF DataInv, Served
    <3>2. Cardinality(1 .. h) = h
      BY <2>1, FS_Interval
    <3>3. QED
      BY <2>1, <3>1, <3>2 DEF LongEnough
  <2>3. \A r : r \in RowsOf(c)' <=> \E b \in wanted : b[1] = c /\ r = <<c, b[2], stored[b]>>
    <3>1. \A r : r \in RowsOf(c)' <=> r \in rows /\ r[1] = c
      BY <1>4 DEF RowsOf
    <3>2. QED
      BY <1>b, <3>1
  <2>4. \A d : d \in DaysOf(c)' <=> <<c, d>> \in bars /\ d \in LastOf(c) \cup After(c)
    <3>1. \A b \in bars : b = <<b[1], b[2]>>
      BY <1>2 DEF Prefixed
    <3>2. \A d : d \in DaysOf(c)' <=> \E b \in wanted : b[1] = c /\ d = b[2]
      <4>1. \A d : d \in DaysOf(c)' <=> \E r \in RowsOf(c)' : d = r[2]
        BY DEF DaysOf
      <4>2. \A b \in wanted : b[1] = c => <<c, b[2], stored[b]>> \in RowsOf(c)'
        BY <2>3
      <4>3. \A r \in RowsOf(c)' : \E b \in wanted : b[1] = c /\ r[2] = b[2]
        BY <2>3
      <4>4. \A b \in wanted : b[1] = c => b[2] \in DaysOf(c)'
        BY <4>1, <4>2
      <4>5. QED
        BY <4>1, <4>3, <4>4
    <3> HIDE DEF LastOf, After
    <3>3. \A d : <<c, d>> \in bars /\ d \in LastOf(c) \cup After(c) => <<c, d>> \in wanted
      BY <1>a
    <3>4. \A b \in wanted : b = <<b[1], b[2]>> /\ b \in bars /\ b[2] \in LastOf(b[1]) \cup After(b[1])
      BY <1>a, <3>1
    <3>5. QED
      BY <3>2, <3>3, <3>4
  <2>5. \A d \in 1 .. h : Cardinality({e \in 1 .. h : e > d}) = h - d
    <3> TAKE d \in 1 .. h
    <3>1. {e \in 1 .. h : e > d} = d + 1 .. h
      BY <2>1
    <3>2. Cardinality(d + 1 .. h) = IF d + 1 > h THEN 0 ELSE h - (d + 1) + 1
      BY <2>1, FS_Interval
    <3>3. Cardinality({e \in 1 .. h : e > d}) = Cardinality(d + 1 .. h)
      BY <3>1, Zenon
    <3>4. QED
      BY <2>1, <3>2, <3>3
  <2>6. \A d : d \in LastOf(c) <=> d \in 1 .. h /\ h - d < HistoryLimit
    BY <2>1, <2>5
  <2>7. \A d \in After(c) : d \in load.cutoff + 1 .. load.cutoff + Future /\ h = load.cutoff
    <3> TAKE d \in After(c)
    <3>1. d \in load.cutoff + 1 .. load.cutoff + Future /\ <<c, d>> \in bars
      OBVIOUS
    <3>2. \A e \in 1 .. d : <<c, e>> \in bars
      BY <1>2, <3>1 DEF Prefixed
    <3>3. 1 .. load.cutoff \subseteq History(c, load.cutoff)
      BY <1>2, <3>1, <3>2, DataNumbers DEF History
    <3>4. QED
      BY <1>2, <2>1, <3>1, <3>3
  <2>8. \A d \in 1 .. h : <<c, d>> \in bars
    BY <2>1 DEF History
  <2> HIDE DEF LastOf, After
  <2>9. \A d \in Dropped(h) + 1 .. h : d \in DaysOf(c)'
    <3> TAKE d \in Dropped(h) + 1 .. h
    <3>1. d \in 1 .. h /\ h - d < HistoryLimit
      BY <2>1, DataNumbers DEF Dropped
    <3>2. QED
      BY <2>4, <2>6, <2>8, <3>1
  <2>10. \A d \in DaysOf(c)' : d \in 1 .. load.cutoff + Future /\ (d > h => h = load.cutoff)
    <3> TAKE d \in DaysOf(c)'
    <3>1. CASE d \in LastOf(c)
      BY <1>2, <2>1, <2>6, <3>1, DataNumbers
    <3>2. CASE d \in After(c)
      <4>1. d \in load.cutoff + 1 .. load.cutoff + Future /\ h = load.cutoff
        BY <2>7, <3>2
      <4>2. QED
        BY <1>2, <4>1, DataNumbers
    <3>3. QED
      BY <2>4, <3>1, <3>2
  <2>11. \A r \in RowsOf(c)' : r[3] \in BOOLEAN
    BY <1>3, <1>a, <2>3
  <2>12. RowsEnd(c, h)'
    BY <1>2, <1>4, <1>8, <2>1, <2>2, <2>9, <2>10, <2>11, DataNumbers DEF RowsEnd
  <2>13. QED
    BY <2>1, <2>12
<1>10. Framed'
  <2>1. \A c, h : FrameWhole(c, h) => FrameWhole(c, h)'
    BY <1>4, <1>8 DEF FrameWhole
  <2>2. PointInTime'
    BY <1>4 DEF DataInv, Framed, PointInTime
  <2>3. QED
    BY <1>4, <2>1, <2>2 DEF DataInv, Framed
<1>11. QED
  BY <1>5, <1>6, <1>7, <1>9, <1>10 DEF DataInv

\* At least one copy of a row, and a place beyond all rows of earlier days
LEMMA PlaceIsBeyond ==
  ASSUME NEW copies \in Nat \ {0}, NEW copy \in 1 .. copies, NEW before \in Nat
  PROVE  copies * before + copy > before
<1>1. copies * before >= before
  <2>1. copies = 1 + (copies - 1) /\ copies - 1 \in Nat
    OBVIOUS
  <2>2. (copies - 1) * before \in Nat
    BY <2>1
  <2>3. copies * before = before + (copies - 1) * before
    BY <2>1
  <2>4. copies * before \in Nat
    OBVIOUS
  <2>5. QED
    BY <2>2, <2>3, <2>4
<1>2. QED
  BY <1>1

\* The days of a stock's rows count as many as its interval of them.
LEMMA DaysCount ==
  ASSUME NEW D, NEW n \in Nat, D \subseteq 1 .. n, NEW a \in Nat, NEW b \in Nat, a <= b, a + 1 .. b \subseteq D
  PROVE  Cardinality(D) \in Nat /\ Cardinality(D) >= b - a
<1>1. IsFiniteSet(1 .. n)
  BY FS_Interval
<1>2. IsFiniteSet(D) /\ Cardinality(D) \in Nat
  BY <1>1, FS_Subset, FS_CardinalityType
<1>3. Cardinality(a + 1 .. b) <= Cardinality(D) /\ Cardinality(a + 1 .. b) = b - a
  <2>1. Cardinality(a + 1 .. b) = IF a + 1 > b THEN 0 ELSE b - (a + 1) + 1
    BY FS_Interval
  <2>2. QED
    BY <1>2, <2>1, FS_Subset
<1>4. QED
  BY <1>2, <1>3

LEMMA DroppedType ==
  ASSUME NEW h \in Nat
  PROVE  Dropped(h) \in Nat /\ Dropped(h) <= h /\ (Dropped(h) > 0 => h - Dropped(h) = HistoryLimit)
         /\ (Dropped(h) = 0 => h <= HistoryLimit)
BY DataNumbers DEF Dropped

LEMMA Prepared ==
  ASSUME DataInv, Prepare
  PROVE  DataInv'
<1> DEFINE frames == [c \in EnoughRows |-> [rows |-> FrameOf(c), reports |-> LatestReports(c, load.cutoff)]]
<1>1. /\ load.stage = "queried" /\ UNCHANGED <<bars, factors, reports, known>>
      /\ load' = [load EXCEPT !.stage = IF EnoughRows = {} THEN "missed" ELSE "done", !.rows = {},
                              !.frames = frames,
                              !.source = IF EnoughRows = {} THEN load.source ELSE "offline"]
  BY DEF Prepare
<1>2. load.cutoff \in Nat /\ Prefixed
  BY DataNumbers DEF DataInv, Shaped
<1>3. \A c \in EnoughRows : Copies(c) \in Nat \ {0}
  <2> TAKE c \in EnoughRows
  <2>1. IsFiniteSet(LatestReports(c, load.cutoff))
    <3>1. LatestReports(c, load.cutoff) \subseteq reports
      BY DEF LatestReports
    <3>2. QED
      BY <3>1, FS_Subset DEF DataInv, Shaped
  <2>2. Cardinality(LatestReports(c, load.cutoff)) \in Nat
    BY <2>1, FS_CardinalityType
  <2>3. QED
    BY <2>2 DEF Copies
<1>4. ASSUME NEW c \in load.codes
      PROVE  \E h \in Nat : RowsEnd(c, h)
  BY <1>1 DEF DataInv, RowsQueried
<1>5. EnoughRows # {}
  <2>1. PICK c \in load.codes : TRUE
    BY <1>1 DEF DataInv, Served
  <2>2. PICK h \in Nat : RowsEnd(c, h)
    BY <1>4
  <2> DEFINE D == {d \in DaysOf(c) : d <= load.cutoff}
  <2>3. D \subseteq 1 .. load.cutoff
    BY <1>2, <2>2, DataNumbers DEF RowsEnd
  <2>4. Dropped(h) + 1 .. h \subseteq D
    BY <1>2, <2>2, DroppedType DEF RowsEnd
  <2> HIDE DEF D
  <2>5. Cardinality(D) \in Nat /\ Cardinality(D) >= h - Dropped(h)
    BY <1>2, <2>3, <2>4, DaysCount, DroppedType
  <2>6. h - Dropped(h) >= MinHistory
    BY <1>2, <2>2, DataNumbers, DroppedType DEF RowsEnd
  <2>7. Cardinality(D) >= MinHistory
    BY <2>5, <2>6, DataNumbers, DroppedType
  <2>8. QED
    BY <2>7 DEF D, EnoughRows
<1> HIDE DEF frames
<1>6. load' = [stage |-> "done", cutoff |-> load.cutoff, ready |-> load.ready, codes |-> load.codes,
               rows |-> {}, frames |-> frames, source |-> "offline"]
  BY <1>1, <1>5 DEF DataInv, Shaped
<1>7. Prefixed'
  BY <1>1 DEF DataInv, Prefixed
<1>8. Shaped'
  BY <1>1, <1>6 DEF DataInv, Shaped
<1>9. Served' /\ RowsQueried'
  <2>1. known' = known /\ known # <<>>
    BY <1>1 DEF DataInv, Served
  <2>2. load'.stage = "done" /\ load'.source = "offline"
    BY <1>6
  <2>3. QED
    BY <2>1, <2>2 DEF Served, RowsQueried
<1>10. /\ DOMAIN frames = EnoughRows
       /\ \A c \in EnoughRows : frames[c].rows = FrameOf(c) /\ frames[c].reports = LatestReports(c, load.cutoff)
  BY DEF frames
<1>11. \A c : History(c, load.cutoff)' = History(c, load.cutoff)
  BY <1>1, <1>6 DEF History
<1>12. \A c \in EnoughRows : c \in load.codes /\ Cardinality({d \in DaysOf(c) : d <= load.cutoff}) >= MinHistory
  BY DEF EnoughRows
<1>13. ASSUME NEW c \in EnoughRows
       PROVE  /\ \A row \in FrameOf(c) : row.day <= load.cutoff + Future
              /\ Cardinality({row.day : row \in FrameOf(c)} \cap 1 .. load.cutoff) >= MinHistory
              /\ \A r \in LatestReports(c, load.cutoff) : Effective(r) <= load.cutoff
  <2>1. PICK h \in Nat : RowsEnd(c, h)
    BY <1>4, <1>12
  <2>2. \A d \in DaysOf(c) : d \in 1 .. load.cutoff + Future
    BY <2>1 DEF RowsEnd
  <2>3. \A row \in FrameOf(c) : row.day \in DaysOf(c)
    <3> TAKE row \in FrameOf(c)
    <3>1. PICK r \in RowsOf(c), copy \in 1 .. Copies(c) : row = RowIn(c, r, copy)
      BY DEF FrameOf
    <3>2. row.day = r[2]
      BY <3>1 DEF RowIn
    <3>3. QED
      BY <3>2 DEF DaysOf
  <2>4. \A d \in DaysOf(c) : \E row \in FrameOf(c) : row.day = d
    <3> TAKE d \in DaysOf(c)
    <3>1. PICK r \in RowsOf(c) : d = r[2]
      BY DEF DaysOf
    <3>2. 1 \in 1 .. Copies(c)
      BY <1>3
    <3>3. RowIn(c, r, 1) \in FrameOf(c)
      BY <3>1, <3>2 DEF FrameOf
    <3>4. QED
      BY <3>1, <3>3 DEF RowIn
  <2>5. {row.day : row \in FrameOf(c)} \cap 1 .. load.cutoff = {d \in DaysOf(c) : d <= load.cutoff}
    BY <1>2, <2>2, <2>3, <2>4
  <2>6. \A row \in FrameOf(c) : row.day <= load.cutoff + Future
    BY <1>2, <2>2, <2>3, DataNumbers
  <2>7. \A r \in LatestReports(c, load.cutoff) : Effective(r) <= load.cutoff
    BY DEF LatestReports
  <2>8. QED
    BY <1>12, <2>5, <2>6, <2>7
<1>14. ASSUME NEW c \in EnoughRows
       PROVE  \E h \in Nat : FrameWhole(c, h)'
  <2>1. PICK h \in Nat : RowsEnd(c, h)
    BY <1>4, <1>12
  <2>2. Dropped(h) \in Nat /\ Dropped(h) <= h
    BY DroppedType
  <2> SUFFICES ASSUME NEW row \in FrameOf(c)
               PROVE  /\ row.day \in Nat
                      /\ row.day > h => h = load.cutoff
                      /\ (IF row.day > h THEN h ELSE row.day) - Dropped(h) >= Lookback => row.whole
    <3>1. load'.frames[c].rows = FrameOf(c) /\ load'.cutoff = load.cutoff
      BY <1>6, <1>10
    <3>2. h \in MinHistory .. load.cutoff /\ 1 .. h \subseteq History(c, load.cutoff)'
      BY <1>11, <2>1 DEF RowsEnd
    <3>3. Dropped(h)' = Dropped(h)
      BY DEF Dropped, HistoryLimit
    <3>4. FrameWhole(c, h)'
      BY <1>6, <3>1, <3>2, <3>3 DEF FrameWhole
    <3>5. QED
      BY <3>4
  <2>3. PICK r \in RowsOf(c), copy \in 1 .. Copies(c) :
          row = RowIn(c, r, copy)
    BY DEF FrameOf
  <2> DEFINE d == r[2]
             E == {e \in DaysOf(c) : e < d}
             x == IF d > h THEN h ELSE d - 1
  <2>4. d \in DaysOf(c)
    BY DEF DaysOf
  <2>5. d \in 1 .. load.cutoff + Future /\ (d > h => h = load.cutoff) /\ r[3] \in BOOLEAN
    BY <2>1, <2>4 DEF RowsEnd
  <2>6. E \subseteq 1 .. load.cutoff + Future
    BY <2>1 DEF RowsEnd
  <2> HIDE DEF d
  <2>7. ASSUME (IF d > h THEN h ELSE d) - Dropped(h) >= Lookback
        PROVE  Copies(c) * Cardinality(E) + copy >= Lookback
    <3>1. x \in Nat /\ Dropped(h) <= x /\ x - Dropped(h) + 1 >= Lookback /\ x < d /\ x <= h
      BY <2>2, <2>5, <2>7, DataNumbers
    <3>2. Dropped(h) + 1 .. x \subseteq E
      BY <2>1, <2>2, <2>5, <3>1 DEF RowsEnd
    <3> HIDE DEF E, x
    <3>3. Cardinality(E) \in Nat /\ Cardinality(E) >= x - Dropped(h)
      <4>1. load.cutoff + Future \in Nat
        BY <1>2, DataNumbers
      <4>2. QED
        BY <2>2, <2>6, <3>1, <3>2, <4>1, DaysCount
    <3>4. Copies(c) * Cardinality(E) + copy > Cardinality(E) /\ Copies(c) * Cardinality(E) \in Nat
      BY <1>3, <3>3, PlaceIsBeyond
    <3>5. QED
      BY <1>3, <2>2, <3>1, <3>3, <3>4, DataNumbers
  <2>8. row.day = d /\ row.whole = (r[3] \/ Copies(c) * Cardinality(E) + copy >= Lookback)
    BY <2>3 DEF d, RowIn
  <2>9. row.day \in Nat /\ (row.day > h => h = load.cutoff)
    BY <1>2, <2>5, <2>8, DataNumbers
  <2>10. ASSUME (IF row.day > h THEN h ELSE row.day) - Dropped(h) >= Lookback
         PROVE  row.whole
    BY <2>7, <2>8, <2>10
  <2>11. QED
    BY <2>9, <2>10
<1>15. Framed'
  <2>1. PointInTime'
    <3>1. load'.frames = frames /\ load'.cutoff = load.cutoff
      BY <1>6
    <3>2. \A r : Effective(r)' = Effective(r)
      BY DEF Effective
    <3>3. QED
      BY <1>10, <1>13, <3>1, <3>2 DEF PointInTime
  <2>2. QED
    BY <1>6, <1>10, <1>14, <2>1 DEF Framed
<1>16. QED
  BY <1>7, <1>8, <1>9, <1>15 DEF DataInv

LEMMA SyncedBars ==
  ASSUME DataInv, NEW c \in Codes, SyncBars(c)
  PROVE  DataInv'
<1>1. PICK last \in 1 .. LastDay : bars' = bars \cup {<<c, d>> : d \in 1 .. last}
  BY DEF SyncBars
<1>2. Prefixed'
  <2> SUFFICES ASSUME NEW b \in bars'
               PROVE  /\ b = <<b[1], b[2]>> /\ b[1] \in Codes /\ b[2] \in Nat \ {0}
                      /\ \A e \in 1 .. b[2] : <<b[1], e>> \in bars'
    BY DEF Prefixed
  <2>1. CASE b \in bars
    BY <1>1, <2>1 DEF DataInv, Prefixed
  <2>2. CASE b \in {<<c, d>> : d \in 1 .. last}
    <3>1. PICK d \in 1 .. last : b = <<c, d>>
      BY <2>2
    <3>2. \A e \in 1 .. d : e \in 1 .. last
      BY DataNumbers
    <3>3. QED
      BY <1>1, <3>1, <3>2, DataNumbers
  <2>3. QED
    BY <1>1, <2>1, <2>2
<1>3. bars \subseteq bars' /\ UNCHANGED <<factors, reports, known, load>>
  BY <1>1 DEF SyncBars
<1>4. IsFiniteSet(reports')
  BY <1>3 DEF DataInv, Shaped
<1>5. QED
  BY <1>2, <1>3, <1>4, SynchronisedInv

LEMMA SyncedReport ==
  ASSUME DataInv, SyncReport
  PROVE  DataInv'
<1>1. PICK r : reports' = {q \in reports : q.code # r.code \/ q.report # r.report} \cup {r}
  BY DEF SyncReport
<1>2. IsFiniteSet(reports')
  <2> DEFINE Q == {q \in reports : q.code # r.code \/ q.report # r.report}
  <2>1. Q \subseteq reports /\ IsFiniteSet(reports)
    BY DEF DataInv, Shaped
  <2>2. IsFiniteSet(Q)
    BY <2>1, FS_Subset
  <2> HIDE DEF Q
  <2>3. IsFiniteSet(Q \cup {r})
    BY <2>2, FS_AddElement
  <2>4. QED
    BY <1>1, <2>3 DEF Q
<1>3. UNCHANGED <<bars, factors, known, load>>
  BY DEF SyncReport
<1>4. Prefixed'
  BY <1>3 DEF DataInv, Prefixed
<1>5. QED
  BY <1>2, <1>3, <1>4, SynchronisedInv

LEMMA Constructed ==
  ASSUME DataInv, Construct
  PROVE  DataInv'
<1>1. load.stage = "idle" /\ UNCHANGED <<bars, factors, reports, load>>
  BY DEF DataInv, Served, Construct
<1>2. Prefixed' /\ Shaped' /\ RowsQueried'
  BY <1>1 DEF DataInv, Prefixed, Shaped, RowsQueried
<1>3. Served'
  BY <1>1 DEF Served
<1>4. Framed'
  BY <1>1 DEF DataInv, Framed, FrameWhole, PointInTime, History
<1>5. QED
  BY <1>2, <1>3, <1>4 DEF DataInv

LEMMA FellBack ==
  ASSUME DataInv, FallBack
  PROVE  DataInv'
<1>1. PICK source : load' = [load EXCEPT !.stage = "done", !.source = source]
  BY DEF FallBack
<1>2. /\ load' = [stage |-> "done", cutoff |-> load.cutoff, ready |-> load.ready, codes |-> load.codes,
                  rows |-> load.rows, frames |-> load.frames, source |-> source]
      /\ load.stage = "missed" /\ UNCHANGED <<bars, factors, reports, known>>
  BY <1>1 DEF FallBack, DataInv, Shaped
<1>3. Prefixed' /\ Shaped' /\ Served' /\ RowsQueried'
  BY <1>2 DEF DataInv, Prefixed, Shaped, Served, RowsQueried
<1>4. Framed'
  <2>1. \A c : History(c, load.cutoff)' = History(c, load.cutoff)
    BY <1>2 DEF History
  <2>2. \A c, h : FrameWhole(c, h) => FrameWhole(c, h)'
    BY <1>2, <2>1 DEF FrameWhole
  <2>3. PointInTime'
    BY <1>2 DEF DataInv, Framed, PointInTime
  <2>4. QED
    BY <1>2, <2>2, <2>3 DEF DataInv, Framed
<1>5. QED
  BY <1>3, <1>4 DEF DataInv

LEMMA WasUsed ==
  ASSUME DataInv, Used
  PROVE  DataInv'
<1>1. load' = NoLoad /\ UNCHANGED <<bars, factors, reports, known>>
  BY DEF Used
<1>2. Prefixed' /\ Shaped' /\ Served' /\ RowsQueried'
  BY <1>1, DataNumbers DEF DataInv, Prefixed, Shaped, Served, RowsQueried, NoLoad
<1>3. Framed'
  BY <1>1, NoFrames, NotFramed DEF NoLoad
<1>4. QED
  BY <1>2, <1>3 DEF DataInv

LEMMA DataStepInv == DataInv /\ [DataNext]_dataVars => DataInv'
<1> SUFFICES ASSUME DataInv, [DataNext]_dataVars PROVE DataInv'
  OBVIOUS
<1>1. CASE UNCHANGED dataVars
  <2>1. UNCHANGED <<bars, factors, reports, known, load>>
    BY <1>1 DEF dataVars
  <2>2. Prefixed' /\ IsFiniteSet(reports')
    BY <2>1 DEF DataInv, Prefixed, Shaped
  <2>3. QED
    BY <2>1, <2>2, SynchronisedInv
<1>2. ASSUME NEW c \in Codes, SyncBars(c) PROVE DataInv'
  BY <1>2, SyncedBars
<1>3. QED
  BY <1>1, <1>2, SyncedReport, Constructed, Checked, Derived, Selected, Queried, Prepared, FellBack,
     WasUsed DEF DataNext

LEMMA DataInvariant == DataSpec => []DataInv
BY DataInitInv, DataStepInv, PTL DEF DataSpec

\* A load's rows reach back far enough: beyond them nothing is missed that a recent row needs.
LEMMA FactorsKnown ==
  ASSUME DataInv
  PROVE  FactorsWhole
<1> SUFFICES ASSUME NEW c \in DOMAIN load.frames, NEW row \in load.frames[c].rows,
                    Cardinality({d \in History(c, load.cutoff) : d > row.day}) < Buffer,
                    Cardinality({d \in History(c, load.cutoff) : d <= row.day}) >= Lookback
             PROVE  row.whole
  BY DEF FactorsWhole
<1>1. load.cutoff \in Nat
  BY DataNumbers DEF DataInv, Shaped
<1>2. PICK m \in 0 .. load.cutoff : History(c, load.cutoff) = 1 .. m
  BY <1>1, HistoryIsPrefix DEF DataInv
<1>3. PICK h \in Nat : FrameWhole(c, h)
  BY DEF DataInv, Framed
<1>4. /\ row.day \in Nat /\ (row.day > h => h = load.cutoff)
      /\ (IF row.day > h THEN h ELSE row.day) - Dropped(h) >= Lookback => row.whole
      /\ h \in MinHistory .. load.cutoff /\ 1 .. h \subseteq 1 .. m
  BY <1>2, <1>3 DEF FrameWhole
<1>5. h \in Nat \ {0} /\ h <= m
  <2>1. h \in 1 .. h
    BY <1>4, DataNumbers
  <2>2. QED
    BY <1>4, <2>1, DataNumbers
<1> DEFINE day == row.day
           top == IF day > m THEN m ELSE day
<1> HIDE DEF day
<1>6. top >= Lookback
  <2>1. {d \in 1 .. m : d <= day} = 1 .. top
    BY <1>2, <1>4 DEF day
  <2>2. top \in Nat
    BY <1>2, <1>4 DEF day
  <2>3. Cardinality({d \in 1 .. m : d <= day}) >= Lookback
    BY <1>2 DEF day
  <2>4. Cardinality(1 .. top) >= Lookback
    BY <2>1, <2>3
  <2> HIDE DEF top
  <2>5. Cardinality(1 .. top) = top
    BY <2>2, FS_Interval
  <2>6. QED
    BY <2>4, <2>5
<1>7. day <= m => m - day < Buffer
  <2> SUFFICES ASSUME day <= m PROVE m - day < Buffer
    OBVIOUS
  <2>1. {d \in 1 .. m : d > day} = day + 1 .. m
    BY <1>2, <1>4 DEF day
  <2>2. Cardinality(day + 1 .. m) = IF day + 1 > m THEN 0 ELSE m - (day + 1) + 1
    <3>1. day + 1 \in Int /\ m \in Int
      BY <1>2, <1>4 DEF day
    <3>2. QED
      BY <3>1, FS_Interval
  <2>3. Cardinality({d \in 1 .. m : d > day}) < Buffer
    BY <1>2 DEF day
  <2>4. Cardinality(day + 1 .. m) < Buffer
    BY <2>1, <2>3
  <2>5. QED
    BY <1>2, <1>4, <2>2, <2>4 DEF day
<1>8. Dropped(h) \in Nat /\ (Dropped(h) > 0 => h - Dropped(h) = HistoryLimit)
  BY DroppedType
<1>9. (IF day > h THEN h ELSE day) - Dropped(h) >= Lookback
  <2>1. day \in Nat /\ (day > h => h = load.cutoff)
    BY <1>4 DEF day
  <2>2. CASE day > h
    BY <1>1, <1>2, <1>5, <1>6, <1>8, <2>1, <2>2, DataNumbers
  <2>3. CASE day <= h
    BY <1>2, <1>5, <1>6, <1>7, <1>8, <2>1, <2>3, DataNumbers
  <2>4. QED
    BY <1>5, <2>1, <2>2, <2>3
<1>10. QED
  BY <1>4, <1>9 DEF day

\* Data that were found ready are found again by the later transactions of the load, a frame is
\* as the market was known at its cutoff, and its recent rows have their factors, whatever bars
\* and reports other processes synchronise in between (DataManager.load_stock_data).
THEOREM LoadsAlwaysSound == DataSpec => []LoadsAreSound
<1>1. DataInv => LoadsAreSound
  BY FactorsKnown DEF DataInv, Served, Framed, LoadsAreSound, ReadyIsServed
<1>2. QED
  BY <1>1, DataInvariant, PTL

---------------------------------------------------------------------------
(* Tuning *)

\* What holds of 0, and of each number up to n when it holds of the number before, holds up to n.
LEMMA InductionUpTo ==
  ASSUME NEW n \in Nat, NEW T, 0 \in T, \A i \in 1 .. n : i - 1 \in T => i \in T
  PROVE  \A i \in 0 .. n : i \in T
<1> DEFINE R == OpToRel(<, Nat)
           Bad == {i \in 0 .. n : i \notin T}
<1>1. IsWellFoundedOn(R, Nat)
  BY NatLessThanWellFounded
<1>2. Bad \subseteq Nat
  OBVIOUS
<1>3. SUFFICES ASSUME Bad # {} PROVE FALSE
  OBVIOUS
<1>4. PICK b \in Bad : \A c \in Bad : ~ (<<c, b>> \in R)
  <2> HIDE DEF R, Bad
  <2> QED
    BY <1>1, <1>2, <1>3, WFMin
<1>5. \A c \in Bad : ~ (c < b)
  BY <1>2, <1>4 DEF OpToRel
<1>6. b # 0 /\ b \in 1 .. n
  OBVIOUS
<1>7. b - 1 \notin Bad
  BY <1>5, <1>6
<1>8. b - 1 \in T
  BY <1>6, <1>7
<1> QED
  BY <1>6, <1>8

\* f goes from value to value by the functions of next
Follows(f, n, first, next) == f[0] = first /\ \A i \in 1 .. n : f[i] = next[i][f[i - 1]]

\* A function may be defined step by step: each value by a function of the value before.
LEMMA RecursionExists ==
  ASSUME NEW L \in Nat, NEW S, NEW first \in S, NEW next \in [1 .. L -> [S -> S]]
  PROVE  \E f \in [0 .. L -> S] : Follows(f, L, first, next)
<1> DEFINE Made(m, f) == Follows(f, m, first, next)
           T == {m \in 0 .. L : \E f \in [0 .. m -> S] : Made(m, f)}
<1>1. 0 \in T
  <2> DEFINE f == [n \in 0 .. 0 |-> first]
  <2>1. f \in [0 .. 0 -> S] /\ Made(0, f)
    BY DEF Follows
  <2>2. \E h \in [0 .. 0 -> S] : Made(0, h)
    <3> HIDE DEF f, Made
    <3> QED
      BY <2>1
  <2> QED
    BY <2>2
<1>2. ASSUME NEW i \in 1 .. L, i - 1 \in T
      PROVE  i \in T
  <2>1. PICK f \in [0 .. i - 1 -> S] : Made(i - 1, f)
    BY <1>2
  <2> DEFINE g == [n \in 0 .. i |-> IF n = i THEN next[i][f[i - 1]] ELSE f[n]]
  <2>2. next[i][f[i - 1]] \in S
    OBVIOUS
  <2>3. g \in [0 .. i -> S]
    BY <2>2
  <2>4. g[0] = first
    BY <2>1 DEF Follows
  <2>5. ASSUME NEW n \in 1 .. i
        PROVE  g[n] = next[n][g[n - 1]]
    <3>1. CASE n = i
      BY <3>1
    <3>2. CASE n # i
      <4>1. n \in 1 .. i - 1 /\ g[n] = f[n] /\ g[n - 1] = f[n - 1]
        BY <3>2
      <4> QED
        BY <2>1, <4>1 DEF Follows
    <3> QED
      BY <3>1, <3>2
  <2>6. Made(i, g)
    BY <2>4, <2>5 DEF Follows
  <2>7. \E h \in [0 .. i -> S] : Made(i, h)
    <3> HIDE DEF g, Made
    <3> QED
      BY <2>3, <2>6
  <2> QED
    BY <2>7
<1>3. \A i \in 0 .. L : i \in T
  <2> HIDE DEF T
  <2> QED
    BY <1>1, <1>2, InductionUpTo
<1>4. L \in T
  BY <1>3
<1> QED
  BY <1>4

\* The sections there may be of some keys
Sections(keys) == UNION {[D -> Int] : D \in SUBSET keys}

LEMMA InSections ==
  ASSUME NEW f, NEW keys
  PROVE  f \in Sections(keys) <=> Section(f, keys)
<1>1. ASSUME f \in Sections(keys) PROVE Section(f, keys)
  <2>1. PICK D \in SUBSET keys : f \in [D -> Int]
    BY <1>1 DEF Sections
  <2> QED
    BY <2>1 DEF Section
<1>2. ASSUME Section(f, keys) PROVE f \in Sections(keys)
  <2>1. DOMAIN f \in SUBSET keys /\ f \in [DOMAIN f -> Int]
    BY <1>2 DEF Section
  <2> QED
    BY <2>1 DEF Sections
<1> QED
  BY <1>1, <1>2

\* The gate's fold: what holds at first and after each proposal holds of its verdict.
LEMMA GateIsAFold ==
  ASSUME NEW S,
         Len(queue) \in Nat,
         [now |-> InEffect, passed |-> NoParameters, refused |-> {}] \in S,
         \A n \in 1 .. Len(queue), s \in S : Judge(s, queue[n], Baseline(files, inForce)) \in S
  PROVE  Gate \in S
<1> DEFINE L == Len(queue)
           first == [now |-> InEffect, passed |-> NoParameters, refused |-> {}]
           next == [n \in 1 .. L |-> [s \in S |-> Judge(s, queue[n], Baseline(files, inForce))]]
<1>1. next \in [1 .. L -> [S -> S]]
  OBVIOUS
<1>2. PICK f \in [0 .. L -> S] : Follows(f, L, first, next)
  <2>1. L \in Nat /\ first \in S
    OBVIOUS
  <2> HIDE DEF L, first, next
  <2> QED
    BY <1>1, <2>1, RecursionExists
<1>3. f = [n \in 0 .. L |->
             IF n = 0 THEN first ELSE Judge(f[n - 1], queue[n], Baseline(files, inForce))]
  <2>1. ASSUME NEW n \in 0 .. L, n # 0
        PROVE  f[n] = Judge(f[n - 1], queue[n], Baseline(files, inForce))
    <3>1. n \in 1 .. L /\ n - 1 \in 0 .. L
      BY <2>1
    <3>2. f[n - 1] \in S
      BY <3>1
    <3>3. f[n] = next[n][f[n - 1]]
      BY <1>2, <3>1 DEF Follows
    <3>4. next[n] = [s \in S |-> Judge(s, queue[n], Baseline(files, inForce))]
      BY <3>1
    <3> QED
      BY <3>2, <3>3, <3>4
  <2>2. f[0] = first
    BY <1>2 DEF Follows
  <2> QED
    BY <2>1, <2>2
<1>4. GateAfter = [n \in 0 .. L |->
             IF n = 0 THEN first ELSE Judge(GateAfter[n - 1], queue[n], Baseline(files, inForce))]
  BY <1>3 DEF GateAfter
<1>5. \A n \in 0 .. L : GateAfter[n] \in S
  <2> DEFINE T == {n \in 0 .. L : GateAfter[n] \in S}
  <2>1. 0 \in T
    BY <1>4
  <2>2. ASSUME NEW i \in 1 .. L, i - 1 \in T
        PROVE  i \in T
    <3>1. GateAfter[i - 1] \in S
      BY <2>2
    <3>2. GateAfter[i] = Judge(GateAfter[i - 1], queue[i], Baseline(files, inForce))
      <4>1. i \in 0 .. L /\ i # 0
        OBVIOUS
      <4> HIDE DEF first, T
      <4> QED
        BY <1>4, <4>1
    <3> QED
      BY <3>1, <3>2
  <2>3. \A i \in 0 .. L : i \in T
    <3> HIDE DEF T, L
    <3> QED
      BY <2>1, <2>2, InductionUpTo DEF L
  <2> QED
    BY <2>3
<1> QED
  BY <1>5 DEF Gate

---------------------------------------------------------------------------
\* What the gate measures: the protected keys that no budget overlays
Measured == ((Protected \cup ScoreKeys \cup WeightKeys) \cap DOMAIN ShippedValues) \ Overlaid

\* Has value x of key k kept to the shipped file?
Near(k, x) == ~Exceeds(x - ShippedValues[k], ShippedValues[k], DriftLimit)

InSpace(k, x) == k \in DOMAIN Space => Space[k][1] <= x /\ x <= Space[k][2]

\* A configuration file's values
FileKept(f) ==
  /\ f \in Sections(Keys)
  /\ DOMAIN ShippedValues \subseteq DOMAIN f
  /\ \A k \in Measured : Near(k, f[k])
  /\ \A k \in DOMAIN ShippedValues : InSpace(k, f[k])

\* Parameters: they hold what the shipped file has, the measured ones near to it, and where
\* candidates wait for approval the stops of the file in force
ParamsKept(f) ==
  /\ f \in Sections(ParamKeys)
  /\ ParamKeys \cap DOMAIN ShippedValues \subseteq DOMAIN f
  /\ \A k \in Measured \cap ParamKeys : Near(k, f[k])
  /\ ~autoApplied => \A k \in Tightening : f[k] = files[inForce].values[k]

Proposal ==
  [kind : {"params"}, patch : Sections(ParamKeys)] \cup
  [kind : {"scoring"}, patch : Sections(ScoreKeys)] \cup
  [kind : {"weights"}, patch : Sections(WeightKeys)]

\* A generation of the file: however many there are, the first is the ancestor of all
Generation == [values : Sections(Keys), ancestor : {1}]

FilesKept ==
  /\ files \in Seq(Generation)
  /\ inForce \in 1 .. Len(files)
  /\ files[1].values = ShippedValues
  /\ \A i \in 1 .. Len(files) : FileKept(files[i].values)

\* The inductive invariant
TuningInv ==
  /\ autoApplied \in BOOLEAN /\ profitable \in BOOLEAN
  /\ FilesKept
  /\ ParamsKept(current)
  /\ phase # "idle" => ParamsKept(opened) /\ ParamsKept(effective)
  /\ queue \in Seq(Proposal)

---------------------------------------------------------------------------
LEMMA ShippedIsNear ==
  ASSUME NEW k \in DOMAIN ShippedValues
  PROVE  Near(k, ShippedValues[k])
<1>1. ShippedValues[k] \in Int /\ DriftLimit \in Nat
  BY TuningConstants DEF Section
<1>2. ASSUME NEW a \in Nat, NEW b \in Nat PROVE a * b \in Nat
  BY <1>2
<1>3. Abs(ShippedValues[k]) \in Nat /\ Abs(ShippedValues[k] - ShippedValues[k]) = 0
  BY <1>1 DEF Abs
<1>4. DriftLimit * Abs(ShippedValues[k]) \in Nat
  BY <1>1, <1>2, <1>3
<1> QED
  BY <1>3, <1>4 DEF Near, Exceeds

\* Clamping a value to the mutation space keeps it near, for the shipped value is in the space.
LEMMA ClampedIsNear ==
  ASSUME NEW k \in DOMAIN ShippedValues \cap DOMAIN Space, NEW x \in Int
  PROVE  LET y == Within(Space[k], x)
         IN  y \in Int /\ InSpace(k, y) /\ (Near(k, x) => Near(k, y))
<1> DEFINE y == Within(Space[k], x)
           b == ShippedValues[k]
<1>1. Space[k][1] \in Int /\ Space[k][2] \in Int /\ DriftLimit \in Nat /\ b \in Int
  BY TuningConstants DEF Section
<1>2. Space[k][1] <= b /\ b <= Space[k][2]
  BY ShippedInSpace
<1>3. y \in Int /\ Space[k][1] <= y /\ y <= Space[k][2] /\ Abs(y - b) <= Abs(x - b)
  BY <1>1, <1>2 DEF Within, Abs
<1>4. DriftLimit * Abs(b) \in Int
  BY <1>1 DEF Abs
<1>5. Abs(y - b) \in Int /\ Abs(x - b) \in Int
  BY <1>1, <1>3 DEF Abs
<1>6. ASSUME NEW limit \in Int, Abs(y - b) * 100 > limit
      PROVE  Abs(x - b) * 100 > limit
  <2> HIDE DEF y, b
  <2> QED
    BY <1>3, <1>5, <1>6
<1>7. Near(k, x) => Near(k, y)
  <2> SUFFICES ASSUME Abs(y - b) * 100 > DriftLimit * Abs(b)
               PROVE  Abs(x - b) * 100 > DriftLimit * Abs(b)
    BY DEF Near, Exceeds
  <2> HIDE DEF y, b
  <2> QED
    BY <1>4, <1>6
<1> QED
  BY <1>3, <1>7 DEF InSpace

\* h is f laid over g
IsOver(h, f, g) ==
  /\ DOMAIN h = DOMAIN f \cup DOMAIN g
  /\ \A k \in DOMAIN f : h[k] = f[k]
  /\ \A k \in DOMAIN g \ DOMAIN f : h[k] = g[k]

LEMMA OverIsSection ==
  ASSUME NEW keys, NEW f \in Sections(keys), NEW g \in Sections(keys)
  PROVE  Over(f, g) \in Sections(keys) /\ IsOver(Over(f, g), f, g)
<1>1. Section(f, keys) /\ Section(g, keys)
  BY InSections
<1>2. Section(Over(f, g), keys)
  BY <1>1 DEF Section, Over
<1> QED
  BY <1>1, <1>2, InSections DEF Over, IsOver, Section

\* A part of a section
LEMMA PartIsSection ==
  ASSUME NEW keys, NEW f \in Sections(keys), NEW S \in SUBSET DOMAIN f, NEW some, S \subseteq some
  PROVE  [k \in S |-> f[k]] \in Sections(some)
<1>1. Section(f, keys)
  BY InSections
<1>2. Section([k \in S |-> f[k]], some)
  BY <1>1 DEF Section
<1> QED
  BY <1>2, InSections

LEMMA MoreKeys ==
  ASSUME NEW some, NEW keys, some \subseteq keys, NEW f \in Sections(some)
  PROVE  f \in Sections(keys)
BY InSections DEF Section

LEMMA ValueIsInt ==
  ASSUME NEW keys, NEW f \in Sections(keys), NEW k \in DOMAIN f
  PROVE  f[k] \in Int /\ k \in keys
BY InSections DEF Section

LEMMA NothingIsSection ==
  ASSUME NEW keys
  PROVE  NoParameters \in Sections(keys) /\ DOMAIN NoParameters = {}
<1>1. NoParameters = [k \in {} |-> 0] /\ DOMAIN NoParameters = {}
  <2>1. NoParameters \in Seq(Int) /\ Len(NoParameters) = 0
    BY DEF NoParameters
  <2>2. DOMAIN NoParameters = {}
    BY <2>1
  <2>3. NoParameters = [k \in DOMAIN NoParameters |-> NoParameters[k]]
    BY <2>1
  <2> QED
    BY <2>2, <2>3
<1>2. Section(NoParameters, keys)
  BY <1>1 DEF Section
<1> QED
  BY <1>1, <1>2, InSections

\* Loading a kept file over kept parameters gives kept parameters; over none, those of the file.
LEMMA ReloadedIsKept ==
  ASSUME NEW file, FileKept(file), NEW held \in Sections(ParamKeys),
         \A k \in Measured \cap DOMAIN held : Near(k, held[k])
  PROVE  LET r == Reloaded(file, held)
         IN  /\ r \in Sections(ParamKeys)
             /\ ParamKeys \cap DOMAIN ShippedValues \subseteq DOMAIN r
             /\ \A k \in Measured \cap ParamKeys : Near(k, r[k])
             /\ held = NoParameters => \A k \in ParamKeys \cap DOMAIN file : r[k] = file[k]
<1> DEFINE explicit == {k \in DOMAIN held : k \notin DOMAIN Defaults \/ held[k] # Defaults[k]}
           kept == [k \in explicit |-> held[k]]
           shown == [k \in ParamKeys \cap DOMAIN file |-> file[k]]
           below == Over(shown, Defaults)
           r == Over(kept, below)
<1>1. Reloaded(file, held) = r
  BY DEF Reloaded, Restrict, ParamsIn
<1>2. kept \in Sections(ParamKeys)
  BY PartIsSection, InSections DEF Section
<1>3. shown \in Sections(ParamKeys)
  <2>1. file \in Sections(Keys) /\ ParamKeys \cap DOMAIN file \in SUBSET DOMAIN file
    BY DEF FileKept
  <2> QED
    BY <2>1, PartIsSection
<1>4. Defaults \in Sections(ParamKeys)
  BY TuningConstants, InSections
<1>5. below \in Sections(ParamKeys) /\ \A k \in ParamKeys \cap DOMAIN file : k \in DOMAIN below /\ below[k] = file[k]
  <2> DOMAIN shown = ParamKeys \cap DOMAIN file /\ \A k \in DOMAIN shown : shown[k] = file[k]
    OBVIOUS
  <2> HIDE DEF shown
  <2>1. Over(shown, Defaults) \in Sections(ParamKeys) /\ IsOver(Over(shown, Defaults), shown, Defaults)
    BY <1>3, <1>4, OverIsSection
  <2> QED
    BY <2>1 DEF IsOver
<1>6. /\ r \in Sections(ParamKeys) /\ DOMAIN r = explicit \cup DOMAIN below
      /\ \A k \in explicit : r[k] = held[k]
      /\ \A k \in DOMAIN below \ explicit : r[k] = below[k]
  <2> DOMAIN kept = explicit /\ \A k \in explicit : kept[k] = held[k]
    OBVIOUS
  <2> HIDE DEF kept, below, explicit
  <2>1. Over(kept, below) \in Sections(ParamKeys) /\ IsOver(Over(kept, below), kept, below)
    BY <1>2, <1>5, OverIsSection
  <2> QED
    BY <2>1 DEF IsOver
<1> HIDE DEF kept, below, r
<1>7. ParamKeys \cap DOMAIN ShippedValues \subseteq ParamKeys \cap DOMAIN file
  BY DEF FileKept
<1>8. \A k \in Measured \cap ParamKeys : Near(k, r[k])
  <2> SUFFICES ASSUME NEW k \in Measured \cap ParamKeys PROVE Near(k, r[k])
    OBVIOUS
  <2>1. k \in ParamKeys \cap DOMAIN file /\ Near(k, file[k])
    BY <1>7 DEF Measured, FileKept
  <2> QED
    BY <1>5, <1>6, <2>1
<1>9. held = NoParameters => \A k \in ParamKeys \cap DOMAIN file : r[k] = file[k]
  <2> SUFFICES ASSUME held = NoParameters PROVE \A k \in ParamKeys \cap DOMAIN file : r[k] = file[k]
    OBVIOUS
  <2>1. explicit = {}
    BY NothingIsSection
  <2> QED
    BY <1>5, <1>6, <2>1
<1> QED
  BY <1>1, <1>5, <1>6, <1>7, <1>8, <1>9

\* The regime's profile keeps every parameter that the budget does not set.
LEMMA ProfileIsKept ==
  ASSUME NEW regime \in DOMAIN Budgets, NEW overlay \in Budgets[regime], ParamsKept(current)
  PROVE  ParamsKept(Profile(current, overlay))
<1> DEFINE laid == [k \in DOMAIN overlay |->
                      IF k \in DOMAIN Bounds THEN Within(Bounds[k], overlay[k]) ELSE overlay[k]]
           p == Over(laid, current)
<1>1. Section(overlay, ParamKeys)
  BY TuningConstants
<1>2. laid \in Sections(ParamKeys)
  <2>1. ASSUME NEW k \in DOMAIN overlay PROVE laid[k] \in Int
    BY <1>1, TuningConstants DEF Section, Within
  <2>2. Section(laid, ParamKeys)
    BY <1>1, <2>1 DEF Section
  <2> QED
    BY <2>2, InSections
<1>3. DOMAIN laid \subseteq Overlaid
  BY DEF Overlaid
<1>4. current \in Sections(ParamKeys)
  BY DEF ParamsKept
<1>5. /\ p \in Sections(ParamKeys) /\ DOMAIN p = DOMAIN laid \cup DOMAIN current
      /\ \A k \in DOMAIN current \ DOMAIN laid : p[k] = current[k]
  <2> HIDE DEF laid
  <2>1. Over(laid, current) \in Sections(ParamKeys) /\ IsOver(Over(laid, current), laid, current)
    BY <1>2, <1>4, OverIsSection
  <2> QED
    BY <2>1 DEF IsOver
<1>6. Profile(current, overlay) = p
  BY DEF Profile
<1> HIDE DEF p, laid
<1>7. \A k \in ParamKeys \cap DOMAIN ShippedValues : k \notin Overlaid => p[k] = current[k]
  BY <1>3, <1>5 DEF ParamsKept
<1>8. \A k \in Measured \cap ParamKeys : Near(k, p[k])
  BY <1>7 DEF ParamsKept, Measured
<1>9. ~autoApplied => \A k \in Tightening : p[k] = files[inForce].values[k]
  BY <1>7, TighteningShipped DEF ParamsKept
<1> QED
  BY <1>5, <1>6, <1>8, <1>9 DEF ParamsKept

---------------------------------------------------------------------------
\* A measured value that passes is near, as the value in effect was.
LEMMA PassedIsNear ==
  ASSUME NEW p \in Proposal, NEW now \in Sections(Keys), DOMAIN ShippedValues \subseteq DOMAIN now,
         NEW k \in Measured \cap DOMAIN p.patch, Near(k, now[k]),
         Passes(p.kind, k, p.patch[k], now, ShippedValues)
  PROVE  Near(k, p.patch[k])
<1>1. k \in DOMAIN ShippedValues /\ k \in DOMAIN now
  BY DEF Measured
<1>2. p.kind # "params" \/ k \in Protected
  <2>1. CASE p.kind = "params"
    <3>1. p.patch \in Sections(ParamKeys)
      BY <2>1 DEF Proposal
    <3>2. k \in ParamKeys
      BY <3>1, ValueIsInt
    <3> QED
      BY <3>2, TuningConstants DEF Measured
  <2> QED
    BY <2>1
<1>3. ~Drifts(now[k], p.patch[k], ShippedValues[k])
  BY <1>1, <1>2 DEF Passes
<1> QED
  BY <1>3 DEF Drifts, Near

LEMMA PatchIsSection ==
  ASSUME NEW p \in Proposal
  PROVE  p.patch \in Sections(Keys)
<1>1. \/ p.patch \in Sections(ParamKeys)
      \/ p.patch \in Sections(ScoreKeys)
      \/ p.patch \in Sections(WeightKeys)
  BY DEF Proposal
<1> QED
  BY <1>1, MoreKeys DEF Keys

\* The verdicts there may be
Judged ==
  {s \in [now : Sections(Keys), passed : Sections(Keys), refused : SUBSET Keys] :
     /\ DOMAIN ShippedValues \subseteq DOMAIN s.now
     /\ \A k \in Measured : Near(k, s.now[k])
     /\ \A k \in Measured \cap DOMAIN s.passed : Near(k, s.passed[k])
     /\ profitable => /\ DOMAIN s.passed \subseteq Tightening
                      /\ \A k \in Tightening : s.now[k] <= InEffect[k]
                      /\ \A k \in DOMAIN s.passed : s.passed[k] < InEffect[k]}

LEMMA InEffectIsKept ==
  ASSUME TuningInv, phase # "idle"
  PROVE  /\ InEffect \in Sections(Keys)
         /\ DOMAIN ShippedValues \subseteq DOMAIN InEffect
         /\ \A k \in Measured : Near(k, InEffect[k])
         /\ ~autoApplied => \A k \in Tightening : InEffect[k] = files[inForce].values[k]
<1> DEFINE file == files[inForce].values
           rest == [k \in DOMAIN file \ ParamKeys |-> file[k]]
<1>1. FileKept(file) /\ ParamsKept(effective)
  BY DEF TuningInv, FilesKept
<1>2. effective \in Sections(Keys) /\ DOMAIN effective \subseteq ParamKeys
  <2>1. effective \in Sections(ParamKeys)
    BY <1>1 DEF ParamsKept
  <2> QED
    BY <2>1, MoreKeys, InSections DEF Keys, Section
<1> HIDE DEF file
<1>3. rest \in Sections(Keys)
  <2>1. file \in Sections(Keys) /\ DOMAIN file \ ParamKeys \in SUBSET DOMAIN file
    BY <1>1 DEF FileKept
  <2>2. DOMAIN file \ ParamKeys \subseteq Keys
    BY <2>1, InSections DEF Section
  <2> QED
    BY <2>1, <2>2, PartIsSection
<1>4. DOMAIN rest = DOMAIN file \ ParamKeys /\ \A k \in DOMAIN rest : rest[k] = file[k]
  OBVIOUS
<1>5. InEffect = Over(effective, rest)
  BY DEF InEffect, Restrict, file
<1> HIDE DEF rest
<1>6. InEffect \in Sections(Keys) /\ IsOver(InEffect, effective, rest)
  BY <1>2, <1>3, <1>5, OverIsSection
<1>7. \A k \in DOMAIN ShippedValues : k \in DOMAIN InEffect /\
        InEffect[k] = IF k \in ParamKeys THEN effective[k] ELSE file[k]
  <2> SUFFICES ASSUME NEW k \in DOMAIN ShippedValues
               PROVE  k \in DOMAIN InEffect /\ InEffect[k] = IF k \in ParamKeys THEN effective[k] ELSE file[k]
    OBVIOUS
  <2>1. k \in DOMAIN file
    BY <1>1 DEF FileKept
  <2>2. CASE k \in ParamKeys
    BY <1>1, <1>6, <2>2 DEF ParamsKept, IsOver
  <2>3. CASE k \notin ParamKeys
    BY <1>2, <1>4, <1>6, <2>1, <2>3 DEF IsOver
  <2> QED
    BY <2>2, <2>3
<1>8. \A k \in Measured : Near(k, InEffect[k])
  BY <1>1, <1>7 DEF ParamsKept, FileKept, Measured
<1>9. ~autoApplied => \A k \in Tightening : InEffect[k] = file[k]
  BY <1>1, <1>7, TighteningShipped DEF ParamsKept, file
<1> QED
  BY <1>6, <1>7, <1>8, <1>9 DEF file

LEMMA JudgeIsSound ==
  ASSUME TuningInv, phase # "idle", NEW p \in Proposal, NEW s \in Judged
  PROVE  Judge(s, p, ShippedValues) \in Judged
<1> DEFINE patch == p.patch
           ok == {k \in DOMAIN patch : Passes(p.kind, k, patch[k], s.now, ShippedValues)}
           passed == [k \in ok |-> patch[k]]
           now == Over(passed, s.now)
           all == Over(passed, s.passed)
           refused == s.refused \cup (DOMAIN patch \ ok)
<1>1. Judge(s, p, ShippedValues) = [now |-> now, passed |-> all, refused |-> refused]
  BY DEF Judge, Restrict
<1>2. patch \in Sections(Keys) /\ DOMAIN patch \subseteq Keys
  BY PatchIsSection, InSections DEF Section
<1>3. passed \in Sections(Keys)
  <2>1. ok \in SUBSET DOMAIN patch /\ ok \subseteq Keys
    BY <1>2
  <2> HIDE DEF ok, patch
  <2> QED
    BY <1>2, <2>1, PartIsSection
<1>4. DOMAIN passed = ok /\ \A k \in ok : passed[k] = patch[k]
  OBVIOUS
<1>5. s.now \in Sections(Keys) /\ s.passed \in Sections(Keys) /\ s.refused \in SUBSET Keys
  BY DEF Judged
<1>6. refused \in SUBSET Keys
  BY <1>2, <1>5
<1>7. ASSUME NEW k \in ok
      PROVE  /\ k \in Measured => Near(k, patch[k])
             /\ profitable => k \in Tightening /\ patch[k] < InEffect[k]
  <2>1. k \in Measured => Near(k, patch[k])
    <3> SUFFICES ASSUME k \in Measured PROVE Near(k, patch[k])
      OBVIOUS
    <3>1. DOMAIN ShippedValues \subseteq DOMAIN s.now /\ Near(k, s.now[k])
      BY DEF Judged
    <3> QED
      BY <1>5, <3>1, PassedIsNear
  <2>2. ASSUME profitable PROVE k \in Tightening /\ patch[k] < InEffect[k]
    <3>1. k \in Tightening /\ patch[k] < s.now[k]
      BY <2>2 DEF Passes, AllowedOnProfit
    <3>2. s.now[k] <= InEffect[k] /\ k \in DOMAIN s.now /\ k \in DOMAIN InEffect
      BY <2>2, <3>1, TighteningShipped, InEffectIsKept DEF Judged
    <3>3. patch[k] \in Int /\ s.now[k] \in Int /\ InEffect[k] \in Int
      BY <1>2, <1>5, <3>2, InEffectIsKept, ValueIsInt
    <3> QED
      BY <3>1, <3>2, <3>3
  <2> QED
    BY <2>1, <2>2
<1> HIDE DEF ok, passed, now, all, refused, patch
<1>8. now \in Sections(Keys) /\ IsOver(now, passed, s.now)
  BY <1>3, <1>5, OverIsSection DEF now
<1>9. all \in Sections(Keys) /\ IsOver(all, passed, s.passed)
  BY <1>3, <1>5, OverIsSection DEF all
<1>10. DOMAIN ShippedValues \subseteq DOMAIN now
  BY <1>8 DEF Judged, IsOver
<1>11. \A k \in Measured : Near(k, now[k])
  <2> SUFFICES ASSUME NEW k \in Measured PROVE Near(k, now[k])
    OBVIOUS
  <2>1. CASE k \in ok
    BY <1>4, <1>7, <1>8, <2>1 DEF IsOver
  <2>2. CASE k \notin ok
    <3>1. k \in DOMAIN s.now /\ Near(k, s.now[k])
      BY DEF Judged, Measured
    <3> QED
      BY <1>4, <1>8, <2>2, <3>1 DEF IsOver
  <2> QED
    BY <2>1, <2>2
<1>12. \A k \in Measured \cap DOMAIN all : Near(k, all[k])
  <2> SUFFICES ASSUME NEW k \in Measured \cap DOMAIN all PROVE Near(k, all[k])
    OBVIOUS
  <2>1. CASE k \in ok
    BY <1>4, <1>7, <1>9, <2>1 DEF IsOver
  <2>2. CASE k \notin ok
    <3>1. k \in DOMAIN s.passed
      BY <1>4, <1>9, <2>2 DEF IsOver
    <3>2. Near(k, s.passed[k])
      BY <3>1 DEF Judged
    <3> QED
      BY <1>4, <1>9, <2>2, <3>1, <3>2 DEF IsOver
  <2> QED
    BY <2>1, <2>2
<1>13. ASSUME profitable
       PROVE  /\ DOMAIN all \subseteq Tightening
              /\ \A k \in Tightening : now[k] <= InEffect[k]
              /\ \A k \in DOMAIN all : all[k] < InEffect[k]
  <2>1. DOMAIN s.passed \subseteq Tightening /\ \A k \in DOMAIN s.passed : s.passed[k] < InEffect[k]
    BY <1>13 DEF Judged
  <2>2. DOMAIN all = ok \cup DOMAIN s.passed
    BY <1>4, <1>9 DEF IsOver
  <2>3. \A k \in DOMAIN all : all[k] < InEffect[k]
    BY <1>4, <1>7, <1>9, <1>13, <2>1, <2>2 DEF IsOver
  <2>4. ASSUME NEW k \in Tightening PROVE now[k] <= InEffect[k]
    <3>1. CASE k \in ok
      <4>1. now[k] = patch[k] /\ patch[k] < InEffect[k] /\ k \in DOMAIN patch
        BY <1>4, <1>7, <1>8, <1>13, <3>1 DEF IsOver, ok
      <4>2. patch[k] \in Int /\ InEffect[k] \in Int
        BY <1>2, <4>1, TighteningShipped, InEffectIsKept, ValueIsInt
      <4> QED
        BY <4>1, <4>2
    <3>2. CASE k \notin ok
      <4>1. k \in DOMAIN s.now /\ s.now[k] <= InEffect[k]
        BY <1>13, TighteningShipped DEF Judged
      <4> QED
        BY <1>4, <1>8, <3>2, <4>1 DEF IsOver
    <3> QED
      BY <3>1, <3>2
  <2> QED
    BY <1>7, <1>13, <2>1, <2>2, <2>3, <2>4
<1> QED
  BY <1>1, <1>6, <1>8, <1>9, <1>10, <1>11, <1>12, <1>13 DEF Judged

\* Whatever was queued, the gate's verdict is sound.
LEMMA GateIsSound ==
  ASSUME TuningInv, phase # "idle"
  PROVE  Gate \in Judged
<1>1. Len(queue) \in Nat /\ \A n \in 1 .. Len(queue) : queue[n] \in Proposal
  BY DEF TuningInv
<1>2. Baseline(files, inForce) = ShippedValues
  <2>1. files[inForce] \in Generation /\ files[1].values = ShippedValues
    BY DEF TuningInv, FilesKept
  <2>2. files[inForce].ancestor = 1
    BY <2>1 DEF Generation
  <2> QED
    BY <2>1, <2>2 DEF Baseline
<1>3. [now |-> InEffect, passed |-> NoParameters, refused |-> {}] \in Judged
  <2>1. \A k \in Tightening : InEffect[k] \in Int
    BY InEffectIsKept, TighteningShipped, ValueIsInt
  <2>2. NoParameters \in Sections(Keys) /\ DOMAIN NoParameters = {}
    BY NothingIsSection
  <2> QED
    BY <2>1, <2>2, InEffectIsKept DEF Judged
<1>4. \A n \in 1 .. Len(queue), s \in Judged : Judge(s, queue[n], Baseline(files, inForce)) \in Judged
  BY <1>1, <1>2, JudgeIsSound
<1> HIDE DEF Judged
<1> QED
  BY <1>1, <1>3, <1>4, GateIsAFold

\* What the mutator writes is kept, and in a profitable cycle only tightens.
LEMMA MutatedIsKept ==
  ASSUME TuningInv, phase # "idle"
  PROVE  LET child == Mutated(Gate.passed)
         IN  /\ child \in Generation
             /\ FileKept(child.values)
             /\ DOMAIN child.values = DOMAIN Gate.passed \cup DOMAIN files[inForce].values
             /\ profitable /\ ~autoApplied =>
                  \A k \in DOMAIN child.values :
                    \/ k \in DOMAIN files[inForce].values /\ child.values[k] = files[inForce].values[k]
                    \/ /\ k \in Tightening /\ k \in DOMAIN files[inForce].values
                       /\ child.values[k] < files[inForce].values[k]
<1> DEFINE file == files[inForce].values
           passed == Gate.passed
           clamped == [k \in DOMAIN passed |->
                         IF k \in DOMAIN Space THEN Within(Space[k], passed[k]) ELSE passed[k]]
           child == Over(clamped, file)
<1>1. FileKept(file) /\ files[inForce].ancestor = 1
  <2>1. files[inForce] \in Generation /\ FileKept(file)
    BY DEF TuningInv, FilesKept
  <2>2. files[inForce].ancestor = 1
    BY <2>1 DEF Generation
  <2> QED
    BY <2>1, <2>2
<1>2. Gate \in Judged /\ passed \in Sections(Keys)
  BY GateIsSound DEF Judged
<1>3. Mutated(passed) = [values |-> child, ancestor |-> 1]
  BY <1>1 DEF Mutated
<1> HIDE DEF file, passed
<1>4. clamped \in Sections(Keys)
  <2>1. ASSUME NEW k \in DOMAIN passed PROVE clamped[k] \in Int /\ k \in Keys
    <3>1. passed[k] \in Int /\ k \in Keys
      BY <1>2, ValueIsInt
    <3> QED
      BY <3>1, TuningConstants DEF Within
  <2>2. Section(clamped, Keys)
    BY <2>1 DEF Section
  <2> HIDE DEF clamped
  <2> QED
    BY <2>2, InSections
<1>5. DOMAIN clamped = DOMAIN passed
  OBVIOUS
<1>6. \A k \in DOMAIN passed : clamped[k] = IF k \in DOMAIN Space THEN Within(Space[k], passed[k]) ELSE passed[k]
  OBVIOUS
<1> HIDE DEF clamped
<1>7. file \in Sections(Keys)
  BY <1>1 DEF FileKept
<1>8. child \in Sections(Keys) /\ IsOver(child, clamped, file)
  BY <1>4, <1>7, OverIsSection
<1> HIDE DEF child
<1>9. ASSUME NEW k \in Measured PROVE Near(k, child[k])
  <2>1. k \in DOMAIN ShippedValues
    BY DEF Measured
  <2>2. CASE k \in DOMAIN passed
    <3>1. passed[k] \in Int /\ Near(k, passed[k])
      BY <1>2, <2>2, ValueIsInt DEF Judged, passed
    <3>2. Near(k, clamped[k])
      BY <1>6, <2>1, <2>2, <3>1, ClampedIsNear
    <3> QED
      BY <1>5, <1>8, <2>2, <3>2 DEF IsOver
  <2>3. CASE k \notin DOMAIN passed
    <3>1. k \in DOMAIN file /\ Near(k, file[k])
      BY <1>1, <2>1 DEF FileKept
    <3> QED
      BY <1>5, <1>8, <2>3, <3>1 DEF IsOver
  <2> QED
    BY <2>2, <2>3
<1>10. ASSUME NEW k \in DOMAIN ShippedValues PROVE InSpace(k, child[k])
  <2>1. CASE k \in DOMAIN passed
    <3>1. passed[k] \in Int
      BY <1>2, <2>1, ValueIsInt
    <3>2. InSpace(k, clamped[k])
      <4>1. CASE k \in DOMAIN Space
        BY <1>6, <2>1, <3>1, <4>1, ClampedIsNear
      <4>2. CASE k \notin DOMAIN Space
        BY <4>2 DEF InSpace
      <4> QED
        BY <4>1, <4>2
    <3> QED
      BY <1>5, <1>8, <2>1, <3>2 DEF IsOver
  <2>2. CASE k \notin DOMAIN passed
    <3>1. k \in DOMAIN file /\ InSpace(k, file[k])
      BY <1>1 DEF FileKept
    <3> QED
      BY <1>5, <1>8, <2>2, <3>1 DEF IsOver
  <2> QED
    BY <2>1, <2>2
<1>11. DOMAIN child = DOMAIN passed \cup DOMAIN file
  BY <1>5, <1>8 DEF IsOver
<1>12. FileKept(child)
  BY <1>1, <1>8, <1>9, <1>10, <1>11 DEF FileKept
<1>13. ASSUME profitable, ~autoApplied, NEW k \in DOMAIN child
       PROVE  \/ k \in DOMAIN file /\ child[k] = file[k]
              \/ k \in Tightening /\ k \in DOMAIN file /\ child[k] < file[k]
  <2>1. CASE k \notin DOMAIN passed
    BY <1>5, <1>8, <1>11, <2>1 DEF IsOver
  <2>2. CASE k \in DOMAIN passed
    <3>1. k \in Tightening /\ passed[k] < InEffect[k]
      BY <1>2, <1>13, <2>2 DEF Judged, passed
    <3>2. InEffect[k] = file[k]
      BY <1>13, <3>1, InEffectIsKept DEF file
    <3>3. k \in DOMAIN ShippedValues /\ k \in DOMAIN file
      BY <1>1, <3>1, TighteningShipped DEF FileKept
    <3>4. passed[k] \in Int /\ file[k] \in Int
      BY <1>2, <1>7, <2>2, <3>3, ValueIsInt
    <3>5. child[k] = clamped[k]
      BY <1>5, <1>8, <2>2 DEF IsOver
    <3>6. CASE k \notin DOMAIN Space
      BY <1>6, <2>2, <3>1, <3>2, <3>3, <3>5, <3>6
    <3>7. CASE k \in DOMAIN Space
      <4>1. Space[k][1] \in Int /\ Space[k][2] \in Int
        BY <3>7, TuningConstants
      <4>2. Space[k][1] <= file[k] /\ file[k] <= Space[k][2]
        BY <1>1, <3>3, <3>7 DEF FileKept, InSpace
      <4>3. child[k] = Within(Space[k], passed[k])
        BY <1>6, <2>2, <3>5, <3>7
      <4>4. child[k] <= file[k]
        BY <3>1, <3>2, <3>4, <4>1, <4>2, <4>3 DEF Within
      <4>5. child[k] \in Int
        BY <3>4, <4>1, <4>3 DEF Within
      <4> QED
        BY <3>1, <3>3, <3>4, <4>4, <4>5
    <3> QED
      BY <3>6, <3>7
  <2> QED
    BY <2>1, <2>2
<1> QED
  BY <1>3, <1>8, <1>11, <1>12, <1>13 DEF file, passed, Generation

---------------------------------------------------------------------------
LEMMA SanitizedIsSection ==
  ASSUME NEW p, Section(p, Keys)
  PROVE  Sanitized(p) \in Sections(ParamKeys)
<1> DEFINE d == Sanitized(p)
<1>1. DOMAIN d = DOMAIN p \cap DOMAIN Bounds /\ d = [k \in DOMAIN d |-> d[k]]
  BY DEF Sanitized
<1>2. ASSUME NEW k \in DOMAIN d PROVE d[k] \in Int
  <2>1. d[k] = Within(Bounds[k], p[k]) /\ k \in DOMAIN Bounds /\ p[k] \in Int
    BY <1>1 DEF Sanitized, Section
  <2> QED
    BY <2>1, TuningConstants DEF Within
<1>3. Section(d, ParamKeys)
  BY <1>1, <1>2, TuningConstants DEF Section
<1> QED
  BY <1>3, InSections

\* What an optimiser or a review asks for is a proposal.
LEMMA AskedAreProposals ==
  ASSUME NEW kind \in {"params", "scoring", "weights"}, NEW some \in Asked(kind)
  PROVE  some \in Seq(Proposal)
<1>1. CASE some = <<>>
  BY <1>1
<1>2. CASE some # <<>>
  <2>1. PICK p \in Patches[kind] :
          some = <<[kind |-> kind, patch |-> IF kind = "params" THEN Sanitized(p) ELSE p]>>
    BY <1>2 DEF Asked
  <2> DEFINE q == [kind |-> kind, patch |-> IF kind = "params" THEN Sanitized(p) ELSE p]
  <2>2. q \in Proposal
    <3>1. CASE kind = "params"
      <4>1. Sanitized(p) \in Sections(ParamKeys)
        BY <2>1, <3>1, TuningConstants, SanitizedIsSection
      <4> QED
        BY <3>1, <4>1 DEF Proposal
    <3>2. CASE kind = "scoring"
      <4>1. p \in Sections(ScoreKeys)
        BY <2>1, <3>2, TuningConstants, InSections
      <4> QED
        BY <3>2, <4>1 DEF Proposal
    <3>3. CASE kind = "weights"
      <4>1. p \in Sections(WeightKeys)
        BY <2>1, <3>3, TuningConstants, InSections
      <4> QED
        BY <3>3, <4>1 DEF Proposal
    <3> QED
      BY <3>1, <3>2, <3>3
  <2> HIDE DEF q
  <2>3. <<q>> \in Seq(Proposal)
    BY <2>2
  <2> QED
    BY <2>1, <2>3 DEF q
<1> QED
  BY <1>1, <1>2

LEMMA ShippedIsKept == FileKept(ShippedValues)
<1>1. ShippedValues \in Sections(Keys)
  BY TuningConstants, InSections
<1>2. \A k \in Measured : Near(k, ShippedValues[k])
  BY ShippedIsNear DEF Measured
<1> QED
  BY <1>1, <1>2, ShippedInSpace DEF FileKept, InSpace

\* The parameters of a file that is loaded with nothing kept are those of the file.
LEMMA LoadedIsKept ==
  ASSUME NEW file, FileKept(file)
  PROVE  LET r == Reloaded(file, NoParameters)
         IN  /\ r \in Sections(ParamKeys)
             /\ ParamKeys \cap DOMAIN ShippedValues \subseteq DOMAIN r
             /\ \A k \in Measured \cap ParamKeys : Near(k, r[k])
             /\ \A k \in Tightening : r[k] = file[k]
<1>1. NoParameters \in Sections(ParamKeys) /\ DOMAIN NoParameters = {}
  BY NothingIsSection
<1>2. \A k \in Measured \cap DOMAIN NoParameters : Near(k, NoParameters[k])
  BY <1>1
<1>3. Tightening \subseteq ParamKeys \cap DOMAIN file
  BY TighteningShipped DEF FileKept
<1> QED
  BY <1>1, <1>2, <1>3, ReloadedIsKept

LEMMA TuningInitial == TuningInit => TuningInv
<1> SUFFICES ASSUME TuningInit PROVE TuningInv
  OBVIOUS
<1> DEFINE first == [values |-> ShippedValues, ancestor |-> 1]
<1>1. first \in Generation
  BY ShippedIsKept DEF FileKept, Generation
<1>2. files = <<first>> /\ inForce = 1
  BY DEF TuningInit
<1>3. FilesKept
  <2> HIDE DEF first
  <2>1. files \in Seq(Generation) /\ Len(files) = 1 /\ files[1] = first
    BY <1>1, <1>2
  <2>2. files[1].values = ShippedValues
    BY <2>1 DEF first
  <2> QED
    BY <1>2, <2>1, <2>2, ShippedIsKept DEF FilesKept
<1>4. ParamsKept(current)
  <2>1. current = Reloaded(ShippedValues, NoParameters)
    BY DEF TuningInit, NoParameters
  <2>2. files[inForce].values = ShippedValues
    BY <1>2, <1>3 DEF FilesKept
  <2> QED
    BY <2>1, <2>2, ShippedIsKept, LoadedIsKept DEF ParamsKept
<1>5. queue \in Seq(Proposal)
  BY DEF TuningInit
<1> QED
  BY <1>3, <1>4, <1>5, TuningConstants DEF TuningInit, TuningInv

---------------------------------------------------------------------------
\* Every step keeps the invariant.
LEMMA TuningStep == TuningInv /\ [TuningNext]_tuningVars => TuningInv'
<1> SUFFICES ASSUME TuningInv, [TuningNext]_tuningVars PROVE TuningInv'
  OBVIOUS
<1> USE DEF model, window, counts
<1>0. autoApplied \in BOOLEAN /\ profitable \in BOOLEAN
  BY DEF TuningInv
\* A queue of proposals stays one
<1>q. ASSUME NEW some \in Seq(Proposal), Queued(some) PROVE queue' \in Seq(Proposal)
  BY <1>q DEF Queued, TuningInv
\* Parameters that stay are kept if the files do
<1>m. ASSUME UNCHANGED model
      PROVE  /\ FilesKept' /\ ParamsKept(current)' /\ autoApplied' \in BOOLEAN
             /\ \A f : ParamsKept(f) => (~autoApplied' => \A k \in Tightening : f[k] = files'[inForce'].values[k])
  BY <1>m DEF TuningInv, FilesKept, ParamsKept
<1>1. ASSUME NEW regime \in DOMAIN Budgets, OpenWindowIn(regime) PROVE TuningInv'
  <2>1. PICK overlay \in Budgets[regime] : effective' = Profile(current, overlay)
    BY <1>1 DEF OpenWindowIn
  <2>2. ParamsKept(effective')
    BY <2>1, ProfileIsKept DEF TuningInv
  <2>3. ParamsKept(effective)'
    BY <1>1, <2>2 DEF OpenWindowIn, ParamsKept
  <2>4. ParamsKept(opened)'
    BY <1>1 DEF OpenWindowIn, ParamsKept, TuningInv
  <2> QED
    BY <1>1, <1>m, <2>3, <2>4 DEF OpenWindowIn, TuningInv
\* The stages between leave files and parameters, and the window
<1>w. ASSUME UNCHANGED <<model, window>>, phase # "idle", queue' \in Seq(Proposal), profitable' \in BOOLEAN
      PROVE  TuningInv'
  <2>1. ParamsKept(opened)' /\ ParamsKept(effective)'
    BY <1>w DEF TuningInv, ParamsKept
  <2> QED
    BY <1>m, <1>w, <2>1 DEF TuningInv
<1>2. ASSUME NEW profit \in BOOLEAN, Simulated(profit) PROVE TuningInv'
  BY <1>2, <1>w DEF Simulated, TuningInv
<1>3. CASE Feedback
  <2>1. PICK p \in Asked("params"), s \in Asked("scoring") : Queued(p \o s)
    BY <1>3 DEF Feedback
  <2>2. p \o s \in Seq(Proposal)
    <3>1. p \in Seq(Proposal) /\ s \in Seq(Proposal)
      BY AskedAreProposals
    <3> QED
      BY <3>1
  <2>3. queue' \in Seq(Proposal)
    BY <1>q, <2>1, <2>2
  <2> QED
    BY <1>0, <1>3, <1>w, <2>3 DEF Feedback
<1>4. CASE Analyse
  <2>1. PICK p \in Asked("params"), s \in Asked("scoring") : Queued(p \o s)
    BY <1>4 DEF Analyse
  <2>2. p \o s \in Seq(Proposal)
    <3>1. p \in Seq(Proposal) /\ s \in Seq(Proposal)
      BY AskedAreProposals
    <3> QED
      BY <3>1
  <2>3. queue' \in Seq(Proposal)
    BY <1>q, <2>1, <2>2
  <2> QED
    BY <1>0, <1>4, <1>w, <2>3 DEF Analyse
<1>5. CASE Evolve
  <2>1. PICK p \in Asked("params") \cup {<<>>} : Queued(p)
    BY <1>5 DEF Evolve
  <2>2. p \in Seq(Proposal)
    <3>1. CASE p = <<>>
      BY <3>1
    <3>2. CASE p \in Asked("params")
      BY <3>2, AskedAreProposals
    <3> QED
      BY <3>1, <3>2
  <2>3. queue' \in Seq(Proposal)
    BY <1>q, <2>1, <2>2
  <2> QED
    BY <1>0, <1>5, <1>w, <2>3 DEF Evolve
<1>6. CASE OptimiserRaises
  BY <1>0, <1>6, <1>w DEF OptimiserRaises, TuningInv
<1>7. CASE ReviewDecision
  <2>1. PICK p \in Asked("params"), w \in Asked("weights") : Queued(p \o w)
    BY <1>7 DEF ReviewDecision
  <2>2. p \o w \in Seq(Proposal)
    <3>1. p \in Seq(Proposal) /\ w \in Seq(Proposal)
      BY AskedAreProposals
    <3> QED
      BY <3>1
  <2>3. queue' \in Seq(Proposal)
    BY <1>q, <2>1, <2>2
  <2> QED
    BY <1>0, <1>7, <1>w, <2>3 DEF ReviewDecision
<1>8. CASE CandidateBuilt
  <2> DEFINE child == Mutated(Gate.passed)
  <2>1. child \in Generation /\ FileKept(child.values) /\ phase # "idle"
    BY <1>8, MutatedIsKept DEF CandidateBuilt
  <2>2. files' = Append(files, child) /\ autoApplied' = autoApplied
    BY <1>8 DEF CandidateBuilt
  <2> HIDE DEF child
  <2>3. /\ files' \in Seq(Generation) /\ Len(files') = Len(files) + 1 /\ files'[Len(files')] = child
        /\ \A i \in 1 .. Len(files) : files'[i] = files[i]
        /\ Len(files) \in Nat /\ inForce \in 1 .. Len(files)
    BY <2>1, <2>2 DEF TuningInv, FilesKept
  <2>4. inForce' \in 1 .. Len(files')
    BY <1>8, <2>3 DEF CandidateBuilt
  <2>5. \A i \in 1 .. Len(files') : FileKept(files'[i].values)
    <3> SUFFICES ASSUME NEW i \in 1 .. Len(files') PROVE FileKept(files'[i].values)
      OBVIOUS
    <3>1. CASE i = Len(files')
      BY <2>1, <2>3, <3>1
    <3>2. CASE i # Len(files')
      <4>1. i \in 1 .. Len(files)
        BY <2>3, <3>2
      <4> QED
        BY <2>3, <4>1 DEF TuningInv, FilesKept
    <3> QED
      BY <3>1, <3>2
  <2>6. FilesKept'
    <3>1. files'[1] = files[1]
      BY <2>3
    <3> QED
      BY <2>3, <2>4, <2>5, <3>1 DEF TuningInv, FilesKept, FileKept, Near, InSpace
  <2>7. ParamsKept(current)'
    <3>1. CASE autoApplied
      <4>1. current' = Reloaded(child.values, current)
        BY <1>8, <2>3, <3>1 DEF CandidateBuilt
      <4>2. current \in Sections(ParamKeys) /\ \A k \in Measured \cap DOMAIN current : Near(k, current[k])
        <5>1. current \in Sections(ParamKeys) /\ \A k \in Measured \cap ParamKeys : Near(k, current[k])
          BY DEF TuningInv, ParamsKept
        <5> QED
          BY <5>1, ValueIsInt
      <4>3. /\ current' \in Sections(ParamKeys)
            /\ ParamKeys \cap DOMAIN ShippedValues \subseteq DOMAIN current'
            /\ \A k \in Measured \cap ParamKeys : Near(k, current'[k])
        BY <2>1, <4>1, <4>2, ReloadedIsKept
      <4> QED
        BY <2>2, <3>1, <4>3 DEF ParamsKept
    <3>2. CASE ~autoApplied
      <4>1. current' = current /\ inForce' = inForce
        BY <1>8, <3>2 DEF CandidateBuilt
      <4> QED
        BY <2>2, <2>3, <4>1 DEF TuningInv, ParamsKept
    <3> QED
      BY <3>1, <3>2
  <2>8. ParamsKept(opened)' /\ ParamsKept(effective)'
    <3>1. opened' = opened /\ effective' = effective /\ ParamsKept(opened) /\ ParamsKept(effective)
      BY <1>8, <2>1 DEF CandidateBuilt, TuningInv
    <3>2. ~autoApplied => inForce' = inForce
      BY <1>8 DEF CandidateBuilt
    <3> QED
      BY <2>2, <2>3, <3>1, <3>2 DEF ParamsKept
  <2> QED
    BY <1>0, <1>8, <2>2, <2>6, <2>7, <2>8 DEF CandidateBuilt, TuningInv
<1>9. CASE NoCandidate
  BY <1>0, <1>9, <1>w DEF NoCandidate, TuningInv
\* Closing the window puts the parameters back
<1>c. ASSUME CloseTuning, phase # "idle", UNCHANGED <<autoApplied, files, inForce>>
      PROVE  TuningInv'
  <2>1. ParamsKept(current)'
    BY <1>c DEF CloseTuning, TuningInv, ParamsKept
  <2>2. FilesKept'
    BY <1>c DEF TuningInv, FilesKept
  <2> QED
    <3>1. autoApplied' \in BOOLEAN /\ profitable' \in BOOLEAN
      BY <1>0, <1>c DEF CloseTuning
    <3>2. phase' = "idle" /\ queue' \in Seq(Proposal)
      BY <1>c DEF CloseTuning
    <3> QED
      BY <2>1, <2>2, <3>1, <3>2 DEF TuningInv
<1>10. CASE Recorded
  BY <1>10, <1>c DEF Recorded
<1>11. CASE Abandoned
  BY <1>11, <1>c DEF Abandoned
<1>12. ASSUME NEW i \in DOMAIN files, Adopt(i) PROVE TuningInv'
  <2>1. i \in 1 .. Len(files) /\ FileKept(files[i].values)
    BY DEF TuningInv, FilesKept
  <2>2. inForce' = i /\ files' = files /\ current' = Reloaded(files[i].values, NoParameters)
    BY <1>12 DEF Adopt, NoParameters
  <2>3. ParamsKept(current)'
    BY <2>1, <2>2, LoadedIsKept DEF ParamsKept
  <2>4. FilesKept'
    BY <2>1, <2>2 DEF TuningInv, FilesKept
  <2> QED
    BY <1>0, <1>12, <2>3, <2>4 DEF Adopt, TuningInv
<1>13. CASE UNCHANGED tuningVars
  BY <1>13 DEF tuningVars, TuningInv, FilesKept, ParamsKept
<1> QED
  BY <1>1, <1>2, <1>3, <1>4, <1>5, <1>6, <1>7, <1>8, <1>9, <1>10, <1>11, <1>12, <1>13 DEF TuningNext

THEOREM TuningInvariant == TuningSpec => []TuningInv
<1> QED
  BY TuningInitial, TuningStep, PTL DEF TuningSpec

\* DriftBounded holds of every generation, whatever was proposed and however often.
THEOREM DriftAlwaysBounded == TuningSpec => []DriftBounded
<1>1. TuningInv => DriftBounded
  <2> SUFFICES ASSUME TuningInv,
                      NEW i \in DOMAIN files,
                      NEW k \in (Protected \cup ScoreKeys \cup WeightKeys) \cap DOMAIN ShippedValues,
                      k \notin Overlaid
               PROVE  ~Exceeds(files[i].values[k] - ShippedValues[k], ShippedValues[k], DriftLimit)
    BY DEF DriftBounded
  <2>1. k \in Measured
    BY DEF Measured
  <2>2. FileKept(files[i].values)
    BY DEF TuningInv, FilesKept
  <2>3. Near(k, files[i].values[k])
    BY <2>1, <2>2 DEF FileKept
  <2> QED
    BY <2>3 DEF Near
<1> QED
  BY <1>1, TuningInvariant, PTL

\* A candidate of a profitable cycle only tightens the stops of the file it was made from.
THEOREM ProfitAlwaysTightens == TuningSpec => ProfitOnlyTightens
<1> DEFINE Tightens ==
             profitable /\ ~autoApplied /\ files' # files =>
               LET parent == files[inForce].values
                   child  == files'[Len(files')].values
               IN  \A k \in DOMAIN child :
                     \/ k \in DOMAIN parent /\ child[k] = parent[k]
                     \/ k \in Tightening /\ k \in DOMAIN parent /\ child[k] < parent[k]
<1>1. TuningInv /\ [TuningNext]_tuningVars => [Tightens]_tuningVars
  <2> SUFFICES ASSUME TuningInv, TuningNext, profitable, ~autoApplied, files' # files
               PROVE  LET parent == files[inForce].values
                          child  == files'[Len(files')].values
                      IN  \A k \in DOMAIN child :
                            \/ k \in DOMAIN parent /\ child[k] = parent[k]
                            \/ k \in Tightening /\ k \in DOMAIN parent /\ child[k] < parent[k]
    OBVIOUS
  <2>1. CandidateBuilt
    BY DEF TuningNext, OpenWindowIn, Simulated, Feedback, Analyse, Evolve, OptimiserRaises,
           ReviewDecision, NoCandidate, Recorded, Abandoned, Adopt, model
  <2>2. files' = Append(files, Mutated(Gate.passed)) /\ phase # "idle"
    BY <2>1 DEF CandidateBuilt
  <2> DEFINE child == Mutated(Gate.passed)
  <2>3. \A k \in DOMAIN child.values :
          \/ k \in DOMAIN files[inForce].values /\ child.values[k] = files[inForce].values[k]
          \/ /\ k \in Tightening /\ k \in DOMAIN files[inForce].values
             /\ child.values[k] < files[inForce].values[k]
    BY <2>2, MutatedIsKept
  <2>4. files'[Len(files')] = child
    <3>1. child \in Generation /\ files \in Seq(Generation)
      BY <2>2, MutatedIsKept DEF TuningInv, FilesKept
    <3> HIDE DEF child
    <3> QED
      BY <2>2, <3>1 DEF child
  <2> HIDE DEF child
  <2> QED
    BY <2>3, <2>4
<1> QED
  BY <1>1, TuningInvariant, PTL DEF TuningSpec, ProfitOnlyTightens

---------------------------------------------------------------------------
\* A sum is made step by step.
LEMMA TotalSums ==
  ASSUME NEW s \in Seq(Int)
  PROVE  \E sum \in [0 .. Len(s) -> Int] :
           /\ sum[0] = 0
           /\ \A n \in 1 .. Len(s) : sum[n] = sum[n - 1] + s[n]
           /\ Total(s) = sum[Len(s)]
<1> DEFINE L == Len(s)
           next == [n \in 1 .. L |-> [x \in Int |-> x + s[n]]]
           sum == CHOOSE g : g = [n \in 0 .. L |-> IF n = 0 THEN 0 ELSE g[n - 1] + s[n]]
<1>1. L \in Nat /\ \A n \in 1 .. L : s[n] \in Int
  OBVIOUS
<1>2. next \in [1 .. L -> [Int -> Int]]
  BY <1>1
<1>3. PICK f \in [0 .. L -> Int] : Follows(f, L, 0, next)
  <2> DEFINE numbers == Int
             zero == 0
  <2>1. zero \in numbers /\ next \in [1 .. L -> [numbers -> numbers]]
    BY <1>2
  <2>2. \E f \in [0 .. L -> numbers] : Follows(f, L, zero, next)
    <3> HIDE DEF L, next, numbers, zero
    <3> QED
      BY <1>1, <2>1, RecursionExists
  <2> QED
    BY <2>2
<1>4. f = [n \in 0 .. L |-> IF n = 0 THEN 0 ELSE f[n - 1] + s[n]]
  <2>1. f[0] = 0
    BY <1>3 DEF Follows
  <2>2. ASSUME NEW n \in 0 .. L, n # 0 PROVE f[n] = f[n - 1] + s[n]
    <3>1. n \in 1 .. L /\ f[n - 1] \in Int
      BY <2>2
    <3>2. f[n] = next[n][f[n - 1]]
      BY <1>3, <3>1 DEF Follows
    <3> QED
      BY <3>1, <3>2
  <2> QED
    BY <2>1, <2>2
<1>5. sum = [n \in 0 .. L |-> IF n = 0 THEN 0 ELSE sum[n - 1] + s[n]]
  BY <1>4
<1>6. Total(s) = sum[L]
  BY DEF Total
<1> HIDE DEF sum
<1>7. sum[0] = 0 /\ \A n \in 1 .. L : sum[n] = sum[n - 1] + s[n]
  BY <1>1, <1>5
<1>8. \A n \in 0 .. L : sum[n] \in Int
  <2> DEFINE T == {n \in 0 .. L : sum[n] \in Int}
  <2>1. 0 \in T /\ \A n \in 1 .. L : n - 1 \in T => n \in T
    BY <1>1, <1>7
  <2>2. \A n \in 0 .. L : n \in T
    <3> HIDE DEF T, L
    <3> QED
      BY <1>1, <2>1, InductionUpTo
  <2> QED
    BY <2>2
<1>9. sum \in [0 .. L -> Int]
  BY <1>5, <1>8
<1> QED
  BY <1>6, <1>7, <1>9

\* The part of a sequence that is in a set: a sequence of those elements, no longer, and of
\* all of them.
LEMMA ThoseAreIn ==
  ASSUME NEW all, NEW s \in Seq(all), NEW some
  PROVE  /\ Those(s, some) \in Seq(all \cap some)
         /\ Len(Those(s, some)) <= Len(s)
         /\ \A i \in DOMAIN Those(s, some) : \E j \in DOMAIN s : Those(s, some)[i] = s[j]
         /\ \A j \in DOMAIN s : s[j] \in some => \E i \in DOMAIN Those(s, some) : Those(s, some)[i] = s[j]
<1> DEFINE L == Len(s)
           Step(n, x) == IF s[n] \in some THEN Append(x, s[n]) ELSE x
           S == Seq(all \cap some)
           next == [n \in 1 .. L |-> [x \in S |-> Step(n, x)]]
           kept == CHOOSE g : g = [n \in 0 .. L |->
                     IF n = 0 THEN <<>> ELSE IF s[n] \in some THEN Append(g[n - 1], s[n]) ELSE g[n - 1]]
<1>1. L \in Nat /\ \A n \in 1 .. L : s[n] \in all
  OBVIOUS
<1>2. \A n \in 1 .. L, x \in S : Step(n, x) \in S
  BY <1>1
<1>3. next \in [1 .. L -> [S -> S]] /\ <<>> \in S
  <2> HIDE DEF Step, S
  <2>1. next \in [1 .. L -> [S -> S]]
    BY <1>2
  <2> QED
    BY <2>1 DEF S
<1>4. PICK f \in [0 .. L -> S] : Follows(f, L, <<>>, next)
  <2> HIDE DEF L, next, S
  <2> QED
    BY <1>1, <1>3, RecursionExists
<1>5. f = [n \in 0 .. L |-> IF n = 0 THEN <<>> ELSE Step(n, f[n - 1])]
  <2>1. f[0] = <<>>
    BY <1>4 DEF Follows
  <2>2. ASSUME NEW n \in 0 .. L, n # 0 PROVE f[n] = Step(n, f[n - 1])
    <3>1. n \in 1 .. L /\ n - 1 \in 0 .. L
      BY <1>1, <2>2
    <3>2. f[n] = next[n][f[n - 1]] /\ f[n - 1] \in S
      BY <1>4, <3>1 DEF Follows
    <3> HIDE DEF Step, S
    <3> QED
      BY <3>1, <3>2
  <2> HIDE DEF Step, S
  <2> QED
    BY <2>1, <2>2
<1>6. kept = [n \in 0 .. L |-> IF n = 0 THEN <<>> ELSE Step(n, kept[n - 1])]
  BY <1>5
<1>7. Those(s, some) = kept[L]
  BY DEF Those
<1> HIDE DEF kept
<1>8. kept[0] = <<>> /\ \A n \in 1 .. L : kept[n] = Step(n, kept[n - 1])
  <2> HIDE DEF Step
  <2>1. kept[0] = <<>>
    BY <1>1, <1>6
  <2>2. ASSUME NEW n \in 1 .. L PROVE kept[n] = Step(n, kept[n - 1])
    <3>1. n \in 0 .. L /\ n # 0
      BY <1>1
    <3> QED
      BY <1>6, <3>1
  <2> QED
    BY <2>1, <2>2
<1> DEFINE Good(n, k) ==
             /\ k \in S /\ Len(k) <= n
             /\ \A i \in 1 .. Len(k) : \E j \in 1 .. n : k[i] = s[j]
             /\ \A j \in 1 .. n : s[j] \in some => \E i \in 1 .. Len(k) : k[i] = s[j]
           T == {n \in 0 .. L : Good(n, kept[n])}
<1>9. 0 \in T
  <2>1. kept[0] \in S /\ Len(kept[0]) = 0 /\ 0 \in 0 .. L
    BY <1>1, <1>8
  <2> HIDE DEF S
  <2> QED
    BY <2>1
<1>10. ASSUME NEW n \in 1 .. L, n - 1 \in T PROVE n \in T
  <2> DEFINE old == kept[n - 1]
             new == kept[n]
  <2>1. Good(n - 1, old)
    BY <1>10
  <2>2. new = Step(n, old)
    BY <1>8
  <2> HIDE DEF old, new
  <2>3. CASE s[n] \in some
    <3>1. new = Append(old, s[n]) /\ s[n] \in all \cap some /\ n \in Nat
      BY <1>1, <2>2, <2>3
    <3>2. old \in S /\ Len(old) <= n - 1
      BY <2>1
    <3>3. new \in S /\ Len(new) = Len(old) + 1 /\ Len(old) \in Nat
      BY <3>1, <3>2
    <3>4. \A i \in 1 .. Len(old) : new[i] = old[i]
      BY <3>1, <3>2
    <3>5. new[Len(new)] = s[n]
      BY <3>1, <3>2
    <3>6. ASSUME NEW i \in 1 .. Len(new) PROVE \E j \in 1 .. n : new[i] = s[j]
      <4>1. CASE i = Len(new)
        BY <3>1, <3>5, <4>1
      <4>2. CASE i # Len(new)
        <5>1. i \in 1 .. Len(old)
          BY <3>3, <4>2
        <5>2. PICK j \in 1 .. n - 1 : old[i] = s[j]
          BY <2>1, <5>1
        <5> QED
          BY <3>1, <3>4, <5>1, <5>2
      <4> QED
        BY <4>1, <4>2
    <3>7. ASSUME NEW j \in 1 .. n, s[j] \in some PROVE \E i \in 1 .. Len(new) : new[i] = s[j]
      <4>1. CASE j = n
        BY <3>3, <3>5, <4>1
      <4>2. CASE j # n
        <5>1. j \in 1 .. n - 1
          BY <3>1, <4>2
        <5>2. PICK i \in 1 .. Len(old) : old[i] = s[j]
          BY <2>1, <3>7, <5>1
        <5> QED
          BY <3>3, <3>4, <5>2
      <4> QED
        BY <4>1, <4>2
    <3>8. Len(new) <= n
      BY <3>1, <3>2, <3>3
    <3>9. Good(n, new)
      <4> HIDE DEF S
      <4> QED
        BY <3>3, <3>6, <3>7, <3>8
    <3> QED
      BY <3>9 DEF new
  <2>4. CASE s[n] \notin some
    <3>1. new = old
      BY <2>2, <2>4
    <3>2. ASSUME NEW i \in 1 .. Len(new) PROVE \E j \in 1 .. n : new[i] = s[j]
      <4>1. PICK j \in 1 .. n - 1 : new[i] = s[j]
        BY <2>1, <3>1
      <4> QED
        BY <4>1
    <3>3. ASSUME NEW j \in 1 .. n, s[j] \in some PROVE \E i \in 1 .. Len(new) : new[i] = s[j]
      <4>1. j \in 1 .. n - 1
        BY <2>4, <3>3
      <4> QED
        BY <2>1, <3>1, <3>3, <4>1
    <3>4. Good(n, new)
      BY <2>1, <3>1, <3>2, <3>3
    <3> QED
      BY <3>4 DEF new
  <2> QED
    BY <2>3, <2>4
<1>11. \A n \in 0 .. L : n \in T
  <2> HIDE DEF T, L
  <2> QED
    BY <1>1, <1>9, <1>10, InductionUpTo
<1>12. Good(L, kept[L])
  <2>1. L \in T
    <3>1. L \in 0 .. L
      BY <1>1
    <3> HIDE DEF T, L
    <3> QED
      BY <1>11, <3>1
  <2> HIDE DEF Good
  <2> QED
    BY <2>1
<1>13. DOMAIN kept[L] = 1 .. Len(kept[L]) /\ DOMAIN s = 1 .. L
  BY <1>12
<1> QED
  BY <1>7, <1>12, <1>13

LEMMA Quotient ==
  ASSUME NEW a \in Int, NEW d \in Nat, d > 0
  PROVE  a \div d \in Int /\ d * (a \div d) <= a /\ a < d * (a \div d) + d
OBVIOUS

LEMMA LeOfProducts ==
  ASSUME NEW d \in Nat, d > 0, NEW x \in Int, NEW y \in Int, d * x <= d * y + d - 1
  PROVE  x <= y
<1>1. SUFFICES ASSUME x >= y + 1 PROVE FALSE
  OBVIOUS
<1>2. d * x >= d * (y + 1)
  BY <1>1
<1>3. d * (y + 1) = d * y + d
  OBVIOUS
<1> QED
  BY <1>2, <1>3

\* A share that is rounded is at most half a unit too much, and no more than the whole.
LEMMA RoundedShare ==
  ASSUME NEW w \in Nat, NEW cap \in Nat, NEW sum \in Nat, cap < sum
  PROVE  LET q == Rounded(w * cap, sum, 1)
         IN  q \in Int /\ q <= w /\ sum * (2 * q) <= 2 * (w * cap) + sum
<1> DEFINE a == 2 * (w * cap) + sum
           d == 2 * sum
           q == a \div d
<1>1. w * cap \in Int /\ a \in Int /\ d \in Nat /\ d > 0
  OBVIOUS
<1>2. Rounded(w * cap, sum, 1) = q
  <2>1. q \in Int
    <3> HIDE DEF a, d
    <3> QED
      BY <1>1, Quotient
  <2> QED
    BY <1>1, <2>1 DEF Rounded
<1>3. q \in Int /\ d * q <= a
  <2> HIDE DEF a, d
  <2> QED
    BY <1>1, Quotient
<1> HIDE DEF q
<1>4. d * q = sum * (2 * q)
  BY <1>3
<1>5. w * cap <= w * sum /\ w * sum \in Int
  OBVIOUS
<1>6. d * w = 2 * (w * sum)
  OBVIOUS
<1>7. d * q <= d * w + d - 1
  <2>1. a <= 2 * (w * sum) + sum /\ sum <= d - 1
    BY <1>1, <1>5
  <2>2. d * q \in Int /\ d * w \in Int
    BY <1>3
  <2> HIDE DEF d, a
  <2>3. a <= d * w + sum
    BY <1>6, <2>1
  <2> QED
    BY <1>1, <1>3, <2>1, <2>2, <2>3
<1>8. q <= w
  <2> HIDE DEF d
  <2> QED
    BY <1>1, <1>3, <1>7, LeOfProducts
<1> QED
  BY <1>2, <1>3, <1>4, <1>8

Position == [code : Code, weight : Int]
Sized    == [code : Code, weight : Nat]

LEMMA SeqNarrows ==
  ASSUME NEW all, NEW s \in Seq(all), NEW some, \A i \in 1 .. Len(s) : s[i] \in some
  PROVE  s \in Seq(some)
OBVIOUS

\* Scaling keeps codes and order, raises no weight, and leaves a sum that is above the cap by
\* no more than half a unit for each position.
LEMMA ScaledIsFunded ==
  ASSUME NEW ps \in Seq(Sized), NEW cap \in Nat
  PROVE  LET r == Scaled(ps, cap)
         IN  /\ r \in Seq(Position) /\ Len(r) = Len(ps)
             /\ \A i \in 1 .. Len(ps) : r[i].code = ps[i].code /\ r[i].weight <= ps[i].weight
             /\ 2 * (Total(Weights(r)) - cap) <= Len(ps)
<1> DEFINE L == Len(ps)
           W == Weights(ps)
           sum == Total(W)
           r == Scaled(ps, cap)
<1>1. L \in Nat /\ DOMAIN ps = 1 .. L /\ \A i \in 1 .. L : ps[i] \in Sized
  OBVIOUS
<1>2. W \in Seq(Int) /\ Len(W) = L /\ \A i \in 1 .. L : W[i] = ps[i].weight /\ W[i] \in Nat
  <2>1. \A i \in 1 .. L : ps[i].weight \in Nat
    BY <1>1 DEF Sized
  <2>2. W = [i \in 1 .. L |-> ps[i].weight]
    BY <1>1 DEF Weights
  <2> HIDE DEF W
  <2> QED
    BY <1>1, <2>1, <2>2
<1>3. PICK sw \in [0 .. L -> Int] :
        sw[0] = 0 /\ (\A n \in 1 .. L : sw[n] = sw[n - 1] + W[n]) /\ sum = sw[L]
  <2> HIDE DEF W, L
  <2> QED
    BY <1>2, TotalSums
<1>4. sum \in Int
  BY <1>1, <1>3
<1>5. CASE sum <= cap
  <2>1. r = ps
    BY <1>5 DEF Scaled
  <2>2. ps \in Seq(Position)
    <3>1. \A i \in 1 .. L : ps[i] \in Position
      BY <1>1 DEF Position, Sized
    <3> QED
      BY <3>1, SeqNarrows
  <2>3. \A i \in 1 .. L : ps[i].weight <= ps[i].weight
    BY <1>1 DEF Sized
  <2> HIDE DEF sum, L
  <2>4. 2 * (sum - cap) <= L
    BY <1>1, <1>4, <1>5
  <2> QED
    BY <2>1, <2>2, <2>3, <2>4 DEF L, sum
<1>6. CASE sum > cap
  <2> DEFINE share(i) == Rounded(ps[i].weight * cap, sum, 1)
  <2>1. sum \in Nat
    BY <1>4, <1>6
  <2>2. r = [i \in 1 .. L |-> [code |-> ps[i].code, weight |-> share(i)]]
    BY <1>1, <1>4, <1>6 DEF Scaled
  <2>3. \A i \in 1 .. L : /\ share(i) \in Int /\ share(i) <= W[i]
                           /\ sum * (2 * share(i)) <= 2 * (W[i] * cap) + sum
    <3> SUFFICES ASSUME NEW i \in 1 .. L
                 PROVE  /\ share(i) \in Int /\ share(i) <= W[i]
                        /\ sum * (2 * share(i)) <= 2 * (W[i] * cap) + sum
      OBVIOUS
    <3>1. W[i] \in Nat /\ ps[i].weight = W[i]
      BY <1>2
    <3> HIDE DEF W, sum
    <3> QED
      BY <1>6, <2>1, <3>1, RoundedShare
  <2> HIDE DEF share, r
  <2>4. \A i \in 1 .. L : r[i] = [code |-> ps[i].code, weight |-> share(i)] /\ r[i] \in Position
    <3> SUFFICES ASSUME NEW i \in 1 .. L
                 PROVE  r[i] = [code |-> ps[i].code, weight |-> share(i)] /\ r[i] \in Position
      OBVIOUS
    <3>1. r[i] = [code |-> ps[i].code, weight |-> share(i)]
      BY <2>2
    <3>2. ps[i].code \in Code /\ share(i) \in Int
      BY <1>1, <2>3 DEF Sized
    <3> QED
      BY <3>1, <3>2 DEF Position
  <2>5. r \in Seq(Position) /\ Len(r) = L /\ DOMAIN r = 1 .. L
    BY <1>1, <2>2, <2>4
  <2> DEFINE R == Weights(r)
  <2>6. R \in Seq(Int) /\ Len(R) = L /\ \A i \in 1 .. L : R[i] = share(i)
    <3>1. R = [i \in 1 .. L |-> r[i].weight]
      BY <2>5 DEF Weights
    <3>2. ASSUME NEW i \in 1 .. L PROVE r[i].weight = share(i) /\ share(i) \in Int
      <4>1. r[i] = [code |-> ps[i].code, weight |-> share(i)] /\ share(i) \in Int
        BY <2>3, <2>4
      <4> QED
        BY <4>1
    <3> HIDE DEF R, W, sum, L
    <3> QED
      BY <1>1, <3>1, <3>2
  <2>7. PICK sr \in [0 .. L -> Int] :
          sr[0] = 0 /\ (\A n \in 1 .. L : sr[n] = sr[n - 1] + R[n]) /\ Total(R) = sr[L]
    <3> HIDE DEF R, L
    <3> QED
      BY <2>6, TotalSums
  <2> DEFINE Fits(n) == sum * (2 * sr[n]) <= 2 * (sw[n] * cap) + n * sum
             T == {n \in 0 .. L : Fits(n)}
  <2> HIDE DEF R, W, sum
  <2>8. 0 \in T
    <3>1. sr[0] = 0 /\ sw[0] = 0
      BY <1>3, <2>7
    <3>2. sum * (2 * 0) = 0 /\ 0 * cap = 0 /\ 0 * sum = 0
      BY <2>1
    <3>3. Fits(0)
      BY <3>1, <3>2
    <3> HIDE DEF Fits
    <3> QED
      BY <1>1, <3>3
  <2>9. ASSUME NEW n \in 1 .. L, n - 1 \in T PROVE n \in T
    <3> DEFINE x == sr[n - 1]
               y == sw[n - 1]
               q == share(n)
               w == W[n]
    <3>1. x \in Int /\ y \in Int /\ q \in Int /\ w \in Int /\ n \in Nat /\ n - 1 \in 0 .. L
      BY <1>1, <1>2, <2>3
    <3>2. sr[n] = x + q /\ sw[n] = y + w
      BY <1>3, <2>6, <2>7
    <3>3. sum * (2 * x) <= 2 * (y * cap) + (n - 1) * sum
      <4>1. Fits(n - 1)
        <5> HIDE DEF Fits
        <5> QED
          BY <2>9
      <4> QED
        BY <4>1
    <3>4. sum * (2 * q) <= 2 * (w * cap) + sum
      BY <2>3
    <3> HIDE DEF x, y, q, w
    <3>5. sum * (2 * (x + q)) = sum * (2 * x) + sum * (2 * q)
      BY <2>1, <3>1
    <3>6. (y + w) * cap = y * cap + w * cap
      BY <3>1
    <3>7. n * sum = (n - 1) * sum + sum
      BY <2>1, <3>1
    <3>8. /\ sum * (2 * x) \in Int /\ sum * (2 * q) \in Int /\ y * cap \in Int
          /\ w * cap \in Int /\ (n - 1) * sum \in Int
      BY <2>1, <3>1
    <3>9. sum * (2 * (x + q)) <= 2 * ((y + w) * cap) + n * sum
      <4> DEFINE A == sum * (2 * x)
                 B == sum * (2 * q)
                 C == y * cap
                 D == w * cap
                 N == (n - 1) * sum
      <4>1. A \in Int /\ B \in Int /\ C \in Int /\ D \in Int /\ N \in Int
        BY <3>8
      <4>2. A <= 2 * C + N /\ B <= 2 * D + sum
        BY <3>3, <3>4
      <4>3. sum * (2 * (x + q)) = A + B /\ (y + w) * cap = C + D /\ n * sum = N + sum
        BY <3>5, <3>6, <3>7
      <4> HIDE DEF A, B, C, D, N, sum
      <4>4. A + B <= 2 * (C + D) + (N + sum)
        BY <2>1, <4>1, <4>2
      <4> QED
        BY <4>3, <4>4
    <3>10. n \in 0 .. L
      BY <1>1
    <3>11. Fits(n)
      BY <3>2, <3>9
    <3> HIDE DEF Fits
    <3> QED
      BY <3>10, <3>11
  <2>10. \A n \in 0 .. L : n \in T
    <3> HIDE DEF T, L
    <3> QED
      BY <1>1, <2>8, <2>9, InductionUpTo
  <2> DEFINE spent == sr[L]
  <2>11. sum * (2 * spent) <= 2 * (sum * cap) + L * sum /\ spent \in Int
    <3>1. L \in T
      BY <1>1, <2>10
    <3>2. Fits(L)
      <4> HIDE DEF Fits
      <4> QED
        BY <3>1
    <3> QED
      BY <1>1, <1>3, <3>2
  <2>12. sum * (2 * cap + L) = 2 * (sum * cap) + L * sum /\ sum > 0
    BY <1>1, <1>6, <2>1
  <2>13. 2 * spent <= 2 * cap + L
    <3> DEFINE a == 2 * spent
               b == 2 * cap + L
    <3>1. a \in Int /\ b \in Int
      BY <1>1, <2>11
    <3>2. sum * a <= sum * b + sum - 1
      <4>1. sum * a \in Int /\ sum * b \in Int
        BY <2>1, <3>1
      <4>2. sum * a <= sum * b
        BY <2>11, <2>12
      <4> HIDE DEF a, b
      <4> QED
        BY <2>1, <2>12, <4>1, <4>2
    <3> HIDE DEF a, b
    <3>3. a <= b
      BY <2>1, <2>12, <3>1, <3>2, LeOfProducts
    <3> QED
      BY <3>3 DEF a, b
  <2>14. Total(Weights(r)) = spent
    BY <2>7 DEF R
  <2> HIDE DEF spent, L
  <2>15. 2 * (spent - cap) <= L
    BY <1>1, <2>11, <2>13
  <2>16. \A i \in 1 .. L : r[i].code = ps[i].code /\ r[i].weight <= ps[i].weight
    <3> SUFFICES ASSUME NEW i \in 1 .. L PROVE r[i].code = ps[i].code /\ r[i].weight <= ps[i].weight
      OBVIOUS
    <3>1. r[i] = [code |-> ps[i].code, weight |-> share(i)] /\ share(i) <= W[i] /\ W[i] = ps[i].weight
      BY <1>2, <2>3, <2>4
    <3> QED
      BY <3>1
  <2> QED
    BY <2>5, <2>14, <2>15, <2>16 DEF r, L
<1> QED
  BY <1>4, <1>5, <1>6

LEMMA NaturalQuotient ==
  ASSUME NEW a \in Nat, NEW d \in Nat, d > 0
  PROVE  a \div d \in Nat
<1> DEFINE q == a \div d
<1>1. q \in Int /\ a < d * q + d
  BY Quotient
<1> HIDE DEF q
<1>2. SUFFICES ASSUME q <= -1 PROVE FALSE
  BY <1>1 DEF q
<1>3. d * q <= d * (-1)
  BY <1>1, <1>2
<1>4. d * (-1) = -d /\ d * q \in Int
  BY <1>1
<1> QED
  BY <1>1, <1>3, <1>4

LEMMA FirstOfIsPart ==
  ASSUME NEW all, NEW s \in Seq(all), NEW n \in Nat
  PROVE  /\ FirstOf(s, n) \in Seq(all)
         /\ Len(FirstOf(s, n)) = IF Len(s) < n THEN Len(s) ELSE n
         /\ \A i \in 1 .. Len(FirstOf(s, n)) : i \in 1 .. Len(s) /\ FirstOf(s, n)[i] = s[i]
<1> DEFINE m == IF Len(s) < n THEN Len(s) ELSE n
<1>1. m \in 0 .. Len(s)
  OBVIOUS
<1>2. FirstOf(s, n) = SubSeq(s, 1, m)
  BY DEF FirstOf
<1> HIDE DEF m
<1>3. /\ SubSeq(s, 1, m) \in Seq(all) /\ Len(SubSeq(s, 1, m)) = m
      /\ \A i \in 1 .. m : SubSeq(s, 1, m)[i] = s[i]
  BY <1>1
<1>4. \A i \in 1 .. m : i \in 1 .. Len(s)
  BY <1>1
<1> QED
  BY <1>2, <1>3, <1>4 DEF m

\* A set in order: above[c] are those that come before c.
InOrder(some, above) ==
  [i \in 1 .. Cardinality(some) |-> CHOOSE c \in some : Cardinality(above[c]) = i - 1]

\* A finite set that is ordered by what comes before each element has all of them, once each.
LEMMA InOrderIsOrder ==
  ASSUME NEW some, IsFiniteSet(some), NEW above \in [some -> SUBSET some],
         \A c \in some : c \notin above[c],
         \A c \in some : \A d \in above[c] : above[d] \subseteq above[c],
         \A c, d \in some : c # d => c \in above[d] \/ d \in above[c]
  PROVE  /\ InOrder(some, above) \in Seq(some)
         /\ Len(InOrder(some, above)) = Cardinality(some)
         /\ \A i, j \in 1 .. Cardinality(some) :
              InOrder(some, above)[i] = InOrder(some, above)[j] => i = j
<1> DEFINE N == Cardinality(some)
           rank == [c \in some |-> Cardinality(above[c])]
           places == 0 .. N - 1
           o == InOrder(some, above)
<1>1. N \in Nat
  BY FS_CardinalityType
<1>2. \A c \in some : IsFiniteSet(above[c]) /\ rank[c] \in Nat /\ rank[c] < N
  <2> SUFFICES ASSUME NEW c \in some PROVE IsFiniteSet(above[c]) /\ rank[c] \in Nat /\ rank[c] < N
    OBVIOUS
  <2>1. above[c] \in SUBSET some /\ above[c] # some
    OBVIOUS
  <2>2. IsFiniteSet(above[c]) /\ Cardinality(above[c]) <= N /\ Cardinality(above[c]) # N
    BY <2>1, FS_Subset
  <2>3. Cardinality(above[c]) \in Nat
    BY <2>2, FS_CardinalityType
  <2> QED
    BY <1>1, <2>2, <2>3
<1>3. ASSUME NEW c \in some, NEW d \in above[c] PROVE rank[d] # rank[c]
  <2>1. d \in some /\ above[d] \in SUBSET above[c] /\ above[d] # above[c]
    OBVIOUS
  <2>2. Cardinality(above[c]) # Cardinality(above[d])
    BY <1>2, <2>1, FS_Subset
  <2> QED
    BY <2>1, <2>2
<1>4. \A c, d \in some : rank[c] = rank[d] => c = d
  BY <1>3
<1>5. rank \in Injection(some, places)
  <2>1. rank \in [some -> places]
    <3>1. \A c \in some : rank[c] \in places
      BY <1>1, <1>2
    <3>2. rank = [c \in some |-> rank[c]]
      OBVIOUS
    <3> HIDE DEF rank
    <3> QED
      BY <3>1, <3>2
  <2> HIDE DEF rank
  <2> QED
    BY <1>4, <2>1 DEF Injection, IsInjective
<1>6. IsFiniteSet(places) /\ Cardinality(places) = N
  <2> DEFINE top == N - 1
  <2>1. top \in Int /\ 0 \in Int
    BY <1>1
  <2> HIDE DEF top
  <2>2. IsFiniteSet(0 .. top) /\ Cardinality(0 .. top) = IF 0 > top THEN 0 ELSE top - 0 + 1
    BY <2>1, FS_Interval
  <2> QED
    BY <1>1, <2>2 DEF top
<1>7. rank \in Surjection(some, places)
  <2> HIDE DEF rank, places, N
  <2> QED
    BY <1>5, <1>6, FS_Injection DEF N
<1>8. \A i \in 1 .. N : \E c \in some : rank[c] = i - 1
  <2> SUFFICES ASSUME NEW i \in 1 .. N PROVE \E c \in some : rank[c] = i - 1
    OBVIOUS
  <2>1. i - 1 \in places
    BY <1>1
  <2> HIDE DEF rank, places
  <2> QED
    BY <1>7, <2>1 DEF Surjection
<1>9. o = [i \in 1 .. N |-> CHOOSE c \in some : rank[c] = i - 1]
  BY DEF InOrder
<1> HIDE DEF o, N, rank
<1>10. \A i \in 1 .. N : o[i] \in some /\ rank[o[i]] = i - 1
  BY <1>8, <1>9
<1>11. o \in Seq(some) /\ Len(o) = N
  BY <1>1, <1>9, <1>10
<1>12. \A i, j \in 1 .. N : o[i] = o[j] => i = j
  <2> SUFFICES ASSUME NEW i \in 1 .. N, NEW j \in 1 .. N, o[i] = o[j] PROVE i = j
    OBVIOUS
  <2>1. i - 1 = j - 1
    BY <1>10
  <2> QED
    BY <1>1, <2>1
<1> QED
  BY <1>11, <1>12 DEF o, N

\* What a sequence of sequences is flattened into are their elements.
LEMMA FlattenedIsPart ==
  ASSUME NEW all, NEW ss \in Seq(Seq(all))
  PROVE  /\ FlattenSeq(ss) \in Seq(all)
         /\ \A i \in 1 .. Len(FlattenSeq(ss)) :
              \E m \in 1 .. Len(ss) : \E j \in 1 .. Len(ss[m]) : FlattenSeq(ss)[i] = ss[m][j]
<1> DEFINE L == Len(ss)
           S == Seq(all)
           Step(n, x) == IF n = 1 THEN ss[n] ELSE x \o ss[n]
           next == [n \in 1 .. L |-> [x \in S |-> Step(n, x)]]
           flat == CHOOSE g : g = [n \in 1 .. L |-> IF n = 1 THEN ss[n] ELSE g[n - 1] \o ss[n]]
<1>1. L \in Nat /\ \A n \in 1 .. L : ss[n] \in S
  OBVIOUS
<1>2. CASE L = 0
  BY <1>2 DEF FlattenSeq
<1>3. CASE L # 0
  <2>1. \A n \in 1 .. L, x \in S : Step(n, x) \in S
    BY <1>1
  <2>2. next \in [1 .. L -> [S -> S]] /\ <<>> \in S
    <3> HIDE DEF Step, S
    <3>1. next \in [1 .. L -> [S -> S]]
      BY <2>1
    <3> QED
      BY <3>1 DEF S
  <2>3. PICK f \in [0 .. L -> S] : Follows(f, L, <<>>, next)
    <3> HIDE DEF L, next, S
    <3> QED
      BY <1>1, <2>2, RecursionExists
  <2> DEFINE g == [n \in 1 .. L |-> f[n]]
  <2>4. g = [n \in 1 .. L |-> Step(n, g[n - 1])]
    <3>1. ASSUME NEW n \in 1 .. L PROVE g[n] = Step(n, g[n - 1])
      <4>1. f[n] = next[n][f[n - 1]] /\ f[n - 1] \in S
        <5>1. n - 1 \in 0 .. L
          BY <1>1
        <5> HIDE DEF next, S, L
        <5> QED
          BY <2>3, <5>1 DEF Follows
      <4>2. f[n] = Step(n, f[n - 1])
        <5> HIDE DEF Step, S
        <5> QED
          BY <4>1
      <4>3. CASE n = 1
        BY <4>2, <4>3
      <4>4. CASE n # 1
        <5>1. n - 1 \in 1 .. L
          BY <1>1, <4>4
        <5>2. g[n - 1] = f[n - 1] /\ g[n] = f[n]
          BY <5>1
        <5> HIDE DEF g
        <5> QED
          BY <4>2, <5>2
      <4> QED
        BY <4>3, <4>4
    <3>2. g = [n \in 1 .. L |-> g[n]]
      OBVIOUS
    <3> HIDE DEF g, Step
    <3> QED
      BY <3>1, <3>2
  <2>5. flat = [n \in 1 .. L |-> Step(n, flat[n - 1])]
    <3> HIDE DEF g
    <3> QED
      BY <2>4
  <2>6. FlattenSeq(ss) = flat[L]
    BY <1>3 DEF FlattenSeq
  <2> HIDE DEF flat
  <2>7. \A n \in 1 .. L : flat[n] = Step(n, flat[n - 1])
    <3> HIDE DEF Step
    <3> QED
      BY <2>5
  <2> DEFINE Good(n, k) ==
               /\ k \in S
               /\ \A i \in 1 .. Len(k) : \E m \in 1 .. n : \E j \in 1 .. Len(ss[m]) : k[i] = ss[m][j]
             T == {n \in 0 .. L : n = 0 \/ Good(n, flat[n])}
  <2>8. 0 \in T
    BY <1>1
  <2>9. ASSUME NEW n \in 1 .. L, n - 1 \in T PROVE n \in T
    <3> DEFINE old == flat[n - 1]
               new == flat[n]
    <3>1. n \in Nat /\ ss[n] \in S /\ Len(ss[n]) \in Nat
      BY <1>1
    <3>2. CASE n = 1
      <4>1. new = ss[n]
        BY <2>7, <3>2
      <4> HIDE DEF new
      <4>2. Good(n, new)
        BY <3>1, <4>1
      <4> QED
        BY <1>1, <4>2 DEF new
    <3>3. CASE n # 1
      <4>1. Good(n - 1, old)
        <5> HIDE DEF Good
        <5> QED
          BY <1>1, <2>9, <3>3
      <4>2. new = old \o ss[n]
        BY <2>7, <3>3
      <4> HIDE DEF old, new
      <4>3. old \in Seq(all) /\ ss[n] \in Seq(all) /\ Len(old) \in Nat
        BY <3>1, <4>1
      <4>4. new \in Seq(all) /\ Len(new) = Len(old) + Len(ss[n])
        BY <4>2, <4>3
      <4>5. ASSUME NEW i \in 1 .. Len(new)
            PROVE  \E m \in 1 .. n : \E j \in 1 .. Len(ss[m]) : new[i] = ss[m][j]
        <5>1. CASE i <= Len(old)
          <6>1. new[i] = old[i] /\ i \in 1 .. Len(old)
            BY <4>2, <4>3, <5>1
          <6>2. PICK m \in 1 .. n - 1 : \E j \in 1 .. Len(ss[m]) : old[i] = ss[m][j]
            BY <4>1, <6>1
          <6>3. m \in 1 .. n
            BY <3>1
          <6> QED
            BY <6>1, <6>2, <6>3
        <5>2. CASE i > Len(old)
          <6>1. new[i] = ss[n][i - Len(old)] /\ i - Len(old) \in 1 .. Len(ss[n])
            BY <3>1, <4>2, <4>3, <4>4, <5>2
          <6>2. n \in 1 .. n
            BY <3>1
          <6> QED
            BY <6>1, <6>2
        <5> QED
          BY <4>3, <4>4, <5>1, <5>2
      <4>6. Good(n, new)
        BY <4>4, <4>5
      <4> HIDE DEF Good
      <4> QED
        BY <1>1, <4>6 DEF new
    <3> QED
      BY <3>2, <3>3
  <2>10. \A n \in 0 .. L : n \in T
    <3> HIDE DEF T, L
    <3> QED
      BY <1>1, <2>8, <2>9, InductionUpTo
  <2>11. Good(L, flat[L])
    <3>1. L \in T
      <4>1. L \in 0 .. L
        BY <1>1
      <4> HIDE DEF T, L
      <4> QED
        BY <2>10, <4>1
    <3> HIDE DEF Good
    <3> QED
      BY <1>3, <3>1
  <2> QED
    BY <2>6, <2>11
<1> QED
  BY <1>2, <1>3

LEMMA LeastExists ==
  ASSUME NEW some \in SUBSET Nat, some # {}
  PROVE  Min(some) \in some /\ \A n \in some : Min(some) <= n
<1> DEFINE R == OpToRel(<, Nat)
<1>1. IsWellFoundedOn(R, Nat)
  BY NatLessThanWellFounded
<1>2. PICK b \in some : \A c \in some : ~ (<<c, b>> \in R)
  <2> HIDE DEF R
  <2> QED
    BY <1>1, WFMin
<1>3. some \subseteq Nat /\ b \in Nat
  OBVIOUS
<1>4. \A c \in some : ~ (c < b)
  BY <1>2, <1>3 DEF OpToRel
<1>5. \A c \in some : b <= c
  BY <1>3, <1>4
<1> HIDE DEF R
<1> QED
  BY <1>5 DEF Min

\* Whatever the scores, all elements of a finite set are ranked, once each, when no two have
\* one place.
LEMMA InScoreOrderIsOrder ==
  ASSUME NEW some, IsFiniteSet(some), NEW score, NEW place,
         \A c \in some : score[c] \in Int /\ place[c] \in Int,
         \A c, d \in some : place[c] = place[d] => c = d
  PROVE  /\ InScoreOrder(some, score, place) \in Seq(some)
         /\ Len(InScoreOrder(some, score, place)) = Cardinality(some)
         /\ \A i, j \in 1 .. Cardinality(some) :
              InScoreOrder(some, score, place)[i] = InScoreOrder(some, score, place)[j] => i = j
<1> DEFINE above == [c \in some |->
             {d \in some : score[d] > score[c] \/ (score[d] = score[c] /\ place[d] < place[c])}]
<1>1. above \in [some -> SUBSET some]
  OBVIOUS
<1>2. \A c, d \in some : d \in above[c] <=> score[d] > score[c] \/ (score[d] = score[c] /\ place[d] < place[c])
  OBVIOUS
<1>3. InScoreOrder(some, score, place) = InOrder(some, above)
  BY DEF InScoreOrder, InOrder
<1> HIDE DEF above
<1>4. \A c \in some : c \notin above[c]
  BY <1>2
<1>5. \A c \in some : \A d \in above[c] : above[d] \subseteq above[c]
  <2> SUFFICES ASSUME NEW c \in some, NEW d \in above[c], NEW e \in above[d] PROVE e \in above[c]
    OBVIOUS
  <2>1. d \in some /\ e \in some
    BY <1>1
  <2> QED
    BY <1>2, <2>1
<1>6. \A c, d \in some : c # d => c \in above[d] \/ d \in above[c]
  <2> SUFFICES ASSUME NEW c \in some, NEW d \in some, c # d PROVE c \in above[d] \/ d \in above[c]
    OBVIOUS
  <2>1. place[c] # place[d]
    OBVIOUS
  <2> QED
    BY <1>2, <2>1
<1> DEFINE o == InOrder(some, above)
<1>7. /\ o \in Seq(some) /\ Len(o) = Cardinality(some)
      /\ \A i, j \in 1 .. Cardinality(some) : o[i] = o[j] => i = j
  BY <1>1, <1>4, <1>5, <1>6, InOrderIsOrder
<1> HIDE DEF o
<1> QED
  BY <1>3, <1>7 DEF o

LEMMA ElementsAreFinite ==
  ASSUME NEW all, NEW s \in Seq(all)
  PROVE  /\ IsFiniteSet(ToSet(s)) /\ ToSet(s) \subseteq all
         /\ \A i \in 1 .. Len(s) : s[i] \in ToSet(s)
         /\ \A c \in ToSet(s) : \E i \in 1 .. Len(s) : s[i] = c
<1>1. Len(s) \in Nat /\ DOMAIN s = 1 .. Len(s)
  OBVIOUS
<1>2. IsFiniteSet(1 .. Len(s))
  BY <1>1, FS_Interval
<1> DEFINE elements == {s[i] : i \in 1 .. Len(s)}
           take == [i \in 1 .. Len(s) |-> s[i]]
<1>3. take \in Surjection(1 .. Len(s), elements)
  BY DEF Surjection
<1>4. ToSet(s) = elements
  BY <1>1 DEF ToSet
<1>5. IsFiniteSet(elements)
  <2> HIDE DEF take, elements
  <2> QED
    BY <1>2, <1>3, FS_Surjection
<1> QED
  BY <1>4, <1>5

\* The first places of different elements of a sequence differ.
LEMMA FirstPlaces ==
  ASSUME NEW all, NEW s \in Seq(all)
  PROVE  /\ \A c \in ToSet(s) : FirstAt(s)[c] \in Int
         /\ \A c, d \in ToSet(s) : FirstAt(s)[c] = FirstAt(s)[d] => c = d
<1> DEFINE at == FirstAt(s)
<1>1. ASSUME NEW c \in ToSet(s)
      PROVE  at[c] \in Nat /\ s[at[c]] = c
  <2> DEFINE places == {i \in DOMAIN s : s[i] = c}
  <2>1. places \in SUBSET Nat /\ places # {}
    BY ElementsAreFinite
  <2>2. Min(places) \in places
    <3> HIDE DEF places
    <3> QED
      BY <2>1, LeastExists
  <2>3. at[c] = Min(places)
    BY DEF FirstAt
  <2> QED
    BY <2>1, <2>2, <2>3
<1> HIDE DEF at
<1>2. \A c, d \in ToSet(s) : at[c] = at[d] => c = d
  <2> SUFFICES ASSUME NEW c \in ToSet(s), NEW d \in ToSet(s), at[c] = at[d] PROVE c = d
    OBVIOUS
  <2> QED
    BY <1>1
<1> QED
  BY <1>1, <1>2 DEF at

\* The candidates by their algo_score are the candidates, once each.
LEMMA ByScoreIsOrder ==
  ASSUME NEW p, Offers(p)
  PROVE  /\ ByScore(p) \in Seq(ToSet(p.candidates))
         /\ Len(ByScore(p)) = Cardinality(ToSet(p.candidates)) /\ Len(ByScore(p)) > 0
         /\ \A i, j \in 1 .. Len(ByScore(p)) : ByScore(p)[i] = ByScore(p)[j] => i = j
<1> DEFINE s == p.candidates
           listed == ToSet(s)
<1>1. s \in Seq(Code) /\ s # <<>> /\ \A c \in listed : p.algo[c] \in Int
  <2>1. s \in Seq(Code) /\ s # <<>> /\ \A c \in listed : p.algo[c] \in 0 .. 100
    BY DEF Offers
  <2>2. ASSUME NEW c \in listed PROVE p.algo[c] \in Int
    <3>1. p.algo[c] \in 0 .. 100
      BY <2>1
    <3> QED
      BY <3>1
  <2> HIDE DEF s, listed
  <2> QED
    BY <2>1, <2>2
<1> HIDE DEF s
<1>2. IsFiniteSet(listed)
  BY <1>1, ElementsAreFinite
<1>3. /\ \A c \in listed : FirstAt(s)[c] \in Int
      /\ \A c, d \in listed : FirstAt(s)[c] = FirstAt(s)[d] => c = d
  BY <1>1, FirstPlaces
<1>4. Cardinality(listed) \in Nat /\ Cardinality(listed) > 0
  <2>1. s[1] \in listed
    BY <1>1, ElementsAreFinite
  <2> HIDE DEF listed
  <2> QED
    BY <1>2, <2>1, FS_CardinalityType, FS_EmptySet
<1> DEFINE o == InScoreOrder(listed, p.algo, FirstAt(s))
<1>5. /\ o \in Seq(listed) /\ Len(o) = Cardinality(listed)
      /\ \A i, j \in 1 .. Cardinality(listed) : o[i] = o[j] => i = j
  <2> HIDE DEF listed
  <2> QED
    BY <1>1, <1>2, <1>3, InScoreOrderIsOrder
<1>6. ByScore(p) = o
  BY DEF ByScore, s
<1> HIDE DEF o
<1> QED
  BY <1>4, <1>5, <1>6 DEF s

Choice(codes) == [code : codes, score : Int]
Ballot(codes) == [code : codes, value : Int]

Rulings(verdicts) == \A c \in DOMAIN verdicts : verdicts[c] \in Ruling

\* A result whose votes are for some of the codes
VotesFor(r, codes) ==
  /\ r.conf \in Int /\ r.picks \in Seq(Choice(codes))
  /\ r.picks = <<>> => r.selected \in Seq(codes)

\* No more than n of the codes, none of them twice
IsPick(s, codes, n) ==
  /\ s \in Seq(codes) /\ Len(s) <= n
  /\ \A i, j \in 1 .. Len(s) : s[i] = s[j] => i = j

LEMMA AdjustedIsNumber ==
  ASSUME NEW w \in Weighings, NEW verdicts, Rulings(verdicts), NEW codes, NEW k \in Choice(codes), NEW a
  PROVE  Adjusted(w, k, a, verdicts) \in Int
<1> DEFINE base == k.score * WeightOf(w, a)
           v == IF k.code \in DOMAIN verdicts THEN verdicts[k.code] ELSE [says |-> "hold"]
<1>1. base \in Int
  <2>1. WeightOf(w, a) \in Int
    BY MeetingConstants DEF WeightOf
  <2>2. k.score \in Int
    BY DEF Choice
  <2> QED
    BY <2>1, <2>2
<1>2. v.says = "buy" => v.conf \in Int
  BY DEF Rulings, Ruling
<1> HIDE DEF base, v
<1>3. v.says = "buy" => base * (1000 + 3 * v.conf) \in Int
  BY <1>1, <1>2
<1>4. base * 500 \in Int /\ base * 1000 \in Int
  BY <1>1
<1>5. Adjusted(w, k, a, verdicts) = CASE v.says = "avoid" -> base * 500
                                      [] v.says = "buy"   -> base * (1000 + 3 * v.conf)
                                      [] OTHER            -> base * 1000
  BY DEF Adjusted, base, v
<1> QED
  BY <1>3, <1>4, <1>5

LEMMA VotesAreBallots ==
  ASSUME NEW w \in Weighings, NEW verdicts, Rulings(verdicts), NEW codes, NEW r, VotesFor(r, codes)
  PROVE  Votes(w, r, verdicts) \in Seq(Ballot(codes))
<1> DEFINE adjusted(k) == Adjusted(w, k, r.agent, verdicts)
           picks == IF r.picks # <<>>
                    THEN [i \in DOMAIN r.picks |-> [code |-> r.picks[i].code, value |-> adjusted(r.picks[i])]]
                    ELSE [i \in DOMAIN r.selected |-> [code |-> r.selected[i], value |-> r.conf * 10000]]
<1>1. r.conf \in Int /\ r.conf * 10000 \in Int
  BY DEF VotesFor
<1>2. \A k \in Choice(codes) : adjusted(k) \in Int
  BY AdjustedIsNumber
<1> HIDE DEF adjusted
<1>3. picks \in Seq(Ballot(codes))
  <2>1. CASE r.picks # <<>>
    <3>1. \A i \in 1 .. Len(r.picks) : r.picks[i] \in Choice(codes)
      BY DEF VotesFor
    <3>2. \A i \in 1 .. Len(r.picks) : [code |-> r.picks[i].code, value |-> adjusted(r.picks[i])] \in Ballot(codes)
      BY <1>2, <3>1 DEF Ballot, Choice
    <3>3. Len(r.picks) \in Nat /\ DOMAIN r.picks = 1 .. Len(r.picks)
      BY DEF VotesFor
    <3> QED
      BY <2>1, <3>2, <3>3
  <2>2. CASE r.picks = <<>>
    <3>1. r.selected \in Seq(codes)
      BY <2>2 DEF VotesFor
    <3>2. \A i \in 1 .. Len(r.selected) : [code |-> r.selected[i], value |-> r.conf * 10000] \in Ballot(codes)
      BY <1>1, <3>1 DEF Ballot
    <3>3. Len(r.selected) \in Nat /\ DOMAIN r.selected = 1 .. Len(r.selected)
      BY <3>1
    <3> QED
      BY <2>2, <3>2, <3>3
  <2> QED
    BY <2>1, <2>2
<1> DEFINE value(i) == (IF picks[i].value = 0 THEN r.conf * 10000 ELSE picks[i].value) * r.conf
<1>4. Votes(w, r, verdicts) = [i \in DOMAIN picks |-> [code |-> picks[i].code, value |-> value(i)]]
  BY DEF Votes, adjusted
<1> HIDE DEF picks
<1>5. DOMAIN picks = 1 .. Len(picks) /\ Len(picks) \in Nat
  BY <1>3
<1>6. \A i \in 1 .. Len(picks) : [code |-> picks[i].code, value |-> value(i)] \in Ballot(codes)
  <2> SUFFICES ASSUME NEW i \in 1 .. Len(picks)
               PROVE  [code |-> picks[i].code, value |-> value(i)] \in Ballot(codes)
    OBVIOUS
  <2>1. picks[i] \in Ballot(codes)
    BY <1>3
  <2>2. picks[i].code \in codes /\ picks[i].value \in Int
    BY <2>1 DEF Ballot
  <2>3. value(i) \in Int
    BY <1>1, <2>2
  <2> QED
    BY <2>2, <2>3 DEF Ballot
<1> HIDE DEF value
<1> QED
  BY <1>4, <1>5, <1>6

LEMMA FirstOfIsPick ==
  ASSUME NEW codes, NEW s \in Seq(codes), NEW n \in Nat, \A i, j \in 1 .. Len(s) : s[i] = s[j] => i = j
  PROVE  IsPick(FirstOf(s, n), codes, n)
<1>1. /\ FirstOf(s, n) \in Seq(codes)
      /\ Len(FirstOf(s, n)) = IF Len(s) < n THEN Len(s) ELSE n
      /\ \A i \in 1 .. Len(FirstOf(s, n)) : i \in 1 .. Len(s) /\ FirstOf(s, n)[i] = s[i]
  BY FirstOfIsPart
<1>2. Len(FirstOf(s, n)) <= n
  BY <1>1
<1> QED
  BY <1>1, <1>2 DEF IsPick

\* What the votes choose are codes that were voted for, each once.
LEMMA AggregatedIsPick ==
  ASSUME NEW p, p.max \in Nat, NEW w \in Weighings, NEW verdicts, Rulings(verdicts), NEW codes,
         NEW heard, \A r \in heard : VotesFor(r, codes), NEW results \in Seq(heard)
  PROVE  IsPick(Aggregated(p, w, results, verdicts), codes, p.max)
<1> DEFINE each == [i \in DOMAIN results |-> Votes(w, results[i], verdicts)]
           votes == FlattenSeq(each)
           named == [i \in DOMAIN votes |-> votes[i].code]
           points(c) == [i \in DOMAIN votes |-> IF votes[i].code = c THEN votes[i].value ELSE 0]
           sum == [c \in ToSet(named) |-> Total(points(c))]
<1>1. votes \in Seq(Ballot(codes))
  <2>1. \A i \in 1 .. Len(results) : Votes(w, results[i], verdicts) \in Seq(Ballot(codes))
    <3> SUFFICES ASSUME NEW i \in 1 .. Len(results) PROVE Votes(w, results[i], verdicts) \in Seq(Ballot(codes))
      OBVIOUS
    <3>1. VotesFor(results[i], codes)
      OBVIOUS
    <3> QED
      BY <3>1, VotesAreBallots
  <2>2. Len(results) \in Nat /\ DOMAIN results = 1 .. Len(results)
    OBVIOUS
  <2>3. each \in Seq(Seq(Ballot(codes)))
    BY <2>1, <2>2
  <2> HIDE DEF each
  <2> QED
    BY <2>3, FlattenedIsPart
<1> HIDE DEF votes
<1>2. Len(votes) \in Nat /\ DOMAIN votes = 1 .. Len(votes)
  BY <1>1
<1>3. \A i \in 1 .. Len(votes) : votes[i].code \in codes /\ votes[i].value \in Int
  <2>1. \A i \in 1 .. Len(votes) : votes[i] \in Ballot(codes)
    BY <1>1
  <2> QED
    BY <2>1 DEF Ballot
<1>4. named \in Seq(codes)
  BY <1>2, <1>3
<1>5. \A c : Total(points(c)) \in Int
  <2> SUFFICES ASSUME NEW c PROVE Total(points(c)) \in Int
    OBVIOUS
  <2>1. points(c) \in Seq(Int)
    BY <1>2, <1>3
  <2> HIDE DEF points
  <2>2. PICK f \in [0 .. Len(points(c)) -> Int] : Total(points(c)) = f[Len(points(c))]
    BY <2>1, TotalSums
  <2>3. Len(points(c)) \in 0 .. Len(points(c))
    BY <2>1
  <2> QED
    BY <2>2, <2>3
<1> HIDE DEF points, named
<1> DEFINE listed == ToSet(named)
           o == InScoreOrder(listed, sum, FirstAt(named))
<1>6. IsFiniteSet(listed) /\ listed \subseteq codes
  BY <1>4, ElementsAreFinite
<1>7. \A c \in listed : sum[c] \in Int /\ FirstAt(named)[c] \in Int
  BY <1>4, <1>5, FirstPlaces
<1>8. \A c, d \in listed : FirstAt(named)[c] = FirstAt(named)[d] => c = d
  BY <1>4, FirstPlaces
<1>9. /\ o \in Seq(listed) /\ Len(o) = Cardinality(listed)
      /\ \A i, j \in 1 .. Cardinality(listed) : o[i] = o[j] => i = j
  <2> HIDE DEF listed, sum
  <2> QED
    BY <1>6, <1>7, <1>8, InScoreOrderIsOrder
<1>10. Aggregated(p, w, results, verdicts) = FirstOf(o, p.max)
  BY DEF Aggregated, votes, named, points
<1> HIDE DEF o
<1>11. o \in Seq(codes)
  <2> HIDE DEF listed
  <2> QED
    BY <1>6, <1>9
<1> QED
  BY <1>9, <1>10, <1>11, FirstOfIsPick

\* A meeting chooses at least one code and no more than asked for, each once.
LEMMA ChosenIsPick ==
  ASSUME NEW p, Offers(p), NEW w \in Weighings, NEW verdicts, Rulings(verdicts), NEW codes,
         ToSet(p.candidates) \subseteq codes,
         NEW heard, \A r \in heard : VotesFor(r, codes), NEW results \in Seq(heard)
  PROVE  /\ IsPick(Chosen(p, w, results, verdicts), codes, p.max)
         /\ Len(Chosen(p, w, results, verdicts)) > 0
<1> DEFINE voted == IF results = <<>> THEN <<>> ELSE Aggregated(p, w, results, verdicts)
           first == FirstOf(ByScore(p), p.max)
<1>1. p.max \in Nat /\ p.max > 0
  BY DEF Offers
<1>2. voted # <<>> => IsPick(voted, codes, p.max)
  BY <1>1, AggregatedIsPick
<1>3. /\ ByScore(p) \in Seq(codes) /\ Len(ByScore(p)) > 0
      /\ \A i, j \in 1 .. Len(ByScore(p)) : ByScore(p)[i] = ByScore(p)[j] => i = j
  <2>1. /\ ByScore(p) \in Seq(ToSet(p.candidates)) /\ Len(ByScore(p)) > 0
        /\ \A i, j \in 1 .. Len(ByScore(p)) : ByScore(p)[i] = ByScore(p)[j] => i = j
    BY ByScoreIsOrder
  <2> DEFINE listed == ToSet(p.candidates)
             o == ByScore(p)
  <2> HIDE DEF listed, o
  <2>2. o \in Seq(codes)
    BY <2>1 DEF listed, o
  <2> QED
    BY <2>1, <2>2 DEF o
<1>4. IsPick(first, codes, p.max)
  BY <1>1, <1>3, FirstOfIsPick
<1>5. Len(first) > 0
  BY <1>1, <1>3, FirstOfIsPart
<1>6. Chosen(p, w, results, verdicts) = IF voted # <<>> THEN voted ELSE first
  BY DEF Chosen
<1>7. voted # <<>> => Len(voted) > 0
  <2> HIDE DEF voted
  <2> QED
    BY <1>2 DEF IsPick
<1> HIDE DEF voted, first
<1> QED
  BY <1>2, <1>4, <1>5, <1>6, <1>7

LEMMA RosterIsOfAgents ==
  ASSUME NEW p, Offers(p)
  PROVE  Roster(p) \in Seq(Agents)
<1> DEFINE liked == Preference[p.model]
           L == Len(liked)
           S == [agents : Seq(Agents), spent : Int]
           first == [agents |-> <<>>, spent |-> 0]
           Step(n, x) == IF /\ Len(x.agents) < Seats(p.reading)
                            /\ x.spent + Cost[liked[n]] <= Purse[p.reading] \/ Len(x.agents) < 2
                         THEN [agents |-> Append(x.agents, liked[n]), spent |-> x.spent + Cost[liked[n]]]
                         ELSE x
           next == [n \in 1 .. L |-> [x \in S |-> Step(n, x)]]
           invited == CHOOSE g : g = [n \in 0 .. L |-> IF n = 0 THEN first ELSE Step(n, g[n - 1])]
<1>1. liked \in Seq(Agents) /\ L \in Nat
  <2>1. p.model \in DOMAIN Preference
    BY DEF Offers
  <2>2. DOMAIN Preference = {"momentum", "mean_reversion", "value_quality", "defensive_low_vol"}
    BY DEF Preference
  <2>3. \A a, b, c \in Agents : <<a, b, c>> \in Seq(Agents)
    OBVIOUS
  <2>4. {"trend_hunter", "contrarian", "quality_agent", "defensive_agent"} \subseteq Agents
    BY DEF Agents
  <2>5. /\ Preference["momentum"] = <<"trend_hunter", "quality_agent", "defensive_agent">>
        /\ Preference["mean_reversion"] = <<"contrarian", "defensive_agent", "quality_agent">>
        /\ Preference["value_quality"] = <<"quality_agent", "defensive_agent", "trend_hunter">>
        /\ Preference["defensive_low_vol"] = <<"defensive_agent", "quality_agent", "contrarian">>
    BY DEF Preference
  <2>6. liked \in Seq(Agents)
    BY <2>1, <2>2, <2>3, <2>4, <2>5
  <2> HIDE DEF liked
  <2> QED
    BY <2>6
<1> HIDE DEF liked
<1>2. first \in S
  OBVIOUS
<1>3. \A n \in 1 .. L, x \in S : Step(n, x) \in S
  <2> SUFFICES ASSUME NEW n \in 1 .. L, NEW x \in S PROVE Step(n, x) \in S
    OBVIOUS
  <2>1. liked[n] \in Agents
    BY <1>1
  <2>2. Cost[liked[n]] \in Int
    BY <2>1 DEF Agents, Cost
  <2>3. [agents |-> Append(x.agents, liked[n]), spent |-> x.spent + Cost[liked[n]]] \in S
    BY <2>1, <2>2
  <2> QED
    BY <2>3
<1>4. next \in [1 .. L -> [S -> S]]
  <2> HIDE DEF Step, S
  <2> QED
    BY <1>3
<1>5. PICK f \in [0 .. L -> S] : Follows(f, L, first, next)
  <2> HIDE DEF L, next, S, first
  <2> QED
    BY <1>1, <1>2, <1>4, RecursionExists
<1>6. f = [n \in 0 .. L |-> IF n = 0 THEN first ELSE Step(n, f[n - 1])]
  <2>1. f[0] = first
    BY <1>5 DEF Follows
  <2>2. ASSUME NEW n \in 0 .. L, n # 0 PROVE f[n] = Step(n, f[n - 1])
    <3>1. n \in 1 .. L /\ n - 1 \in 0 .. L
      BY <1>1, <2>2
    <3>2. f[n] = next[n][f[n - 1]] /\ f[n - 1] \in S
      <4> HIDE DEF next, S, L
      <4> QED
        BY <1>5, <3>1 DEF Follows
    <3> HIDE DEF Step, S
    <3> QED
      BY <3>1, <3>2
  <2> HIDE DEF Step, S, first
  <2> QED
    BY <2>1, <2>2
<1>7. invited = [n \in 0 .. L |-> IF n = 0 THEN first ELSE Step(n, invited[n - 1])]
  <2> HIDE DEF Step, first
  <2> QED
    BY <1>6
<1>8. Roster(p) = invited[L].agents
  BY DEF Roster, Invited, liked
<1> HIDE DEF invited
<1> DEFINE T == {n \in 0 .. L : invited[n] \in S}
<1>9. 0 \in T
  <2>1. invited[0] = first /\ 0 \in 0 .. L
    <3> HIDE DEF Step, first
    <3> QED
      BY <1>1, <1>7
  <2> HIDE DEF first, S
  <2> QED
    BY <1>2, <2>1
<1>10. ASSUME NEW n \in 1 .. L, n - 1 \in T PROVE n \in T
  <2>1. n \in 0 .. L /\ n # 0
    BY <1>1
  <2> HIDE DEF Step, S, first
  <2>2. invited[n] = Step(n, invited[n - 1])
    BY <1>7, <2>1
  <2> QED
    BY <1>3, <1>10, <2>1, <2>2
<1>11. \A n \in 0 .. L : n \in T
  <2> HIDE DEF T, L
  <2> QED
    BY <1>1, <1>9, <1>10, InductionUpTo
<1>12. invited[L] \in S
  <2>1. L \in 0 .. L
    BY <1>1
  <2> HIDE DEF S
  <2> QED
    BY <1>11, <2>1
<1> QED
  BY <1>8, <1>12

\* The results of an agent: there are some when the agent is among the results, and the first
\* is one of its.
LEMMA ResultsOfAgent ==
  ASSUME NEW all, NEW results \in Seq(all), NEW a
  PROVE  LET mine == Those(results, {r \in ToSet(results) : r.agent = a})
         IN  /\ mine # <<>> <=> \E r \in ToSet(results) : r.agent = a
             /\ mine # <<>> => mine[1] \in ToSet(results) /\ mine[1].agent = a
<1> DEFINE some == {r \in ToSet(results) : r.agent = a}
           mine == Those(results, some)
<1> HIDE DEF mine, some
<1>1. /\ mine \in Seq(all \cap some)
      /\ \A j \in DOMAIN results : results[j] \in some => \E i \in DOMAIN mine : mine[i] = results[j]
  BY ThoseAreIn DEF mine
<1>2. \A r : r \in some <=> r \in ToSet(results) /\ r.agent = a
  BY DEF some
<1>3. DOMAIN mine = 1 .. Len(mine) /\ Len(mine) \in Nat /\ DOMAIN results = 1 .. Len(results)
  BY <1>1
<1>4. mine # <<>> => mine[1] \in some
  BY <1>1
<1>5. ASSUME NEW r \in ToSet(results), r.agent = a PROVE mine # <<>>
  <2>1. PICK j \in DOMAIN results : results[j] = r
    BY <1>3, ElementsAreFinite
  <2> QED
    BY <1>1, <1>2, <1>3, <1>5, <2>1
<1> QED
  BY <1>2, <1>4, <1>5 DEF mine, some

\* The results in the roster's order are results.
LEMMA InRosterOrderIsPart ==
  ASSUME NEW p, Offers(p), NEW all, NEW results \in Seq(all)
  PROVE  InRosterOrder(p, results) \in Seq(ToSet(results))
<1> DEFINE mine(a) == Those(results, {r \in ToSet(results) : r.agent = a})
           roster == Roster(p)
           held == {i \in DOMAIN roster : mine(roster[i]) # <<>>}
           numbers == [i \in DOMAIN roster |-> i]
           places == Those(numbers, held)
<1>1. roster \in Seq(Agents)
  BY RosterIsOfAgents
<1> HIDE DEF roster
<1>2. \A a : mine(a) # <<>> => mine(a)[1] \in ToSet(results)
  BY ResultsOfAgent
<1>3. InRosterOrder(p, results) = [n \in DOMAIN places |-> mine(roster[places[n]])[1]]
  BY DEF InRosterOrder, roster
<1> HIDE DEF mine
<1>4. numbers \in Seq(Nat)
  BY <1>1
<1>5. places \in Seq(Nat \cap held)
  <2> HIDE DEF numbers, held
  <2> QED
    BY <1>4, ThoseAreIn
<1> HIDE DEF places
<1>6. DOMAIN places = 1 .. Len(places) /\ Len(places) \in Nat /\ \A n \in 1 .. Len(places) : places[n] \in held
  BY <1>5
<1>7. \A n \in 1 .. Len(places) : mine(roster[places[n]])[1] \in ToSet(results)
  BY <1>2, <1>6
<1> QED
  BY <1>3, <1>6, <1>7

\* With one result of an agent, their order does not matter.
LEMMA WhoeverWasFirst ==
  ASSUME NEW p, Offers(p), NEW all, NEW results \in Seq(all), NEW order \in Seq(all),
         ToSet(order) = ToSet(results),
         \A r, s \in ToSet(results) : r.agent = s.agent => r = s
  PROVE  InRosterOrder(p, order) = InRosterOrder(p, results)
<1> DEFINE mine(a) == Those(results, {r \in ToSet(results) : r.agent = a})
           his(a) == Those(order, {r \in ToSet(order) : r.agent = a})
           roster == Roster(p)
           held == {i \in DOMAIN roster : mine(roster[i]) # <<>>}
           his_held == {i \in DOMAIN roster : his(roster[i]) # <<>>}
           numbers == [i \in DOMAIN roster |-> i]
           places == Those(numbers, held)
           his_places == Those(numbers, his_held)
<1>1. roster \in Seq(Agents)
  BY RosterIsOfAgents
<1> HIDE DEF roster
<1>2. InRosterOrder(p, results) = [n \in DOMAIN places |-> mine(roster[places[n]])[1]]
  BY DEF InRosterOrder, roster
<1>3. InRosterOrder(p, order) = [n \in DOMAIN his_places |-> his(roster[his_places[n]])[1]]
  BY DEF InRosterOrder, roster
<1>4. \A a : /\ mine(a) # <<>> <=> \E r \in ToSet(results) : r.agent = a
             /\ mine(a) # <<>> => mine(a)[1] \in ToSet(results) /\ mine(a)[1].agent = a
  BY ResultsOfAgent
<1>5. \A a : /\ his(a) # <<>> <=> \E r \in ToSet(order) : r.agent = a
             /\ his(a) # <<>> => his(a)[1] \in ToSet(order) /\ his(a)[1].agent = a
  BY ResultsOfAgent
<1> HIDE DEF mine, his
<1>6. \A a : mine(a) # <<>> => mine(a)[1] = his(a)[1]
  BY <1>4, <1>5
<1>7. held = his_held
  BY <1>4, <1>5
<1>8. numbers \in Seq(Nat)
  BY <1>1
<1>9. places \in Seq(Nat \cap held)
  <2> HIDE DEF numbers, held
  <2> QED
    BY <1>8, ThoseAreIn
<1>10. his_places = places
  BY <1>7
<1> HIDE DEF places, his_places
<1>11. \A n \in DOMAIN places : mine(roster[places[n]])[1] = his(roster[places[n]])[1]
  <2>1. \A n \in DOMAIN places : places[n] \in held
    BY <1>9
  <2> QED
    BY <1>6, <2>1
<1> QED
  BY <1>2, <1>3, <1>10, <1>11

Hearing(p) == [agent : Agents, picks : Seq(Choice(ToSet(p.candidates))), conf : Int, selected : Seq(Code)]

LEMMA PickedIsChoice ==
  ASSUME NEW all, NEW codes \in Seq(all), NEW score, \A c \in all : score[c] \in Int
  PROVE  Picked(codes, score) \in Seq(Choice(all))
<1>1. DOMAIN codes = 1 .. Len(codes) /\ Len(codes) \in Nat /\ \A i \in 1 .. Len(codes) : codes[i] \in all
  OBVIOUS
<1>2. \A i \in 1 .. Len(codes) : [code |-> codes[i], score |-> score[codes[i]]] \in Choice(all)
  BY <1>1 DEF Choice
<1> QED
  BY <1>1, <1>2 DEF Picked

LEMMA OfItsElements ==
  ASSUME NEW all, NEW s \in Seq(all)
  PROVE  s \in Seq(ToSet(s))
<1>1. \A i \in 1 .. Len(s) : s[i] \in ToSet(s)
  BY ElementsAreFinite
<1> QED
  BY <1>1, SeqNarrows

LEMMA MoreChoices ==
  ASSUME NEW all, NEW some, some \subseteq all, NEW picks \in Seq(Choice(some))
  PROVE  picks \in Seq(Choice(all))
<1>1. Choice(some) \subseteq Choice(all)
  BY DEF Choice
<1>2. \A i \in 1 .. Len(picks) : picks[i] \in Choice(all)
  <2>1. \A i \in 1 .. Len(picks) : picks[i] \in Choice(some)
    OBVIOUS
  <2> QED
    BY <1>1, <2>1
<1> HIDE DEF Choice
<1> QED
  BY <1>2, SeqNarrows

\* An agent that does not fail is heard with picks of candidates.
LEMMA ResultIsHeard ==
  ASSUME NEW p, Offers(p), NEW a \in Agents, NEW reply \in Replies, Result(a, p, reply) # <<>>
  PROVE  Result(a, p, reply)[1] \in Hearing(p) /\ Result(a, p, reply)[1].agent = a
<1> DEFINE s == Shown(a, p)
           mark == Mark(a, p)
           listed == ToSet(p.candidates)
<1>1. /\ reply.kind \in {"broken", "garbled", "said"} /\ reply.conf \in Int
      /\ reply.picks \in Seq([code : Code, score : Int]) /\ reply.selected \in Seq(Code)
  BY MeetingConstants DEF Reply
<1>2. s \in Seq(listed) /\ s \in Seq(ToSet(s)) /\ ToSet(s) \subseteq listed
  <2>1. p.candidates \in Seq(Code) /\ p.oversold \in Seq(listed)
    BY DEF Offers
  <2>2. p.candidates \in Seq(listed)
    BY <2>1, OfItsElements
  <2>3. s \in Seq(listed)
    BY <2>1, <2>2 DEF Shown
  <2> HIDE DEF s, listed
  <2>4. s \in Seq(ToSet(s))
    BY <2>3, OfItsElements
  <2>5. ToSet(s) \subseteq listed
    BY <2>3, ElementsAreFinite
  <2> QED
    BY <2>3, <2>4, <2>5
<1>3. \A c \in ToSet(s) : mark[c] \in Int
  <2>1. \A c \in ToSet(s) : mark[c] \in 0 .. 100
    BY DEF Offers, Shown, Mark
  <2> DEFINE most == 100
  <2>2. most \in Int /\ \A c \in ToSet(s) : mark[c] \in 0 .. most
    BY <2>1
  <2> HIDE DEF mark, most, s
  <2> QED
    BY <2>2
<1>4. ~Hunter(a) => ToSet(s) = listed
  BY DEF Hunter, Shown
<1>5. ByScore(p) \in Seq(listed)
  BY ByScoreIsOrder
<1> HIDE DEF s, listed, mark
<1> DEFINE codes == IF Hunter(a) THEN FirstOf(s, 5) ELSE FirstOf(ByScore(p), 4)
<1>6. Algorithmic(a, p) \in Hearing(p) /\ Algorithmic(a, p).agent = a
  <2>1. codes \in Seq(ToSet(s))
    BY <1>2, <1>4, <1>5, FirstOfIsPart
  <2> HIDE DEF codes
  <2>2. Picked(codes, mark) \in Seq(Choice(ToSet(s)))
    BY <1>3, <2>1, PickedIsChoice
  <2>3. Picked(codes, mark) \in Seq(Choice(listed))
    BY <1>2, <2>2, MoreChoices
  <2>4. Algorithmic(a, p) = [agent |-> a, picks |-> Picked(codes, mark),
                             conf |-> IF s = <<>> THEN 0 ELSE 50, selected |-> <<>>]
    BY DEF Algorithmic, codes, s, mark
  <2> QED
    BY <2>3, <2>4 DEF Hearing, listed
<1>7. Validated(a, p, reply) \in Hearing(p) /\ Validated(a, p, reply).agent = a
  <2> DEFINE some == {k \in ToSet(reply.picks) : k.code \in ToSet(s)}
             n == IF Hunter(a) THEN 8 ELSE 4
             named == FirstOf(Those(reply.picks, some), n)
             half(x) == IF x = 0 /\ ~Hunter(a) THEN 50 ELSE Clamp(x)
             picks == [i \in DOMAIN named |-> [code |-> named[i].code, score |-> half(named[i].score)]]
             even == [c \in ToSet(s) |-> 50]
  <2>1. named \in Seq([code : Code, score : Int] \cap some)
    <3>1. Those(reply.picks, some) \in Seq([code : Code, score : Int] \cap some)
      <4> DEFINE all == [code : Code, score : Int]
      <4>1. reply.picks \in Seq(all)
        BY <1>1
      <4> HIDE DEF all, some
      <4>2. Those(reply.picks, some) \in Seq(all \cap some)
        BY <4>1, ThoseAreIn
      <4> QED
        BY <4>2 DEF all
    <3> DEFINE all == [code : Code, score : Int] \cap some
    <3>2. n \in Nat
      OBVIOUS
    <3> HIDE DEF all, some, n
    <3> QED
      BY <3>1, <3>2, FirstOfIsPart DEF all
  <2>2. \A x \in Int : half(x) \in Int
    BY DEF Clamp
  <2> HIDE DEF named, half
  <2>3. DOMAIN named = 1 .. Len(named) /\ Len(named) \in Nat
    BY <2>1
  <2>4. \A i \in 1 .. Len(named) : named[i].code \in listed /\ named[i].score \in Int
    <3>1. \A i \in 1 .. Len(named) : named[i] \in [code : Code, score : Int] /\ named[i] \in some
      BY <2>1
    <3> QED
      BY <1>2, <3>1
  <2>5. picks \in Seq(Choice(listed))
    <3>1. \A i \in 1 .. Len(named) : [code |-> named[i].code, score |-> half(named[i].score)] \in Choice(listed)
      BY <2>2, <2>4 DEF Choice
    <3> QED
      BY <2>3, <3>1
  <2>6. half(reply.conf) \in Int
    BY <1>1, <2>2
  <2>7. Picked(FirstOf(s, 3), even) \in Seq(Choice(listed))
    <3>1. FirstOf(s, 3) \in Seq(ToSet(s))
      BY <1>2, FirstOfIsPart
    <3>2. \A c \in ToSet(s) : even[c] \in Int
      OBVIOUS
    <3> HIDE DEF even
    <3>3. Picked(FirstOf(s, 3), even) \in Seq(Choice(ToSet(s)))
      BY <3>1, <3>2, PickedIsChoice
    <3> QED
      BY <1>2, <3>3, MoreChoices
  <2>8. Validated(a, p, reply) =
          IF Hunter(a) /\ named = <<>>
          THEN [agent |-> a, picks |-> Picked(FirstOf(s, 3), even), conf |-> 50, selected |-> <<>>]
          ELSE [agent |-> a, picks |-> picks, conf |-> half(reply.conf), selected |-> reply.selected]
    BY DEF Validated, named, half, s
  <2> HIDE DEF picks, even
  <2> QED
    BY <1>1, <2>5, <2>6, <2>7, <2>8 DEF Hearing, listed
<1>8. Result(a, p, reply) = <<Algorithmic(a, p)>> \/ Result(a, p, reply) = <<Validated(a, p, reply)>>
  BY <1>1 DEF Result
<1> QED
  BY <1>6, <1>7, <1>8

\* A plan has the chosen codes in their order, no weight below 0, and keeps some cash.
LEMMA PlannedIsSized ==
  ASSUME NEW p, Offers(p), p.under \in Regimes \cup {"unknown"},
         NEW codes \in Seq(Code), Len(codes) > 0
  PROVE  LET plan == Planned(p, codes)
         IN  /\ plan.positions \in Seq(Sized) /\ Len(plan.positions) = Len(codes)
             /\ \A i \in 1 .. Len(codes) : plan.positions[i].code = codes[i]
             /\ plan.cash \in 0 .. Whole
<1> DEFINE budget == Allowance[p.under]
           cash == Lesser(budget.cash, 7000)
           available == Whole - cash
           x == Lesser(budget.size * Len(codes), available)
           default == Rounded(x, Len(codes), 10)
           hinted(c) == c \in DOMAIN p.hint /\ p.hint[c] > 0
           weight(c) == Lesser(IF hinted(c) THEN p.hint[c] ELSE default, available)
<1>1. budget \in Allowed
  BY MeetingConstants
<1> HIDE DEF budget
<1>2. budget.size \in Nat /\ budget.cash \in 0 .. Whole
  BY <1>1 DEF Allowed
<1>3. cash \in 0 .. 7000
  <2> DEFINE kept == budget.cash
             most == 7000
             all == Whole
  <2>1. kept \in 0 .. all
    BY <1>2
  <2>3. all \in Nat /\ most \in Nat
    BY DEF Whole
  <2> HIDE DEF kept, most, all
  <2>2. Lesser(kept, most) \in 0 .. most
    BY <2>1, <2>3 DEF Lesser
  <2> QED
    BY <2>2 DEF kept, most
<1>4. available \in Nat /\ cash \in 0 .. Whole
  <2> HIDE DEF cash
  <2> QED
    BY <1>3 DEF Whole
<1>5. Len(codes) \in Nat /\ DOMAIN codes = 1 .. Len(codes)
  OBVIOUS
<1> HIDE DEF cash, available
<1>6. x \in Nat
  <2>1. budget.size * Len(codes) \in Nat
    BY <1>2, <1>5
  <2> QED
    BY <1>4, <2>1 DEF Lesser
<1> HIDE DEF x
<1>7. default \in Nat
  <2> DEFINE top == 2 * x + Len(codes) * 10
             bottom == 2 * Len(codes) * 10
  <2>1. top \in Nat /\ bottom \in Nat /\ bottom > 0
    BY <1>5, <1>6
  <2>2. default = (top \div bottom) * 10
    BY DEF Rounded
  <2> HIDE DEF top, bottom, default
  <2>3. top \div bottom \in Nat
    BY <2>1, NaturalQuotient
  <2> QED
    BY <2>2, <2>3
<1> HIDE DEF default
<1>8. \A c : weight(c) \in Nat
  <2> SUFFICES ASSUME NEW c PROVE weight(c) \in Nat
    OBVIOUS
  <2>1. hinted(c) => p.hint[c] \in Nat
    BY DEF Offers
  <2> HIDE DEF hinted
  <2> QED
    BY <1>4, <1>7, <2>1 DEF Lesser
<1>9. Planned(p, codes) = [positions |-> [i \in DOMAIN codes |-> [code |-> codes[i], weight |-> weight(codes[i])]],
                           cash |-> cash]
  BY DEF Planned, cash, available, x, default, budget
<1> HIDE DEF weight
<1> DEFINE ps == [i \in DOMAIN codes |-> [code |-> codes[i], weight |-> weight(codes[i])]]
<1>10. \A i \in 1 .. Len(codes) : ps[i] = [code |-> codes[i], weight |-> weight(codes[i])] /\ ps[i] \in Sized
  BY <1>5, <1>8 DEF Sized
<1>11. ps \in Seq(Sized) /\ Len(ps) = Len(codes) /\ \A i \in 1 .. Len(codes) : ps[i].code = codes[i]
  BY <1>5, <1>10
<1> HIDE DEF ps
<1>12. Planned(p, codes).positions = ps /\ Planned(p, codes).cash = cash
  BY <1>9 DEF ps
<1> QED
  BY <1>4, <1>11, <1>12

LEMMA SizedSequence ==
  ASSUME NEW n \in Nat, NEW s, s = [i \in 1 .. n |-> s[i]], \A i \in 1 .. n : s[i] \in Sized
  PROVE  s \in Seq(Sized) /\ Len(s) = n
<1> DEFINE all == Sized
<1> HIDE DEF all
<1>1. s \in [1 .. n -> all]
  BY DEF all
<1>2. s \in Seq(all) /\ Len(s) = n
  BY <1>1
<1> QED
  BY <1>2 DEF all

\* A plan that is cut to a budget keeps within it.
LEMMA CutToIsFunded ==
  ASSUME NEW p, p.positions \in Seq(Sized), p.cash \in 0 .. Whole, NEW budget \in Allowed
  PROVE  LET cut == CutTo(p, budget)
         IN  /\ cut.positions \in Seq(Position) /\ Len(cut.positions) <= budget.max
             /\ cut.cash \in 0 .. Whole /\ cut.cash >= budget.cash
             /\ 2 * (Total(Weights(cut.positions)) + cut.cash - Whole) <= Len(cut.positions)
             /\ \A i \in 1 .. Len(cut.positions) :
                  cut.positions[i].weight <= budget.size /\ Strong(cut.positions[i], budget)
<1> DEFINE ps == p.positions
           strong == {q \in ToSet(ps) : Strong(q, budget)}
           some == Those(ps, strong)
           kept == FirstOf(some, budget.max)
           small == [i \in DOMAIN kept |->
                      [code |-> kept[i].code, weight |-> Lesser(kept[i].weight, budget.size)]]
           cash == Larger(p.cash, budget.cash)
           cap == Whole - cash
           cut == Scaled(small, cap)
<1>1. CutTo(p, budget) = [positions |-> cut, cash |-> cash]
  BY DEF CutTo
<1> DEFINE max == budget.max
           size == budget.size
           reserve == budget.cash
<1>2. max \in Nat /\ size \in Nat /\ reserve \in 0 .. Whole
  BY DEF Allowed
<1>3. cash \in 0 .. Whole /\ cash >= reserve /\ cap \in Nat
  <2> DEFINE all == Whole
             own == p.cash
  <2>1. all \in Nat
    BY DEF Whole
  <2>2. reserve \in 0 .. all /\ own \in 0 .. all
    BY <1>2
  <2> HIDE DEF all, own, reserve
  <2>3. /\ Larger(own, reserve) \in 0 .. all /\ Larger(own, reserve) >= reserve
        /\ all - Larger(own, reserve) \in Nat
    BY <2>1, <2>2 DEF Larger
  <2> QED
    BY <2>3 DEF all, own, reserve
<1> HIDE DEF cash, cap
<1>4. some \in Seq(Sized \cap strong)
  <2> HIDE DEF strong, ps
  <2>1. ps \in Seq(Sized)
    BY DEF ps
  <2> QED
    BY <2>1, ThoseAreIn
<1> HIDE DEF some
<1>5. kept \in Seq(Sized \cap strong) /\ Len(kept) <= max
  <2> DEFINE both == Sized \cap strong
  <2>1. some \in Seq(both) /\ max \in Nat
    BY <1>2, <1>4
  <2> HIDE DEF both, max
  <2>2. FirstOf(some, max) \in Seq(both) /\ Len(FirstOf(some, max)) = IF Len(some) < max THEN Len(some) ELSE max
    BY <2>1, FirstOfIsPart
  <2>3. Len(FirstOf(some, max)) <= max
    BY <2>1, <2>2
  <2> QED
    BY <2>2, <2>3 DEF both, max
<1> HIDE DEF kept
<1>6. DOMAIN kept = 1 .. Len(kept) /\ Len(kept) \in Nat
  BY <1>5
<1>7. \A i \in 1 .. Len(kept) : /\ kept[i].code \in Code /\ kept[i].weight \in Nat
                                 /\ Strong(kept[i], budget)
  <2>1. \A i \in 1 .. Len(kept) : kept[i] \in Sized /\ kept[i] \in strong
    BY <1>5
  <2> QED
    BY <2>1 DEF Sized
<1> DEFINE codes == [i \in 1 .. Len(kept) |-> kept[i].code]
           limited == [i \in 1 .. Len(kept) |-> Lesser(kept[i].weight, size)]
<1>8. \A i \in 1 .. Len(kept) : limited[i] \in Nat /\ limited[i] <= size
  <2> HIDE DEF size
  <2>1. \A n \in Nat : Lesser(n, size) \in Nat /\ Lesser(n, size) <= size
    BY <1>2 DEF size, Lesser
  <2> QED
    BY <1>7, <2>1
<1>9. /\ small \in Seq(Sized) /\ Len(small) = Len(kept)
      /\ \A i \in 1 .. Len(kept) : small[i].code = codes[i] /\ small[i].weight = limited[i]
  <2>1. \A i \in 1 .. Len(kept) : small[i] = [code |-> codes[i], weight |-> limited[i]]
    BY <1>6
  <2>2. codes \in [1 .. Len(kept) -> Code]
    BY <1>7
  <2>3. limited \in [1 .. Len(kept) -> Nat]
    BY <1>8
  <2>4. small = [i \in 1 .. Len(kept) |-> small[i]]
    BY <1>6
  <2> HIDE DEF codes, limited, small
  <2>5. ASSUME NEW i \in 1 .. Len(kept)
        PROVE  small[i] \in Sized /\ small[i].code = codes[i] /\ small[i].weight = limited[i]
    <3> DEFINE c == codes[i]
               w == limited[i]
    <3>1. c \in Code /\ w \in Nat
      BY <2>2, <2>3
    <3>2. small[i] = [code |-> c, weight |-> w]
      BY <2>1
    <3> HIDE DEF c, w
    <3>3. small[i].code = c /\ small[i].weight = w /\ small[i] \in Sized
      BY <3>1, <3>2 DEF Sized
    <3> QED
      BY <3>3 DEF c, w
  <2>6. small \in Seq(Sized) /\ Len(small) = Len(kept)
    BY <1>6, <2>4, <2>5, SizedSequence
  <2> QED
    BY <2>5, <2>6
<1>16. \A i \in 1 .. Len(kept) : codes[i] = kept[i].code
  OBVIOUS
<1> HIDE DEF codes, limited
<1> HIDE DEF small
<1>10. /\ cut \in Seq(Position) /\ Len(cut) = Len(small)
       /\ \A i \in 1 .. Len(small) : cut[i].code = small[i].code /\ cut[i].weight <= small[i].weight
       /\ 2 * (Total(Weights(cut)) - cap) <= Len(small)
  BY <1>3, <1>9, ScaledIsFunded
<1> HIDE DEF cut
<1> DEFINE spent == Total(Weights(cut))
<1>11. \A i \in 1 .. Len(cut) : cut[i].weight <= size /\ Strong(cut[i], budget)
  <2> SUFFICES ASSUME NEW i \in 1 .. Len(cut) PROVE cut[i].weight <= size /\ Strong(cut[i], budget)
    OBVIOUS
  <2>1. i \in 1 .. Len(kept) /\ i \in 1 .. Len(small)
    BY <1>9, <1>10
  <2>2. cut[i].weight <= small[i].weight /\ cut[i].code = kept[i].code
    <3>1. small[i].code = kept[i].code
      BY <1>9, <1>16, <2>1
    <3> QED
      BY <1>10, <2>1, <3>1
  <2>3. small[i].weight \in Nat /\ small[i].weight <= size
    BY <1>8, <1>9, <2>1
  <2>4. cut[i] \in Position
    BY <1>10
  <2>5. Strong(cut[i], budget)
    BY <1>7, <2>1, <2>2 DEF Strong
  <2>6. cut[i].weight <= size
    <3> DEFINE x == cut[i].weight
               y == small[i].weight
    <3>1. x \in Int /\ y \in Nat /\ size \in Nat /\ x <= y /\ y <= size
      BY <1>2, <2>2, <2>3, <2>4 DEF Position
    <3> HIDE DEF x, y, size
    <3>2. x <= size
      BY <3>1
    <3> QED
      BY <3>2 DEF x
  <2> QED
    BY <2>5, <2>6
<1>12. Weights(cut) \in Seq(Int)
  <2>1. DOMAIN cut = 1 .. Len(cut) /\ Len(cut) \in Nat
    BY <1>10
  <2>2. \A i \in 1 .. Len(cut) : cut[i].weight \in Int
    <3>1. \A i \in 1 .. Len(cut) : cut[i] \in Position
      BY <1>10
    <3> QED
      BY <3>1 DEF Position
  <2> QED
    BY <2>1, <2>2 DEF Weights
<1>13. spent \in Int
  <2> DEFINE ws == Weights(cut)
  <2> HIDE DEF ws
  <2>1. PICK f \in [0 .. Len(ws) -> Int] : Total(ws) = f[Len(ws)]
    BY <1>12, TotalSums DEF ws
  <2>2. Len(ws) \in 0 .. Len(ws)
    BY <1>12 DEF ws
  <2> QED
    BY <2>1, <2>2 DEF ws
<1>14. 2 * (spent + cash - Whole) <= Len(cut)
  <2> HIDE DEF spent
  <2>1. 2 * (spent - cap) <= Len(cut)
    BY <1>10 DEF spent
  <2>2. cap = Whole - cash /\ Whole \in Int /\ cash \in Int
    BY <1>3 DEF cap, Whole
  <2> QED
    BY <1>13, <2>1, <2>2
<1>15. Len(cut) <= max
  <2> HIDE DEF max
  <2> QED
    BY <1>2, <1>5, <1>9, <1>10
<1> QED
  BY <1>1, <1>3, <1>10, <1>11, <1>14, <1>15

Reading == Regimes \cup {"unknown"}

\* The stocks that only a specialist's reply lists, all of whose picks were rejected
Loose == UNION {ToSet(r.selected) : r \in {x \in ToSet(arrived) : x.picks = <<>>}}

\* The regime that was read is the one whose budget is in force, and in whose parameters the
\* model's output was made.
ReadInItsBudget ==
  /\ round = "read" => profile = asked /\ packet.under = asked
  /\ round \notin {"routed", "read"} =>
       /\ Inferred # "unknown" => profile = Inferred
       /\ Allowance[packet.under] = Allowance[profile]

\* Each agent is heard at most once, and not while its thread runs.
HeardOnce ==
  /\ round \in {"routed", "read"} => arrived = <<>>
  /\ running \subseteq Agents
  /\ arrived \in Seq(Hearing(packet))
  /\ \A i, j \in 1 .. Len(arrived) : arrived[i].agent = arrived[j].agent => i = j
  /\ \A i \in 1 .. Len(arrived) : arrived[i].agent \notin running

MeetingInv ==
  /\ round \in {"routed", "read", "agents", "debates", "failed", "planned", "skipped", "selected"}
  /\ asked \in Reading /\ profile \in Reading
  /\ Offers(packet) /\ packet.under \in Reading
  /\ weighing \in Weighings
  /\ ReadInItsBudget
  /\ HeardOnce
  /\ Rulings(debated)
  /\ tplan.cash \in 0 .. Whole
  /\ round = "planned" => tplan = Planned(packet, Meant(arrived))
  /\ PlanIsFunded

\* The parameters in which a model is run change nothing of what it offers.
LEMMA UnderOffers ==
  ASSUME NEW p, Offers(p), NEW regime \in Reading
  PROVE  /\ Offers(Under(p, regime)) /\ Under(p, regime).under = regime
         /\ Under(p, regime).reading = p.reading
<1> DEFINE q == Under(p, regime)
           fields == {"model", "reading", "candidates", "algo", "score", "hint", "max", "data",
                      "oversold", "rebound"}
<1>1. fields \subseteq DOMAIN p
  BY DEF Offers
<1>2. DOMAIN q = DOMAIN p \cup {"under"} /\ q["under"] = regime /\ \A f \in fields : q[f] = p[f]
  BY <1>1 DEF Under
<1> HIDE DEF q
<1>3. /\ q.model = p.model /\ q.reading = p.reading /\ q.candidates = p.candidates
      /\ q.algo = p.algo /\ q.hint = p.hint /\ q.max = p.max /\ q.under = regime
      /\ q.oversold = p.oversold /\ q.rebound = p.rebound
  BY <1>2
<1>4. fields \subseteq DOMAIN q
  BY <1>1, <1>2
<1>5. Offers(q)
  BY <1>3, <1>4 DEF Offers
<1> QED
  BY <1>3, <1>5 DEF q

\* What a meeting chooses on its results: codes of candidates, or of the loose ones.
LEMMA MeantIsPick ==
  ASSUME MeetingInv
  PROVE  /\ IsPick(Meant(arrived), ToSet(packet.candidates) \cup Loose, packet.max)
         /\ Len(Meant(arrived)) > 0
         /\ ToSet(packet.candidates) \cup Loose \subseteq Code
<1> DEFINE listed == ToSet(packet.candidates)
           codes == listed \cup Loose
           heard == ToSet(arrived)
           results == InRosterOrder(packet, arrived)
<1>1. arrived \in Seq(Hearing(packet)) /\ Offers(packet) /\ weighing \in Weighings /\ Rulings(debated)
  BY DEF MeetingInv, HeardOnce
<1>2. \A r \in heard : r \in Hearing(packet)
  BY <1>1, ElementsAreFinite
<1>3. results \in Seq(heard)
  BY <1>1, InRosterOrderIsPart
<1> HIDE DEF heard
<1>4. ASSUME NEW r \in heard PROVE VotesFor(r, codes)
  <2>1. r.conf \in Int /\ r.picks \in Seq(Choice(listed)) /\ r.selected \in Seq(Code)
    BY <1>2 DEF Hearing
  <2>2. r.picks \in Seq(Choice(codes))
    <3>1. Choice(listed) \subseteq Choice(codes)
      BY DEF Choice
    <3> DEFINE all == Choice(listed)
               more == Choice(codes)
    <3> HIDE DEF all, more
    <3>2. r.picks \in Seq(all) /\ all \subseteq more
      BY <2>1, <3>1 DEF all, more
    <3>3. r.picks \in Seq(more)
      BY <3>2
    <3> QED
      BY <3>3 DEF more
  <2>3. ASSUME r.picks = <<>> PROVE r.selected \in Seq(codes)
    <3>1. \A i \in 1 .. Len(r.selected) : r.selected[i] \in ToSet(r.selected)
      BY <2>1, ElementsAreFinite
    <3>2. ToSet(r.selected) \subseteq codes
      BY <2>3 DEF Loose, heard
    <3> HIDE DEF codes
    <3>3. \A i \in 1 .. Len(r.selected) : r.selected[i] \in codes
      BY <3>1, <3>2
    <3> QED
      BY <2>1, <3>3, SeqNarrows
  <2> QED
    BY <2>1, <2>2, <2>3 DEF VotesFor
<1>5. codes \subseteq Code
  <2>1. listed \subseteq Code
    BY <1>1, ElementsAreFinite DEF Offers
  <2>2. Loose \subseteq Code
    <3> SUFFICES ASSUME NEW r \in ToSet(arrived) PROVE ToSet(r.selected) \subseteq Code
      BY DEF Loose
    <3>1. r.selected \in Seq(Code)
      BY <1>2 DEF Hearing, heard
    <3> QED
      BY <3>1, ElementsAreFinite
  <2> QED
    BY <2>1, <2>2
<1>6. IsPick(Chosen(packet, weighing, results, debated), codes, packet.max)
      /\ Len(Chosen(packet, weighing, results, debated)) > 0
  <2>1. listed \subseteq codes
    OBVIOUS
  <2> HIDE DEF codes, results
  <2> QED
    BY <1>1, <1>3, <1>4, <2>1, ChosenIsPick
<1> QED
  BY <1>5, <1>6 DEF Meant

\* Before it is cut, a plan has positions that the cut can be applied to.
LEMMA PlanIsSized ==
  ASSUME MeetingInv, round = "planned"
  PROVE  /\ tplan.positions \in Seq(Sized) /\ Len(tplan.positions) = Len(Meant(arrived))
         /\ \A i \in 1 .. Len(Meant(arrived)) : tplan.positions[i].code = Meant(arrived)[i]
         /\ tplan.cash \in 0 .. Whole
<1>1. Meant(arrived) \in Seq(Code) /\ Len(Meant(arrived)) > 0
  <2> DEFINE codes == ToSet(packet.candidates) \cup Loose
             m == Meant(arrived)
  <2>1. m \in Seq(codes) /\ Len(m) > 0 /\ codes \subseteq Code
    BY MeantIsPick DEF IsPick
  <2> HIDE DEF codes, m
  <2>2. m \in Seq(Code)
    BY <2>1
  <2> QED
    BY <2>1, <2>2 DEF m
<1>2. Offers(packet) /\ packet.under \in Regimes \cup {"unknown"} /\ tplan = Planned(packet, Meant(arrived))
  BY DEF MeetingInv, Reading
<1> QED
  BY <1>1, <1>2, PlannedIsSized

LEMMA MeetingStarts == MeetingInit => MeetingInv
<1> SUFFICES ASSUME MeetingInit PROVE MeetingInv
  OBVIOUS
<1> USE DEF MeetingInit
<1>1. asked \in Reading /\ profile \in Reading
  BY DEF Reading, Regimes
<1>2. Offers(packet) /\ packet.under \in Reading
  <2>1. PICK p \in Packets : packet = Under(p, "unknown")
    OBVIOUS
  <2>2. "unknown" \in Reading
    BY DEF Reading
  <2> QED
    BY <2>1, <2>2, PacketsOffer, UnderOffers
<1>3. HeardOnce
  <2>1. <<>> \in Seq(Hearing(packet)) /\ Len(<<>>) = 0
    OBVIOUS
  <2> QED
    BY <2>1 DEF HeardOnce
<1>4. Rulings(debated)
  BY DEF Rulings
<1>5. tplan.cash \in 0 .. Whole
  BY DEF NoPlan, Whole
<1> QED
  BY <1>1, <1>2, <1>3, <1>4, <1>5 DEF MeetingInv, ReadInItsBudget, PlanIsFunded

\* The model that nobody had routed may be run again in the budget that it reads for itself.
LEMMA ReadingKeepsBudget ==
  ASSUME MeetingInv, ModelRuns \/ MeetingBegins
  PROVE  /\ ReadInItsBudget' /\ Offers(packet)' /\ (packet.under \in Reading)'
         /\ (profile \in Reading)'
<1> USE DEF MeetingInv
<1>1. CASE ModelRuns
  <2>1. packet' = Under(packet, asked) /\ profile' = asked /\ round' = "read" /\ asked' = asked
    BY <1>1 DEF ModelRuns
  <2>2. Offers(packet') /\ packet'.under = asked
    BY <2>1, UnderOffers
  <2> QED
    BY <2>1, <2>2 DEF ReadInItsBudget
<1>2. CASE MeetingBegins
  <2>1. profile = asked /\ packet.under = asked
    BY <1>2 DEF MeetingBegins, ReadInItsBudget
  <2>2. round' = "agents" /\ asked' = asked
    BY <1>2 DEF MeetingBegins
  <2>3. Offers(packet) /\ asked \in Reading /\ Inferred \in Reading
    BY DEF Offers, Reading, Inferred
  <2>4. CASE UNCHANGED <<profile, packet>> /\ Inferred \in {"unknown", profile}
    <3>1. Inferred' = Inferred
      BY <2>2, <2>4 DEF Inferred
    <3> QED
      BY <2>1, <2>2, <2>3, <2>4, <3>1 DEF ReadInItsBudget
  <2>5. CASE BudgetRefreshed
    <3>1. profile' = Inferred /\ Inferred # "unknown"
      BY <2>5 DEF BudgetRefreshed
    <3>2. CASE Allowance[Inferred] # Allowance[profile]
      <4>1. packet' = Under(packet, Inferred)
        BY <2>5, <3>2 DEF BudgetRefreshed
      <4>2. Offers(packet') /\ packet'.under = Inferred /\ packet'.reading = packet.reading
        BY <2>3, <4>1, UnderOffers
      <4>3. Inferred' = Inferred
        BY <2>2, <4>2 DEF Inferred
      <4> QED
        BY <2>2, <2>3, <3>1, <4>2, <4>3 DEF ReadInItsBudget
    <3>3. CASE Allowance[Inferred] = Allowance[profile]
      <4>1. packet' = packet
        BY <2>5, <3>3 DEF BudgetRefreshed
      <4>2. Inferred' = Inferred
        BY <2>2, <4>1 DEF Inferred
      <4> QED
        BY <2>1, <2>2, <2>3, <3>1, <3>3, <4>1, <4>2 DEF ReadInItsBudget
    <3> QED
      BY <3>2, <3>3
  <2> QED
    BY <1>2, <2>4, <2>5 DEF MeetingBegins
<1> QED
  BY <1>1, <1>2

\* A thread that ends is heard once.
LEMMA AgentIsHeardOnce ==
  ASSUME MeetingInv, NEW a \in running, NEW reply \in Replies, AgentDone(a, reply)
  PROVE  HeardOnce'
<1> DEFINE found == Result(a, packet, reply)
           h == found[1]
           all == Hearing(packet)
<1>1. /\ running' = running \ {a} /\ packet' = packet /\ round' \notin {"routed", "read"}
      /\ found = <<>> => arrived' = arrived
      /\ found # <<>> => arrived' = Append(arrived, h)
  BY DEF AgentDone
<1>2. /\ running \subseteq Agents /\ arrived \in Seq(all) /\ Offers(packet)
      /\ \A i, j \in 1 .. Len(arrived) : arrived[i].agent = arrived[j].agent => i = j
      /\ \A i \in 1 .. Len(arrived) : arrived[i].agent \notin running
  BY DEF MeetingInv, HeardOnce
<1>3. found # <<>> => h \in all /\ h.agent = a
  BY <1>2, ResultIsHeard
<1> HIDE DEF found, h, all
<1>4. CASE found = <<>>
  <2>1. arrived' = arrived
    BY <1>1, <1>4
  <2> QED
    BY <1>1, <1>2, <2>1 DEF HeardOnce, all
<1>5. CASE found # <<>>
  <2>1. arrived' = Append(arrived, h) /\ h \in all /\ h.agent = a
    BY <1>1, <1>3, <1>5
  <2> DEFINE n == Len(arrived)
  <2>2. /\ n \in Nat /\ arrived' \in Seq(all) /\ Len(arrived') = n + 1 /\ arrived'[n + 1] = h
        /\ \A i \in 1 .. n : arrived'[i] = arrived[i]
    BY <1>2, <2>1
  <2> HIDE DEF n
  <2>3. \A i \in 1 .. n : arrived'[i].agent # a
    BY <1>2, <2>2 DEF n
  <2>4. ASSUME NEW i \in 1 .. n + 1, NEW j \in 1 .. n + 1, arrived'[i].agent = arrived'[j].agent
        PROVE  i = j
    <3>1. CASE i \in 1 .. n /\ j \in 1 .. n
      BY <1>2, <2>2, <2>4, <3>1 DEF n
    <3>2. CASE i = n + 1 /\ j \in 1 .. n
      BY <2>1, <2>2, <2>3, <2>4, <3>2
    <3>3. CASE i \in 1 .. n /\ j = n + 1
      BY <2>1, <2>2, <2>3, <2>4, <3>3
    <3>4. CASE i = n + 1 /\ j = n + 1
      BY <3>4
    <3>5. (i \in 1 .. n \/ i = n + 1) /\ (j \in 1 .. n \/ j = n + 1)
      BY <2>2
    <3> QED
      BY <3>1, <3>2, <3>3, <3>4, <3>5
  <2>5. ASSUME NEW i \in 1 .. n + 1 PROVE arrived'[i].agent \notin running'
    <3>1. CASE i \in 1 .. n
      BY <1>1, <1>2, <2>2, <3>1 DEF n
    <3>2. CASE i = n + 1
      BY <1>1, <2>1, <2>2, <3>2
    <3> QED
      BY <2>2, <3>1, <3>2
  <2> QED
    BY <1>1, <1>2, <2>2, <2>4, <2>5 DEF HeardOnce, all
<1> QED
  BY <1>4, <1>5

\* The cut leaves a plan that is funded.
LEMMA CutIsFunded ==
  ASSUME MeetingInv, PlanCut
  PROVE  PlanIsFunded' /\ (tplan.cash \in 0 .. Whole)'
<1>1. PICK budget : budget = Allowance[profile]
  OBVIOUS
<1> DEFINE cut == CutTo(tplan, budget)
<1>2. /\ round = "planned" /\ tplan' = cut
      /\ asked' = asked /\ profile' = profile /\ packet' = packet
  BY <1>1 DEF PlanCut
<1>3. budget \in Allowed
  BY <1>1, MeetingConstants DEF MeetingInv, Reading
<1>4. tplan.positions \in Seq(Sized) /\ tplan.cash \in 0 .. Whole
  BY <1>2, PlanIsSized
<1>5. /\ cut.positions \in Seq(Position) /\ Len(cut.positions) <= budget.max
      /\ cut.cash \in 0 .. Whole /\ cut.cash >= budget.cash
      /\ 2 * (Total(Weights(cut.positions)) + cut.cash - Whole) <= Len(cut.positions)
      /\ \A i \in 1 .. Len(cut.positions) :
           cut.positions[i].weight <= budget.size /\ Strong(cut.positions[i], budget)
  BY <1>3, <1>4, CutToIsFunded
<1> HIDE DEF cut
<1>6. \A q \in ToSet(cut.positions) : q.weight <= budget.size /\ Strong(q, budget)
  BY <1>5, ElementsAreFinite
<1>7. \A q \in ToSet(cut.positions) : q.weight <= budget.size /\ Strong(q, budget)'
  BY <1>2, <1>6 DEF Strong
<1>8. /\ Inferred # "unknown" => profile = Inferred
      /\ Allowance[packet.under] = budget
  BY <1>1, <1>2 DEF MeetingInv, ReadInItsBudget
<1>9. Inferred' = Inferred /\ Allowance[profile'] = budget
  BY <1>1, <1>2 DEF Inferred
<1> QED
  BY <1>2, <1>5, <1>7, <1>8, <1>9 DEF PlanIsFunded

LEMMA MeetingStep == MeetingInv /\ [MeetingNext]_meetingVars => MeetingInv'
<1> SUFFICES ASSUME MeetingInv, [MeetingNext]_meetingVars PROVE MeetingInv'
  OBVIOUS
<1>1. CASE ModelRuns
  <2>1. /\ round' = "read" /\ asked' = asked /\ weighing' = weighing /\ running' = running
        /\ arrived' = arrived /\ debated' = debated /\ tplan' = tplan /\ arrived = <<>>
    BY <1>1 DEF ModelRuns, MeetingInv, HeardOnce
  <2>2. HeardOnce'
    <3>1. <<>> \in Seq(Hearing(packet')) /\ Len(<<>>) = 0
      OBVIOUS
    <3> QED
      BY <2>1, <3>1 DEF MeetingInv, HeardOnce
  <2> QED
    BY <1>1, <2>1, <2>2, ReadingKeepsBudget DEF MeetingInv, PlanIsFunded
<1>2. CASE MeetingBegins
  <2>1. /\ round' = "agents" /\ asked' = asked /\ weighing' = weighing
        /\ arrived' = arrived /\ debated' = debated /\ tplan' = tplan /\ arrived = <<>>
        /\ running' = ToSet(Roster(packet))
    BY <1>2 DEF MeetingBegins, MeetingInv, HeardOnce
  <2>2. HeardOnce'
    <3>1. <<>> \in Seq(Hearing(packet')) /\ Len(<<>>) = 0
      OBVIOUS
    <3>2. Roster(packet) \in Seq(Agents)
      BY RosterIsOfAgents DEF MeetingInv
    <3>3. ToSet(Roster(packet)) \subseteq Agents
      BY <3>2, ElementsAreFinite
    <3> QED
      BY <2>1, <3>1, <3>3 DEF HeardOnce
  <2> QED
    BY <1>2, <2>1, <2>2, ReadingKeepsBudget DEF MeetingInv, PlanIsFunded
<1>3. ASSUME NEW a \in running, NEW reply \in Replies, AgentDone(a, reply)
      PROVE  MeetingInv'
  <2>1. /\ round' \in {"agents", "debates"} /\ round = "agents" /\ UNCHANGED <<asked, profile, packet, weighing, debated, tplan>>
    BY <1>3 DEF AgentDone
  <2>2. HeardOnce'
    BY <1>3, AgentIsHeardOnce
  <2>3. Inferred' = Inferred
    BY <2>1 DEF Inferred
  <2> QED
    BY <2>1, <2>2, <2>3 DEF MeetingInv, ReadInItsBudget, PlanIsFunded
<1>4. ASSUME NEW c \in Undebated, NEW v \in Verdicts, Debate(c, v)
      PROVE  MeetingInv'
  <2>1. /\ round = "debates" /\ UNCHANGED <<round, asked, profile, packet, weighing, running, arrived, tplan>>
        /\ debated' = [d \in DOMAIN debated \cup {c} |-> IF d = c THEN v ELSE debated[d]]
    BY <1>4 DEF Debate
  <2>2. Rulings(debated')
    <3>1. v \in Ruling /\ Rulings(debated)
      BY MeetingConstants DEF MeetingInv
    <3> QED
      BY <2>1, <3>1 DEF Rulings
  <2>3. Inferred' = Inferred
    BY <2>1 DEF Inferred
  <2> QED
    BY <2>1, <2>2, <2>3 DEF MeetingInv, ReadInItsBudget, HeardOnce, PlanIsFunded
<1>5. CASE PlanMade
  <2>1. round = "debates" /\ UNCHANGED <<asked, profile, packet, weighing, running, arrived, debated>>
    BY <1>5 DEF PlanMade
  <2>2. Inferred' = Inferred
    BY <2>1 DEF Inferred
  <2>3. CASE Unusable
    <3>1. round' = "failed" /\ tplan' = tplan
      BY <1>5, <2>3 DEF PlanMade
    <3> QED
      BY <2>1, <2>2, <3>1 DEF MeetingInv, ReadInItsBudget, HeardOnce, PlanIsFunded
  <2>4. CASE ~ Unusable
    <3>1. round' = "planned" /\ tplan' = Planned(packet, Meant(arrived))
      BY <1>5, <2>4 DEF PlanMade
    <3>2. (tplan = Planned(packet, Meant(arrived)))'
      BY <2>1, <3>1 DEF Meant
    <3>3. tplan'.cash \in 0 .. Whole
      <4> DEFINE m == Meant(arrived)
                 codes == ToSet(packet.candidates) \cup Loose
      <4>1. m \in Seq(codes) /\ Len(m) > 0 /\ codes \subseteq Code
        BY MeantIsPick DEF IsPick
      <4>2. Offers(packet) /\ packet.under \in Regimes \cup {"unknown"}
        BY DEF MeetingInv, Reading
      <4> HIDE DEF m, codes
      <4>3. m \in Seq(Code)
        BY <4>1
      <4> QED
        BY <3>1, <4>1, <4>2, <4>3, PlannedIsSized DEF m
    <3> QED
      BY <2>1, <2>2, <3>1, <3>2, <3>3 DEF MeetingInv, ReadInItsBudget, HeardOnce, PlanIsFunded
  <2> QED
    BY <2>3, <2>4
<1>6. CASE PlanCut
  <2>1. /\ round = "planned" /\ round' \in {"skipped", "selected"}
        /\ UNCHANGED <<asked, profile, packet, weighing, running, arrived, debated>>
    BY <1>6 DEF PlanCut
  <2>2. Inferred' = Inferred
    BY <2>1 DEF Inferred
  <2>3. PlanIsFunded' /\ (tplan.cash \in 0 .. Whole)'
    BY <1>6, CutIsFunded
  <2> QED
    BY <2>1, <2>2, <2>3 DEF MeetingInv, ReadInItsBudget, HeardOnce
<1>7. CASE UNCHANGED meetingVars
  <2>1. UNCHANGED <<round, asked, profile, packet, weighing, running, arrived, debated, tplan>>
    BY <1>7 DEF meetingVars
  <2>2. Inferred' = Inferred /\ Meant(arrived)' = Meant(arrived)
    BY <2>1 DEF Inferred, Meant
  <2>3. PlanIsFunded'
    BY <2>1, <2>2 DEF MeetingInv, PlanIsFunded, Strong
  <2>4. Planned(packet, Meant(arrived))' = Planned(packet, Meant(arrived))
    BY <2>1, <2>2
  <2> QED
    BY <2>1, <2>2, <2>3, <2>4 DEF MeetingInv, ReadInItsBudget, HeardOnce
<1> QED
  BY <1>1, <1>2, <1>3, <1>4, <1>5, <1>6, <1>7 DEF MeetingNext

\* What is known of a selection in every state: whose budget is in force, which results are
\* in, and what the plan is made from.
THEOREM MeetingInvariant == MeetingSpec => []MeetingInv
<1>1. MeetingInit => MeetingInv
  BY MeetingStarts
<1>2. MeetingInv /\ [MeetingNext]_meetingVars => MeetingInv'
  BY MeetingStep
<1> QED
  BY <1>1, <1>2, PTL DEF MeetingSpec

\* What is of which kind in a selection.
THEOREM MeetingTypeCorrect == MeetingSpec => []MeetingTypeOK
<1>1. ASSUME MeetingInv PROVE MeetingTypeOK
  <2>1. \A r \in ToSet(arrived) : r \in Hearing(packet)
    BY <1>1, ElementsAreFinite DEF MeetingInv, HeardOnce
  <2>2. \A r \in ToSet(arrived) : r.agent \in Agents
    BY <2>1 DEF Hearing
  <2> QED
    BY <1>1, <2>2 DEF MeetingInv, HeardOnce, Reading, MeetingTypeOK
<1> QED
  BY <1>1, MeetingInvariant, PTL

\* A plan that is traded keeps within the budget of the one regime that was read.
THEOREM PlanAlwaysFunded == MeetingSpec => []PlanIsFunded
<1>1. MeetingInv => PlanIsFunded
  BY DEF MeetingInv
<1> QED
  BY <1>1, MeetingInvariant, PTL

\* The plan has the codes that the meeting chose, each once.
LEMMA PlanHasChosen ==
  ASSUME MeetingInv, round = "planned"
  PROVE  PlanIsFromCandidates
<1> DEFINE m == Meant(arrived)
           ps == tplan.positions
           n == Len(m)
           named == ToSet(packet.candidates) \cup Loose
           codes == {q.code : q \in ToSet(ps)}
           take == [i \in 1 .. n |-> m[i]]
<1>1. /\ ps \in Seq(Sized) /\ Len(ps) = n /\ \A i \in 1 .. n : ps[i].code = m[i]
  BY PlanIsSized
<1>2. /\ m \in Seq(named) /\ n <= packet.max /\ n > 0
      /\ \A i, j \in 1 .. n : m[i] = m[j] => i = j
  BY MeantIsPick DEF IsPick
<1> HIDE DEF m, ps, named
<1>3. n \in Nat /\ \A i \in 1 .. n : m[i] \in named
  BY <1>2
<1>4. codes = {m[i] : i \in 1 .. n}
  <2>1. ToSet(ps) = {ps[i] : i \in 1 .. n}
    BY <1>1 DEF ToSet
  <2> QED
    BY <1>1, <2>1
<1> HIDE DEF codes
<1>5. take \in Surjection(1 .. n, codes) /\ take \in Injection(1 .. n, codes)
  BY <1>2, <1>4 DEF Surjection, Injection, IsInjective
<1>6. IsFiniteSet(1 .. n) /\ Cardinality(1 .. n) = n
  <2>1. /\ IsFiniteSet(1 .. n)
        /\ Cardinality(1 .. n) = IF 1 > n THEN 0 ELSE n - 1 + 1
    BY <1>3, FS_Interval
  <2> HIDE DEF n
  <2> QED
    BY <1>2, <1>3, <2>1
<1>7. Cardinality(codes) = n
  <2> HIDE DEF take, n
  <2> QED
    BY <1>5, <1>6, FS_Surjection
<1>8. codes # {} /\ codes \subseteq named
  <2>1. 1 \in 1 .. n
    BY <1>2, <1>3
  <2> QED
    BY <1>3, <1>4, <2>1
<1> QED
  BY <1>1, <1>2, <1>7, <1>8 DEF PlanIsFromCandidates, codes, ps, named, Loose

\* The plan would have been the same in whatever order the threads had ended.
LEMMA AnyOrderIsMeant ==
  ASSUME MeetingInv, round = "planned"
  PROVE  ThreadsDoNotDecide
<1> DEFINE heard == ToSet(arrived)
           ps == tplan.positions
<1>1. arrived \in Seq(Hearing(packet)) /\ Offers(packet)
  BY DEF MeetingInv, HeardOnce
<1>2. /\ IsFiniteSet(heard) /\ \A i \in 1 .. Len(arrived) : arrived[i] \in heard
      /\ \A r \in heard : \E i \in 1 .. Len(arrived) : arrived[i] = r
  BY <1>1, ElementsAreFinite
<1>3. arrived \in Seq(heard)
  <2> HIDE DEF heard
  <2> QED
    BY <1>1, <1>2, SeqNarrows
<1>4. \A r, s \in heard : r.agent = s.agent => r = s
  <2> HIDE DEF heard
  <2> SUFFICES ASSUME NEW r \in heard, NEW s \in heard, r.agent = s.agent PROVE r = s
    OBVIOUS
  <2>1. PICK i \in 1 .. Len(arrived) : arrived[i] = r
    BY <1>2
  <2>2. PICK j \in 1 .. Len(arrived) : arrived[j] = s
    BY <1>2
  <2>3. i = j
    BY <2>1, <2>2 DEF MeetingInv, HeardOnce
  <2> QED
    BY <2>1, <2>2, <2>3
<1>5. [i \in DOMAIN ps |-> ps[i].code] = Meant(arrived)
  <2>1. /\ ps \in Seq(Sized) /\ Len(ps) = Len(Meant(arrived))
        /\ \A i \in 1 .. Len(Meant(arrived)) : ps[i].code = Meant(arrived)[i]
    BY PlanIsSized
  <2>2. Meant(arrived) \in Seq(ToSet(packet.candidates) \cup Loose)
    BY MeantIsPick DEF IsPick
  <2> DEFINE m == Meant(arrived)
             codes == ToSet(packet.candidates) \cup Loose
  <2> HIDE DEF m, ps, codes
  <2>3. m = [i \in 1 .. Len(m) |-> m[i]]
    BY <2>2 DEF m, codes
  <2>4. DOMAIN ps = 1 .. Len(m)
    BY <2>1 DEF m
  <2> QED
    BY <2>1, <2>3, <2>4 DEF m
<1>6. ASSUME NEW order \in SetToSeqs(heard) PROVE Meant(order) = Meant(arrived)
  <2> DEFINE n == Cardinality(heard)
  <2>1. order \in [1 .. n -> heard] /\ \A i, j \in 1 .. n : i # j => order[i] # order[j]
    BY DEF SetToSeqs
  <2>2. n \in Nat
    BY <1>2, FS_CardinalityType
  <2>3. order \in Injection(1 .. n, heard)
    <3> HIDE DEF n, heard
    <3> QED
      BY <2>1 DEF Injection, IsInjective
  <2>4. IsFiniteSet(1 .. n) /\ Cardinality(1 .. n) = n
    <3>1. IsFiniteSet(1 .. n) /\ Cardinality(1 .. n) = IF 1 > n THEN 0 ELSE n - 1 + 1
      BY <2>2, FS_Interval
    <3> HIDE DEF n
    <3> QED
      BY <2>2, <3>1
  <2>5. order \in Surjection(1 .. n, heard)
    <3> DEFINE numbers == 1 .. n
    <3>1. order \in Injection(numbers, heard) /\ Cardinality(numbers) = Cardinality(heard)
      BY <2>3, <2>4
    <3> HIDE DEF numbers, heard
    <3>2. order \in Surjection(numbers, heard)
      BY <1>2, <3>1, FS_Injection
    <3> QED
      BY <3>2 DEF numbers
  <2>6. order \in Seq(heard) /\ ToSet(order) = heard
    <3> HIDE DEF n, heard
    <3>1. order \in Seq(heard) /\ DOMAIN order = 1 .. n
      BY <2>1, <2>2
    <3>2. ToSet(order) = {order[i] : i \in 1 .. n}
      BY <3>1 DEF ToSet
    <3> QED
      BY <2>1, <2>5, <3>1, <3>2 DEF Surjection
  <2>7. InRosterOrder(packet, order) = InRosterOrder(packet, arrived)
    BY <1>1, <1>3, <1>4, <2>6, WhoeverWasFirst
  <2> QED
    BY <2>7 DEF Meant
<1> QED
  BY <1>5, <1>6 DEF ThreadsDoNotDecide

\* Whatever agents and judges say, a meeting's plan is for what it chose of the candidates,
\* and is the same whichever thread was first.
THEOREM PlanAlwaysTheMeetings == MeetingSpec => []PlanIsTheMeetings
<1>1. MeetingInv => PlanIsTheMeetings
  <2> SUFFICES ASSUME MeetingInv PROVE PlanIsTheMeetings
    OBVIOUS
  <2>1. CASE round = "planned"
    BY <2>1, PlanHasChosen, AnyOrderIsMeant DEF PlanIsTheMeetings
  <2>2. CASE round # "planned"
    BY <2>2 DEF PlanIsTheMeetings, PlanIsFromCandidates, ThreadsDoNotDecide
  <2> QED
    BY <2>1, <2>2
<1> QED
  BY <1>1, MeetingInvariant, PTL
=============================================================================
