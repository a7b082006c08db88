-------------------------- MODULE CommanderProofs --------------------------
(***************************************************************************)
(* The training body, for any processes, callers and bounds: its state is  *)
(* well typed, the run it shows is the run under way, its counters add up, *)
(* and nothing but a stop, or a training lock that cannot be written or    *)
(* removed, ends the autopilot.  Commander around it, for any users and    *)
(* any numbers of rounds, crashes and raising writes: between two crashes  *)
(* the runtime's steps are steps of its training body, a snapshot restored *)
(* is one the body could be in, a plan that waits is the run under way,    *)
(* and a runtime with nothing under way says so.                           *)
(***************************************************************************)
EXTENDS Commander, TLAPS

---------------------------------------------------------------------------
(* The training body *)

BodyInv == BodyTypeOK /\ RunShown /\ CountersAddUp

Sum(t) == t.success + t.no_data + t.failed

\* The counting helpers stay in their type; Begun adds a round, Taken adds a result.
LEMMA Counting ==
  ASSUME NEW t \in Tally, NEW o \in Outcome
  PROVE  /\ Begun(t) \in Tally /\ Begun(t).total = t.total + 1 /\ Sum(Begun(t)) = Sum(t)
         /\ Taken(t, o) \in Tally /\ Taken(t, o).total = t.total /\ Sum(Taken(t, o)) = Sum(t) + 1
<1>1. Begun(t) \in Tally /\ Begun(t).total = t.total + 1 /\ Sum(Begun(t)) = Sum(t)
  BY DEF Tally, Begun, Sum
<1>2. CASE o = "ok"
  BY <1>1, <1>2 DEF Tally, Taken, Sum
<1>3. CASE o = "no_data"
  BY <1>1, <1>3 DEF Tally, Taken, Sum
<1>4. CASE o = "error"
  BY <1>1, <1>4 DEF Tally, Taken, Sum
<1> QED
  BY <1>2, <1>3, <1>4 DEF Outcome

LEMMA BodyInitInv == BodyInit => BodyInv
<1> SUFFICES ASSUME BodyInit PROVE BodyInv
  OBVIOUS
<1>1. BodyTypeOK
  BY BodyConstants DEF BodyInit, BodyTypeOK, Tally, Zero, Autopilot
<1>2. RunShown
  BY BodyConstants DEF BodyInit, RunShown
<1>3. CountersAddUp
  BY DEF BodyInit, CountersAddUp, Zero
<1> QED
  BY <1>1, <1>2, <1>3 DEF BodyInv

\* A run that ends, whoever held the lock or nobody, and whether or not its lock file can be
\* removed: the bookkeeping is put back.
LEMMA CloseStep ==
  ASSUME BodyInv, NEW p \in Process, NEW c \in Caller, holder[p] \in {c, None}, Closed(p, c),
         trainingLock' \in {None, trainingLock}
  PROVE  /\ RunShown'
         /\ holder' \in [Process -> Caller \cup {None}] /\ state' \in [Process -> {"idle", "training"}]
         /\ task' \in [Process -> Caller \cup {None}] /\ trainingLock' \in Process \cup {None}
         /\ left' \in [Process -> [Caller -> 0..MaxRounds]]
         /\ thread' \in [Process -> [Caller -> Outcome \cup {"running", None}]]
         /\ fault' \in [Process -> BOOLEAN]
<1> USE BodyConstants DEF BodyInv, BodyTypeOK, Closed
<1>1. /\ holder' \in [Process -> Caller \cup {None}] /\ state' \in [Process -> {"idle", "training"}]
      /\ task' \in [Process -> Caller \cup {None}] /\ trainingLock' \in Process \cup {None}
      /\ fault' \in [Process -> BOOLEAN]
  OBVIOUS
<1>2. /\ left' \in [Process -> [Caller -> 0..MaxRounds]]
      /\ thread' \in [Process -> [Caller -> Outcome \cup {"running", None}]]
  OBVIOUS
<1>3. RunShown'
  <2> SUFFICES ASSUME NEW q \in Process
               PROVE  /\ \A d \in Caller : /\ thread'[q][d] # None <=> holder'[q] = d
                                           /\ left'[q][d] > 0 <=> holder'[q] = d
                      /\ holder'[q] # None => state'[q] = "training" /\ task'[q] = holder'[q]
                      /\ holder'[q] = None => (state'[q] = "training" <=> fault'[q])
                      /\ holder'[q] = None /\ ~fault'[q] => task'[q] = None
    BY DEF RunShown
  <2>1. CASE q # p
    BY <2>1 DEF RunShown
  <2>2. CASE q = p
    <3>1. holder'[q] = None /\ state'[q] = "idle" /\ task'[q] = None /\ fault'[q] = FALSE
      BY <2>2
    <3>2. ASSUME NEW d \in Caller PROVE thread'[q][d] = None /\ left'[q][d] = 0
      BY <2>2, <3>2 DEF RunShown
    <3> QED
      BY <3>1, <3>2
  <2> QED
    BY <2>1, <2>2
<1> QED
  BY <1>1, <1>2, <1>3

\* One run begins: by a user's request or by the autopilot.
LEMMA RunCyclesStep ==
  ASSUME BodyInv, NEW p \in Process, NEW c \in Caller, NEW n \in 1..MaxRounds, RunCycles(p, c, n),
         auto' \in [Process -> {"new", "check", "run", "sleep", "off"}]
  PROVE  BodyInv'
<1> USE BodyConstants DEF BodyInv, BodyTypeOK, RunCycles, Idle
<1>1. tally[p] \in Tally /\ Begun(tally[p]) \in Tally
      /\ Begun(tally[p]).total = tally[p].total + 1 /\ Sum(Begun(tally[p])) = Sum(tally[p])
  BY Counting DEF Outcome
<1>2. BodyTypeOK'
  <2>1. tally' \in [Process -> Tally]
    BY <1>1
  <2>2. left' \in [Process -> [Caller -> 0..MaxRounds]]
    OBVIOUS
  <2>3. thread' \in [Process -> [Caller -> Outcome \cup {"running", None}]]
    OBVIOUS
  <2>4. /\ holder' \in [Process -> Caller \cup {None}] /\ state' \in [Process -> {"idle", "training"}]
        /\ task' \in [Process -> Caller \cup {None}] /\ trainingLock' \in Process \cup {None}
    OBVIOUS
  <2> QED
    BY <2>1, <2>2, <2>3, <2>4
<1>3. RunShown'
  <2> SUFFICES ASSUME NEW q \in Process
               PROVE  /\ \A d \in Caller : /\ thread'[q][d] # None <=> holder'[q] = d
                                           /\ left'[q][d] > 0 <=> holder'[q] = d
                      /\ holder'[q] # None => state'[q] = "training" /\ task'[q] = holder'[q]
                      /\ holder'[q] = None => (state'[q] = "training" <=> fault'[q])
                      /\ holder'[q] = None /\ ~fault'[q] => task'[q] = None
    BY DEF RunShown
  <2>1. CASE q # p
    BY <2>1 DEF RunShown
  <2>2. CASE q = p
    BY <2>2 DEF RunShown
  <2> QED
    BY <2>1, <2>2
<1>4. CountersAddUp'
  <2> SUFFICES ASSUME NEW q \in Process
               PROVE  tally'[q].total = Sum(tally'[q]) + cancelled'[q]
                                        + (IF holder'[q] = None THEN 0 ELSE 1)
    BY DEF CountersAddUp, Sum
  <2>1. tally[q] \in Tally /\ tally[q].total = Sum(tally[q]) + cancelled[q]
                                        + (IF holder[q] = None THEN 0 ELSE 1)
    BY DEF CountersAddUp, Sum
  <2>2. CASE q # p
    BY <2>1, <2>2
  <2>3. CASE q = p
    <3>1. /\ tally'[q] = Begun(tally[p]) /\ cancelled'[q] = cancelled[q]
          /\ holder[q] = None /\ holder'[q] # None
      BY <2>3
    <3>2. Sum(tally[p]) \in Nat /\ tally[p].total \in Nat /\ cancelled[p] \in Nat
      BY <1>1 DEF Tally, Sum
    <3> HIDE DEF RunCycles, Sum, Begun
    <3> QED
      BY <1>1, <2>1, <2>3, <3>1, <3>2
  <2> QED
    BY <2>2, <2>3
<1> QED
  BY <1>2, <1>3, <1>4

\* A run's caller takes the result of a round and begins the next.
LEMMA NextRoundStep ==
  ASSUME BodyInv, NEW p \in Process, NEW c \in Caller, NextRound(p, c)
  PROVE  BodyInv'
<1> USE BodyConstants DEF BodyInv, BodyTypeOK, NextRound, loop
<1> DEFINE t == Taken(tally[p], thread[p][c])
<1>0. tally[p] \in Tally /\ thread[p][c] \in Outcome /\ holder[p] = c
  BY DEF RunShown
<1>1. /\ t \in Tally /\ t.total = tally[p].total /\ Sum(t) = Sum(tally[p]) + 1
      /\ Begun(t) \in Tally /\ Begun(t).total = tally[p].total + 1
      /\ Sum(Begun(t)) = Sum(tally[p]) + 1
  <2>1. t \in Tally /\ t.total = tally[p].total /\ Sum(t) = Sum(tally[p]) + 1
    BY <1>0, Counting
  <2>2. Begun(t) \in Tally /\ Begun(t).total = t.total + 1 /\ Sum(Begun(t)) = Sum(t)
    BY <1>0, <2>1, Counting
  <2> QED
    BY <2>1, <2>2
<1>2. tally' = [tally EXCEPT ![p] = Begun(t)]
  OBVIOUS
<1>3. BodyTypeOK'
  BY <1>1, <1>2
<1>4. RunShown'
  <2> SUFFICES ASSUME NEW q \in Process
               PROVE  /\ \A d \in Caller : /\ thread'[q][d] # None <=> holder'[q] = d
                                           /\ left'[q][d] > 0 <=> holder'[q] = d
                      /\ holder'[q] # None => state'[q] = "training" /\ task'[q] = holder'[q]
                      /\ holder'[q] = None => (state'[q] = "training" <=> fault'[q])
                      /\ holder'[q] = None /\ ~fault'[q] => task'[q] = None
    BY DEF RunShown
  <2>1. CASE q # p
    BY <2>1 DEF RunShown
  <2>2. CASE q = p
    BY <1>0, <2>2 DEF RunShown
  <2> QED
    BY <2>1, <2>2
<1>5. CountersAddUp'
  <2> SUFFICES ASSUME NEW q \in Process
               PROVE  tally'[q].total = Sum(tally'[q]) + cancelled'[q]
                                        + (IF holder'[q] = None THEN 0 ELSE 1)
    BY DEF CountersAddUp, Sum
  <2>1. tally[q] \in Tally /\ tally[q].total = Sum(tally[q]) + cancelled[q]
                                        + (IF holder[q] = None THEN 0 ELSE 1)
    BY DEF CountersAddUp, Sum
  <2>2. CASE q # p
    BY <1>2, <2>1, <2>2
  <2>3. CASE q = p
    <3>1. /\ tally'[q] = Begun(t) /\ holder'[q] = holder[q] /\ holder[q] # None
          /\ cancelled'[q] = cancelled[q]
      BY <1>0, <1>2, <2>3
    <3>2. Sum(tally[p]) \in Nat /\ tally[p].total \in Nat /\ cancelled[p] \in Nat
      BY <1>0 DEF Tally, Sum
    <3> HIDE DEF NextRound, Sum, t, Begun
    <3> QED
      BY <1>1, <2>1, <2>3, <3>1, <3>2
  <2> QED
    BY <2>2, <2>3
<1> QED
  BY <1>3, <1>4, <1>5

\* A run's caller takes the last result and leaves, or is thrown out once it has.
LEMMA LastRoundStep ==
  ASSUME BodyInv, NEW p \in Process, NEW c \in Caller, LastRound(p, c) \/ LastRoundRaises(p, c),
         auto' \in [Process -> {"new", "check", "run", "sleep", "off"}]
  PROVE  BodyInv'
<1> USE BodyConstants DEF BodyInv, BodyTypeOK
<1> DEFINE t == Taken(tally[p], thread[p][c])
<1>0. tally[p] \in Tally /\ thread[p][c] \in Outcome /\ holder[p] = c
  BY DEF RunShown, LastRound, LastRoundRaises
<1>1. t \in Tally /\ t.total = tally[p].total /\ Sum(t) = Sum(tally[p]) + 1
  BY <1>0, Counting
<1>2. /\ tally' = [tally EXCEPT ![p] = t] /\ UNCHANGED <<orphan, cancelled, stopping>>
      /\ Closed(p, c) /\ trainingLock' \in {None, trainingLock}
  BY DEF LastRound, LastRoundRaises, Close
<1>3. BodyTypeOK' /\ RunShown'
  BY <1>0, <1>1, <1>2, CloseStep
<1>4. CountersAddUp'
  <2> SUFFICES ASSUME NEW q \in Process
               PROVE  tally'[q].total = Sum(tally'[q]) + cancelled'[q]
                                        + (IF holder'[q] = None THEN 0 ELSE 1)
    BY DEF CountersAddUp, Sum
  <2>1. tally[q] \in Tally /\ tally[q].total = Sum(tally[q]) + cancelled[q]
                                        + (IF holder[q] = None THEN 0 ELSE 1)
    BY DEF CountersAddUp, Sum
  <2>2. CASE q # p
    BY <1>2, <2>1, <2>2 DEF Closed
  <2>3. CASE q = p
    <3>1. /\ tally'[q] = t /\ holder'[q] = None /\ holder[q] # None
          /\ cancelled'[q] = cancelled[q]
      BY <1>0, <1>2, <2>3 DEF Closed
    <3>2. Sum(tally[p]) \in Nat /\ tally[p].total \in Nat /\ cancelled[p] \in Nat
      BY <1>0 DEF Tally, Sum
    <3> HIDE DEF Sum, t
    <3> QED
      BY <1>1, <2>1, <2>3, <3>1, <3>2
  <2> QED
    BY <2>2, <2>3
<1> QED
  BY <1>3, <1>4

\* A caller is cancelled while it waits for a worker thread.
LEMMA CancelStep ==
  ASSUME BodyInv, NEW p \in Process, NEW c \in Caller, Cancel(p, c),
         auto' \in [Process -> {"new", "check", "run", "sleep", "off"}]
  PROVE  BodyInv'
<1> USE BodyConstants DEF BodyInv, BodyTypeOK
<1>0. tally[p] \in Tally /\ holder[p] = c
  BY DEF RunShown, Cancel
<1>1. /\ cancelled' = [cancelled EXCEPT ![p] = @ + 1] /\ UNCHANGED <<tally, stopping>>
      /\ Closed(p, c) /\ trainingLock' = None /\ orphan' \in [Process -> Nat]
  BY DEF Cancel, Close
<1>2. BodyTypeOK' /\ RunShown'
  BY <1>0, <1>1, CloseStep
<1>3. CountersAddUp'
  <2> SUFFICES ASSUME NEW q \in Process
               PROVE  tally'[q].total = Sum(tally'[q]) + cancelled'[q]
                                        + (IF holder'[q] = None THEN 0 ELSE 1)
    BY DEF CountersAddUp, Sum
  <2>1. tally[q] \in Tally /\ tally[q].total = Sum(tally[q]) + cancelled[q]
                                        + (IF holder[q] = None THEN 0 ELSE 1)
    BY DEF CountersAddUp, Sum
  <2>2. CASE q # p
    BY <1>1, <2>1, <2>2 DEF Closed
  <2>3. CASE q = p
    <3>1. /\ tally'[q] = tally[q] /\ holder'[q] = None /\ holder[q] # None
          /\ cancelled'[q] = cancelled[q] + 1
      BY <1>0, <1>1, <2>3 DEF Closed
    <3>2. Sum(tally[p]) \in Nat /\ tally[p].total \in Nat /\ cancelled[p] \in Nat
      BY <1>0 DEF Tally, Sum
    <3> HIDE DEF Sum
    <3> QED
      BY <2>1, <2>3, <3>1, <3>2
  <2> QED
    BY <2>2, <2>3
<1> QED
  BY <1>2, <1>3

\* run_cycles raises before its `try`: the state shown is the one `fault` accounts for.
LEMMA LockWriteRaisesStep ==
  ASSUME BodyInv, NEW p \in Process, NEW c \in Caller, LockWriteRaises(p, c),
         auto' \in [Process -> {"new", "check", "run", "sleep", "off"}]
  PROVE  BodyInv'
<1> USE BodyConstants DEF BodyInv, BodyTypeOK, LockWriteRaises, count, Idle
<1>1. BodyTypeOK'
  OBVIOUS
<1>2. RunShown'
  <2> SUFFICES ASSUME NEW q \in Process
               PROVE  /\ \A d \in Caller : /\ thread'[q][d] # None <=> holder'[q] = d
                                           /\ left'[q][d] > 0 <=> holder'[q] = d
                      /\ holder'[q] # None => state'[q] = "training" /\ task'[q] = holder'[q]
                      /\ holder'[q] = None => (state'[q] = "training" <=> fault'[q])
                      /\ holder'[q] = None /\ ~fault'[q] => task'[q] = None
    BY DEF RunShown
  <2>1. CASE q # p
    BY <2>1 DEF RunShown
  <2>2. CASE q = p
    BY <2>2 DEF RunShown
  <2> QED
    BY <2>1, <2>2
<1>3. CountersAddUp'
  BY DEF CountersAddUp
<1> QED
  BY <1>1, <1>2, <1>3

\* run_cycles raises inside its `try`, before the first round
LEMMA ConfigureRaisesStep ==
  ASSUME BodyInv, NEW p \in Process, NEW c \in Caller, ConfigureRaises(p, c), UNCHANGED auto
  PROVE  BodyInv'
<1> USE BodyConstants DEF BodyInv, BodyTypeOK
<1>1. /\ holder[p] = None /\ Closed(p, c) /\ trainingLock' = None
      /\ UNCHANGED <<orphan, tally, cancelled, stopping>>
  BY DEF ConfigureRaises, Close, count
<1>2. BodyTypeOK' /\ RunShown'
  BY <1>1, CloseStep
<1>3. holder' = holder
  BY <1>1 DEF Closed
<1>4. CountersAddUp'
  BY <1>1, <1>3 DEF CountersAddUp
<1> QED
  BY <1>2, <1>4

\* A worker thread ends: only its result appears.
LEMMA CycleEndsStep ==
  ASSUME BodyInv, NEW p \in Process, NEW c \in Caller, CycleEnds(p, c)
  PROVE  BodyInv'
<1> USE BodyConstants DEF BodyInv, BodyTypeOK, CycleEnds, count, loop
<1>0. PICK o \in Outcome : thread' = [thread EXCEPT ![p][c] = o]
  OBVIOUS
<1>1. BodyTypeOK'
  BY <1>0
<1>2. o # None
  BY DEF Outcome
<1>3. \A q \in Process, d \in Caller : thread'[q][d] # None <=> thread[q][d] # None
  BY <1>0, <1>2
<1>4. RunShown'
  BY <1>3 DEF RunShown
<1>5. CountersAddUp'
  BY DEF CountersAddUp
<1> QED
  BY <1>1, <1>4, <1>5

\* The steps of the autopilot that begin and end no run
LEMMA LoopStep ==
  ASSUME BodyInv, NEW p \in Process,
         \/ AutoStart(p) \/ AutoBusy(p) \/ AutoWake(p) \/ Stop(p) \/ OrphanEnds(p)
         \/ (UNCHANGED <<run, orphan, count, stopping, fault>> /\ AutoGoto(p, "off"))
  PROVE  BodyInv'
<1>1. UNCHANGED <<holder, state, task, left, thread, tally, cancelled, fault, trainingLock>>
  BY DEF AutoStart, AutoBusy, AutoWake, Stop, OrphanEnds, run, count, loop
<1>2. orphan' \in [Process -> Nat]
  BY DEF BodyInv, BodyTypeOK, AutoStart, AutoBusy, AutoWake, Stop, OrphanEnds
<1>3. /\ auto' \in [Process -> {"new", "check", "run", "sleep", "off"}]
      /\ stopping' \in [Process -> BOOLEAN]
  BY DEF BodyInv, BodyTypeOK, AutoStart, AutoBusy, AutoWake, Stop, OrphanEnds, AutoGoto, loop
<1>4. BodyTypeOK'
  BY <1>1, <1>2, <1>3 DEF BodyInv, BodyTypeOK
<1>5. RunShown' /\ CountersAddUp'
  BY <1>1 DEF BodyInv, RunShown, CountersAddUp
<1> QED
  BY <1>4, <1>5 DEF BodyInv

LEMMA BodyStep == BodyInv /\ [BodyNext]_bodyVars => BodyInv'
<1> SUFFICES ASSUME BodyInv, [BodyNext]_bodyVars PROVE BodyInv'
  OBVIOUS
<1>0. CASE UNCHANGED bodyVars
  BY <1>0 DEF bodyVars, run, count, loop, BodyInv, BodyTypeOK, RunShown, CountersAddUp
<1>1. ASSUME NEW p \in Process, NEW u \in User, UserStep(p, u) PROVE BodyInv'
  <2>1. u \in Caller
    BY DEF Caller
  <2>2. UNCHANGED auto /\ auto' \in [Process -> {"new", "check", "run", "sleep", "off"}]
    BY <1>1 DEF UserStep, BodyInv, BodyTypeOK
  <2>3. ASSUME NEW n \in 1..MaxRounds, RunCycles(p, u, n) PROVE BodyInv'
    BY <2>1, <2>2, <2>3, RunCyclesStep
  <2>4. CASE \E n \in 1..MaxRounds : RunCycles(p, u, n)
    BY <2>3, <2>4
  <2>5. CASE LockWriteRaises(p, u)
    BY <2>1, <2>2, <2>5, LockWriteRaisesStep
  <2>6. CASE ConfigureRaises(p, u)
    BY <2>1, <2>2, <2>6, ConfigureRaisesStep
  <2>7. CASE LastRound(p, u) \/ LastRoundRaises(p, u)
    BY <2>1, <2>2, <2>7, LastRoundStep
  <2>8. CASE Cancel(p, u)
    BY <2>1, <2>2, <2>8, CancelStep
  <2> QED
    BY <1>1, <2>4, <2>5, <2>6, <2>7, <2>8 DEF UserStep
<1>2. ASSUME NEW p \in Process, NEW u \in User, NextRound(p, u) PROVE BodyInv'
  BY <1>2, NextRoundStep DEF Caller
<1>3. ASSUME NEW p \in Process, NEW c \in Caller, CycleEnds(p, c) PROVE BodyInv'
  BY <1>3, CycleEndsStep
<1>4. ASSUME NEW p \in Process,
             AutoRun(p) \/ AutoDone(p) \/ AutoDies(p) \/ (AutoCancelled(p) /\ auto[p] = "run")
      PROVE  BodyInv'
  <2>1. Autopilot \in Caller
    BY DEF Caller
  <2>2. auto' \in [Process -> {"new", "check", "run", "sleep", "off"}]
    BY <1>4 DEF AutoRun, AutoDone, AutoDies, AutoCancelled, AutoGoto, BodyInv, BodyTypeOK
  <2>3. 1 \in 1..MaxRounds
    BY BodyConstants
  <2>4. \/ RunCycles(p, Autopilot, 1) \/ LastRound(p, Autopilot) \/ LastRoundRaises(p, Autopilot)
        \/ LockWriteRaises(p, Autopilot) \/ Cancel(p, Autopilot)
    BY <1>4 DEF AutoRun, AutoDone, AutoDies, AutoCancelled
  <2> QED
    BY <2>1, <2>2, <2>3, <2>4, RunCyclesStep, LastRoundStep, LockWriteRaisesStep, CancelStep
<1>5. ASSUME NEW p \in Process,
             \/ AutoStart(p) \/ AutoBusy(p) \/ AutoWake(p) \/ Stop(p) \/ OrphanEnds(p)
             \/ (AutoCancelled(p) /\ auto[p] # "run")
      PROVE  BodyInv'
  BY <1>5, LoopStep DEF AutoCancelled
<1> QED
  BY <1>0, <1>1, <1>2, <1>3, <1>4, <1>5 DEF BodyNext, AutoStep

LEMMA BodyInvariant == BodySpec => []BodyInv
BY BodyInitInv, BodyStep, PTL DEF BodySpec

\* The body's variables stay in their types.
THEOREM BodyTypeCorrect == BodySpec => []BodyTypeOK
<1>1. BodyInv => BodyTypeOK
  BY DEF BodyInv
<1> QED
  BY <1>1, BodyInvariant, PTL

\* training_state, current_task, the lock and the callers always tell the same story.
THEOREM RunAlwaysShown == BodySpec => []RunShown
<1>1. BodyInv => RunShown
  BY DEF BodyInv
<1> QED
  BY <1>1, BodyInvariant, PTL

\* No round is counted twice or forgotten, whatever is cancelled and whenever.
THEOREM CountersAlwaysAddUp == BodySpec => []CountersAddUp
<1>1. BodyInv => CountersAddUp
  BY DEF BodyInv
<1> QED
  BY <1>1, BodyInvariant, PTL

\* Nothing that a training cycle does ends the autopilot.
THEOREM AutopilotSurvivesCycles == BodySpec => AutopilotSurvives
<1>1. BodyInv /\ [BodyNext]_bodyVars =>
        [\A p \in Process : auto[p] # "off" /\ auto'[p] = "off" =>
           stopping[p] \/ fault'[p] \/ trainingLock' # None]_bodyVars
  <2> SUFFICES ASSUME BodyInv, BodyNext, NEW p \in Process, auto[p] # "off", auto'[p] = "off"
               PROVE  stopping[p] \/ fault'[p] \/ trainingLock' # None
    OBVIOUS
  <2>1. ASSUME NEW q \in Process, NEW u \in User, UserStep(q, u) \/ NextRound(q, u) PROVE FALSE
    BY <2>1 DEF UserStep, NextRound, loop
  <2>2. ASSUME NEW q \in Process, NEW c \in Caller, CycleEnds(q, c) PROVE FALSE
    BY <2>2 DEF CycleEnds, loop
  <2>3. ASSUME NEW q \in Process, Stop(q) \/ OrphanEnds(q) PROVE FALSE
    BY <2>3 DEF Stop, OrphanEnds, loop
  <2>4. ASSUME NEW q \in Process,
               AutoStart(q) \/ AutoRun(q) \/ AutoBusy(q) \/ AutoDone(q) \/ AutoWake(q)
        PROVE  FALSE
    BY <2>4 DEF AutoStart, AutoRun, AutoBusy, AutoDone, AutoWake, AutoGoto, BodyInv, BodyTypeOK
  <2>5. ASSUME NEW q \in Process, AutoDies(q) PROVE fault'[p] \/ trainingLock' # None
    BY <2>5 DEF AutoDies, LockWriteRaises, LastRoundRaises, AutoGoto, BodyInv, BodyTypeOK
  <2>6. ASSUME NEW q \in Process, AutoCancelled(q) PROVE stopping[p]
    BY <2>6 DEF AutoCancelled, AutoGoto, BodyInv, BodyTypeOK
  <2> QED
    BY <2>1, <2>2, <2>3, <2>4, <2>5, <2>6 DEF BodyNext, AutoStep
<1> QED
  BY <1>1, BodyInvariant, PTL DEF BodySpec, AutopilotSurvives

---------------------------------------------------------------------------
(* The runtime around it *)

\* A snapshot shows a task only with a run under way, and no more results than rounds.
Snapshots ==
  {d \in [rstate : RStates, cur : Tasks \cup {None}, tally : Tally,
          state : {"idle", "training"}, task : Caller \cup {None}] :
     (d.state = "idle" => d.task = None) /\ Sum(d.tally) <= d.tally.total}

SnapshotOK == disk \in Snapshots

\* Whoever is responsible for the task and the state shown is still there to end it, or
\* was interrupted and left it behind.
TaskAccounted ==
  cur # None =>
    \/ "task" \in leftover
    \/ cur = "ask" /\ \E u \in User : op[u] \in {"ask", "askplan"}
    \/ cur \in {"training", "train_plan"} /\ holder[Self] # None
    \/ cur = "reload_strategies" /\ reload \in {"begun", "marked", "ending"}
    \/ cur = "stop" /\ stops > 0

StateAccounted ==
  rstate \notin AtRest =>
    \/ "state" \in leftover
    \/ rstate \in {"training", "busy"} /\ holder[Self] # None
    \/ rstate = "reloading_strategies" /\ reload = "marked"
    \/ rstate = "stopping" /\ stops > 0

CommanderInv ==
  CommanderTypeOK /\ BodyInv /\ SnapshotOK /\ PlanIsTheRun /\ TaskAccounted /\ StateAccounted

---------------------------------------------------------------------------
\* What the steps of a run do to the lock, seen from the process.
LEMMA HolderMoves ==
  ASSUME BodyInv, NEW c \in Caller
  PROVE  /\ \A n \in Nat : RunCycles(Self, c, n) => holder[Self] = None /\ holder'[Self] = c
         /\ LastRound(Self, c) \/ LastRoundRaises(Self, c) \/ Cancel(Self, c) =>
              holder[Self] = c /\ holder'[Self] = None
         /\ LockWriteRaises(Self, c) \/ ConfigureRaises(Self, c) =>
              holder[Self] = None /\ holder'[Self] = None
<1> USE BodyConstants, CommanderConstants DEF BodyInv, BodyTypeOK
<1>1. Self \in Process
  OBVIOUS
<1>2. ASSUME NEW n \in Nat, RunCycles(Self, c, n)
      PROVE  holder[Self] = None /\ holder'[Self] = c
  BY <1>1, <1>2 DEF RunCycles
<1>3. ASSUME LastRound(Self, c) \/ LastRoundRaises(Self, c) \/ Cancel(Self, c)
      PROVE  holder[Self] = c /\ holder'[Self] = None
  BY <1>1, <1>3 DEF LastRound, LastRoundRaises, Cancel, Close, Closed, RunShown, Outcome
<1>4. ASSUME LockWriteRaises(Self, c) \/ ConfigureRaises(Self, c)
      PROVE  holder[Self] = None /\ holder'[Self] = None
  BY <1>1, <1>4 DEF LockWriteRaises, ConfigureRaises, Close, Closed
<1> QED
  BY <1>2, <1>3, <1>4

\* Every step of the runtime but a crash is a step of its training body or leaves the body
\* alone: the runtime neither skips nor adds a step of a run.
LEMMA BodyMoves == [CommanderNext]_vars /\ ~Restart => [BodyNext]_bodyVars
<1> SUFFICES ASSUME [CommanderNext]_vars, ~Restart PROVE [BodyNext]_bodyVars
  OBVIOUS
<1> USE CommanderConstants
<1>0. Self \in Process
  OBVIOUS
<1>1. ASSUME NEW u \in User, UserOp(u) PROVE [BodyNext]_bodyVars
  <2>1. CASE \/ AskBegin(u) \/ AskRaises(u) \/ AskEnd(u) \/ AskCancelled(u)
             \/ PlanMarkRaises(u) \/ PlanBusy(u)
    BY <2>1 DEF AskBegin, AskRaises, AskEnd, AskCancelled, PlanMarkRaises, PlanBusy, BodyIdle
  <2>2. CASE PlanBegin(u) \/ PlanRaises(u) \/ PlanEnd(u) \/ PlanCancelled(u)
    <3>1. UserStep(Self, u)
      BY <2>2 DEF PlanBegin, PlanRaises, PlanEnd, PlanCancelled, UserStep
    <3> QED
      BY <1>0, <3>1 DEF BodyNext
  <2>3. CASE PlanRound(u)
    BY <1>0, <2>3 DEF PlanRound, BodyNext
  <2> QED
    BY <1>1, <2>1, <2>2, <2>3 DEF UserOp
<1>2. CASE ReloadOp
  BY <1>2 DEF ReloadOp, ReloadBegin, ReloadMark, ReloadIdle, ReloadEnd, ReloadSave, ReloadRaises,
              ReloadStep, BodyIdle
<1>3. CASE AutopilotOp
  <2>1. AutoStep(Self) \/ AutoDies(Self)
    BY <1>3 DEF AutopilotOp, AutoStep
  <2> QED
    BY <1>0, <2>1 DEF BodyNext
<1>4. CASE WorkerOp
  BY <1>0, <1>4 DEF WorkerOp, BodyNext
<1>5. CASE StartOk \/ StartRaises \/ StopBegin \/ StopEnd \/ StopRaises
  <2>1. AutoStart(Self) \/ Stop(Self) \/ UNCHANGED bodyVars
    BY <1>5 DEF StartOk, StartRaises, StopBegin, StopEnd, StopRaises, BodyIdle
  <2> QED
    BY <1>0, <2>1 DEF BodyNext
<1>6. CASE UNCHANGED vars
  BY <1>6 DEF vars
<1> QED
  BY <1>1, <1>2, <1>3, <1>4, <1>5, <1>6 DEF CommanderNext

\* A process that restores a snapshot is in a state the body could be in, whenever the
\* process before it died.
LEMMA RestoredBody == CommanderInv /\ Restart => BodyInv'
<1> SUFFICES ASSUME CommanderInv, Restart PROVE BodyInv'
  OBVIOUS
<1> USE CommanderConstants, BodyConstants
<1>1. PICK d \in {disk, NoSnapshot} :
        /\ tally' = [tally EXCEPT ![Self] = d.tally]
        /\ cancelled' = [cancelled EXCEPT ![Self] =
                           d.tally.total - (d.tally.success + d.tally.no_data + d.tally.failed)]
        /\ state' = [state EXCEPT ![Self] = d.state]
        /\ task' = [task EXCEPT ![Self] = d.task]
        /\ fault' = [fault EXCEPT ![Self] = d.state = "training"]
  BY DEF Restart
<1>2. /\ d.tally \in Tally /\ d.state \in {"idle", "training"} /\ d.task \in Caller \cup {None}
      /\ d.state = "idle" => d.task = None
      /\ Sum(d.tally) <= d.tally.total
  BY <1>1 DEF CommanderInv, SnapshotOK, Snapshots, NoSnapshot, Zero, Tally, Sum
<1>3. d.tally.total - Sum(d.tally) \in Nat
  BY <1>2 DEF Tally, Sum
<1>4. /\ holder' = [holder EXCEPT ![Self] = None]
      /\ left' = [left EXCEPT ![Self] = [c \in Caller |-> 0]]
      /\ thread' = [thread EXCEPT ![Self] = [c \in Caller |-> None]]
      /\ orphan' = [orphan EXCEPT ![Self] = 0]
      /\ auto' = [auto EXCEPT ![Self] = "new"]
      /\ stopping' = [stopping EXCEPT ![Self] = FALSE]
      /\ UNCHANGED trainingLock
  BY DEF Restart
<1>5. BodyTypeOK'
  BY <1>1, <1>2, <1>3, <1>4 DEF CommanderInv, BodyInv, BodyTypeOK, Sum
<1>6. RunShown'
  <2>1. /\ holder'[Self] = None /\ state'[Self] = d.state /\ task'[Self] = d.task
        /\ fault'[Self] = (d.state = "training")
    BY <1>1, <1>4 DEF CommanderInv, BodyInv, BodyTypeOK
  <2>2. \A c \in Caller : thread'[Self][c] = None /\ left'[Self][c] = 0 /\ c # None
    BY <1>4 DEF CommanderInv, BodyInv, BodyTypeOK
  <2> SUFFICES ASSUME NEW p \in Process
               PROVE  /\ \A c \in Caller : /\ thread'[p][c] # None <=> holder'[p] = c
                                           /\ left'[p][c] > 0 <=> holder'[p] = c
                      /\ holder'[p] # None => state'[p] = "training" /\ task'[p] = holder'[p]
                      /\ holder'[p] = None => (state'[p] = "training" <=> fault'[p])
                      /\ holder'[p] = None /\ ~fault'[p] => task'[p] = None
    BY DEF RunShown
  <2>3. p = Self
    OBVIOUS
  <2>4. CASE d.state = "training"
    <3>1. fault'[Self] = TRUE
      BY <2>1, <2>4
    <3> QED
      BY <2>1, <2>2, <2>3, <2>4, <3>1
  <2>5. CASE d.state = "idle"
    <3>1. fault'[Self] = FALSE
      BY <2>1, <2>5
    <3> QED
      BY <1>2, <2>1, <2>2, <2>3, <2>5, <3>1
  <2> QED
    BY <1>2, <2>4, <2>5
<1>7. CountersAddUp'
  <2>1. /\ tally'[Self] = d.tally /\ holder'[Self] = None
        /\ cancelled'[Self] = d.tally.total - Sum(d.tally)
    BY <1>1, <1>4 DEF CommanderInv, BodyInv, BodyTypeOK, Sum
  <2>2. d.tally.total = Sum(d.tally) + (d.tally.total - Sum(d.tally)) + 0
    BY <1>2 DEF Tally, Sum
  <2> QED
    BY <2>1, <2>2 DEF CountersAddUp, Sum
<1> QED
  BY <1>5, <1>6, <1>7 DEF BodyInv

\* The body's part of the invariant
LEMMA BodyKept == CommanderInv /\ [CommanderNext]_vars => BodyInv'
<1>1. CommanderInv => BodyInv
  BY DEF CommanderInv
<1> QED
  BY <1>1, BodyMoves, BodyStep, RestoredBody

---------------------------------------------------------------------------
\* No tally shows more results than rounds.
LEMMA TallyAddsUp ==
  ASSUME NEW t \in Tally, NEW lost \in Nat, NEW running \in {0, 1}, t.total = Sum(t) + lost + running
  PROVE  Sum(t) <= t.total
<1>1. t.total \in Nat /\ Sum(t) \in Nat
  BY DEF Tally, Sum
<1> QED
  BY <1>1

\* A snapshot taken of the state a step leads to is one that can be restored.
LEMMA SnapshotTaken ==
  ASSUME BodyInv', NEW r \in RStates, NEW c \in Tasks \cup {None}
  PROVE  Snapshot(r, c, tally'[Self]) \in Snapshots
<1> DEFINE t == tally'[Self]
<1>1. t \in Tally /\ cancelled'[Self] \in Nat
  BY CommanderConstants DEF BodyInv, BodyTypeOK
<1>2. t.total = Sum(t) + cancelled'[Self] + (IF holder'[Self] = None THEN 0 ELSE 1)
  BY CommanderConstants DEF BodyInv, CountersAddUp, Sum
<1>3. Sum(t) <= t.total
  BY <1>1, <1>2, TallyAddsUp
<1>4. /\ state'[Self] \in {"idle", "training"} /\ task'[Self] \in Caller \cup {None}
      /\ state'[Self] = "idle" => task'[Self] = None
  BY CommanderConstants DEF BodyInv, BodyTypeOK, RunShown
<1> HIDE DEF t
<1> QED
  BY <1>1, <1>3, <1>4 DEF Snapshots, Snapshot, t

\* The snapshot saved when a run begins shows the run, and the rounds before it.
LEMMA BegunSnapshot ==
  ASSUME BodyInv, NEW who \in Caller
  PROVE  [rstate |-> "training", cur |-> "training", tally |-> tally[Self],
          state |-> "training", task |-> who] \in Snapshots
<1> DEFINE t == tally[Self]
<1>1. t \in Tally /\ cancelled[Self] \in Nat
  BY CommanderConstants DEF BodyInv, BodyTypeOK
<1>2. t.total = Sum(t) + cancelled[Self] + (IF holder[Self] = None THEN 0 ELSE 1)
  BY CommanderConstants DEF BodyInv, CountersAddUp, Sum
<1>3. Sum(t) <= t.total
  BY <1>1, <1>2, TallyAddsUp
<1> HIDE DEF t
<1> QED
  BY <1>1, <1>3 DEF Snapshots, RStates, Tasks, t

---------------------------------------------------------------------------
(* The ends of a handler *)

\* What a handler has made of the shared fields so far ("starting" only start() shows), and
\* what it may end with
Known   == [rstate : RStates \cup {"starting"}, cur : Tasks \cup {None}, disk : Snapshots,
            left : SUBSET Both, raised : BOOLEAN]
Fit(b)  == b \in Known /\ b.rstate \in RStates

\* Nothing is shown that is not excused.
TaskOver(b)  == b.cur # None => "task" \in b.left
StateOver(b) == b.rstate \notin AtRest => "state" \in b.left
Over(b)      == Fit(b) /\ TaskOver(b) /\ StateOver(b)

LEMMA NowFits ==
  ASSUME CommanderInv
  PROVE  /\ Fit(Now) /\ Now.rstate = rstate /\ Now.cur = cur
         /\ Fit(Marked) /\ Marked.rstate = "training" /\ Marked.cur = "train_plan"
         /\ Starting \in Known
BY DEF CommanderInv, CommanderTypeOK, SnapshotOK, Now, Marked, Starting, Fit, Known, RStates,
       AtRest, Tasks, Both

LEMMA TornIs ==
  ASSUME NEW b \in Known, NEW r \in RStates, NEW c \in Tasks \cup {None}, NEW w \in SUBSET Both
  PROVE  /\ Fit(Torn(b, r, c, w)) /\ Torn(b, r, c, w).rstate = r /\ Torn(b, r, c, w).cur = c
         /\ w \subseteq Torn(b, r, c, w).left
BY DEF Torn, Fit, Known

LEMMA DoneIs ==
  ASSUME BodyInv', NEW b \in Known, NEW r \in RStates
  PROVE  Fit(Done(b, r)) /\ Done(b, r).rstate = r /\ Done(b, r).cur = None
<1>1. Snapshot(r, None, tally'[Self]) \in Snapshots
  BY SnapshotTaken
<1> QED
  BY <1>1 DEF Done, Fit, Known

LEMMA CutIs ==
  ASSUME NEW b \in Known, NEW r \in RStates, NEW e \in Cut(b, r)
  PROVE  Fit(e) /\ e.rstate = r /\ TaskOver(e)
<1>1. b.cur \in Tasks \cup {None} /\ {"task"} \in SUBSET Both /\ {} \in SUBSET Both
  BY DEF Known, Both
<1>2. CASE e = Torn(b, r, b.cur, {"task"})
  BY <1>1, <1>2, TornIs DEF TaskOver
<1>3. CASE e = Torn(b, r, None, {})
  BY <1>1, <1>3, TornIs DEF TaskOver
<1> QED
  BY <1>2, <1>3 DEF Cut

\* A task that ends at rest is over, whether or not its end can be written.
LEMMA EndsAtRest ==
  ASSUME BodyInv', NEW b \in Known, NEW r \in AtRest, NEW e \in {Done(b, r)} \cup Cut(b, r)
  PROVE  Over(e)
<1>1. r \in RStates
  BY DEF RStates
<1>2. Fit(e) /\ e.rstate = r /\ TaskOver(e)
  BY <1>1, DoneIs, CutIs DEF TaskOver
<1> QED
  BY <1>2 DEF Over, StateOver

\* What a handler left as it was, and said so
LEMMA TornOver ==
  ASSUME NEW b, Fit(b)
  PROVE  Over(Torn(b, b.rstate, b.cur, Both))
<1>1. b.rstate \in RStates /\ b.cur \in Tasks \cup {None} /\ b \in Known
  BY DEF Fit, Known
<1>2. Both \in SUBSET Both /\ "task" \in Both /\ "state" \in Both
  BY DEF Both
<1> QED
  BY <1>1, <1>2, TornIs DEF Over, TaskOver, StateOver

LEMMA StartedIs ==
  ASSUME BodyInv, NEW b, Fit(b), NEW who \in Caller, NEW e \in Started(b, who)
  PROVE  /\ Fit(e)
         /\ \/ e.rstate = b.rstate /\ e.cur = b.cur
            \/ e.rstate = "training" /\ e.cur = "training"
<1>1. /\ b.rstate \in RStates /\ b.cur \in Tasks \cup {None} /\ b \in Known /\ {} \in SUBSET Both
      /\ "training" \in RStates /\ "training" \in Tasks
  BY DEF Fit, Known, RStates, Tasks
<1>2. CASE e \in {Torn(b, b.rstate, b.cur, {}), Torn(b, "training", "training", {})}
  BY <1>1, <1>2, TornIs
<1> DEFINE s == [rstate |-> "training", cur |-> "training", tally |-> tally[Self],
                 state |-> "training", task |-> who]
<1>3. s \in Snapshots
  BY BegunSnapshot
<1> HIDE DEF s
<1>4. CASE e = [b EXCEPT !.rstate = "training", !.cur = "training", !.disk = s]
  BY <1>1, <1>3, <1>4 DEF Fit, Known
<1> QED
  BY <1>2, <1>4 DEF Started, s

LEMMA FinishedIs ==
  ASSUME BodyInv', NEW b, Fit(b), NEW e \in Finished(b)
  PROVE  Over(e)
<1>1. b \in Known /\ "idle" \in RStates /\ "idle" \in AtRest /\ {} \in SUBSET Both
  BY DEF Fit, RStates, AtRest
<1>2. CASE e = Torn(b, b.rstate, b.cur, Both)
  BY <1>2, TornOver
<1>3. CASE e = Torn(b, "idle", None, {})
  BY <1>1, <1>3, TornIs DEF Over, TaskOver, StateOver
<1>4. CASE e = Done(b, "idle")
  BY <1>1, <1>4, EndsAtRest
<1> QED
  BY <1>2, <1>3, <1>4 DEF Finished

LEMMA FailedIs ==
  ASSUME BodyInv', NEW b, Fit(b), NEW e \in Failed(b)
  PROVE  Over(e)
<1>1. b \in Known /\ "error" \in AtRest
  BY DEF Fit, AtRest
<1>2. CASE e = Torn(b, b.rstate, b.cur, Both)
  BY <1>2, TornOver
<1>3. CASE e \in {Done(b, "error")} \cup Cut(b, "error")
  BY <1>1, <1>3, EndsAtRest
<1> QED
  BY <1>2, <1>3 DEF Failed

LEMMA FinalisedIs ==
  ASSUME BodyInv', NEW b, Fit(b), NEW r \in RStates, NEW e \in Finalised(b, r)
  PROVE  e = Done(b, r) \/ Over(e)
<1>1. CASE e \in UNION {Failed([a EXCEPT !.raised = TRUE]) : a \in {b, Done(b, r)} \cup Cut(b, r)}
  <2>1. PICK a \in {b, Done(b, r)} \cup Cut(b, r) : e \in Failed([a EXCEPT !.raised = TRUE])
    BY <1>1
  <2>2. Fit(a)
    <3>1. b \in Known
      BY DEF Fit
    <3> QED
      BY <2>1, <3>1, DoneIs, CutIs
  <2>3. Fit([a EXCEPT !.raised = TRUE])
    BY <2>2 DEF Fit, Known
  <2> QED
    BY <2>1, <2>3, FailedIs
<1> QED
  BY <1>1 DEF Finalised

---------------------------------------------------------------------------
(* The invariant, one action at a time *)

\* What was left behind stays so while the field does.
LEMMA Leaving ==
  ASSUME NEW l, Leave(l)
  PROVE  /\ cur' # None /\ ("task" \in l \/ (cur' = cur /\ "task" \in leftover)) =>
              "task" \in leftover'
         /\ rstate' \notin AtRest /\ ("state" \in l \/ (rstate' = rstate /\ "state" \in leftover)) =>
              "state" \in leftover'
         /\ leftover' \subseteq Both
BY DEF Leave, Both

\* A handler ends with one of its ends.
LEMMA Becomes ==
  ASSUME NEW ends, Become(ends), \A b \in ends : Fit(b)
  PROVE  /\ \E b \in ends : rstate' = b.rstate /\ cur' = b.cur /\ Leave(b.left)
         /\ rstate' \in RStates /\ cur' \in Tasks \cup {None} /\ disk' \in Snapshots
         /\ leftover' \subseteq Both
<1>1. PICK b \in ends : rstate' = b.rstate /\ cur' = b.cur /\ disk' = b.disk /\ Leave(b.left)
  BY DEF Become
<1>2. Fit(b)
  OBVIOUS
<1> QED
  BY <1>1, <1>2, Leaving DEF Fit, Known

LEMMA Over1 ==
  ASSUME NEW b, Over(b), rstate' = b.rstate, cur' = b.cur, Leave(b.left)
  PROVE  TaskAccounted' /\ StateAccounted'
BY Leaving DEF Over, TaskOver, StateOver, TaskAccounted, StateAccounted

\* All ends over: nothing is left to account for.
LEMMA AllOver ==
  ASSUME NEW ends, Become(ends), \A b \in ends : Over(b)
  PROVE  /\ rstate' \in RStates /\ cur' \in Tasks \cup {None} /\ disk' \in Snapshots
         /\ leftover' \subseteq Both /\ TaskAccounted' /\ StateAccounted'
<1>1. \A b \in ends : Fit(b)
  BY DEF Over
<1> QED
  BY <1>1, Becomes, Over1

\* A state that a step does not change, and whose owner stays, is accounted for still.
LEMMA StateKept ==
  ASSUME StateAccounted, rstate' = rstate, NEW l, Leave(l),
         holder[Self] # None => holder'[Self] # None,
         reload = "marked" => reload' = "marked" \/ "state" \in l,
         stops > 0 => stops' > 0
  PROVE  StateAccounted'
BY Leaving DEF StateAccounted

LEMMA TaskKept ==
  ASSUME TaskAccounted, cur' = cur, NEW l, Leave(l),
         holder[Self] # None => holder'[Self] # None,
         reload \in {"begun", "marked", "ending"} => reload' \in {"begun", "marked", "ending"},
         \A u \in User : op[u] \in {"ask", "askplan"} => op'[u] \in {"ask", "askplan"},
         stops > 0 => stops' > 0
  PROVE  TaskAccounted'
BY Leaving DEF TaskAccounted

\* All of the invariant but the body's part
Rest == CommanderTypeOK /\ SnapshotOK /\ PlanIsTheRun /\ TaskAccounted /\ StateAccounted

\* The types follow from those of the fields that are shown.
LEMMA Types ==
  ASSUME rstate' \in RStates, cur' \in Tasks \cup {None}, disk' \in Snapshots,
         leftover' \subseteq Both,
         op' \in [User -> {"out", "ask", "plan", "askplan"}],
         reload' \in {"out", "begun", "marked", "ending", "saving"},
         started' \in BOOLEAN, stops' \in 0..2
  PROVE  CommanderTypeOK' /\ SnapshotOK'
BY DEF CommanderTypeOK, SnapshotOK, Snapshots

LEMMA AskSteps ==
  ASSUME CommanderInv, BodyInv', NEW u \in User,
         AskBegin(u) \/ AskRaises(u) \/ AskEnd(u) \/ AskCancelled(u)
  PROVE  Rest'
<1> USE DEF CommanderInv, CommanderTypeOK
<1>1. /\ holder' = holder /\ UNCHANGED <<reload, started, stops>>
      /\ \/ op' = [op EXCEPT ![u] = "ask"] /\ op[u] = "out"
         \/ op' = [op EXCEPT ![u] = "out"] /\ op[u] = "ask"
         \/ op' = op
  BY DEF AskBegin, AskRaises, AskEnd, AskCancelled, BodyIdle, bodyVars, run, OpGoto, life, calls
<1>2. PlanIsTheRun'
  BY <1>1 DEF PlanIsTheRun
<1>3. rstate \in RStates /\ "ask" \in Tasks /\ Now \in Known /\ {"task"} \in SUBSET Both
  BY NowFits DEF Tasks, Both, Fit
<1>4. CASE AskBegin(u) \/ AskCancelled(u)
  <2>1. PICK c \in {"ask", cur}, l \in SUBSET Both :
          /\ rstate' = rstate /\ cur' = c /\ disk' = disk /\ Leave(l)
          /\ \/ c = "ask" /\ op' = [op EXCEPT ![u] = "ask"]
             \/ c = cur /\ l = {"task"}
    <3>1. CASE AskBegin(u)
      <4>1. Leave({}) /\ rstate' = rstate /\ cur' = "ask" /\ disk' = disk
        BY <3>1, Zenon DEF AskBegin, Shared, Become, Now
      <4> QED
        BY <3>1, <4>1 DEF AskBegin, OpGoto
    <3>2. CASE AskCancelled(u)
      <4>1. Leave({"task"}) /\ rstate' = rstate /\ cur' = cur /\ disk' = disk
        BY <3>2, Zenon DEF AskCancelled, Become, Now
      <4> QED
        BY <1>3, <4>1
    <3> QED
      BY <1>4, <3>1, <3>2
  <2>2. CommanderTypeOK' /\ SnapshotOK'
    BY <1>1, <1>3, <2>1, Leaving, Types DEF SnapshotOK
  <2>3. StateAccounted'
    BY <1>1, <2>1, StateKept
  <2>4. TaskAccounted'
    BY <1>1, <2>1, Leaving DEF TaskAccounted
  <2> QED
    BY <1>2, <2>2, <2>3, <2>4 DEF Rest
<1>5. CASE AskRaises(u) \/ AskEnd(u)
  <2> DEFINE ends == IF AskRaises(u) THEN {Torn(Now, rstate, "ask", {"task"})}
                     ELSE {Done(Now, rstate)} \cup Cut(Now, rstate)
  <2>1. Become(ends)
    BY <1>5 DEF AskRaises, AskEnd
  <2>2. \A b \in ends : Fit(b) /\ b.rstate = rstate /\ TaskOver(b)
    BY <1>3, TornIs, DoneIs, CutIs DEF TaskOver
  <2> HIDE DEF ends
  <2>3. PICK b \in ends : rstate' = b.rstate /\ cur' = b.cur /\ Leave(b.left)
    BY <2>1, <2>2, Becomes
  <2>4. CommanderTypeOK' /\ SnapshotOK'
    BY <1>1, <2>1, <2>2, Becomes, Types
  <2>5. StateAccounted'
    BY <1>1, <2>2, <2>3, StateKept
  <2>6. TaskAccounted'
    BY <2>2, <2>3, Leaving DEF TaskAccounted, TaskOver
  <2> QED
    BY <1>2, <2>4, <2>5, <2>6 DEF Rest
<1> QED
  BY <1>4, <1>5

\* A plan that begins, or that is answered or raises before it has a run
LEMMA PlanBeginSteps ==
  ASSUME CommanderInv, BodyInv', NEW u \in User,
         PlanBegin(u) \/ PlanMarkRaises(u) \/ PlanBusy(u) \/ PlanRaises(u)
  PROVE  Rest'
<1> USE DEF CommanderInv, CommanderTypeOK
<1>0. /\ u \in Caller /\ u # None /\ op[u] \in {"out", "ask"}
      /\ UNCHANGED <<reload, started, stops>>
  BY BodyConstants
     DEF PlanBegin, PlanMarkRaises, PlanBusy, PlanRaises, OpGoto, Caller, life, calls
<1>1. rstate \in RStates /\ {"training", "busy"} \subseteq RStates /\ "train_plan" \in Tasks
      /\ {"task"} \in SUBSET Both /\ Both \in SUBSET Both /\ "task" \in Both /\ "state" \in Both
  BY DEF RStates, Tasks, Both
<1>2. /\ Fit(Marked) /\ Marked \in Known /\ Marked.rstate = "training" /\ Marked.cur = "train_plan"
      /\ Now \in Known /\ Now.rstate = rstate
  BY NowFits DEF Fit
<1>3. CASE PlanBegin(u)
  <2>1. PICK n \in 1..MaxRounds : RunCycles(Self, u, n)
    BY <1>3 DEF PlanBegin
  <2>2. holder[Self] = None /\ holder'[Self] = u
    BY <1>0, <2>1, HolderMoves
  <2>3. op' = [op EXCEPT ![u] = Plan(u)] /\ Plan(u) \in {"plan", "askplan"}
    BY <1>3 DEF PlanBegin, OpGoto, Plan
  <2> DEFINE ends == Started(Marked, u)
  <2>4. /\ Become(ends)
        /\ \A b \in ends : /\ Fit(b) /\ b.rstate = "training"
                           /\ b.cur \in {"training", "train_plan"}
    BY <1>0, <1>2, <1>3, StartedIs DEF PlanBegin
  <2> HIDE DEF ends
  <2>5. rstate' = "training" /\ cur' \in {"training", "train_plan"}
    BY <2>4, Becomes
  <2>6. CommanderTypeOK' /\ SnapshotOK'
    BY <1>0, <2>3, <2>4, Becomes, Types
  <2>7. PlanIsTheRun'
    <3>1. \A v \in User : op[v] \notin {"plan", "askplan"}
      BY <2>2, BodyConstants DEF PlanIsTheRun, Caller
    <3> QED
      BY <2>2, <2>3, <3>1 DEF PlanIsTheRun
  <2>8. TaskAccounted' /\ StateAccounted'
    BY <1>0, <2>2, <2>5 DEF TaskAccounted, StateAccounted
  <2> QED
    BY <2>6, <2>7, <2>8 DEF Rest
<1>4. CASE PlanMarkRaises(u)
  <2> DEFINE ends == {Torn(Now, rstate, "train_plan", {"task"}),
                      Torn(Marked, "training", "train_plan", Both)}
  <2>1. Become(ends) /\ op' = op /\ holder' = holder
    BY <1>4 DEF PlanMarkRaises, calls, BodyIdle, bodyVars, run
  <2>2. \A b \in ends : /\ Fit(b) /\ TaskOver(b)
                        /\ b.rstate = rstate \/ "state" \in b.left
    BY <1>1, <1>2, TornIs DEF TaskOver
  <2> HIDE DEF ends
  <2>3. PICK b \in ends : rstate' = b.rstate /\ cur' = b.cur /\ Leave(b.left)
    BY <2>1, <2>2, Becomes
  <2>4. CommanderTypeOK' /\ SnapshotOK'
    BY <1>0, <2>1, <2>2, Becomes, Types
  <2>5. TaskAccounted'
    BY <2>2, <2>3, Leaving DEF TaskAccounted, TaskOver
  <2>6. StateAccounted'
    <3>1. CASE b.rstate = rstate
      BY <1>0, <2>1, <2>3, <3>1, StateKept
    <3>2. CASE "state" \in b.left
      BY <2>3, <3>2, Leaving DEF StateAccounted
    <3> QED
      BY <2>2, <3>1, <3>2
  <2>7. PlanIsTheRun'
    BY <2>1 DEF PlanIsTheRun
  <2> QED
    BY <2>4, <2>5, <2>6, <2>7 DEF Rest
<1>5. ASSUME PlanBusy(u) \/ PlanRaises(u) PROVE op' = op
  <2>1. op' = [op EXCEPT ![u] = PlanOver(u)] /\ PlanOver(u) = op[u]
    BY <1>0, <1>5 DEF PlanBusy, PlanRaises, OpGoto, PlanOver
  <2> QED
    BY <2>1
<1>6. CASE PlanBusy(u)
  <2> DEFINE ends == Finalised(Marked, "busy")
  <2>1. Become(ends) /\ holder[Self] # None /\ holder' = holder
    BY <1>6 DEF PlanBusy, BodyIdle, bodyVars, run
  <2>2. Done(Marked, "busy").rstate = "busy" /\ Done(Marked, "busy").cur = None
        /\ Fit(Done(Marked, "busy"))
    BY <1>1, <1>2, DoneIs
  <2>3. \A b \in ends : Fit(b) /\ ((b.rstate = "busy" /\ b.cur = None) \/ Over(b))
    BY <1>1, <1>2, <2>2, FinalisedIs DEF Over
  <2> HIDE DEF ends
  <2>4. PICK b \in ends : rstate' = b.rstate /\ cur' = b.cur /\ Leave(b.left)
    BY <2>1, <2>3, Becomes
  <2>5. CommanderTypeOK' /\ SnapshotOK'
    BY <1>0, <1>5, <1>6, <2>1, <2>3, Becomes, Types
  <2>6. TaskAccounted' /\ StateAccounted'
    <3>1. CASE b.rstate = "busy" /\ b.cur = None
      BY <2>1, <2>4, <3>1 DEF TaskAccounted, StateAccounted
    <3>2. CASE Over(b)
      BY <2>4, <3>2, Over1
    <3> QED
      BY <2>3, <3>1, <3>2
  <2>7. PlanIsTheRun'
    BY <1>5, <1>6, <2>1 DEF PlanIsTheRun
  <2> QED
    BY <2>5, <2>6, <2>7 DEF Rest
<1>7. CASE PlanRaises(u)
  <2>1. holder[Self] = None /\ holder'[Self] = None
    BY <1>0, <1>7, HolderMoves DEF PlanRaises
  <2>2. PICK ends : Become(ends) /\ \A b \in ends : Over(b)
    <3>1. CASE Become(Failed(Marked))
      BY <1>2, <3>1, FailedIs
    <3>2. ASSUME NEW a \in Started(Marked, u), NEW b \in Finished(a), Become(Failed(b))
          PROVE  \E ends : Become(ends) /\ \A e \in ends : Over(e)
      <4>1. Fit(b)
        BY <1>0, <1>2, StartedIs, FinishedIs DEF Over
      <4> QED
        BY <3>2, <4>1, FailedIs
    <3> QED
      BY <1>7, <3>1, <3>2 DEF PlanRaises
  <2>3. CommanderTypeOK' /\ SnapshotOK' /\ TaskAccounted' /\ StateAccounted'
    BY <1>0, <1>5, <1>7, <2>2, AllOver, Types
  <2>4. PlanIsTheRun'
    BY <1>5, <1>7, <2>1 DEF PlanIsTheRun
  <2> QED
    BY <2>3, <2>4 DEF Rest
<1> QED
  BY <1>3, <1>4, <1>6, <1>7

\* A plan whose run ends, with its last round or by cancellation
LEMMA PlanEndSteps ==
  ASSUME CommanderInv, BodyInv', NEW u \in User, PlanEnd(u) \/ PlanCancelled(u)
  PROVE  Rest'
<1> USE DEF CommanderInv, CommanderTypeOK
<1>0. u \in Caller /\ op[u] \in {"plan", "askplan"} /\ UNCHANGED <<reload, started, stops>>
  BY DEF PlanEnd, PlanCancelled, OpGoto, Caller, life
<1>1. holder[Self] = u /\ holder'[Self] = None
  BY <1>0, HolderMoves DEF PlanEnd, PlanCancelled
<1>2. PICK to \in {"out", "ask"} : op' = [op EXCEPT ![u] = to]
  BY <1>0 DEF PlanEnd, PlanCancelled, OpGoto, PlanOver
<1>3. Fit(Now) /\ Now \in Known /\ rstate \in RStates /\ cur \in Tasks \cup {None}
      /\ {} \in SUBSET Both
  BY NowFits DEF Fit
<1>4. PICK ends : Become(ends) /\ \A b \in ends : Over(b)
  <2>1. ASSUME NEW b \in Finished(Now), NEW r \in {"idle", "error"}, Become(Finalised(b, r))
        PROVE  \E ends : Become(ends) /\ \A e \in ends : Over(e)
    <3>1. Fit(b) /\ b \in Known /\ r \in AtRest /\ r \in RStates
      BY <1>3, FinishedIs DEF Over, Fit, AtRest, RStates
    <3>2. Over(Done(b, r))
      BY <3>1, EndsAtRest
    <3> QED
      BY <2>1, <3>1, <3>2, FinalisedIs
  <2>2. CASE Become(Failed(Torn(Now, rstate, cur, {})))
    <3>1. Fit(Torn(Now, rstate, cur, {}))
      BY <1>3, TornIs
    <3> QED
      BY <2>2, <3>1, FailedIs
  <2>3. CASE Become(Finished(Now))
    BY <1>3, <2>3, FinishedIs
  <2> QED
    BY <2>1, <2>2, <2>3 DEF PlanEnd, PlanCancelled
<1>5. CommanderTypeOK' /\ SnapshotOK' /\ TaskAccounted' /\ StateAccounted'
  BY <1>0, <1>2, <1>4, AllOver, Types
<1>6. PlanIsTheRun'
  BY <1>0, <1>1, <1>2, BodyConstants DEF PlanIsTheRun, Caller
<1> QED
  BY <1>5, <1>6 DEF Rest

\* Steps of worker threads and rounds leave the lock and the runtime's own fields alone.
LEMMA QuietSteps ==
  ASSUME CommanderInv, BodyInv', UNCHANGED vars \/ WorkerOp \/ \E u \in User : PlanRound(u)
  PROVE  Rest'
<1>1. holder' = holder
  BY DEF WorkerOp, PlanRound, NextRound, CycleEnds, OrphanEnds, vars, bodyVars, run
<1>2. UNCHANGED <<shown, calls, life, restarts>>
  BY DEF WorkerOp, PlanRound, vars
<1> QED
  BY <1>1, <1>2 DEF CommanderInv, CommanderTypeOK, SnapshotOK, PlanIsTheRun, TaskAccounted,
                    StateAccounted, Rest, shown, calls, life

\* A reload, one access to the shared fields at a time
LEMMA ReloadSteps ==
  ASSUME CommanderInv, BodyInv', ReloadOp
  PROVE  Rest'
<1> USE DEF CommanderInv, CommanderTypeOK, ReloadStep
<1>1. UNCHANGED <<op, started, stops>> /\ holder' = holder
  BY DEF ReloadOp, ReloadBegin, ReloadMark, ReloadIdle, ReloadEnd, ReloadSave, ReloadRaises,
         BodyIdle, bodyVars, run, life
<1>2. PlanIsTheRun'
  BY <1>1 DEF PlanIsTheRun
<1>3. /\ rstate \in RStates /\ cur \in Tasks \cup {None} /\ "reload_strategies" \in Tasks
      /\ {"idle", "reloading_strategies"} \subseteq RStates /\ "idle" \in AtRest
      /\ {"task"} \in SUBSET Both /\ {} \in SUBSET Both /\ Now \in Known
  BY NowFits DEF Fit, RStates, AtRest, Tasks, Both
<1>4. CASE ReloadBegin \/ ReloadMark \/ ReloadIdle \/ ReloadEnd
  <2>1. PICK r \in RStates, c \in Tasks \cup {None} :
          /\ Shared(r, c)
          /\ \/ reload = "out" /\ reload' = "begun" /\ r = rstate /\ c = "reload_strategies"
             \/ reload = "begun" /\ reload' = "marked" /\ r = "reloading_strategies" /\ c = cur
             \/ reload = "marked" /\ reload' = "ending" /\ r = "idle" /\ c = cur
             \/ reload = "ending" /\ reload' = "saving" /\ r = rstate /\ c = None
    BY <1>3, <1>4, Zenon DEF ReloadBegin, ReloadMark, ReloadIdle, ReloadEnd
  <2>2. Leave({}) /\ rstate' = r /\ cur' = c /\ disk' = disk
    BY <2>1, Zenon DEF Shared, Become, Now
  <2>3. CommanderTypeOK' /\ SnapshotOK'
    BY <1>1, <2>1, <2>2, Leaving, Types DEF SnapshotOK
  <2>4. TaskAccounted'
    BY <1>1, <2>1, <2>2, Leaving DEF TaskAccounted
  <2>5. StateAccounted'
    BY <1>1, <1>3, <2>1, <2>2, Leaving DEF StateAccounted
  <2> QED
    BY <1>2, <2>3, <2>4, <2>5 DEF Rest
<1>5. CASE ReloadSave
  <2>1. /\ reload = "saving" /\ reload' = "out"
        /\ Become({[Now EXCEPT !.disk = Snapshot(rstate, cur, tally[Self])],
                   Torn(Now, rstate, cur, {})})
    BY <1>5 DEF ReloadSave
  <2>2. Snapshot(rstate, cur, tally[Self]) \in Snapshots
    <3>1. tally[Self] = tally'[Self]
      BY <1>5 DEF ReloadSave, BodyIdle, bodyVars, count
    <3>2. Snapshot(rstate, cur, tally'[Self]) \in Snapshots
      BY <1>3, SnapshotTaken
    <3> QED
      BY <3>1, <3>2
  <2> DEFINE saved == Snapshot(rstate, cur, tally[Self])
             ends  == {[Now EXCEPT !.disk = saved], Torn(Now, rstate, cur, {})}
  <2>3. \A b \in ends : Fit(b) /\ b.rstate = rstate /\ b.cur = cur
    <3>1. saved \in Snapshots
      BY <2>2
    <3> HIDE DEF saved
    <3>2. /\ Fit([Now EXCEPT !.disk = saved]) /\ [Now EXCEPT !.disk = saved].rstate = rstate
          /\ [Now EXCEPT !.disk = saved].cur = cur
      BY <1>3, <3>1, NowFits DEF Fit, Known
    <3>3. LET e == Torn(Now, rstate, cur, {}) IN Fit(e) /\ e.rstate = rstate /\ e.cur = cur
      BY <1>3, TornIs
    <3> QED
      BY <3>2, <3>3
  <2>4. Become(ends)
    BY <2>1
  <2> HIDE DEF ends
  <2>5. PICK b \in ends : rstate' = b.rstate /\ cur' = b.cur /\ Leave(b.left)
    BY <2>3, <2>4, Becomes
  <2>6. CommanderTypeOK' /\ SnapshotOK'
    BY <1>1, <2>1, <2>3, <2>4, Becomes, Types
  <2>7. TaskAccounted' /\ StateAccounted'
    BY <1>1, <2>1, <2>3, <2>5, TaskKept, StateKept
  <2> QED
    BY <1>2, <2>6, <2>7 DEF Rest
<1>6. CASE ReloadRaises
  <2>1. CASE reload = "marked" /\ reload' = "out" /\ Become({[Now EXCEPT !.left = Both]})
    <3>1. rstate' = rstate /\ cur' = cur /\ disk' = disk /\ Leave(Both)
      BY <2>1, Zenon DEF Become, Now
    <3>2. CommanderTypeOK' /\ SnapshotOK'
      BY <1>1, <1>3, <2>1, <3>1, Leaving, Types DEF SnapshotOK
    <3>3. TaskAccounted' /\ StateAccounted'
      BY <3>1, Leaving DEF TaskAccounted, StateAccounted, Both
    <3> QED
      BY <1>2, <3>2, <3>3 DEF Rest
  <2>2. ASSUME NEW c \in Tasks \cup {None}, Become({Torn(Now, rstate, c, {"task"})}),
               reload # "marked", reload' = "out"
        PROVE  Rest'
    <3> DEFINE e == Torn(Now, rstate, c, {"task"})
    <3>1. Fit(e) /\ e.rstate = rstate /\ "task" \in e.left
      BY <1>3, TornIs
    <3> HIDE DEF e
    <3>2. rstate' = e.rstate /\ cur' = e.cur /\ Leave(e.left)
      BY <2>2, <3>1, Becomes DEF e
    <3>3. CommanderTypeOK' /\ SnapshotOK'
      BY <1>1, <2>2, <3>1, Becomes, Types DEF e
    <3>4. TaskAccounted'
      BY <3>1, <3>2, Leaving DEF TaskAccounted
    <3>5. StateAccounted'
      BY <1>1, <2>2, <3>1, <3>2, StateKept
    <3> QED
      BY <1>2, <3>3, <3>4, <3>5 DEF Rest
  <2> QED
    BY <1>3, <1>6, <2>1, <2>2, Zenon DEF ReloadRaises
<1> QED
  BY <1>4, <1>5, <1>6 DEF ReloadOp

\* The autopilot's runs
LEMMA AutopilotSteps ==
  ASSUME CommanderInv, BodyInv', AutopilotOp
  PROVE  Rest'
<1> USE DEF CommanderInv, CommanderTypeOK
<1>0. Autopilot \in Caller /\ Autopilot \notin User /\ Autopilot # None
  BY BodyConstants DEF Caller
<1>1. UNCHANGED <<op, reload, started, stops>>
  BY DEF AutopilotOp, calls, life
<1>2. Fit(Now) /\ Now.rstate = rstate /\ Now.cur = cur
  BY NowFits
<1>3. CASE AutoRun(Self) /\ Become(Started(Now, Autopilot))
  <2>1. holder[Self] = None /\ holder'[Self] = Autopilot
    BY <1>0, <1>3, HolderMoves DEF AutoRun
  <2> DEFINE ends == Started(Now, Autopilot)
  <2>2. /\ Become(ends)
        /\ \A b \in ends : /\ Fit(b)
                           /\ \/ b.rstate = rstate /\ b.cur = cur
                              \/ b.rstate = "training" /\ b.cur = "training"
    BY <1>0, <1>2, <1>3, StartedIs
  <2> HIDE DEF ends
  <2>3. PICK b \in ends : rstate' = b.rstate /\ cur' = b.cur /\ Leave(b.left)
    BY <2>2, Becomes
  <2>4. CommanderTypeOK' /\ SnapshotOK'
    BY <1>1, <2>2, Becomes, Types
  <2>5. PlanIsTheRun'
    BY <1>0, <1>1, <2>1, BodyConstants DEF PlanIsTheRun, Caller
  <2>6. TaskAccounted' /\ StateAccounted'
    <3>1. CASE rstate' = rstate /\ cur' = cur
      BY <1>0, <1>1, <2>1, <2>3, <3>1, TaskKept, StateKept
    <3>2. CASE rstate' = "training" /\ cur' = "training"
      BY <1>0, <2>1, <3>2 DEF TaskAccounted, StateAccounted
    <3> QED
      BY <2>2, <2>3, <3>1, <3>2
  <2> QED
    BY <2>4, <2>5, <2>6 DEF Rest
<1>4. CASE \/ (AutoDone(Self) \/ (AutoCancelled(Self) /\ auto[Self] = "run"))
              /\ Become(Finished(Now))
           \/ AutoDies(Self) /\ auto[Self] = "run" /\ Become({Torn(Now, rstate, cur, Both)})
  <2>1. holder[Self] = Autopilot /\ holder'[Self] = None
    BY <1>0, <1>4, HolderMoves DEF AutoDone, AutoCancelled, AutoDies
  <2>2. PICK ends : Become(ends) /\ \A b \in ends : Over(b)
    <3>1. \A b \in Finished(Now) : Over(b)
      BY <1>2, FinishedIs
    <3>2. Over(Torn(Now, rstate, cur, Both))
      BY <1>2, TornOver
    <3> QED
      BY <1>4, <3>1, <3>2
  <2>3. CommanderTypeOK' /\ SnapshotOK' /\ TaskAccounted' /\ StateAccounted'
    BY <1>1, <2>2, AllOver, Types
  <2>4. PlanIsTheRun'
    BY <1>0, <1>1, <2>1, BodyConstants DEF PlanIsTheRun, Caller
  <2> QED
    BY <2>3, <2>4 DEF Rest
<1>5. CASE /\ \/ AutoCancelled(Self) /\ auto[Self] # "run"
              \/ AutoDies(Self) /\ auto[Self] # "run"
              \/ AutoBusy(Self) \/ AutoWake(Self)
           /\ Become({Now})
  <2>1. holder'[Self] = holder[Self]
    <3>1. CASE AutoDies(Self) /\ auto[Self] # "run"
      BY <1>0, <3>1, HolderMoves DEF AutoDies
    <3>2. CASE (AutoCancelled(Self) /\ auto[Self] # "run") \/ AutoBusy(Self) \/ AutoWake(Self)
      BY <3>2 DEF AutoCancelled, AutoBusy, AutoWake, run
    <3> QED
      BY <1>5, <3>1, <3>2
  <2>2. rstate' = rstate /\ cur' = cur /\ Leave(Now.left)
    BY <1>2, <1>5, Becomes
  <2>3. CommanderTypeOK' /\ SnapshotOK'
    BY <1>1, <1>2, <1>5, Becomes, Types
  <2>4. TaskAccounted' /\ StateAccounted'
    BY <1>1, <2>1, <2>2, TaskKept, StateKept
  <2> QED
    BY <1>1, <2>1, <2>3, <2>4 DEF PlanIsTheRun, Rest
<1> QED
  BY <1>3, <1>4, <1>5, Zenon DEF AutopilotOp

\* start() and stop()
LEMMA LifeSteps ==
  ASSUME CommanderInv, BodyInv', StartOk \/ StartRaises \/ StopBegin \/ StopEnd \/ StopRaises
  PROVE  Rest'
<1> USE DEF CommanderInv, CommanderTypeOK
<1>1. UNCHANGED <<op, reload>> /\ holder' = holder
  BY DEF StartOk, StartRaises, StopBegin, StopEnd, StopRaises, AutoStart, Stop, BodyIdle,
         bodyVars, run, calls
<1>2. PlanIsTheRun'
  BY <1>1 DEF PlanIsTheRun
<1>3. /\ Fit(Now) /\ Now \in Known /\ Now.rstate = rstate /\ Now.cur = cur /\ Starting \in Known
      /\ rstate \in RStates /\ {"start", "stop"} \subseteq Tasks /\ "stopping" \in RStates
      /\ {"idle", "error", "stopped"} \subseteq AtRest /\ {"task"} \in SUBSET Both
  BY NowFits DEF Fit, RStates, AtRest, Tasks, Both
<1>4. CASE StartOk
  <2> DEFINE ends == {Done(Starting, "idle")} \cup
                     UNION {{Done(b, "error")} \cup Cut(b, "error") : b \in Cut(Starting, "idle")}
  <2>1. Become(ends) /\ started' \in BOOLEAN /\ stops' = stops
    BY <1>4 DEF StartOk
  <2>2. \A b \in Cut(Starting, "idle") : b \in Known
    BY <1>3, EndsAtRest DEF Over, Fit
  <2>3. \A b \in ends : Over(b)
    BY <1>3, <2>2, EndsAtRest
  <2> HIDE DEF ends
  <2>4. CommanderTypeOK' /\ SnapshotOK' /\ TaskAccounted' /\ StateAccounted'
    BY <1>1, <2>1, <2>3, AllOver, Types
  <2> QED
    BY <1>2, <2>4 DEF Rest
\* The row of a task's begin cannot be written: the task stays, the state is as it was.
<1>5. ASSUME NEW c \in Tasks, Become({Torn(Now, rstate, c, {"task"})}), started' = started,
             stops' = stops
      PROVE  Rest'
  <2> DEFINE e == Torn(Now, rstate, c, {"task"})
  <2>1. Fit(e) /\ e.rstate = rstate /\ "task" \in e.left
    BY <1>3, TornIs
  <2> HIDE DEF e
  <2>2. rstate' = e.rstate /\ cur' = e.cur /\ Leave(e.left)
    BY <1>5, <2>1, Becomes DEF e
  <2>3. CommanderTypeOK' /\ SnapshotOK'
    BY <1>1, <1>5, <2>1, Becomes, Types DEF e
  <2>4. TaskAccounted'
    BY <2>1, <2>2, Leaving DEF TaskAccounted
  <2>5. StateAccounted'
    BY <1>1, <1>5, <2>1, <2>2, StateKept
  <2> QED
    BY <1>2, <2>3, <2>4, <2>5 DEF Rest
\* It ends at rest, or with what it left as it was.
<1>6. ASSUME NEW ends, Become(ends), \A b \in ends : Over(b), started' \in BOOLEAN,
             stops' \in 0..2
      PROVE  Rest'
  BY <1>1, <1>2, <1>6, AllOver, Types DEF Rest
<1>7. CASE StartRaises
  <2>1. UNCHANGED <<started, stops>>
    BY <1>7 DEF StartRaises, life
  <2>2. \/ Become({Done(Starting, "error")} \cup Cut(Starting, "error"))
        \/ Become({Torn(Now, rstate, "start", {"task"})})
    BY <1>7, Zenon DEF StartRaises, Become
  <2>3. \A b \in {Done(Starting, "error")} \cup Cut(Starting, "error") : Over(b)
    BY <1>3, EndsAtRest
  <2> QED
    BY <1>3, <1>5, <1>6, <2>1, <2>2, <2>3
<1>8. CASE StopBegin
  <2>1. stops' \in 1..2 /\ started' = started /\ Shared("stopping", "stop")
    BY <1>8 DEF StopBegin
  <2>2. rstate' = "stopping" /\ cur' = "stop" /\ disk' = disk /\ Leave({})
    BY <2>1, Zenon DEF Shared, Become, Now
  <2>3. CommanderTypeOK' /\ SnapshotOK'
    BY <1>1, <1>3, <2>1, <2>2, Leaving, Types DEF SnapshotOK
  <2>4. TaskAccounted' /\ StateAccounted'
    BY <2>1, <2>2 DEF TaskAccounted, StateAccounted
  <2> QED
    BY <1>2, <2>3, <2>4 DEF Rest
<1>9. CASE StopEnd
  <2>1. /\ started' \in BOOLEAN /\ stops' \in 0..2
        /\ Become({Done(Now, "stopped")} \cup Cut(Now, "stopped"))
    <3>1. stops \in 0..2 /\ stops > 0 /\ stops' = stops - 1
      BY <1>9 DEF StopEnd
    <3>2. stops' \in 0..2
      BY <3>1
    <3> QED
      BY <1>9, <3>2 DEF StopEnd
  <2>2. \A b \in {Done(Now, "stopped")} \cup Cut(Now, "stopped") : Over(b)
    BY <1>3, EndsAtRest
  <2> QED
    BY <1>6, <2>1, <2>2
<1>10. CASE StopRaises
  <2>1. CASE UNCHANGED life /\ Become({Torn(Now, rstate, "stop", {"task"})})
    BY <1>3, <1>5, <2>1 DEF life
  <2>2. CASE /\ stops > 0 /\ stops' = stops - 1 /\ started' \in {started, FALSE}
             /\ Become({Torn(Now, rstate, cur, Both)})
    <3>1. Over(Torn(Now, rstate, cur, Both))
      BY <1>3, TornOver
    <3>2. stops' \in 0..2
      <4>1. stops \in 0..2 /\ stops > 0 /\ stops' = stops - 1
        BY <2>2
      <4> QED
        BY <4>1
    <3>3. started' \in BOOLEAN
      BY <2>2
    <3> QED
      BY <1>6, <2>2, <3>1, <3>2, <3>3
  <2> QED
    BY <1>10, <2>1, <2>2 DEF StopRaises
<1> QED
  BY <1>4, <1>7, <1>8, <1>9, <1>10

\* The process dies and another restores its snapshot.
LEMMA RestartStep ==
  ASSUME CommanderInv, Restart
  PROVE  Rest'
<1> USE DEF CommanderInv, CommanderTypeOK, RStates, AtRest, Tasks
<1>1. PICK d \in {disk, NoSnapshot} : rstate' = d.rstate /\ cur' = d.cur /\ disk' = d
  BY DEF Restart
<1>2. /\ holder' = [holder EXCEPT ![Self] = None] /\ op' = [v \in User |-> "out"]
      /\ reload' = "out" /\ started' = FALSE /\ stops' = 0 /\ Leave(Both)
  BY DEF Restart
<1>3. SnapshotOK'
  BY <1>1 DEF SnapshotOK, Snapshots, NoSnapshot, Zero, Tally, Sum
<1>4. CommanderTypeOK'
  <2>1. /\ rstate' \in RStates /\ cur' \in Tasks \cup {None}
        /\ disk'.rstate \in RStates /\ disk'.cur \in Tasks \cup {None} /\ disk'.tally \in Tally
    BY <1>1, <1>3 DEF SnapshotOK, Snapshots
  <2>2. op' \in [User -> {"out", "ask", "plan", "askplan"}]
    BY <1>2
  <2>3. leftover' \subseteq Both
    BY <1>2, Leaving
  <2>4. reload' = "out" /\ started' = FALSE
    BY <1>2
  <2>5. stops' \in 0..2
    BY <1>2
  <2> QED
    BY <2>1, <2>2, <2>3, <2>4, <2>5
<1>5. PlanIsTheRun'
  <2>1. holder'[Self] = None
    BY <1>2, CommanderConstants DEF BodyInv, BodyTypeOK
  <2> QED
    BY <1>2, <2>1, BodyConstants DEF PlanIsTheRun, Caller
<1>6. TaskAccounted' /\ StateAccounted'
  BY <1>2, Leaving DEF TaskAccounted, StateAccounted, Both
<1> QED
  BY <1>3, <1>4, <1>5, <1>6 DEF Rest

LEMMA CommanderStep == CommanderInv /\ [CommanderNext]_vars => CommanderInv'
<1> SUFFICES ASSUME CommanderInv, [CommanderNext]_vars PROVE CommanderInv'
  OBVIOUS
<1>1. BodyInv'
  BY BodyKept
<1> SUFFICES Rest'
  BY <1>1 DEF CommanderInv, Rest
<1>2. ASSUME NEW u \in User, UserOp(u) PROVE Rest'
  BY <1>1, <1>2, AskSteps, PlanBeginSteps, PlanEndSteps, QuietSteps DEF UserOp
<1>3. CASE ReloadOp
  BY <1>1, <1>3, ReloadSteps
<1>4. CASE AutopilotOp
  BY <1>1, <1>4, AutopilotSteps
<1>5. CASE WorkerOp \/ UNCHANGED vars
  BY <1>1, <1>5, QuietSteps
<1>6. CASE StartOk \/ StartRaises \/ StopBegin \/ StopEnd \/ StopRaises
  BY <1>1, <1>6, LifeSteps
<1>7. CASE Restart
  BY <1>7, RestartStep
<1> QED
  BY <1>1, <1>2, <1>3, <1>4, <1>5, <1>6, <1>7 DEF CommanderNext

LEMMA CommanderInitInv == CommanderInit => CommanderInv
<1> SUFFICES ASSUME CommanderInit PROVE CommanderInv
  OBVIOUS
<1>1. BodyInv
  BY BodyInitInv DEF CommanderInit
<1>2. SnapshotOK
  BY DEF CommanderInit, SnapshotOK, Snapshots, NoSnapshot, Zero, Tally, Sum, RStates, AtRest
<1>3. CommanderTypeOK
  <2>1. op \in [User -> {"out", "ask", "plan", "askplan"}]
    BY DEF CommanderInit
  <2>2. rstate = "initialized" /\ cur = None /\ reload = "out" /\ started = FALSE
        /\ leftover = {}
    BY DEF CommanderInit
  <2>3. stops \in 0..2
    BY DEF CommanderInit
  <2> QED
    BY <1>2, <2>1, <2>2, <2>3 DEF CommanderTypeOK, SnapshotOK, Snapshots, RStates, AtRest
<1>4. PlanIsTheRun
  BY BodyConstants, CommanderConstants DEF CommanderInit, BodyInit, PlanIsTheRun, Caller
<1>5. TaskAccounted /\ StateAccounted
  BY DEF CommanderInit, TaskAccounted, StateAccounted, AtRest
<1> QED
  BY <1>1, <1>2, <1>3, <1>4, <1>5 DEF CommanderInv

LEMMA CommanderInvariant == CommanderSpec => []CommanderInv
BY CommanderInitInv, CommanderStep, PTL DEF CommanderSpec

\* The runtime's fields, its snapshot and its calls keep their types; in particular a stop()
\* is counted down once, however two of them overlap and wherever the process crashes.
THEOREM CommanderTypeCorrect == CommanderSpec => []CommanderTypeOK
<1>1. CommanderInv => CommanderTypeOK
  BY DEF CommanderInv
<1> QED
  BY <1>1, CommanderInvariant, PTL

\* A plan that waits for its cycles is the run the body shows, and no other, whichever
\* requests, reloads, stops and crashes overlap it.
THEOREM PlanAlwaysTheRun == CommanderSpec => []PlanIsTheRun
<1>1. CommanderInv => PlanIsTheRun
  BY DEF CommanderInv
<1> QED
  BY <1>1, CommanderInvariant, PTL

\* A runtime with nothing under way shows no task and a state of rest, whatever overlapped
\* before and whichever writes raised, but for what a cancellation, a failed reload, a crash or
\* a write outside every handler left behind.
THEOREM QuietAlwaysShown == CommanderSpec => []QuietIsShown
<1>1. CommanderInv => QuietIsShown
  BY DEF CommanderInv, TaskAccounted, StateAccounted, QuietIsShown, Quiet
<1> QED
  BY <1>1, CommanderInvariant, PTL

\* The body's promises survive the composition: its state, task, lock and counters agree in a
\* runtime that reloads, stops, crashes and restores snapshots.
THEOREM BodySurvivesRuntime == CommanderSpec => [](RunShown /\ CountersAddUp)
<1>1. CommanderInv => RunShown /\ CountersAddUp
  BY DEF CommanderInv, BodyInv
<1> QED
  BY <1>1, CommanderInvariant, PTL
=============================================================================
