--------------------------- MODULE LearningProofs ---------------------------
(***************************************************************************)
(* Theorems about what the system draws from its records: the research     *)
(* feedback (Research), the choice of the next model (Routing), and the    *)
(* simulated trades that a result rests on (Simulator), for any plans,     *)
(* prices, fees and limits.                                                *)
(***************************************************************************)
EXTENDS Research, Routing, Simulator, FiniteSetTheorems, SequenceTheorems,
        WellFoundedInduction, NaturalsInduction, TLAPS

---------------------------------------------------------------------------
(* Research: a change of parameters rests on different cases.  A record is *)
(* an attribution of a case, so that there are never more records, nor     *)
(* more episodes of them, than scored cases of the same days; and a case   *)
(* that was scored once stays scored.                                      *)

\* The scored cases of days up to a cutoff
Past(cutoff) == {k \in ScoredKeys : k[3] <= cutoff}

ResearchInv == IsFiniteSet(DOMAIN cases) /\ ActsOnEvidence

\* A function has no more values than arguments.
LEMMA FewerValues ==
  ASSUME NEW f, IsFiniteSet(DOMAIN f)
  PROVE  LET T == {f[x] : x \in DOMAIN f}
         IN  IsFiniteSet(T) /\ Cardinality(T) <= Cardinality(DOMAIN f)
<1> DEFINE T == {f[x] : x \in DOMAIN f}
           g == [x \in DOMAIN f |-> f[x]]
<1>1. g \in Surjection(DOMAIN f, T)
  BY DEF Surjection
<1>2. QED
  BY <1>1, FS_Surjection

\* The scored cases are among the cases, and so are those of a cutoff.
LEMMA PastIsFinite ==
  ASSUME IsFiniteSet(DOMAIN cases), NEW cutoff
  PROVE  IsFiniteSet(Past(cutoff)) /\ Cardinality(Past(cutoff)) \in Nat
<1>1. Past(cutoff) \in SUBSET DOMAIN cases
  BY DEF Past, ScoredKeys
<1>2. QED
  BY <1>1, FS_Subset, FS_CardinalityType

\* There is at most a record for each scored case.
LEMMA RecordsAreOfCases ==
  ASSUME IsFiniteSet(DOMAIN cases), NEW cutoff
  PROVE  /\ IsFiniteSet(Episoded(cutoff))
         /\ Cardinality(Episoded(cutoff)) <= Cardinality(Past(cutoff))
<1> DEFINE f == [k \in Past(cutoff) |-> AttributionOf(k)]
<1>1. Episoded(cutoff) = {f[k] : k \in DOMAIN f}
  BY Zenon DEF Episoded, Past
<1>2. IsFiniteSet(DOMAIN f)
  BY PastIsFinite
<1> HIDE DEF f
<1>3. DOMAIN f = Past(cutoff)
  BY DEF f
<1>4. QED
  BY <1>1, <1>2, <1>3, FewerValues

\* What the feedback of a cutoff counts as evidence is no more than its records.
LEMMA EvidenceIsOfRecords ==
  ASSUME NEW recs, IsFiniteSet(recs)
  PROVE  Evidence(recs) \in Nat /\ Evidence(recs) <= Cardinality(recs)
<1> DEFINE f == [r \in recs |-> cases[r.key]]
           T == {f[r] : r \in DOMAIN f}
<1>1. DOMAIN f = recs
  OBVIOUS
<1>2. Episodes(recs) = T \ {0}
  BY DEF Episodes
<1> HIDE DEF f
<1>3. IsFiniteSet(T) /\ Cardinality(T) <= Cardinality(recs)
  BY <1>1, FewerValues
<1>4. T \ {0} \in SUBSET T
  OBVIOUS
<1>5. /\ Cardinality(T) \in Nat /\ Cardinality(recs) \in Nat
      /\ Cardinality(T \ {0}) \in Nat /\ Cardinality(T \ {0}) <= Cardinality(T)
  BY <1>3, <1>4, FS_Subset, FS_CardinalityType
<1> HIDE DEF T
<1>6. CASE Episodes(recs) = {}
  BY <1>5, <1>6 DEF Evidence
<1>7. CASE Episodes(recs) # {}
  BY <1>2, <1>3, <1>5, <1>7 DEF Evidence
<1>8. QED
  BY <1>6, <1>7

\* Whatever the feedback of a cycle looks at, it is worth no more than the scored cases of
\* the days up to the cycle's.
LEMMA FeedbackIsOfPast ==
  ASSUME IsFiniteSet(DOMAIN cases)
  PROVE  /\ Evidence(Feedback) \in Nat
         /\ Evidence(Feedback) <= Cardinality(Past(trainer.day))
<1> DEFINE E == Episoded(trainer.day)
<1>1. Feedback \in SUBSET E
  BY Zenon DEF Feedback, Scope
<1>2. IsFiniteSet(E) /\ Cardinality(E) <= Cardinality(Past(trainer.day))
  BY RecordsAreOfCases
<1> HIDE DEF E
<1>3. IsFiniteSet(Feedback) /\ Cardinality(Feedback) <= Cardinality(E)
  BY <1>1, <1>2, FS_Subset
<1>4. /\ Cardinality(E) \in Nat /\ Cardinality(Feedback) \in Nat
      /\ Cardinality(Past(trainer.day)) \in Nat
  BY <1>2, <1>3, FS_CardinalityType, PastIsFinite
<1>5. Evidence(Feedback) \in Nat /\ Evidence(Feedback) <= Cardinality(Feedback)
  BY <1>3, EvidenceIsOfRecords
<1>6. QED
  BY <1>2, <1>3, <1>4, <1>5

\* A case stays a case, and a scored one stays scored: saving an attribution again replaces
\* it by another of the same case.
LEMMA ScoredForGood ==
  ASSUME ResearchNext
  PROVE  DOMAIN cases \subseteq DOMAIN cases' /\ ScoredKeys \subseteq ScoredKeys'
<1> DEFINE Stay    == DOMAIN cases \subseteq DOMAIN cases'
           Keyed   == \A a \in scored : \E b \in scored' : b.key = a.key
<1>1. ASSUME UNCHANGED <<cases, scored>> PROVE Stay /\ Keyed
  BY <1>1
<1>2. ASSUME NEW actor, NEW actor2, Persist(actor, actor2) PROVE Stay /\ Keyed
  <2>1. CASE OpenCase(actor, actor2)
    BY <2>1 DEF OpenCase
  <2>2. CASE WriteCase(actor, actor2)
    BY <2>2 DEF WriteCase
  <2>3. CASE ScoreCase(actor, actor2)
    <3>1. cases' = cases /\ scored' = SaveAttribution(actor.key)
      BY <2>3 DEF ScoreCase
    <3>2. Attribution(actor.key).key = actor.key
      BY DEF Attribution
    <3>3. QED
      BY <3>1, <3>2, Zenon DEF SaveAttribution
  <2>4. CASE ScoreRaises(actor, actor2)
    BY <2>4 DEF ScoreRaises
  <2>5. QED
    BY <1>2, <2>1, <2>2, <2>3, <2>4 DEF Persist
<1>3. Stay /\ Keyed
  BY <1>1, <1>2, Zenon DEF ResearchNext, NewDay, AskStock, CycleSimulated, NextStock, AskerStep,
     TrainerStep, ApplyFeedback
<1>4. QED
  BY <1>3, Zenon DEF ScoredKeys

\* A step writes at most one case.
LEMMA OneCaseAtATime ==
  ASSUME ResearchNext
  PROVE  \E k : DOMAIN cases' \subseteq DOMAIN cases \cup {k}
<1> DEFINE One == \E k : DOMAIN cases' \subseteq DOMAIN cases \cup {k}
<1>1. ASSUME UNCHANGED cases PROVE One
  BY <1>1
<1>2. ASSUME NEW actor, NEW actor2, Persist(actor, actor2) PROVE One
  <2>1. CASE WriteCase(actor, actor2)
    BY <2>1 DEF WriteCase
  <2>2. QED
    BY <1>1, <1>2, <2>1 DEF Persist, OpenCase, ScoreCase, ScoreRaises
<1>3. QED
  BY <1>1, <1>2, Zenon DEF ResearchNext, NewDay, AskStock, CycleSimulated, NextStock, AskerStep,
     TrainerStep, ApplyFeedback

\* The change is the feedback's work, of the cycle and the day it had come to.
LEMMA ChangeIsFeedback ==
  ASSUME ResearchNext
  PROVE  \/ change' = change
         \/ /\ change'.cutoff = trainer.day
            /\ Evidence(Feedback) >= MinEpisodes
<1>1. ASSUME NEW others \in BOOLEAN, ApplyFeedback(others), change' # change
      PROVE  change'.cutoff = trainer.day /\ Evidence(Feedback) >= MinEpisodes
  <2>1. Actionable(Feedback, others)
    BY <1>1, Zenon DEF ApplyFeedback
  <2>2. change' = [cycle |-> cycleNo, cutoff |-> trainer.day, evidence |-> Evidence(Feedback)]
    BY <1>1, <2>1, Zenon DEF ApplyFeedback
  <2>3. QED
    BY <2>1, <2>2 DEF Actionable
<1>2. QED
  BY <1>1, Zenon DEF ResearchNext, NewDay, AskStock, CycleSimulated, NextStock, AskerStep,
     TrainerStep

LEMMA ResearchInvInit == ResearchInit => ResearchInv
  BY FS_EmptySet DEF ResearchInit, ResearchInv, ActsOnEvidence, NoPlan

LEMMA ResearchInvNext == ResearchInv /\ [ResearchNext]_researchVars => ResearchInv'
<1> SUFFICES ASSUME ResearchInv, [ResearchNext]_researchVars PROVE ResearchInv'
  OBVIOUS
<1>1. CASE UNCHANGED researchVars
  BY <1>1 DEF researchVars, ResearchInv, ActsOnEvidence, ScoredKeys
<1>2. CASE ResearchNext
  <2>1. IsFiniteSet(DOMAIN cases')
    <3>1. PICK k : DOMAIN cases' \subseteq DOMAIN cases \cup {k}
      BY <1>2, OneCaseAtATime
    <3>2. IsFiniteSet(DOMAIN cases \cup {k})
      BY FS_AddElement DEF ResearchInv
    <3>3. QED
      BY <3>1, <3>2, FS_Subset
  <2>2. ASSUME NEW cutoff
        PROVE  /\ Cardinality(Past(cutoff)) \in Nat /\ Cardinality(Past(cutoff)') \in Nat
               /\ Cardinality(Past(cutoff)) <= Cardinality(Past(cutoff)')
    <3>1. Past(cutoff) \in SUBSET (Past(cutoff)')
      BY <1>2, ScoredForGood DEF Past
    <3>2. Past(cutoff)' \in SUBSET (DOMAIN cases')
      BY DEF Past, ScoredKeys
    <3>3. IsFiniteSet(Past(cutoff)')
      BY <2>1, <3>2, FS_Subset
    <3>4. QED
      BY <3>1, <3>3, FS_Subset, FS_CardinalityType
  <2>3. ASSUME NEW cutoff, cutoff = change'.cutoff, change'.cycle # 0
        PROVE  Cardinality(Past(cutoff)') >= MinEpisodes
    <3>0. MinEpisodes \in Nat
      BY ResearchAssumption
    <3>1. CASE change' = change
      <4>1. Cardinality(Past(cutoff)) >= MinEpisodes
        BY <2>3, <3>1 DEF ResearchInv, ActsOnEvidence, Past
      <4>2. QED
        BY <2>2, <3>0, <4>1
    <3>2. CASE change'.cutoff = trainer.day /\ Evidence(Feedback) >= MinEpisodes
      <4>1. /\ Evidence(Feedback) \in Nat
            /\ Evidence(Feedback) <= Cardinality(Past(cutoff))
        BY <2>3, <3>2, FeedbackIsOfPast DEF ResearchInv
      <4>2. QED
        BY <2>2, <3>0, <3>2, <4>1
    <3>3. QED
      BY <1>2, <3>1, <3>2, ChangeIsFeedback
  <2>4. ActsOnEvidence'
    <3>1. SUFFICES ASSUME change'.cycle # 0
                   PROVE  Cardinality({k \in ScoredKeys' : k[3] <= change'.cutoff}) >= MinEpisodes
      BY DEF ActsOnEvidence
    <3>2. PICK cutoff : cutoff = change'.cutoff
      OBVIOUS
    <3>3. QED
      BY <2>3, <3>1, <3>2 DEF Past
  <2>5. QED
    BY <2>1, <2>4 DEF ResearchInv
<1>3. QED
  BY <1>1, <1>2

\* Behind a change of the parameters by the research feedback there are at least
\* min_episode_count different scored cases of days up to its cutoff, however often a stock
\* was asked about or a case was scored again.
THEOREM AlwaysActsOnEvidence == ResearchSpec => []ActsOnEvidence
<1>1. ResearchInv => ActsOnEvidence
  BY DEF ResearchInv
<1>2. QED
  BY <1>1, ResearchInvInit, ResearchInvNext, PTL DEF ResearchSpec

---------------------------------------------------------------------------
(* Routing: the router remembers the cycle of its last switch, and its     *)
(* holds let a switch through only when none of them forbids it, or when   *)
(* the exception to the cooldown does.                                     *)

Switch == [cycle : 1 .. MaxCycles, from : Model, to : Model]

\* What the router remembers is its last switch; a cycle under way has a number to come
Remembered ==
  /\ switches \in Seq(Switch)
  /\ switches = <<>> => lastSwitch = 0
  /\ switches # <<>> => lastSwitch = Last(switches).cycle
  /\ running # NoRun => cycle < MaxCycles

RoutingInv == RoutingTypeOK /\ Remembered

\* A model that is selected in the place of the present one is a model, and no hold
\* applied to it.
LEMMA SelectedIsNotHeld ==
  ASSUME model \in Model, mode \in Modes, NEW b, NEW r, NEW w, NEW c, DOMAIN w \subseteq Model,
         NEW to \in Selected(b, r, w, c)
  PROVE  to \in Model /\ (to # model => ~Holds(b, to, r, w, c))
<1>1. CASE DOMAIN w = {}
  BY <1>1 DEF Selected
<1>2. CASE DOMAIN w # {}
  <2> DEFINE Heads == UNION {Advised(first, w) : first \in Heaviest(w)}
  <2>1. PICK advised \in Heads :
          to = IF advised # model /\ Holds(b, advised, r, w, c) THEN model ELSE advised
    BY <1>2, Zenon DEF Selected
  <2>2. PICK first \in Heaviest(w) : advised \in Advised(first, w)
    OBVIOUS
  <2>3. first \in Model
    BY DEF Heaviest
  <2>4. mode \in {"rule", "hybrid", "agent"} /\ Allowed \subseteq Model
    BY RoutingConstants
  <2>5. advised \in {first} \cup Allowed \cup {model}
    BY <2>2, <2>4 DEF Advised
  <2>6. QED
    BY <2>1, <2>3, <2>4, <2>5
<1>3. QED
  BY <1>1, <1>2

\* The board has the figures of every model's records.
LEMMA BoardFigures == \A m \in Model : Board[m].figures = Figures(Records(m))
  BY DEF Board, EntryOf, Entry, Model

\* A step that changes the model at the start of a cycle is a decision of the router, with
\* none of its holds.
LEMMA SwitchIsDecided ==
  ASSUME RoutingInv, Route
  PROVE  /\ model' \in Model
         /\ model' # model => \E w, c : ~Holds(Board, model', running'.regime, w, c)
<1>1. PICK b \in {Board}, s \in Observations : \E reading \in Readings(s) :
           \E ranked \in {Ranked(b, reading.regime)} :
           \E w \in {Offered(Weights(b, reading.regime, ranked))},
              c \in {Max({reading.confidence, PlanConfidence(b, reading.regime, ranked)})} :
           \E to \in Selected(b, reading.regime, w, c) :
             model' = to /\ running' = [model |-> to, regime |-> reading.regime]
  BY Zenon DEF Route
<1>2. PICK reading, w, c, to :
             /\ to \in Selected(b, reading.regime, w, c)
             /\ \E v : w = Offered(v)
             /\ model' = to /\ running' = [model |-> to, regime |-> reading.regime]
  BY <1>1, Zenon
<1>3. model \in Model /\ mode \in Modes
  BY DEF RoutingInv, RoutingTypeOK
<1>4. DOMAIN w \subseteq Model
  BY <1>2, <1>3, RoutingConstants DEF Offered
<1>5. to \in Model /\ (to # model => ~Holds(b, to, reading.regime, w, c))
  BY <1>2, <1>3, <1>4, SelectedIsNotHeld
<1>6. b = Board /\ model' = to /\ running'.regime = reading.regime
  BY <1>2
<1>7. QED
  BY <1>5, <1>6, Zenon

LEMMA RoutingInvInit == RoutingInit => RoutingInv
<1> SUFFICES ASSUME RoutingInit PROVE RoutingInv
  OBVIOUS
<1>1. MaxCycles \in Nat \ {0} /\ Allowed \subseteq Model
  BY RoutingConstants
<1>2. switches = <<>> /\ lastSwitch = 0 /\ cycle = 0 /\ running = NoRun
  BY DEF RoutingInit
<1>3. QED
  BY <1>1, <1>2 DEF RoutingInit, RoutingInv, RoutingTypeOK, Remembered

LEMMA RoutingInvNext == RoutingInv /\ [RoutingNext]_routingVars => RoutingInv'
<1> SUFFICES ASSUME RoutingInv, [RoutingNext]_routingVars PROVE RoutingInv'
  OBVIOUS
<1>0. MaxCycles \in Nat \ {0} /\ Allowed \subseteq Model
  BY RoutingConstants
<1> USE DEF RoutingInv, RoutingTypeOK, Remembered
<1>1. CASE Route
  <2>1. model' \in Model
    BY <1>1, SwitchIsDecided
  <2>2. /\ running = NoRun /\ cycle < MaxCycles
        /\ mode' = mode /\ configured' = configured /\ cycle' = cycle
    BY <1>1, Zenon DEF Route
  <2>3. CASE model' = model
    <3>1. lastSwitch' = lastSwitch /\ switches' = switches
      BY <1>1, <2>3, Zenon DEF Route
    <3>2. QED
      BY <2>1, <2>2, <3>1
  <2>4. CASE model' # model
    <3> DEFINE new == [cycle |-> cycle + 1, from |-> model, to |-> model']
    <3>1. lastSwitch' = cycle + 1 /\ switches' = Append(switches, new)
      BY <1>1, <2>4, Zenon DEF Route
    <3>2. cycle \in 0 .. MaxCycles /\ cycle + 1 \in 1 .. MaxCycles
      BY <1>0, <2>2
    <3>3. new \in Switch
      BY <2>1, <3>2 DEF Switch
    <3>4. /\ switches' \in Seq(Switch) /\ Len(switches') = Len(switches) + 1
          /\ Len(switches) \in Nat
          /\ switches'[Len(switches')] = new
          /\ \A i \in 1 .. Len(switches) : switches'[i] = switches[i]
          /\ DOMAIN switches' = 1 .. Len(switches) + 1 /\ DOMAIN switches = 1 .. Len(switches)
      BY <3>1, <3>3
    <3>5. switches' # <<>> /\ Last(switches') = new
      BY <3>4 DEF Last
    <3>6. \A i \in DOMAIN switches' : switches'[i].from # switches'[i].to
      BY <2>4, <3>4
    <3> HIDE DEF new
    <3>7. new.cycle = cycle + 1
      BY DEF new
    <3>8. QED
      BY <2>1, <2>2, <3>1, <3>2, <3>4, <3>5, <3>6, <3>7
  <2>5. QED
    BY <2>3, <2>4
<1>2. CASE Record
  BY <1>0, <1>2 DEF Record
<1>3. CASE Abandon
  BY <1>3 DEF Abandon
<1>4. CASE Configure
  <2>1. PICK m \in Allowed :
          /\ configured' = m /\ model' = m
          /\ running' \in {running, IF running = NoRun THEN NoRun ELSE [running EXCEPT !.model = m]}
    BY <1>4 DEF Configure
  <2>2. running' # NoRun => running # NoRun
    BY <2>1
  <2>3. UNCHANGED <<mode, cycle, lastSwitch, switches>>
    BY <1>4 DEF Configure
  <2>4. QED
    BY <1>0, <2>1, <2>2, <2>3
<1>5. CASE Restart
  BY <1>0, <1>5 DEF Restart
<1>6. CASE UNCHANGED routingVars
  BY <1>6 DEF routingVars
<1>7. QED
  BY <1>1, <1>2, <1>3, <1>4, <1>5, <1>6 DEF RoutingNext

\* Types.
THEOREM RoutingTypeCorrect == RoutingSpec => []RoutingTypeOK
<1>1. RoutingInv => RoutingTypeOK
  BY DEF RoutingInv
<1>2. QED
  BY <1>1, RoutingInvInit, RoutingInvNext, PTL DEF RoutingSpec

\* Only a decision of the router changes the model as a cycle begins: the other steps end a
\* cycle, or leave it as it is.
LEMMA OnlyRouteSwitches ==
  ASSUME [RoutingNext]_routingVars, Switched
  PROVE  Route
  BY Zenon DEF RoutingNext, routingVars, Switched, Record, Abandon, Configure, Restart

\* The exception to the cooldown is made for a model that has done badly.
LEMMA ExceptionLeavesWeak ==
  \A b, to, w, c : Exception(b, to, w, c) => Weak(b[model].figures)
  BY DEF Exception

\* A switch of the router that comes within its cooldown leaves a model that has done badly.
LEMMA SwitchWithinCooldown ==
  ASSUME RoutingInv, [RoutingNext]_routingVars, Switched
  PROVE  /\ CoolingDown => Weak(Figures(Records(model)))
         /\ ~CoolingDown => ~StyleMismatch(model', Regime1)
<1>1. Route /\ model' # model /\ model \in Model
  BY OnlyRouteSwitches DEF Switched, RoutingInv, RoutingTypeOK
<1>2. PICK w, c : ~Holds(Board, model', running'.regime, w, c)
  BY <1>1, SwitchIsDecided
<1>3. CoolingDown => Exception(Board, model', w, c)
  BY <1>2, Zenon DEF Holds
<1>4. Exception(Board, model', w, c) => Weak(Board[model].figures)
  BY ExceptionLeavesWeak
<1>5. ~CoolingDown => ~StyleMismatch(model', running'.regime)
  BY <1>2, Zenon DEF Holds
<1>6. QED
  BY <1>1, <1>3, <1>4, <1>5, BoardFigures, Zenon DEF Regime1

LEMMA SpacedNext ==
  ASSUME RoutingInv, [RoutingNext]_routingVars, Switched, switches # <<>>
  PROVE  cycle + 1 - Last(switches).cycle > Cooldown \/ Weak(Figures(Records(model)))
<1>1. lastSwitch = Last(switches).cycle /\ lastSwitch \in 1 .. MaxCycles /\ cycle \in Int
  <2>1. Last(switches) \in Switch
    BY DEF RoutingInv, Remembered, Last
  <2>2. QED
    BY <2>1 DEF RoutingInv, Remembered, RoutingTypeOK, Switch
<1>2. CASE CoolingDown
  BY <1>2, SwitchWithinCooldown
<1>3. CASE ~CoolingDown
  <2>1. Cooldown \in Nat
    BY RoutingConstants
  <2>2. lastSwitch # 0 /\ ~((cycle + 1) - lastSwitch <= Cooldown)
    BY <1>1, <1>3 DEF CoolingDown
  <2>3. QED
    BY <1>1, <2>1, <2>2
<1>4. QED
  BY <1>2, <1>3

\* Two switches of the router are more than cooldown_cycles apart, unless the model it leaves
\* has done badly; and it takes a model whose style fits the market worse than the present
\* one's and badly only as that exception.
THEOREM SwitchesAlwaysSound == RoutingSpec => SwitchesAreSound
<1>1. RoutingInv /\ [RoutingNext]_routingVars =>
        [Switched /\ switches # <<>> =>
           cycle + 1 - Last(switches).cycle > Cooldown \/ Weak(Figures(Records(model)))]_routingVars
  BY SpacedNext
<1>2. RoutingInv /\ [RoutingNext]_routingVars =>
        [Switched /\ StyleMismatch(model', Regime1) =>
           CoolingDown /\ Weak(Figures(Records(model)))]_routingVars
  BY SwitchWithinCooldown
<1>3. RoutingSpec => []RoutingInv
  BY RoutingInvInit, RoutingInvNext, PTL DEF RoutingSpec
<1>4. RoutingSpec => SwitchesAreSpaced
  BY <1>1, <1>3, PTL DEF RoutingSpec, SwitchesAreSpaced
<1>5. RoutingSpec => StyleRespected
  BY <1>2, <1>3, PTL DEF RoutingSpec, StyleRespected
<1>6. QED
  BY <1>4, <1>5 DEF SwitchesAreSound

---------------------------------------------------------------------------
(* Simulator: the account balances and the stops bind.  Every stage of a   *)
(* day goes through the positions or the plan one by one, so what a single *)
(* purchase or sale keeps is kept by induction over them.                  *)

\* What holds of 0, and of each number up to n when it holds of the number before, holds up to n.
LEMMA InductionUpTo ==
  ASSUME NEW n \in Nat, NEW T, 0 \in T, \A i \in 1 .. n : i - 1 \in T => i \in T
  PROVE  \A i \in 0 .. n : i \in T
<1> DEFINE R == OpToRel(<, Nat)
           Bad == {i \in 0 .. n : i \notin T}
<1>1. IsWellFoundedOn(R, Nat)
  BY NatLessThanWellFounded
<1>2. Bad \subseteq Nat
  OBVIOUS
<1>3. SUFFICES ASSUME Bad # {} PROVE FALSE
  OBVIOUS
<1>4. PICK b \in Bad : \A c \in Bad : ~ (<<c, b>> \in R)
  <2> HIDE DEF R, Bad
  <2> QED
    BY <1>1, <1>2, <1>3, WFMin
<1>5. \A c \in Bad : ~ (c < b)
  BY <1>2, <1>4 DEF OpToRel
<1>6. b # 0 /\ b \in 1 .. n
  OBVIOUS
<1>7. b - 1 \notin Bad
  BY <1>5, <1>6
<1>8. b - 1 \in T
  BY <1>6, <1>7
<1> QED
  BY <1>6, <1>8

\* f goes from value to value by the functions of step and stays in the sets of kept.
Goes(f, m, first, step, kept) ==
  /\ f[0] = first
  /\ \A n \in 1 .. m : f[n] = step[n][f[n - 1]]
  /\ \A n \in 0 .. m : f[n] \in kept[n]

\* A function may be defined step by step, and what each step keeps its values keep.
LEMMA RecursionKeeps ==
  ASSUME NEW L \in Nat, NEW first, NEW step, NEW kept,
         first \in kept[0],
         \A n \in 1 .. L : \A x \in kept[n - 1] : step[n][x] \in kept[n]
  PROVE  \E f : DOMAIN f = 0 .. L /\ f = [n \in 0 .. L |-> f[n]] /\ Goes(f, L, first, step, kept)
<1> DEFINE T == {m \in 0 .. L : \E f : DOMAIN f = 0 .. m /\ Goes(f, m, first, step, kept)}
<1>1. 0 \in T
  <2> DEFINE f == [n \in 0 .. 0 |-> first]
  <2>1. DOMAIN f = 0 .. 0 /\ Goes(f, 0, first, step, kept)
    BY DEF Goes
  <2>2. \E h : DOMAIN h = 0 .. 0 /\ Goes(h, 0, first, step, kept)
    <3> HIDE DEF f
    <3> QED
      BY <2>1
  <2> QED
    BY <2>2
<1>2. ASSUME NEW i \in 1 .. L, i - 1 \in T
      PROVE  i \in T
  <2>1. PICK f : DOMAIN f = 0 .. i - 1 /\ Goes(f, i - 1, first, step, kept)
    BY <1>2
  <2> DEFINE g == [n \in 0 .. i |-> IF n = i THEN step[i][f[i - 1]] ELSE f[n]]
  <2>2. f[i - 1] \in kept[i - 1]
    BY <2>1 DEF Goes
  <2>3. g[0] = first
    BY <2>1 DEF Goes
  <2>4. ASSUME NEW n \in 1 .. i
        PROVE  g[n] = step[n][g[n - 1]]
    <3>1. CASE n = i
      BY <3>1
    <3>2. CASE n # i
      <4>1. n \in 1 .. i - 1 /\ n - 1 \in 0 .. i - 1
        BY <3>2
      <4>2. f[n] = step[n][f[n - 1]]
        BY <2>1, <4>1 DEF Goes
      <4>3. g[n] = f[n] /\ g[n - 1] = f[n - 1]
        BY <3>2
      <4> QED
        BY <4>2, <4>3
    <3> QED
      BY <3>1, <3>2
  <2>5. ASSUME NEW n \in 0 .. i
        PROVE  g[n] \in kept[n]
    <3>1. CASE n = i
      BY <2>2, <3>1
    <3>2. CASE n # i
      <4>1. n \in 0 .. i - 1
        BY <3>2
      <4> QED
        BY <2>1, <3>2, <4>1 DEF Goes
    <3> QED
      BY <3>1, <3>2
  <2>6. DOMAIN g = 0 .. i /\ Goes(g, i, first, step, kept)
    <3> HIDE DEF g
    <3>1. DOMAIN g = 0 .. i
      BY DEF g
    <3> QED
      BY <2>3, <2>4, <2>5, <3>1 DEF Goes
  <2>7. \E h : DOMAIN h = 0 .. i /\ Goes(h, i, first, step, kept)
    <3> HIDE DEF g
    <3> QED
      BY <2>6
  <2> QED
    BY <2>7
<1>3. \A i \in 0 .. L : i \in T
  <2> HIDE DEF T
  <2> QED
    BY <1>1, <1>2, InductionUpTo
<1>4. PICK f : DOMAIN f = 0 .. L /\ Goes(f, L, first, step, kept)
  BY <1>3
<1> DEFINE g == [n \in 0 .. L |-> f[n]]
<1>5. DOMAIN g = 0 .. L /\ g = [n \in 0 .. L |-> g[n]] /\ Goes(g, L, first, step, kept)
  <2>1. \A n \in 0 .. L : g[n] = f[n]
    OBVIOUS
  <2>2. DOMAIN g = 0 .. L
    OBVIOUS
  <2>3. g = [n \in 0 .. L |-> g[n]]
    OBVIOUS
  <2> HIDE DEF g
  <2>4. Goes(g, L, first, step, kept)
    <3>1. \A n \in 1 .. L : n \in 0 .. L /\ n - 1 \in 0 .. L
      OBVIOUS
    <3> QED
      BY <1>4, <2>1, <3>1 DEF Goes
  <2> QED
    BY <2>2, <2>3, <2>4
<1> HIDE DEF g
<1> QED
  BY <1>5

\* The sums of the beginnings of a sequence
SumsOf(s, sum) ==
  /\ sum[0] = 0
  /\ \A n \in 1 .. Len(s) : sum[n] = sum[n - 1] + s[n]
  /\ \A n \in 0 .. Len(s) : sum[n] \in Int
  /\ Total(s) = sum[Len(s)]

\* A sum is made step by step.
LEMMA TotalSums ==
  ASSUME NEW s \in Seq(Int)
  PROVE  \E sum : SumsOf(s, sum)
<1> DEFINE L == Len(s)
           step == [n \in 1 .. L |-> [x \in Int |-> x + s[n]]]
           kept == [n \in 0 .. L |-> Int]
           zero == 0
           sum == CHOOSE g : g = [n \in 0 .. L |-> IF n = 0 THEN 0 ELSE g[n - 1] + s[n]]
<1>1. L \in Nat /\ \A n \in 1 .. L : s[n] \in Int
  OBVIOUS
<1>2. PICK f : f = [n \in 0 .. L |-> f[n]] /\ Goes(f, L, zero, step, kept)
  <2>1. zero \in kept[0]
    BY <1>1
  <2>2. ASSUME NEW n \in 1 .. L, NEW x \in kept[n - 1]
        PROVE  step[n][x] \in kept[n]
    <3>1. n - 1 \in 0 .. L /\ n \in 0 .. L
      BY <1>1
    <3>2. x \in Int /\ s[n] \in Int
      BY <1>1, <3>1
    <3> QED
      BY <3>1, <3>2
  <2> HIDE DEF L, zero, step, kept
  <2> QED
    BY <1>1, <2>1, <2>2, RecursionKeeps
<1>3. \A n \in 0 .. L : f[n] \in Int
  BY <1>2 DEF Goes
<1>4. f[0] = 0 /\ \A n \in 1 .. L : f[n] = f[n - 1] + s[n]
  <2>1. ASSUME NEW n \in 1 .. L
        PROVE  f[n] = f[n - 1] + s[n]
    <3>1. f[n - 1] \in Int
      BY <1>1, <1>3
    <3> QED
      BY <1>2, <3>1 DEF Goes
  <2> QED
    BY <1>2, <2>1 DEF Goes
<1>5. f = [n \in 0 .. L |-> IF n = 0 THEN 0 ELSE f[n - 1] + s[n]]
  <2>1. \A n \in 0 .. L : f[n] = IF n = 0 THEN 0 ELSE f[n - 1] + s[n]
    BY <1>1, <1>4
  <2> QED
    BY <1>2, <2>1
<1>6. sum = [n \in 0 .. L |-> IF n = 0 THEN 0 ELSE sum[n - 1] + s[n]]
  BY <1>5
<1>7. Total(s) = sum[L]
  BY DEF Total
<1> HIDE DEF sum
<1>8. sum[0] = 0 /\ \A n \in 1 .. L : sum[n] = sum[n - 1] + s[n]
  BY <1>1, <1>6
<1>9. \A n \in 0 .. L : sum[n] \in Int
  <2> DEFINE T == {n \in 0 .. L : sum[n] \in Int}
  <2>1. 0 \in T /\ \A n \in 1 .. L : n - 1 \in T => n \in T
    BY <1>1, <1>8
  <2>2. \A n \in 0 .. L : n \in T
    <3> HIDE DEF T, L
    <3> QED
      BY <1>1, <2>1, InductionUpTo
  <2> QED
    BY <2>2
<1>10. SumsOf(s, sum)
  BY <1>7, <1>8, <1>9 DEF SumsOf
<1> QED
  BY <1>10

LEMMA TotalIsNumber ==
  ASSUME NEW s \in Seq(Int)
  PROVE  Total(s) \in Int
<1>1. PICK sum : SumsOf(s, sum)
  BY TotalSums
<1> QED
  BY <1>1 DEF SumsOf

\* The sum of a longer sequence: both sums go through the same values.
LEMMA TotalAppended ==
  ASSUME NEW s \in Seq(Int), NEW x \in Int
  PROVE  Total(Append(s, x)) = Total(s) + x
<1> DEFINE t == Append(s, x)
           L == Len(s)
<1>1. t \in Seq(Int) /\ Len(t) = L + 1 /\ L \in Nat
  OBVIOUS
<1>2. t[L + 1] = x /\ \A n \in 1 .. L : t[n] = s[n]
  OBVIOUS
<1> HIDE DEF t
<1>3. PICK sum : SumsOf(s, sum)
  BY TotalSums
<1>4. PICK more : SumsOf(t, more)
  BY <1>1, TotalSums
<1> DEFINE T == {n \in 0 .. L : more[n] = sum[n]}
<1>5. 0 \in T
  BY <1>1, <1>3, <1>4 DEF SumsOf
<1>6. ASSUME NEW n \in 1 .. L, n - 1 \in T PROVE n \in T
  <2>1. n \in 1 .. L + 1
    BY <1>1
  <2> QED
    BY <1>1, <1>2, <1>3, <1>4, <1>6, <2>1 DEF SumsOf
<1>7. \A n \in 0 .. L : n \in T
  <2> HIDE DEF T, L
  <2> QED
    BY <1>1, <1>5, <1>6, InductionUpTo
<1>8. more[L] = sum[L]
  BY <1>1, <1>7
<1>9. more[L + 1] = more[L] + x
  BY <1>1, <1>2, <1>4 DEF SumsOf
<1>10. Total(t) = more[L + 1] /\ Total(s) = sum[L]
  BY <1>1, <1>3, <1>4 DEF SumsOf
<1> QED
  BY <1>8, <1>9, <1>10 DEF t

\* A change of one element changes the sum by as much.
LEMMA TotalChanged ==
  ASSUME NEW s \in Seq(Int), NEW t \in Seq(Int), Len(t) = Len(s), NEW i \in 1 .. Len(s),
         \A n \in 1 .. Len(s) : n # i => t[n] = s[n]
  PROVE  Total(t) = Total(s) - s[i] + t[i]
<1> DEFINE L == Len(s)
           d == t[i] - s[i]
<1>1. L \in Nat /\ s[i] \in Int /\ t[i] \in Int /\ d \in Int
  OBVIOUS
<1>2. PICK sum : SumsOf(s, sum)
  BY TotalSums
<1>3. PICK new : SumsOf(t, new)
  BY TotalSums
<1> DEFINE T == {n \in 0 .. L : new[n] = IF n < i THEN sum[n] ELSE sum[n] + d}
<1>4. 0 \in T
  BY <1>1, <1>2, <1>3 DEF SumsOf
<1>5. ASSUME NEW n \in 1 .. L, n - 1 \in T PROVE n \in T
  <2>1. n - 1 \in 0 .. L /\ n \in 0 .. L
    BY <1>1
  <2>2. new[n - 1] = IF n - 1 < i THEN sum[n - 1] ELSE sum[n - 1] + d
    BY <1>5
  <2>3. new[n] = new[n - 1] + t[n] /\ sum[n] = sum[n - 1] + s[n]
    BY <1>2, <1>3 DEF SumsOf
  <2>4. new[n - 1] \in Int /\ sum[n - 1] \in Int /\ s[n] \in Int /\ t[n] \in Int
    <3>1. s[n] \in Int /\ t[n] \in Int
      OBVIOUS
    <3>2. n - 1 \in 0 .. Len(t)
      BY <2>1
    <3> QED
      BY <1>2, <1>3, <2>1, <3>1, <3>2 DEF SumsOf
  <2>5. n # i => t[n] = s[n]
    OBVIOUS
  <2>6. n = i => t[n] = s[n] + d
    BY <1>1
  <2> HIDE DEF d
  <2> SUFFICES new[n] = IF n < i THEN sum[n] ELSE sum[n] + d
    BY <2>1
  <2>7. CASE n < i
    BY <1>1, <2>2, <2>3, <2>4, <2>5, <2>7
  <2>8. CASE n = i
    BY <1>1, <2>2, <2>3, <2>4, <2>6, <2>8
  <2>9. CASE n > i
    <3>1. ~(n - 1 < i) /\ ~(n < i) /\ t[n] = s[n]
      BY <1>1, <2>5, <2>9
    <3>2. new[n] = sum[n - 1] + d + s[n]
      BY <2>2, <2>3, <3>1
    <3>3. new[n] = sum[n] + d
      BY <1>1, <2>3, <2>4, <3>2
    <3> QED
      BY <3>1, <3>3
  <2> QED
    BY <1>1, <2>7, <2>8, <2>9
<1>6. \A n \in 0 .. L : n \in T
  <2> HIDE DEF T, L
  <2> QED
    BY <1>1, <1>4, <1>5, InductionUpTo
<1>7. new[L] = sum[L] + d /\ sum[L] \in Int
  BY <1>1, <1>2, <1>6 DEF SumsOf
<1>8. Total(t) = new[L] /\ Total(s) = sum[L]
  BY <1>2, <1>3 DEF SumsOf
<1> QED
  BY <1>1, <1>7, <1>8

\* Without one element the sum is less by that element.
Without(s, i, t) ==
  /\ Len(t) = Len(s) - 1
  /\ \A n \in 1 .. Len(t) : t[n] = IF n < i THEN s[n] ELSE s[n + 1]

LEMMA TotalWithout ==
  ASSUME NEW s \in Seq(Int), NEW t \in Seq(Int), NEW i \in 1 .. Len(s), Without(s, i, t)
  PROVE  Total(t) = Total(s) - s[i]
<1> DEFINE L == Len(t)
<1>1. L \in Nat /\ Len(s) = L + 1 /\ s[i] \in Int
  BY DEF Without
<1>2. PICK sum : SumsOf(s, sum)
  BY TotalSums
<1>3. PICK new : SumsOf(t, new)
  BY TotalSums
<1> DEFINE T == {n \in 0 .. L : new[n] = IF n < i THEN sum[n] ELSE sum[n + 1] - s[i]}
<1>4. 0 \in T
  BY <1>1, <1>2, <1>3 DEF SumsOf
<1>5. ASSUME NEW n \in 1 .. L, n - 1 \in T PROVE n \in T
  <2>1. /\ n - 1 \in 0 .. L /\ n \in 0 .. L /\ n - 1 \in 0 .. Len(s)
        /\ n \in 1 .. Len(s) /\ n + 1 \in 1 .. Len(s)
    BY <1>1
  <2>2. new[n - 1] = IF n - 1 < i THEN sum[n - 1] ELSE sum[n] - s[i]
    BY <1>5
  <2>3. new[n] = new[n - 1] + t[n]
    BY <1>3 DEF SumsOf
  <2>4. sum[n] = sum[n - 1] + s[n] /\ sum[n + 1] = sum[n] + s[n + 1]
    <3>1. (n + 1) - 1 = n
      OBVIOUS
    <3> QED
      BY <1>2, <2>1, <3>1 DEF SumsOf
  <2>5. new[n - 1] \in Int /\ sum[n - 1] \in Int /\ sum[n] \in Int /\ sum[n + 1] \in Int
             /\ s[n] \in Int /\ s[n + 1] \in Int
    <3>1. n \in 0 .. Len(s) /\ n + 1 \in 0 .. Len(s)
      BY <1>1
    <3>2. s[n] \in Int /\ s[n + 1] \in Int
      BY <2>1
    <3> QED
      BY <1>2, <1>3, <2>1, <3>1, <3>2 DEF SumsOf
  <2>6. t[n] = IF n < i THEN s[n] ELSE s[n + 1]
    BY DEF Without
  <2> SUFFICES new[n] = IF n < i THEN sum[n] ELSE sum[n + 1] - s[i]
    BY <2>1
  <2>7. CASE n < i
    BY <1>1, <2>2, <2>3, <2>4, <2>5, <2>6, <2>7
  <2>8. CASE n = i
    <3>1. n - 1 < i /\ ~(n < i) /\ t[n] = s[n + 1] /\ s[n] = s[i]
      BY <2>6, <2>8
    <3>2. new[n] = sum[n - 1] + s[n + 1] /\ sum[n] = sum[n - 1] + s[i]
      BY <2>2, <2>3, <2>4, <3>1
    <3>3. new[n] = sum[n + 1] - s[i]
      <4>1. PICK x \in Int : x = sum[n - 1]
        BY <2>5
      <4>2. PICK v \in Int : v = s[n + 1]
        BY <2>5
      <4>3. PICK e \in Int : e = s[i]
        BY <1>1
      <4>4. new[n] = x + v /\ sum[n + 1] = (x + e) + v
        BY <2>4, <3>2, <4>1, <4>2, <4>3
      <4> QED
        BY <4>3, <4>4
    <3> QED
      BY <3>1, <3>3
  <2>9. CASE n > i
    <3>1. ~(n - 1 < i) /\ ~(n < i) /\ t[n] = s[n + 1]
      BY <1>1, <2>6, <2>9
    <3>2. new[n] = (sum[n] - s[i]) + s[n + 1]
      BY <2>2, <2>3, <3>1
    <3>3. new[n] = sum[n + 1] - s[i]
      <4>1. PICK x \in Int : x = sum[n]
        BY <2>5
      <4>2. PICK v \in Int : v = s[n + 1]
        BY <2>5
      <4>3. PICK e \in Int : e = s[i]
        BY <1>1
      <4>4. new[n] = (x - e) + v /\ sum[n + 1] = x + v
        BY <2>4, <3>2, <4>1, <4>2, <4>3
      <4> QED
        BY <4>3, <4>4
    <3> QED
      BY <3>1, <3>3
  <2> QED
    BY <1>1, <2>7, <2>8, <2>9
<1>6. \A n \in 0 .. L : n \in T
  <2> HIDE DEF T, L
  <2> QED
    BY <1>1, <1>4, <1>5, InductionUpTo
<1>7. new[L] = sum[L + 1] - s[i]
  <2>1. new[L] = IF L < i THEN sum[L] ELSE sum[L + 1] - s[i]
    <3>1. L \in 0 .. L
      BY <1>1
    <3> QED
      BY <1>6, <3>1
  <2>2. L < i => i = L + 1
    BY <1>1
  <2>3. sum[L + 1] = sum[L] + s[L + 1] /\ sum[L] \in Int
    <3>1. (L + 1) - 1 = L /\ L + 1 \in 1 .. Len(s) /\ L \in 0 .. Len(s)
      BY <1>1
    <3> QED
      BY <1>2, <3>1 DEF SumsOf
  <2> QED
    BY <1>1, <2>1, <2>2, <2>3
<1>8. Total(t) = new[L] /\ Total(s) = sum[L + 1]
  BY <1>1, <1>2, <1>3 DEF SumsOf
<1> QED
  BY <1>7, <1>8

\* RemoveAt, element by element
LEMMA RemovedAt ==
  ASSUME NEW S, NEW s \in Seq(S), NEW i \in 1 .. Len(s)
  PROVE  /\ RemoveAt(s, i) \in Seq(S)
         /\ Len(RemoveAt(s, i)) = Len(s) - 1
         /\ \A n \in 1 .. Len(s) - 1 :
              RemoveAt(s, i)[n] = IF n < i THEN s[n] ELSE s[n + 1]
<1> DEFINE a == SubSeq(s, 1, i - 1)
           z == SubSeq(s, i + 1, Len(s))
<1>1. a \in Seq(S) /\ Len(a) = i - 1 /\ \A n \in 1 .. i - 1 : a[n] = s[n]
  OBVIOUS
<1>2. z \in Seq(S) /\ Len(z) = Len(s) - i /\ \A n \in 1 .. Len(s) - i : z[n] = s[n + i]
  OBVIOUS
<1>3. RemoveAt(s, i) = a \o z
  BY DEF RemoveAt
<1> HIDE DEF a, z
<1>4. /\ a \o z \in Seq(S) /\ Len(a \o z) = Len(a) + Len(z)
      /\ \A n \in 1 .. Len(a) + Len(z) : (a \o z)[n] = IF n <= Len(a) THEN a[n] ELSE z[n - Len(a)]
  BY <1>1, <1>2, ConcatProperties
<1>5. Len(a) + Len(z) = Len(s) - 1 /\ Len(s) \in Nat
  BY <1>1, <1>2
<1>6. ASSUME NEW n \in 1 .. Len(s) - 1
      PROVE  (a \o z)[n] = IF n < i THEN s[n] ELSE s[n + 1]
  <2>1. CASE n < i
    <3>1. n \in 1 .. i - 1 /\ n <= Len(a)
      BY <1>1, <2>1
    <3> QED
      BY <1>1, <1>4, <1>5, <2>1, <3>1
  <2>2. CASE ~(n < i)
    <3>1. ~(n <= Len(a)) /\ n - (i - 1) \in 1 .. Len(s) - i /\ (n - (i - 1)) + i = n + 1
      BY <1>1, <1>5, <2>2
    <3>2. z[n - (i - 1)] = s[(n - (i - 1)) + i]
      BY <1>2, <3>1
    <3> QED
      BY <1>1, <1>4, <1>5, <2>2, <3>1, <3>2
  <2> QED
    BY <2>1, <2>2
<1> QED
  BY <1>3, <1>4, <1>5, <1>6

---------------------------------------------------------------------------
LEMMA TraderNumbers ==
  /\ MaxPositions \in Nat \ {0} /\ Days \in Nat \ {0} /\ Capital \in Nat \ {0}
  /\ Lot \in Nat \ {0} /\ LossDays \in Nat \ {0}
  /\ Slippage \in Nat /\ 100 - Slippage \in Nat /\ Commission \in Nat
  /\ 100 - Commission - StampTax \in Nat /\ 100 - StopLoss \in Nat /\ TakeProfit \in Nat
  /\ \A x \in Quotes \cup {0} : x \in Nat
  /\ Plans \subseteq Seq([code : Stocks, weight : Nat, trail : Nat])
<1>1. {MaxPositions, Days, Capital, Lot, LossDays} \subseteq Nat \ {0}
  BY TraderConstants DEF TraderConstants
<1>2. {Slippage, Commission, StampTax, StopLoss, TakeProfit} \subseteq 0 .. 99
  BY TraderConstants DEF TraderConstants
<1>3. Commission + StampTax <= 100 /\ Quotes \subseteq Nat \ {0}
  BY TraderConstants DEF TraderConstants
<1>4. MaxPositions \in Nat \ {0} /\ Days \in Nat \ {0} /\ Capital \in Nat \ {0}
      /\ Lot \in Nat \ {0} /\ LossDays \in Nat \ {0}
  BY <1>1, Zenon
<1>5. Slippage \in 0 .. 99 /\ Commission \in 0 .. 99 /\ StampTax \in 0 .. 99
      /\ StopLoss \in 0 .. 99 /\ TakeProfit \in 0 .. 99
  BY <1>2, Zenon
<1>6. Plans \subseteq Seq([code : Stocks, weight : Nat, trail : Nat])
  BY TraderConstants DEF TraderConstants
<1>7. \A x \in Quotes \cup {0} : x \in Nat
  BY <1>3
<1>8. /\ Slippage \in Nat /\ 100 - Slippage \in Nat /\ Commission \in Nat
      /\ 100 - StopLoss \in Nat /\ TakeProfit \in Nat
  BY <1>5
<1>9. 100 - Commission - StampTax \in Nat
  BY <1>3, <1>5
<1> QED
  BY <1>4, <1>6, <1>7, <1>8, <1>9

\* No stock has two positions.
Distinct(positions) ==
  \A i, j \in DOMAIN positions : positions[i].code = positions[j].code => i = j

\* The equation of AccountsBalance, and what a sale and a purchase make of it
Even(cash, cost, capital, realised, excess) == cash + cost = capital + realised - excess

LEMMA EvenAfterSale ==
  ASSUME NEW cash \in Int, NEW cost \in Int, NEW capital \in Int, NEW realised \in Int,
         NEW excess \in Int, NEW net \in Int, NEW sold \in Int,
         Even(cash, cost, capital, realised, excess)
  PROVE  Even(cash + net, cost - sold, capital, realised + net - sold, excess)
BY DEF Even

LEMMA EvenAfterPurchase ==
  ASSUME NEW cash \in Int, NEW cost \in Int, NEW capital \in Int, NEW realised \in Int,
         NEW excess \in Int, NEW paid \in Int, NEW due \in Int, NEW fee \in Int,
         Even(cash, cost, capital, realised, excess)
  PROVE  Even(cash - paid - fee, cost + (paid + due), capital, realised, excess + fee - due)
BY DEF Even

Balanced(b) ==
  /\ b.cash >= 0
  /\ Even(b.cash, Total(Costs(b.positions)), 100 * Capital, b.realised, b.excess)

Account(b) == b \in Book /\ Distinct(b.positions) /\ Balanced(b)

LEMMA CostIsNumber ==
  ASSUME NEW n \in Nat, NEW at \in Nat
  PROVE  Cost(n, at) \in Nat
<1>1. Commission \in Nat
  BY TraderNumbers
<1>2. n * at \in Nat /\ 100 + Commission \in Nat
  BY <1>1
<1>3. \A x, y \in Nat : x * y \in Nat
  OBVIOUS
<1> QED
  BY <1>2, <1>3 DEF Cost

\* A cost is that of the shares sold and that of the rest.
LEMMA CostIsShared ==
  ASSUME NEW m \in Nat, NEW n \in Nat, NEW at \in Nat, n <= m
  PROVE  Cost(m, at) = Cost(n, at) + Cost(m - n, at)
<1>1. Commission \in Nat
  BY TraderNumbers
<1>2. PICK k \in Nat : k = 100 + Commission
  BY <1>1
<1>3. m * at * k = n * at * k + (m - n) * at * k
  BY <1>2
<1> QED
  BY <1>2, <1>3 DEF Cost

LEMMA CostsAreNumbers ==
  ASSUME NEW s \in Seq(Position)
  PROVE  Costs(s) \in Seq(Int) /\ Len(Costs(s)) = Len(s)
<1>1. ASSUME NEW i \in DOMAIN s
      PROVE  Cost(s[i].shares, s[i].price) \in Int
  <2>1. s[i] \in Position
    OBVIOUS
  <2>2. s[i].shares \in Nat /\ s[i].price \in Nat
    BY <2>1 DEF Position
  <2>3. Cost(s[i].shares, s[i].price) \in Nat
    BY <2>2, CostIsNumber, Zenon
  <2> QED
    BY <2>3
<1>2. DOMAIN s = 1 .. Len(s) /\ Len(s) \in Nat
  OBVIOUS
<1>3. Costs(s) \in [1 .. Len(s) -> Int]
  BY <1>1, <1>2 DEF Costs
<1> QED
  BY <1>2, <1>3

\* Positions that differ in stops, highs and days held only have the same costs.
Alike(s, t) ==
  /\ Len(s) = Len(t)
  /\ \A i \in 1 .. Len(s) :
       s[i].code = t[i].code /\ s[i].shares = t[i].shares /\ s[i].price = t[i].price

LEMMA AlikeBalance ==
  ASSUME NEW b, Account(b), NEW t \in Seq(Position), Alike(b.positions, t)
  PROVE  Account([b EXCEPT !.positions = t])
<1> DEFINE s == b.positions
           c == [b EXCEPT !.positions = t]
<1>1. s \in Seq(Position) /\ c \in Book /\ c.positions = t
  BY DEF Account, Book
<1>2. DOMAIN s = 1 .. Len(s) /\ DOMAIN t = 1 .. Len(s)
  BY <1>1 DEF Alike
<1>3. Costs(t) = Costs(s)
  <2>1. \A i \in 1 .. Len(s) : Cost(t[i].shares, t[i].price) = Cost(s[i].shares, s[i].price)
    BY DEF Alike
  <2> QED
    BY <1>2, <2>1 DEF Costs
<1>4. Distinct(t)
  BY <1>2 DEF Account, Distinct, Alike
<1>5. c.cash = b.cash /\ c.realised = b.realised /\ c.excess = b.excess
  BY DEF Account, Book
<1>6. Balanced(c)
  BY <1>1, <1>3, <1>5 DEF Account, Balanced
<1> QED
  BY <1>1, <1>4, <1>6 DEF Account

---------------------------------------------------------------------------
\* Where the positions are when n shares of one of them are sold
LEMMA LeftIs ==
  ASSUME NEW s \in Seq(Position), Distinct(s), NEW i \in 1 .. Len(s), NEW n \in 1 .. s[i].shares
  PROVE  LET t == Left(s, s[i], n)
         IN  /\ t \in Seq(Position)
             /\ Distinct(t)
             /\ Len(t) <= Len(s)
             /\ Total(Costs(t)) = Total(Costs(s)) - Cost(n, s[i].price)
             /\ \A q \in ToSet(t) :
                  \/ \E j \in 1 .. Len(s) : j # i /\ q = s[j]
                  \/ n < s[i].shares /\ q = Rest(s[i], n)
             /\ \A j \in 1 .. Len(s) : j # i => s[j] \in ToSet(t)
<1> DEFINE p == s[i]
           t == Left(s, p, n)
<1>1. Len(s) \in Nat /\ DOMAIN s = 1 .. Len(s) /\ p \in Position
  OBVIOUS
<1>2. p.shares \in Nat \ {0} /\ p.price \in Nat /\ n \in Nat
  BY <1>1 DEF Position
<1>3. (CHOOSE j \in DOMAIN s : s[j].code = p.code) = i
  BY <1>1 DEF Distinct
<1>4. Costs(s) \in Seq(Int) /\ Len(Costs(s)) = Len(s)
  BY CostsAreNumbers
<1>5. \A j \in 1 .. Len(s) : Costs(s)[j] = Cost(s[j].shares, s[j].price)
  BY <1>1 DEF Costs
<1>6. CASE n < p.shares
  <2>1. t = [s EXCEPT ![i] = Rest(p, n)]
    BY <1>3, <1>6 DEF Left
  <2>2. Rest(p, n) \in Position
    <3>1. p.shares - n \in Nat \ {0}
      BY <1>2, <1>6
    <3> QED
      BY <1>1, <3>1 DEF Position, Rest
  <2>3. Rest(p, n).code = p.code /\ Rest(p, n).price = p.price /\ Rest(p, n).shares = p.shares - n
    BY <1>1 DEF Position, Rest
  <2> HIDE DEF p, t
  <2>4. /\ t \in Seq(Position) /\ Len(t) = Len(s) /\ t[i] = Rest(p, n)
        /\ \A j \in 1 .. Len(s) : j # i => t[j] = s[j]
    BY <1>1, <2>1, <2>2
  <2>5. DOMAIN t = 1 .. Len(s)
    BY <2>4
  <2>6. \A j \in 1 .. Len(s) : t[j].code = s[j].code
    BY <2>3, <2>4 DEF p
  <2>7. Distinct(t)
    BY <1>1, <2>5, <2>6 DEF Distinct
  <2>8. Costs(t) \in Seq(Int) /\ Len(Costs(t)) = Len(s)
    BY <2>4, CostsAreNumbers
  <2>9. \A j \in 1 .. Len(s) : Costs(t)[j] = Cost(t[j].shares, t[j].price)
    BY <2>5 DEF Costs
  <2>10. Total(Costs(t)) = Total(Costs(s)) - Costs(s)[i] + Costs(t)[i]
    <3>1. \A j \in 1 .. Len(Costs(s)) : j # i => Costs(t)[j] = Costs(s)[j]
      BY <1>4, <1>5, <2>4, <2>9
    <3> QED
      BY <1>4, <2>8, <3>1, TotalChanged
  <2>11. Costs(s)[i] = Cost(n, p.price) + Costs(t)[i]
    <3>1. Cost(p.shares, p.price) = Cost(n, p.price) + Cost(p.shares - n, p.price)
      <4>1. p.shares \in Nat /\ p.price \in Nat /\ n \in Nat /\ n <= p.shares
        BY <1>2, <1>6
      <4> QED
        BY <4>1, CostIsShared
    <3>2. Costs(s)[i] = Cost(p.shares, p.price)
      BY <1>5 DEF p
    <3>3. Costs(t)[i] = Cost(p.shares - n, p.price)
      BY <2>3, <2>4, <2>9
    <3> QED
      BY <3>1, <3>2, <3>3
  <2>12. Total(Costs(t)) = Total(Costs(s)) - Cost(n, p.price)
    <3>1. Total(Costs(s)) \in Int /\ Costs(s)[i] \in Int /\ Costs(t)[i] \in Int
      BY <1>4, <2>8, TotalIsNumber
    <3>2. Cost(n, p.price) \in Nat
      BY <1>2, CostIsNumber, Zenon
    <3> QED
      BY <2>10, <2>11, <3>1, <3>2
  <2>13. ASSUME NEW q \in ToSet(t)
         PROVE  (\E j \in 1 .. Len(s) : j # i /\ q = s[j]) \/ q = Rest(p, n)
    <3>1. PICK j \in 1 .. Len(s) : q = t[j]
      BY <2>5 DEF ToSet
    <3> QED
      BY <2>4, <3>1
  <2>14. \A j \in 1 .. Len(s) : j # i => s[j] \in ToSet(t)
    BY <2>4, <2>5 DEF ToSet
  <2> QED
    BY <1>1, <1>6, <2>4, <2>7, <2>12, <2>13, <2>14 DEF p, t
<1>7. CASE n = p.shares
  <2>1. t = RemoveAt(s, i)
    <3>1. ~(n < p.shares)
      BY <1>2, <1>7
    <3> HIDE DEF p
    <3> QED
      BY <1>3, <3>1, Zenon DEF Left
  <2> HIDE DEF p, t
  <2>2. /\ t \in Seq(Position) /\ Len(t) = Len(s) - 1
        /\ \A j \in 1 .. Len(s) - 1 : t[j] = IF j < i THEN s[j] ELSE s[j + 1]
    BY <2>1, RemovedAt
  <2>3. DOMAIN t = 1 .. Len(s) - 1 /\ Len(t) \in Nat
    BY <2>2
  <2>4. ASSUME NEW j \in 1 .. Len(s) - 1
        PROVE  \E k \in 1 .. Len(s) : k # i /\ k = (IF j < i THEN j ELSE j + 1) /\ t[j] = s[k]
    BY <1>1, <2>2
  <2>5. Distinct(t)
    <3> SUFFICES ASSUME NEW j \in 1 .. Len(s) - 1, NEW k \in 1 .. Len(s) - 1, t[j].code = t[k].code
                 PROVE  j = k
      BY <2>3 DEF Distinct
    <3>1. PICK x \in 1 .. Len(s) : x = (IF j < i THEN j ELSE j + 1) /\ t[j] = s[x]
      BY <2>4
    <3>2. PICK y \in 1 .. Len(s) : y = (IF k < i THEN k ELSE k + 1) /\ t[k] = s[y]
      BY <2>4
    <3>3. x = y
      BY <1>1, <3>1, <3>2 DEF Distinct
    <3> QED
      BY <3>1, <3>2, <3>3
  <2>6. Costs(t) \in Seq(Int) /\ Len(Costs(t)) = Len(s) - 1
    BY <2>2, CostsAreNumbers
  <2>7. \A j \in 1 .. Len(s) - 1 : Costs(t)[j] = Cost(t[j].shares, t[j].price)
    BY <2>3 DEF Costs
  <2>8. Total(Costs(t)) = Total(Costs(s)) - Costs(s)[i]
    <3>1. ASSUME NEW j \in 1 .. Len(Costs(t))
          PROVE  Costs(t)[j] = IF j < i THEN Costs(s)[j] ELSE Costs(s)[j + 1]
      <4>1. j \in 1 .. Len(s) - 1 /\ j \in 1 .. Len(s) /\ j + 1 \in 1 .. Len(s)
        BY <1>1, <2>6
      <4>2. t[j] = IF j < i THEN s[j] ELSE s[j + 1]
        BY <2>2, <4>1
      <4> QED
        BY <1>5, <2>7, <4>1, <4>2
    <3>2. i \in 1 .. Len(Costs(s)) /\ Without(Costs(s), i, Costs(t))
      BY <1>4, <2>6, <3>1 DEF Without
    <3> QED
      BY <1>4, <2>6, <3>2, TotalWithout
  <2>9. Total(Costs(t)) = Total(Costs(s)) - Cost(n, p.price)
    BY <1>5, <1>7, <2>8 DEF p
  <2>10. \A q \in ToSet(t) : \E j \in 1 .. Len(s) : j # i /\ q = s[j]
    BY <2>3, <2>4 DEF ToSet
  <2>11. ASSUME NEW j \in 1 .. Len(s), j # i
         PROVE  s[j] \in ToSet(t)
    <3>1. PICK k \in 1 .. Len(s) - 1 : k = IF j < i THEN j ELSE j - 1
      BY <1>1, <2>11
    <3>2. t[k] = s[j]
      BY <1>1, <2>2, <2>11, <3>1
    <3> QED
      BY <2>3, <3>2 DEF ToSet
  <2>12. Len(t) <= Len(s)
    BY <1>1, <2>2
  <2> QED
    BY <2>2, <2>5, <2>9, <2>10, <2>11, <2>12 DEF p, t
<1> QED
  BY <1>2, <1>6, <1>7

\* A sale of n shares of a position at a price keeps the account.
LEMMA SaleKeeps ==
  ASSUME NEW b, Account(b), NEW i \in 1 .. Len(b.positions),
         NEW n \in 1 .. b.positions[i].shares, NEW at \in Nat, NEW why \in Why
  PROVE  LET c == Sold(b, b.positions[i], n, at, why)
         IN  Account(c) /\ c.positions = Left(b.positions, b.positions[i], n)
<1> DEFINE s == b.positions
           p == s[i]
           t == Left(s, p, n)
           c == Sold(b, p, n, at, why)
           each == Pct(at, 100 - Slippage)
           net == n * each * (100 - Commission - StampTax)
<1>1. b \in Book /\ s \in Seq(Position) /\ Distinct(s)
  BY DEF Account, Book
<1>2. p \in Position
  BY <1>1
<1>3. n \in Nat /\ p.price \in Nat /\ p.code \in Stocks /\ p.entry \in 1 .. Days
  BY <1>2 DEF Position
<1>4. t \in Seq(Position) /\ Distinct(t) /\ Total(Costs(t)) = Total(Costs(s)) - Cost(n, p.price)
  BY <1>1, LeftIs
<1>5. net \in Nat
  <2>1. 100 - Slippage \in Nat /\ 100 - Commission - StampTax \in Nat
    BY TraderNumbers
  <2>2. \A x, y \in Nat : x * y \in Nat
    OBVIOUS
  <2>3. at * (100 - Slippage) \in Nat
    BY <2>1, <2>2
  <2>4. each \in Nat
    BY <2>3 DEF Pct
  <2>5. n * each \in Nat
    BY <1>3, <2>2, <2>4
  <2> HIDE DEF each
  <2> QED
    BY <2>1, <2>2, <2>5
<1>6. Cost(n, p.price) \in Nat
  BY <1>3, CostIsNumber
<1>7. c = [b EXCEPT !.cash = b.cash + net,
                    !.realised = b.realised + net - Cost(n, p.price),
                    !.positions = t,
                    !.sales = b.sales \cup {[code |-> p.code, entry |-> p.entry, why |-> why]}]
  BY DEF Sold
<1> HIDE DEF net, t, c, p, each
<1>8. /\ c.cash = b.cash + net /\ c.realised = b.realised + net - Cost(n, p.price)
      /\ c.positions = t /\ c.excess = b.excess /\ c.bought = b.bought
  BY <1>1, <1>7 DEF Book
<1>9. c \in Book
  <2>1. [code |-> p.code, entry |-> p.entry, why |-> why]
          \in [code : Stocks, entry : 1 .. Days, why : Why]
    BY <1>3
  <2>2. b.cash + net \in Int /\ b.realised + net - Cost(n, p.price) \in Int
    BY <1>1, <1>5, <1>6 DEF Book
  <2> QED
    BY <1>1, <1>4, <1>7, <2>1, <2>2 DEF Book
<1>10. Balanced(c)
  <2>1. b.cash \in Int /\ b.realised \in Int /\ b.excess \in Int
    BY <1>1 DEF Book
  <2>2. Total(Costs(s)) \in Int
    BY <1>1, CostsAreNumbers, TotalIsNumber
  <2>3. 100 * Capital \in Int
    BY TraderNumbers
  <2>4. b.cash >= 0 /\ Even(b.cash, Total(Costs(s)), 100 * Capital, b.realised, b.excess)
    BY DEF Account, Balanced
  <2>5. Even(b.cash + net, Total(Costs(s)) - Cost(n, p.price), 100 * Capital,
             b.realised + net - Cost(n, p.price), b.excess)
    <3>1. net \in Int /\ Cost(n, p.price) \in Int
      BY <1>5, <1>6
    <3> HIDE DEF s
    <3> QED
      BY <2>1, <2>2, <2>3, <2>4, <3>1, EvenAfterSale
  <2>6. b.cash + net >= 0
    BY <1>5, <2>1, <2>4
  <2> QED
    BY <1>4, <1>8, <2>5, <2>6 DEF Balanced
<1> QED
  BY <1>4, <1>8, <1>9, <1>10 DEF Account, c, p, t

---------------------------------------------------------------------------
\* What a position of b becomes when the first n have had their turn
Remains(b, shares, n, i, q) ==
  IF i <= n THEN shares[i] < b.positions[i].shares /\ q = Rest(b.positions[i], shares[i])
  ELSE q = b.positions[i]

\* The book when the first n positions of b have had their turn
Turned(b, shares, n, c) ==
  /\ Account(c)
  /\ Len(c.positions) <= Len(b.positions)
  /\ \A q \in ToSet(c.positions) : \E i \in 1 .. Len(b.positions) : Remains(b, shares, n, i, q)
  /\ \A i \in n + 1 .. Len(b.positions) : b.positions[i] \in ToSet(c.positions)

LEMMA RestOfNone ==
  ASSUME NEW p \in Position
  PROVE  Rest(p, 0) = p
<1> DEFINE q == [p EXCEPT !.shares = p.shares]
<1>1. p.shares - 0 = p.shares
  BY DEF Position
<1>2. Rest(p, 0) = q
  BY <1>1 DEF Rest
<1>3. q = p
  BY DEF Position
<1> QED
  BY <1>2, <1>3

\* One turn keeps what the turns before it made.
LEMMA TurnKeeps ==
  ASSUME NEW b, Account(b), NEW shares,
         \A i \in 1 .. Len(b.positions) : shares[i] \in 0 .. b.positions[i].shares,
         NEW n \in 1 .. Len(b.positions), NEW c, Turned(b, shares, n - 1, c),
         NEW at \in Nat, NEW why \in Why
  PROVE  Turned(b, shares, n, IF shares[n] = 0 THEN c
                              ELSE Sold(c, b.positions[n], shares[n], at, why))
<1> DEFINE s == b.positions
           p == s[n]
<1>1. s \in Seq(Position) /\ Len(s) \in Nat /\ DOMAIN s = 1 .. Len(s) /\ Distinct(s)
  BY DEF Account, Book
<1>2. p \in Position /\ p.shares \in Nat \ {0} /\ shares[n] \in 0 .. p.shares
  <2>1. p \in Position
    BY <1>1
  <2> QED
    BY <2>1 DEF Position
<1>3. /\ c.positions \in Seq(Position) /\ DOMAIN c.positions = 1 .. Len(c.positions)
      /\ Distinct(c.positions)
  BY DEF Turned, Account, Book
<1>4. PICK k \in 1 .. Len(c.positions) : c.positions[k] = p
  <2>1. n \in (n - 1) + 1 .. Len(s)
    BY <1>1
  <2>2. p \in ToSet(c.positions)
    BY <2>1 DEF Turned
  <2> QED
    BY <1>3, <2>2 DEF ToSet
<1>5. ASSUME NEW i \in n + 1 .. Len(s)
      PROVE  i \in 1 .. Len(s) /\ i # n /\ s[i] \in ToSet(c.positions)
  <2>1. i \in (n - 1) + 1 .. Len(s)
    BY <1>1
  <2> QED
    BY <1>1, <2>1 DEF Turned
<1>6. CASE shares[n] = 0
  <2>1. Rest(p, 0) = p
    BY <1>2, RestOfNone
  <2>2. ASSUME NEW q \in ToSet(c.positions)
        PROVE  \E i \in 1 .. Len(s) : Remains(b, shares, n, i, q)
    <3>1. PICK i \in 1 .. Len(s) : Remains(b, shares, n - 1, i, q)
      BY DEF Turned
    <3>2. Remains(b, shares, n, i, q)
      <4>1. CASE i = n
        BY <1>2, <1>6, <2>1, <3>1, <4>1 DEF Remains
      <4>2. CASE i # n
        BY <3>1, <4>2 DEF Remains
      <4> QED
        BY <4>1, <4>2
    <3> QED
      BY <3>2
  <2> QED
    BY <1>5, <1>6, <2>2 DEF Turned
<1>7. CASE shares[n] # 0
  <2> DEFINE d == Sold(c, p, shares[n], at, why)
             t == c.positions
  <2>1. Account(c) /\ shares[n] \in 1 .. t[k].shares /\ t[k] = p
    BY <1>2, <1>4, <1>7 DEF Turned
  <2>2. Account(d) /\ d.positions = Left(t, p, shares[n])
    BY <2>1, SaleKeeps
  <2> HIDE DEF d, t, p, s
  <2>3. /\ Len(Left(t, t[k], shares[n])) <= Len(t)
        /\ \A q \in ToSet(Left(t, t[k], shares[n])) :
             \/ \E j \in 1 .. Len(t) : j # k /\ q = t[j]
             \/ shares[n] < t[k].shares /\ q = Rest(t[k], shares[n])
        /\ \A j \in 1 .. Len(t) : j # k => t[j] \in ToSet(Left(t, t[k], shares[n]))
    <3>1. t \in Seq(Position) /\ Distinct(t) /\ k \in 1 .. Len(t)
      BY <1>3 DEF t
    <3> QED
      BY <2>1, <3>1, LeftIs
  <2>4. Len(d.positions) <= Len(s)
    <3>1. d.positions \in Seq(Position)
      BY <2>2 DEF Account, Book
    <3>2. Len(d.positions) \in Nat /\ Len(t) \in Nat /\ Len(t) <= Len(s)
      BY <1>3, <3>1 DEF Turned, t, s
    <3> QED
      BY <1>1, <2>1, <2>2, <2>3, <3>2
  <2>5. ASSUME NEW q \in ToSet(d.positions)
        PROVE  \E i \in 1 .. Len(s) : Remains(b, shares, n, i, q)
    <3>1. CASE \E j \in 1 .. Len(t) : j # k /\ q = t[j]
      <4>1. PICK j \in 1 .. Len(t) : j # k /\ q = t[j]
        BY <3>1
      <4>2. q \in ToSet(t)
        BY <1>3, <4>1 DEF ToSet, t
      <4>3. PICK i \in 1 .. Len(s) : Remains(b, shares, n - 1, i, q)
        BY <4>2 DEF Turned, t, s
      <4>4. i # n
        <5>1. SUFFICES ASSUME i = n PROVE FALSE
          OBVIOUS
        <5>2. q = p
          BY <4>3, <5>1 DEF Remains, p, s
        <5>3. t[j].code = t[k].code
          BY <2>1, <4>1, <5>2
        <5> QED
          BY <1>3, <4>1, <5>3 DEF Distinct, t
      <4>5. Remains(b, shares, n, i, q)
        BY <4>3, <4>4 DEF Remains
      <4> QED
        BY <4>5
    <3>2. CASE shares[n] < p.shares /\ q = Rest(p, shares[n])
      <4>1. Remains(b, shares, n, n, q)
        BY <3>2 DEF Remains, p, s
      <4> QED
        BY <4>1 DEF s
    <3> QED
      BY <2>1, <2>2, <2>3, <3>1, <3>2
  <2>6. ASSUME NEW i \in n + 1 .. Len(s)
        PROVE  s[i] \in ToSet(d.positions)
    <3>1. PICK j \in 1 .. Len(t) : s[i] = t[j]
      BY <1>3, <1>5 DEF ToSet, t
    <3>2. j # k
      <4>1. SUFFICES ASSUME j = k PROVE FALSE
        OBVIOUS
      <4>2. s[i].code = s[n].code
        BY <2>1, <3>1, <4>1 DEF p
      <4>3. i \in DOMAIN s /\ n \in DOMAIN s /\ i # n
        BY <1>1, <1>5 DEF s
      <4> QED
        BY <1>1, <4>2, <4>3 DEF Distinct
    <3> QED
      BY <2>1, <2>2, <2>3, <3>1, <3>2
  <2>7. Turned(b, shares, n, d)
    BY <2>2, <2>4, <2>5, <2>6 DEF Turned, s
  <2> QED
    BY <1>7, <2>7 DEF d, p, s
<1> QED
  BY <1>6, <1>7

\* After all turns the account balances, and each position left is the rest of one of b's.
LEMMA SoldInTurnKeeps ==
  ASSUME NEW b, Account(b), NEW shares, NEW why \in Why, quote \in Quoted,
         \A i \in 1 .. Len(b.positions) : shares[i] \in 0 .. b.positions[i].shares
  PROVE  Turned(b, shares, Len(b.positions), SoldInTurn(b, shares, why))
<1> DEFINE s == b.positions
           L == Len(s)
           Turn(n, c) == IF shares[n] = 0 THEN c
                         ELSE Sold(c, s[n], shares[n], PriceOf(s[n]), why)
           step == [n \in 1 .. L |-> [c \in Book |-> Turn(n, c)]]
           kept == [n \in 0 .. L |-> {c \in Book : Turned(b, shares, n, c)}]
           after == CHOOSE g : g = [n \in 0 .. L |-> IF n = 0 THEN b ELSE Turn(n, g[n - 1])]
<1>1. s \in Seq(Position) /\ L \in Nat /\ DOMAIN s = 1 .. L
  BY DEF Account, Book
<1>2. \A i \in 1 .. L : PriceOf(s[i]) \in Nat
  <2>1. \A i \in 1 .. L : s[i] \in Position
    BY <1>1
  <2>2. \A x \in Stocks : quote[x].price \in Nat
    BY TraderNumbers DEF Quoted
  <2> QED
    BY <2>1, <2>2 DEF PriceOf, Price, Position
<1>3. Turned(b, shares, 0, b)
  <2>1. \A i \in 1 .. L : s[i] \in ToSet(s)
    BY <1>1 DEF ToSet
  <2>2. ASSUME NEW q \in ToSet(s) PROVE \E i \in 1 .. L : Remains(b, shares, 0, i, q)
    <3>1. PICK i \in 1 .. L : q = s[i]
      BY <1>1 DEF ToSet
    <3> QED
      BY <3>1 DEF Remains
  <2> QED
    BY <1>1, <2>1, <2>2 DEF Turned
<1>4. ASSUME NEW n \in 1 .. L, NEW c, Turned(b, shares, n - 1, c)
      PROVE  Turned(b, shares, n, Turn(n, c))
  BY <1>2, <1>4, TurnKeeps
<1>5. \A n, c : Turned(b, shares, n, c) => c \in Book
  BY DEF Turned, Account
<1> HIDE DEF Turn
<1>6. PICK f : f = [n \in 0 .. L |-> f[n]] /\ Goes(f, L, b, step, kept)
  <2>1. b \in kept[0]
    BY <1>1, <1>3, <1>5
  <2>2. ASSUME NEW n \in 1 .. L, NEW c \in kept[n - 1]
        PROVE  step[n][c] \in kept[n]
    <3>1. n - 1 \in 0 .. L /\ n \in 0 .. L
      BY <1>1
    <3>2. c \in Book /\ Turned(b, shares, n - 1, c)
      BY <3>1
    <3>3. Turned(b, shares, n, Turn(n, c))
      BY <1>4, <3>2
    <3> QED
      BY <1>5, <3>1, <3>2, <3>3
  <2> HIDE DEF L, step, kept
  <2> QED
    BY <1>1, <2>1, <2>2, RecursionKeeps
<1>7. f = [n \in 0 .. L |-> IF n = 0 THEN b ELSE Turn(n, f[n - 1])]
  <2>1. ASSUME NEW n \in 1 .. L
        PROVE  f[n] = Turn(n, f[n - 1])
    <3>1. n - 1 \in 0 .. L
      BY <1>1
    <3>2. f[n - 1] \in Book
      BY <1>6, <3>1 DEF Goes
    <3> QED
      BY <1>6, <3>2 DEF Goes
  <2>2. \A n \in 0 .. L : f[n] = IF n = 0 THEN b ELSE Turn(n, f[n - 1])
    <3>1. f[0] = b
      BY <1>6 DEF Goes
    <3>2. \A n \in 0 .. L : n = 0 \/ n \in 1 .. L
      BY <1>1
    <3>3. \A n \in 1 .. L : n # 0
      BY <1>1
    <3> HIDE DEF L, step, kept
    <3> QED
      BY <2>1, <3>1, <3>2, <3>3, Zenon
  <2> QED
    BY <1>6, <2>2
<1>8. after = [n \in 0 .. L |-> IF n = 0 THEN b ELSE Turn(n, after[n - 1])]
  BY <1>7
<1>9. SoldInTurn(b, shares, why) = after[L]
  BY DEF SoldInTurn, Turn
<1> HIDE DEF after
<1>10. \A n \in 0 .. L : Turned(b, shares, n, after[n])
  <2> DEFINE T == {n \in 0 .. L : Turned(b, shares, n, after[n])}
  <2>1. 0 \in T
    BY <1>1, <1>3, <1>8
  <2>2. ASSUME NEW n \in 1 .. L, n - 1 \in T PROVE n \in T
    <3>1. n \in 0 .. L /\ n # 0 /\ Turned(b, shares, n - 1, after[n - 1])
      BY <1>1, <2>2
    <3>2. after[n] = Turn(n, after[n - 1])
      BY <1>8, <3>1
    <3> QED
      BY <1>4, <3>1, <3>2
  <2>3. \A n \in 0 .. L : n \in T
    <3> HIDE DEF T, L
    <3> QED
      BY <1>1, <2>1, <2>2, InductionUpTo
  <2> QED
    BY <2>3
<1> QED
  BY <1>1, <1>9, <1>10

\* c has of b's positions what is left of them.
Rests(b, shares, c) ==
  /\ Account(c) /\ Len(c.positions) <= Len(b.positions)
  /\ \A q \in ToSet(c.positions) : \E i \in 1 .. Len(b.positions) :
       shares[i] < b.positions[i].shares /\ q = Rest(b.positions[i], shares[i])

LEMMA Sales ==
  ASSUME NEW b, Account(b), NEW shares, NEW why \in Why, quote \in Quoted,
         \A i \in 1 .. Len(b.positions) : shares[i] \in 0 .. b.positions[i].shares
  PROVE  Rests(b, shares, SoldInTurn(b, shares, why))
<1>1. Turned(b, shares, Len(b.positions), SoldInTurn(b, shares, why))
  BY SoldInTurnKeeps
<1>2. \A i \in 1 .. Len(b.positions) : i <= Len(b.positions)
  OBVIOUS
<1> QED
  BY <1>1, <1>2 DEF Turned, Remains, Rests

\* All of some positions is no more than there is of each.
LEMMA AllOfIsSellable ==
  ASSUME NEW s \in Seq(Position), NEW leaving
  PROVE  \A i \in 1 .. Len(s) : AllOf(s, leaving)[i] \in 0 .. s[i].shares
<1> SUFFICES ASSUME NEW i \in 1 .. Len(s) PROVE AllOf(s, leaving)[i] \in 0 .. s[i].shares
  OBVIOUS
<1>1. DOMAIN s = 1 .. Len(s) /\ s[i] \in Position
  OBVIOUS
<1>2. s[i].shares \in Nat
  BY <1>1 DEF Position
<1> QED
  BY <1>1, <1>2 DEF AllOf

---------------------------------------------------------------------------
\* Lots are bought for no more than there is.
LEMMA LotsFit ==
  ASSUME NEW x \in Int, NEW at \in Nat \ {0}
  PROVE  LET n == ((x \div at) \div Lot) * Lot
         IN  n \in Int /\ n * at <= x
<1>1. Lot \in Nat \ {0}
  BY TraderNumbers
<1> DEFINE d == x \div at
           e == d \div Lot
           n == e * Lot
<1>2. d \in Int /\ d * at <= x
  OBVIOUS
<1>3. e \in Int /\ n \in Int /\ n <= d
  BY <1>1, <1>2
<1> HIDE DEF d, n
<1>4. n * at <= d * at
  BY <1>2, <1>3
<1>5. n * at \in Int /\ d * at \in Int
  BY <1>2, <1>3
<1> QED
  BY <1>2, <1>3, <1>4, <1>5 DEF n, d

LEMMA MinOfThree ==
  ASSUME NEW x \in Int, NEW y \in Int, NEW z \in Int
  PROVE  MinOf({x, y, z}) \in Int
<1>1. \E m \in {x, y, z} : \A n \in {x, y, z} : m <= n
  <2>1. CASE x <= y /\ x <= z
    BY <2>1
  <2>2. CASE y <= x /\ y <= z
    BY <2>2
  <2>3. CASE z <= x /\ z <= y
    BY <2>3
  <2> QED
    BY <2>1, <2>2, <2>3
<1>2. MinOf({x, y, z}) \in {x, y, z}
  BY <1>1 DEF MinOf
<1> QED
  BY <1>2

\* A purchase takes no more than the cash; a cut one pays the commission of the uncut.
LEMMA OrderFits ==
  ASSUME NEW b, b \in Book, NEW weight \in Nat, NEW at \in Nat \ {0}
  PROVE  LET order == SharesFor(b, weight, at)
         IN  /\ order[1] \in Int /\ order[2] \in Int
             /\ order[1] > 0 => /\ 100 * order[1] * at + order[2] <= b.cash
                                /\ order[2] >= order[1] * at * Commission
<1> DEFINE budget == MinOf({Pct(Capital, weight), Pct(Capital, 50), b.cash \div 100})
           n == ((budget \div at) \div Lot) * Lot
           fee == n * at * Commission
           m == ((((b.cash - fee) \div 100) \div at) \div Lot) * Lot
           order == SharesFor(b, weight, at)
<1>1. Commission \in Nat /\ Capital \in Nat /\ b.cash \in Int
  BY TraderNumbers DEF Book
<1>2. budget \in Int
  <2>1. Pct(Capital, weight) \in Int /\ Pct(Capital, 50) \in Int /\ b.cash \div 100 \in Int
    BY <1>1 DEF Pct
  <2> QED
    BY <2>1, MinOfThree
<1> HIDE DEF budget
<1>3. n \in Int
  BY <1>2, LotsFit
<1> HIDE DEF n
<1>4. n * at \in Int /\ fee \in Int
  BY <1>1, <1>3
<1> HIDE DEF fee
<1>5. (b.cash - fee) \div 100 \in Int /\ 100 * ((b.cash - fee) \div 100) <= b.cash - fee
  BY <1>1, <1>4
<1>6. m \in Int /\ m * at <= (b.cash - fee) \div 100
  BY <1>5, LotsFit
<1> HIDE DEF m
<1>7. order = IF 100 * n * at + fee <= b.cash THEN <<n, fee>> ELSE <<m, fee>>
  BY DEF SharesFor, budget, n, fee, m
<1> HIDE DEF order
<1>8. 100 * n * at = 100 * (n * at) /\ 100 * m * at = 100 * (m * at) /\ m * at \in Int
  BY <1>3, <1>6
<1>9. CASE 100 * n * at + fee <= b.cash
  <2>1. order[1] = n /\ order[2] = fee
    BY <1>7, <1>9
  <2>2. fee >= n * at * Commission
    BY <1>4 DEF fee
  <2> QED
    BY <1>3, <1>4, <1>9, <2>1, <2>2 DEF order
<1>10. CASE ~(100 * n * at + fee <= b.cash)
  <2>1. order[1] = m /\ order[2] = fee
    BY <1>7, <1>10
  <2>2. 100 * m * at + fee <= b.cash
    BY <1>1, <1>4, <1>5, <1>6, <1>8
  <2>3. m * at <= n * at
    BY <1>1, <1>4, <1>8, <1>10, <2>2
  <2>4. m * at * Commission <= n * at * Commission
    <3>1. \A x, y \in Int, c \in Nat : x <= y => x * c <= y * c
      OBVIOUS
    <3> QED
      BY <1>1, <1>4, <1>8, <2>3, <3>1
  <2>5. fee >= m * at * Commission
    BY <2>4 DEF fee
  <2> QED
    BY <1>4, <1>6, <2>1, <2>2, <2>5 DEF order
<1> QED
  BY <1>9, <1>10

Item == [code : Stocks, weight : Nat, trail : Nat]

\* A purchase of a stock that has no position keeps the account.
LEMMA PurchaseKeeps ==
  ASSUME NEW b, Account(b), NEW item \in Item, quote \in Quoted, day \in 1 .. Days,
         Price(item.code) # 0, item.code \notin {p.code : p \in ToSet(b.positions)}
  PROVE  LET c == Bought(b, item)
         IN  /\ Account(c)
             /\ \/ c.positions = b.positions
                \/ \E p \in Position : p.held = 0 /\ c.positions = Append(b.positions, p)
<1> DEFINE at == Pct(Price(item.code), 100 + Slippage)
           order == SharesFor(b, item.weight, at)
           n == order[1]
           s == b.positions
           new == [code |-> item.code, entry |-> day, price |-> at, shares |-> n,
                   stop |-> Pct(at, 100 - StopLoss),
                   take |-> IF item.trail > 0 THEN 0 ELSE Pct(at, 100 + TakeProfit),
                   trail |-> item.trail, high |-> at, held |-> 0]
           c == [b EXCEPT !.cash = b.cash - 100 * n * at - order[2],
                          !.excess = b.excess + order[2] - n * at * Commission,
                          !.positions = Append(s, new),
                          !.bought = b.bought \cup {item.code}]
<1>1. Bought(b, item) = IF b.cash <= 0 \/ n <= 0 THEN b ELSE c
  BY DEF Bought
<1>2. b \in Book /\ s \in Seq(Position) /\ Distinct(s) /\ b.cash \in Int
  BY DEF Account, Book
<1>3. item.code \in Stocks /\ item.weight \in Nat /\ item.trail \in Nat
  BY DEF Item
<1>4. at \in Nat \ {0}
  <2>1. Price(item.code) \in Nat \ {0} /\ Slippage \in Nat
    BY <1>3, TraderNumbers DEF Price, Quoted
  <2>2. PICK x \in Nat : x = Price(item.code) * (100 + Slippage) /\ x >= 100
    <3>1. \A u, v \in Nat : u >= 1 /\ v >= 100 => u * v \in Nat /\ u * v >= 100
      OBVIOUS
    <3> QED
      BY <2>1, <3>1
  <2>3. x \div 100 \in Nat \ {0}
    BY <2>2
  <2> QED
    BY <2>2, <2>3 DEF Pct
<1> HIDE DEF at
<1>5. /\ n \in Int /\ order[2] \in Int
      /\ n > 0 => 100 * n * at + order[2] <= b.cash /\ order[2] >= n * at * Commission
  BY <1>2, <1>3, <1>4, OrderFits
<1> HIDE DEF order
<1>6. ASSUME n > 0
      PROVE  Account(c) /\ new \in Position /\ c.positions = Append(s, new)
  <2>1. new \in Position
    <3>1. \A x \in Nat, r \in Nat : Pct(x, r) \in Nat
      <4>1. \A x, r \in Nat : x * r \in Nat
        OBVIOUS
      <4>2. \A y \in Nat : y \div 100 \in Nat
        OBVIOUS
      <4> QED
        BY <4>1, <4>2 DEF Pct
    <3>2. 100 - StopLoss \in Nat /\ 100 + TakeProfit \in Nat
      BY TraderNumbers
    <3>3. Pct(at, 100 - StopLoss) \in Nat /\ Pct(at, 100 + TakeProfit) \in Nat
      BY <1>4, <3>1, <3>2
    <3>4. n \in Nat \ {0}
      BY <1>5, <1>6
    <3> QED
      BY <1>3, <1>4, <3>3, <3>4 DEF Position
  <2>2. n * at \in Nat /\ n * at * Commission \in Nat /\ 100 * n * at = 100 * (n * at)
    <3>1. Commission \in Nat /\ n \in Nat
      BY <1>5, <1>6, TraderNumbers
    <3>2. \A x, y \in Nat : x * y \in Nat
      OBVIOUS
    <3>3. n * at \in Nat
      BY <1>4, <3>1, <3>2
    <3>4. n * at * Commission \in Nat
      BY <3>1, <3>2, <3>3
    <3> QED
      BY <1>4, <3>1, <3>3, <3>4
  <2> HIDE DEF new, n
  <2>3. Append(s, new) \in Seq(Position) /\ Len(Append(s, new)) = Len(s) + 1 /\ Len(s) \in Nat
    BY <1>2, <2>1
  <2>4. /\ c.cash = b.cash - 100 * n * at - order[2]
        /\ c.excess = b.excess + order[2] - n * at * Commission
        /\ c.positions = Append(s, new) /\ c.realised = b.realised
    BY <1>2 DEF Book
  <2>5. b.excess \in Nat /\ b.realised \in Int /\ b.bought \in SUBSET Stocks
    BY <1>2 DEF Book
  <2> HIDE DEF c
  <2>6. c.excess \in Nat /\ c.cash \in Int /\ c.cash >= 0
    <3>1. PICK x \in Nat : x = n * at
      BY <2>2
    <3>2. PICK y \in Nat : y = n * at * Commission
      BY <2>2
    <3>3. PICK fee \in Int : fee = order[2]
      BY <1>5
    <3>4. 100 * x + fee <= b.cash /\ fee >= y
      BY <1>5, <1>6, <2>2, <3>1, <3>2, <3>3
    <3>5. c.cash = b.cash - 100 * x - fee /\ c.excess = b.excess + fee - y
      BY <2>2, <2>4, <3>1, <3>2, <3>3
    <3> QED
      BY <1>2, <2>5, <3>4, <3>5
  <2>7. c \in Book
    <3>1. b.bought \cup {item.code} \in SUBSET Stocks
      BY <1>3, <2>5
    <3>2. c = [b EXCEPT !.cash = c.cash, !.excess = c.excess, !.positions = Append(s, new),
                        !.bought = b.bought \cup {item.code}]
      BY <2>4 DEF c
    <3> QED
      BY <1>2, <2>3, <2>6, <3>1, <3>2 DEF Book
  <2>8. Distinct(Append(s, new))
    <3> DEFINE t == Append(s, new)
    <3>1. DOMAIN t = 1 .. Len(s) + 1 /\ DOMAIN s = 1 .. Len(s)
      BY <1>2, <2>3
    <3>2. t[Len(s) + 1] = new /\ \A i \in 1 .. Len(s) : t[i] = s[i]
      BY <1>2, <2>1
    <3>3. \A i \in 1 .. Len(s) : s[i].code # new.code
      BY <3>1 DEF ToSet, new
    <3> HIDE DEF t
    <3>4. \A i, j \in 1 .. Len(s) : s[i].code = s[j].code => i = j
      BY <1>2, <3>1 DEF Distinct
    <3>5. \A i \in 1 .. Len(s) + 1 : i = Len(s) + 1 \/ i \in 1 .. Len(s)
      BY <2>3
    <3>6. \A i, j \in 1 .. Len(s) + 1 : t[i].code = t[j].code => i = j
      BY <3>2, <3>3, <3>4, <3>5
    <3> QED
      BY <3>1, <3>6 DEF Distinct, t
  <2>9. Total(Costs(Append(s, new))) = Total(Costs(s)) + Cost(n, at)
    <3>1. Costs(s) \in Seq(Int) /\ Cost(n, at) \in Int
      <4>1. n \in Nat /\ at \in Nat
        BY <1>4, <1>5, <1>6
      <4>2. Cost(n, at) \in Nat
        BY <4>1, CostIsNumber, Zenon
      <4> QED
        BY <1>2, <4>2, CostsAreNumbers
    <3>2. Costs(Append(s, new)) = Append(Costs(s), Cost(n, at))
      <4> DEFINE t == Append(s, new)
      <4>1. DOMAIN t = 1 .. Len(s) + 1 /\ t[Len(s) + 1] = new /\ \A i \in 1 .. Len(s) : t[i] = s[i]
        BY <1>2, <2>1
      <4>2. DOMAIN s = 1 .. Len(s) /\ Len(Costs(s)) = Len(s)
        BY <1>2, CostsAreNumbers
      <4>3. Costs(t) = [i \in 1 .. Len(s) + 1 |-> Cost(t[i].shares, t[i].price)]
        BY <4>1 DEF Costs
      <4>4. \A i \in 1 .. Len(s) : Costs(s)[i] = Cost(s[i].shares, s[i].price)
        BY <4>2 DEF Costs
      <4>5. Cost(new.shares, new.price) = Cost(n, at)
        BY DEF new
      <4> HIDE DEF t
      <4>6. Append(Costs(s), Cost(n, at))
              = [i \in 1 .. Len(s) + 1 |-> IF i = Len(s) + 1 THEN Cost(n, at) ELSE Costs(s)[i]]
        BY <2>3, <3>1, <4>2
      <4>7. \A i \in 1 .. Len(s) + 1 :
              Cost(t[i].shares, t[i].price) = IF i = Len(s) + 1 THEN Cost(n, at) ELSE Costs(s)[i]
        <5>1. \A i \in 1 .. Len(s) + 1 : i = Len(s) + 1 \/ i \in 1 .. Len(s)
          BY <2>3
        <5> QED
          BY <2>3, <4>1, <4>4, <4>5, <5>1
      <4> QED
        BY <4>3, <4>6, <4>7 DEF t
    <3> QED
      BY <3>1, <3>2, TotalAppended
  <2>10. Cost(n, at) = 100 * (n * at) + n * at * Commission
    <3>1. \A x, k \in Nat : x * (100 + k) = 100 * x + x * k
      OBVIOUS
    <3>2. Commission \in Nat
      BY TraderNumbers
    <3> QED
      BY <2>2, <3>1, <3>2 DEF Cost
  <2>11. Balanced(c)
    <3>1. Total(Costs(s)) \in Int
      BY <1>2, CostsAreNumbers, TotalIsNumber
    <3>2. 100 * Capital \in Int
      BY TraderNumbers
    <3>3. Even(b.cash, Total(Costs(s)), 100 * Capital, b.realised, b.excess)
      BY DEF Account, Balanced
    <3>4. 100 * n * at \in Int /\ n * at * Commission \in Int
      BY <2>2
    <3>5. b.excess \in Int /\ b.realised \in Int
      BY <2>5
    <3>6. Even(b.cash - 100 * n * at - order[2],
               Total(Costs(s)) + (100 * n * at + n * at * Commission), 100 * Capital,
               b.realised, b.excess + order[2] - n * at * Commission)
      <4> HIDE DEF s
      <4> QED
        BY <1>2, <1>5, <3>1, <3>2, <3>3, <3>4, <3>5, EvenAfterPurchase
    <3>7. Total(Costs(Append(s, new))) = Total(Costs(s)) + (100 * n * at + n * at * Commission)
      BY <2>2, <2>9, <2>10
    <3> HIDE DEF s
    <3> QED
      BY <2>4, <2>6, <3>6, <3>7 DEF Balanced
  <2> QED
    BY <2>1, <2>4, <2>7, <2>8, <2>11 DEF Account
<1>7. CASE b.cash <= 0 \/ n <= 0
  BY <1>1, <1>7
<1>8. CASE ~(b.cash <= 0 \/ n <= 0)
  <2>1. n > 0
    BY <1>5, <1>8
  <2>2. Account(c) /\ new \in Position /\ c.positions = Append(s, new)
    BY <1>6, <2>1
  <2>3. new.held = 0
    OBVIOUS
  <2>4. Bought(b, item) = c
    BY <1>1, <1>8
  <2> HIDE DEF c, new
  <2> QED
    BY <2>2, <2>3, <2>4
<1> QED
  BY <1>7, <1>8

---------------------------------------------------------------------------
\* A book follows another if its account balances and its positions are some of the other's,
\* or parts of them, whose stops are the same or below the price.
Follows(b, c) ==
  /\ Account(c)
  /\ Len(c.positions) <= Len(b.positions)
  /\ \A q \in ToSet(c.positions) : \E p \in ToSet(b.positions) :
       q.code = p.code /\ q.held = p.held /\ (q.stop = p.stop \/ q.stop < Price(q.code))

\* No position bought before yesterday has a price at or below its stop.
Bound(positions) ==
  \A p \in ToSet(positions) : p.held >= 2 /\ Price(p.code) # 0 => Price(p.code) > p.stop

LEMMA FollowsBound ==
  ASSUME NEW b, NEW c, Account(b), Follows(b, c), Bound(b.positions), quote \in Quoted
  PROVE  Bound(c.positions)
<1> SUFFICES ASSUME NEW q \in ToSet(c.positions), q.held >= 2, Price(q.code) # 0
             PROVE  Price(q.code) > q.stop
  BY DEF Bound
<1>1. PICK p \in ToSet(b.positions) :
        q.code = p.code /\ q.held = p.held /\ (q.stop = p.stop \/ q.stop < Price(q.code))
  BY DEF Follows
<1>2. q \in Position
  <2>1. c.positions \in Seq(Position)
    BY DEF Follows, Account, Book
  <2> QED
    BY <2>1 DEF ToSet
<1>3. q.stop \in Nat /\ Price(q.code) \in Nat
  <2>1. q.code \in Stocks /\ q.stop \in Nat
    BY <1>2 DEF Position
  <2>2. quote[q.code].price \in Quotes \cup {0}
    BY <2>1 DEF Quoted
  <2> QED
    BY <2>1, <2>2, TraderNumbers DEF Price
<1>4. Price(p.code) > p.stop
  BY <1>1 DEF Bound
<1> QED
  BY <1>1, <1>3, <1>4

LEMMA FollowsItself ==
  ASSUME NEW b, Account(b)
  PROVE  Follows(b, b)
<1>1. Len(b.positions) \in Nat
  BY DEF Account, Book
<1> QED
  BY <1>1 DEF Follows

LEMMA SalesFollow ==
  ASSUME NEW b, Account(b), NEW shares, NEW why \in Why, quote \in Quoted,
         \A i \in 1 .. Len(b.positions) : shares[i] \in 0 .. b.positions[i].shares
  PROVE  Follows(b, SoldInTurn(b, shares, why))
<1> DEFINE s == b.positions
           c == SoldInTurn(b, shares, why)
<1>1. Rests(b, shares, c)
  BY Sales
<1>2. s \in Seq(Position) /\ DOMAIN s = 1 .. Len(s)
  BY DEF Account, Book
<1> HIDE DEF c
<1>3. ASSUME NEW q \in ToSet(c.positions)
      PROVE  \E p \in ToSet(s) : q.code = p.code /\ q.held = p.held /\ q.stop = p.stop
  <2>1. PICK i \in 1 .. Len(s) : q = Rest(s[i], shares[i])
    BY <1>1 DEF Rests
  <2>2. s[i] \in ToSet(s) /\ s[i] \in Position
    BY <1>2 DEF ToSet
  <2>3. q.code = s[i].code /\ q.held = s[i].held /\ q.stop = s[i].stop
    BY <2>1, <2>2 DEF Rest, Position
  <2> QED
    BY <2>2, <2>3
<1> QED
  BY <1>1, <1>3 DEF Rests, Follows, c

LEMMA ClosedAllFollows ==
  ASSUME NEW b, Account(b), NEW why \in Why, quote \in Quoted
  PROVE  Follows(b, ClosedAll(b, why))
<1>1. b.positions \in Seq(Position)
  BY DEF Account, Book
<1>2. \A i \in 1 .. Len(b.positions) :
        AllOf(b.positions, DOMAIN b.positions)[i] \in 0 .. b.positions[i].shares
  BY <1>1, AllOfIsSellable
<1> QED
  BY <1>2, SalesFollow DEF ClosedAll

LEMMA WorstSoldFollows ==
  ASSUME NEW b, Account(b), NEW codes, quote \in Quoted
  PROVE  Follows(b, WorstSold(b, codes))
<1> DEFINE leaving == {i \in DOMAIN b.positions :
                         LET p == b.positions[i]
                         IN  p.code \in codes /\ p.held >= 1 /\ Price(p.code) # 0}
<1>1. b.positions \in Seq(Position)
  BY DEF Account, Book
<1>2. WorstSold(b, codes) = SoldInTurn(b, AllOf(b.positions, leaving), "emergency")
  BY DEF WorstSold
<1> HIDE DEF leaving
<1>3. \A i \in 1 .. Len(b.positions) :
        AllOf(b.positions, leaving)[i] \in 0 .. b.positions[i].shares
  BY <1>1, AllOfIsSellable
<1>4. "emergency" \in Why
  BY DEF Why
<1> QED
  BY <1>2, <1>3, <1>4, SalesFollow

LEMMA ReducedFollows ==
  ASSUME NEW b, Account(b), NEW why \in Why, quote \in Quoted
  PROVE  Follows(b, Reduced(b, why))
<1> DEFINE s == b.positions
           older == {i \in 1 .. Len(s) \div 2 : Price(s[i].code) # 0}
           shares == [i \in DOMAIN s |-> IF i \in older THEN s[i].shares \div 2 ELSE 0]
<1>1. s \in Seq(Position) /\ DOMAIN s = 1 .. Len(s)
  BY DEF Account, Book
<1>2. Reduced(b, why) = SoldInTurn(b, shares, why)
  BY DEF Reduced
<1> HIDE DEF older
<1>3. ASSUME NEW i \in 1 .. Len(s)
      PROVE  shares[i] \in 0 .. s[i].shares
  <2>1. s[i].shares \in Nat
    <3>1. s[i] \in Position
      BY <1>1
    <3> QED
      BY <3>1 DEF Position
  <2>2. s[i].shares \div 2 \in 0 .. s[i].shares /\ 0 \in 0 .. s[i].shares
    BY <2>1
  <2>3. shares[i] = IF i \in older THEN s[i].shares \div 2 ELSE 0
    BY <1>1
  <2> QED
    BY <2>2, <2>3
<1> HIDE DEF shares
<1> QED
  BY <1>2, <1>3, SalesFollow

\* A stop that is moved stays below the price.
LEMMA TightenedFollows ==
  ASSUME NEW b, Account(b), NEW codes, quote \in Quoted
  PROVE  Follows(b, Tightened(b, codes))
<1> DEFINE s == b.positions
           New(p) == IF p.code \in codes /\ Pct(Price(p.code), 98) > p.stop
                     THEN [p EXCEPT !.stop = Pct(Price(p.code), 98)] ELSE p
           t == [i \in DOMAIN s |-> New(s[i])]
<1>1. b \in Book /\ s \in Seq(Position) /\ DOMAIN s = 1 .. Len(s) /\ Len(s) \in Nat
  BY DEF Account, Book
<1>2. Tightened(b, codes) = [b EXCEPT !.positions = t]
  BY DEF Tightened
<1>3. ASSUME NEW p \in Position
      PROVE  /\ New(p) \in Position /\ New(p).code = p.code /\ New(p).shares = p.shares
             /\ New(p).price = p.price /\ New(p).held = p.held
             /\ New(p).stop = p.stop \/ New(p).stop < Price(p.code)
  <2>1. Price(p.code) \in Nat
    <3>1. p.code \in Stocks
      BY DEF Position
    <3>2. quote[p.code].price \in Quotes \cup {0}
      BY <3>1 DEF Quoted
    <3> QED
      BY <3>2, TraderNumbers DEF Price
  <2>2. PICK x \in Nat : x = Price(p.code)
    BY <2>1
  <2>3. PICK y \in Nat : y = Pct(Price(p.code), 98)
    BY <2>2 DEF Pct
  <2>4. p.stop \in Nat
    BY DEF Position
  <2>5. y > p.stop => y < x
    <3>1. y = (x * 98) \div 100
      BY <2>2, <2>3 DEF Pct
    <3>2. y > 0 => x > 0
      BY <3>1
    <3> QED
      BY <2>4, <3>1, <3>2
  <2>6. New(p) = IF p.code \in codes /\ y > p.stop THEN [p EXCEPT !.stop = y] ELSE p
    BY <2>3
  <2> HIDE DEF New
  <2>7. CASE p.code \in codes /\ y > p.stop
    <3>1. New(p) = [p EXCEPT !.stop = y]
      BY <2>6, <2>7
    <3>2. New(p).stop = y
      BY <3>1 DEF Position
    <3>3. New(p) \in Position /\ New(p).code = p.code /\ New(p).shares = p.shares
          /\ New(p).price = p.price /\ New(p).held = p.held
      BY <3>1 DEF Position
    <3> QED
      BY <2>2, <2>5, <2>7, <3>2, <3>3
  <2>8. CASE ~(p.code \in codes /\ y > p.stop)
    BY <2>6, <2>8
  <2> QED
    BY <2>7, <2>8
<1> HIDE DEF New
<1>4. \A i \in 1 .. Len(s) : s[i] \in Position /\ t[i] = New(s[i])
  BY <1>1
<1>5. t \in Seq(Position) /\ Len(t) = Len(s) /\ DOMAIN t = 1 .. Len(s)
  <2>1. t \in [1 .. Len(s) -> Position]
    BY <1>1, <1>3, <1>4
  <2> QED
    BY <1>1, <2>1
<1> HIDE DEF t
<1>6. Alike(s, t)
  BY <1>3, <1>4, <1>5 DEF Alike
<1> DEFINE c == [b EXCEPT !.positions = t]
<1>7. Account(c) /\ c.positions = t
  BY <1>1, <1>5, <1>6, AlikeBalance DEF Book
<1> HIDE DEF c, s
<1>8. ASSUME NEW q \in ToSet(t)
      PROVE  \E p \in ToSet(s) :
               q.code = p.code /\ q.held = p.held /\ (q.stop = p.stop \/ q.stop < Price(q.code))
  <2>1. PICK i \in 1 .. Len(s) : q = t[i]
    BY <1>5 DEF ToSet
  <2>2. s[i] \in ToSet(s)
    BY <1>1 DEF ToSet
  <2>3. /\ q.code = s[i].code /\ q.held = s[i].held
        /\ q.stop = s[i].stop \/ q.stop < Price(s[i].code)
    BY <1>3, <1>4, <2>1
  <2> QED
    BY <2>2, <2>3
<1>9. Follows(b, c)
  BY <1>1, <1>5, <1>7, <1>8 DEF Follows, s
<1> QED
  BY <1>2, <1>9 DEF c, s

---------------------------------------------------------------------------
LEMMA CarriedKeeps ==
  ASSUME NEW b, Account(b), Len(b.positions) <= MaxPositions, NEW item \in Item,
         quote \in Quoted, day \in 1 .. Days
  PROVE  LET c == Carried(b, item)
         IN  /\ Account(c) /\ Len(c.positions) <= MaxPositions
             /\ \A q \in ToSet(c.positions) : q \in ToSet(b.positions) \/ q.held = 0
<1> DEFINE skipped == \/ Len(b.positions) >= MaxPositions
                      \/ item.code \in b.bought
                      \/ item.code \in {p.code : p \in ToSet(b.positions)}
                      \/ Price(item.code) = 0
                      \/ ~MayOpen(b, item.code, item.weight)
           c == Bought(b, item)
<1>1. CASE skipped
  <2>1. Carried(b, item) = b
    BY <1>1 DEF Carried
  <2> QED
    BY <2>1
<1>2. CASE ~skipped
  <2>1. Carried(b, item) = c
    BY <1>2 DEF Carried
  <2>2. Price(item.code) # 0 /\ item.code \notin {p.code : p \in ToSet(b.positions)}
    BY <1>2
  <2>3. /\ Account(c)
        /\ \/ c.positions = b.positions
           \/ \E p \in Position : p.held = 0 /\ c.positions = Append(b.positions, p)
    BY <2>2, PurchaseKeeps
  <2>4. b.positions \in Seq(Position) /\ Len(b.positions) \in Nat
    BY DEF Account, Book
  <2>5. Len(b.positions) < MaxPositions /\ MaxPositions \in Nat
    BY <1>2, <2>4, TraderNumbers
  <2> HIDE DEF c
  <2>6. CASE c.positions = b.positions
    BY <2>1, <2>3, <2>6
  <2>7. CASE c.positions # b.positions
    <3>1. PICK p \in Position : p.held = 0 /\ c.positions = Append(b.positions, p)
      BY <2>3, <2>7
    <3>2. Len(c.positions) = Len(b.positions) + 1
      BY <2>4, <3>1
    <3>3. ASSUME NEW q \in ToSet(c.positions)
          PROVE  q \in ToSet(b.positions) \/ q.held = 0
      <4>1. PICK i \in 1 .. Len(b.positions) + 1 : q = Append(b.positions, p)[i]
        BY <2>4, <3>1, <3>2 DEF ToSet
      <4>2. CASE i = Len(b.positions) + 1
        BY <2>4, <3>1, <4>1, <4>2
      <4>3. CASE i # Len(b.positions) + 1
        <5>1. i \in 1 .. Len(b.positions)
          BY <2>4, <4>3
        <5>2. q = b.positions[i]
          BY <2>4, <4>1, <5>1
        <5> QED
          BY <2>4, <5>1, <5>2 DEF ToSet
      <4> QED
        BY <4>2, <4>3
    <3> QED
      BY <2>1, <2>3, <2>4, <2>5, <3>2, <3>3
  <2> QED
    BY <2>6, <2>7
<1> QED
  BY <1>1, <1>2

\* The purchases of a day, item by item
LEMMA ExecutionKeeps ==
  ASSUME NEW b, Account(b), Len(b.positions) <= MaxPositions, NEW s \in Seq(Item),
         quote \in Quoted, day \in 1 .. Days
  PROVE  LET after[n \in 0 .. Len(s)] == IF n = 0 THEN b ELSE Carried(after[n - 1], s[n])
             c == after[Len(s)]
         IN  /\ Account(c) /\ Len(c.positions) <= MaxPositions
             /\ \A q \in ToSet(c.positions) : q \in ToSet(b.positions) \/ q.held = 0
<1> DEFINE L == Len(s)
           Kept(c) == /\ Account(c) /\ Len(c.positions) <= MaxPositions
                      /\ \A q \in ToSet(c.positions) : q \in ToSet(b.positions) \/ q.held = 0
           step == [n \in 1 .. L |-> [c \in Book |-> Carried(c, s[n])]]
           kept == [n \in 0 .. L |-> {c \in Book : Kept(c)}]
           after == CHOOSE g : g = [n \in 0 .. L |-> IF n = 0 THEN b ELSE Carried(g[n - 1], s[n])]
<1>1. L \in Nat /\ \A n \in 1 .. L : s[n] \in Item
  OBVIOUS
<1>2. Kept(b)
  OBVIOUS
<1>3. ASSUME NEW n \in 1 .. L, NEW c, Kept(c)
      PROVE  Kept(Carried(c, s[n]))
  <2>1. s[n] \in Item /\ Account(c) /\ Len(c.positions) <= MaxPositions
    BY <1>1, <1>3
  <2> DEFINE d == Carried(c, s[n])
  <2>2. /\ Account(d) /\ Len(d.positions) <= MaxPositions
        /\ \A q \in ToSet(d.positions) : q \in ToSet(c.positions) \/ q.held = 0
    BY <2>1, CarriedKeeps
  <2> QED
    BY <1>3, <2>2
<1>4. \A c : Kept(c) => c \in Book
  BY DEF Account
<1> HIDE DEF Kept
<1>5. PICK f : f = [n \in 0 .. L |-> f[n]] /\ Goes(f, L, b, step, kept)
  <2>1. b \in kept[0]
    BY <1>1, <1>2, <1>4
  <2>2. ASSUME NEW n \in 1 .. L, NEW c \in kept[n - 1]
        PROVE  step[n][c] \in kept[n]
    <3>1. n - 1 \in 0 .. L /\ n \in 0 .. L
      BY <1>1
    <3>2. c \in Book /\ Kept(c)
      BY <3>1
    <3>3. Kept(Carried(c, s[n]))
      BY <1>3, <3>2
    <3> QED
      BY <1>4, <3>1, <3>2, <3>3
  <2> HIDE DEF L, step, kept
  <2> QED
    BY <1>1, <2>1, <2>2, RecursionKeeps
<1>6. f = [n \in 0 .. L |-> IF n = 0 THEN b ELSE Carried(f[n - 1], s[n])]
  <2>1. ASSUME NEW n \in 1 .. L
        PROVE  f[n] = Carried(f[n - 1], s[n])
    <3>1. n - 1 \in 0 .. L
      BY <1>1
    <3>2. f[n - 1] \in Book
      BY <1>5, <3>1 DEF Goes
    <3> QED
      BY <1>5, <3>2 DEF Goes
  <2>2. \A n \in 0 .. L : f[n] = IF n = 0 THEN b ELSE Carried(f[n - 1], s[n])
    <3>1. f[0] = b
      BY <1>5 DEF Goes
    <3>2. \A n \in 0 .. L : n = 0 \/ n \in 1 .. L
      BY <1>1
    <3>3. \A n \in 1 .. L : n # 0
      BY <1>1
    <3> HIDE DEF L, step, kept
    <3> QED
      BY <2>1, <3>1, <3>2, <3>3, Zenon
  <2> QED
    BY <1>5, <2>2
<1>7. after = [n \in 0 .. L |-> IF n = 0 THEN b ELSE Carried(after[n - 1], s[n])]
  BY <1>6
<1> HIDE DEF after
<1>8. \A n \in 0 .. L : Kept(after[n])
  <2> DEFINE T == {n \in 0 .. L : Kept(after[n])}
  <2>1. 0 \in T
    BY <1>1, <1>2, <1>7
  <2>2. ASSUME NEW n \in 1 .. L, n - 1 \in T PROVE n \in T
    <3>1. n \in 0 .. L /\ n # 0 /\ Kept(after[n - 1])
      BY <1>1, <2>2
    <3>2. after[n] = Carried(after[n - 1], s[n])
      BY <1>7, <3>1
    <3> QED
      BY <1>3, <3>1, <3>2
  <2>3. \A n \in 0 .. L : n \in T
    <3> HIDE DEF T, L
    <3> QED
      BY <1>1, <2>1, <2>2, InductionUpTo
  <2> QED
    BY <2>3
<1>9. Kept(after[L])
  BY <1>1, <1>8
<1> QED
  BY <1>9 DEF after, Kept

---------------------------------------------------------------------------
TraderTypes ==
  /\ plan \in Plans
  /\ riskOn \in BOOLEAN
  /\ stage \in {"closed", "open", "risk", "exits", "bought", "settled"}
  /\ day \in 0 .. Days
  /\ stage # "closed" => day \in 1 .. Days
  /\ quote \in Quoted
  /\ values \in Seq(Int) /\ Len(values) <= LossDays + 1

\* The exits: what is kept has a price above its stop, or none, or was bought on the day.
LEMMA ExitsKeep ==
  ASSUME TraderTypes, Account(book), CheckExits
  PROVE  Account(book') /\ Len(book'.positions) <= Len(book.positions) /\ Bound(book'.positions)
<1> DEFINE Checked(p) == p.held >= 1 /\ Price(p.code) # 0
           High(p) == IF Checked(p) /\ Price(p.code) > p.high THEN Price(p.code) ELSE p.high
           s == book.positions
<1>1. PICK atr \in Atrs :
        LET leaving == {i \in DOMAIN s : LET p == s[i]
                                         IN  Checked(p) /\ Exits(p, Price(p.code), High(p), atr)}
            after == SoldInTurn(book, AllOf(s, leaving), "exit")
            Kept(p) == [p EXCEPT !.high = High(p), !.held = p.held + 1]
        IN  book' = [after EXCEPT !.positions =
                       [i \in DOMAIN after.positions |-> Kept(after.positions[i])]]
  BY DEF CheckExits
<1> DEFINE leaving == {i \in DOMAIN s :
                         Checked(s[i]) /\ Exits(s[i], Price(s[i].code), High(s[i]), atr)}
           shares == AllOf(s, leaving)
           c == SoldInTurn(book, shares, "exit")
           New(p) == [p EXCEPT !.high = High(p), !.held = p.held + 1]
           t == [i \in DOMAIN c.positions |-> New(c.positions[i])]
           d == [c EXCEPT !.positions = t]
<1>2. book' = d
  BY <1>1
<1>3. s \in Seq(Position) /\ DOMAIN s = 1 .. Len(s) /\ quote \in Quoted
  BY DEF Account, Book, TraderTypes
<1>4. Rests(book, shares, c)
  <2>1. \A i \in 1 .. Len(s) : shares[i] \in 0 .. s[i].shares
    <3> HIDE DEF leaving
    <3> QED
      BY <1>3, AllOfIsSellable
  <2>2. "exit" \in Why
    BY DEF Why
  <2> HIDE DEF shares
  <2> QED
    BY <1>3, <2>1, <2>2, Sales
<1>5. \A x \in Stocks : Price(x) \in Nat
  BY <1>3, TraderNumbers DEF Quoted, Price
<1>6. ASSUME NEW p \in Position
      PROVE  /\ New(p) \in Position /\ New(p).code = p.code /\ New(p).shares = p.shares
             /\ New(p).price = p.price /\ New(p).stop = p.stop /\ New(p).held = p.held + 1
  <2>1. High(p) \in Nat
    BY <1>5 DEF Position
  <2> HIDE DEF High
  <2>2. p.held + 1 \in Nat
    BY DEF Position
  <2> QED
    BY <2>1, <2>2 DEF Position
<1>7. ASSUME NEW q \in ToSet(c.positions), q.held >= 1, Price(q.code) # 0
      PROVE  Price(q.code) > q.stop
  <2>1. PICK i \in 1 .. Len(s) : shares[i] < s[i].shares /\ q = Rest(s[i], shares[i])
    BY <1>4 DEF Rests
  <2>2. s[i] \in Position
    BY <1>3
  <2>3. q.code = s[i].code /\ q.held = s[i].held /\ q.stop = s[i].stop
    BY <2>1, <2>2 DEF Rest, Position
  <2>4. i \notin leaving
    <3>1. s[i].shares \in Nat
      BY <2>2 DEF Position
    <3> HIDE DEF leaving
    <3>2. i \in leaving => shares[i] = s[i].shares
      BY <1>3 DEF AllOf
    <3> QED
      BY <2>1, <3>1, <3>2
  <2>5. ~Exits(s[i], Price(s[i].code), High(s[i]), atr)
    <3> HIDE DEF High
    <3> QED
      BY <1>3, <1>7, <2>3, <2>4
  <2>6. ~(Price(s[i].code) <= s[i].stop)
    BY <2>5 DEF Exits
  <2>7. Price(s[i].code) \in Nat /\ s[i].stop \in Nat
    BY <1>5, <2>2 DEF Position
  <2> QED
    BY <2>3, <2>6, <2>7
<1> HIDE DEF New, c
<1>8. Account(c) /\ c.positions \in Seq(Position) /\ Len(c.positions) \in Nat
      /\ DOMAIN c.positions = 1 .. Len(c.positions) /\ c \in Book
  BY <1>4 DEF Rests, Account, Book
<1>9. \A i \in 1 .. Len(c.positions) : c.positions[i] \in Position /\ t[i] = New(c.positions[i])
  BY <1>8
<1>10. t \in Seq(Position) /\ Len(t) = Len(c.positions) /\ DOMAIN t = 1 .. Len(c.positions)
  <2>1. t \in [1 .. Len(c.positions) -> Position]
    BY <1>6, <1>8, <1>9
  <2> QED
    BY <1>8, <2>1
<1> HIDE DEF t
<1>11. Alike(c.positions, t)
  BY <1>6, <1>9, <1>10 DEF Alike
<1>12. Account(d) /\ d.positions = t
  BY <1>8, <1>10, <1>11, AlikeBalance DEF Book
<1>13. ASSUME NEW q \in ToSet(t), q.held >= 2, Price(q.code) # 0
       PROVE  Price(q.code) > q.stop
  <2>1. PICK i \in 1 .. Len(c.positions) : q = t[i]
    BY <1>10 DEF ToSet
  <2>2. c.positions[i] \in ToSet(c.positions) /\ c.positions[i] \in Position
    BY <1>8 DEF ToSet
  <2>3. /\ q.code = c.positions[i].code /\ q.stop = c.positions[i].stop
        /\ q.held = c.positions[i].held + 1
    BY <1>6, <1>9, <2>1, <2>2
  <2>4. c.positions[i].held >= 1
    <3>1. c.positions[i].held \in Nat
      BY <2>2 DEF Position
    <3> QED
      BY <1>13, <2>3, <3>1
  <2> QED
    BY <1>7, <1>13, <2>2, <2>3, <2>4
<1>14. Bound(d.positions)
  BY <1>12, <1>13 DEF Bound
<1>15. Len(d.positions) <= Len(s)
  BY <1>4, <1>10, <1>12 DEF Rests
<1> HIDE DEF d
<1> QED
  BY <1>2, <1>12, <1>14, <1>15

\* The inductive invariant: the stops bind once the exits have been checked, until the next
\* day brings other prices.
TraderInv ==
  /\ TraderTypes
  /\ Account(book) /\ Len(book.positions) <= MaxPositions
  /\ stage \in {"exits", "bought", "closed"} => Bound(book.positions)

LEMMA InitTrader == TraderInit => TraderInv
<1> SUFFICES ASSUME TraderInit PROVE TraderInv
  OBVIOUS
<1>1. book.positions = <<>> /\ book.cash = 100 * Capital /\ book.realised = 0 /\ book.excess = 0
  BY DEF TraderInit
<1>2. book \in Book
  <2>1. 100 * Capital \in Int
    BY TraderNumbers
  <2>2. <<>> \in Seq(Position)
    OBVIOUS
  <2> QED
    BY <2>1, <2>2 DEF TraderInit, Book
<1>3. Distinct(<<>>) /\ Bound(<<>>) /\ Len(<<>>) = 0
  BY DEF Distinct, Bound, ToSet
<1>4. Total(Costs(<<>>)) = 0
  <2>1. Costs(<<>>) \in Seq(Int) /\ Len(Costs(<<>>)) = 0
    <3>1. <<>> \in Seq(Position)
      OBVIOUS
    <3> QED
      BY <1>3, <3>1, CostsAreNumbers
  <2>2. PICK sum : SumsOf(Costs(<<>>), sum)
    BY <2>1, TotalSums
  <2> QED
    BY <2>1, <2>2 DEF SumsOf
<1>5. Account(book)
  BY <1>1, <1>2, <1>3, <1>4, TraderNumbers DEF Account, Balanced, Even
<1>6. TraderTypes
  <2>1. day \in 0 .. Days /\ LossDays \in Nat
    BY TraderNumbers DEF TraderInit
  <2>2. quote \in Quoted
    BY DEF TraderInit, Quoted
  <2>3. values \in Seq(Int) /\ Len(values) = 0
    BY DEF TraderInit
  <2> QED
    BY <2>1, <2>2, <2>3 DEF TraderInit, TraderTypes
<1> QED
  BY <1>1, <1>3, <1>5, <1>6, TraderNumbers DEF TraderInv

LEMMA RiskActions ==
  ASSUME NEW b
  PROVE  RiskAction(b) \in {"close_all", "reduce", "none"}
BY DEF RiskAction

\* What the emergencies of a day do to the book and to the history of its values
LEMMA EmergenciesKeep ==
  ASSUME TraderTypes, Account(book), Bound(book.positions), Emergencies
  PROVE  /\ Account(book') /\ Len(book'.positions) <= Len(book.positions)
         /\ Bound(book'.positions)
         /\ values' \in Seq(Int) /\ Len(values') <= LossDays + 1
<1>1. quote \in Quoted /\ values \in Seq(Int) /\ Len(values) <= LossDays + 1 /\ LossDays \in Nat
  BY TraderNumbers DEF TraderTypes
<1>2. Len(book.positions) \in Nat
  BY DEF Account, Book
<1>3. CASE ~riskOn \/ book.positions = <<>>
  <2>1. book' = book /\ values' = values
    BY <1>3 DEF Emergencies
  <2> QED
    BY <1>1, <1>2, <2>1
<1>4. CASE ~(~riskOn \/ book.positions = <<>>)
  <2> DEFINE crash == Crashed
             severe == \E x \in crash : quote[x].chg <= -CrashSell
             all == Append(values, TotalValue(book))
             history == IF Len(all) > LossDays + 1 THEN Tail(all) ELSE all
             handled == IF severe THEN WorstSold(book, crash) ELSE Tightened(book, crash)
  <2>1. /\ values' = history
        /\ book' = CASE RapidLoss(history, LossReduce) -> Reduced(handled, "emergency")
                     [] /\ ~RapidLoss(history, LossReduce)
                        /\ RapidLoss(history, LossDrop) -> Tightened(handled, Stocks)
                     [] OTHER -> handled
    BY <1>4 DEF Emergencies
  <2>2. TotalValue(book) \in Int
    <3> DEFINE s == book.positions
               worths == [i \in DOMAIN s |-> Worth(s[i], Price(s[i].code))]
    <3>1. s \in Seq(Position) /\ DOMAIN s = 1 .. Len(s) /\ book.cash \in Int
      BY DEF Account, Book
    <3>2. ASSUME NEW i \in 1 .. Len(s)
          PROVE  Worth(s[i], Price(s[i].code)) \in Int
      <4>1. s[i] \in Position
        BY <3>1
      <4>2. s[i].shares \in Nat /\ s[i].code \in Stocks
        BY <4>1 DEF Position
      <4>3. Price(s[i].code) \in Nat
        BY <1>1, <4>2, TraderNumbers DEF Quoted, Price
      <4>4. \A x, y \in Nat : x * y \in Int
        OBVIOUS
      <4> QED
        BY <4>2, <4>3, <4>4 DEF Worth
    <3>3. worths \in Seq(Int)
      <4>1. worths \in [1 .. Len(s) -> Int]
        BY <3>1, <3>2
      <4> QED
        BY <3>1, <4>1
    <3>4. TotalValue(book) = book.cash + 100 * Total(worths)
      BY DEF TotalValue
    <3> HIDE DEF worths
    <3>5. Total(worths) \in Int
      BY <3>3, TotalIsNumber
    <3> QED
      BY <3>1, <3>4, <3>5
  <2>3. history \in Seq(Int) /\ Len(history) <= LossDays + 1
    <3>1. all \in Seq(Int) /\ Len(all) = Len(values) + 1 /\ all # <<>>
      BY <1>1, <2>2
    <3> HIDE DEF all
    <3>2. Len(values) \in Nat
      BY <1>1
    <3>3. Tail(all) \in Seq(Int) /\ Len(Tail(all)) = Len(values)
      BY <3>1
    <3> QED
      BY <1>1, <3>1, <3>2, <3>3
  <2>4. Follows(book, handled)
    <3> HIDE DEF crash, severe
    <3>1. Follows(book, WorstSold(book, crash))
      BY <1>1, WorstSoldFollows
    <3>2. Follows(book, Tightened(book, crash))
      BY <1>1, TightenedFollows
    <3> QED
      BY <3>1, <3>2
  <2> HIDE DEF handled, history
  <2>5. Account(handled) /\ Bound(handled.positions) /\ Len(handled.positions) \in Nat
    <3>1. Account(handled)
      BY <2>4 DEF Follows
    <3>2. Bound(handled.positions)
      BY <1>1, <2>4, FollowsBound
    <3> QED
      BY <3>1, <3>2 DEF Account, Book
  <2>6. Follows(handled, book')
    <3>1. book' \in {Reduced(handled, "emergency"), Tightened(handled, Stocks), handled}
      BY <2>1
    <3>2. Follows(handled, Reduced(handled, "emergency"))
      <4>1. "emergency" \in Why
        BY DEF Why
      <4> QED
        BY <1>1, <2>5, <4>1, ReducedFollows
    <3>3. Follows(handled, Tightened(handled, Stocks))
      BY <1>1, <2>5, TightenedFollows
    <3>4. Follows(handled, handled)
      BY <2>5, FollowsItself
    <3> QED
      BY <3>1, <3>2, <3>3, <3>4
  <2>7. Bound(book'.positions)
    BY <1>1, <2>5, <2>6, FollowsBound
  <2>8. Account(book') /\ Len(book'.positions) <= Len(book.positions)
    <3>1. Account(book') /\ Len(book'.positions) <= Len(handled.positions)
      BY <2>6 DEF Follows
    <3>2. Len(handled.positions) <= Len(book.positions)
      BY <2>4 DEF Follows
    <3>3. Len(book'.positions) \in Nat
      BY <3>1 DEF Account, Book
    <3> QED
      BY <1>2, <2>5, <3>1, <3>2, <3>3
  <2> QED
    BY <2>1, <2>3, <2>7, <2>8
<1> QED
  BY <1>3, <1>4

LEMMA StepTrader == TraderInv /\ [TraderNext]_traderVars => TraderInv'
<1> SUFFICES ASSUME TraderInv, [TraderNext]_traderVars PROVE TraderInv'
  OBVIOUS
<1>1. TraderTypes /\ Account(book) /\ Len(book.positions) <= MaxPositions /\ quote \in Quoted
  BY DEF TraderInv, TraderTypes
<1>2. /\ book \in Book /\ book.positions \in Seq(Position) /\ Len(book.positions) \in Nat
      /\ MaxPositions \in Nat /\ Days \in Nat
  BY <1>1, TraderNumbers DEF Account, Book
<1>3. \A c : Account(c) => Len(c.positions) \in Nat
  BY DEF Account, Book
<1>4. CASE Open
  <2>1. book' = [book EXCEPT !.sales = {}]
    BY <1>4 DEF Open
  <2>2. /\ book' \in Book /\ book'.positions = book.positions /\ book'.cash = book.cash
        /\ book'.realised = book.realised /\ book'.excess = book.excess
    BY <1>2, <2>1 DEF Book
  <2>3. Account(book')
    BY <1>1, <2>2 DEF Account, Balanced
  <2>4. TraderTypes'
    BY <1>1, <1>2, <1>4 DEF TraderTypes, Open, setup
  <2> QED
    BY <1>1, <1>4, <2>2, <2>3, <2>4 DEF TraderInv, Open
<1>5. CASE CheckRisk
  <2>1. Follows(book, book')
    <3>1. "risk" \in Why
      BY DEF Why
    <3>2. Follows(book, book)
      BY <1>1, FollowsItself
    <3>3. Follows(book, ClosedAll(book, "risk"))
      BY <1>1, <3>1, ClosedAllFollows
    <3>4. Follows(book, Reduced(book, "risk"))
      BY <1>1, <3>1, ReducedFollows
    <3>5. RiskAction(book) \in {"close_all", "reduce", "none"}
      BY RiskActions
    <3>6. book' \in {book, ClosedAll(book, "risk"), Reduced(book, "risk")}
      BY <1>5, <3>5 DEF CheckRisk
    <3> QED
      BY <3>2, <3>3, <3>4, <3>6
  <2>2. Account(book') /\ Len(book'.positions) <= MaxPositions
    BY <1>1, <1>2, <1>3, <2>1 DEF Follows
  <2>3. TraderTypes'
    BY <1>1, <1>5 DEF TraderTypes, CheckRisk, setup
  <2> QED
    BY <1>5, <2>2, <2>3 DEF TraderInv, CheckRisk
<1>6. CASE CheckExits
  <2>1. Account(book') /\ Len(book'.positions) <= Len(book.positions) /\ Bound(book'.positions)
    BY <1>1, <1>6, ExitsKeep
  <2>2. Len(book'.positions) <= MaxPositions
    BY <1>1, <1>2, <1>3, <2>1
  <2>3. Bound(book.positions)'
    BY <1>6, <2>1 DEF Bound, Price, CheckExits
  <2>4. TraderTypes'
    BY <1>1, <1>6 DEF TraderTypes, CheckExits, setup
  <2> QED
    BY <2>1, <2>2, <2>3, <2>4 DEF TraderInv
<1>7. CASE ExecutePlan
  <2> DEFINE after[n \in 0 .. Len(plan)] == IF n = 0 THEN book ELSE Carried(after[n - 1], plan[n])
  <2>1. book' = after[Len(plan)]
    BY <1>7 DEF ExecutePlan
  <2>2. plan \in Seq(Item) /\ day \in 1 .. Days
    BY <1>1, <1>7, TraderNumbers DEF TraderTypes, ExecutePlan, Item
  <2>3. /\ Account(book') /\ Len(book'.positions) <= MaxPositions
        /\ \A q \in ToSet(book'.positions) : q \in ToSet(book.positions) \/ q.held = 0
    BY <1>1, <2>1, <2>2, ExecutionKeeps
  <2> HIDE DEF after
  <2>4. Bound(book.positions)'
    <3>1. Bound(book.positions)
      BY <1>7 DEF TraderInv, ExecutePlan
    <3>2. Bound(book'.positions)
      BY <2>3, <3>1 DEF Bound
    <3> QED
      BY <1>7, <3>2 DEF Bound, Price, ExecutePlan
  <2>5. TraderTypes'
    BY <1>1, <1>7 DEF TraderTypes, ExecutePlan, setup
  <2> QED
    BY <2>3, <2>4, <2>5 DEF TraderInv
<1>8. CASE Emergencies
  <2>1. Bound(book.positions)
    BY <1>8 DEF TraderInv, Emergencies
  <2>2. /\ Account(book') /\ Len(book'.positions) <= Len(book.positions)
        /\ Bound(book'.positions)
        /\ values' \in Seq(Int) /\ Len(values') <= LossDays + 1
    BY <1>1, <1>8, <2>1, EmergenciesKeep
  <2>3. Len(book'.positions) <= MaxPositions
    BY <1>1, <1>2, <1>3, <2>2
  <2>4. quote' = quote /\ stage' = "closed" /\ UNCHANGED <<plan, riskOn, day>>
    BY <1>8 DEF Emergencies, setup
  <2>5. Bound(book.positions)'
    BY <2>2, <2>4 DEF Bound, Price
  <2>6. TraderTypes'
    BY <1>1, <2>2, <2>4 DEF TraderTypes
  <2> QED
    BY <2>2, <2>3, <2>5, <2>6 DEF TraderInv
<1>9. CASE Settle
  <2>1. Follows(book, ClosedAll(book, "settlement"))
    <3>1. "settlement" \in Why
      BY DEF Why
    <3> QED
      BY <1>1, <3>1, ClosedAllFollows
  <2>2. book' = ClosedAll(book, "settlement") /\ stage' = "settled"
    BY <1>9 DEF Settle
  <2>3. Account(book') /\ Len(book'.positions) <= MaxPositions
    BY <1>1, <1>2, <1>3, <2>1, <2>2 DEF Follows
  <2>4. TraderTypes'
    BY <1>1, <1>9, TraderNumbers DEF TraderTypes, Settle, setup
  <2> QED
    BY <2>2, <2>3, <2>4 DEF TraderInv
<1>10. CASE UNCHANGED traderVars
  BY <1>10 DEF TraderInv, TraderTypes, Bound, Price, traderVars, setup
<1> QED
  BY <1>4, <1>5, <1>6, <1>7, <1>8, <1>9, <1>10 DEF TraderNext

\* The stages of a day keep the invariant, whatever the plan and the prices.
THEOREM TraderInvariant == TraderSpec => []TraderInv
<1>1. TraderInit => TraderInv
  BY InitTrader
<1>2. TraderInv /\ [TraderNext]_traderVars => TraderInv'
  BY StepTrader
<1> QED
  BY <1>1, <1>2, PTL DEF TraderSpec

\* As many codes as positions, when no stock has two
LEMMA CodesCounted ==
  ASSUME NEW s \in Seq(Position), Distinct(s)
  PROVE  Cardinality({p.code : p \in ToSet(s)}) = Len(s)
<1> DEFINE codes == {p.code : p \in ToSet(s)}
           f == [i \in 1 .. Len(s) |-> s[i].code]
<1>1. DOMAIN s = 1 .. Len(s) /\ Len(s) \in Nat
  OBVIOUS
<1>2. IsFiniteSet(1 .. Len(s)) /\ Cardinality(1 .. Len(s)) = Len(s)
  BY <1>1, FS_Interval
<1>3. f \in Bijection(1 .. Len(s), codes)
  <2>1. \A i \in 1 .. Len(s) : s[i].code \in codes
    BY <1>1 DEF ToSet
  <2>2. f \in [1 .. Len(s) -> codes]
    BY <2>1
  <2>3. \A i, j \in 1 .. Len(s) : f[i] = f[j] => i = j
    BY <1>1 DEF Distinct
  <2>4. \A x \in codes : \E i \in 1 .. Len(s) : f[i] = x
    BY <1>1 DEF ToSet
  <2> HIDE DEF f, codes
  <2> QED
    BY <2>2, <2>3, <2>4 DEF Bijection, Injection, IsInjective, Surjection
<1>4. ExistsBijection(1 .. Len(s), codes)
  BY <1>3 DEF ExistsBijection
<1> HIDE DEF codes, f
<1>5. Cardinality(codes) = Cardinality(1 .. Len(s))
  BY <1>2, <1>4, FS_Bijection
<1> QED
  BY <1>2, <1>5 DEF codes

\* Types, and the limits on positions: no stock has two, and there are no more than the plan
\* allows.
THEOREM TraderTypeCorrect == TraderSpec => []TraderTypeOK
<1>1. TraderInv => TraderTypeOK
  <2> SUFFICES ASSUME TraderInv PROVE TraderTypeOK
    OBVIOUS
  <2>1. book \in Book /\ book.positions \in Seq(Position) /\ Distinct(book.positions)
    BY DEF TraderInv, Account, Book
  <2>2. Cardinality({p.code : p \in ToSet(book.positions)}) = Len(book.positions)
    BY <2>1, CodesCounted
  <2> QED
    BY <2>1, <2>2 DEF TraderInv, TraderTypes, TraderTypeOK
<1> QED
  BY <1>1, TraderInvariant, PTL

\* The account balances (AccountsBalance): through any sales of parts, forced sales and cut
\* purchases, cash and positions at cost are the capital and the pnl of the sales, less what
\* cut purchases paid for nothing, and the cash is never overdrawn.
THEOREM AccountAlwaysBalances == TraderSpec => []AccountsBalance
<1>1. TraderInv => AccountsBalance
  BY DEF TraderInv, Account, Balanced, Even, AccountsBalance
<1> QED
  BY <1>1, TraderInvariant, PTL

\* The stops bind (StopsBind): a day ends with no position bought before yesterday whose price
\* is at or below its stop, whichever stage moved the stop or sold a part.
THEOREM StopsAlwaysBind == TraderSpec => []StopsBind
<1>1. TraderInv => StopsBind
  BY DEF TraderInv, Bound, StopsBind
<1> QED
  BY <1>1, TraderInvariant, PTL

===========================================================================
