-------------------------- MODULE ExperimentProofs --------------------------
(***************************************************************************)
(* Experiment for any schemes, dates, targets, windows and caps: the       *)
(* cycles of an experiment are about what it planned for, a run that froze *)
(* has earned it, and its reports agree.  The inductive invariant has two  *)
(* parts.  ExperimentInv: a recorded cycle keeps all fields but its        *)
(* effect; the cycle under way is about the next date, sample and regime   *)
(* of the plan; what a sample shows never changes; a run of training that  *)
(* goes on has judged every cycle.  ReportInv: every record is one of its  *)
(* cycle, with the candidate the cycles before left open or its own;       *)
(* attempts are cycles recorded, skipped or under way; files and results   *)
(* are the records as they were told.  The sums of the reports are         *)
(* functions that add up a set, shown to exist and to be unique.           *)
(***************************************************************************)
EXTENDS Experiment, FiniteSetTheorems, SequenceTheorems, WellFoundedInduction, TLAPS

Fields == {"item", "id", "date", "seed", "target", "routed", "tagged", "self", "ret", "bench",
           "sharpe", "dd", "fb", "asked", "approved", "outcome", "cand", "stage", "status",
           "effect", "ab", "overlay", "cut"}

\* q is the record r, perhaps with another effect.
SameButEffect(r, q) == DOMAIN q = Fields /\ \A f \in Fields \ {"effect"} : q[f] = r[f]

\* No candidate of an experiment is applied at once, and what was built is one; the regimes of
\* a record are the one seen, where they name one, and a balanced cycle had a target.
Row(r) ==
  /\ DOMAIN r = Fields
  /\ r.status # "candidate_applied"
  /\ r.outcome = "built" => r.cand # 0
  /\ r.routed \in {r.self, ""}
  /\ r.tagged = IF scheme.driver = "validation" THEN "" ELSE r.self
  /\ scheme.mode = "balanced" => r.target \in Range(Targets)

Going == {"idle", "chosen", "done", "frozen"}

Counted ==
  /\ scheme \in Schemes /\ limit \in Nat /\ tries \in Nat /\ tries <= limit
  /\ phase \in Going \cup {"probing", "failed"}
  /\ record \in Seq(Range(record)) /\ \A i \in DOMAIN record : Row(record[i])
  /\ Len(record) <= tries /\ (phase = "chosen" => Len(record) < tries)
  /\ judged \in Seq(Nat) /\ dates \in Seq(Dates) /\ spare \in Seq(Dates)
  /\ pinned \in Seq(Dates \X Nat) /\ drawn[1] \in Nat
  /\ focus # 0 => scheme.driver = "validation"
  /\ phase = "probing" => scheme.mode = "pinned" /\ record = <<>>

\* What a date's sample shows is always the same; the pinned ones showed the target.
Sights == \A v, w \in sight : v[1] = w[1] /\ v[2] = w[2] => v[3] = w[3]

Pins ==
  scheme.mode = "pinned" =>
    /\ limit = scheme.rounds
    /\ \A i \in DOMAIN pinned : <<pinned[i][1], pinned[i][2], Target>> \in sight
    /\ phase \in Going => /\ Len(pinned) = scheme.rounds
                          /\ dates = [i \in DOMAIN pinned |-> pinned[i][1]]
    /\ phase = "chosen" => <<now.date, now.seed>> = pinned[Len(record) + 1]

\* There is a date for every cycle to come.
Dated ==
  scheme.mode = "sequence" /\ scheme.rounds <= Len(scheme.plan) =>
    /\ limit <= Len(dates)
    /\ phase = "chosen" => now.date = dates[Len(record) + 1]

Aimed == scheme.mode = "balanced" /\ phase = "chosen" => now.target = LeastCovered

\* A run of training that goes on has judged every cycle.
Judged ==
  scheme.driver = "training" /\ phase \in Going => judged = [i \in 1 .. Len(record) |-> i]

ExperimentInv ==
  Counted /\ Sights /\ Pins /\ Dated /\ Aimed /\ Judged /\ RegimesAsPlanned /\ FreezeIsEarned

---------------------------------------------------------------------------
(* Sampling: what is probed, and what a cycle is about *)

\* A set of natural numbers that is not empty has a minimum.
LEMMA MinExists ==
  ASSUME NEW S \in SUBSET Nat, S # {}
  PROVE  Min(S) \in S /\ \A y \in S : Min(S) <= y
<1> DEFINE R == OpToRel(<, Nat)
<1>1. IsWellFoundedOn(R, Nat)
  BY NatLessThanWellFounded
<1>2. PICK x \in S : \A u \in S : ~ (<<u, x>> \in R)
  <2> HIDE DEF R
  <2> QED
    BY <1>1, WFMin
<1>3. \A u \in S : ~ (u < x)
  BY <1>2 DEF OpToRel
<1>4. \A u \in S : x <= u
  BY <1>3
<1> QED
  BY <1>4 DEF Min

\* The first target that is covered least is a target, and none is covered less.
LEMMA LeastIsLeast ==
  ASSUME Counted
  PROVE  /\ LeastCovered \in Range(Targets)
         /\ \A g \in Range(Targets) : Covered(LeastCovered) <= Covered(g)
<1>1. \A g : Covered(g) \in Nat
  <2> SUFFICES ASSUME NEW g PROVE Covered(g) \in Nat
    OBVIOUS
  <2>1. CoverageOf(record, g) \in Nat
    <3>1. IsFiniteSet(DOMAIN record)
      BY FS_Interval DEF Counted
    <3>2. {i \in DOMAIN record : RegimeOf(record[i]) = g} \in SUBSET DOMAIN record
      OBVIOUS
    <3>3. Cardinality({i \in DOMAIN record : RegimeOf(record[i]) = g}) \in Nat
      BY <3>1, <3>2, FS_Subset, FS_CardinalityType
    <3>4. QED
      BY <3>3 DEF CoverageOf, CountOf
  <2>2. QED
    BY <2>1, ExperimentConstants DEF Covered, Capped
<1>2. /\ Targets \in Seq(STRING) /\ Len(Targets) \in Nat \ {0}
      /\ DOMAIN Targets = 1 .. Len(Targets) /\ 1 \in DOMAIN Targets
  <2>1. Targets \in Seq(STRING) /\ Targets # <<>>
    BY ExperimentConstants
  <2>2. QED
    BY <2>1
<1> DEFINE V == {Covered(Targets[j]) : j \in DOMAIN Targets}
           I == {i \in DOMAIN Targets : \A j \in DOMAIN Targets :
                   Covered(Targets[i]) <= Covered(Targets[j])}
<1>3. V \in SUBSET Nat /\ V # {}
  BY <1>1, <1>2
<1>4. Min(V) \in V /\ \A y \in V : Min(V) <= y
  BY <1>3, MinExists
<1>5. PICK i \in DOMAIN Targets : Covered(Targets[i]) = Min(V)
  BY <1>4
<1>6. i \in I /\ I \in SUBSET Nat
  BY <1>2, <1>4, <1>5
<1>7. Min(I) \in I
  <2> HIDE DEF I
  <2> QED
    BY <1>6, MinExists
<1>8. LeastCovered = Targets[Min(I)]
  BY DEF LeastCovered
<1>9. QED
  BY <1>7, <1>8 DEF Range

---------------------------------------------------------------------------
(* The record of a cycle *)

LEMMA RefreshedKeeps ==
  ASSUME NEW h, NEW i \in DOMAIN h, DOMAIN h[i] = Fields
  PROVE  DOMAIN Gov!Refreshed(h) = DOMAIN h /\ SameButEffect(h[i], Gov!Refreshed(h)[i])
  BY DEF Gov!Refreshed, SameButEffect, Fields

\* A record of the cycle under way in regime g
NewRow(r, g) ==
  /\ Row(r)
  /\ r.id = Len(record) + 1 /\ r.date = now.date /\ r.seed = now.seed /\ r.target = now.target
  /\ r.self = g

LEMMA RecordsAreRows ==
  ASSUME Counted, Aimed, phase = "chosen", NEW e, NEW g, NEW r \in Records(e, g)
  PROVE  NewRow(r, g)
<1>1. PICK o, ab, overlap :
        o \in Gov!OutcomesOf(e.asked > 0) /\ r = RecordOf(e, g, o, ab, overlap)
  BY DEF Records
<1>2. o \in {"none", "rejected", "deferred", "built"}
  <2>1. o \in {"none"} \/ o \in {"rejected", "deferred"} \/ o \in {"rejected", "built"}
    BY <1>1 DEF Gov!OutcomesOf
  <2>2. QED
    BY <2>1
<1>3. Gov!StatusOf(o, Against(e, ab, overlap)) # "candidate_applied"
  BY <1>2 DEF Gov!StatusOf
<1>4. Len(record) \in Nat /\ Gov!CandidateOf("built") = Len(record) + 1
  BY DEF Counted, Gov!CandidateOf, Gov!Cid
<1> DEFINE c == Gov!CandidateOf(o)
           st == Gov!StageOf(o, FALSE)
           su == Gov!StatusOf(o, Against(e, ab, overlap))
<1>5. r = [item |-> "ok", id |-> NextId, date |-> now.date, seed |-> now.seed, target |-> now.target,
   routed |-> IF scheme.routed THEN g ELSE "",
   tagged |-> IF scheme.driver = "validation" THEN "" ELSE g, self |-> g,
   ret |-> e.ret, bench |-> e.bench, sharpe |-> e.sharpe, dd |-> e.dd, fb |-> e.fb,
   asked |-> e.asked, approved |-> IF o = "rejected" THEN 0 ELSE e.asked - e.blocked,
   outcome |-> o, cand |-> c, stage |-> st, status |-> su,
   effect |-> IF o = "built" THEN "pending" ELSE "none", ab |-> ab,
   overlay |-> e.overlay, cut |-> e.cut]
  BY <1>1, Zenon DEF RecordOf
<1>6. su # "candidate_applied" /\ (o = "built" => c # 0)
  BY <1>3, <1>4
<1> HIDE DEF c, st, su
<1>7. DOMAIN r = Fields
  BY <1>5 DEF Fields
<1>8. scheme.mode = "balanced" => now.target \in Range(Targets)
  BY LeastIsLeast DEF Aimed
<1>9. /\ r.id = NextId /\ r.date = now.date /\ r.seed = now.seed /\ r.target = now.target
      /\ r.self = g /\ r.routed = (IF scheme.routed THEN g ELSE "")
      /\ r.tagged = (IF scheme.driver = "validation" THEN "" ELSE g)
      /\ r.outcome = o /\ r.cand = c /\ r.status = su
  BY <1>5
<1>10. QED
  BY <1>6, <1>7, <1>8, <1>9 DEF NewRow, Row, NextId

\* What the end of a cycle leaves: one record more, of the regime that was seen, and the others
\* as they were.
Recorded(g) ==
  LET n == Len(record) + 1 IN
  /\ record' \in Seq(Range(record')) /\ Len(record') = n
  /\ \A i \in 1 .. n : DOMAIN record'[i] = Fields
  /\ \A i \in 1 .. n - 1, f \in Fields \ {"effect"} : record'[i][f] = record[i][f]
  /\ \E r : NewRow(r, g) /\ \A f \in Fields \ {"effect"} : record'[n][f] = r[f]

\* A sequence with an element more.
LEMMA OneMore ==
  ASSUME NEW S, NEW s \in Seq(S), NEW e, NEW n, n = Len(s) + 1
  PROVE  /\ Len(s) \in Nat /\ n \in Nat \ {0} /\ DOMAIN s = 1 .. n - 1
         /\ DOMAIN Append(s, e) = 1 .. n /\ Append(s, e)[n] = e
         /\ \A i \in 1 .. n - 1 : Append(s, e)[i] = s[i]
         /\ Append(s, e) = [i \in 1 .. n |-> Append(s, e)[i]]
<1>1. s \in Seq(S \cup {e}) /\ e \in S \cup {e} /\ Len(s) \in Nat
  OBVIOUS
<1>2. Append(s, e) \in Seq(S \cup {e}) /\ Len(Append(s, e)) = n
  BY <1>1
<1>3. PICK t : t = Append(s, e)
  OBVIOUS
<1>4. t = [i \in 1 .. n |-> t[i]] /\ DOMAIN t = 1 .. n
  <2>1. t \in Seq(S \cup {e}) /\ Len(t) = n
    BY <1>2, <1>3
  <2>2. QED
    BY <2>1
<1>5. QED
  BY <1>1, <1>3, <1>4

LEMMA EndsRecord ==
  ASSUME Counted, Aimed, phase = "chosen", NEW after, Ends(after)
  PROVE  \E g \in RegimesAt(now.date, now.seed) :
           /\ Recorded(g)
           /\ sight' \in {sight, sight \cup {<<now.date, now.seed, g>>}}
           /\ judged' \in {judged, Append(judged, Len(record) + 1)}
           /\ after # "append" => judged' = Append(judged, Len(record) + 1)
<1>1. PICK e \in scheme.ends, g \in RegimesAt(now.date, now.seed) : \E r \in Records(e, g) :
        /\ record' \in {Append(record, r), Gov!Refreshed(Append(record, r))}
        /\ judged' = IF after = "append" THEN judged ELSE Append(judged, r.id)
        /\ sight'  = IF now.seed = 0 THEN sight ELSE sight \cup {<<now.date, now.seed, g>>}
  BY Zenon DEF Ends
<1>2. PICK r \in Records(e, g) :
        /\ record' \in {Append(record, r), Gov!Refreshed(Append(record, r))}
        /\ judged' = IF after = "append" THEN judged ELSE Append(judged, r.id)
  BY <1>1
<1>3. NewRow(r, g)
  BY RecordsAreRows
<1> DEFINE h == Append(record, r)
           n == Len(record) + 1
<1>4. /\ Len(record) \in Nat /\ n \in Nat \ {0} /\ DOMAIN record = 1 .. n - 1
      /\ DOMAIN h = 1 .. n /\ h[n] = r /\ \A i \in 1 .. n - 1 : h[i] = record[i]
      /\ h = [i \in 1 .. n |-> h[i]]
  <2>1. record \in Seq(Range(record))
    BY DEF Counted
  <2>2. QED
    BY <2>1, OneMore
<1>5. \A i \in 1 .. n : DOMAIN h[i] = Fields
  <2>1. \A i \in 1 .. n - 1 : DOMAIN record[i] = Fields
    BY <1>4 DEF Counted, Row
  <2>2. DOMAIN r = Fields
    BY <1>3 DEF NewRow, Row
  <2>3. \A i \in 1 .. n : i = n \/ i \in 1 .. n - 1
    BY <1>4
  <2>4. h[n] = r /\ \A i \in 1 .. n - 1 : h[i] = record[i]
    BY <1>4
  <2> HIDE DEF h, n
  <2>5. QED
    BY <2>1, <2>2, <2>3, <2>4, Zenon
<1> HIDE DEF h, n
<1>6. DOMAIN record' = 1 .. n /\ \A i \in 1 .. n : SameButEffect(h[i], record'[i])
  <2>1. CASE record' = h
    BY <1>4, <1>5, <2>1 DEF SameButEffect
  <2>2. CASE record' = Gov!Refreshed(h)
    BY <1>4, <1>5, <2>2, RefreshedKeeps
  <2>3. QED
    BY <1>2, <2>1, <2>2 DEF h
<1>7. record' = [i \in 1 .. n |-> record'[i]]
  <2>1. CASE record' = h
    BY <1>4, <2>1
  <2>2. CASE record' = Gov!Refreshed(h)
    BY <1>4, <2>2 DEF Gov!Refreshed
  <2>3. QED
    BY <1>2, <2>1, <2>2 DEF h
<1>8. n \in Nat
  BY <1>4 DEF n
<1>9. record' \in Seq(Range(record')) /\ Len(record') = n
  BY <1>6, <1>7, <1>8 DEF Range
<1>10. Recorded(g)
  <2>1. n = Len(record) + 1 /\ n \in 1 .. n /\ 1 .. n - 1 \subseteq 1 .. n
    BY <1>4, <1>8 DEF n
  <2>2. \A f \in Fields \ {"effect"} : record'[n][f] = r[f]
    BY <1>4, <1>6, <2>1 DEF SameButEffect
  <2>3. ASSUME NEW i \in 1 .. n - 1, NEW f \in Fields \ {"effect"}
        PROVE  record'[i][f] = record[i][f]
    <3>1. i \in 1 .. n /\ h[i] = record[i]
      BY <1>4, <2>1
    <3>2. record'[i][f] = h[i][f]
      BY <1>6, <3>1 DEF SameButEffect
    <3>3. QED
      BY <3>1, <3>2
  <2>4. \A i \in 1 .. n : DOMAIN record'[i] = Fields
    BY <1>6 DEF SameButEffect
  <2>5. QED
    BY <1>3, <1>9, <2>1, <2>2, <2>3, <2>4 DEF Recorded
<1>11. r.id = Len(record) + 1
  BY <1>3 DEF NewRow
<1>12. QED
  BY <1>1, <1>2, <1>10, <1>11

\* A sample known shows what it showed before; one that was not known may show anything.
LEMMA SightsGrow ==
  ASSUME Sights, NEW d, NEW m, NEW g \in RegimesAt(d, m), NEW S, S \in {sight, sight \cup {<<d, m, g>>}}
  PROVE  /\ \A v, w \in S : v[1] = w[1] /\ v[2] = w[2] => v[3] = w[3]
         /\ \A x : <<d, m, x>> \in sight => g = x
<1>1. ASSUME NEW v \in sight, v[1] = d, v[2] = m PROVE v[3] = g
  <2> DEFINE known == {u \in sight : u[1] = d /\ u[2] = m}
  <2>1. v \in known
    BY <1>1
  <2>2. g \in {u[3] : u \in known}
    BY <2>1, Zenon DEF RegimesAt
  <2>3. PICK u \in known : g = u[3]
    BY <2>2
  <2>4. QED
    BY <1>1, <2>3 DEF Sights
<1>2. QED
  BY <1>1 DEF Sights

\* The cycle recorded is the one the plan pinned.
LEMMA PinnedNext ==
  ASSUME ExperimentInv, phase = "chosen", NEW g \in RegimesAt(now.date, now.seed), Recorded(g),
         UNCHANGED <<scheme, pinned>>
  PROVE  PinnedAsProbed'
<1> SUFFICES ASSUME scheme.mode = "pinned", NEW i \in DOMAIN record'
             PROVE  /\ i \in DOMAIN pinned /\ <<record'[i].date, record'[i].seed>> = pinned[i]
                    /\ record'[i].self = Target
  BY DEF PinnedAsProbed, Target
<1> DEFINE n == Len(record) + 1
<1>1. /\ Len(record) \in Nat /\ n \in Nat /\ n <= limit /\ DOMAIN record = 1 .. n - 1
      /\ Len(pinned) = limit /\ DOMAIN pinned = 1 .. limit /\ limit \in Nat
  <2>1. /\ record \in Seq(Range(record)) /\ pinned \in Seq(Dates \X Nat) /\ limit \in Nat
        /\ tries \in Nat /\ Len(record) < tries /\ tries <= limit
    BY DEF ExperimentInv, Counted
  <2>2. Len(pinned) = limit
    BY DEF ExperimentInv, Pins, Going
  <2>3. QED
    BY <2>1, <2>2
<1>2. DOMAIN record' = 1 .. n /\ (i = n \/ i \in 1 .. n - 1) /\ i \in DOMAIN pinned
  BY <1>1 DEF Recorded
<1>3. "date" \in Fields \ {"effect"} /\ "seed" \in Fields \ {"effect"} /\ "self" \in Fields \ {"effect"}
  BY DEF Fields
<1>4. CASE i \in 1 .. n - 1
  <2>1. /\ record'[i].date = record[i].date /\ record'[i].seed = record[i].seed
        /\ record'[i].self = record[i].self
    BY <1>3, <1>4 DEF Recorded
  <2>2. <<record[i].date, record[i].seed>> = pinned[i] /\ record[i].self = Target
    BY <1>1, <1>4 DEF ExperimentInv, RegimesAsPlanned, PinnedAsProbed
  <2>3. QED
    BY <1>2, <2>1, <2>2
<1>5. CASE i = n
  <2>1. record'[i].date = now.date /\ record'[i].seed = now.seed /\ record'[i].self = g
    BY <1>3, <1>5 DEF Recorded, NewRow
  <2>2. <<now.date, now.seed>> = pinned[n]
    BY DEF ExperimentInv, Pins
  <2>3. <<pinned[n][1], pinned[n][2], Target>> \in sight
    BY <1>2, <1>5 DEF ExperimentInv, Pins
  <2>4. <<now.date, now.seed, Target>> \in sight
    BY <2>2, <2>3
  <2>5. g = Target
    BY <2>4, SightsGrow DEF ExperimentInv
  <2>6. QED
    BY <1>2, <1>5, <2>1, <2>2, <2>5
<1>6. QED
  BY <1>2, <1>4, <1>5

\* The cycle recorded is about its date in the sequence.
LEMMA SequenceNext ==
  ASSUME ExperimentInv, phase = "chosen", NEW g, Recorded(g), UNCHANGED <<scheme, dates>>
  PROVE  SequenceInOrder'
<1> SUFFICES ASSUME scheme.mode = "sequence", scheme.rounds <= Len(scheme.plan), NEW i \in DOMAIN record'
             PROVE  i \in DOMAIN dates /\ record'[i].date = dates[i]
  BY DEF SequenceInOrder
<1> DEFINE n == Len(record) + 1
<1>1. /\ Len(record) \in Nat /\ n \in Nat /\ DOMAIN record = 1 .. n - 1
      /\ DOMAIN dates = 1 .. Len(dates) /\ Len(dates) \in Nat /\ n <= Len(dates)
  <2>1. /\ record \in Seq(Range(record)) /\ dates \in Seq(Dates) /\ limit \in Nat
        /\ tries \in Nat /\ Len(record) < tries /\ tries <= limit
    BY DEF ExperimentInv, Counted
  <2>2. limit <= Len(dates)
    BY DEF ExperimentInv, Dated
  <2>3. QED
    BY <2>1, <2>2
<1>2. DOMAIN record' = 1 .. n /\ (i = n \/ i \in 1 .. n - 1) /\ i \in DOMAIN dates
  BY <1>1 DEF Recorded
<1>3. "date" \in Fields \ {"effect"}
  BY DEF Fields
<1>4. CASE i \in 1 .. n - 1
  <2>1. record'[i].date = record[i].date
    BY <1>3, <1>4 DEF Recorded
  <2>2. record[i].date = dates[i]
    BY <1>1, <1>4 DEF ExperimentInv, RegimesAsPlanned, SequenceInOrder
  <2>3. QED
    BY <1>2, <2>1, <2>2
<1>5. CASE i = n
  <2>1. record'[i].date = now.date
    BY <1>3, <1>5 DEF Recorded, NewRow
  <2>2. now.date = dates[n]
    BY DEF ExperimentInv, Dated
  <2>3. QED
    BY <1>2, <1>5, <2>1, <2>2
<1>6. QED
  BY <1>2, <1>4, <1>5

---------------------------------------------------------------------------
(* Balanced sampling *)

\* The regime of a record is the routed one or else the tagged one.
LEMMA FirstNamed ==
  ASSUME NEW a, NEW b
  PROVE  Named(<<a, b>>) = IF a # "" THEN a ELSE IF b # "" THEN b ELSE "unknown"
<1> DEFINE N == {k \in {1, 2} : <<a, b>>[k] # ""}
<1>1. Named(<<a, b>>) = IF N = {} THEN "unknown" ELSE <<a, b>>[Min(N)]
  <2>1. DOMAIN <<a, b>> = {1, 2}
    OBVIOUS
  <2>2. QED
    BY <2>1 DEF Named
<1>2. <<a, b>>[1] = a /\ <<a, b>>[2] = b
  OBVIOUS
<1>3. (a # "" => 1 \in N) /\ (1 \in N => a # "") /\ (b # "" => 2 \in N) /\ (2 \in N => b # "")
  BY <1>2
<1>4. N \in SUBSET {1, 2} /\ N \in SUBSET Nat
  <2>1. \A k \in N : k \in {1, 2}
    OBVIOUS
  <2> HIDE DEF N
  <2>2. QED
    BY <2>1
<1> HIDE DEF N
<1>5. N # {} => Min(N) \in N /\ \A y \in N : Min(N) <= y
  BY <1>4, MinExists
<1>6. CASE a # ""
  <2>1. 1 \in N
    BY <1>3, <1>6
  <2>2. PICK k : k = Min(N)
    OBVIOUS
  <2>3. k \in {1, 2} /\ k <= 1
    BY <1>4, <1>5, <2>1, <2>2
  <2>4. k = 1
    BY <2>3
  <2>5. QED
    BY <1>1, <1>2, <1>6, <2>1, <2>2, <2>4
<1>7. CASE a = "" /\ b # ""
  <2>1. 2 \in N /\ 1 \notin N
    BY <1>3, <1>7
  <2>2. Min(N) = 2
    BY <1>4, <1>5, <2>1
  <2>3. QED
    BY <1>1, <1>2, <1>7, <2>1, <2>2
<1>8. CASE a = "" /\ b = ""
  <2>1. N = {}
    BY <1>3, <1>4, <1>8
  <2>2. QED
    BY <1>1, <1>8, <2>1
<1>9. QED
  BY <1>6, <1>7, <1>8

LEMMA RegimeIsNamed ==
  ASSUME NEW r
  PROVE  RegimeOf(r) = IF r.routed # "" THEN r.routed
                       ELSE IF r.tagged # "" THEN r.tagged ELSE "unknown"
BY FirstNamed DEF RegimeOf

\* The cycles of a history that were in a regime
Seen(s, g) == Cardinality({i \in DOMAIN s : s[i].self = g})

LEMMA SeenIsNatural ==
  ASSUME NEW s, NEW n \in Nat, DOMAIN s = 1 .. n, NEW g
  PROVE  Seen(s, g) \in Nat
<1>1. IsFiniteSet(1 .. n)
  BY FS_Interval
<1>2. {i \in DOMAIN s : s[i].self = g} \in SUBSET (1 .. n)
  OBVIOUS
<1>3. QED
  BY <1>1, <1>2, FS_Subset, FS_CardinalityType DEF Seen

\* A cycle more in regime g is one more for g and none for another.
LEMMA OneMoreSeen ==
  ASSUME NEW s, NEW t, NEW n \in Nat, DOMAIN s = 1 .. n, DOMAIN t = 1 .. n + 1,
         \A i \in 1 .. n : t[i].self = s[i].self, NEW x
  PROVE  Seen(t, x) = IF t[n + 1].self = x THEN Seen(s, x) + 1 ELSE Seen(s, x)
<1> DEFINE S == {i \in 1 .. n : s[i].self = x}
           T == {i \in 1 .. n + 1 : t[i].self = x}
<1>1. IsFiniteSet(S)
  <2>1. IsFiniteSet(1 .. n) /\ S \in SUBSET (1 .. n)
    BY FS_Interval
  <2>2. QED
    BY <2>1, FS_Subset
<1>2. n + 1 \notin S /\ 1 .. n + 1 = (1 .. n) \cup {n + 1} /\ n + 1 \notin 1 .. n
  OBVIOUS
<1>3. T = IF t[n + 1].self = x THEN S \cup {n + 1} ELSE S
  BY <1>2
<1>4. Cardinality(T) = IF t[n + 1].self = x THEN Cardinality(S) + 1 ELSE Cardinality(S)
  <2> HIDE DEF S, T
  <2>1. QED
    BY <1>1, <1>2, <1>3, FS_AddElement
<1>5. QED
  BY <1>4 DEF Seen

\* One more for the least of the counts, as the cap sees them, does not upset the balance.
LEMMA OneMoreIsBalanced ==
  ASSUME NEW a \in Nat, NEW b \in Nat, Capped(a) <= Capped(b)
  PROVE  Capped(a + 1) <= b + 1
<1>1. RegimeCap \in Nat
  BY ExperimentConstants
<1>2. QED
  BY <1>1 DEF Capped

LEMMA BalancedNext ==
  ASSUME ExperimentInv, phase = "chosen", NEW g, Recorded(g), UNCHANGED scheme
  PROVE  CoverageIsBalanced'
<1> SUFFICES ASSUME scheme.mode = "balanced",
                    \A i \in DOMAIN record' : RegimeOf(record'[i]) = record'[i].target,
                    NEW x \in Range(Targets), NEW y \in Range(Targets)
             PROVE  Capped(Seen(record', x)) <= Seen(record', y) + 1
  BY DEF CoverageIsBalanced, CountOf, Seen
<1> DEFINE n == Len(record)
           t == LeastCovered
<1>1. /\ n \in Nat /\ DOMAIN record = 1 .. n /\ DOMAIN record' = 1 .. n + 1
      /\ n + 1 \in DOMAIN record' /\ 1 .. n \subseteq DOMAIN record'
  <2>1. record \in Seq(Range(record)) /\ record' \in Seq(Range(record')) /\ Len(record') = n + 1
    BY DEF ExperimentInv, Counted, Recorded
  <2>2. QED
    BY <2>1
<1>2. {"routed", "tagged", "self", "target"} \subseteq Fields \ {"effect"}
  BY DEF Fields
<1>3. scheme.driver # "validation" /\ Range(Targets) \cap {"", "unknown"} = {}
  BY ExperimentConstants DEF ExperimentInv, Counted
<1>4. \A i \in 1 .. n : /\ record'[i].routed = record[i].routed /\ record'[i].tagged = record[i].tagged
                       /\ record'[i].self = record[i].self /\ record'[i].target = record[i].target
  BY <1>2 DEF Recorded
<1>5. \A i \in 1 .. n : RegimeOf(record[i]) = record[i].target /\ record[i].self = RegimeOf(record[i])
  <2> SUFFICES ASSUME NEW i \in 1 .. n
               PROVE  RegimeOf(record[i]) = record[i].target /\ record[i].self = RegimeOf(record[i])
    OBVIOUS
  <2>1. RegimeOf(record'[i]) = RegimeOf(record[i])
    BY <1>4, RegimeIsNamed
  <2>2. RegimeOf(record[i]) = record[i].target
    BY <1>1, <1>4, <2>1
  <2>3. Row(record[i])
    BY <1>1 DEF ExperimentInv, Counted
  <2>4. record[i].target \notin {"", "unknown"}
    BY <1>3, <2>3 DEF Row
  <2>5. record[i].routed \in {record[i].self, ""} /\ record[i].tagged = record[i].self
    BY <1>3, <2>3 DEF Row
  <2>6. QED
    BY <2>2, <2>4, <2>5, RegimeIsNamed
<1>6. record'[n + 1].self = t
  <2>1. PICK r : NewRow(r, g) /\ \A f \in Fields \ {"effect"} : record'[n + 1][f] = r[f]
    BY DEF Recorded
  <2>2. /\ record'[n + 1].routed = r.routed /\ record'[n + 1].tagged = r.tagged
        /\ record'[n + 1].self = r.self /\ record'[n + 1].target = r.target
    BY <1>2, <2>1
  <2>3. r.routed \in {r.self, ""} /\ r.tagged = r.self /\ r.target = now.target
    BY <1>3, <2>1 DEF NewRow, Row
  <2>4. now.target = t /\ t \notin {"", "unknown"}
    <3>1. now.target = t
      BY DEF ExperimentInv, Aimed
    <3>2. t \in Range(Targets)
      BY LeastIsLeast DEF ExperimentInv
    <3>3. QED
      BY <1>3, <3>1, <3>2
  <2>5. RegimeOf(record'[n + 1]) = t
    BY <1>1, <2>2, <2>3, <2>4
  <2> HIDE DEF t, n
  <2>6. QED
    BY <2>2, <2>3, <2>4, <2>5, RegimeIsNamed
<1>7. \A z : /\ Seen(record, z) \in Nat /\ Seen(record', z) \in Nat
             /\ Seen(record', z) = IF z = t THEN Seen(record, z) + 1 ELSE Seen(record, z)
  <2> SUFFICES ASSUME NEW z
               PROVE  /\ Seen(record, z) \in Nat /\ Seen(record', z) \in Nat
                      /\ Seen(record', z) = IF z = t THEN Seen(record, z) + 1 ELSE Seen(record, z)
    OBVIOUS
  <2> HIDE DEF t
  <2>1. n + 1 \in Nat
    BY <1>1
  <2>2. Seen(record, z) \in Nat
    BY <1>1, SeenIsNatural
  <2>3. Seen(record', z) \in Nat
    BY <1>1, <2>1, SeenIsNatural
  <2>4. Seen(record', z) = IF record'[n + 1].self = z THEN Seen(record, z) + 1 ELSE Seen(record, z)
    BY <1>1, <1>4, OneMoreSeen
  <2>5. record'[n + 1].self = t
    BY <1>6
  <2> HIDE DEF n
  <2>6. QED
    BY <2>2, <2>3, <2>4, <2>5
<1>8. \A z : Covered(z) = Capped(Seen(record, z))
  <2> SUFFICES ASSUME NEW z PROVE Covered(z) = Capped(Seen(record, z))
    OBVIOUS
  <2>1. {i \in DOMAIN record : RegimeOf(record[i]) = z} = {i \in DOMAIN record : record[i].self = z}
    BY <1>1, <1>5
  <2>2. CoverageOf(record, z) = Seen(record, z)
    BY <2>1 DEF CoverageOf, CountOf, Seen
  <2>3. QED
    BY <2>2 DEF Covered
<1>9. Capped(Seen(record', x)) <= Seen(record', y) + 1
  <2>1. Capped(Seen(record, x)) <= Seen(record, y) + 1
    <3>1. \A i \in DOMAIN record : RegimeOf(record[i]) = record[i].target
      BY <1>1, <1>5
    <3>2. QED
      BY <3>1 DEF ExperimentInv, RegimesAsPlanned, CoverageIsBalanced, CountOf, Seen
  <2>2. Capped(Seen(record, t)) <= Capped(Seen(record, y))
    BY <1>8, LeastIsLeast DEF ExperimentInv
  <2> HIDE DEF t, n
  <2>3. CASE x # t
    <3>1. Seen(record', x) = Seen(record, x)
      BY <1>7, <2>3
    <3>2. /\ Seen(record', y) \in {Seen(record, y), Seen(record, y) + 1}
          /\ Seen(record, y) \in Nat /\ Seen(record, x) \in Nat
      BY <1>7
    <3>3. RegimeCap \in Nat
      BY ExperimentConstants
    <3>4. Capped(Seen(record, x)) \in Nat
      BY <3>2, <3>3 DEF Capped
    <3>5. QED
      BY <2>1, <3>1, <3>2, <3>4
  <2>4. CASE x = t
    <3>1. Capped(Seen(record, x) + 1) <= Seen(record, y) + 1
      BY <1>7, <2>2, <2>4, OneMoreIsBalanced
    <3>2. Seen(record', x) = Seen(record, x) + 1
      BY <1>7, <2>4
    <3>3. /\ Seen(record', y) \in {Seen(record, y), Seen(record, y) + 1}
          /\ Seen(record, y) \in Nat /\ Seen(record, x) + 1 \in Nat
      BY <1>7
    <3>4. RegimeCap \in Nat
      BY ExperimentConstants
    <3>5. Capped(Seen(record, x) + 1) \in Nat
      BY <3>3, <3>4 DEF Capped
    <3>6. QED
      BY <3>1, <3>2, <3>3, <3>5
  <2>5. QED
    BY <2>3, <2>4
<1>10. QED
  BY <1>9

---------------------------------------------------------------------------
(* Freezing *)

\* The last cycles of a long enough history
LEMMA RecentIsWindow ==
  ASSUME NEW S, NEW s \in Seq(S), NEW n, n = Len(s), Window <= n, NEW q, q = RecentOf(s)
  PROVE  /\ Len(q) = Window /\ DOMAIN q = 1 .. Window
         /\ \A i \in 1 .. Window : q[i] = s[n - Window + i]
<1>1. Window \in Nat \ {0}
  BY ExperimentConstants
<1>2. n \in Nat /\ DOMAIN s = 1 .. n /\ \A i \in 1 .. n : s[i] \in S
  OBVIOUS
<1> DEFINE m == n - Window + 1
<1>3. m \in Nat \ {0} /\ m <= n /\ n - m + 1 = Window
  BY <1>1, <1>2
<1>4. q = SubSeq(s, m, n)
  <2>1. n > Window \/ m = 1
    BY <1>1, <1>2
  <2>2. q = SubSeq(s, IF n > Window THEN m ELSE 1, n)
    BY DEF RecentOf, LastN
  <2>3. QED
    BY <2>1, <2>2
<1> HIDE DEF m
<1>5. /\ SubSeq(s, m, n) \in Seq(S) /\ Len(SubSeq(s, m, n)) = n - m + 1
      /\ \A i \in 1 .. n - m + 1 : SubSeq(s, m, n)[i] = s[m + i - 1]
  <2>1. \A i \in m .. n : s[i] \in S
    BY <1>2, <1>3
  <2>2. m \in Int /\ n \in Int
    BY <1>2, <1>3
  <2>3. QED
    BY <1>3, <2>1, <2>2, SubSeqProperties
<1>6. q \in Seq(S) /\ Len(q) = Window
  BY <1>3, <1>4, <1>5
<1>7. ASSUME NEW i \in 1 .. Window PROVE q[i] = s[n - Window + i]
  <2>1. q[i] = s[m + i - 1]
    BY <1>3, <1>4, <1>5
  <2>2. m + i - 1 = n - Window + i
    BY <1>1, <1>2 DEF m
  <2>3. QED
    BY <2>1, <2>2
<1>8. QED
  BY <1>6, <1>7

\* The cycles won of the window are those won among the last of the history.
LEMMA WonInWindow ==
  ASSUME NEW s, NEW q, NEW n \in Nat, Window <= n, DOMAIN q = 1 .. Window,
         \A i \in 1 .. Window : q[i] = s[n - Window + i]
  PROVE  /\ Won(q) = Cardinality({i \in n - Window + 1 .. n : s[i].ret > 0})
         /\ Won(q) \in Nat
<1>1. Window \in Nat \ {0}
  BY ExperimentConstants
<1> DEFINE A == {i \in 1 .. Window : q[i].ret > 0}
           B == {i \in n - Window + 1 .. n : s[i].ret > 0}
           f == [i \in A |-> n - Window + i]
<1>2. IsFiniteSet(A) /\ Cardinality(A) \in Nat
  <2>1. A \in SUBSET (1 .. Window) /\ IsFiniteSet(1 .. Window)
    BY <1>1, FS_Interval
  <2>2. QED
    BY <2>1, FS_Subset, FS_CardinalityType
<1>3. f \in [A -> B]
  <2> SUFFICES ASSUME NEW i \in A PROVE n - Window + i \in B
    OBVIOUS
  <2>1. n - Window + i \in n - Window + 1 .. n
    BY <1>1
  <2>2. QED
    BY <2>1
<1>4. \A i, j \in A : f[i] = f[j] => i = j
  BY <1>1
<1>5. ASSUME NEW b \in B PROVE \E i \in A : f[i] = b
  <2>1. b - n + Window \in 1 .. Window /\ n - Window + (b - n + Window) = b
    BY <1>1
  <2>2. b - n + Window \in A
    BY <2>1
  <2>3. QED
    BY <2>1, <2>2
<1>6. f \in Bijection(A, B)
  <2> HIDE DEF A, B, f
  <2>1. DOMAIN f = A
    BY <1>3
  <2>2. QED
    BY <1>3, <1>4, <1>5, <2>1 DEF Bijection, Injection, Surjection, IsInjective
<1>7. Cardinality(B) = Cardinality(A)
  <2> HIDE DEF A, B, f
  <2>1. ExistsBijection(A, B)
    BY <1>6 DEF ExistsBijection
  <2>2. QED
    BY <1>2, <2>1, FS_Bijection
<1>8. Won(q) = Cardinality(A)
  BY DEF Won, CountOf, Profit
<1>9. QED
  BY <1>2, <1>7, <1>8

\* A history nothing of which is disputed has no candidate.
LEMMA UndisputedHasNone ==
  ASSUME NEW s, NEW n \in Nat, DOMAIN s = 1 .. n, \A i \in 1 .. n : Row(s[i]), Undisputed(s)
  PROVE  \A i \in 1 .. n : s[i].outcome # "built" /\ s[i].cand = 0
<1> DEFINE D == {i \in 1 .. n : s[i].cand # 0 /\ s[i].status # "candidate_applied"}
<1>1. Cardinality(D) = 0
  <2>1. GovernanceMetrics(s).drift = Cardinality(D)
    BY DEF GovernanceMetrics, CountOf
  <2>2. QED
    BY <2>1 DEF Undisputed
<1>2. D = {}
  <2>1. D \in SUBSET (1 .. n) /\ IsFiniteSet(1 .. n)
    BY FS_Interval
  <2> HIDE DEF D
  <2>2. IsFiniteSet(D)
    BY <2>1, FS_Subset
  <2>3. QED
    BY <1>1, <2>2, FS_EmptySet
<1>3. QED
  BY <1>2 DEF Row

\* What passes the freeze gate has earned it.
LEMMA GateIsEarned ==
  ASSUME Counted, judged = [i \in 1 .. Len(record) |-> i], Gate.passed
  PROVE  LET n == Len(record) IN
         /\ n >= Window /\ judged = [i \in 1 .. n |-> i]
         /\ Cardinality({i \in n - Window + 1 .. n : record[i].ret > 0}) >= Required
         /\ SumFunction([i \in 1 .. Window |-> record[n - Window + i].ret]) > 0
         /\ \A i \in 1 .. n : record[i].outcome # "built" /\ record[i].cand = 0
         /\ ~(heard.bad /\ heard.episodes >= MinFreeze)
<1> DEFINE n == Len(record)
           q == RecentOf(record)
<1>1. n \in Nat /\ DOMAIN record = 1 .. n /\ record = [i \in 1 .. n |-> record[i]]
  <2>1. record \in Seq(Range(record))
    BY DEF Counted
  <2>2. QED
    BY <2>1
<1>2. Window \in Nat \ {0} /\ Required \in Nat
  <2>1. Window \in Nat \ {0}
    BY ExperimentConstants
  <2>2. Required \in 0 .. Window
    BY ExperimentConstants
  <2>3. QED
    BY <2>1, <2>2
<1>3. Snapshots = record
  <2>1. Snapshots = [i \in 1 .. n |-> record[i]]
    BY DEF Snapshots
  <2>2. QED
    BY <1>1, <2>1
<1>4. /\ n >= Window /\ Performs(q) /\ Undisputed(record)
      /\ FeedbackGate(heard, MinFreeze).passed
  BY <1>3 DEF Gate, FreezeGate
<1>5. /\ Len(q) = Window /\ DOMAIN q = 1 .. Window
      /\ \A i \in 1 .. Window : q[i] = record[n - Window + i]
  <2>1. record \in Seq(Range(record)) /\ Window <= n
    BY <1>1, <1>2, <1>4 DEF Counted
  <2>2. QED
    BY <2>1, RecentIsWindow
<1> HIDE DEF n, q
<1>6. Cardinality({i \in n - Window + 1 .. n : record[i].ret > 0}) >= Required
  <2>1. /\ Won(q) = Cardinality({i \in n - Window + 1 .. n : record[i].ret > 0})
        /\ Won(q) \in Nat
    BY <1>1, <1>2, <1>4, <1>5, WonInWindow
  <2>2. Won(q) * Window >= Required * Window
    BY <1>4, <1>5 DEF Performs
  <2>3. ASSUME NEW a \in Nat, NEW b \in Nat, NEW w \in Nat \ {0}, a * w >= b * w PROVE a >= b
    <3>1. SUFFICES ASSUME a + 1 <= b PROVE FALSE
      OBVIOUS
    <3>2. (b - (a + 1)) * w >= 0
      BY <3>1
    <3>3. QED
      BY <2>3, <3>2
  <2>4. Won(q) >= Required
    BY <1>2, <2>1, <2>2, <2>3
  <2>5. QED
    BY <2>1, <2>4
<1>7. SumFunction([i \in 1 .. Window |-> record[n - Window + i].ret]) > 0
  <2>1. Returns(q) > 0
    BY <1>4 DEF Performs
  <2>2. [i \in DOMAIN q |-> q[i].ret] = [i \in 1 .. Window |-> record[n - Window + i].ret]
    BY <1>5
  <2>3. Returns(q) = SumFunction([i \in DOMAIN q |-> q[i].ret])
    BY DEF Returns, TotalOf
  <2>4. QED
    BY <2>1, <2>2, <2>3
<1>8. \A i \in 1 .. n : record[i].outcome # "built" /\ record[i].cand = 0
  <2>1. \A i \in 1 .. n : Row(record[i])
    BY <1>1 DEF Counted
  <2>2. QED
    BY <1>1, <1>4, <2>1, UndisputedHasNone
<1>9. ~(heard.bad /\ heard.episodes >= MinFreeze)
  BY <1>4 DEF FeedbackGate
<1>10. QED
  BY <1>4, <1>6, <1>7, <1>8, <1>9 DEF n

---------------------------------------------------------------------------
(* The steps of an experiment *)

LEMMA InitExperiment == ExperimentInit => ExperimentInv
<1> SUFFICES ASSUME ExperimentInit PROVE ExperimentInv
  OBVIOUS
<1>1. /\ scheme \in Schemes /\ limit = scheme.rounds /\ tries = 0 /\ focus = 0
      /\ record = <<>> /\ judged = <<>> /\ pinned = <<>> /\ sight = {} /\ drawn = <<0, {}>>
      /\ dates = scheme.plan /\ spare = scheme.spare
      /\ phase = IF scheme.mode = "pinned" THEN "probing" ELSE "idle"
  BY DEF ExperimentInit
<1>2. /\ limit \in Nat /\ scheme.plan \in Seq(Dates) /\ scheme.spare \in Seq(Dates)
  <2>1. scheme.rounds \in 1 .. MaxCycles /\ MaxCycles \in Nat
    BY <1>1, ExperimentConstants
  <2>2. scheme.plan \in Seq(Dates) /\ scheme.spare \in Seq(Dates)
    BY <1>1, ExperimentConstants
  <2>3. QED
    BY <1>1, <2>1, <2>2
<1>3. Len(record) = 0 /\ DOMAIN record = {} /\ DOMAIN pinned = {} /\ drawn[1] = 0
  BY <1>1
<1>4. Counted
  <2>1. record \in Seq(Range(record)) /\ judged \in Seq(Nat) /\ pinned \in Seq(Dates \X Nat)
    BY <1>1
  <2>2. phase \in Going \cup {"probing", "failed"} /\ phase # "chosen"
        /\ (phase = "probing" => scheme.mode = "pinned")
    BY <1>1 DEF Going
  <2>3. QED
    BY <1>1, <1>2, <1>3, <2>1, <2>2 DEF Counted
<1>5. Sights /\ Pins
  BY <1>1, <1>3 DEF Sights, Pins, Going
<1>6. Dated /\ Aimed /\ FreezeIsEarned
  BY <1>1 DEF Dated, Aimed, FreezeIsEarned
<1>7. Judged
  <2>1. judged = [i \in 1 .. Len(record) |-> i]
    BY <1>1, <1>3
  <2>2. QED
    BY <2>1 DEF Judged
<1>8. RegimesAsPlanned
  <2>1. \A x : Cardinality({i \in DOMAIN record : record[i].self = x}) = 0
    <3>1. \A x : {i \in DOMAIN record : record[i].self = x} = {}
      BY <1>3
    <3>2. QED
      BY <3>1, FS_EmptySet
  <2>2. Capped(0) = 0
    <3>1. RegimeCap \in Nat
      BY ExperimentConstants
    <3>2. QED
      BY <3>1 DEF Capped
  <2>3. CoverageIsBalanced
    BY <2>1, <2>2 DEF CoverageIsBalanced, CountOf
  <2>4. QED
    BY <1>3, <2>3 DEF RegimesAsPlanned, PinnedAsProbed, SequenceInOrder
<1>9. QED
  BY <1>4, <1>5, <1>6, <1>7, <1>8 DEF ExperimentInv

\* As long as nothing is recorded what was recorded is as planned.
LEMMA SameRecord ==
  ASSUME RegimesAsPlanned, UNCHANGED <<scheme, record, pinned, dates>>
  PROVE  RegimesAsPlanned'
<1>1. PinnedAsProbed' /\ SequenceInOrder'
  BY DEF RegimesAsPlanned, PinnedAsProbed, SequenceInOrder, Target
<1>2. CoverageIsBalanced'
  BY DEF RegimesAsPlanned, CoverageIsBalanced, CountOf
<1>3. QED
  BY <1>1, <1>2 DEF RegimesAsPlanned

LEMMA SameLeast ==
  ASSUME record' = record
  PROVE  LeastCovered' = LeastCovered
BY DEF LeastCovered, Covered, CoverageOf, CountOf

\* The steps that record nothing
LEMMA QuietStep ==
  ASSUME ExperimentInv,
         UNCHANGED <<scheme, limit, record, judged, sight, drawn, pinned, dates, spare>>,
         tries' \in {tries, tries + 1}, tries' <= limit,
         phase \in Going, phase' \in Going \cup {"failed"},
         focus' # 0 => scheme.driver = "validation",
         phase' = "chosen" =>
           /\ Len(record) < tries'
           /\ scheme.mode = "pinned" => <<now'.date, now'.seed>> = pinned[Len(record) + 1]
           /\ scheme.mode = "sequence" /\ scheme.rounds <= Len(scheme.plan) =>
                now'.date = dates[Len(record) + 1]
           /\ scheme.mode = "balanced" => now'.target = LeastCovered,
         phase' = "frozen" => scheme.driver = "training" /\ Gate.passed /\ heard' = heard
  PROVE  ExperimentInv'
<1>1. Counted'
  <2>1. Len(record) \in Nat /\ tries \in Nat /\ Len(record) <= tries
    BY DEF ExperimentInv, Counted
  <2>2. tries' \in Nat /\ Len(record') <= tries' /\ tries' <= limit'
    BY <2>1
  <2>3. phase' # "probing"
    BY DEF Going
  <2>4. \A i \in DOMAIN record : Row(record[i])'
    <3> SUFFICES ASSUME NEW i \in DOMAIN record PROVE Row(record[i])'
      OBVIOUS
    <3>1. Row(record[i])
      BY DEF ExperimentInv, Counted
    <3>2. QED
      BY <3>1 DEF Row
  <2>5. /\ record' \in Seq(Range(record')) /\ scheme' \in Schemes /\ limit' \in Nat
        /\ judged' \in Seq(Nat) /\ dates' \in Seq(Dates) /\ spare' \in Seq(Dates)
        /\ pinned' \in Seq(Dates \X Nat) /\ drawn'[1] \in Nat
    BY DEF ExperimentInv, Counted
  <2>6. phase' \in Going \cup {"probing", "failed"} /\ (phase' = "chosen" => Len(record') < tries')
    OBVIOUS
  <2>7. focus' # 0 => scheme'.driver = "validation"
    OBVIOUS
  <2> HIDE DEF ExperimentInv
  <2>8. QED
    BY <2>2, <2>3, <2>4, <2>5, <2>6, <2>7 DEF Counted
<1>2. Sights' /\ Pins' /\ Dated'
  BY DEF ExperimentInv, Sights, Pins, Dated, Target
<1>3. Aimed'
  BY SameLeast DEF Aimed
<1>4. Judged' /\ RegimesAsPlanned'
  BY SameRecord DEF ExperimentInv, Judged
<1>5. FreezeIsEarned'
  <2> SUFFICES ASSUME phase' = "frozen" PROVE FreezeIsEarned'
    BY DEF FreezeIsEarned
  <2>1. judged = [i \in 1 .. Len(record) |-> i]
    BY DEF ExperimentInv, Judged
  <2>2. Gate.passed /\ heard' = heard
    OBVIOUS
  <2>3. QED
    BY <2>1, <2>2, GateIsEarned DEF ExperimentInv, FreezeIsEarned
<1>6. QED
  BY <1>1, <1>2, <1>3, <1>4, <1>5 DEF ExperimentInv

LEMMA ChosenCutoff ==
  ASSUME Begin
  PROVE  \E d, b :
           /\ now' = [date |-> d, seed |-> SeedOf,
                      target |-> IF scheme.mode = "balanced" THEN LeastCovered ELSE "", by |-> b]
           /\ scheme.mode # "balanced" => d \in DatesOf(scheme.mode)
<1>1. CASE scheme.mode = "balanced"
  <2>1. Balanced
    BY <1>1 DEF Begin
  <2>2. \E d, b : now' = [date |-> d, seed |-> SeedOf, target |-> LeastCovered, by |-> b]
    BY <2>1, Zenon DEF Balanced
  <2>3. QED
    BY <1>1, <2>2
<1>2. CASE scheme.mode # "balanced"
  <2>1. PICK d \in DatesOf(scheme.mode) :
          now' = [date |-> d, seed |-> SeedOf, target |-> "", by |-> scheme.mode]
    BY <1>2 DEF Begin
  <2>2. QED
    BY <1>2, <2>1
<1>3. QED
  BY <1>1, <1>2

LEMMA BeginKeeps ==
  ASSUME ExperimentInv, Begin
  PROVE  ExperimentInv'
<1> DEFINE n == Len(record) + 1
<1>1. /\ phase = "idle" /\ phase' = "chosen" /\ tries < limit /\ tries' = tries + 1
      /\ UNCHANGED <<scheme, limit, record, judged, sight, drawn, pinned, dates, spare, focus>>
  BY DEF Begin
<1>2. PICK d, b :
        /\ now' = [date |-> d, seed |-> SeedOf,
                   target |-> IF scheme.mode = "balanced" THEN LeastCovered ELSE "", by |-> b]
        /\ scheme.mode # "balanced" => d \in DatesOf(scheme.mode)
  BY ChosenCutoff
<1>3. now'.date = d /\ now'.seed = SeedOf /\ (scheme.mode = "balanced" => now'.target = LeastCovered)
  BY <1>2
<1>4. scheme.mode \in {"sequence", "pinned"} => d = dates[Index]
  BY <1>2 DEF DatesOf
<1>5. /\ Len(record) \in Nat /\ tries \in Nat /\ limit \in Nat /\ Len(record) <= tries
      /\ dates \in Seq(Dates) /\ pinned \in Seq(Dates \X Nat)
      /\ focus # 0 => scheme.driver = "validation"
  BY DEF ExperimentInv, Counted
<1>6. n <= limit /\ n \in Nat
  BY <1>1, <1>5
<1>7. n <= Len(dates) => Index = n
  BY <1>5, <1>6 DEF Index, NextId
<1>8. scheme.mode = "pinned" => <<now'.date, now'.seed>> = pinned[n]
  <2> SUFFICES ASSUME scheme.mode = "pinned" PROVE <<now'.date, now'.seed>> = pinned[n]
    OBVIOUS
  <2>1. Len(pinned) = limit /\ dates = [k \in DOMAIN pinned |-> pinned[k][1]]
    BY <1>1 DEF ExperimentInv, Pins, Going
  <2>2. n \in DOMAIN pinned /\ DOMAIN pinned = 1 .. limit
    BY <1>5, <1>6, <2>1
  <2>3. DOMAIN dates = 1 .. limit /\ dates[n] = pinned[n][1]
    BY <2>1, <2>2
  <2>4. Len(dates) = limit
    BY <1>5, <2>3
  <2>5. Index = n
    BY <1>6, <1>7, <2>4
  <2>6. now'.date = dates[n] /\ now'.seed = pinned[n][2]
    BY <1>3, <1>4, <2>5 DEF SeedOf
  <2>7. pinned[n] \in Dates \X Nat
    BY <1>5, <2>2
  <2>8. QED
    BY <2>3, <2>6, <2>7
<1>9. scheme.mode = "sequence" /\ scheme.rounds <= Len(scheme.plan) => now'.date = dates[n]
  <2> SUFFICES ASSUME scheme.mode = "sequence", scheme.rounds <= Len(scheme.plan)
               PROVE  now'.date = dates[n]
    OBVIOUS
  <2>1. limit <= Len(dates)
    BY DEF ExperimentInv, Dated
  <2>2. Index = n
    BY <1>5, <1>6, <1>7, <2>1
  <2>3. QED
    BY <1>3, <1>4, <2>2
<1>10. scheme.mode = "balanced" => now'.target = LeastCovered
  BY <1>3
<1>11. tries' \in {tries, tries + 1} /\ tries' <= limit /\ Len(record) < tries'
  BY <1>1, <1>5
<1>12. focus' # 0 => scheme.driver = "validation"
  BY <1>1, <1>5
<1>13. phase \in Going /\ phase' \in Going \cup {"failed"} /\ phase' # "frozen"
  BY <1>1 DEF Going
<1>14. QED
  BY <1>1, <1>8, <1>9, <1>10, <1>11, <1>12, <1>13, QuietStep

\* A row is one also when it is read later.
LEMMA RecordedAreRows ==
  ASSUME Counted, NEW g, Recorded(g), scheme' = scheme
  PROVE  \A i \in 1 .. Len(record) + 1 : Row(record[i])'
<1> SUFFICES ASSUME NEW i \in 1 .. Len(record) + 1 PROVE Row(record[i])'
  OBVIOUS
<1>1. Len(record) \in Nat /\ DOMAIN record = 1 .. Len(record)
  <2>1. record \in Seq(Range(record))
    BY DEF Counted
  <2>2. QED
    BY <2>1
<1>2. {"status", "outcome", "cand", "routed", "tagged", "self", "target"} \subseteq Fields \ {"effect"}
  BY DEF Fields
<1>3. DOMAIN record'[i] = Fields
  BY DEF Recorded
<1>4. \E r : Row(r) /\ \A f \in Fields \ {"effect"} : record'[i][f] = r[f]
  <2>1. CASE i = Len(record) + 1
    BY <2>1 DEF Recorded, NewRow
  <2>2. CASE i # Len(record) + 1
    <3>1. i \in 1 .. Len(record) + 1 - 1 /\ i \in DOMAIN record
      BY <1>1, <2>2
    <3>2. Row(record[i])
      BY <3>1 DEF Counted
    <3>3. \A f \in Fields \ {"effect"} : record'[i][f] = record[i][f]
      BY <3>1 DEF Recorded
    <3>4. QED
      BY <3>2, <3>3
  <2>3. QED
    BY <2>1, <2>2
<1>5. PICK r : Row(r) /\ \A f \in Fields \ {"effect"} : record'[i][f] = r[f]
  BY <1>4
<1>6. /\ record'[i].status = r.status /\ record'[i].outcome = r.outcome /\ record'[i].cand = r.cand
      /\ record'[i].routed = r.routed /\ record'[i].tagged = r.tagged /\ record'[i].self = r.self
      /\ record'[i].target = r.target
  BY <1>2, <1>5
<1>7. QED
  BY <1>3, <1>5, <1>6 DEF Row

\* The end of a cycle, and what lets it end early
LEMMA EndKeeps ==
  ASSUME ExperimentInv, phase = "chosen", NEW after, Ends(after),
         UNCHANGED <<scheme, limit, tries, drawn, pinned, dates, spare, focus>>,
         phase' \in {"idle", "failed"},
         phase' = "idle" => after = "save" \/ scheme.driver = "lab"
  PROVE  ExperimentInv'
<1> DEFINE n == Len(record) + 1
<1>1. PICK g \in RegimesAt(now.date, now.seed) :
           /\ Recorded(g)
           /\ sight' \in {sight, sight \cup {<<now.date, now.seed, g>>}}
           /\ judged' \in {judged, Append(judged, Len(record) + 1)}
           /\ after # "append" => judged' = Append(judged, Len(record) + 1)
  BY EndsRecord DEF ExperimentInv
<1>2. /\ Len(record) \in Nat /\ tries \in Nat /\ limit \in Nat /\ n <= tries /\ tries <= limit
      /\ judged \in Seq(Nat) /\ n \in Nat
  BY DEF ExperimentInv, Counted
<1>3. Counted'
  <2>1. record' \in Seq(Range(record')) /\ Len(record') = n /\ DOMAIN record' = 1 .. n
    BY <1>1, <1>2 DEF Recorded
  <2>2. \A i \in DOMAIN record' : Row(record[i])'
    BY <1>1, <2>1, RecordedAreRows DEF ExperimentInv
  <2>3. judged' \in Seq(Nat)
    BY <1>1, <1>2
  <2>4. /\ scheme' \in Schemes /\ limit' \in Nat /\ tries' \in Nat /\ tries' <= limit'
        /\ dates' \in Seq(Dates) /\ spare' \in Seq(Dates)
        /\ pinned' \in Seq(Dates \X Nat) /\ drawn'[1] \in Nat
        /\ focus' # 0 => scheme'.driver = "validation"
    BY DEF ExperimentInv, Counted
  <2>5. phase' \in Going \cup {"probing", "failed"} /\ phase' # "chosen" /\ phase' # "probing"
    BY DEF Going
  <2>6. Len(record') <= tries'
    BY <1>2, <2>1
  <2> HIDE DEF ExperimentInv
  <2>7. QED
    BY <2>1, <2>2, <2>3, <2>4, <2>5, <2>6 DEF Counted
<1>4. Sights'
  <2>1. Sights
    BY DEF ExperimentInv
  <2>2. \A v, w \in sight' : v[1] = w[1] /\ v[2] = w[2] => v[3] = w[3]
    BY <1>1, <2>1, SightsGrow
  <2>3. QED
    BY <2>2 DEF Sights
<1>5. Pins'
  <2>1. sight \subseteq sight' /\ phase' # "chosen" /\ phase \in Going
    BY <1>1 DEF Going
  <2>2. QED
    BY <2>1 DEF ExperimentInv, Pins, Target
<1>6. Dated' /\ Aimed' /\ FreezeIsEarned'
  BY DEF ExperimentInv, Dated, Aimed, FreezeIsEarned
<1>7. Judged'
  <2> SUFFICES ASSUME scheme.driver = "training", phase' = "idle"
               PROVE  judged' = [i \in 1 .. Len(record') |-> i]
    BY DEF Judged, Going
  <2>1. judged' = Append(judged, n)
    BY <1>1
  <2>2. judged = [i \in 1 .. n - 1 |-> i]
    BY <1>2 DEF ExperimentInv, Judged, Going
  <2>3. Len(record') = n
    BY <1>1 DEF Recorded
  <2>4. Len(judged) = n - 1
    BY <1>2, <2>2
  <2>5. Append(judged, n) = [i \in 1 .. n |-> IF i = n THEN n ELSE judged[i]]
    <3>1. /\ DOMAIN Append(judged, n) = 1 .. n /\ Append(judged, n)[n] = n
          /\ \A i \in 1 .. n - 1 : Append(judged, n)[i] = judged[i]
          /\ Append(judged, n) = [i \in 1 .. n |-> Append(judged, n)[i]]
      <4>1. n = Len(judged) + 1
        BY <1>2, <2>4
      <4>2. QED
        BY <1>2, <4>1, OneMore
    <3>2. QED
      BY <1>2, <3>1
  <2>6. [i \in 1 .. n |-> IF i = n THEN n ELSE judged[i]] = [i \in 1 .. n |-> i]
    BY <1>2, <2>2
  <2>7. QED
    BY <2>1, <2>3, <2>5, <2>6
<1>8. RegimesAsPlanned'
  <2>1. PinnedAsProbed'
    BY <1>1, PinnedNext
  <2>2. SequenceInOrder'
    BY <1>1, SequenceNext
  <2>3. CoverageIsBalanced'
    BY <1>1, BalancedNext
  <2>4. QED
    BY <2>1, <2>2, <2>3 DEF RegimesAsPlanned
<1>9. QED
  BY <1>3, <1>4, <1>5, <1>6, <1>7, <1>8 DEF ExperimentInv

\* The dates of a pinned plan are dates.
LEMMA PlannedDates ==
  ASSUME NEW p \in Seq(Dates \X Nat)
  PROVE  [i \in DOMAIN p |-> p[i][1]] \in Seq(Dates)
<1>1. Len(p) \in Nat /\ DOMAIN p = 1 .. Len(p) /\ \A i \in 1 .. Len(p) : p[i] \in Dates \X Nat
  OBVIOUS
<1>2. \A i \in 1 .. Len(p) : p[i][1] \in Dates
  BY <1>1
<1>3. [i \in DOMAIN p |-> p[i][1]] \in [1 .. Len(p) -> Dates]
  BY <1>1, <1>2
<1>4. QED
  BY <1>1, <1>3

\* Every sample that was matched showed the target.
LEMMA DrawnShows ==
  ASSUME NEW p \in Seq(Dates \X Nat), NEW q, NEW S, NEW d \in Dates, NEW k \in Nat,
         \A i \in DOMAIN p : <<p[i][1], p[i][2], Target>> \in S,
         q = p \/ (q = Append(p, <<d, k>>) /\ <<d, k, Target>> \in S)
  PROVE  /\ q \in Seq(Dates \X Nat)
         /\ \A i \in DOMAIN q : <<q[i][1], q[i][2], Target>> \in S
<1>1. CASE q = p
  BY <1>1
<1>2. CASE q = Append(p, <<d, k>>) /\ <<d, k, Target>> \in S
  <2>1. /\ Len(p) \in Nat /\ DOMAIN p = 1 .. Len(p) + 1 - 1 /\ DOMAIN q = 1 .. Len(p) + 1
        /\ q[Len(p) + 1] = <<d, k>> /\ \A i \in 1 .. Len(p) + 1 - 1 : q[i] = p[i]
    BY <1>2, OneMore
  <2>2. q \in Seq(Dates \X Nat)
    BY <1>2
  <2>3. ASSUME NEW i \in DOMAIN q PROVE <<q[i][1], q[i][2], Target>> \in S
    <3>1. CASE i = Len(p) + 1
      <4>1. q[i][1] = d /\ q[i][2] = k
        BY <2>1, <3>1
      <4>2. QED
        BY <1>2, <4>1
    <3>2. CASE i # Len(p) + 1
      <4>1. i \in 1 .. Len(p) + 1 - 1
        BY <2>1, <3>2
      <4>2. q[i] = p[i] /\ i \in DOMAIN p
        BY <2>1, <4>1
      <4>3. QED
        BY <4>2
    <3>3. QED
      BY <3>1, <3>2
  <2>4. QED
    BY <2>2, <2>3
<1>3. QED
  BY <1>1, <1>2

\* Those kept are among those matched.
LEMMA RankedAreMatched ==
  ASSUME NEW p \in Seq(Dates \X Nat), NEW q \in Ranked(p), scheme.rounds \in Nat
  PROVE  /\ q \in Seq(Dates \X Nat) /\ \A i \in DOMAIN q : \E j \in DOMAIN p : q[i] = p[j]
         /\ Len(p) >= scheme.rounds => Len(q) = scheme.rounds
<1> DEFINE n == IF Len(p) < scheme.rounds THEN Len(p) ELSE scheme.rounds
<1>1. n \in Nat /\ (Len(p) >= scheme.rounds => n = scheme.rounds)
  OBVIOUS
<1>2. q \in [1 .. n -> Range(p)]
  BY DEF Ranked
<1>3. Range(p) \subseteq Dates \X Nat /\ \A v \in Range(p) : \E j \in DOMAIN p : v = p[j]
  BY DEF Range
<1> HIDE DEF n
<1>4. q \in [1 .. n -> Dates \X Nat] /\ DOMAIN q = 1 .. n
  BY <1>2, <1>3
<1>5. q \in Seq(Dates \X Nat) /\ Len(q) = n
  BY <1>1, <1>4
<1>6. QED
  BY <1>1, <1>2, <1>3, <1>4, <1>5

LEMMA DrawKeeps ==
  ASSUME ExperimentInv, Draw
  PROVE  ExperimentInv'
<1>1. /\ scheme \in Schemes /\ scheme.mode = "pinned" /\ record = <<>> /\ phase = "probing"
      /\ limit \in Nat /\ tries \in Nat /\ tries <= limit /\ drawn[1] \in Nat
      /\ pinned \in Seq(Dates \X Nat) /\ dates \in Seq(Dates) /\ spare \in Seq(Dates)
      /\ judged \in Seq(Nat) /\ (focus # 0 => scheme.driver = "validation") /\ Len(record) <= tries
  BY DEF ExperimentInv, Counted, Draw
<1>2. scheme.driver = "calibration" /\ scheme.rounds \in Nat
  <2>1. scheme.driver = "calibration"
    BY <1>1, ExperimentConstants
  <2>2. scheme.rounds \in 1 .. MaxCycles /\ MaxCycles \in Nat
    BY <1>1, ExperimentConstants
  <2>3. QED
    BY <2>1, <2>2
<1>3. /\ limit = scheme.rounds
      /\ \A i \in DOMAIN pinned : <<pinned[i][1], pinned[i][2], Target>> \in sight
  BY <1>1 DEF ExperimentInv, Pins
<1>4. UNCHANGED <<scheme, limit, tries, record, judged, spare, focus>>
  BY DEF Draw
<1> DEFINE k == drawn[1] + 1
<1>5. PICK d \in Dates : \E g \in RegimesAt(d, k) :
        LET fresh == d \notin drawn[2]
            hit   == fresh /\ g = Target
            found == IF hit THEN Append(pinned, <<d, k>>) ELSE pinned
            over  == \/ k = MaxDraws
                     \/ hit /\ Len(found) >= scheme.rounds /\ k >= MinDraws
        IN  /\ drawn' = <<k, drawn[2] \cup {d}>>
            /\ sight' = IF fresh THEN sight \cup {<<d, k, g>>} ELSE sight
            /\ pinned' \in IF over THEN Ranked(found) ELSE {found}
            /\ phase' = CASE ~over -> "probing"
                          [] over /\ Len(found) < scheme.rounds -> "failed"
                          [] over /\ Len(found) >= scheme.rounds -> "idle"
            /\ dates' = IF phase' = "idle" THEN [i \in DOMAIN pinned' |-> pinned'[i][1]] ELSE dates
  BY Zenon DEF Draw
<1>6. PICK g \in RegimesAt(d, k) :
        LET fresh == d \notin drawn[2]
            hit   == fresh /\ g = Target
            found == IF hit THEN Append(pinned, <<d, k>>) ELSE pinned
            over  == \/ k = MaxDraws
                     \/ hit /\ Len(found) >= scheme.rounds /\ k >= MinDraws
        IN  /\ drawn' = <<k, drawn[2] \cup {d}>>
            /\ sight' = IF fresh THEN sight \cup {<<d, k, g>>} ELSE sight
            /\ pinned' \in IF over THEN Ranked(found) ELSE {found}
            /\ phase' = CASE ~over -> "probing"
                          [] over /\ Len(found) < scheme.rounds -> "failed"
                          [] over /\ Len(found) >= scheme.rounds -> "idle"
            /\ dates' = IF phase' = "idle" THEN [i \in DOMAIN pinned' |-> pinned'[i][1]] ELSE dates
  BY <1>5, Zenon
<1> DEFINE hit   == d \notin drawn[2] /\ g = Target
           found == IF hit THEN Append(pinned, <<d, k>>) ELSE pinned
           over  == k = MaxDraws \/ (hit /\ Len(found) >= scheme.rounds /\ k >= MinDraws)
<1>7. /\ drawn' = <<k, drawn[2] \cup {d}>>
      /\ sight' = IF d \notin drawn[2] THEN sight \cup {<<d, k, g>>} ELSE sight
      /\ pinned' \in IF over THEN Ranked(found) ELSE {found}
      /\ phase' = CASE ~over -> "probing"
                    [] over /\ Len(found) < scheme.rounds -> "failed"
                    [] over /\ Len(found) >= scheme.rounds -> "idle"
      /\ dates' = IF phase' = "idle" THEN [i \in DOMAIN pinned' |-> pinned'[i][1]] ELSE dates
  BY <1>6
<1>8. found = pinned \/ (found = Append(pinned, <<d, k>>) /\ <<d, k, Target>> \in sight')
  BY <1>7
<1>9. k \in Nat /\ drawn'[1] = k /\ sight \subseteq sight'
  BY <1>1, <1>7
<1>10. sight' \in {sight, sight \cup {<<d, k, g>>}}
  BY <1>7
<1> HIDE DEF hit, found, k
<1>11. found \in Seq(Dates \X Nat) /\ \A i \in DOMAIN found : <<found[i][1], found[i][2], Target>> \in sight'
  <2>1. \A i \in DOMAIN pinned : <<pinned[i][1], pinned[i][2], Target>> \in sight'
    BY <1>3, <1>9
  <2>2. QED
    BY <1>1, <1>8, <1>9, <2>1, DrawnShows
<1>12. Len(found) \in Nat
  BY <1>11
<1>13. /\ phase' \in {"probing", "failed", "idle"} /\ (phase' = "idle" => over /\ Len(found) >= scheme.rounds)
  <2>1. Len(found) < scheme.rounds \/ Len(found) >= scheme.rounds
    BY <1>2, <1>12
  <2> HIDE DEF over
  <2>2. QED
    BY <1>2, <1>7, <1>12, <2>1
<1> HIDE DEF over
<1>14. /\ pinned' \in Seq(Dates \X Nat)
       /\ \A i \in DOMAIN pinned' : <<pinned'[i][1], pinned'[i][2], Target>> \in sight'
       /\ phase' = "idle" => Len(pinned') = scheme.rounds
  <2>1. CASE over
    <3>1. pinned' \in Ranked(found)
      BY <1>7, <2>1
    <3>2. /\ pinned' \in Seq(Dates \X Nat)
          /\ \A i \in DOMAIN pinned' : \E j \in DOMAIN found : pinned'[i] = found[j]
          /\ Len(found) >= scheme.rounds => Len(pinned') = scheme.rounds
      BY <1>2, <1>11, <3>1, RankedAreMatched
    <3>3. QED
      BY <1>11, <1>13, <3>2
  <2>2. CASE ~over
    BY <1>7, <1>11, <1>13, <2>2
  <2>3. QED
    BY <2>1, <2>2
<1>15. dates' \in Seq(Dates)
  <2>1. [i \in DOMAIN pinned' |-> pinned'[i][1]] \in Seq(Dates)
    BY <1>14, PlannedDates
  <2>2. QED
    BY <1>1, <1>7, <2>1
<1>16. Counted'
  <2>1. record' = <<>> /\ record' \in Seq(Range(record')) /\ DOMAIN record' = {} /\ Len(record') = 0
    BY <1>1, <1>4
  <2>2. phase' \in Going \cup {"probing", "failed"} /\ phase' # "chosen"
    BY <1>13 DEF Going
  <2>3. QED
    BY <1>1, <1>4, <1>9, <1>14, <1>15, <2>1, <2>2 DEF Counted
<1>17. Sights'
  <2>1. Sights
    BY DEF ExperimentInv
  <2>2. \A v, w \in sight' : v[1] = w[1] /\ v[2] = w[2] => v[3] = w[3]
    BY <1>10, <2>1, SightsGrow
  <2>3. QED
    BY <2>2 DEF Sights
<1>18. Pins'
  <2>1. phase' \in Going => phase' = "idle"
    BY <1>13 DEF Going
  <2>2. phase' # "chosen"
    BY <1>13
  <2>3. limit' = scheme'.rounds
    BY <1>3, <1>4
  <2>4. \A i \in DOMAIN pinned' : <<pinned'[i][1], pinned'[i][2], Target'>> \in sight'
    BY <1>14 DEF Target
  <2>5. QED
    BY <1>4, <1>7, <1>14, <2>1, <2>2, <2>3, <2>4 DEF Pins
<1>19. Dated' /\ Aimed' /\ Judged' /\ FreezeIsEarned'
  BY <1>1, <1>2, <1>4, <1>13 DEF Dated, Aimed, Judged, FreezeIsEarned
<1>20. RegimesAsPlanned'
  <2>1. DOMAIN record' = {} /\ scheme'.mode = "pinned"
    BY <1>1, <1>4
  <2>2. QED
    BY <2>1 DEF RegimesAsPlanned, PinnedAsProbed, SequenceInOrder, CoverageIsBalanced
<1>21. QED
  BY <1>16, <1>17, <1>18, <1>19, <1>20 DEF ExperimentInv

LEMMA FollowUpKeeps ==
  ASSUME ExperimentInv, FollowUp
  PROVE  ExperimentInv'
<1>1. /\ phase = "done" /\ phase' = "idle" /\ limit' = limit + 1 /\ spare # <<>>
      /\ dates' = Append(dates, Head(spare)) /\ spare' = Tail(spare)
      /\ UNCHANGED <<scheme, tries, record, judged, sight, drawn, pinned, focus>>
  BY DEF FollowUp
<1>2. scheme.driver = "validation" /\ scheme.mode = "sequence"
  <2>1. scheme \in Schemes /\ scheme.driver = "validation"
    BY DEF FollowUp, ExperimentInv, Counted
  <2>2. QED
    BY <2>1, ExperimentConstants
<1>3. /\ record \in Seq(Range(record)) /\ dates \in Seq(Dates) /\ spare \in Seq(Dates)
      /\ limit \in Nat /\ tries \in Nat /\ tries <= limit
  BY DEF ExperimentInv, Counted
<1>4. /\ Len(dates) \in Nat /\ DOMAIN dates = 1 .. Len(dates) + 1 - 1
      /\ DOMAIN dates' = 1 .. Len(dates) + 1
      /\ \A i \in 1 .. Len(dates) + 1 - 1 : dates'[i] = dates[i]
  BY <1>1, <1>3, OneMore
<1>5. dates' \in Seq(Dates) /\ spare' \in Seq(Dates) /\ Len(dates') = Len(dates) + 1
  BY <1>1, <1>3
<1>6. Counted'
  <2>1. limit' \in Nat /\ tries' \in Nat /\ tries' <= limit'
    BY <1>1, <1>3
  <2>2. phase' \in Going \cup {"probing", "failed"} /\ phase' # "chosen" /\ phase' # "probing"
    BY <1>1 DEF Going
  <2>3. \A i \in DOMAIN record : Row(record[i])'
    <3> SUFFICES ASSUME NEW i \in DOMAIN record PROVE Row(record[i])'
      OBVIOUS
    <3>1. Row(record[i])
      BY DEF ExperimentInv, Counted
    <3>2. QED
      BY <1>1, <3>1 DEF Row
  <2>4. /\ scheme \in Schemes /\ Len(record) <= tries /\ judged \in Seq(Nat)
        /\ pinned \in Seq(Dates \X Nat) /\ drawn[1] \in Nat
    BY DEF ExperimentInv, Counted
  <2>5. QED
    BY <1>1, <1>2, <1>3, <1>5, <2>1, <2>2, <2>3, <2>4 DEF Counted
<1>7. Sights' /\ Pins' /\ Aimed' /\ Judged' /\ FreezeIsEarned'
  BY <1>1, <1>2 DEF ExperimentInv, Sights, Pins, Aimed, Judged, FreezeIsEarned
<1>8. Dated'
  BY <1>1, <1>3, <1>4, <1>5 DEF ExperimentInv, Dated
<1>9. RegimesAsPlanned'
  <2>1. SequenceInOrder'
    <3> SUFFICES ASSUME scheme.rounds <= Len(scheme.plan), NEW i \in DOMAIN record
                 PROVE  i \in DOMAIN dates' /\ record[i].date = dates'[i]
      BY <1>1 DEF SequenceInOrder
    <3>1. i \in DOMAIN dates /\ record[i].date = dates[i]
      BY <1>2 DEF ExperimentInv, RegimesAsPlanned, SequenceInOrder
    <3>2. QED
      BY <1>4, <3>1
  <2>2. PinnedAsProbed' /\ CoverageIsBalanced'
    BY <1>1, <1>2 DEF PinnedAsProbed, CoverageIsBalanced
  <2>3. QED
    BY <2>1, <2>2 DEF RegimesAsPlanned
<1>10. QED
  BY <1>6, <1>7, <1>8, <1>9 DEF ExperimentInv

LEMMA ExperimentStep ==
  ASSUME ExperimentInv, [ExperimentNext]_experimentVars
  PROVE  ExperimentInv'
<1>1. /\ tries \in Nat /\ limit \in Nat /\ tries <= limit /\ Len(record) <= tries
      /\ focus # 0 => scheme.driver = "validation"
  BY DEF ExperimentInv, Counted
<1>2. ASSUME Skipped PROVE ExperimentInv'
  <2>1. /\ UNCHANGED <<scheme, limit, record, judged, sight, drawn, pinned, dates, spare>>
        /\ tries' = tries /\ focus' = focus /\ phase = "chosen" /\ phase' = "idle"
    BY <1>2 DEF Skipped, choice
  <2>2. phase \in Going /\ phase' \in Going \cup {"failed"} /\ tries' \in {tries, tries + 1}
    BY <2>1 DEF Going
  <2>3. QED
    BY <1>1, <2>1, <2>2, QuietStep
<1>3. ASSUME Raised PROVE ExperimentInv'
  <2>1. /\ UNCHANGED <<scheme, limit, record, judged, sight, drawn, pinned, dates, spare>>
        /\ tries' = tries /\ focus' = focus /\ phase = "chosen" /\ phase' \in {"idle", "failed"}
    BY <1>3 DEF Raised, Halt, choice
  <2>2. phase \in Going /\ phase' \in Going \cup {"failed"} /\ tries' \in {tries, tries + 1}
    BY <2>1 DEF Going
  <2>3. QED
    BY <1>1, <2>1, <2>2, QuietStep
<1>4. ASSUME FreezeModel PROVE ExperimentInv'
  <2>1. /\ UNCHANGED <<scheme, limit, record, judged, sight, drawn, pinned, dates, spare>>
        /\ tries' = tries /\ focus' = focus /\ phase = "idle" /\ phase' = "frozen"
        /\ scheme.driver = "training" /\ Gate.passed /\ heard' = heard
    BY <1>4 DEF FreezeModel, choice
  <2>2. phase \in Going /\ phase' \in Going \cup {"failed"} /\ tries' \in {tries, tries + 1}
    BY <2>1 DEF Going
  <2>3. QED
    BY <1>1, <2>1, <2>2, QuietStep
<1>5. ASSUME Conclude PROVE ExperimentInv'
  <2>1. /\ UNCHANGED <<scheme, limit, record, judged, sight, drawn, pinned, dates, spare>>
        /\ tries' = tries /\ phase = "idle" /\ phase' = "done"
        /\ focus' # 0 => scheme.driver = "validation"
    BY <1>1, <1>5 DEF Conclude
  <2>2. phase \in Going /\ phase' \in Going \cup {"failed"} /\ tries' \in {tries, tries + 1}
    BY <2>1 DEF Going
  <2>3. QED
    BY <1>1, <2>1, <2>2, QuietStep
<1>6. ASSUME Complete PROVE ExperimentInv'
  <2>1. /\ UNCHANGED <<scheme, limit, tries, drawn, pinned, dates, spare, focus>>
        /\ phase = "chosen" /\ phase' = "idle" /\ Ends("save")
    BY <1>6 DEF Complete
  <2>2. QED
    BY <2>1, EndKeeps
<1>7. ASSUME RaisedLate PROVE ExperimentInv'
  <2>1. /\ UNCHANGED <<scheme, limit, tries, drawn, pinned, dates, spare, focus>>
        /\ phase = "chosen" /\ phase' \in {"idle", "failed"}
        /\ phase' = "idle" => scheme.driver = "lab"
    BY <1>7 DEF RaisedLate, Halt
  <2>2. PICK after \in {"append", "judge"} : Ends(after)
    BY <1>7 DEF RaisedLate
  <2>3. QED
    BY <2>1, <2>2, EndKeeps
<1>8. ASSUME UNCHANGED experimentVars PROVE ExperimentInv'
  <2>1. UNCHANGED <<scheme, phase, limit, tries, record, judged, sight, drawn, pinned, dates, spare,
                    focus, heard, now>>
    BY <1>8 DEF experimentVars, choice
  <2>2. Counted'
    <3>1. \A i \in DOMAIN record : Row(record[i])'
      <4> SUFFICES ASSUME NEW i \in DOMAIN record PROVE Row(record[i])'
        OBVIOUS
      <4>1. Row(record[i])
        BY DEF ExperimentInv, Counted
      <4>2. QED
        BY <2>1, <4>1 DEF Row
    <3>2. QED
      BY <2>1, <3>1 DEF ExperimentInv, Counted
  <2>3. Sights' /\ Pins' /\ Dated' /\ Judged' /\ FreezeIsEarned'
    BY <2>1 DEF ExperimentInv, Sights, Pins, Dated, Judged, FreezeIsEarned, Target
  <2>4. Aimed'
    BY <2>1, SameLeast DEF ExperimentInv, Aimed
  <2>5. RegimesAsPlanned'
    BY <2>1, SameRecord DEF ExperimentInv
  <2>6. QED
    BY <2>2, <2>3, <2>4, <2>5 DEF ExperimentInv
<1>9. QED
  BY <1>2, <1>3, <1>4, <1>5, <1>6, <1>7, <1>8, DrawKeeps, BeginKeeps, FollowUpKeeps DEF ExperimentNext

LEMMA ExperimentInvHolds == ExperimentSpec => []ExperimentInv
<1>1. ExperimentInit => ExperimentInv
  BY InitExperiment
<1>2. ExperimentInv /\ [ExperimentNext]_experimentVars => ExperimentInv'
  BY ExperimentStep
<1>3. QED
  BY <1>1, <1>2, PTL DEF ExperimentSpec

\* In every experiment the cycles are about the dates, samples and regimes it planned for: a
\* calibration is about what it probed, a sequence is kept however many attempts were skipped,
\* and balanced sampling never lets a target get ahead by more than one cycle.
THEOREM RegimesAlwaysAsPlanned == ExperimentSpec => []RegimesAsPlanned
<1>1. ExperimentInv => RegimesAsPlanned
  BY DEF ExperimentInv
<1>2. QED
  BY <1>1, ExperimentInvHolds, PTL

\* A run that froze has earned it: whatever the window, its last cycles won often enough and
\* gained, all of them were judged, and no cycle of the run ever had a candidate.
THEOREM FreezeAlwaysEarned == ExperimentSpec => []FreezeIsEarned
<1>1. ExperimentInv => FreezeIsEarned
  BY DEF ExperimentInv
<1>2. QED
  BY <1>1, ExperimentInvHolds, PTL

---------------------------------------------------------------------------
(* Induction, with what is to be shown as a set, and sums *)

\* What holds of 0, and of the successor of each number it holds of, holds of all.
LEMMA FromZero ==
  ASSUME NEW Good, 0 \in Good, \A n \in Nat : n \in Good => n + 1 \in Good
  PROVE  Nat \subseteq Good
<1> SUFFICES ASSUME Nat \ Good # {} PROVE FALSE
  OBVIOUS
<1> DEFINE bad == Nat \ Good
           m   == Min(bad)
<1>1. m \in bad /\ \A y \in bad : m <= y
  BY MinExists
<1> HIDE DEF m
<1>2. m # 0 /\ m - 1 \in Nat /\ m - 1 \notin bad
  BY <1>1
<1>3. m - 1 + 1 \in Good
  BY <1>2
<1>4. QED
  BY <1>1, <1>3

\* What holds of the empty set, and of each set it holds of with an element more, holds of a
\* finite set.
LEMMA FromEmpty ==
  ASSUME NEW S, IsFiniteSet(S), NEW Good, {} \in Good,
         \A T \in SUBSET S, x \in S : T \in Good /\ x \notin T => T \cup {x} \in Good
  PROVE  S \in Good
<1> DEFINE Sized == {n \in Nat : \A T \in SUBSET S : Cardinality(T) = n => T \in Good}
<1>1. 0 \in Sized
  <2>1. \A T \in SUBSET S : Cardinality(T) = 0 => T = {}
    BY FS_Subset, FS_EmptySet
  <2>2. QED
    BY <2>1
<1>2. ASSUME NEW n \in Nat, n \in Sized PROVE n + 1 \in Sized
  <2> SUFFICES ASSUME NEW T \in SUBSET S, Cardinality(T) = n + 1 PROVE T \in Good
    OBVIOUS
  <2>1. IsFiniteSet(T) /\ T # {}
    BY FS_Subset, FS_EmptySet
  <2>2. PICK x \in T : TRUE
    BY <2>1
  <2>3. Cardinality(T \ {x}) = n
    <3>1. Cardinality(T \ {x}) = Cardinality(T) - 1
      BY <2>1, FS_RemoveElement
    <3>2. QED
      BY <3>1
  <2>4. T \ {x} \in Good
    BY <1>2, <2>3
  <2>5. T = (T \ {x}) \cup {x} /\ x \in S
    OBVIOUS
  <2>6. QED
    BY <2>4, <2>5
<1> HIDE DEF Sized
<1>3. Nat \subseteq Sized
  BY <1>1, <1>2, FromZero
<1>4. Cardinality(S) \in Nat
  BY FS_CardinalityType
<1>5. QED
  BY <1>3, <1>4 DEF Sized

\* g[T] is the sum of f over T, element after element, as a fold takes them.
Adds(g, f, D) ==
  \A T \in D : g[T] = IF T = {} THEN 0
                      ELSE f[CHOOSE x \in T : TRUE] + g[T \ {CHOOSE x \in T : TRUE}]

\* There is a function that adds up the values of f over every part of its finite domain.
LEMMA SumsExist ==
  ASSUME NEW S, IsFiniteSet(S), NEW f \in [S -> Int]
  PROVE  \E g \in [SUBSET S -> Int] : Adds(g, f, SUBSET S)
<1> DEFINE UpTo(n) == {T \in SUBSET S : Cardinality(T) <= n}
           Good == {n \in Nat : \E g \in [UpTo(n) -> Int] : Adds(g, f, UpTo(n))}
<1>1. \A T \in SUBSET S : IsFiniteSet(T) /\ Cardinality(T) \in Nat
  BY FS_Subset, FS_CardinalityType
<1>2. \A T \in SUBSET S : T # {} =>
        /\ (CHOOSE x \in T : TRUE) \in T
        /\ Cardinality(T \ {CHOOSE x \in T : TRUE}) = Cardinality(T) - 1
  <2> SUFFICES ASSUME NEW T \in SUBSET S, T # {}
               PROVE  /\ (CHOOSE x \in T : TRUE) \in T
                      /\ Cardinality(T \ {CHOOSE x \in T : TRUE}) = Cardinality(T) - 1
    OBVIOUS
  <2>1. PICK c : c = CHOOSE x \in T : TRUE
    OBVIOUS
  <2>2. c \in T
    BY <2>1
  <2>3. Cardinality(T \ {c}) = Cardinality(T) - 1
    BY <1>1, <2>2, FS_RemoveElement
  <2>4. QED
    BY <2>1, <2>2, <2>3
<1>3. 0 \in Good
  <2> DEFINE g == [T \in UpTo(0) |-> 0]
  <2>1. \A T \in UpTo(0) : T = {}
    <3>1. \A T \in UpTo(0) : Cardinality(T) = 0
      BY <1>1
    <3>2. QED
      BY <1>1, <3>1, FS_EmptySet
  <2>2. g \in [UpTo(0) -> Int] /\ Adds(g, f, UpTo(0))
    BY <2>1 DEF Adds
  <2>3. QED
    BY <2>2
<1>4. ASSUME NEW n \in Nat, n \in Good PROVE n + 1 \in Good
  <2>1. PICK g \in [UpTo(n) -> Int] : Adds(g, f, UpTo(n))
    BY <1>4
  <2> DEFINE h == [T \in UpTo(n + 1) |->
                     IF T = {} THEN 0
                     ELSE f[CHOOSE x \in T : TRUE] + g[T \ {CHOOSE x \in T : TRUE}]]
  <2>2. \A T \in UpTo(n + 1) : T # {} => T \ {CHOOSE x \in T : TRUE} \in UpTo(n)
    BY <1>1, <1>2
  <2>3. h \in [UpTo(n + 1) -> Int]
    <3> SUFFICES ASSUME NEW T \in UpTo(n + 1)
                 PROVE  (IF T = {} THEN 0
                         ELSE f[CHOOSE x \in T : TRUE] + g[T \ {CHOOSE x \in T : TRUE}]) \in Int
      OBVIOUS
    <3>1. T # {} => f[CHOOSE x \in T : TRUE] \in Int
      BY <1>2
    <3>2. T # {} => g[T \ {CHOOSE x \in T : TRUE}] \in Int
      BY <2>2
    <3> HIDE DEF UpTo
    <3>3. QED
      BY <3>1, <3>2
  <2>4. \A T \in UpTo(n) : T \in UpTo(n + 1) /\ h[T] = g[T]
    <3> SUFFICES ASSUME NEW T \in UpTo(n) PROVE T \in UpTo(n + 1) /\ h[T] = g[T]
      OBVIOUS
    <3>1. T \in UpTo(n + 1)
      BY <1>1
    <3>2. g[T] = IF T = {} THEN 0 ELSE f[CHOOSE x \in T : TRUE] + g[T \ {CHOOSE x \in T : TRUE}]
      BY <2>1 DEF Adds
    <3> HIDE DEF UpTo
    <3>3. QED
      BY <3>1, <3>2
  <2>5. Adds(h, f, UpTo(n + 1))
    <3> SUFFICES ASSUME NEW T \in UpTo(n + 1)
                 PROVE  h[T] = IF T = {} THEN 0
                               ELSE f[CHOOSE x \in T : TRUE] + h[T \ {CHOOSE x \in T : TRUE}]
      BY DEF Adds
    <3>1. T # {} => h[T \ {CHOOSE x \in T : TRUE}] = g[T \ {CHOOSE x \in T : TRUE}]
      BY <2>2, <2>4
    <3> HIDE DEF UpTo
    <3>2. h[T] = IF T = {} THEN 0 ELSE f[CHOOSE x \in T : TRUE] + g[T \ {CHOOSE x \in T : TRUE}]
      OBVIOUS
    <3> HIDE DEF h
    <3>3. QED
      BY <3>1, <3>2
  <2> HIDE DEF h, UpTo
  <2>6. \E g2 \in [UpTo(n + 1) -> Int] : Adds(g2, f, UpTo(n + 1))
    BY <2>3, <2>5
  <2>7. QED
    BY <2>6
<1>5. Nat \subseteq Good
  <2> HIDE DEF Good
  <2>1. QED
    BY <1>3, <1>4, FromZero
<1>6. Cardinality(S) \in Nat /\ UpTo(Cardinality(S)) = SUBSET S
  BY <1>1, FS_Subset, FS_CardinalityType
<1> HIDE DEF UpTo
<1>7. QED
  BY <1>5, <1>6

\* There is but one such sum.
LEMMA SumsAgree ==
  ASSUME NEW S, IsFiniteSet(S), NEW f, NEW g, NEW h, Adds(g, f, SUBSET S), Adds(h, f, SUBSET S)
  PROVE  \A T \in SUBSET S : g[T] = h[T]
<1> DEFINE Good == {n \in Nat : \A T \in SUBSET S : Cardinality(T) = n => g[T] = h[T]}
<1>1. \A T \in SUBSET S : IsFiniteSet(T) /\ Cardinality(T) \in Nat
  BY FS_Subset, FS_CardinalityType
<1>2. 0 \in Good
  <2> SUFFICES ASSUME NEW T \in SUBSET S, Cardinality(T) = 0 PROVE g[T] = h[T]
    OBVIOUS
  <2>1. T = {}
    BY <1>1, FS_EmptySet
  <2>2. QED
    BY <2>1 DEF Adds
<1>3. ASSUME NEW n \in Nat, n \in Good PROVE n + 1 \in Good
  <2> SUFFICES ASSUME NEW T \in SUBSET S, Cardinality(T) = n + 1 PROVE g[T] = h[T]
    OBVIOUS
  <2>1. T # {}
    BY <1>1, FS_EmptySet
  <2>2. PICK c : c = CHOOSE x \in T : TRUE
    OBVIOUS
  <2>3. c \in T /\ Cardinality(T \ {c}) = n
    <3>1. c \in T /\ IsFiniteSet(T)
      BY <1>1, <2>1, <2>2
    <3>2. Cardinality(T \ {c}) = Cardinality(T) - 1
      BY <3>1, FS_RemoveElement
    <3>3. QED
      BY <3>1, <3>2
  <2>4. g[T \ {c}] = h[T \ {c}]
    BY <1>3, <2>3
  <2>5. g[T] = f[c] + g[T \ {c}] /\ h[T] = f[c] + h[T \ {c}]
    BY <2>1, <2>2 DEF Adds
  <2>6. QED
    BY <2>4, <2>5
<1> HIDE DEF Good
<1>4. Nat \subseteq Good
  BY <1>2, <1>3, FromZero
<1>5. QED
  BY <1>1, <1>4 DEF Good

\* The library's sum is this one.
LEMMA SumIsAdded ==
  ASSUME NEW S, IsFiniteSet(S), NEW f \in [S -> Int], NEW g \in [SUBSET S -> Int], Adds(g, f, SUBSET S)
  PROVE  SumFunction(f) = g[S]
<1> DEFINE Is(h) == h = [T \in SUBSET S |->
                     IF T = {} THEN 0
                     ELSE f[CHOOSE x \in T : TRUE] + h[T \ {CHOOSE x \in T : TRUE}]]
<1>1. Is(g)
  BY DEF Adds
<1>2. Is(CHOOSE h : Is(h))
  <2> HIDE DEF Is
  <2>1. QED
    BY <1>1
<1>3. PICK h : h = (CHOOSE i : Is(i)) /\ Is(h)
  BY <1>2
<1>4. Adds(h, f, SUBSET S)
  BY <1>3 DEF Adds
<1>5. h[S] = g[S]
  BY <1>4, SumsAgree
<1>6. SumFunction(f) = (CHOOSE i : Is(i))[S]
  BY DEF SumFunction, SumFunctionOnSet, FoldFunctionOnSet, MapThenFoldSet
<1>7. QED
  BY <1>3, <1>5, <1>6

\* The sum over the part T of the domain of f
SumOver(f, T) == SumFunction([x \in T |-> f[x]])

\* In whichever order it is added up, a sum is an integer, the empty one is 0, and an element
\* more adds its value.
LEMMA SumsAdd ==
  ASSUME NEW S, IsFiniteSet(S), NEW f \in [S -> Int]
  PROVE  /\ SumFunction(f) = SumOver(f, S)
         /\ SumOver(f, {}) = 0
         /\ \A T \in SUBSET S : SumOver(f, T) \in Int
         /\ \A T \in SUBSET S, a \in S : a \notin T => SumOver(f, T \cup {a}) = SumOver(f, T) + f[a]
<1>1. PICK g \in [SUBSET S -> Int] : Adds(g, f, SUBSET S)
  BY SumsExist
<1>2. ASSUME NEW T \in SUBSET S PROVE SumOver(f, T) = g[T]
  <2> DEFINE fT == [x \in T |-> f[x]]
             gT == [U \in SUBSET T |-> g[U]]
  <2>1. IsFiniteSet(T) /\ fT \in [T -> Int] /\ gT \in [SUBSET T -> Int]
    BY FS_Subset
  <2>2. Adds(gT, fT, SUBSET T)
    <3> SUFFICES ASSUME NEW U \in SUBSET T
                 PROVE  gT[U] = IF U = {} THEN 0
                                ELSE fT[CHOOSE x \in U : TRUE] + gT[U \ {CHOOSE x \in U : TRUE}]
      BY DEF Adds
    <3>1. g[U] = IF U = {} THEN 0 ELSE f[CHOOSE x \in U : TRUE] + g[U \ {CHOOSE x \in U : TRUE}]
      BY <1>1 DEF Adds
    <3>2. U # {} => (CHOOSE x \in U : TRUE) \in T
      OBVIOUS
    <3>3. QED
      BY <3>1, <3>2
  <2> HIDE DEF gT
  <2>3. SumFunction(fT) = gT[T]
    BY <2>1, <2>2, SumIsAdded
  <2>4. QED
    BY <2>3 DEF gT, SumOver
<1>3. SumFunction(f) = g[S]
  BY <1>1, SumIsAdded
<1>4. g[{}] = 0
  BY <1>1 DEF Adds
<1> DEFINE Good == {n \in Nat : \A T \in SUBSET S : Cardinality(T) = n =>
                                  \A a \in T : g[T] = g[T \ {a}] + f[a]}
<1>5. \A T \in SUBSET S : IsFiniteSet(T) /\ Cardinality(T) \in Nat
  BY FS_Subset, FS_CardinalityType
<1>6. 0 \in Good
  BY <1>5, FS_EmptySet
<1>7. ASSUME NEW n \in Nat, n \in Good PROVE n + 1 \in Good
  <2> SUFFICES ASSUME NEW T \in SUBSET S, Cardinality(T) = n + 1, NEW a \in T
               PROVE  g[T] = g[T \ {a}] + f[a]
    OBVIOUS
  <2>1. PICK c : c = CHOOSE x \in T : TRUE
    OBVIOUS
  <2>2. c \in T /\ g[T] = f[c] + g[T \ {c}]
    BY <1>1, <2>1 DEF Adds
  <2>3. CASE c = a
    BY <2>2, <2>3
  <2>4. CASE c # a
    <3>1. Cardinality(T \ {c}) = n /\ Cardinality(T \ {a}) = n
      <4>1. \A x \in T : Cardinality(T \ {x}) = Cardinality(T) - 1
        BY <1>5, FS_RemoveElement
      <4>2. QED
        BY <2>2, <4>1
    <3>2. g[T \ {c}] = g[(T \ {c}) \ {a}] + f[a] /\ g[T \ {a}] = g[(T \ {a}) \ {c}] + f[c]
      BY <1>7, <2>2, <2>4, <3>1
    <3>3. (T \ {c}) \ {a} = (T \ {a}) \ {c} /\ (T \ {a}) \ {c} \in SUBSET S
      OBVIOUS
    <3>4. g[(T \ {a}) \ {c}] \in Int /\ f[a] \in Int /\ f[c] \in Int
      BY <2>2, <3>3
    <3> DEFINE u == g[(T \ {a}) \ {c}]
    <3>5. g[T] = f[c] + (u + f[a]) /\ g[T \ {a}] = u + f[c]
      BY <2>2, <3>2, <3>3
    <3>6. u \in Int /\ f[a] \in Int /\ f[c] \in Int
      BY <3>4
    <3> HIDE DEF u
    <3>7. QED
      BY <3>5, <3>6
  <2>5. QED
    BY <2>3, <2>4
<1> HIDE DEF Good
<1>8. Nat \subseteq Good
  BY <1>6, <1>7, FromZero
<1>9. ASSUME NEW T \in SUBSET S, NEW a \in S, a \notin T PROVE g[T \cup {a}] = g[T] + f[a]
  <2> DEFINE U == T \cup {a}
  <2>1. U \in SUBSET S /\ a \in U /\ U \ {a} = T
    BY <1>9
  <2> HIDE DEF U
  <2>2. g[U] = g[U \ {a}] + f[a]
    BY <1>5, <1>8, <2>1 DEF Good
  <2>3. QED
    BY <2>1, <2>2 DEF U
<1>10. \A T \in SUBSET S, a \in S : T \cup {a} \in SUBSET S
  OBVIOUS
<1>11. QED
  BY <1>2, <1>3, <1>4, <1>9, <1>10

\* Integers add up to an integer.
LEMMA SumIsInteger ==
  ASSUME NEW S, IsFiniteSet(S), NEW f \in [S -> Int]
  PROVE  SumFunction(f) \in Int
<1>1. SumFunction(f) = SumOver(f, S) /\ \A T \in SUBSET S : SumOver(f, T) \in Int
  BY SumsAdd
<1>2. S \in SUBSET S
  OBVIOUS
<1>3. QED
  BY <1>1, <1>2

\* f is g and h added up, x by x.
Joins(S, f, g, h) == \A x \in S : f[x] = g[x] + h[x]

\* The sum of sums is the sum of the sums.
LEMMA SumOfSums ==
  ASSUME NEW S, IsFiniteSet(S)
  PROVE  \A f, g, h \in [S -> Int] :
           Joins(S, f, g, h) => SumFunction(f) = SumFunction(g) + SumFunction(h)
<1> SUFFICES ASSUME NEW f \in [S -> Int], NEW g \in [S -> Int], NEW h \in [S -> Int],
                    \A x \in S : f[x] = g[x] + h[x]
             PROVE  SumFunction(f) = SumFunction(g) + SumFunction(h)
  BY DEF Joins
<1> DEFINE Good == {T \in SUBSET S : SumOver(f, T) = SumOver(g, T) + SumOver(h, T)}
<1>1. {} \in Good
  <2>1. SumOver(f, {}) = 0 /\ SumOver(g, {}) = 0 /\ SumOver(h, {}) = 0
    BY SumsAdd
  <2>2. QED
    BY <2>1
<1>2. ASSUME NEW T \in SUBSET S, NEW x \in S, T \in Good, x \notin T PROVE T \cup {x} \in Good
  <2>1. /\ SumOver(f, T \cup {x}) = SumOver(f, T) + f[x] /\ SumOver(g, T \cup {x}) = SumOver(g, T) + g[x]
        /\ SumOver(h, T \cup {x}) = SumOver(h, T) + h[x]
        /\ SumOver(g, T) \in Int /\ SumOver(h, T) \in Int
    BY <1>2, SumsAdd
  <2>2. SumOver(f, T) = SumOver(g, T) + SumOver(h, T) /\ f[x] = g[x] + h[x] /\ g[x] \in Int /\ h[x] \in Int
    BY <1>2
  <2>3. SumOver(f, T \cup {x}) = SumOver(g, T \cup {x}) + SumOver(h, T \cup {x})
    BY <2>1, <2>2
  <2>4. QED
    BY <2>3
<1> HIDE DEF Good
<1>3. S \in Good
  BY <1>1, <1>2, FromEmpty
<1>4. SumFunction(f) = SumOver(f, S) /\ SumFunction(g) = SumOver(g, S) /\ SumFunction(h) = SumOver(h, S)
  BY SumsAdd
<1>5. QED
  BY <1>3, <1>4 DEF Good

\* What is 0 outside R adds up within R.
LEMMA SumWithin ==
  ASSUME NEW S, IsFiniteSet(S), NEW f \in [S -> Int], NEW R \in SUBSET S,
         \A x \in S \ R : f[x] = 0
  PROVE  SumFunction([x \in R |-> f[x]]) = SumFunction(f)
<1> DEFINE Good == {T \in SUBSET S : SumOver(f, T) = SumOver(f, T \cap R)}
<1>1. {} \in Good
  <2>1. {} \cap R = {}
    OBVIOUS
  <2>2. QED
    BY <2>1
<1>2. \A T \in SUBSET S : SumOver(f, T) \in Int
  BY SumsAdd
<1>3. \A T \in SUBSET S, a \in S : a \notin T => SumOver(f, T \cup {a}) = SumOver(f, T) + f[a]
  BY SumsAdd
<1>4. ASSUME NEW T \in SUBSET S, NEW x \in S, T \in Good, x \notin T PROVE T \cup {x} \in Good
  <2> DEFINE U == T \cap R
  <2>1. SumOver(f, T \cup {x}) = SumOver(f, T) + f[x] /\ SumOver(f, T) \in Int
    BY <1>2, <1>3, <1>4
  <2>2. SumOver(f, T) = SumOver(f, U)
    BY <1>4
  <2>3. CASE x \in R
    <3>1. (T \cup {x}) \cap R = U \cup {x} /\ U \in SUBSET S /\ x \notin U
      BY <1>4, <2>3
    <3> HIDE DEF U
    <3>2. SumOver(f, U \cup {x}) = SumOver(f, U) + f[x]
      BY <1>3, <3>1
    <3>3. QED
      BY <2>1, <2>2, <3>1, <3>2
  <2>4. CASE x \notin R
    <3>1. (T \cup {x}) \cap R = U /\ f[x] = 0
      BY <2>4
    <3>2. SumOver(f, T \cup {x}) = SumOver(f, T)
      BY <2>1, <3>1
    <3> HIDE DEF U
    <3>3. QED
      BY <2>2, <3>1, <3>2
  <2>5. QED
    BY <2>3, <2>4
<1> HIDE DEF Good
<1>5. S \in Good
  BY <1>1, <1>4, FromEmpty
<1>6. SumFunction(f) = SumOver(f, S) /\ S \cap R = R
  BY SumsAdd
<1>7. QED
  BY <1>5, <1>6 DEF Good, SumOver

\* The sum of two values
LEMMA SumOfTwo ==
  ASSUME NEW a, NEW b, a # b, NEW f \in [{a, b} -> Int]
  PROVE  SumFunction(f) = f[a] + f[b]
<1> DEFINE S == {a, b}
<1>1. IsFiniteSet(S)
  <2>1. S = {a} \cup {b}
    OBVIOUS
  <2>2. IsFiniteSet({a})
    BY FS_Singleton
  <2>3. QED
    BY <2>1, <2>2, FS_AddElement
<1>2. {a} \in SUBSET S /\ {} \in SUBSET S /\ a \in S /\ b \in S /\ f \in [S -> Int]
  OBVIOUS
<1>3. {} \cup {a} = {a} /\ {a} \cup {b} = S /\ f[a] \in Int /\ f[b] \in Int /\ b \notin {a}
  OBVIOUS
<1> HIDE DEF S
<1>4. SumFunction(f) = SumOver(f, S) /\ SumOver(f, {}) = 0
  BY <1>1, <1>2, SumsAdd
<1>5. SumOver(f, {} \cup {a}) = SumOver(f, {}) + f[a]
  BY <1>1, <1>2, SumsAdd
<1>6. SumOver(f, {a} \cup {b}) = SumOver(f, {a}) + f[b]
  <2>1. \A T \in SUBSET S, x \in S : x \notin T => SumOver(f, T \cup {x}) = SumOver(f, T) + f[x]
    BY <1>1, <1>2, SumsAdd
  <2>2. QED
    BY <1>2, <1>3, <2>1
<1>7. SumOver(f, {a}) = f[a]
  BY <1>3, <1>4, <1>5
<1>8. QED
  BY <1>3, <1>4, <1>6, <1>7

\* The buckets of a partition hold as many as there are.
LEMMA BucketsAddUp ==
  ASSUME NEW S, IsFiniteSet(S), NEW G, IsFiniteSet(G), NEW c \in [S -> G]
  PROVE  SumFunction([g \in G |-> Cardinality({x \in S : c[x] = g})]) = Cardinality(S)
<1> DEFINE f == [g \in G |-> Cardinality({x \in S : c[x] = g})]
           In2(T) == {x \in S : c[x] \in T}
           Good == {T \in SUBSET G : SumOver(f, T) = Cardinality(In2(T))}
<1>1. \A T : In2(T) \in SUBSET S /\ IsFiniteSet(In2(T)) /\ Cardinality(In2(T)) \in Nat
  BY FS_Subset, FS_CardinalityType
<1>2. \A g : IsFiniteSet({x \in S : c[x] = g}) /\ Cardinality({x \in S : c[x] = g}) \in Nat
  <2>1. \A g : {x \in S : c[x] = g} \in SUBSET S
    OBVIOUS
  <2>2. QED
    BY <2>1, FS_Subset, FS_CardinalityType
<1>3. f \in [G -> Int]
  <2>1. \A g \in G : Cardinality({x \in S : c[x] = g}) \in Int
    <3>1. \A n \in Nat : n \in Int
      OBVIOUS
    <3>2. QED
      BY <1>2, <3>1, Zenon
  <2>2. QED
    BY <2>1, Zenon
<1>4. {} \in Good
  <2>1. In2({}) = {} /\ SumOver(f, {}) = 0
    BY <1>3, SumsAdd
  <2>2. QED
    BY <2>1, FS_EmptySet
<1>5. ASSUME NEW T \in SUBSET G, NEW g \in G, T \in Good, g \notin T PROVE T \cup {g} \in Good
  <2> DEFINE B == {x \in S : c[x] = g}
  <2>1. In2(T \cup {g}) = In2(T) \cup B /\ In2(T) \cap B = {}
    BY <1>5
  <2>2. IsFiniteSet(In2(T)) /\ IsFiniteSet(B) /\ Cardinality(In2(T)) \in Nat /\ Cardinality(B) \in Nat
    BY <1>1, <1>2
  <2>3. f[g] = Cardinality(B)
    OBVIOUS
  <2>4. SumOver(f, T) = Cardinality(In2(T))
    BY <1>5
  <2> HIDE DEF f
  <2>5. SumOver(f, T \cup {g}) = SumOver(f, T) + f[g]
    BY <1>3, <1>5, SumsAdd
  <2> HIDE DEF In2, B
  <2>6. Cardinality(In2(T) \cup B) = Cardinality(In2(T)) + Cardinality(B)
    <3>1. Cardinality(In2(T) \cap B) = 0
      BY <2>1, FS_EmptySet
    <3>2. Cardinality(In2(T) \cup B) = Cardinality(In2(T)) + Cardinality(B) - Cardinality(In2(T) \cap B)
      BY <2>2, FS_Union
    <3>3. QED
      BY <2>2, <3>1, <3>2
  <2>7. SumOver(f, T \cup {g}) = Cardinality(In2(T \cup {g}))
    BY <2>1, <2>3, <2>4, <2>5, <2>6
  <2>8. QED
    BY <2>7
<1> HIDE DEF f
<1>6. SumFunction(f) = SumOver(f, G)
  BY <1>3, SumsAdd
<1>7. In2(G) = S
  OBVIOUS
<1> HIDE DEF In2, Good
<1>8. G \in Good
  BY <1>4, <1>5, FromEmpty
<1>9. QED
  BY <1>6, <1>7, <1>8 DEF Good, f

---------------------------------------------------------------------------
(* What is counted of a history *)

\* The record of the i-th cycle of an experiment
Cycled(r, i) ==
  /\ r.id = i /\ r.item = "ok" /\ r.ret \in Int /\ r.self \in Range(Targets)
  /\ r.asked \in Nat /\ r.approved \in 0 .. r.asked
  /\ r.outcome \in {"none", "rejected", "deferred", "built"}
  /\ r.outcome = "none" <=> r.asked = 0
  /\ r.status \in {"active_only", "candidate_pending", "candidate_expired", "candidate_pruned"}
  /\ r.cand = 0 <=> r.status = "active_only"
  /\ r.stage = IF r.cand = 0 THEN "active" ELSE "candidate"
  /\ r.cand \in 0 .. i /\ (r.cand = i <=> r.outcome = "built")

Told(s) == s \in Seq(Range(s)) /\ \A i \in DOMAIN s : Cycled(s[i], i)

\* A history has as many records as it is long.
LEMMA ToldSpan ==
  ASSUME NEW s, Told(s)
  PROVE  /\ Len(s) \in Nat /\ DOMAIN s = 1 .. Len(s)
         /\ IsFiniteSet(DOMAIN s) /\ Cardinality(DOMAIN s) = Len(s)
<1>1. Len(s) \in Nat /\ DOMAIN s = 1 .. Len(s)
  BY DEF Told
<1>2. IsFiniteSet(1 .. Len(s)) /\ Cardinality(1 .. Len(s)) = Len(s)
  <2>1. PICK n : n = Len(s)
    OBVIOUS
  <2>2. n \in Nat /\ n \in Int /\ 1 \in Int
    BY <1>1, <2>1
  <2>3. IsFiniteSet(1 .. n) /\ Cardinality(1 .. n) = IF 1 > n THEN 0 ELSE n - 1 + 1
    BY <2>2, FS_Interval
  <2>4. QED
    BY <2>1, <2>2, <2>3
<1>3. QED
  BY <1>1, <1>2

\* What is counted of a history is a number, at most its length.
LEMMA CountIsNatural ==
  ASSUME NEW s, Told(s), NEW I \in SUBSET DOMAIN s
  PROVE  IsFiniteSet(I) /\ Cardinality(I) \in Nat
BY ToldSpan, FS_Subset, FS_CardinalityType

\* The returns of cycles add up to an integer.
LEMMA ReturnsAddUp ==
  ASSUME NEW V, \A v \in V : v.ret \in Int, NEW q \in Seq(V)
  PROVE  Returns(q) \in Int
<1> DEFINE n == Len(q)
           f == [k \in 1 .. n |-> q[k].ret]
<1>1. n \in Nat /\ DOMAIN q = 1 .. n /\ f \in [1 .. n -> Int]
  OBVIOUS
<1>2. IsFiniteSet(1 .. n)
  BY <1>1, FS_Interval
<1>3. Returns(q) = SumFunction(f)
  BY <1>1 DEF Returns, TotalOf
<1> HIDE DEF f, n
<1>4. QED
  BY <1>1, <1>2, <1>3, SumIsInteger

\* A part of a sequence is of the same elements.
LEMMA PartOfSequence ==
  ASSUME NEW V, NEW q \in Seq(V), NEW a \in Nat \ {0}, NEW b \in Nat, b <= Len(q)
  PROVE  SubSeq(q, a, b) \in Seq(V) /\ Len(SubSeq(q, a, b)) \in Nat
<1>1. \A k \in a .. b : q[k] \in V
  OBVIOUS
<1>2. SubSeq(q, a, b) \in Seq(V)
  BY <1>1, SubSeqProperties
<1>3. QED
  BY <1>2

\* Every effect has a name.
LEMMA EffectNamed ==
  ASSUME NEW s, Told(s), NEW i \in DOMAIN s, NEW w \in Nat
  PROVE  EffectOf(s, i, w) \in Effects
<1> DEFINE n    == Len(s)
           V    == {v \in Range(s) : v.ret \in Int}
           z    == IF i + w < n THEN i + w ELSE n
           to   == SubSeq(s, 1, i)
           past == LastN(to, w)
           seen == SubSeq(s, i + 1, z)
           lift == Returns(seen) * Len(past) - Returns(past) * Len(seen)
<1>1. n \in Nat /\ i \in 1 .. n /\ z \in Nat /\ z <= n /\ i + 1 \in Nat \ {0} /\ i \in Nat
  BY ToldSpan
<1>2. s \in Seq(V)
  <2>1. \A k \in 1 .. n : s[k] \in V
    BY ToldSpan DEF Told, Cycled, Range
  <2>2. s \in Seq(Range(s))
    BY DEF Told
  <2> HIDE DEF V
  <2>3. QED
    BY <2>1, <2>2
<1>3. \A v \in V : v.ret \in Int
  OBVIOUS
<1> HIDE DEF V
<1>4. seen \in Seq(V) /\ Len(seen) \in Nat
  <2> HIDE DEF z, n
  <2>1. z <= Len(s)
    BY <1>1 DEF n
  <2>2. QED
    BY <1>1, <1>2, <2>1, PartOfSequence
<1>5. to \in Seq(V) /\ Len(to) \in Nat
  BY <1>1, <1>2, PartOfSequence
<1>6. past \in Seq(V) /\ Len(past) \in Nat
  <2> DEFINE m == Len(to)
             a == IF m > w THEN m - w + 1 ELSE 1
  <2>1. a \in Nat \ {0} /\ m \in Nat /\ m <= Len(to)
    BY <1>5
  <2>2. past = SubSeq(to, a, m)
    BY DEF LastN
  <2> HIDE DEF a, m, to, past
  <2>3. SubSeq(to, a, m) \in Seq(V) /\ Len(SubSeq(to, a, m)) \in Nat
    BY <1>5, <2>1, PartOfSequence
  <2>4. QED
    BY <2>2, <2>3
<1> HIDE DEF seen, past
<1>7. Returns(seen) \in Int /\ Returns(past) \in Int
  BY <1>3, <1>4, <1>6, ReturnsAddUp
<1>8. lift \in Int
  BY <1>4, <1>6, <1>7
<1> HIDE DEF lift
<1>9. EffectOf(s, i, w) = CASE seen = <<>>             -> "inconclusive"
                            [] seen # <<>> /\ lift > 0 -> "improved"
                            [] seen # <<>> /\ lift < 0 -> "worsened"
                            [] seen # <<>> /\ lift = 0 -> "neutral"
  BY DEF EffectOf, lift, seen, past
<1>10. lift > 0 \/ lift < 0 \/ lift = 0
  BY <1>8
<1>11. QED
  BY <1>8, <1>9, <1>10 DEF Effects

---------------------------------------------------------------------------
(* Suggestions and dashboards *)

\* What is tracked of the proposals of a cycle: how many were rejected, and how many approved
\* with what became of them.
Rebuffed(r)     == <<"rejected_by_proposal_gate", "not_applicable", r.asked - r.approved>>
TakenUp(s, i, w) ==
  <<IF s[i].outcome = "built" THEN "adopted_to_candidate" ELSE "deferred_pending_candidate",
    CASE s[i].outcome # "built"                         -> "pending_adoption"
      [] s[i].outcome = "built" /\ s[i].effect # "done" -> "pending"
      [] s[i].outcome = "built" /\ s[i].effect = "done" -> EffectOf(s, i, w),
    s[i].approved>>

\* What is tracked of the suggestions of a history, added up cycle by cycle
LEMMA TrackedSums ==
  ASSUME NEW s, Told(s), NEW i \in DOMAIN s, NEW w \in Nat
  PROVE  LET a == Rebuffed(s[i])
             b == TakenUp(s, i, w)
         IN  /\ Tracked(s, i, w) = {a, b} /\ a # b
             /\ a[3] = s[i].asked - s[i].approved /\ b[3] = s[i].approved
             /\ a[3] \in Int /\ b[3] \in Int
             /\ a[1] = "rejected_by_proposal_gate" /\ a[2] = "not_applicable"
             /\ b[1] = IF s[i].outcome = "built" THEN "adopted_to_candidate"
                       ELSE "deferred_pending_candidate"
             /\ s[i].outcome # "built" => b[2] = "pending_adoption"
             /\ s[i].outcome = "built" /\ s[i].effect # "done" => b[2] = "pending"
             /\ s[i].outcome = "built" /\ s[i].effect = "done" => b[2] \in Effects
             /\ \A f \in [Tracked(s, i, w) -> Int] : SumFunction(f) = f[a] + f[b]
<1> DEFINE a == Rebuffed(s[i])
           b == TakenUp(s, i, w)
<1>1. Tracked(s, i, w) = {a, b}
  BY DEF Tracked, Rebuffed, TakenUp
<1>2. /\ a # b /\ a[3] = s[i].asked - s[i].approved /\ b[3] = s[i].approved
      /\ a[1] = "rejected_by_proposal_gate" /\ a[2] = "not_applicable"
      /\ b[1] = IF s[i].outcome = "built" THEN "adopted_to_candidate" ELSE "deferred_pending_candidate"
  BY DEF Rebuffed, TakenUp
<1>3. a[3] \in Int /\ b[3] \in Int
  BY <1>2 DEF Told, Cycled
<1>4. EffectOf(s, i, w) \in Effects
  BY EffectNamed
<1>5. b[2] = CASE s[i].outcome # "built"                         -> "pending_adoption"
               [] s[i].outcome = "built" /\ s[i].effect # "done" -> "pending"
               [] s[i].outcome = "built" /\ s[i].effect = "done" -> EffectOf(s, i, w)
  BY DEF TakenUp
<1> HIDE DEF a, b
<1>6. /\ s[i].outcome # "built" => b[2] = "pending_adoption"
      /\ s[i].outcome = "built" /\ s[i].effect # "done" => b[2] = "pending"
      /\ s[i].outcome = "built" /\ s[i].effect = "done" => b[2] \in Effects
  BY <1>4, <1>5
<1>7. \A f \in [Tracked(s, i, w) -> Int] : SumFunction(f) = f[a] + f[b]
  BY <1>1, <1>2, SumOfTwo
<1>8. QED
  BY <1>1, <1>2, <1>3, <1>6, <1>7 DEF a, b

\* Each adoption and each effect by itself, of one cycle
LEMMA TrackedAs ==
  ASSUME NEW s, Told(s), NEW i \in DOMAIN s, NEW w \in Nat
  PROVE  LET S == Tracked(s, i, w)
             r == s[i]
         IN  /\ SumFunction([t \in S |-> IF t[1] = "adopted_to_candidate" THEN t[3] ELSE 0])
                  = IF r.outcome = "built" THEN r.approved ELSE 0
             /\ SumFunction([t \in S |-> IF t[1] = "deferred_pending_candidate" THEN t[3] ELSE 0])
                  = IF r.outcome = "built" THEN 0 ELSE r.approved
             /\ SumFunction([t \in S |-> IF t[1] = "rejected_by_proposal_gate" THEN t[3] ELSE 0])
                  = r.asked - r.approved
             /\ SumFunction([t \in S |-> IF t[2] = "pending" THEN t[3] ELSE 0])
                  = IF r.outcome = "built" /\ r.effect # "done" THEN r.approved ELSE 0
             /\ SumFunction([t \in S |-> IF t[2] = "pending_adoption" THEN t[3] ELSE 0])
                  = IF r.outcome = "built" THEN 0 ELSE r.approved
             /\ SumFunction([t \in S |-> IF t[2] \in Effects THEN t[3] ELSE 0])
                  = IF r.outcome = "built" /\ r.effect = "done" THEN r.approved ELSE 0
<1> DEFINE S == Tracked(s, i, w)
           r == s[i]
           a == Rebuffed(r)
           b == TakenUp(s, i, w)
           x == r.asked - r.approved
           y == r.approved
<1>1. /\ S = {a, b} /\ a # b /\ a[3] = x /\ b[3] = y /\ x \in Int /\ y \in Int
      /\ a[1] = "rejected_by_proposal_gate" /\ a[2] = "not_applicable"
      /\ b[1] = IF r.outcome = "built" THEN "adopted_to_candidate" ELSE "deferred_pending_candidate"
      /\ r.outcome # "built" => b[2] = "pending_adoption"
      /\ r.outcome = "built" /\ r.effect # "done" => b[2] = "pending"
      /\ r.outcome = "built" /\ r.effect = "done" => b[2] \in Effects
      /\ \A f \in [S -> Int] : SumFunction(f) = f[a] + f[b]
  <2>1. a[3] \in Int /\ b[3] \in Int
    BY TrackedSums
  <2>2. QED
    BY <2>1, TrackedSums
<1> HIDE DEF a, b, S, x, y
<1>2. \A t \in S : t[3] \in Int
  BY <1>1
<1>3. x + 0 = x /\ 0 + y = y /\ 0 + 0 = 0 /\ "not_applicable" \notin Effects /\ "pending" \notin Effects
      /\ "pending_adoption" \notin Effects
  BY <1>1 DEF Effects
<1>4. ASSUME NEW f, f = [t \in S |-> IF t[1] = "adopted_to_candidate" THEN t[3] ELSE 0]
      PROVE  SumFunction(f) = IF r.outcome = "built" THEN y ELSE 0
  <2>1. f \in [S -> Int]
    BY <1>2, <1>4
  <2>2. SumFunction(f) = f[a] + f[b] /\ f[a] = 0 /\ f[b] = IF r.outcome = "built" THEN y ELSE 0
    BY <1>1, <1>4, <2>1
  <2>3. QED
    BY <1>3, <2>2
<1>5. ASSUME NEW f, f = [t \in S |-> IF t[1] = "deferred_pending_candidate" THEN t[3] ELSE 0]
      PROVE  SumFunction(f) = IF r.outcome = "built" THEN 0 ELSE y
  <2>1. f \in [S -> Int]
    BY <1>2, <1>5
  <2>2. SumFunction(f) = f[a] + f[b] /\ f[a] = 0 /\ f[b] = IF r.outcome = "built" THEN 0 ELSE y
    BY <1>1, <1>5, <2>1
  <2>3. QED
    BY <1>3, <2>2
<1>6. ASSUME NEW f, f = [t \in S |-> IF t[1] = "rejected_by_proposal_gate" THEN t[3] ELSE 0]
      PROVE  SumFunction(f) = x
  <2>1. f \in [S -> Int]
    BY <1>2, <1>6
  <2>2. SumFunction(f) = f[a] + f[b] /\ f[a] = x /\ f[b] = 0
    BY <1>1, <1>6, <2>1
  <2>3. QED
    BY <1>3, <2>2
<1>7. ASSUME NEW f, f = [t \in S |-> IF t[2] = "pending" THEN t[3] ELSE 0]
      PROVE  SumFunction(f) = IF r.outcome = "built" /\ r.effect # "done" THEN y ELSE 0
  <2>1. f \in [S -> Int]
    BY <1>2, <1>7
  <2>2. SumFunction(f) = f[a] + f[b] /\ f[a] = 0
        /\ f[b] = IF r.outcome = "built" /\ r.effect # "done" THEN y ELSE 0
    BY <1>1, <1>3, <1>7, <2>1
  <2>3. QED
    BY <1>3, <2>2
<1>8. ASSUME NEW f, f = [t \in S |-> IF t[2] = "pending_adoption" THEN t[3] ELSE 0]
      PROVE  SumFunction(f) = IF r.outcome = "built" THEN 0 ELSE y
  <2>1. f \in [S -> Int]
    BY <1>2, <1>8
  <2>2. SumFunction(f) = f[a] + f[b] /\ f[a] = 0 /\ f[b] = IF r.outcome = "built" THEN 0 ELSE y
    BY <1>1, <1>3, <1>8, <2>1
  <2>3. QED
    BY <1>3, <2>2
<1>9. ASSUME NEW f, f = [t \in S |-> IF t[2] \in Effects THEN t[3] ELSE 0]
      PROVE  SumFunction(f) = IF r.outcome = "built" /\ r.effect = "done" THEN y ELSE 0
  <2>1. f \in [S -> Int]
    BY <1>2, <1>9
  <2>2. SumFunction(f) = f[a] + f[b] /\ f[a] = 0
        /\ f[b] = IF r.outcome = "built" /\ r.effect = "done" THEN y ELSE 0
    BY <1>1, <1>3, <1>9, <2>1
  <2>3. QED
    BY <1>3, <2>2
<1>10. QED
  BY <1>4, <1>5, <1>6, <1>7, <1>8, <1>9 DEF S, x, y

\* Sets apart from each other hold as many as both.
LEMMA ApartAddUp ==
  ASSUME NEW S, IsFiniteSet(S), NEW T, IsFiniteSet(T), S \cap T = {}
  PROVE  /\ IsFiniteSet(S \cup T) /\ Cardinality(S \cup T) = Cardinality(S) + Cardinality(T)
<1>1. Cardinality(S \cap T) = 0
  BY FS_EmptySet
<1>2. Cardinality(S \cup T) = Cardinality(S) + Cardinality(T) - Cardinality(S \cap T)
  BY FS_Union
<1>3. Cardinality(S) \in Nat /\ Cardinality(T) \in Nat
  BY FS_CardinalityType
<1>4. Cardinality(S \cup T) = Cardinality(S) + Cardinality(T)
  BY <1>1, <1>2, <1>3
<1>5. QED
  BY <1>4, FS_Union

\* ... and of all cycles
LEMMA Suggested ==
  ASSUME NEW s, Told(s), NEW w \in Nat
  PROVE  LET u == SuggestionSummary(s, w)
             D == DOMAIN s
         IN  /\ u.count = SumFunction([i \in D |-> s[i].asked])
             /\ u.adopted = SumFunction([i \in D |-> IF s[i].outcome = "built" THEN s[i].approved ELSE 0])
             /\ u.deferred = SumFunction([i \in D |-> IF s[i].outcome = "built" THEN 0 ELSE s[i].approved])
             /\ u.rejected = SumFunction([i \in D |-> s[i].asked - s[i].approved])
             /\ u.pending = SumFunction([i \in D |->
                  IF s[i].outcome = "built" /\ s[i].effect # "done" THEN s[i].approved ELSE 0])
             /\ u.unadopted = u.deferred
             /\ u.completed = SumFunction([i \in D |->
                  IF s[i].outcome = "built" /\ s[i].effect = "done" THEN s[i].approved ELSE 0])
<1> DEFINE u == SuggestionSummary(s, w)
           D == DOMAIN s
<1>1. /\ u.count = SumFunction([i \in D |-> s[i].asked])
      /\ u.adopted = SumFunction([i \in D |-> SumFunction([t \in Tracked(s, i, w) |->
                       IF t[1] = "adopted_to_candidate" THEN t[3] ELSE 0])])
      /\ u.deferred = SumFunction([i \in D |-> SumFunction([t \in Tracked(s, i, w) |->
                       IF t[1] = "deferred_pending_candidate" THEN t[3] ELSE 0])])
      /\ u.rejected = SumFunction([i \in D |-> SumFunction([t \in Tracked(s, i, w) |->
                       IF t[1] = "rejected_by_proposal_gate" THEN t[3] ELSE 0])])
      /\ u.pending = SumFunction([i \in D |-> SumFunction([t \in Tracked(s, i, w) |->
                       IF t[2] = "pending" THEN t[3] ELSE 0])])
      /\ u.unadopted = SumFunction([i \in D |-> SumFunction([t \in Tracked(s, i, w) |->
                       IF t[2] = "pending_adoption" THEN t[3] ELSE 0])])
      /\ u.completed = SumFunction([i \in D |-> SumFunction([t \in Tracked(s, i, w) |->
                       IF t[2] \in Effects THEN t[3] ELSE 0])])
  BY DEF SuggestionSummary, TotalOf
<1> HIDE DEF u
<1>2. u.adopted = SumFunction([i \in D |-> IF s[i].outcome = "built" THEN s[i].approved ELSE 0])
  <2>1. \A i \in D : SumFunction([t \in Tracked(s, i, w) |->
                       IF t[1] = "adopted_to_candidate" THEN t[3] ELSE 0])
                     = IF s[i].outcome = "built" THEN s[i].approved ELSE 0
    BY TrackedAs
  <2>2. QED
    BY <1>1, <2>1
<1>3. u.deferred = SumFunction([i \in D |-> IF s[i].outcome = "built" THEN 0 ELSE s[i].approved])
  <2>1. \A i \in D : SumFunction([t \in Tracked(s, i, w) |->
                       IF t[1] = "deferred_pending_candidate" THEN t[3] ELSE 0])
                     = IF s[i].outcome = "built" THEN 0 ELSE s[i].approved
    BY TrackedAs
  <2>2. QED
    BY <1>1, <2>1
<1>4. u.rejected = SumFunction([i \in D |-> s[i].asked - s[i].approved])
  <2>1. \A i \in D : SumFunction([t \in Tracked(s, i, w) |->
                       IF t[1] = "rejected_by_proposal_gate" THEN t[3] ELSE 0])
                     = s[i].asked - s[i].approved
    BY TrackedAs
  <2>2. QED
    BY <1>1, <2>1
<1>5. u.pending = SumFunction([i \in D |->
                    IF s[i].outcome = "built" /\ s[i].effect # "done" THEN s[i].approved ELSE 0])
  <2>1. \A i \in D : SumFunction([t \in Tracked(s, i, w) |-> IF t[2] = "pending" THEN t[3] ELSE 0])
                     = IF s[i].outcome = "built" /\ s[i].effect # "done" THEN s[i].approved ELSE 0
    BY TrackedAs
  <2>2. QED
    BY <1>1, <2>1
<1>6. u.unadopted = SumFunction([i \in D |-> IF s[i].outcome = "built" THEN 0 ELSE s[i].approved])
  <2>1. \A i \in D : SumFunction([t \in Tracked(s, i, w) |->
                       IF t[2] = "pending_adoption" THEN t[3] ELSE 0])
                     = IF s[i].outcome = "built" THEN 0 ELSE s[i].approved
    BY TrackedAs
  <2>2. QED
    BY <1>1, <2>1
<1>7. u.completed = SumFunction([i \in D |->
                      IF s[i].outcome = "built" /\ s[i].effect = "done" THEN s[i].approved ELSE 0])
  <2>1. \A i \in D : SumFunction([t \in Tracked(s, i, w) |-> IF t[2] \in Effects THEN t[3] ELSE 0])
                     = IF s[i].outcome = "built" /\ s[i].effect = "done" THEN s[i].approved ELSE 0
    BY TrackedAs
  <2>2. QED
    BY <1>1, <2>1
<1>8. u.count = SumFunction([i \in D |-> s[i].asked])
  BY <1>1
<1>9. QED
  BY <1>2, <1>3, <1>4, <1>5, <1>6, <1>7, <1>8 DEF u

\* The suggestions and the proposal gate of a history, summed up.
LEMMA SuggestionsSum ==
  ASSUME NEW s, Told(s), NEW w \in Nat, NEW t,
         t.sections.suggestions = SuggestionSummary(s, w),
         t.sections.gates = ProposalGateSummary(s), t.successful = Len(s)
  PROVE  SuggestionsAddUp(t)
<1> DEFINE u   == SuggestionSummary(s, w)
           p   == ProposalGateSummary(s)
           D   == DOMAIN s
           all == [i \in D |-> s[i].asked]
           yes == [i \in D |-> s[i].approved]
           no  == [i \in D |-> s[i].asked - s[i].approved]
           bl  == [i \in D |-> IF s[i].outcome = "built" THEN s[i].approved ELSE 0]
           df  == [i \in D |-> IF s[i].outcome = "built" THEN 0 ELSE s[i].approved]
           pe  == [i \in D |-> IF s[i].outcome = "built" /\ s[i].effect # "done" THEN s[i].approved ELSE 0]
           co  == [i \in D |-> IF s[i].outcome = "built" /\ s[i].effect = "done" THEN s[i].approved ELSE 0]
           A   == {i \in D : s[i].asked > 0}
<1>1. \A i \in D : /\ s[i].asked \in Nat /\ s[i].approved \in Nat /\ s[i].approved <= s[i].asked
                   /\ s[i].outcome \in {"none", "rejected", "deferred", "built"}
                   /\ (s[i].outcome = "none" <=> s[i].asked = 0)
  BY DEF Told, Cycled
<1>2. IsFiniteSet(D) /\ Len(s) \in Nat /\ Cardinality(D) = Len(s)
  BY ToldSpan
<1>3. /\ all \in [D -> Int] /\ yes \in [D -> Int] /\ no \in [D -> Int] /\ bl \in [D -> Int]
      /\ df \in [D -> Int] /\ pe \in [D -> Int] /\ co \in [D -> Int]
  <2>1. \A i \in D : s[i].asked \in Int /\ s[i].approved \in Int /\ s[i].asked - s[i].approved \in Int /\ 0 \in Int
    BY <1>1
  <2>2. QED
    BY <2>1
<1>4. Joins(D, all, yes, no) /\ Joins(D, yes, bl, df) /\ Joins(D, bl, pe, co)
  <2>1. \A i \in D : all[i] = yes[i] + no[i]
    BY <1>1
  <2>2. \A i \in D : yes[i] = bl[i] + df[i]
    BY <1>1
  <2>3. \A i \in D : bl[i] = pe[i] + co[i]
    BY <1>1
  <2> HIDE DEF D, all, yes, no, bl, df, pe, co
  <2>4. QED
    BY <2>1, <2>2, <2>3 DEF Joins
<1>5. u.count = SumFunction(all) /\ u.adopted = SumFunction(bl) /\ u.deferred = SumFunction(df)
      /\ u.rejected = SumFunction(no) /\ u.pending = SumFunction(pe) /\ u.unadopted = SumFunction(df)
      /\ u.completed = SumFunction(co)
  <2>1. /\ u.count = SumFunction(all) /\ u.adopted = SumFunction(bl) /\ u.deferred = SumFunction(df)
        /\ u.rejected = SumFunction(no) /\ u.pending = SumFunction(pe) /\ u.unadopted = u.deferred
        /\ u.completed = SumFunction(co)
    BY Suggested
  <2> HIDE DEF u, all, no, bl, df, pe, co
  <2>2. QED
    BY <2>1
<1>6. /\ p.gated = Cardinality(A) /\ p.quiet = Len(s) - Cardinality(A)
      /\ p.requested = SumFunction([i \in A |-> s[i].asked])
      /\ p.approved = SumFunction([i \in A |-> s[i].approved])
      /\ p.blocked = SumFunction([i \in A |-> s[i].asked - s[i].approved])
      /\ p.built = Cardinality({i \in A : s[i].outcome = "built"})
      /\ p.refused = Cardinality({i \in A : s[i].outcome = "rejected"})
      /\ p.deferred = Cardinality({i \in A : s[i].outcome = "deferred"})
  BY DEF ProposalGateSummary, CountAt, TotalAt
<1>7. A \in SUBSET D /\ \A i \in D \ A : all[i] = 0 /\ yes[i] = 0 /\ no[i] = 0
  BY <1>1
<1>8. [i \in A |-> s[i].asked] = [i \in A |-> all[i]] /\ [i \in A |-> s[i].approved] = [i \in A |-> yes[i]]
      /\ [i \in A |-> s[i].asked - s[i].approved] = [i \in A |-> no[i]]
  BY <1>7
<1> HIDE DEF u, p, all, yes, no, bl, df, pe, co
<1>9. p.requested = SumFunction(all) /\ p.approved = SumFunction(yes) /\ p.blocked = SumFunction(no)
  <2> HIDE DEF A, D
  <2>1. SumFunction([i \in A |-> all[i]]) = SumFunction(all)
    BY <1>2, <1>3, <1>7, SumWithin
  <2>2. SumFunction([i \in A |-> yes[i]]) = SumFunction(yes)
    BY <1>2, <1>3, <1>7, SumWithin
  <2>3. SumFunction([i \in A |-> no[i]]) = SumFunction(no)
    BY <1>2, <1>3, <1>7, SumWithin
  <2>4. QED
    BY <1>6, <1>8, <2>1, <2>2, <2>3
<1>10. IsFiniteSet(D)
  BY <1>2
<1>11. SumFunction(all) = SumFunction(yes) + SumFunction(no) /\ SumFunction(yes) = SumFunction(bl) + SumFunction(df)
       /\ SumFunction(bl) = SumFunction(pe) + SumFunction(co)
  <2> HIDE DEF D, A
  <2>1. SumFunction(all) = SumFunction(yes) + SumFunction(no)
    <3>1. all \in [D -> Int] /\ yes \in [D -> Int] /\ no \in [D -> Int]
      BY <1>3
    <3>2. Joins(D, all, yes, no)
      BY <1>4
    <3>3. QED
      BY <1>10, <3>1, <3>2, SumOfSums
  <2>2. SumFunction(yes) = SumFunction(bl) + SumFunction(df)
    <3>1. yes \in [D -> Int] /\ bl \in [D -> Int] /\ df \in [D -> Int]
      BY <1>3
    <3>2. Joins(D, yes, bl, df)
      BY <1>4
    <3>3. QED
      BY <1>10, <3>1, <3>2, SumOfSums
  <2>3. SumFunction(bl) = SumFunction(pe) + SumFunction(co)
    <3>1. bl \in [D -> Int] /\ pe \in [D -> Int] /\ co \in [D -> Int]
      BY <1>3
    <3>2. Joins(D, bl, pe, co)
      BY <1>4
    <3>3. QED
      BY <1>10, <3>1, <3>2, SumOfSums
  <2>4. QED
    BY <2>1, <2>2, <2>3
<1>13. /\ SumFunction(no) \in Int /\ SumFunction(df) \in Int /\ SumFunction(pe) \in Int
       /\ SumFunction(co) \in Int
  <2>1. \A f \in [D -> Int] : SumFunction(f) \in Int
    BY <1>2, SumIsInteger
  <2>2. QED
    BY <1>3, <2>1
<1>14. /\ u.count = u.adopted + u.deferred + u.rejected
       /\ u.count = u.rejected + u.pending + u.unadopted + u.completed
       /\ p.requested = u.count /\ p.approved = u.adopted + u.deferred /\ p.blocked = u.rejected
  BY <1>5, <1>9, <1>11, <1>13
<1>15. p.built + p.refused + p.deferred = p.gated
  <2> DEFINE X == {i \in A : s[i].outcome = "built"}
             Y == {i \in A : s[i].outcome = "rejected"}
             Z == {i \in A : s[i].outcome = "deferred"}
  <2>1. A = (X \cup Y) \cup Z /\ X \cap Y = {} /\ (X \cup Y) \cap Z = {}
    BY <1>1
  <2>2. X \in SUBSET D /\ Y \in SUBSET D /\ Z \in SUBSET D
    OBVIOUS
  <2> HIDE DEF X, Y, Z, A, D
  <2>3. IsFiniteSet(X) /\ IsFiniteSet(Y) /\ IsFiniteSet(Z) /\ IsFiniteSet(X \cup Y)
    BY <1>2, <2>2, FS_Subset, FS_Union
  <2>4. Cardinality(X \cup Y) = Cardinality(X) + Cardinality(Y)
    BY <2>1, <2>3, ApartAddUp
  <2>5. Cardinality((X \cup Y) \cup Z) = Cardinality(X \cup Y) + Cardinality(Z)
    BY <2>1, <2>3, ApartAddUp
  <2>6. p.built = Cardinality(X) /\ p.refused = Cardinality(Y) /\ p.deferred = Cardinality(Z)
        /\ p.gated = Cardinality(A)
    BY <1>6 DEF X, Y, Z
  <2>7. QED
    BY <2>1, <2>4, <2>5, <2>6
<1>16. p.gated + p.quiet = Len(s)
  <2>1. Cardinality(A) \in Nat
    BY <1>2, <1>7, FS_Subset, FS_CardinalityType
  <2>2. QED
    BY <1>2, <1>6, <2>1
<1>17. QED
  BY <1>14, <1>15, <1>16 DEF SuggestionsAddUp, u, p

\* The values of a function on a finite set
LEMMA ValuesAreFew ==
  ASSUME NEW S, IsFiniteSet(S), NEW c
  PROVE  IsFiniteSet({c[x] : x \in S}) /\ Cardinality({c[x] : x \in S}) <= Cardinality(S)
<1> DEFINE T == {c[x] : x \in S}
           f == [x \in S |-> c[x]]
<1>1. f \in [S -> T] /\ \A y \in T : \E x \in S : f[x] = y
  OBVIOUS
<1> HIDE DEF f, T
<1>2. f \in Surjection(S, T)
  BY <1>1 DEF Surjection
<1>3. IsFiniteSet(T) /\ Cardinality(T) <= Cardinality(S)
  BY <1>2, FS_Surjection
<1>4. QED
  BY <1>3 DEF T

\* What is in a regime, and what of it was won
LEMMA DashboardsSum ==
  ASSUME NEW s, Told(s), NEW t,
         t.sections.failures = FailureDashboard(s), t.sections.discipline = DisciplineDashboard(s),
         t.successful = Len(s), t.profits = Won(s)
  PROVE  DashboardsAddUp(t)
<1> DEFINE D == DOMAIN s
           c == [i \in D |-> RegimeOf(s[i])]
           G == {c[i] : i \in D}
           W == {i \in D : Profit(s[i])}
           f == FailureDashboard(s)
           d == DisciplineDashboard(s)
<1>1. IsFiniteSet(D) /\ Cardinality(D) = Len(s) /\ W \in SUBSET D
  BY ToldSpan
<1>2. IsFiniteSet(W)
  BY <1>1, FS_Subset
<1>3. G = Regimes(s, RegimeOf)
  BY DEF Regimes
<1>4. DOMAIN f = G /\ \A g \in G : /\ f[g].total = Cardinality({i \in D : RegimeOf(s[i]) = g})
                                   /\ f[g].wins = Cardinality({i \in {j \in D : RegimeOf(s[j]) = g} : Profit(s[i])})
  BY <1>3 DEF FailureDashboard, In, CountAt
<1>5. DOMAIN d = G /\ \A g \in G : d[g].total = Cardinality({i \in D : RegimeOf(s[i]) = g})
  BY <1>3 DEF DisciplineDashboard, In
<1>6. \A g : /\ {i \in D : RegimeOf(s[i]) = g} = {i \in D : c[i] = g}
             /\ {i \in {j \in D : RegimeOf(s[j]) = g} : Profit(s[i])} = {i \in W : c[i] = g}
  OBVIOUS
<1>7. c \in [D -> G] /\ c \in [D -> G]
  OBVIOUS
<1> DEFINE cw == [i \in W |-> c[i]]
<1>8. cw \in [W -> G] /\ \A g : {i \in W : c[i] = g} = {i \in W : cw[i] = g}
  BY <1>1
<1>9. [g \in DOMAIN f |-> f[g].total] = [g \in G |-> Cardinality({i \in D : c[i] = g})]
  <2> HIDE DEF c, G, f, W
  <2>1. QED
    BY <1>4, <1>6
<1>10. [g \in DOMAIN d |-> d[g].total] = [g \in G |-> Cardinality({i \in D : c[i] = g})]
  <2> HIDE DEF c, G, d, W
  <2>1. QED
    BY <1>5, <1>6
<1>11. [g \in DOMAIN f |-> f[g].wins] = [g \in G |-> Cardinality({i \in W : cw[i] = g})]
  <2> HIDE DEF c, G, f, W, cw
  <2>1. \A g \in G : f[g].wins = Cardinality({i \in W : c[i] = g})
    BY <1>4, <1>6
  <2>2. \A g \in G : f[g].wins = Cardinality({i \in W : cw[i] = g})
    BY <2>1, <1>8
  <2>3. DOMAIN f = G
    BY <1>4
  <2>4. QED
    BY <2>2, <2>3
<1>12. IsFiniteSet(G)
  <2> HIDE DEF c
  <2>1. QED
    BY <1>1, ValuesAreFew
<1>13. SumFunction([g \in G |-> Cardinality({i \in D : c[i] = g})]) = Len(s)
  <2> HIDE DEF c, G, D
  <2>1. QED
    BY <1>1, <1>7, <1>12, BucketsAddUp
<1>14. SumFunction([g \in G |-> Cardinality({i \in W : cw[i] = g})]) = Cardinality(W)
  <2> HIDE DEF cw, G, W
  <2>1. QED
    BY <1>2, <1>8, <1>12, BucketsAddUp
<1>15. Won(s) = Cardinality(W)
  BY DEF Won, CountOf
<1>16. /\ OfBuckets(f, LAMBDA b : b.total) = SumFunction([g \in DOMAIN f |-> f[g].total])
       /\ OfBuckets(f, LAMBDA b : b.wins) = SumFunction([g \in DOMAIN f |-> f[g].wins])
       /\ OfBuckets(d, LAMBDA b : b.total) = SumFunction([g \in DOMAIN d |-> d[g].total])
  BY DEF OfBuckets
<1> HIDE DEF f, d, c, cw, G, W, D
<1>17. QED
  BY <1>9, <1>10, <1>11, <1>13, <1>14, <1>15, <1>16 DEF DashboardsAddUp, f, d

---------------------------------------------------------------------------
(* The results of cycles that ran *)

\* g[k] is what the first k of the results s have of cycles that ran.
Keeps(g, s, n) ==
  g = [k \in 0 .. n |-> IF k = 0 THEN <<>>
                        ELSE IF s[k].item = "ok" THEN Append(g[k - 1], s[k]) ELSE g[k - 1]]

\* For each sequence of results there is what it has of cycles that ran.
LEMMA KeepsExist ==
  ASSUME NEW s, NEW n \in Nat
  PROVE  \E g : Keeps(g, s, n)
<1> DEFINE Good == {k \in Nat : \E g : Keeps(g, s, k)}
<1>1. 0 \in Good
  <2> DEFINE g == [k \in 0 .. 0 |-> <<>>]
  <2>1. \A k \in 0 .. 0 : k = 0
    OBVIOUS
  <2>2. Keeps(g, s, 0)
    BY <2>1 DEF Keeps
  <2>3. QED
    BY <2>2
<1>2. ASSUME NEW k \in Nat, k \in Good PROVE k + 1 \in Good
  <2>1. PICK g : Keeps(g, s, k)
    BY <1>2
  <2> DEFINE h == [j \in 0 .. k + 1 |->
                     IF j = 0 THEN <<>>
                     ELSE IF s[j].item = "ok" THEN Append(g[j - 1], s[j]) ELSE g[j - 1]]
  <2>2. \A j \in 0 .. k + 1 : j # 0 => j - 1 \in 0 .. k /\ j - 1 \in 0 .. k + 1
    OBVIOUS
  <2>3. \A j \in 0 .. k : h[j] = g[j]
    <3>1. \A j \in 0 .. k : g[j] = IF j = 0 THEN <<>>
                     ELSE IF s[j].item = "ok" THEN Append(g[j - 1], s[j]) ELSE g[j - 1]
      BY <2>1, Zenon DEF Keeps
    <3>2. \A j \in 0 .. k : j \in 0 .. k + 1
      OBVIOUS
    <3>3. QED
      BY <3>1, <3>2
  <2>4. \A j \in 0 .. k + 1 : j # 0 => h[j - 1] = g[j - 1]
    BY <2>2, <2>3
  <2>5. Keeps(h, s, k + 1)
    <3> SUFFICES h = [j \in 0 .. k + 1 |-> IF j = 0 THEN <<>>
                        ELSE IF s[j].item = "ok" THEN Append(h[j - 1], s[j]) ELSE h[j - 1]]
      BY DEF Keeps
    <3>1. \A j \in 0 .. k + 1 :
            (IF j = 0 THEN <<>> ELSE IF s[j].item = "ok" THEN Append(g[j - 1], s[j]) ELSE g[j - 1])
            = IF j = 0 THEN <<>> ELSE IF s[j].item = "ok" THEN Append(h[j - 1], s[j]) ELSE h[j - 1]
      <4> HIDE DEF h
      <4>1. QED
        BY <2>4
    <3>2. QED
      BY <3>1, Zenon
  <2> HIDE DEF h
  <2>6. QED
    BY <2>5
<1> HIDE DEF Good
<1>3. Nat \subseteq Good
  BY <1>1, <1>2, FromZero
<1>4. QED
  BY <1>3 DEF Good

Begins(s, t, m) == \A k \in 1 .. m : s[k] = t[k]

\* It depends on those results alone.
LEMMA KeepsAgree ==
  ASSUME NEW s, NEW t, NEW m \in Nat, NEW n \in Nat, m <= n, Begins(s, t, m),
         NEW g, Keeps(g, s, m), NEW h, Keeps(h, t, n)
  PROVE  g[m] = h[m]
<1> DEFINE Good == {k \in Nat : k <= m => g[k] = h[k]}
<1>1. \A j \in 0 .. m : g[j] = IF j = 0 THEN <<>>
                     ELSE IF s[j].item = "ok" THEN Append(g[j - 1], s[j]) ELSE g[j - 1]
  BY Zenon DEF Keeps
<1>2. \A j \in 0 .. n : h[j] = IF j = 0 THEN <<>>
                     ELSE IF t[j].item = "ok" THEN Append(h[j - 1], t[j]) ELSE h[j - 1]
  BY Zenon DEF Keeps
<1>3. 0 \in Good
  BY <1>1, <1>2
<1>4. ASSUME NEW k \in Nat, k \in Good PROVE k + 1 \in Good
  <2> SUFFICES ASSUME k + 1 <= m PROVE g[k + 1] = h[k + 1]
    OBVIOUS
  <2>1. k + 1 \in 0 .. m /\ k + 1 \in 0 .. n /\ k + 1 # 0 /\ k + 1 - 1 = k /\ k + 1 \in 1 .. m
    OBVIOUS
  <2>2. g[k] = h[k] /\ s[k + 1] = t[k + 1]
    BY <1>4, <2>1 DEF Begins
  <2>3. QED
    BY <1>1, <1>2, <2>1, <2>2
<1> HIDE DEF Good
<1>5. Nat \subseteq Good
  BY <1>3, <1>4, FromZero
<1>6. QED
  BY <1>5 DEF Good

\* The cycles that ran are what is kept of all results.
LEMMA OkIsKept ==
  ASSUME NEW s, Len(s) \in Nat
  PROVE  \E g : Keeps(g, s, Len(s)) /\ OkOf(s) = g[Len(s)]
<1> DEFINE ok == CHOOSE g : Keeps(g, s, Len(s))
<1>1. Keeps(ok, s, Len(s))
  BY KeepsExist
<1>2. OkOf(s) = ok[Len(s)]
  BY DEF OkOf, Keeps
<1> HIDE DEF ok
<1>3. QED
  BY <1>1, <1>2

\* With a result more, the cycles that ran are those before, and this one if it ran.
LEMMA OkGrows ==
  ASSUME NEW S, NEW s \in Seq(S), NEW r
  PROVE  /\ OkOf(<<>>) = <<>>
         /\ OkOf(Append(s, r)) = IF r.item = "ok" THEN Append(OkOf(s), r) ELSE OkOf(s)
<1> DEFINE n == Len(s) + 1
           t == Append(s, r)
<1>1. /\ Len(s) \in Nat /\ n \in Nat \ {0} /\ DOMAIN t = 1 .. n /\ t[n] = r
      /\ \A i \in 1 .. n - 1 : t[i] = s[i]
  BY OneMore
<1>2. Len(t) = n
  OBVIOUS
<1> HIDE DEF t
<1>3. PICK g : Keeps(g, s, Len(s)) /\ OkOf(s) = g[Len(s)]
  BY <1>1, OkIsKept
<1>4. PICK h : Keeps(h, t, n) /\ OkOf(t) = h[n]
  BY <1>1, <1>2, OkIsKept
<1>5. g[Len(s)] = h[Len(s)]
  <2> DEFINE m == Len(s)
  <2>1. m \in Nat /\ n \in Nat /\ m <= n /\ Begins(s, t, m)
    BY <1>1 DEF Begins
  <2>2. Keeps(g, s, m) /\ Keeps(h, t, n)
    BY <1>3, <1>4
  <2> HIDE DEF n, m
  <2>3. g[m] = h[m]
    BY <2>1, <2>2, KeepsAgree
  <2>4. QED
    BY <2>3 DEF m
<1>6. n \in 0 .. n /\ n # 0 /\ n - 1 = Len(s)
  BY <1>1
<1>7. h[n] = IF t[n].item = "ok" THEN Append(h[n - 1], t[n]) ELSE h[n - 1]
  <2>1. \A j \in 0 .. n : h[j] = IF j = 0 THEN <<>>
                     ELSE IF t[j].item = "ok" THEN Append(h[j - 1], t[j]) ELSE h[j - 1]
    BY <1>4, Zenon DEF Keeps
  <2> HIDE DEF n
  <2>2. QED
    BY <1>6, <2>1
<1>8. OkOf(<<>>) = <<>>
  <2> DEFINE e == <<>>
  <2>1. Len(e) = 0
    OBVIOUS
  <2>2. PICK f : Keeps(f, e, 0) /\ OkOf(e) = f[0]
    BY <2>1, OkIsKept
  <2>3. f[0] = <<>>
    <3>1. \A j \in 0 .. 0 : f[j] = IF j = 0 THEN <<>>
                     ELSE IF e[j].item = "ok" THEN Append(f[j - 1], e[j]) ELSE f[j - 1]
      BY <2>2, Zenon DEF Keeps
    <3>2. 0 \in 0 .. 0
      OBVIOUS
    <3>3. QED
      BY <3>1, <3>2
  <2>4. QED
    BY <2>2, <2>3
<1> HIDE DEF n
<1>9. OkOf(t) = IF r.item = "ok" THEN Append(OkOf(s), r) ELSE OkOf(s)
  BY <1>1, <1>3, <1>4, <1>5, <1>6, <1>7
<1>10. QED
  BY <1>8, <1>9 DEF t

---------------------------------------------------------------------------
(* Records told again: in the files, and in the results of the lab *)

\* The same record, perhaps with another effect
Same(a, b) == \A f \in Fields \ {"effect"} : a[f] = b[f]

\* Such records have the same fields,
LEMMA SameFields ==
  ASSUME NEW a, NEW b, Same(a, b)
  PROVE  /\ a.item = b.item /\ a.id = b.id /\ a.routed = b.routed /\ a.tagged = b.tagged /\ a.self = b.self
         /\ a.ret = b.ret /\ a.asked = b.asked /\ a.outcome = b.outcome /\ a.cand = b.cand
         /\ a.stage = b.stage /\ a.status = b.status
<1>1. {"item", "id", "routed", "tagged", "self", "ret", "asked", "outcome", "cand", "stage", "status"}
        \subseteq Fields \ {"effect"}
  BY DEF Fields
<1>2. QED
  BY <1>1 DEF Same

\* and the same is read of them.
LEMMA SameRead ==
  ASSUME NEW a, NEW b, Same(a, b)
  PROVE  /\ GateStatus(a) = GateStatus(b) /\ Unresolved(a) = Unresolved(b) /\ Profit(a) = Profit(b)
         /\ RegimeOf(a) = RegimeOf(b) /\ ResultRegime(a) = ResultRegime(b) /\ FileRegime(a) = FileRegime(b)
BY SameFields DEF GateStatus, Unresolved, Profit, RegimeOf, ResultRegime, FileRegime

\* The results of rounds without a record
Blanks == {Blank(x, n) : x \in {"no_data", "error"}, n \in Nat}

\* The records s are among those of t, at the places p; what else t has is of no cycle.
Carried(s, t, p) ==
  /\ p \in [DOMAIN s -> DOMAIN t] /\ \A i, j \in DOMAIN s : p[i] = p[j] => i = j
  /\ \A i \in DOMAIN s : Same(s[i], t[p[i]])
  /\ \A j \in DOMAIN t : \/ \E i \in DOMAIN s : p[i] = j
                         \/ t[j] \in Blanks

\* As many are in A as in the places they are carried to.
LEMMA CarriedCount ==
  ASSUME NEW S, NEW T, IsFiniteSet(S), NEW p \in [S -> T], \A i, j \in S : p[i] = p[j] => i = j,
         NEW A \in SUBSET S, NEW B \in SUBSET T, \A i \in S : i \in A <=> p[i] \in B,
         \A j \in B : \E i \in S : p[i] = j
  PROVE  Cardinality(A) = Cardinality(B)
<1> DEFINE q == [i \in A |-> p[i]]
<1>1. q \in [A -> B] /\ (\A i, j \in A : q[i] = q[j] => i = j) /\ \A j \in B : \E i \in A : q[i] = j
  OBVIOUS
<1>2. IsFiniteSet(A)
  BY FS_Subset
<1> HIDE DEF q
<1>3. q \in Bijection(A, B)
  BY <1>1 DEF Bijection, Injection, Surjection, IsInjective
<1>4. ExistsBijection(A, B)
  BY <1>3 DEF ExistsBijection
<1>5. QED
  BY <1>2, <1>4, FS_Bijection

\* A result of no cycle counts for nothing.
LEMMA BlankCounts ==
  ASSUME NEW b \in Blanks
  PROVE  /\ b.cand = 0 /\ b.stage = "" /\ b.status = "" /\ b.outcome = "none" /\ b.item # "ok"
         /\ b.item \in {"no_data", "error"} /\ ~Unresolved(b) /\ GateStatus(b) = "not_applicable"
<1>1. b.cand = 0 /\ b.stage = "" /\ b.status = "" /\ b.outcome = "none"
      /\ b.item # "ok" /\ b.item \in {"no_data", "error"}
  <2>1. PICK x \in {"no_data", "error"}, n \in Nat : b = Blank(x, n)
    BY DEF Blanks
  <2>2. b.item = x /\ b.cand = 0 /\ b.stage = "" /\ b.status = "" /\ b.outcome = "none"
    BY <2>1, Zenon DEF Blank
  <2>3. QED
    BY <2>2
<1>2. ~Unresolved(b)
  BY <1>1 DEF Unresolved
<1>3. GateStatus(b) = "not_applicable"
  BY <1>1 DEF GateStatus
<1>4. QED
  BY <1>1, <1>2, <1>3

\* What governance counts of them is the same.
LEMMA GovernanceCarried ==
  ASSUME NEW s, IsFiniteSet(DOMAIN s), NEW t, NEW p, Carried(s, t, p)
  PROVE  GovernanceMetrics(t) = [GovernanceMetrics(s) EXCEPT !.total = Len(t)]
<1>1. ASSUME NEW A \in SUBSET DOMAIN s, NEW B \in SUBSET DOMAIN t,
             \A i \in DOMAIN s : i \in A <=> p[i] \in B,
             \A j \in B : t[j] \notin Blanks
      PROVE  Cardinality(A) = Cardinality(B)
  <2>1. \A j \in B : \E i \in DOMAIN s : p[i] = j
    BY <1>1 DEF Carried
  <2>2. QED
    BY <1>1, <2>1, CarriedCount DEF Carried
<1>2. \A i \in DOMAIN s : /\ p[i] \in DOMAIN t /\ t[p[i]].cand = s[i].cand /\ t[p[i]].stage = s[i].stage
                          /\ t[p[i]].status = s[i].status /\ GateStatus(t[p[i]]) = GateStatus(s[i])
                          /\ Unresolved(t[p[i]]) = Unresolved(s[i])
  <2> SUFFICES ASSUME NEW i \in DOMAIN s
               PROVE  /\ p[i] \in DOMAIN t /\ t[p[i]].cand = s[i].cand /\ t[p[i]].stage = s[i].stage
                      /\ t[p[i]].status = s[i].status /\ GateStatus(t[p[i]]) = GateStatus(s[i])
                      /\ Unresolved(t[p[i]]) = Unresolved(s[i])
    OBVIOUS
  <2>1. Same(s[i], t[p[i]]) /\ p[i] \in DOMAIN t
    BY DEF Carried
  <2>2. QED
    BY <2>1, SameFields, SameRead
<1>3. \A b \in Blanks :
        /\ b.cand = 0 /\ b.stage = "" /\ b.status = "" /\ ~Unresolved(b) /\ GateStatus(b) = "not_applicable"
  BY BlankCounts
<1> DEFINE g == GovernanceMetrics(s)
           h == GovernanceMetrics(t)
<1>4. h.attempts = g.attempts
  <2> DEFINE A == {i \in DOMAIN s : s[i].cand # 0 \/ s[i].stage = "override"}
             B == {i \in DOMAIN t : t[i].cand # 0 \/ t[i].stage = "override"}
  <2>1. \A i \in DOMAIN s : i \in A <=> p[i] \in B
    BY <1>2
  <2>2. \A j \in B : t[j] \notin Blanks
    BY <1>3
  <2>3. A \in SUBSET DOMAIN s /\ B \in SUBSET DOMAIN t /\ g.attempts = Cardinality(A) /\ h.attempts = Cardinality(B)
    BY DEF GovernanceMetrics, CountOf
  <2> HIDE DEF A, B, g, h
  <2>4. Cardinality(A) = Cardinality(B)
    BY <1>1, <2>1, <2>2, <2>3
  <2>5. QED
    BY <2>3, <2>4
<1>5. h.awaiting = g.awaiting
  <2> DEFINE A == {i \in DOMAIN s : GateStatus(s[i]) = "awaiting_gate"}
             B == {i \in DOMAIN t : GateStatus(t[i]) = "awaiting_gate"}
  <2>1. \A i \in DOMAIN s : i \in A <=> p[i] \in B
    BY <1>2
  <2>2. \A j \in B : t[j] \notin Blanks
    BY <1>3
  <2>3. A \in SUBSET DOMAIN s /\ B \in SUBSET DOMAIN t /\ g.awaiting = Cardinality(A) /\ h.awaiting = Cardinality(B)
    BY DEF GovernanceMetrics, CountOf
  <2> HIDE DEF A, B, g, h
  <2>4. Cardinality(A) = Cardinality(B)
    BY <1>1, <2>1, <2>2, <2>3
  <2>5. QED
    BY <2>3, <2>4
<1>6. h.drift = g.drift
  <2> DEFINE A == {i \in DOMAIN s : s[i].cand # 0 /\ s[i].status # "candidate_applied"}
             B == {i \in DOMAIN t : t[i].cand # 0 /\ t[i].status # "candidate_applied"}
  <2>1. \A i \in DOMAIN s : i \in A <=> p[i] \in B
    BY <1>2
  <2>2. \A j \in B : t[j] \notin Blanks
    BY <1>3
  <2>3. A \in SUBSET DOMAIN s /\ B \in SUBSET DOMAIN t /\ g.drift = Cardinality(A) /\ h.drift = Cardinality(B)
    BY DEF GovernanceMetrics, CountOf
  <2> HIDE DEF A, B, g, h
  <2>4. Cardinality(A) = Cardinality(B)
    BY <1>1, <2>1, <2>2, <2>3
  <2>5. QED
    BY <2>3, <2>4
<1>7. h.pending = g.pending
  <2> DEFINE A == {i \in DOMAIN s : Unresolved(s[i])}
             B == {i \in DOMAIN t : Unresolved(t[i])}
  <2>1. \A i \in DOMAIN s : i \in A <=> p[i] \in B
    BY <1>2
  <2>2. \A j \in B : t[j] \notin Blanks
    BY <1>3
  <2>3. A \in SUBSET DOMAIN s /\ B \in SUBSET DOMAIN t /\ g.pending = Cardinality(A) /\ h.pending = Cardinality(B)
    BY DEF GovernanceMetrics, CountOf
  <2> HIDE DEF A, B, g, h
  <2>4. Cardinality(A) = Cardinality(B)
    BY <1>1, <2>1, <2>2, <2>3
  <2>5. QED
    BY <2>3, <2>4
<1>8. h.override = g.override
  <2> DEFINE A == {i \in DOMAIN s : s[i].stage = "override"}
             B == {i \in DOMAIN t : t[i].stage = "override"}
  <2>1. \A i \in DOMAIN s : i \in A <=> p[i] \in B
    BY <1>2
  <2>2. \A j \in B : t[j] \notin Blanks
    BY <1>3
  <2>3. A \in SUBSET DOMAIN s /\ B \in SUBSET DOMAIN t /\ g.override = Cardinality(A) /\ h.override = Cardinality(B)
    BY DEF GovernanceMetrics, CountOf
  <2> HIDE DEF A, B, g, h
  <2>4. Cardinality(A) = Cardinality(B)
    BY <1>1, <2>1, <2>2, <2>3
  <2>5. QED
    BY <2>3, <2>4
<1>9. h.live = g.live
  <2> DEFINE A == {i \in DOMAIN s : s[i].stage = "active"}
             B == {i \in DOMAIN t : t[i].stage = "active"}
  <2>1. \A i \in DOMAIN s : i \in A <=> p[i] \in B
    BY <1>2
  <2>2. \A j \in B : t[j] \notin Blanks
    BY <1>3
  <2>3. A \in SUBSET DOMAIN s /\ B \in SUBSET DOMAIN t /\ g.live = Cardinality(A) /\ h.live = Cardinality(B)
    BY DEF GovernanceMetrics, CountOf
  <2> HIDE DEF A, B, g, h
  <2>4. Cardinality(A) = Cardinality(B)
    BY <1>1, <2>1, <2>2, <2>3
  <2>5. QED
    BY <2>3, <2>4
<1>10. h.rejected = g.rejected
  <2> DEFINE A == {i \in DOMAIN s : GateStatus(s[i]) = "rejected"}
             B == {i \in DOMAIN t : GateStatus(t[i]) = "rejected"}
  <2>1. \A i \in DOMAIN s : i \in A <=> p[i] \in B
    BY <1>2
  <2>2. \A j \in B : t[j] \notin Blanks
    BY <1>3
  <2>3. A \in SUBSET DOMAIN s /\ B \in SUBSET DOMAIN t /\ g.rejected = Cardinality(A) /\ h.rejected = Cardinality(B)
    BY DEF GovernanceMetrics, CountOf
  <2> HIDE DEF A, B, g, h
  <2>4. Cardinality(A) = Cardinality(B)
    BY <1>1, <2>1, <2>2, <2>3
  <2>5. QED
    BY <2>3, <2>4
<1>11. h = [g EXCEPT !.total = Len(t)]
  <2>1. /\ h = [total |-> Len(t), attempts |-> h.attempts, awaiting |-> h.awaiting, drift |-> h.drift,
              pending |-> h.pending, override |-> h.override, live |-> h.live, rejected |-> h.rejected]
        /\ g = [total |-> Len(s), attempts |-> g.attempts, awaiting |-> g.awaiting, drift |-> g.drift,
              pending |-> g.pending, override |-> g.override, live |-> g.live, rejected |-> g.rejected]
    BY DEF GovernanceMetrics
  <2> HIDE DEF g, h
  <2>2. QED
    BY <1>4, <1>5, <1>6, <1>7, <1>8, <1>9, <1>10, <2>1
<1>12. QED
  BY <1>11

---------------------------------------------------------------------------
(* What is told of a run *)

\* Every record is one of its cycle.  A candidate is named after the cycle that built it, and
\* the one carried on is the one the cycles before left open, if it was not settled.
Tale ==
  /\ \A v \in sight : v[3] \in Range(Targets)
  /\ Told(record)
  /\ scheme.driver = "validation" => \A i \in DOMAIN record : record[i].routed = ""
  /\ \A i \in DOMAIN record : LET c == record[i].cand IN
       c # 0 => /\ record[c].outcome = "built"
                /\ \/ c = Gov!Open
                   \/ \E j \in DOMAIN record : record[j].cand = c /\ record[j].status \in Settled

\* The attempts: a cycle recorded, a cycle skipped, the one under way, or else a failure.
Tally ==
  /\ skipped \in Nat /\ Len(record) + skipped <= tries
  /\ phase = "chosen" => Len(record) + skipped + 1 <= tries
  /\ scheme.driver # "lab" /\ phase # "failed" =>
       tries = IF phase = "chosen" THEN Len(record) + skipped + 1 ELSE Len(record) + skipped

\* The files are the records as they were written.
Filed ==
  ~late =>
    /\ files \in Seq(Range(files)) /\ Len(files) = Len(record)
    /\ \A i \in DOMAIN record :
         /\ Same(record[i], files[i])
         /\ files[i].effect # record[i].effect =>
              files[i].effect = "pending" /\ i + WindowOfEffect <= Len(record)

\* The results are the records, and what came of the other rounds.
Listed ==
  /\ results \in Seq(Range(results))
  /\ ~late /\ scheme.driver = "lab" =>
       /\ tries = IF phase = "chosen" THEN Len(results) + 1 ELSE Len(results)
       /\ \E p : Carried(record, results, p)
       /\ Cardinality({j \in DOMAIN results : results[j].item = "no_data"}) = skipped
       /\ OkOf(results) \in Seq(Range(OkOf(results)))
       /\ Len(OkOf(results)) = Len(record) /\ DOMAIN OkOf(results) = DOMAIN record
       /\ \A i \in DOMAIN record : Same(record[i], OkOf(results)[i])

ReportInv == Tale /\ Tally /\ Filed /\ Listed

\* The numbers under which the rounds s are told, when n cycles are recorded
Numbers(s, n) ==
  /\ \A i \in DOMAIN s : s[i].id \in 1 .. n + 1
  /\ \A i, j \in DOMAIN s : i <= j => s[i].id <= s[j].id
  /\ \A k \in 1 .. n : \E i \in DOMAIN s : s[i].id = k
  /\ s # <<>> => s[Len(s)].id >= n

Numbered ==
  /\ scheme.driver = "lab" => Numbers(results, Len(record))
  /\ scheme.driver # "lab" => results = <<>>

---------------------------------------------------------------------------
(* What the report of a finished run says *)

\* The greater of two numbers
LEMMA MaxOfTwo ==
  ASSUME NEW a \in Int, NEW b \in Int
  PROVE  Max({a, b}) = IF a >= b THEN a ELSE b
<1>1. PICK m : m = IF a >= b THEN a ELSE b
  OBVIOUS
<1>2. m \in {a, b} /\ \A y \in {a, b} : m >= y
  BY <1>1
<1>3. \A x \in {a, b} : (\A y \in {a, b} : x >= y) => x = m
  BY <1>1
<1>4. QED
  BY <1>1, <1>2, <1>3 DEF Max

\* What the training report is made of
LEMMA ReportParts ==
  ASSUME NEW t, t = TrainingReport(tries, skipped, record, Gate, WindowOfEffect)
  PROVE  /\ t.successful = Len(record) /\ t.profits = Won(record) /\ t.losses = Len(record) - Won(record)
         /\ t.sections.governance = GovernanceMetrics(record)
         /\ t.sections.gates = ProposalGateSummary(record)
         /\ t.sections.suggestions = SuggestionSummary(record, WindowOfEffect)
         /\ t.sections.failures = FailureDashboard(record)
         /\ t.sections.discipline = DisciplineDashboard(record)
BY DEF TrainingReport, Sections

\* The report counts the attempts, and those that were not recorded.
LEMMA ReportCounts ==
  ASSUME Counted, Tally, NEW t, t = TrainingReport(tries, skipped, record, Gate, WindowOfEffect)
  PROVE  /\ t.attempted = tries /\ t.skipped = tries - Len(record)
         /\ t.status = "completed" <=> record # <<>> /\ tries = Len(record)
<1> DEFINE n == Len(record)
           a == Max({tries, n + skipped})
           m == Max({skipped, a - n})
<1>1. tries \in Nat /\ skipped \in Nat /\ n \in Nat /\ n + skipped <= tries
  BY DEF Counted, Tally
<1>2. /\ t.attempted = a /\ t.skipped = m
      /\ t.status = IF record = <<>> THEN "no_data" ELSE IF m > 0 THEN "completed_with_skips" ELSE "completed"
  BY DEF TrainingReport
<1> HIDE DEF n
<1>3. a = tries
  BY <1>1, MaxOfTwo
<1> HIDE DEF a
<1>4. m = tries - n
  BY <1>1, <1>3, MaxOfTwo
<1> HIDE DEF m
<1>5. m > 0 <=> tries # n
  BY <1>1, <1>4
<1>6. QED
  BY <1>2, <1>3, <1>4, <1>5 DEF n

\* The regime of a record, but in a validation, is the one that was seen.
LEMMA RegimesSeen ==
  ASSUME Counted, Tale, NEW i \in DOMAIN record
  PROVE  IF scheme.driver = "validation" THEN RegimeOf(record[i]) = "unknown"
         ELSE /\ RegimeOf(record[i]) = record[i].self /\ FileRegime(record[i]) = record[i].self
              /\ ResultRegime(record[i]) = record[i].self
<1> DEFINE r == record[i]
<1>1. r.routed \in {r.self, ""} /\ r.tagged = IF scheme.driver = "validation" THEN "" ELSE r.self
  BY DEF Counted, Row
<1>2. r.self # ""
  <2>1. r.self \in Range(Targets)
    BY DEF Tale, Told, Cycled
  <2>2. QED
    BY <2>1, ExperimentConstants
<1>3. scheme.driver = "validation" => r.routed = ""
  BY DEF Tale
<1> HIDE DEF r
<1>4. RegimeOf(r) = IF r.routed # "" THEN r.routed ELSE IF r.tagged # "" THEN r.tagged ELSE "unknown"
  BY RegimeIsNamed
<1>5. FileRegime(r) = IF r.routed # "" THEN r.routed ELSE IF r.self # "" THEN r.self ELSE "unknown"
  BY FirstNamed DEF FileRegime
<1>6. scheme.driver # "validation" => ResultRegime(r) = r.self
  BY <1>1, <1>2, <1>4 DEF ResultRegime
<1>7. QED
  BY <1>1, <1>2, <1>3, <1>4, <1>5, <1>6 DEF r

\* The files carry the records, each at its own place.
LEMMA FilesTell ==
  ASSUME Tale, Filed, ~late
  PROVE  /\ DOMAIN files = DOMAIN record /\ Len(files) = Len(record)
         /\ Carried(record, files, [i \in DOMAIN record |-> i])
         /\ \A i \in DOMAIN record : Same(record[i], files[i])
<1>1. Len(record) \in Nat /\ DOMAIN record = 1 .. Len(record)
  BY ToldSpan DEF Tale
<1>2. files \in Seq(Range(files)) /\ Len(files) = Len(record)
  BY DEF Filed
<1>3. DOMAIN files = DOMAIN record
  BY <1>1, <1>2
<1>4. \A i \in DOMAIN record : Same(record[i], files[i])
  BY DEF Filed
<1>5. Carried(record, files, [i \in DOMAIN record |-> i])
  BY <1>3, <1>4 DEF Carried
<1>6. QED
  BY <1>2, <1>3, <1>4, <1>5

\* The readers of the regime agree.
LEMMA RegimesTell ==
  ASSUME Counted, Tale, Filed, ~late, NEW t, t.sections.failures = FailureDashboard(record)
  PROVE  RegimesAgree(t)
<1> DEFINE D == DOMAIN record
           f == FailureDashboard(record)
<1>1. DOMAIN f = {RegimeOf(record[i]) : i \in D} /\ DOMAIN RegimePerformance(record) = DOMAIN f
  BY DEF FailureDashboard, RegimePerformance, Regimes
<1>2. \A g \in DOMAIN f : f[g].total = Cardinality({i \in D : RegimeOf(record[i]) = g})
  BY DEF FailureDashboard, In
<1>3. DOMAIN files = D /\ \A i \in D : FileRegime(files[i]) = FileRegime(record[i])
  BY FilesTell, SameRead
<1> DEFINE m == FileMetrics(files).regimes
<1>4. /\ DOMAIN m = {FileRegime(files[i]) : i \in DOMAIN files}
      /\ \A g \in DOMAIN m : m[g].samples = Cardinality({i \in DOMAIN files : FileRegime(files[i]) = g})
  BY DEF FileMetrics, ReturnProfile, Regimes, In
<1> HIDE DEF f, m
<1>5. CASE scheme.driver = "validation"
  <2>1. \A i \in D : RegimeOf(record[i]) = "unknown"
    BY <1>5, RegimesSeen
  <2>2. DOMAIN f \subseteq {"unknown"}
    BY <1>1, <2>1
  <2>3. QED
    BY <1>5, <2>2 DEF RegimesAgree, f
<1>6. CASE scheme.driver # "validation"
  <2>1. \A i \in D : RegimeOf(record[i]) = record[i].self /\ FileRegime(record[i]) = record[i].self
    BY <1>6, RegimesSeen
  <2>2. \A g : {i \in D : RegimeOf(record[i]) = g} = {i \in D : record[i].self = g}
    BY <2>1
  <2>3. \A g : {i \in D : FileRegime(files[i]) = g} = {i \in D : record[i].self = g}
    BY <1>3, <2>1
  <2>4. DOMAIN m = DOMAIN f
    BY <1>1, <1>3, <1>4, <2>1
  <2>5. \A g \in DOMAIN f : /\ f[g].total = CountOf(record, LAMBDA r : r.self = g)
                            /\ m[g].samples = f[g].total
    <3> SUFFICES ASSUME NEW g \in DOMAIN f
                 PROVE  /\ f[g].total = CountOf(record, LAMBDA r : r.self = g)
                        /\ m[g].samples = f[g].total
      OBVIOUS
    <3>1. f[g].total = Cardinality({i \in D : record[i].self = g})
      BY <1>2, <2>2
    <3>2. m[g].samples = Cardinality({i \in D : record[i].self = g})
      <4>1. m[g].samples = Cardinality({i \in DOMAIN files : FileRegime(files[i]) = g})
        BY <1>4, <2>4
      <4>2. {i \in DOMAIN files : FileRegime(files[i]) = g} = {i \in D : FileRegime(files[i]) = g}
        BY <1>3
      <4>3. QED
        BY <2>3, <4>1, <4>2
    <3>3. CountOf(record, LAMBDA r : r.self = g) = Cardinality({i \in D : record[i].self = g})
      BY DEF CountOf
    <3>4. QED
      BY <3>1, <3>2, <3>3
  <2>6. QED
    BY <1>1, <1>6, <2>5 DEF RegimesAgree, f, m
<1>7. QED
  BY <1>5, <1>6

\* A set of numbers up to n that is not empty has a last one.
LEMMA MaxExists ==
  ASSUME NEW n \in Nat, NEW S \in SUBSET (1 .. n), S # {}
  PROVE  Max(S) \in S /\ \A y \in S : Max(S) >= y
<1> DEFINE Q == {x \in 0 .. n : n - x \in S}
           k == Min(Q)
<1>1. Q \in SUBSET Nat /\ Q # {}
  <2>1. PICK y \in S : y \in 1 .. n
    OBVIOUS
  <2>2. n - y \in 0 .. n /\ n - (n - y) = y
    BY <2>1
  <2>3. n - y \in Q
    BY <2>1, <2>2
  <2>4. \A x \in Q : x \in Nat
    OBVIOUS
  <2> HIDE DEF Q
  <2>5. QED
    BY <2>3, <2>4
<1>2. k \in Q /\ \A x \in Q : k <= x
  <2> HIDE DEF Q
  <2>1. QED
    BY <1>1, MinExists
<1> HIDE DEF k
<1>3. n - k \in S /\ k \in 0 .. n
  BY <1>2
<1>4. ASSUME NEW y \in S PROVE n - k >= y
  <2>1. y \in 1 .. n /\ n - (n - y) = y /\ n - y \in 0 .. n
    OBVIOUS
  <2>2. n - y \in Q
    BY <2>1
  <2> HIDE DEF Q
  <2>3. k <= n - y
    BY <1>2, <2>2
  <2>4. QED
    BY <1>3, <2>1, <2>3
<1>5. \E m \in S : \A y \in S : m >= y
  BY <1>3, <1>4
<1>6. QED
  BY <1>5 DEF Max

\* A candidate counts as settled once it was.
LEMMA SettledOnce ==
  ASSUME NEW s, NEW n \in Nat, DOMAIN s = 1 .. n
  PROVE  LET v == CandidateResolution(s)
         IN  /\ DOMAIN v = {s[i].cand : i \in 1 .. n} \ {0}
             /\ \A c \in DOMAIN v : v[c] \in Settled <=>
                  \E i \in 1 .. n : s[i].cand = c /\ s[i].status \in Settled
<1> DEFINE v == CandidateResolution(s)
           end(c) == {i \in 1 .. n : s[i].cand = c /\ s[i].status \in Settled}
<1>1. /\ DOMAIN v = {s[i].cand : i \in 1 .. n} \ {0}
      /\ \A c \in DOMAIN v : v[c] = IF end(c) = {} THEN "candidate_pending" ELSE s[Max(end(c))].status
  BY DEF CandidateResolution
<1>2. ASSUME NEW c, end(c) # {} PROVE Max(end(c)) \in end(c)
  <2>1. end(c) \in SUBSET (1 .. n)
    OBVIOUS
  <2> HIDE DEF end
  <2>2. QED
    BY <1>2, <2>1, MaxExists
<1>3. \A c : end(c) # {} => s[Max(end(c))].status \in Settled
  BY <1>2
<1>4. "candidate_pending" \notin Settled
  BY DEF Settled
<1> HIDE DEF v
<1>5. ASSUME NEW c \in DOMAIN v
      PROVE  v[c] \in Settled <=> \E i \in 1 .. n : s[i].cand = c /\ s[i].status \in Settled
  <2>1. end(c) # {} <=> \E i \in 1 .. n : s[i].cand = c /\ s[i].status \in Settled
    OBVIOUS
  <2> HIDE DEF end
  <2>2. QED
    BY <1>1, <1>3, <1>4, <2>1
<1>6. QED
  BY <1>1, <1>5 DEF v

\* The summaries of the files agree with the report.
LEMMA FilesAgreed ==
  ASSUME Counted, Tale, Filed, ~late, NEW t,
         t.sections.governance = GovernanceMetrics(record), t.sections.gates = ProposalGateSummary(record),
         t.successful = Len(record), t.profits = Won(record)
  PROVE  FilesAgree(t, NormalizedSummary(files, WindowOfEffect))
<1> DEFINE D == DOMAIN record
           n == Len(record)
           v == NormalizedSummary(files, WindowOfEffect)
           w == CandidateResolution(files)
           B == {i \in D : record[i].outcome = "built"}
           R == {i \in D : GateStatus(record[i]) = "rejected"}
           settled == {c \in DOMAIN w : w[c] \in Settled}
<1>1. /\ v.metrics.cycles = Len(files) /\ v.metrics.profits = Won(files) /\ v.candidates = w
      /\ v.report.sections.governance = GovernanceMetrics(files)
  BY DEF NormalizedSummary, FileMetrics, TrainingReport, Sections
<1>2. /\ n \in Nat /\ D = 1 .. n /\ IsFiniteSet(D) /\ DOMAIN files = D /\ Len(files) = n
      /\ \A i \in D : Same(record[i], files[i])
      /\ Carried(record, files, [i \in D |-> i])
  BY ToldSpan, FilesTell DEF Tale
<1>3. \A i \in D : /\ files[i].cand = record[i].cand /\ files[i].status = record[i].status
                   /\ Profit(files[i]) = Profit(record[i])
  BY <1>2, SameFields, SameRead
<1>4. Won(files) = Won(record)
  <2>1. {i \in D : Profit(files[i])} = {i \in D : Profit(record[i])}
    BY <1>3
  <2>2. Won(files) = Cardinality({i \in DOMAIN files : Profit(files[i])})
        /\ Won(record) = Cardinality({i \in D : Profit(record[i])})
    BY DEF Won, CountOf
  <2>3. QED
    BY <1>2, <2>1, <2>2
<1>5. GovernanceMetrics(files) = GovernanceMetrics(record)
  <2>1. GovernanceMetrics(files) = [GovernanceMetrics(record) EXCEPT !.total = Len(files)]
    BY <1>2, GovernanceCarried
  <2>2. GovernanceMetrics(record).total = n
    BY DEF GovernanceMetrics
  <2>3. PICK g : g = GovernanceMetrics(record) /\ DOMAIN g = DOMAIN GovernanceMetrics(record)
                 /\ g = [x \in DOMAIN g |-> g[x]]
    BY DEF GovernanceMetrics
  <2>4. [g EXCEPT !.total = n] = g
    BY <2>2, <2>3
  <2>5. QED
    BY <1>2, <2>1, <2>3, <2>4
<1>6. \A i \in D : Cycled(record[i], i)
  BY DEF Tale, Told
<1>7. DOMAIN w = B
  <2>1. DOMAIN w = {files[i].cand : i \in D} \ {0}
    BY <1>2, SettledOnce
  <2>2. ASSUME NEW c \in DOMAIN w PROVE c \in B
    <3>1. PICK i \in D : record[i].cand = c /\ c # 0
      BY <1>3, <2>1
    <3>2. c \in 1 .. i /\ i \in 1 .. n
      BY <1>2, <1>6, <3>1 DEF Cycled
    <3>3. record[c].outcome = "built"
      BY <3>1 DEF Tale
    <3>4. QED
      BY <1>2, <3>2, <3>3
  <2>3. ASSUME NEW c \in B PROVE c \in DOMAIN w
    <3>1. c \in D /\ record[c].cand = c /\ c # 0
      BY <1>2, <1>6 DEF Cycled
    <3>2. QED
      BY <1>3, <2>1, <3>1
  <2> HIDE DEF w, B
  <2>4. QED
    BY <2>2, <2>3
<1>8. t.sections.gates.built = Cardinality(B)
  <2>1. ProposalGateSummary(record).built
          = Cardinality({i \in {j \in D : record[j].asked > 0} : record[i].outcome = "built"})
    BY DEF ProposalGateSummary, CountAt
  <2>2. {i \in {j \in D : record[j].asked > 0} : record[i].outcome = "built"} = B
    <3>1. \A i \in B : record[i].asked > 0
      BY <1>6 DEF Cycled
    <3>2. QED
      BY <3>1
  <2>3. QED
    BY <2>1, <2>2
<1>9. \A c \in DOMAIN w : w[c] \in Settled <=> \E i \in D : record[i].cand = c /\ record[i].status \in Settled
  <2>1. \A c \in DOMAIN w : w[c] \in Settled <=> \E i \in 1 .. n : files[i].cand = c /\ files[i].status \in Settled
    <3>1. n \in Nat /\ DOMAIN files = 1 .. n
      BY <1>2
    <3> HIDE DEF n, D, B, R, settled, v
    <3>2. QED
      BY <3>1, SettledOnce
  <2> HIDE DEF w
  <2>2. QED
    BY <1>2, <1>3, <2>1
<1>10. \A i \in D : record[i].status \in Settled => i \in R
  <2> SUFFICES ASSUME NEW i \in D, record[i].status \in Settled PROVE i \in R
    OBVIOUS
  <2>1. record[i].status \in {"candidate_expired", "candidate_pruned"}
    BY <1>6 DEF Cycled, Settled
  <2>2. QED
    BY <2>1 DEF GateStatus
<1> HIDE DEF w
<1>11. settled \subseteq {record[i].cand : i \in R}
  BY <1>9, <1>10
<1>12. Cardinality(settled) <= GovernanceMetrics(record).rejected
  <2>1. GovernanceMetrics(record).rejected = Cardinality(R)
    BY DEF GovernanceMetrics, CountOf
  <2> DEFINE c == [i \in D |-> record[i].cand]
             V == {c[i] : i \in R}
  <2>2. IsFiniteSet(R)
    <3>1. R \in SUBSET D
      OBVIOUS
    <3>2. QED
      BY <1>2, <3>1, FS_Subset
  <2>3. V = {record[i].cand : i \in R}
    OBVIOUS
  <2> HIDE DEF c
  <2>4. IsFiniteSet(V) /\ Cardinality(V) <= Cardinality(R)
    BY <2>2, ValuesAreFew
  <2>5. settled \in SUBSET V
    BY <1>11, <2>3
  <2> HIDE DEF V, R, settled
  <2>6. Cardinality(settled) <= Cardinality(V)
    BY <2>4, <2>5, FS_Subset
  <2>7. Cardinality(settled) \in Nat /\ Cardinality(V) \in Nat /\ Cardinality(R) \in Nat
    BY <2>2, <2>4, <2>5, FS_Subset, FS_CardinalityType
  <2>8. QED
    BY <2>1, <2>4, <2>6, <2>7
<1>13. DOMAIN w \ settled \subseteq {Gov!Open}
  <2> SUFFICES ASSUME NEW c \in DOMAIN w, c \notin settled PROVE c = Gov!Open
    OBVIOUS
  <2>1. c \in D /\ record[c].cand = c /\ c # 0
    BY <1>2, <1>6, <1>7 DEF Cycled
  <2>2. ~\E j \in D : record[j].cand = c /\ record[j].status \in Settled
    BY <1>9
  <2>3. QED
    BY <2>1, <2>2 DEF Tale
<1>14. \A i \in DOMAIN files : files[i].effect # record[i].effect =>
           files[i].effect = "pending" /\ i + WindowOfEffect <= Len(record)
  BY <1>2 DEF Filed
<1> HIDE DEF v, B, R
<1>15. QED
  BY <1>1, <1>2, <1>4, <1>5, <1>7, <1>8, <1>12, <1>13, <1>14 DEF FilesAgree, v

\* How a run of the lab is said to have gone: of T rounds n ran, k found no data, x failed.
LEMMA StatusOfCounts ==
  ASSUME NEW s, NEW T \in Nat, NEW n \in Nat, NEW k \in Nat, NEW x \in Nat, T = n + k + x,
         EvaluationSummary(s).total = T, EvaluationSummary(s).success = n,
         EvaluationSummary(s).no_data = k, EvaluationSummary(s).error = x
  PROVE  RunStatus(s) = "completed" <=> n # 0 /\ T = n
<1>1. RunStatus(s) =
        CASE T = 0                     -> "empty"
          [] T > 0 /\ x = T            -> "failed"
          [] x > 0 /\ x < T            -> "partial_failure"
          [] x = 0 /\ T > 0 /\ n = 0   -> "insufficient_data"
          [] x = 0 /\ n > 0            -> IF k > 0 THEN "completed_with_skips" ELSE "completed"
  BY DEF RunStatus
<1>2. QED
  BY <1>1

\* The results of a lab's run add up.
LEMMA RoundsAddUp ==
  ASSUME Tale, Listed, ~late, scheme.driver = "lab"
  PROVE  LET x == Cardinality({j \in DOMAIN results : results[j].item = "error"})
         IN  /\ Len(results) \in Nat /\ x \in Nat /\ skipped \in Nat
             /\ Len(results) = Len(record) + skipped + x
<1> DEFINE T == DOMAIN results
           D == DOMAIN record
           O == {j \in T : results[j].item = "ok"}
           N == {j \in T : results[j].item = "no_data"}
           X == {j \in T : results[j].item = "error"}
<1>1. PICK p : Carried(record, results, p)
  BY DEF Listed
<1>2. \A i \in D : results[p[i]].item = "ok"
  <2> SUFFICES ASSUME NEW i \in D PROVE results[p[i]].item = "ok"
    OBVIOUS
  <2>1. Same(record[i], results[p[i]]) /\ record[i].item = "ok"
    BY <1>1 DEF Carried, Tale, Told, Cycled
  <2>2. QED
    BY <2>1, SameFields
<1>3. \A b \in Blanks : b.item \in {"no_data", "error"}
  BY BlankCounts
<1>4. \A j \in T : results[j].item \in {"ok", "no_data", "error"}
  BY <1>1, <1>2, <1>3 DEF Carried
<1>5. Len(record) \in Nat /\ IsFiniteSet(D) /\ Cardinality(D) = Len(record)
  BY ToldSpan DEF Tale
<1>6. Cardinality(D) = Cardinality(O)
  <2>1. /\ p \in [D -> T] /\ (\A i, j \in D : p[i] = p[j] => i = j)
        /\ \A j \in T : \/ \E i \in D : p[i] = j
                        \/ results[j] \in Blanks
    BY <1>1 DEF Carried
  <2>2. \A i \in D : i \in D <=> p[i] \in O
    BY <1>2, <2>1
  <2>3. \A j \in O : \E i \in D : p[i] = j
    BY <1>3, <2>1
  <2>4. D \in SUBSET D /\ O \in SUBSET T
    OBVIOUS
  <2>5. IsFiniteSet(D)
    BY <1>5
  <2> HIDE DEF D, T, O, N, X
  <2>6. QED
    BY <2>1, <2>2, <2>3, <2>4, <2>5, CarriedCount
<1>7. Len(results) \in Nat /\ IsFiniteSet(T) /\ Cardinality(T) = Len(results)
  <2>1. PICK m : m = Len(results)
    OBVIOUS
  <2>2. m \in Nat /\ m \in Int /\ 1 \in Int /\ T = 1 .. m
    BY <2>1 DEF Listed
  <2>3. IsFiniteSet(1 .. m) /\ Cardinality(1 .. m) = IF 1 > m THEN 0 ELSE m - 1 + 1
    BY <2>2, FS_Interval
  <2>4. QED
    BY <2>1, <2>2, <2>3
<1>8. T = (O \cup N) \cup X /\ O \cap N = {} /\ (O \cup N) \cap X = {}
  BY <1>4
<1>9. O \in SUBSET T /\ N \in SUBSET T /\ X \in SUBSET T
  OBVIOUS
<1>10. Cardinality(N) = skipped
  BY DEF Listed
<1> HIDE DEF T, D, O, N, X
<1>11. /\ IsFiniteSet(O) /\ IsFiniteSet(N) /\ IsFiniteSet(X)
       /\ Cardinality(N) \in Nat /\ Cardinality(X) \in Nat
  BY <1>7, <1>9, FS_Subset, FS_CardinalityType
<1>12. IsFiniteSet(O \cup N) /\ Cardinality(O \cup N) = Cardinality(O) + Cardinality(N)
  BY <1>8, <1>11, ApartAddUp
<1>13. Cardinality((O \cup N) \cup X) = Cardinality(O \cup N) + Cardinality(X)
  BY <1>8, <1>11, <1>12, ApartAddUp
<1>14. QED
  BY <1>5, <1>6, <1>7, <1>8, <1>10, <1>11, <1>12, <1>13 DEF X, T

\* What is promoted has won, and failed in no regime.
LEMMA PromotedHasWon ==
  ASSUME NEW s, Told(s), NEW ok, DOMAIN ok = DOMAIN s, \A i \in DOMAIN s : Same(s[i], ok[i]),
         Len(ok) = Len(s), \A i \in DOMAIN s : ResultRegime(s[i]) = RegimeOf(s[i]),
         Verdict(ok) = "promoted"
  PROVE  Won(s) * 2 >= Len(s) /\ HardFails(s) = {}
<1> DEFINE D == DOMAIN s
<1>1. MeetsReturns(ok) /\ MeetsRegimes(ok)
  BY DEF Verdict
<1>2. IsFiniteSet(D) /\ Cardinality(D) = Len(s)
  BY ToldSpan
<1>3. \A i \in D : ok[i].ret = s[i].ret /\ Profit(ok[i]) = Profit(s[i]) /\ ResultRegime(ok[i]) = RegimeOf(s[i])
  BY SameFields, SameRead
<1>4. Won(s) * 2 >= Len(s)
  <2>1. ReturnProfile(ok, DOMAIN ok).up = Cardinality({i \in DOMAIN ok : Profit(ok[i])})
        /\ ReturnProfile(ok, DOMAIN ok).samples = Cardinality(DOMAIN ok)
    BY DEF ReturnProfile, CountAt
  <2>2. Won(s) = Cardinality({i \in D : Profit(s[i])})
    BY DEF Won, CountOf
  <2>3. {i \in DOMAIN ok : Profit(ok[i])} = {i \in D : Profit(s[i])}
    BY <1>3
  <2>4. 2 * ReturnProfile(ok, DOMAIN ok).up >= ReturnProfile(ok, DOMAIN ok).samples
    BY <1>1 DEF MeetsReturns
  <2>5. ReturnProfile(ok, DOMAIN ok).up = Won(s) /\ ReturnProfile(ok, DOMAIN ok).samples = Len(s)
    BY <1>2, <2>1, <2>2, <2>3
  <2>6. Won(s) \in Nat
    <3>1. {i \in D : Profit(s[i])} \in SUBSET D
      OBVIOUS
    <3>2. QED
      BY <2>2, <3>1, CountIsNatural
  <2>7. 2 * Won(s) >= Len(s)
    BY <2>4, <2>5
  <2>8. QED
    BY <2>6, <2>7
<1>5. ASSUME NEW g \in HardFails(s) PROVE FALSE
  <2> DEFINE I == {i \in D : RegimeOf(s[i]) = g}
             f == [i \in I |-> s[i].ret]
  <2>1. /\ RegimePerformance(s)[g].cycles >= 2
        /\ 2 * RegimePerformance(s)[g].ret <= -RegimePerformance(s)[g].cycles
        /\ g \in DOMAIN RegimePerformance(s)
    BY DEF HardFails
  <2>2. /\ DOMAIN RegimePerformance(s) = {RegimeOf(s[i]) : i \in D}
        /\ g \in DOMAIN RegimePerformance(s) =>
             /\ RegimePerformance(s)[g].cycles = Cardinality(I)
             /\ RegimePerformance(s)[g].ret = SumFunction(f)
    BY DEF RegimePerformance, Regimes, In, TotalAt
  <2>3. {i \in DOMAIN ok : ResultRegime(ok[i]) = g} = I
    BY <1>3
  <2>4. DOMAIN RegimeValidation(ok) = {ResultRegime(ok[i]) : i \in DOMAIN ok}
        /\ (g \in DOMAIN RegimeValidation(ok) =>
              RegimeValidation(ok)[g].total
                = SumFunction([i \in {j \in DOMAIN ok : ResultRegime(ok[j]) = g} |-> ok[i].ret]))
    BY DEF RegimeValidation, ReturnProfile, Regimes, In, TotalAt
  <2>5. g \in DOMAIN RegimeValidation(ok)
    BY <1>3, <2>1, <2>2, <2>4
  <2>6. RegimeValidation(ok)[g].total >= 0
    BY <1>1, <2>5 DEF MeetsRegimes
  <2>7. [i \in I |-> ok[i].ret] = f
    BY <1>3
  <2>8. f \in [I -> Int] /\ I \in SUBSET D
    BY DEF Told, Cycled
  <2> HIDE DEF I, f
  <2>9. RegimeValidation(ok)[g].total = SumFunction(f)
    BY <2>3, <2>4, <2>5, <2>7
  <2>10. IsFiniteSet(I) /\ Cardinality(I) \in Nat
    BY <2>8, CountIsNatural
  <2>11. SumFunction(f) \in Int
    BY <2>8, <2>10, SumIsInteger
  <2>12. Cardinality(I) >= 2 /\ 2 * SumFunction(f) <= -Cardinality(I) /\ SumFunction(f) >= 0
    BY <2>1, <2>2, <2>6, <2>9
  <2>13. QED
    BY <2>10, <2>11, <2>12
<1>6. QED
  BY <1>4, <1>5

\* The evaluation of the lab agrees with the report.
LEMMA LabAgreed ==
  ASSUME Counted, Tale, Listed, Numbered, ~late, phase = "done", NEW t,
         t.sections.governance = GovernanceMetrics(record), t.successful = Len(record),
         t.status = "completed" <=> record # <<>> /\ tries = Len(record)
  PROVE  LabAgrees(t, EvaluationSummary(results))
<1> SUFFICES ASSUME scheme.driver = "lab" PROVE LabAgrees(t, EvaluationSummary(results))
  BY DEF LabAgrees
<1> DEFINE e  == EvaluationSummary(results)
           ok == OkOf(results)
           D  == DOMAIN record
           x  == Cardinality({j \in DOMAIN results : results[j].item = "error"})
<1>1. /\ e.total = Len(results) /\ e.success = Len(ok) /\ e.error = x
      /\ e.no_data = Cardinality({j \in DOMAIN results : results[j].item = "no_data"})
      /\ e.verdict = Verdict(ok) /\ e.governance = GovernanceMetrics(results)
  BY DEF EvaluationSummary, CountOf
<1>2. /\ Len(ok) = Len(record) /\ DOMAIN ok = D /\ \A i \in D : Same(record[i], ok[i])
      /\ Len(results) = tries
      /\ Cardinality({j \in DOMAIN results : results[j].item = "no_data"}) = skipped
  BY DEF Listed
<1>3. Len(record) \in Nat /\ D = 1 .. Len(record) /\ IsFiniteSet(D) /\ record \in Seq(Range(record))
  BY ToldSpan DEF Tale, Told
<1>4. Len(results) \in Nat /\ x \in Nat /\ skipped \in Nat /\ Len(results) = Len(record) + skipped + x
  BY RoundsAddUp
<1>5. e.total = tries /\ e.success = t.successful /\ e.no_data = skipped
  BY <1>1, <1>2
<1>6. InOrder(MemorySummary(results).cycles)
  <2>1. PICK ids : ids = MemorySummary(results).cycles
    OBVIOUS
  <2>2. ids = [i \in DOMAIN results |-> results[i].id]
    BY <2>1 DEF MemorySummary
  <2>3. DOMAIN results = 1 .. tries
    BY <1>2 DEF Listed
  <2>4. Numbers(results, Len(record))
    BY DEF Numbered
  <2>5. DOMAIN ids = 1 .. tries /\ \A i \in 1 .. tries : ids[i] = results[i].id
    BY <2>2, <2>3
  <2>6. 1 .. Len(record) \subseteq Range(ids)
    <3> SUFFICES ASSUME NEW k \in 1 .. Len(record) PROVE k \in Range(ids)
      OBVIOUS
    <3>1. PICK i \in 1 .. tries : results[i].id = k
      BY <2>3, <2>4 DEF Numbers
    <3>2. QED
      BY <2>5, <3>1 DEF Range
  <2>7. Range(ids) \subseteq 1 .. Len(record) + 1
    BY <2>3, <2>4, <2>5 DEF Numbers, Range
  <2>8. \A i, j \in DOMAIN ids : i <= j => ids[i] <= ids[j]
    BY <2>3, <2>4, <2>5 DEF Numbers
  <2>9. QED
    BY <2>1, <2>5, <2>6, <2>7, <2>8 DEF InOrder
<1>7. RunStatus(results) = "completed" <=> t.status = "completed"
  <2>1. RunStatus(results) = "completed" <=> Len(record) # 0 /\ Len(results) = Len(record)
    <3> DEFINE n == Len(record)
               T == Len(results)
    <3>1. T \in Nat /\ n \in Nat /\ skipped \in Nat /\ x \in Nat /\ T = n + skipped + x
      BY <1>3, <1>4
    <3>2. e.total = T /\ e.success = n /\ e.no_data = skipped /\ e.error = x
      BY <1>1, <1>2
    <3> HIDE DEF n, T, x
    <3>3. RunStatus(results) = "completed" <=> n # 0 /\ T = n
      BY <3>1, <3>2, StatusOfCounts
    <3>4. QED
      BY <3>3 DEF n, T
  <2>2. Len(record) # 0 <=> record # <<>>
    BY <1>3
  <2>3. QED
    BY <1>2, <2>1, <2>2
<1>8. e.governance = [t.sections.governance EXCEPT !.total = tries]
  <2>1. PICK p : Carried(record, results, p)
    BY DEF Listed
  <2>2. GovernanceMetrics(results) = [GovernanceMetrics(record) EXCEPT !.total = Len(results)]
    BY <1>3, <2>1, GovernanceCarried
  <2>3. QED
    BY <1>1, <1>2, <2>2
<1>9. e.verdict = "promoted" => Won(record) * 2 >= Len(record) /\ HardFails(record) = {}
  <2> SUFFICES ASSUME Verdict(ok) = "promoted"
               PROVE  Won(record) * 2 >= Len(record) /\ HardFails(record) = {}
    BY <1>1
  <2>1. \A i \in D : ResultRegime(record[i]) = RegimeOf(record[i])
    BY RegimesSeen
  <2>2. Told(record)
    BY DEF Tale
  <2> HIDE DEF ok
  <2>3. QED
    BY <1>2, <2>1, <2>2, PromotedHasWon
<1> HIDE DEF e
<1>10. QED
  BY <1>5, <1>6, <1>7, <1>8, <1>9 DEF LabAgrees, e

\* Told right, a run is reported right.
LEMMA ReportTold ==
  ASSUME Counted, ReportInv, Numbered
  PROVE  ReportsAgree
<1> SUFFICES ASSUME phase = "done", ~late,
                    NEW t, t = TrainingReport(tries, skipped, record, Gate, WindowOfEffect)
             PROVE  ReportIsTrue(t)
  BY DEF ReportsAgree
<1>1. Tale /\ Tally /\ Filed /\ Listed
  BY DEF ReportInv
<1>2. /\ t.successful = Len(record) /\ t.profits = Won(record) /\ t.losses = Len(record) - Won(record)
      /\ t.sections.governance = GovernanceMetrics(record)
      /\ t.sections.gates = ProposalGateSummary(record)
      /\ t.sections.suggestions = SuggestionSummary(record, WindowOfEffect)
      /\ t.sections.failures = FailureDashboard(record)
      /\ t.sections.discipline = DisciplineDashboard(record)
  BY ReportParts
<1>3. /\ t.attempted = tries /\ t.skipped = tries - Len(record)
      /\ t.status = "completed" <=> record # <<>> /\ tries = Len(record)
  BY <1>1, ReportCounts
<1>4. scheme.driver # "lab" => t.skipped = skipped
  <2> SUFFICES ASSUME scheme.driver # "lab" PROVE t.skipped = skipped
    OBVIOUS
  <2>1. tries = Len(record) + skipped /\ skipped \in Nat /\ Len(record) \in Nat
    BY <1>1 DEF Tally, Counted
  <2>2. QED
    BY <1>3, <2>1
<1>5. Told(record) /\ WindowOfEffect \in Nat
  BY <1>1, ExperimentConstants DEF Tale
<1>6. SuggestionsAddUp(t)
  BY <1>2, <1>5, SuggestionsSum
<1>7. DashboardsAddUp(t)
  BY <1>2, <1>5, DashboardsSum
<1>8. RegimesAgree(t)
  BY <1>1, <1>2, RegimesTell
<1>9. FilesAgree(t, NormalizedSummary(files, WindowOfEffect))
  BY <1>1, <1>2, FilesAgreed
<1>10. LabAgrees(t, EvaluationSummary(results))
  BY <1>1, <1>2, <1>3, LabAgreed
<1>11. LET c == CalibrationSummary(record, t)
       IN  c.completed = t.successful /\ c.suggestions = SuggestionSummary(record, WindowOfEffect)
  BY <1>2 DEF CalibrationSummary
<1>12. QED
  BY <1>2, <1>3, <1>4, <1>6, <1>7, <1>8, <1>9, <1>10, <1>11 DEF ReportIsTrue

---------------------------------------------------------------------------
(* The steps of an experiment, and what is told of it *)

\* The candidate left open is the last one pending, and there is one when a record is pending.
LEMMA OpenIs ==
  ASSUME Tale
  PROVE  /\ Gov!Open \in 0 .. Len(record)
         /\ Gov!Open = 0 => \A i \in DOMAIN record : record[i].status # "candidate_pending"
         /\ Gov!Open # 0 => Gov!Open \in DOMAIN record /\ record[Gov!Open].outcome = "built"
<1> DEFINE n == Len(record)
           D == DOMAIN record
           P == {i \in D : record[i].status = "candidate_pending"}
           m == Max(P)
<1>1. n \in Nat /\ D = 1 .. n
  BY ToldSpan DEF Tale
<1>2. Gov!Open = IF P = {} THEN 0 ELSE record[m].cand
  BY DEF Gov!Open, Gov!Max, Max
<1>3. CASE P = {}
  BY <1>1, <1>2, <1>3
<1>4. CASE P # {}
  <2>1. m \in P
    <3>1. P \in SUBSET (1 .. n)
      BY <1>1
    <3> HIDE DEF P
    <3>2. QED
      BY <1>1, <1>4, <3>1, MaxExists
  <2> HIDE DEF m
  <2>2. m \in D /\ record[m].status = "candidate_pending" /\ Cycled(record[m], m)
    BY <2>1 DEF Tale, Told
  <2>3. record[m].cand # 0 /\ record[m].cand \in 0 .. m
    BY <2>2 DEF Cycled
  <2>4. record[record[m].cand].outcome = "built"
    BY <2>2, <2>3 DEF Tale
  <2>5. record[m].cand \in 1 .. n
    BY <1>1, <2>2, <2>3
  <2>6. Gov!Open = record[m].cand
    BY <1>2, <1>4
  <2>7. QED
    BY <1>1, <2>3, <2>4, <2>5, <2>6
<1>5. QED
  BY <1>3, <1>4

\* Only targets are seen.
LEMMA TargetsSeen ==
  ASSUME Tale, NEW d, NEW n
  PROVE  RegimesAt(d, n) \subseteq Range(Targets)
BY DEF Tale, RegimesAt

\* The record of the cycle under way: it builds a candidate only if none is open, and else
\* carries the open one on.
LEMMA RecordsTold ==
  ASSUME Counted, Tale, NEW e \in scheme.ends, NEW d, NEW k, NEW g \in RegimesAt(d, k),
         NEW r \in Records(e, g)
  PROVE  /\ Cycled(r, Len(record) + 1)
         /\ scheme.driver = "validation" => r.routed = ""
         /\ IF r.outcome = "built" THEN Gov!Open = 0 ELSE r.cand = Gov!Open
<1> DEFINE n == Len(record) + 1
<1>1. PICK o, ab, overlap :
        /\ o \in Gov!OutcomesOf(e.asked > 0) /\ (o \in {"built", "deferred"} => e.blocked < e.asked)
        /\ r = RecordOf(e, g, o, ab, overlap)
  BY DEF Records
<1>2. /\ e.ret \in Int /\ e.asked \in Nat /\ e.blocked \in 0 .. e.asked
      /\ scheme.driver = "validation" => ~scheme.routed
  BY ExperimentConstants DEF Counted
<1>3. /\ o \in {"none", "rejected", "deferred", "built"}
      /\ o = "none" <=> ~(e.asked > 0)
      /\ o = "built" => Gov!Open = 0
  <2>1. Gov!OutcomesOf(e.asked > 0) = CASE ~(e.asked > 0) -> {"none"}
          [] e.asked > 0 /\ Gov!Open # 0 -> {"rejected", "deferred"}
          [] e.asked > 0 /\ Gov!Open = 0 -> {"rejected", "built"}
    BY DEF Gov!OutcomesOf
  <2>2. QED
    BY <1>1, <2>1
<1>4. n \in Nat /\ n - 1 \in Nat /\ Gov!Open \in 0 .. n - 1
  <2>1. Len(record) \in Nat /\ Gov!Open \in 0 .. Len(record)
    BY OpenIs, ToldSpan DEF Tale
  <2>2. QED
    BY <2>1
<1> DEFINE c  == Gov!CandidateOf(o)
           st == Gov!StageOf(o, FALSE)
           su == Gov!StatusOf(o, Against(e, ab, overlap))
<1>5. c = IF o = "built" THEN n ELSE Gov!Open
  BY <1>3 DEF Gov!CandidateOf, Gov!Cid
<1>6. st = IF c # 0 THEN "candidate" ELSE "active"
  BY <1>3 DEF Gov!StageOf
<1>7. /\ su \in {"active_only", "candidate_pending", "candidate_expired", "candidate_pruned"}
      /\ c = 0 <=> su = "active_only"
  BY <1>3 DEF Gov!StatusOf
<1>8. r = [item |-> "ok", id |-> NextId, date |-> now.date, seed |-> now.seed, target |-> now.target,
   routed |-> IF scheme.routed THEN g ELSE "",
   tagged |-> IF scheme.driver = "validation" THEN "" ELSE g, self |-> g,
   ret |-> e.ret, bench |-> e.bench, sharpe |-> e.sharpe, dd |-> e.dd, fb |-> e.fb,
   asked |-> e.asked, approved |-> IF o = "rejected" THEN 0 ELSE e.asked - e.blocked,
   outcome |-> o, cand |-> c, stage |-> st, status |-> su,
   effect |-> IF o = "built" THEN "pending" ELSE "none", ab |-> ab,
   overlay |-> e.overlay, cut |-> e.cut]
  BY <1>1, Zenon DEF RecordOf
<1> HIDE DEF c, st, su
<1>9. /\ r.id = n /\ r.item = "ok" /\ r.ret = e.ret /\ r.self = g /\ r.asked = e.asked
      /\ r.approved = (IF o = "rejected" THEN 0 ELSE e.asked - e.blocked)
      /\ r.outcome = o /\ r.cand = c /\ r.stage = st /\ r.status = su
      /\ r.routed = IF scheme.routed THEN g ELSE ""
  BY <1>8 DEF NextId
<1>10. g \in Range(Targets)
  BY TargetsSeen
<1>11. r.approved \in 0 .. r.asked /\ r.asked \in Nat /\ (r.outcome = "none" <=> r.asked = 0)
  <2>1. r.approved = 0 \/ r.approved = e.asked - e.blocked
    BY <1>9
  <2>2. e.asked - e.blocked \in 0 .. e.asked /\ 0 \in 0 .. e.asked /\ (e.asked > 0 <=> e.asked # 0)
    BY <1>2
  <2>3. QED
    BY <1>2, <1>3, <1>9, <2>1, <2>2
<1> HIDE DEF n
<1>12. r.cand \in 0 .. n /\ (r.cand = n <=> r.outcome = "built")
  <2>1. CASE o = "built"
    <3>1. r.cand = n /\ r.outcome = "built"
      BY <1>5, <1>9, <2>1
    <3>2. n \in 0 .. n
      BY <1>4
    <3>3. QED
      BY <3>1, <3>2
  <2>2. CASE o # "built"
    <3>1. r.cand = Gov!Open /\ r.outcome # "built"
      BY <1>5, <1>9, <2>2
    <3>2. \A x \in 0 .. n - 1 : x \in 0 .. n /\ x # n
      BY <1>4
    <3>3. QED
      BY <1>4, <3>1, <3>2
  <2>3. QED
    BY <2>1, <2>2
<1>13. Cycled(r, n)
  BY <1>2, <1>3, <1>6, <1>7, <1>9, <1>10, <1>11, <1>12 DEF Cycled
<1>14. QED
  BY <1>2, <1>3, <1>5, <1>9, <1>13 DEF n

\* The candidate left open at the end of a history
OpenOf(s) == LET P == {i \in DOMAIN s : s[i].status = "candidate_pending"}
             IN  IF P = {} THEN 0 ELSE s[Max(P)].cand

\* The one left open is that of the record, before a step and after it.
LEMMA OpenIsOf == Gov!Open = OpenOf(record) /\ (Gov!Open)' = OpenOf(record')
<1>1. Gov!Open = OpenOf(record)
  BY DEF Gov!Open, OpenOf, Gov!Max, Max
<1>2. (Gov!Open)' = OpenOf(record')
  BY DEF Gov!Open, OpenOf, Gov!Max, Max
<1>3. QED
  BY <1>1, <1>2

\* A record more leaves its own candidate open, if it is pending, else the one that was.
LEMMA OpenNext ==
  ASSUME NEW s, NEW t, NEW n \in Nat \ {0}, DOMAIN s = 1 .. n - 1, DOMAIN t = 1 .. n,
         \A i \in 1 .. n - 1 : Same(s[i], t[i])
  PROVE  OpenOf(t) = IF t[n].status = "candidate_pending" THEN t[n].cand ELSE OpenOf(s)
<1> DEFINE P == {i \in DOMAIN s : s[i].status = "candidate_pending"}
           Q == {i \in DOMAIN t : t[i].status = "candidate_pending"}
<1>1. OpenOf(s) = (IF P = {} THEN 0 ELSE s[Max(P)].cand) /\ OpenOf(t) = (IF Q = {} THEN 0 ELSE t[Max(Q)].cand)
  BY DEF OpenOf
<1>2. \A i \in 1 .. n - 1 : t[i].status = s[i].status /\ t[i].cand = s[i].cand
  BY SameFields
<1>3. P \in SUBSET (1 .. n - 1) /\ Q \in SUBSET (1 .. n) /\ 1 .. n = 1 .. n - 1 \cup {n} /\ n - 1 \in Nat
  OBVIOUS
<1>4. CASE t[n].status = "candidate_pending"
  <2>1. n \in Q
    BY <1>4
  <2> HIDE DEF P, Q
  <2>2. Max(Q) \in Q /\ Max(Q) >= n
    BY <1>3, <2>1, MaxExists
  <2>3. PICK m : m = Max(Q)
    OBVIOUS
  <2>4. m = n
    <3>1. m \in 1 .. n /\ m >= n
      BY <1>3, <2>2, <2>3
    <3>2. QED
      BY <3>1
  <2>5. QED
    BY <1>1, <1>4, <2>1, <2>3, <2>4
<1>5. CASE t[n].status # "candidate_pending"
  <2>1. Q = P
    BY <1>2, <1>3, <1>5
  <2> HIDE DEF P, Q
  <2>2. CASE P = {}
    BY <1>1, <1>5, <2>1, <2>2
  <2>3. CASE P # {}
    <3>1. Max(P) \in 1 .. n - 1
      BY <1>3, <2>3, MaxExists
    <3>2. QED
      BY <1>1, <1>2, <1>5, <2>1, <3>1
  <2>4. QED
    BY <2>2, <2>3
<1>6. QED
  BY <1>4, <1>5

\* The history with the record r of the cycle under way; the others keep all but a due effect.
Ended(r) ==
  LET n == Len(record) + 1 IN
  /\ record' \in Seq(Range(record')) /\ Len(record') = n /\ DOMAIN record' = 1 .. n
  /\ \A i \in 1 .. n - 1 :
       /\ Same(record[i], record'[i])
       /\ record'[i].effect # record[i].effect => record[i].effect = "pending" /\ i + WindowOfEffect <= n
  /\ Same(r, record'[n])

\* Refreshing changes no more than the effects that are due.
LEMMA Refreshes ==
  ASSUME NEW h, NEW n, Len(h) = n, DOMAIN h = 1 .. n, NEW i \in 1 .. n, DOMAIN h[i] = Fields
  PROVE  LET q == Gov!Refreshed(h)[i]
         IN  Same(h[i], q) /\ (q.effect # h[i].effect => h[i].effect = "pending" /\ n >= i + WindowOfEffect)
<1>1. Gov!Refreshed(h)[i] = IF h[i].effect = "pending" /\ n >= i + WindowOfEffect
                            THEN [h[i] EXCEPT !.effect = "done"] ELSE h[i]
  BY DEF Gov!Refreshed
<1>2. SameButEffect(h[i], Gov!Refreshed(h)[i])
  BY RefreshedKeeps
<1>3. QED
  BY <1>1, <1>2 DEF SameButEffect, Same

\* The end of a cycle, seen as what it adds to the history, the files and the results
LEMMA EndsTells ==
  ASSUME Counted, Aimed, Tale, phase = "chosen", NEW after, Ends(after)
  PROVE  \E e \in scheme.ends, g \in RegimesAt(now.date, now.seed) : \E r \in Records(e, g) :
           /\ Ended(r)
           /\ sight' \in {sight, sight \cup {<<now.date, now.seed, g>>}}
           /\ files' = IF after = "save" THEN Append(files, record'[Len(record) + 1]) ELSE files
           /\ Reported(IF after = "save" THEN record'[Len(record) + 1] ELSE Blank("error", Len(record) + 1))
<1>1. PICK e \in scheme.ends, g \in RegimesAt(now.date, now.seed) : \E r \in Records(e, g) :
        LET kept == Gov!Refreshed(Append(record, r)) IN
        /\ record' = IF after = "append" THEN Append(record, r) ELSE kept
        /\ files'  = IF after = "save" THEN Append(files, kept[r.id]) ELSE files
        /\ sight'  = IF now.seed = 0 THEN sight ELSE sight \cup {<<now.date, now.seed, g>>}
        /\ Reported(IF after = "save" THEN kept[r.id] ELSE Blank("error", r.id))
  BY Zenon DEF Ends
<1>2. PICK r \in Records(e, g) :
        LET kept == Gov!Refreshed(Append(record, r)) IN
        /\ record' = IF after = "append" THEN Append(record, r) ELSE kept
        /\ files'  = IF after = "save" THEN Append(files, kept[r.id]) ELSE files
        /\ sight'  = IF now.seed = 0 THEN sight ELSE sight \cup {<<now.date, now.seed, g>>}
        /\ Reported(IF after = "save" THEN kept[r.id] ELSE Blank("error", r.id))
  BY <1>1
<1> DEFINE n == Len(record) + 1
           h == Append(record, r)
           kept == Gov!Refreshed(h)
<1>3. r.id = n
  <2>1. Cycled(r, Len(record) + 1)
    BY RecordsTold
  <2>2. QED
    BY <2>1 DEF Cycled
<1>4. DOMAIN r = Fields
  BY RecordsAreRows DEF NewRow, Row
<1>5. /\ Len(record) \in Nat /\ n \in Nat \ {0} /\ DOMAIN record = 1 .. n - 1
      /\ DOMAIN h = 1 .. n /\ h[n] = r /\ \A i \in 1 .. n - 1 : h[i] = record[i]
      /\ h = [i \in 1 .. n |-> h[i]]
  <2>1. record \in Seq(Range(record))
    BY DEF Counted
  <2>2. QED
    BY <2>1, OneMore
<1>6. Len(h) = n
  <2>1. record \in Seq(Range(record) \cup {r})
    BY DEF Counted
  <2>2. QED
    BY <2>1
<1>7. \A i \in 1 .. n - 1 : DOMAIN record[i] = Fields
  BY <1>5 DEF Counted, Row
<1>8. /\ record' = IF after = "append" THEN h ELSE kept
      /\ files' = IF after = "save" THEN Append(files, kept[n]) ELSE files
      /\ sight' = IF now.seed = 0 THEN sight ELSE sight \cup {<<now.date, now.seed, g>>}
      /\ Reported(IF after = "save" THEN kept[n] ELSE Blank("error", n))
  BY <1>2, <1>3
<1> HIDE DEF h
<1>9. \A i \in 1 .. n : DOMAIN h[i] = Fields
  <2>1. \A i \in 1 .. n : i = n \/ i \in 1 .. n - 1
    BY <1>5
  <2>2. h[n] = r /\ \A i \in 1 .. n - 1 : h[i] = record[i]
    BY <1>5
  <2> HIDE DEF n
  <2>3. QED
    BY <1>4, <1>7, <2>1, <2>2, Zenon
<1> HIDE DEF n
<1>10. \A i \in 1 .. n : /\ Same(h[i], kept[i])
                         /\ kept[i].effect # h[i].effect => h[i].effect = "pending" /\ n >= i + WindowOfEffect
  BY <1>5, <1>6, <1>9, Refreshes
<1>11. \A i \in 1 .. n : Same(h[i], h[i])
  BY DEF Same
<1>12. kept = [i \in 1 .. n |-> kept[i]] /\ DOMAIN kept = 1 .. n
  BY <1>5 DEF Gov!Refreshed
<1> HIDE DEF kept
<1>13. record' \in {h, kept}
  BY <1>8
<1>14. record' = [i \in 1 .. n |-> record'[i]] /\ DOMAIN record' = 1 .. n
  <2>1. CASE record' = h
    BY <1>5, <2>1
  <2>2. CASE record' = kept
    BY <1>12, <2>2
  <2>3. QED
    BY <1>13, <2>1, <2>2
<1>15. \A i \in 1 .. n : /\ Same(h[i], record'[i])
                         /\ record'[i].effect # h[i].effect => h[i].effect = "pending" /\ n >= i + WindowOfEffect
  BY <1>10, <1>11, <1>13
<1>16. record' \in Seq(Range(record')) /\ Len(record') = n
  BY <1>5, <1>14 DEF Range
<1>17. \A i \in 1 .. n - 1 :
         /\ Same(record[i], record'[i])
         /\ record'[i].effect # record[i].effect => record[i].effect = "pending" /\ i + WindowOfEffect <= n
  <2>1. \A i \in 1 .. n - 1 : i \in 1 .. n /\ h[i] = record[i]
    <3>1. n \in Nat
      BY <1>5
    <3>2. \A i \in 1 .. n - 1 : i \in 1 .. n
      BY <3>1
    <3>3. \A i \in 1 .. n - 1 : h[i] = record[i]
      BY <1>5
    <3>4. QED
      BY <3>2, <3>3
  <2>2. \A i \in 1 .. n : n >= i + WindowOfEffect => i + WindowOfEffect <= n
    <3>1. WindowOfEffect \in Nat
      BY ExperimentConstants
    <3>2. QED
      BY <1>5, <3>1
  <2>3. QED
    BY <1>15, <2>1, <2>2
<1>18. Same(r, record'[n])
  <2>1. n \in 1 .. n
    BY <1>5
  <2>2. QED
    BY <1>5, <1>15, <2>1
<1>19. Ended(r)
  BY <1>14, <1>16, <1>17, <1>18, Zenon DEF Ended, n
<1>20. after = "save" => kept[n] = record'[n]
  BY <1>8
<1>21. /\ files' = IF after = "save" THEN Append(files, record'[n]) ELSE files
       /\ Reported(IF after = "save" THEN record'[n] ELSE Blank("error", n))
  BY <1>8, <1>20
<1>22. sight' \in {sight, sight \cup {<<now.date, now.seed, g>>}}
  BY <1>8
<1>23. QED
  BY <1>19, <1>21, <1>22 DEF n

\* Such a record is still the one of its cycle.
LEMMA CycledSame ==
  ASSUME NEW a, NEW b, Same(a, b), NEW i, Cycled(a, i)
  PROVE  Cycled(b, i)
<1>1. a.approved = b.approved
  <2>1. "approved" \in Fields \ {"effect"}
    BY DEF Fields
  <2>2. QED
    BY <2>1 DEF Same
<1>2. /\ a.item = b.item /\ a.id = b.id /\ a.self = b.self /\ a.ret = b.ret /\ a.asked = b.asked
      /\ a.outcome = b.outcome /\ a.cand = b.cand /\ a.stage = b.stage /\ a.status = b.status
  BY SameFields
<1>3. QED
  BY <1>1, <1>2 DEF Cycled

\* With the record of the cycle under way the tale goes on.
LEMMA TaleNext ==
  ASSUME Counted, Tale, NEW e \in scheme.ends, NEW g \in RegimesAt(now.date, now.seed),
         NEW r \in Records(e, g), Ended(r),
         sight' \in {sight, sight \cup {<<now.date, now.seed, g>>}}, UNCHANGED scheme
  PROVE  Tale'
<1> DEFINE n == Len(record) + 1
           new == record'[n]
<1>1. /\ n \in Nat \ {0} /\ DOMAIN record = 1 .. n - 1 /\ \A i \in 1 .. n - 1 : Cycled(record[i], i)
      /\ \A i \in 1 .. n - 1 : i \in 1 .. n /\ i # n
      /\ \A i \in 1 .. n : i = n \/ i \in 1 .. n - 1
      /\ n \in 1 .. n
  <2>1. Len(record) \in Nat /\ DOMAIN record = 1 .. Len(record)
    BY ToldSpan DEF Tale
  <2>2. n \in Nat \ {0} /\ n - 1 = Len(record)
    BY <2>1
  <2>3. \A i \in 1 .. n - 1 : Cycled(record[i], i)
    BY <2>1, <2>2 DEF Tale, Told
  <2> HIDE DEF n
  <2>4. QED
    BY <2>1, <2>2, <2>3
<1>2. /\ record' \in Seq(Range(record')) /\ DOMAIN record' = 1 .. n
      /\ \A i \in 1 .. n - 1 : Same(record[i], record'[i])
      /\ Same(r, new)
  BY DEF Ended
<1>3. /\ Cycled(r, n)
      /\ scheme.driver = "validation" => r.routed = ""
      /\ IF r.outcome = "built" THEN Gov!Open = 0 ELSE r.cand = Gov!Open
  BY RecordsTold
<1>4. /\ Gov!Open = 0 => \A i \in DOMAIN record : record[i].status # "candidate_pending"
      /\ Gov!Open # 0 => Gov!Open \in DOMAIN record /\ record[Gov!Open].outcome = "built"
  BY OpenIs
<1> HIDE DEF n, new
<1>5. \A i \in 1 .. n : Cycled(record'[i], i)
  BY <1>1, <1>2, <1>3, CycledSame DEF new
<1>6. Told(record')
  BY <1>2, <1>5 DEF Told
<1>7. \A v \in sight' : v[3] \in Range(Targets)
  <2>1. g \in Range(Targets)
    BY TargetsSeen
  <2>2. \A v \in sight : v[3] \in Range(Targets)
    BY DEF Tale
  <2>3. QED
    BY <2>1, <2>2
<1>8. scheme.driver = "validation" => \A i \in DOMAIN record' : record'[i].routed = ""
  <2>1. \A i \in 1 .. n - 1 : record'[i].routed = record[i].routed
    BY <1>2, SameFields
  <2>2. new.routed = r.routed
    BY <1>2, SameFields
  <2>3. scheme.driver = "validation" => \A i \in 1 .. n - 1 : record[i].routed = ""
    BY <1>1 DEF Tale
  <2>4. QED
    BY <1>1, <1>2, <1>3, <2>1, <2>2, <2>3 DEF new
<1>9. /\ new.outcome = r.outcome /\ new.cand = r.cand /\ new.status = r.status
      /\ \A i \in 1 .. n - 1 : /\ record'[i].outcome = record[i].outcome
                               /\ record'[i].cand = record[i].cand /\ record'[i].status = record[i].status
  BY <1>2, SameFields
<1>10. (Gov!Open)' = IF r.status = "candidate_pending" THEN r.cand ELSE Gov!Open
  <2>1. OpenOf(record') = IF new.status = "candidate_pending" THEN new.cand ELSE OpenOf(record)
    BY <1>1, <1>2, OpenNext DEF new
  <2>2. QED
    BY <1>9, <2>1, OpenIsOf
<1>11. r.cand # 0 => r.cand = (Gov!Open)' \/ r.status \in Settled
  BY <1>3, <1>10 DEF Cycled, Settled
<1>12. r.cand # 0 => record'[r.cand].outcome = "built"
  <2>1. CASE r.outcome = "built"
    <3>1. r.cand = n
      BY <1>3, <2>1 DEF Cycled
    <3>2. QED
      BY <1>9, <2>1, <3>1 DEF new
  <2>2. CASE r.outcome # "built"
    BY <1>1, <1>3, <1>4, <1>9, <2>2
  <2>3. QED
    BY <2>1, <2>2
<1>13. ASSUME NEW i \in 1 .. n - 1, record[i].cand # 0
       PROVE  /\ record'[record[i].cand].outcome = "built"
              /\ \/ record[i].cand = (Gov!Open)'
                 \/ \E j \in 1 .. n : record'[j].cand = record[i].cand /\ record'[j].status \in Settled
  <2>1. PICK c : c = record[i].cand
    OBVIOUS
  <2>2. /\ record[c].outcome = "built"
        /\ \/ c = Gov!Open
           \/ \E j \in 1 .. n - 1 : record[j].cand = c /\ record[j].status \in Settled
    BY <1>1, <1>13, <2>1 DEF Tale
  <2>3. c \in 1 .. n - 1
    <3>1. c \in 0 .. i
      BY <1>1, <2>1 DEF Cycled
    <3>2. QED
      BY <1>1, <1>13, <2>1, <3>1
  <2>4. record'[c].outcome = "built"
    BY <1>9, <2>2, <2>3
  <2>5. CASE c = Gov!Open
    <3>1. r.outcome # "built" /\ r.cand = c /\ c # 0
      BY <1>3, <1>13, <2>1, <2>5
    <3>2. c = (Gov!Open)' \/ (new.cand = c /\ new.status \in Settled)
      BY <1>9, <1>11, <3>1
    <3>3. QED
      BY <1>1, <2>1, <2>4, <3>2 DEF new
  <2>6. CASE \E j \in 1 .. n - 1 : record[j].cand = c /\ record[j].status \in Settled
    BY <1>1, <1>9, <2>1, <2>4, <2>6
  <2>7. QED
    BY <2>2, <2>5, <2>6
<1>14. \A i \in DOMAIN record' : LET c == record'[i].cand IN
         c # 0 => /\ record'[c].outcome = "built"
                  /\ \/ c = (Gov!Open)'
                     \/ \E j \in DOMAIN record' : record'[j].cand = c /\ record'[j].status \in Settled
  <2> SUFFICES ASSUME NEW i \in 1 .. n, record'[i].cand # 0
               PROVE  /\ record'[record'[i].cand].outcome = "built"
                      /\ \/ record'[i].cand = (Gov!Open)'
                         \/ \E j \in 1 .. n : record'[j].cand = record'[i].cand /\ record'[j].status \in Settled
    BY <1>2
  <2>1. CASE i = n
    BY <1>1, <1>9, <1>11, <1>12, <2>1 DEF new
  <2>2. CASE i \in 1 .. n - 1
    <3>1. record'[i].cand = record[i].cand
      BY <1>9, <2>2
    <3>2. QED
      BY <1>13, <2>2, <3>1
  <2>3. QED
    BY <1>1, <2>1, <2>2
<1>15. QED
  BY <1>6, <1>7, <1>8, <1>14 DEF Tale

\* A sequence of its own elements stays one.
LEMMA Appended ==
  ASSUME NEW s, s \in Seq(Range(s)), NEW e, NEW n, n = Len(s) + 1
  PROVE  /\ Len(s) \in Nat /\ n \in Nat \ {0} /\ DOMAIN s = 1 .. n - 1
         /\ Append(s, e) \in Seq(Range(Append(s, e))) /\ Len(Append(s, e)) = n
         /\ DOMAIN Append(s, e) = 1 .. n /\ Append(s, e)[n] = e
         /\ \A i \in 1 .. n - 1 : Append(s, e)[i] = s[i]
<1>1. /\ Len(s) \in Nat /\ n \in Nat \ {0} /\ DOMAIN s = 1 .. n - 1
      /\ DOMAIN Append(s, e) = 1 .. n /\ Append(s, e)[n] = e
      /\ \A i \in 1 .. n - 1 : Append(s, e)[i] = s[i]
      /\ Append(s, e) = [i \in 1 .. n |-> Append(s, e)[i]]
  BY OneMore
<1>2. PICK t : t = Append(s, e)
  OBVIOUS
<1>3. t \in Seq(Range(t)) /\ Len(t) = n
  BY <1>1, <1>2 DEF Range
<1>4. QED
  BY <1>1, <1>2, <1>3

\* The same again
LEMMA SameTwice ==
  ASSUME NEW a, NEW b, NEW c, Same(a, b), Same(a, c)
  PROVE  Same(b, c)
BY DEF Same

\* The file of the cycle is of its record.
LEMMA FiledNext ==
  ASSUME Tale, Filed, NEW r, Ended(r), files' = Append(files, record'[Len(record) + 1]), UNCHANGED late
  PROVE  Filed'
<1> SUFFICES ASSUME ~late
             PROVE  /\ files' \in Seq(Range(files')) /\ Len(files') = Len(record')
                    /\ \A i \in DOMAIN record' :
                         /\ Same(record'[i], files'[i])
                         /\ files'[i].effect # record'[i].effect =>
                              files'[i].effect = "pending" /\ i + WindowOfEffect <= Len(record')
  BY DEF Filed
<1> DEFINE n == Len(record) + 1
<1>1. files \in Seq(Range(files)) /\ Len(files) = Len(record)
  BY DEF Filed
<1>2. /\ files' \in Seq(Range(files')) /\ Len(files') = n /\ n \in Nat \ {0} /\ DOMAIN files = 1 .. n - 1
      /\ files'[n] = record'[n] /\ \A i \in 1 .. n - 1 : files'[i] = files[i]
  BY <1>1, Appended
<1>3. /\ Len(record') = n /\ DOMAIN record' = 1 .. n
      /\ \A i \in 1 .. n - 1 :
           /\ Same(record[i], record'[i])
           /\ record'[i].effect # record[i].effect => record[i].effect = "pending" /\ i + WindowOfEffect <= n
  BY DEF Ended
<1>4. DOMAIN record = 1 .. n - 1 /\ n - 1 = Len(record)
  <2>1. Len(record) \in Nat /\ DOMAIN record = 1 .. Len(record)
    BY ToldSpan DEF Tale
  <2>2. n - 1 = Len(record)
    BY <2>1
  <2>3. QED
    BY <2>1, <2>2
<1>5. \A i \in 1 .. n - 1 :
        /\ Same(record[i], files[i])
        /\ files[i].effect # record[i].effect =>
             files[i].effect = "pending" /\ i + WindowOfEffect <= n - 1
  BY <1>4 DEF Filed
<1>6. \A i \in 1 .. n : i = n \/ i \in 1 .. n - 1
  BY <1>2
<1>7. \A i \in 1 .. n - 1 : i + WindowOfEffect <= n - 1 => i + WindowOfEffect <= n
  <2>1. WindowOfEffect \in Nat
    BY ExperimentConstants
  <2>2. QED
    BY <1>2, <2>1
<1> HIDE DEF n
<1>8. \A i \in 1 .. n : Same(record'[i], files'[i])
  <2>1. \A i \in 1 .. n - 1 : Same(record'[i], files'[i])
    BY <1>2, <1>3, <1>5, SameTwice
  <2>2. Same(record'[n], files'[n])
    BY <1>2 DEF Same
  <2>3. QED
    BY <1>6, <2>1, <2>2
<1>9. \A i \in 1 .. n : files'[i].effect # record'[i].effect =>
        files'[i].effect = "pending" /\ i + WindowOfEffect <= n
  <2>1. \A i \in 1 .. n - 1 : files'[i].effect # record'[i].effect =>
          files'[i].effect = "pending" /\ i + WindowOfEffect <= n
    <3> SUFFICES ASSUME NEW i \in 1 .. n - 1, files'[i].effect # record'[i].effect
                 PROVE  files'[i].effect = "pending" /\ i + WindowOfEffect <= n
      OBVIOUS
    <3>1. files'[i] = files[i]
      BY <1>2
    <3>2. CASE files[i].effect # record[i].effect
      BY <1>5, <1>7, <3>1, <3>2
    <3>3. CASE files[i].effect = record[i].effect
      BY <1>3, <3>1, <3>3
    <3>4. QED
      BY <3>2, <3>3
  <2>2. files'[n].effect = record'[n].effect
    BY <1>2
  <2>3. QED
    BY <1>6, <2>1, <2>2
<1>10. QED
  BY <1>2, <1>3, <1>8, <1>9

\* A result of no cycle is one more on the list, and no other is counted but the skipped.
LEMMA BlankListed ==
  ASSUME Tale, Tally, Listed, phase = "chosen", phase' # "chosen",
         NEW x \in {"no_data", "error"}, NEW k \in Nat, Reported(Blank(x, k)),
         skipped' = IF x = "no_data" THEN skipped + 1 ELSE skipped,
         UNCHANGED <<scheme, tries, record, late>>
  PROVE  Listed'
<1> DEFINE b == Blank(x, k)
           m == Len(results) + 1
<1>1. results \in Seq(Range(results))
  BY DEF Listed
<1>2. /\ m \in Nat \ {0} /\ DOMAIN results = 1 .. m - 1
      /\ Append(results, b) \in Seq(Range(Append(results, b))) /\ Len(Append(results, b)) = m
      /\ DOMAIN Append(results, b) = 1 .. m /\ Append(results, b)[m] = b
      /\ \A j \in 1 .. m - 1 : Append(results, b)[j] = results[j]
  BY <1>1, Appended
<1>3. results' = IF scheme.driver = "lab" THEN Append(results, b) ELSE results
  BY DEF Reported
<1>4. results' \in Seq(Range(results'))
  BY <1>1, <1>2, <1>3
<1>5. CASE late \/ scheme.driver # "lab"
  BY <1>4, <1>5 DEF Listed
<1>6. CASE ~late /\ scheme.driver = "lab"
  <2>1. /\ results' = Append(results, b) /\ Len(results') = m /\ DOMAIN results' = 1 .. m /\ results'[m] = b
        /\ \A j \in 1 .. m - 1 : results'[j] = results[j]
    BY <1>2, <1>3, <1>6
  <2>2. b.item = x /\ b \in Blanks
    <3>1. Blank(x, k).item = x
      BY DEF Blank
    <3>2. Blank(x, k) \in Blanks
      BY DEF Blanks
    <3>3. QED
      BY <3>1, <3>2
  <2>3. tries = m
    BY <1>6 DEF Listed
  <2>4. \E p : Carried(record, results', p)
    <3>1. PICK p : Carried(record, results, p)
      BY <1>6 DEF Listed
    <3>2. 1 .. m = 1 .. m - 1 \cup {m}
      BY <1>2
    <3> HIDE DEF b, m
    <3>3. p \in [DOMAIN record -> 1 .. m - 1] /\ \A i \in DOMAIN record : results'[p[i]] = results[p[i]]
      BY <1>2, <2>1, <3>1 DEF Carried
    <3>4. p \in [DOMAIN record -> DOMAIN results']
      BY <2>1, <3>2, <3>3
    <3>5. \A i \in DOMAIN record : Same(record[i], results'[p[i]])
      BY <3>1, <3>3 DEF Carried
    <3>6. \A j \in DOMAIN results' : \/ \E i \in DOMAIN record : p[i] = j
                                     \/ results'[j] \in Blanks
      BY <1>2, <2>1, <2>2, <3>1, <3>2 DEF Carried
    <3>7. QED
      BY <3>1, <3>4, <3>5, <3>6 DEF Carried
  <2>5. Cardinality({j \in DOMAIN results' : results'[j].item = "no_data"}) = skipped'
    <3> DEFINE A == {j \in 1 .. m - 1 : results[j].item = "no_data"}
               B == {j \in 1 .. m : results'[j].item = "no_data"}
    <3>1. 1 .. m = 1 .. m - 1 \cup {m} /\ m \notin 1 .. m - 1
      BY <1>2
    <3>2. B = IF x = "no_data" THEN A \cup {m} ELSE A
      <4> HIDE DEF b, m
      <4>1. \A j \in 1 .. m - 1 : results'[j].item = results[j].item
        BY <2>1
      <4>2. results'[m].item = x
        BY <2>1, <2>2
      <4>3. QED
        BY <3>1, <4>1, <4>2
    <3>3. IsFiniteSet(A) /\ m \notin A
      <4>1. IsFiniteSet(1 .. m - 1) /\ A \in SUBSET (1 .. m - 1)
        BY <1>2, FS_Interval
      <4> HIDE DEF m
      <4>2. QED
        BY <3>1, <4>1, FS_Subset
    <3>4. Cardinality(A) = skipped
      BY <1>2, <1>6 DEF Listed
    <3>5. {j \in DOMAIN results' : results'[j].item = "no_data"} = B
      BY <2>1
    <3> HIDE DEF A, B, b, m
    <3>6. Cardinality(B) = IF x = "no_data" THEN Cardinality(A) + 1 ELSE Cardinality(A)
      BY <3>2, <3>3, FS_AddElement
    <3>7. QED
      BY <3>4, <3>5, <3>6
  <2>6. OkOf(results') = OkOf(results)
    <3>1. OkOf(Append(results, b)) = IF b.item = "ok" THEN Append(OkOf(results), b) ELSE OkOf(results)
      BY <1>1, OkGrows
    <3>2. b.item # "ok"
      BY <2>2
    <3>3. QED
      BY <2>1, <3>1, <3>2
  <2>7. /\ OkOf(results) \in Seq(Range(OkOf(results)))
        /\ Len(OkOf(results)) = Len(record) /\ DOMAIN OkOf(results) = DOMAIN record
        /\ \A i \in DOMAIN record : Same(record[i], OkOf(results)[i])
    BY <1>6 DEF Listed
  <2> HIDE DEF b, m
  <2>8. QED
    BY <1>4, <2>1, <2>3, <2>4, <2>5, <2>6, <2>7 DEF Listed
<1>7. QED
  BY <1>5, <1>6

\* The result of the cycle is its record.
LEMMA RecordListed ==
  ASSUME Tale, Tally, Listed, phase = "chosen", phase' # "chosen",
         NEW r, Ended(r), Cycled(r, Len(record) + 1), Reported(record'[Len(record) + 1]),
         UNCHANGED <<scheme, tries, skipped, late>>
  PROVE  Listed'
<1> DEFINE n == Len(record) + 1
           new == record'[n]
           m == Len(results) + 1
<1>1. results \in Seq(Range(results))
  BY DEF Listed
<1>2. /\ m \in Nat \ {0} /\ DOMAIN results = 1 .. m - 1
      /\ Append(results, new) \in Seq(Range(Append(results, new))) /\ Len(Append(results, new)) = m
      /\ DOMAIN Append(results, new) = 1 .. m /\ Append(results, new)[m] = new
      /\ \A j \in 1 .. m - 1 : Append(results, new)[j] = results[j]
  BY <1>1, Appended
<1>3. results' = IF scheme.driver = "lab" THEN Append(results, new) ELSE results
  BY DEF Reported
<1>4. results' \in Seq(Range(results'))
  BY <1>1, <1>2, <1>3
<1>5. CASE late \/ scheme.driver # "lab"
  BY <1>4, <1>5 DEF Listed
<1>6. CASE ~late /\ scheme.driver = "lab"
  <2>1. /\ results' = Append(results, new) /\ Len(results') = m /\ DOMAIN results' = 1 .. m /\ results'[m] = new
        /\ \A j \in 1 .. m - 1 : results'[j] = results[j]
    BY <1>2, <1>3, <1>6
  <2>2. /\ Len(record') = n /\ DOMAIN record' = 1 .. n
        /\ \A i \in 1 .. n - 1 : Same(record[i], record'[i])
        /\ Same(r, new)
    BY DEF Ended
  <2>3. /\ n \in Nat \ {0} /\ DOMAIN record = 1 .. n - 1 /\ Len(record) = n - 1
    <3>1. Len(record) \in Nat /\ DOMAIN record = 1 .. Len(record)
      BY ToldSpan DEF Tale
    <3>2. n - 1 = Len(record) /\ n \in Nat \ {0}
      BY <3>1
    <3>3. QED
      BY <3>1, <3>2
  <2>4. tries = m
    BY <1>6 DEF Listed
  <2>5. new.item = "ok"
    BY <2>2, SameFields DEF Cycled
  <2>6. /\ 1 .. m = 1 .. m - 1 \cup {m} /\ m \notin 1 .. m - 1
        /\ 1 .. n = 1 .. n - 1 \cup {n} /\ n \notin 1 .. n - 1
    BY <1>2, <2>3
  <2> HIDE DEF n, m, new
  <2>7. \E p : Carried(record', results', p)
    <3>1. PICK p : Carried(record, results, p)
      BY <1>6 DEF Listed
    <3>2. p \in [1 .. n - 1 -> 1 .. m - 1] /\ \A i, j \in 1 .. n - 1 : p[i] = p[j] => i = j
      BY <1>2, <2>3, <3>1 DEF Carried
    <3> DEFINE q == [i \in 1 .. n |-> IF i = n THEN m ELSE p[i]]
    <3>3. q[n] = m /\ \A i \in 1 .. n - 1 : q[i] = p[i] /\ q[i] \in 1 .. m - 1
      BY <2>6, <3>2
    <3>4. q \in [1 .. n -> 1 .. m]
      BY <2>6, <3>2
    <3> HIDE DEF q
    <3>5. \A i, j \in 1 .. n : q[i] = q[j] => i = j
      BY <2>6, <3>2, <3>3
    <3>6. \A i \in 1 .. n : Same(record'[i], results'[q[i]])
      <4>1. \A i \in 1 .. n - 1 : Same(record[i], results[p[i]])
        BY <2>3, <3>1 DEF Carried
      <4>2. ASSUME NEW i \in 1 .. n - 1 PROVE Same(record'[i], results'[q[i]])
        <5>1. results'[q[i]] = results[p[i]]
          BY <2>1, <3>3
        <5>2. QED
          BY <2>2, <4>1, <5>1, SameTwice
      <4>3. Same(record'[n], results'[q[n]])
        <5>1. results'[q[n]] = record'[n]
          BY <2>1, <3>3 DEF new
        <5>2. QED
          BY <5>1 DEF Same
      <4>4. QED
        BY <2>6, <4>2, <4>3
    <3>7. \A j \in 1 .. m : \/ \E i \in 1 .. n : q[i] = j
                            \/ results'[j] \in Blanks
      <4>1. \A j \in 1 .. m - 1 : \/ \E i \in 1 .. n - 1 : p[i] = j
                                  \/ results[j] \in Blanks
        BY <1>2, <2>3, <3>1 DEF Carried
      <4>2. QED
        BY <2>1, <2>6, <3>3, <4>1
    <3>8. Carried(record', results', q)
      <4>1. DOMAIN record' = 1 .. n /\ DOMAIN results' = 1 .. m
        BY <2>1, <2>2
      <4>2. QED
        BY <3>4, <3>5, <3>6, <3>7, <4>1, Zenon DEF Carried
    <3>9. QED
      BY <3>8
  <2>8. Cardinality({j \in DOMAIN results' : results'[j].item = "no_data"}) = skipped'
    <3>1. {j \in 1 .. m : results'[j].item = "no_data"} = {j \in 1 .. m - 1 : results[j].item = "no_data"}
      BY <2>1, <2>5, <2>6
    <3>2. Cardinality({j \in DOMAIN results : results[j].item = "no_data"}) = skipped
      BY <1>6 DEF Listed
    <3>3. QED
      BY <1>2, <2>1, <3>1, <3>2
  <2>9. /\ OkOf(results) \in Seq(Range(OkOf(results)))
        /\ Len(OkOf(results)) = n - 1 /\ DOMAIN OkOf(results) = 1 .. n - 1
        /\ \A i \in 1 .. n - 1 : Same(record[i], OkOf(results)[i])
    BY <1>6, <2>3 DEF Listed
  <2>10. OkOf(results') = Append(OkOf(results), new)
    BY <1>1, <2>1, <2>5, OkGrows
  <2>11. /\ OkOf(results') \in Seq(Range(OkOf(results'))) /\ Len(OkOf(results')) = n /\ DOMAIN OkOf(results') = 1 .. n
         /\ OkOf(results')[n] = new /\ \A i \in 1 .. n - 1 : OkOf(results')[i] = OkOf(results)[i]
    <3>1. n = Len(OkOf(results)) + 1
      BY <2>3, <2>9
    <3>2. QED
      BY <2>9, <2>10, <3>1, Appended
  <2>12. \A i \in 1 .. n : Same(record'[i], OkOf(results')[i])
    <3>1. \A i \in 1 .. n - 1 : Same(record'[i], OkOf(results')[i])
      BY <2>2, <2>9, <2>11, SameTwice
    <3>2. Same(record'[n], OkOf(results')[n])
      BY <2>11 DEF Same, new
    <3>3. QED
      BY <2>6, <3>1, <3>2
  <2>13. QED
    BY <1>4, <2>1, <2>2, <2>4, <2>7, <2>8, <2>11, <2>12 DEF Listed
<1>7. QED
  BY <1>5, <1>6

\* At first there is nothing to tell.
LEMMA InitReport == ExperimentInit => ReportInv
<1> SUFFICES ASSUME ExperimentInit PROVE ReportInv
  OBVIOUS
<1>1. /\ tries = 0 /\ skipped = 0 /\ record = <<>> /\ files = <<>> /\ results = <<>> /\ sight = {}
      /\ phase # "chosen"
  BY DEF ExperimentInit
<1>2. Len(record) = 0 /\ DOMAIN record = {} /\ DOMAIN results = {} /\ Len(files) = 0 /\ Len(results) = 0
  BY <1>1
<1>3. record \in Seq(Range(record)) /\ files \in Seq(Range(files)) /\ results \in Seq(Range(results))
  BY <1>1
<1>4. Tale
  BY <1>1, <1>2, <1>3 DEF Tale, Told
<1>5. Tally
  BY <1>1, <1>2 DEF Tally
<1>6. Filed
  BY <1>2, <1>3 DEF Filed
<1>7. OkOf(results) = <<>>
  <2>1. results \in Seq({})
    BY <1>1
  <2>2. QED
    BY <1>1, <2>1, OkGrows
<1>8. /\ OkOf(results) \in Seq(Range(OkOf(results))) /\ Len(OkOf(results)) = 0 /\ DOMAIN OkOf(results) = {}
  <2>1. PICK q : q = <<>>
    OBVIOUS
  <2>2. q \in Seq(Range(q)) /\ Len(q) = 0 /\ DOMAIN q = {}
    BY <2>1
  <2>3. QED
    BY <1>7, <2>1, <2>2
<1>9. Carried(record, results, [i \in {} |-> i])
  BY <1>2 DEF Carried
<1>10. Cardinality({j \in DOMAIN results : results[j].item = "no_data"}) = 0
  <2>1. {j \in DOMAIN results : results[j].item = "no_data"} = {}
    BY <1>2
  <2>2. QED
    BY <2>1, FS_EmptySet
<1>11. Listed
  BY <1>1, <1>2, <1>3, <1>8, <1>9, <1>10 DEF Listed
<1>12. QED
  BY <1>4, <1>5, <1>6, <1>11 DEF ReportInv

\* Where nothing is recorded, written or listed, what is told stays so.
LEMMA TaleStays ==
  ASSUME Tale, UNCHANGED <<scheme, record>>, \A v \in sight' : v[3] \in Range(Targets)
  PROVE  Tale'
<1>1. (Gov!Open)' = Gov!Open
  BY OpenIsOf
<1>2. \A i \in DOMAIN record : Cycled(record[i], i)
  BY DEF Tale, Told
<1>3. Told(record')
  BY DEF Tale, Told
<1>4. QED
  BY <1>1, <1>3 DEF Tale

\* Files stay the records as they were written.
LEMMA FiledStays ==
  ASSUME Filed, UNCHANGED <<record, files, late>>
  PROVE  Filed'
BY DEF Filed

\* The steps that record, write and list nothing
LEMMA QuietReport ==
  ASSUME Counted, ReportInv, UNCHANGED <<scheme, skipped, record, files, results, late>>,
         \A v \in sight' : v[3] \in Range(Targets),
         \/ phase # "chosen" /\ phase' = "chosen" /\ tries' = tries + 1
         \/ phase # "chosen" /\ phase' # "chosen" /\ tries' = tries
         \/ phase' = phase /\ tries' = tries,
         phase = "failed" => phase' = "failed"
  PROVE  ReportInv'
<1>1. Tale' /\ Filed'
  BY TaleStays, FiledStays DEF ReportInv
<1>2. tries \in Nat /\ Len(record) \in Nat /\ skipped \in Nat
  BY ToldSpan DEF Counted, ReportInv, Tally, Tale
<1>3. Tally'
  BY <1>2 DEF ReportInv, Tally
<1>4. Listed'
  <2>1. Len(results) \in Nat
    BY DEF ReportInv, Listed
  <2>2. results' \in Seq(Range(results'))
    BY DEF ReportInv, Listed
  <2>3. ~late' /\ scheme'.driver = "lab" =>
          tries' = IF phase' = "chosen" THEN Len(results') + 1 ELSE Len(results')
    BY <1>2, <2>1 DEF ReportInv, Listed
  <2>4. ~late' /\ scheme'.driver = "lab" =>
          /\ \E p : Carried(record', results', p)
          /\ Cardinality({j \in DOMAIN results' : results'[j].item = "no_data"}) = skipped'
          /\ OkOf(results') \in Seq(Range(OkOf(results')))
          /\ Len(OkOf(results')) = Len(record') /\ DOMAIN OkOf(results') = DOMAIN record'
          /\ \A i \in DOMAIN record' : Same(record'[i], OkOf(results')[i])
    BY DEF ReportInv, Listed
  <2>5. QED
    BY <2>2, <2>3, <2>4 DEF Listed
<1>5. QED
  BY <1>1, <1>3, <1>4 DEF ReportInv

\* The steps that record a cycle, whether its file is written or not
LEMMA EndReport ==
  ASSUME Counted, Aimed, ReportInv, phase = "chosen", NEW after, Ends(after),
         after # "save" => late' /\ (phase' = "idle" => scheme.driver = "lab"),
         after = "save" => UNCHANGED late /\ phase' = "idle",
         phase' \in {"idle", "failed"}, UNCHANGED <<scheme, tries, skipped>>
  PROVE  ReportInv'
<1>1. Tale /\ Tally /\ Filed /\ Listed
  BY DEF ReportInv
<1>2. PICK e \in scheme.ends, g \in RegimesAt(now.date, now.seed) : \E r \in Records(e, g) :
        /\ Ended(r)
        /\ sight' \in {sight, sight \cup {<<now.date, now.seed, g>>}}
        /\ files' = IF after = "save" THEN Append(files, record'[Len(record) + 1]) ELSE files
        /\ Reported(IF after = "save" THEN record'[Len(record) + 1] ELSE Blank("error", Len(record) + 1))
  BY <1>1, EndsTells
<1>3. PICK r \in Records(e, g) :
        /\ Ended(r)
        /\ sight' \in {sight, sight \cup {<<now.date, now.seed, g>>}}
        /\ files' = IF after = "save" THEN Append(files, record'[Len(record) + 1]) ELSE files
        /\ Reported(IF after = "save" THEN record'[Len(record) + 1] ELSE Blank("error", Len(record) + 1))
  BY <1>2
<1>4. Cycled(r, Len(record) + 1)
  BY <1>1, RecordsTold
<1>5. Tale'
  BY <1>1, <1>3, TaleNext
<1>6. Tally'
  <2>1. Len(record') = Len(record) + 1 /\ Len(record) \in Nat /\ skipped \in Nat
    BY <1>1, <1>3, ToldSpan DEF Ended, Tale, Tally
  <2>2. Len(record) + skipped + 1 <= tries /\ tries \in Nat
    BY <1>1 DEF Tally, Counted
  <2>3. scheme.driver # "lab" => tries = Len(record) + skipped + 1
    BY <1>1 DEF Tally
  <2>4. phase' # "chosen"
    OBVIOUS
  <2>5. QED
    BY <2>1, <2>2, <2>3, <2>4 DEF Tally
<1>7. Filed' /\ Listed'
  <2>1. CASE after = "save"
    <3>1. files' = Append(files, record'[Len(record) + 1]) /\ Reported(record'[Len(record) + 1])
      BY <1>3, <2>1
    <3>2. Filed'
      BY <1>1, <1>3, <2>1, <3>1, FiledNext
    <3>3. Listed'
      BY <1>1, <1>3, <1>4, <2>1, <3>1, RecordListed
    <3>4. QED
      BY <3>2, <3>3
  <2>2. CASE after # "save"
    <3>1. results' = IF scheme.driver = "lab" THEN Append(results, Blank("error", Len(record) + 1)) ELSE results
      BY <1>3, <2>2 DEF Reported
    <3>2. results \in Seq(Range(results))
      BY <1>1 DEF Listed
    <3>3. results' \in Seq(Range(results'))
      BY <3>1, <3>2, Appended
    <3>4. QED
      BY <2>2, <3>3 DEF Filed, Listed
  <2>3. QED
    BY <2>1, <2>2
<1>8. QED
  BY <1>5, <1>6, <1>7 DEF ReportInv

\* The steps that end a cycle without a record
LEMMA BlankReport ==
  ASSUME Counted, ReportInv, phase = "chosen", phase' \in {"idle", "failed"},
         phase' = "failed" => scheme.driver # "lab",
         NEW x \in {"no_data", "error"}, NEW k \in Nat, Reported(Blank(x, k)),
         x = "error" => (phase' = "idle" => scheme.driver = "lab"),
         x = "no_data" => phase' = "idle",
         skipped' = IF x = "no_data" THEN skipped + 1 ELSE skipped,
         UNCHANGED <<scheme, tries, record, files, sight, late>>
  PROVE  ReportInv'
<1>1. Tale /\ Tally /\ Filed /\ Listed
  BY DEF ReportInv
<1>2. phase' # "chosen"
  OBVIOUS
<1>3. Listed'
  BY <1>1, <1>2, BlankListed
<1>4. Tale'
  <2>1. \A v \in sight' : v[3] \in Range(Targets)
    BY <1>1 DEF Tale
  <2>2. QED
    BY <1>1, <2>1, TaleStays
<1>5. Filed'
  BY <1>1, FiledStays
<1>6. Tally'
  <2>1. Len(record) \in Nat /\ skipped \in Nat
    BY <1>1, ToldSpan DEF Tale, Tally
  <2>2. Len(record) + skipped + 1 <= tries /\ tries \in Nat
    BY <1>1 DEF Tally, Counted
  <2>3. scheme.driver # "lab" => tries = Len(record) + skipped + 1
    BY <1>1 DEF Tally
  <2>4. scheme.driver # "lab" /\ phase' # "failed" => x = "no_data"
    OBVIOUS
  <2>5. QED
    BY <1>2, <2>1, <2>2, <2>3, <2>4 DEF Tally
<1>7. QED
  BY <1>3, <1>4, <1>5, <1>6 DEF ReportInv

\* A draw may see a regime more, of those that are targets.
LEMMA DrawSees ==
  ASSUME Counted, Tale, Draw
  PROVE  phase' # "chosen" /\ \A v \in sight' : v[3] \in Range(Targets)
<1> DEFINE k == drawn[1] + 1
<1>1. PICK d \in Dates : \E g \in RegimesAt(d, k) :
        LET fresh == d \notin drawn[2]
            hit   == fresh /\ g = Target
            found == IF hit THEN Append(pinned, <<d, k>>) ELSE pinned
            over  == \/ k = MaxDraws
                     \/ hit /\ Len(found) >= scheme.rounds /\ k >= MinDraws
        IN  /\ sight' = IF fresh THEN sight \cup {<<d, k, g>>} ELSE sight
            /\ phase' = CASE ~over -> "probing"
                          [] over /\ Len(found) < scheme.rounds -> "failed"
                          [] over /\ Len(found) >= scheme.rounds -> "idle"
  BY Zenon DEF Draw
<1>2. PICK g \in RegimesAt(d, k) :
        LET fresh == d \notin drawn[2]
            hit   == fresh /\ g = Target
            found == IF hit THEN Append(pinned, <<d, k>>) ELSE pinned
            over  == \/ k = MaxDraws
                     \/ hit /\ Len(found) >= scheme.rounds /\ k >= MinDraws
        IN  /\ sight' = IF fresh THEN sight \cup {<<d, k, g>>} ELSE sight
            /\ phase' = CASE ~over -> "probing"
                          [] over /\ Len(found) < scheme.rounds -> "failed"
                          [] over /\ Len(found) >= scheme.rounds -> "idle"
  BY <1>1, Zenon
<1> DEFINE hit   == d \notin drawn[2] /\ g = Target
           found == IF hit THEN Append(pinned, <<d, k>>) ELSE pinned
           over  == k = MaxDraws \/ (hit /\ Len(found) >= scheme.rounds /\ k >= MinDraws)
<1>3. /\ sight' \in {sight, sight \cup {<<d, k, g>>}}
      /\ phase' = CASE ~over -> "probing"
                    [] over /\ Len(found) < scheme.rounds -> "failed"
                    [] over /\ Len(found) >= scheme.rounds -> "idle"
  BY <1>2
<1>4. Len(found) \in Nat /\ scheme.rounds \in Nat
  <2>1. drawn[1] \in Nat /\ pinned \in Seq(Dates \X Nat)
    BY DEF Counted
  <2>2. <<d, k>> \in Dates \X Nat
    BY <2>1
  <2>3. Append(pinned, <<d, k>>) \in Seq(Dates \X Nat)
    BY <2>1, <2>2
  <2>4. scheme.rounds \in 1 .. MaxCycles /\ MaxCycles \in Nat
    BY ExperimentConstants DEF Counted
  <2>5. QED
    BY <2>1, <2>3, <2>4
<1> HIDE DEF over, found
<1>5. phase' # "chosen"
  BY <1>3, <1>4
<1>6. g \in Range(Targets)
  BY TargetsSeen
<1>7. \A v \in sight : v[3] \in Range(Targets)
  BY DEF Tale
<1>8. \A v \in sight' : v[3] \in Range(Targets)
  BY <1>3, <1>6, <1>7
<1>9. QED
  BY <1>5, <1>8

\* One round more, told under the next number or under the one told last
LEMMA NumbersNext ==
  ASSUME NEW s, s \in Seq(Range(s)), NEW n \in Nat, Numbers(s, n), NEW b, NEW m \in Nat,
         \/ b.id = n + 1 /\ m \in {n, n + 1}
         \/ s # <<>> /\ b.id = s[Len(s)].id /\ m = n
  PROVE  Numbers(Append(s, b), m)
<1> DEFINE l == Len(s) + 1
           t == Append(s, b)
<1>1. /\ l \in Nat \ {0} /\ DOMAIN s = 1 .. l - 1 /\ Len(t) = l /\ DOMAIN t = 1 .. l
      /\ t[l] = b /\ \A j \in 1 .. l - 1 : t[j] = s[j]
  BY Appended
<1>2. 1 .. l = 1 .. l - 1 \cup {l} /\ l \notin 1 .. l - 1 /\ (s # <<>> => l - 1 \in 1 .. l - 1 /\ l - 1 = Len(s))
  BY <1>1
<1> HIDE DEF l, t
<1>3. \A i \in 1 .. l - 1 : s[i].id \in 1 .. n + 1
  BY <1>1 DEF Numbers
<1>4. /\ b.id \in 1 .. n + 1 /\ b.id >= m /\ m \in {n, n + 1}
      /\ m = n + 1 => b.id = n + 1
  <2>1. CASE b.id = n + 1 /\ m \in {n, n + 1}
    BY <2>1
  <2>2. CASE s # <<>> /\ b.id = s[Len(s)].id /\ m = n
    <3>1. Len(s) \in 1 .. l - 1 /\ s[Len(s)].id >= n
      BY <1>2, <2>2 DEF Numbers
    <3>2. b.id \in 1 .. n + 1 /\ b.id >= n
      BY <1>3, <2>2, <3>1
    <3>3. QED
      BY <2>2, <3>2
  <2>3. QED
    BY <2>1, <2>2
<1>5. \A i \in 1 .. l - 1 : s[i].id <= b.id
  <2> SUFFICES ASSUME NEW i \in 1 .. l - 1 PROVE s[i].id <= b.id
    OBVIOUS
  <2>1. s[i].id \in 1 .. n + 1
    BY <1>3
  <2>2. CASE b.id = n + 1
    BY <2>1, <2>2
  <2>3. CASE s # <<>> /\ b.id = s[Len(s)].id
    <3>1. l - 1 \in DOMAIN s /\ i \in DOMAIN s /\ i <= l - 1 /\ l - 1 = Len(s)
      BY <1>1, <1>2, <2>3
    <3>2. QED
      BY <2>3, <3>1 DEF Numbers
  <2>4. QED
    BY <2>2, <2>3
<1>6. \A i \in 1 .. l : t[i].id \in 1 .. m + 1
  <2>1. \A x \in 1 .. n + 1 : x \in 1 .. m + 1
    BY <1>4
  <2>2. QED
    BY <1>1, <1>2, <1>3, <1>4, <2>1
<1>7. \A i, j \in 1 .. l : i <= j => t[i].id <= t[j].id
  <2> SUFFICES ASSUME NEW i \in 1 .. l, NEW j \in 1 .. l, i <= j PROVE t[i].id <= t[j].id
    OBVIOUS
  <2>1. CASE j = l /\ i # l
    BY <1>1, <1>2, <1>5, <2>1
  <2>2. CASE j = l /\ i = l
    BY <1>1, <1>4, <2>2
  <2>3. CASE j # l
    <3>1. i # l
      BY <1>1, <2>3
    <3>2. i \in 1 .. l - 1 /\ j \in 1 .. l - 1
      BY <1>2, <2>3, <3>1
    <3>3. s[i].id <= s[j].id
      BY <1>1, <3>2 DEF Numbers
    <3>4. QED
      BY <1>1, <3>2, <3>3
  <2>4. QED
    BY <2>1, <2>2, <2>3
<1>8. \A k \in 1 .. m : \E i \in 1 .. l : t[i].id = k
  <2> SUFFICES ASSUME NEW k \in 1 .. m PROVE \E i \in 1 .. l : t[i].id = k
    OBVIOUS
  <2>1. CASE k \in 1 .. n
    <3>1. PICK i \in 1 .. l - 1 : s[i].id = k
      BY <1>1, <2>1 DEF Numbers
    <3>2. QED
      BY <1>1, <1>2, <3>1
  <2>2. CASE k \notin 1 .. n
    <3>1. k = n + 1 /\ m = n + 1
      BY <1>4, <2>2
    <3>2. QED
      BY <1>1, <1>2, <1>4, <3>1
  <2>3. QED
    BY <2>1, <2>2
<1>9. t[Len(t)].id >= m
  BY <1>1, <1>4
<1>10. QED
  BY <1>1, <1>6, <1>7, <1>8, <1>9 DEF Numbers, t

\* The number a cycle that raised is told under is a number.
LEMMA NumberToldIs ==
  ASSUME Tale, Numbered, results \in Seq(Range(results)), NEW k \in NumberTold
  PROVE  /\ k \in Nat /\ NextId \in Nat /\ NextId = Len(record) + 1
         /\ k = NextId \/ (results # <<>> /\ k = results[Len(results)].id)
<1>1. Len(record) \in Nat
  BY ToldSpan DEF Tale
<1>2. NextId = Len(record) + 1 /\ NextId \in Nat
  BY <1>1 DEF NextId
<1>3. k = NextId \/ (results # <<>> /\ k = results[Len(results)].id)
  BY DEF NumberTold, Last
<1>4. ASSUME results # <<>>, k = results[Len(results)].id PROVE k \in Nat
  <2>1. Numbers(results, Len(record))
    BY <1>4 DEF Numbered
  <2>2. Len(results) \in DOMAIN results
    BY <1>4
  <2>3. k \in 1 .. Len(record) + 1
    BY <1>4, <2>1, <2>2 DEF Numbers
  <2>4. QED
    BY <1>1, <2>3
<1>5. QED
  BY <1>2, <1>3, <1>4

\* Every step of an experiment keeps what is told of it.
LEMMA ReportStep ==
  ASSUME ExperimentInv, ReportInv, Numbered, [ExperimentNext]_experimentVars
  PROVE  ReportInv'
<1>1. Counted /\ Aimed /\ tries \in Nat
  BY DEF ExperimentInv, Counted
<1>2. \A v \in sight : v[3] \in Range(Targets)
  BY DEF ReportInv, Tale
<1>3. ASSUME Draw PROVE ReportInv'
  <2>1. /\ UNCHANGED <<scheme, tries, skipped, record, files, results, late>> /\ phase = "probing"
    BY <1>3 DEF Draw
  <2>2. phase' # "chosen" /\ \A v \in sight' : v[3] \in Range(Targets)
    BY <1>1, <1>3, DrawSees DEF ReportInv
  <2>3. QED
    BY <1>1, <2>1, <2>2, QuietReport
<1>4. ASSUME Begin PROVE ReportInv'
  <2>1. /\ UNCHANGED <<scheme, skipped, record, files, results, late, sight>>
        /\ phase = "idle" /\ phase' = "chosen" /\ tries' = tries + 1
    BY <1>4 DEF Begin
  <2>2. QED
    BY <1>1, <1>2, <2>1, QuietReport
<1>5. ASSUME Skipped PROVE ReportInv'
  <2>1. /\ UNCHANGED <<scheme, tries, record, files, sight, late>> /\ skipped' = skipped + 1
        /\ phase = "chosen" /\ phase' = "idle" /\ Reported(Blank("no_data", NextId))
    BY <1>5 DEF Skipped, choice
  <2>2. NextId \in Nat
    <3>1. Len(record) \in Nat
      BY ToldSpan DEF ReportInv, Tale
    <3>2. QED
      BY <3>1 DEF NextId
  <2>3. QED
    BY <1>1, <2>1, <2>2, BlankReport
<1>6. ASSUME Raised PROVE ReportInv'
  <2>1. /\ UNCHANGED <<scheme, tries, skipped, record, files, sight, late>>
        /\ phase = "chosen" /\ phase' = (IF scheme.driver = "lab" THEN "idle" ELSE "failed")
    BY <1>6 DEF Raised, Halt, choice
  <2>2. PICK k \in NumberTold : Reported(Blank("error", k))
    BY <1>6 DEF Raised
  <2>3. k \in Nat
    BY <2>2, NumberToldIs DEF ReportInv, Listed
  <2>4. QED
    BY <1>1, <2>1, <2>2, <2>3, BlankReport
<1>7. ASSUME Complete PROVE ReportInv'
  <2>1. /\ UNCHANGED <<scheme, tries, skipped, late>>
        /\ phase = "chosen" /\ phase' = "idle" /\ Ends("save")
    BY <1>7 DEF Complete
  <2>2. QED
    BY <1>1, <2>1, EndReport
<1>8. ASSUME RaisedLate PROVE ReportInv'
  <2>1. /\ UNCHANGED <<scheme, tries, skipped>> /\ late' = TRUE
        /\ phase = "chosen" /\ phase' = IF scheme.driver = "lab" THEN "idle" ELSE "failed"
    BY <1>8 DEF RaisedLate, Halt
  <2>2. PICK after \in {"append", "judge"} : Ends(after)
    BY <1>8 DEF RaisedLate
  <2>3. after # "save" /\ phase' \in {"idle", "failed"} /\ (phase' = "idle" => scheme.driver = "lab")
    BY <2>1, <2>2
  <2>4. QED
    BY <1>1, <2>1, <2>2, <2>3, EndReport
<1>9. ASSUME FreezeModel PROVE ReportInv'
  <2>1. /\ UNCHANGED <<scheme, tries, skipped, record, files, results, late, sight>>
        /\ phase = "idle" /\ phase' = "frozen"
    BY <1>9 DEF FreezeModel, choice
  <2>2. QED
    BY <1>1, <1>2, <2>1, QuietReport
<1>10. ASSUME Conclude PROVE ReportInv'
  <2>1. /\ UNCHANGED <<scheme, tries, skipped, record, files, results, late, sight>>
        /\ phase = "idle" /\ phase' = "done"
    BY <1>10 DEF Conclude
  <2>2. QED
    BY <1>1, <1>2, <2>1, QuietReport
<1>11. ASSUME FollowUp PROVE ReportInv'
  <2>1. /\ UNCHANGED <<scheme, tries, skipped, record, files, results, late, sight>>
        /\ phase = "done" /\ phase' = "idle"
    BY <1>11 DEF FollowUp
  <2>2. QED
    BY <1>1, <1>2, <2>1, QuietReport
<1>12. ASSUME UNCHANGED experimentVars PROVE ReportInv'
  <2>1. UNCHANGED <<scheme, phase, tries, skipped, record, files, results, late, sight>>
    BY <1>12 DEF experimentVars, choice
  <2>2. QED
    BY <1>1, <1>2, <2>1, QuietReport
<1>13. QED
  BY <1>3, <1>4, <1>5, <1>6, <1>7, <1>8, <1>9, <1>10, <1>11, <1>12 DEF ExperimentNext

\* The numbers the rounds of the lab are told under stay in order.
LEMMA NumberStep ==
  ASSUME ExperimentInv, ReportInv, Numbered, [ExperimentNext]_experimentVars
  PROVE  Numbered'
<1> DEFINE n == Len(record)
<1>1. /\ Counted /\ Aimed /\ Tale /\ n \in Nat /\ results \in Seq(Range(results))
      /\ scheme.driver = "lab" => Numbers(results, n)
  BY ToldSpan DEF ExperimentInv, ReportInv, Tale, Listed, Numbered
<1>2. ASSUME UNCHANGED <<scheme, record, results>> PROVE Numbered'
  BY <1>2 DEF Numbered, Numbers
<1>3. ASSUME NEW b, NEW m \in Nat, m = Len(record'), Reported(b), UNCHANGED scheme,
             scheme.driver = "lab" =>
               \/ b.id = n + 1 /\ m \in {n, n + 1}
               \/ results # <<>> /\ b.id = results[Len(results)].id /\ m = n
      PROVE  Numbered'
  <2>1. CASE scheme.driver = "lab"
    <3>1. results' = Append(results, b)
      BY <1>3, <2>1 DEF Reported
    <3>2. Numbers(Append(results, b), m)
      BY <1>1, <1>3, <2>1, NumbersNext
    <3>3. QED
      BY <1>3, <2>1, <3>1, <3>2 DEF Numbered
  <2>2. CASE scheme.driver # "lab"
    BY <1>3, <2>2 DEF Numbered, Reported
  <2>3. QED
    BY <2>1, <2>2
<1>4. ASSUME Skipped PROVE Numbered'
  <2>1. Reported(Blank("no_data", NextId)) /\ UNCHANGED <<scheme, record>>
    BY <1>4 DEF Skipped
  <2>2. Blank("no_data", NextId).id = n + 1
    BY DEF Blank, NextId
  <2>3. QED
    BY <1>1, <1>3, <2>1, <2>2
<1>5. ASSUME Raised PROVE Numbered'
  <2>1. PICK k \in NumberTold : Reported(Blank("error", k))
    BY <1>5 DEF Raised
  <2>2. UNCHANGED <<scheme, record>>
    BY <1>5 DEF Raised
  <2>3. k = n + 1 \/ (results # <<>> /\ k = results[Len(results)].id)
    BY <1>1, NumberToldIs
  <2>4. Blank("error", k).id = k
    BY DEF Blank
  <2>5. QED
    BY <1>1, <1>3, <2>1, <2>2, <2>3, <2>4
<1>6. ASSUME NEW after, Ends(after), phase = "chosen", UNCHANGED scheme PROVE Numbered'
  <2>1. PICK e \in scheme.ends, g \in RegimesAt(now.date, now.seed) : \E r \in Records(e, g) :
          /\ Ended(r)
          /\ Reported(IF after = "save" THEN record'[n + 1] ELSE Blank("error", n + 1))
    BY <1>1, <1>6, EndsTells
  <2>2. PICK r \in Records(e, g) :
          /\ Ended(r)
          /\ Reported(IF after = "save" THEN record'[n + 1] ELSE Blank("error", n + 1))
    BY <2>1
  <2>3. Len(record') = n + 1 /\ Same(r, record'[n + 1])
    BY <2>2 DEF Ended
  <2>4. Cycled(r, n + 1)
    BY <1>1, <1>6, RecordsTold
  <2>5. record'[n + 1].id = n + 1 /\ Blank("error", n + 1).id = n + 1
    BY <2>3, <2>4, SameFields DEF Cycled, Blank
  <2> DEFINE b == IF after = "save" THEN record'[n + 1] ELSE Blank("error", n + 1)
  <2>6. b.id = n + 1 /\ Reported(b)
    BY <2>2, <2>5
  <2> HIDE DEF b
  <2>7. QED
    BY <1>1, <1>3, <1>6, <2>3, <2>6
<1>7. CASE Complete
  BY <1>6, <1>7 DEF Complete
<1>8. CASE RaisedLate
  <2>1. PICK after \in {"append", "judge"} : Ends(after)
    BY <1>8 DEF RaisedLate
  <2>2. phase = "chosen" /\ UNCHANGED scheme
    BY <1>8 DEF RaisedLate
  <2>3. QED
    BY <1>6, <2>1, <2>2
<1>9. CASE Draw
  BY <1>2, <1>9 DEF Draw
<1>10. CASE Begin
  BY <1>2, <1>10 DEF Begin
<1>11. CASE FreezeModel \/ Conclude \/ FollowUp
  BY <1>2, <1>11 DEF FreezeModel, Conclude, FollowUp
<1>12. CASE UNCHANGED experimentVars
  BY <1>2, <1>12 DEF experimentVars
<1>13. QED
  BY <1>4, <1>5, <1>7, <1>8, <1>9, <1>10, <1>11, <1>12 DEF ExperimentNext

\* Whatever the experiment, its records and its files, the report of a finished run says what
\* happened, and its dashboards, the summaries of its files, the calibration's summary and the
\* lab's evaluation say the same.
THEOREM ReportsAlwaysAgree == ExperimentSpec => []ReportsAgree
<1>1. ExperimentInit => ReportInv /\ Numbered
  <2>1. ASSUME ExperimentInit PROVE Numbered
    BY <2>1 DEF ExperimentInit, Numbered, Numbers
  <2>2. QED
    BY <2>1, InitReport
<1>2. ExperimentInv /\ ReportInv /\ Numbered /\ [ExperimentNext]_experimentVars => ReportInv' /\ Numbered'
  BY ReportStep, NumberStep
<1>3. ExperimentInv /\ ReportInv /\ Numbered => ReportsAgree
  <2>1. ExperimentInv => Counted
    BY DEF ExperimentInv
  <2>2. QED
    BY <2>1, ReportTold
<1>4. QED
  BY <1>1, <1>2, <1>3, ExperimentInvHolds, PTL DEF ExperimentSpec
=============================================================================
