--------------------------- MODULE DecisionProofs ---------------------------
(***************************************************************************)
(* The configuration services, for any keys, values and patches and any    *)
(* number of steps that raise; the agent loop, for any requests, any calls *)
(* and any window of the session; the summaries of the market data store,  *)
(* for any threads, any stages of a download and any ages.                 *)
(***************************************************************************)
EXTENDS ConfigStore, Brain, MarketData, SequenceTheorems, TLAPS

---------------------------------------------------------------------------
(* The configuration services, when requests do not overlap *)

\* The files a service writes.
Written(svc) == IF svc = "evolution" THEN {"override"} ELSE {"public", "local"}
Todo(left) == CASE left = <<"override">> -> {"override"}
                [] left = <<"public", "local">> -> {"public", "local"}
                [] OTHER -> {"local"}

Fits(x, f) == x = Missing \/ DOMAIN x \subseteq Own(f)

\* The file x under the name f has the values of the patches st, but for the empty ones
\* that the public file drops.
Acks(st, x, f) == \A k \in DOMAIN st \intersect Own(f) :
  /\ x # Missing
  /\ \/ f = "public" /\ st[k] = Empty
     \/ k \in DOMAIN x /\ x[k] = st[k]

Found(x) == IF x = Missing THEN Nothing ELSE x
Plane(F) == Over(Over([k \in Public \union Secret |-> Preset], Found(F["public"])), Found(F["local"]))

\* What a request makes of the settings it found.
Merge(svc, F, patch) ==
  IF svc = "evolution" THEN Over(Found(F["override"]), patch) ELSE Over(Plane(F), patch)

Patchable(svc) == IF svc = "evolution" THEN Training ELSE Public \union Secret

Shaped(j) ==
  /\ j = [pc |-> j.pc, svc |-> j.svc, patch |-> j.patch, merged |-> j.merged, left |-> j.left,
          mine |-> j.mine, before |-> j.before]
  /\ \/ j.svc = "evolution" /\ j.left = <<"override">>
     \/ j.svc = "control" /\ j.left \in {<<"public", "local">>, <<"local">>}

\* The files of S that were there have a copy.
Aside(j, S) == \A f \in S :
  /\ f \in j.mine <=> j.before[f] # Missing
  /\ f \in j.mine => copy[f] = j.before[f]

Back(j, S) == \A f \in S : j.before[f] # Missing => file[f] = j.before[f]

\* The request in service: what it found, what it will write, and how far it is.
Basis(j) ==
  /\ \A f \in Files : Fits(j.before[f], f)
  /\ DOMAIN j.patch \subseteq Patchable(j.svc)
  /\ j.merged = Merge(j.svc, j.before, j.patch)
  /\ \A f \in Files \ Written(j.svc) : file[f] = j.before[f]

Progress(j) ==
  /\ j.pc \in {"copy", "open", "fill", "record", "restore"} \union Cleaning
  /\ j.pc \notin {"clean", "cleanspoilt"} => \A f \in Files : Acks(stored, j.before[f], f)
  /\ j.pc = "copy" => /\ file = j.before
                      /\ j.mine \intersect Todo(j.left) = {}
                      /\ Aside(j, Written(j.svc) \ Todo(j.left))
  /\ j.pc \in {"open", "fill", "record", "restore"} => Aside(j, Written(j.svc))
  /\ j.pc \in {"open", "fill"} =>
       \A f \in Written(j.svc) \ Todo(j.left) : file[f] = Kept(f, j.merged)
  /\ j.pc = "record" => \A f \in Written(j.svc) : file[f] = Kept(f, j.merged)
  /\ j.pc \in {"clean", "cleanspoilt"} => \A f \in Files : Acks(stored, file[f], f)
  /\ j.pc = "restore" => Back(j, Written(j.svc) \ Todo(j.left))
  /\ j.pc = "cleanfail" => Back(j, Written(j.svc))

Job(w) == Shaped(request[w]) /\ Basis(request[w]) /\ Progress(request[w])

Base ==
  /\ file = [f \in Files |-> file[f]] /\ copy = [f \in Files |-> copy[f]]
  /\ request = [w \in Workers |-> request[w]]
  /\ \A f \in Files : Fits(file[f], f)
  /\ DOMAIN stored \subseteq Keys

Alone == \A v, w \in Workers : ~ Resting(v) /\ ~ Resting(w) => v = w

ConfigInv ==
  /\ Base /\ Alone
  /\ \A w \in Workers : ~ Resting(w) => Job(w)
  /\ Quiet => \A f \in Files : Acks(stored, file[f], f)

LEMMA Names ==
  /\ Files = {"override", "public", "local"}
  /\ Own("override") = Training /\ Own("public") = Public /\ Own("local") = Secret
  /\ Written("evolution") = {"override"} /\ Written("control") = {"public", "local"}
  /\ FilesOf("evolution") = <<"override">> /\ FilesOf("control") = <<"public", "local">>
  /\ Patchable("evolution") = Training /\ Patchable("control") = Public \union Secret
  BY DEF Files, Own, Written, FilesOf, Patchable

\* The three lists of files to do.
LEMMA Lists ==
  /\ Len(<<"override">>) = 1 /\ Len(<<"local">>) = 1 /\ Len(<<"public", "local">>) = 2
  /\ Head(<<"override">>) = "override" /\ Head(<<"local">>) = "local"
  /\ Head(<<"public", "local">>) = "public" /\ Tail(<<"public", "local">>) = <<"local">>
  /\ Todo(<<"override">>) = {"override"} /\ Todo(<<"local">>) = {"local"}
  /\ Todo(<<"public", "local">>) = {"public", "local"}
<1>1. <<"override">> # <<"local">> /\ <<"public", "local">> # <<"local">>
      /\ <<"override">> # <<"public", "local">>
  OBVIOUS
<1>2. Tail(<<"public", "local">>) = <<"local">>
  OBVIOUS
<1> QED
  BY <1>1, <1>2 DEF Todo

\* A file after the head of the list, and the list after it.
LEMMA HeadOfLeft ==
  ASSUME NEW j, Shaped(j)
  PROVE  /\ Head(j.left) \in Written(j.svc) /\ Head(j.left) \in Todo(j.left)
         /\ Written(j.svc) \subseteq Files /\ Todo(j.left) \subseteq Written(j.svc)
         /\ Todo(FilesOf(j.svc)) = Written(j.svc)
         /\ Len(j.left) = 1 => Todo(j.left) = {Head(j.left)}
         /\ Len(j.left) # 1 => Todo(Tail(j.left)) = Todo(j.left) \ {Head(j.left)}
<1>1. CASE j.svc = "evolution" /\ j.left = <<"override">>
  BY <1>1, Names, Lists
<1>2. CASE j.svc = "control" /\ j.left = <<"public", "local">>
  BY <1>2, Names, Lists
<1>3. CASE j.svc = "control" /\ j.left = <<"local">>
  BY <1>3, Names, Lists
<1> QED
  BY <1>1, <1>2, <1>3 DEF Shaped

LEMMA RangeOfLeft ==
  ASSUME NEW j, Shaped(j)
  PROVE  Range(j.left) = Todo(j.left)
<1>1. Range(<<"override">>) = {"override"} /\ Range(<<"local">>) = {"local"}
      /\ Range(<<"public", "local">>) = {"public", "local"}
  BY DEF Range
<1> QED
  BY <1>1, Lists DEF Shaped

\* A request whose steps keep what it is has its shape on the way.
LEMMA OnwardShape ==
  ASSUME NEW j, Shaped(j), NEW next
  PROVE  LET n == Onward(j, next) IN
         /\ Shaped(n) /\ n.svc = j.svc /\ n.patch = j.patch /\ n.merged = j.merged
         /\ n.mine = j.mine /\ n.before = j.before
         /\ Len(j.left) = 1 => n.pc = next /\ n.left = FilesOf(j.svc)
         /\ Len(j.left) # 1 => n.pc = j.pc /\ n.left = Tail(j.left)
<1> DEFINE p == IF Len(j.left) = 1 THEN next ELSE j.pc
           l == IF Len(j.left) = 1 THEN FilesOf(j.svc) ELSE Tail(j.left)
           n == [pc |-> p, svc |-> j.svc, patch |-> j.patch, merged |-> j.merged, left |-> l,
                 mine |-> j.mine, before |-> j.before]
<1>1. \/ j.svc = "evolution" /\ l = <<"override">>
      \/ j.svc = "control" /\ l \in {<<"public", "local">>, <<"local">>}
  BY Names, Lists DEF Shaped
<1>2. Onward(j, next) = [j EXCEPT !.pc = p, !.left = l]
  BY DEF Onward
<1> HIDE DEF p, l
<1>3. Onward(j, next) = n
  BY <1>2 DEF Shaped
<1>4. Shaped(n)
  BY <1>1 DEF Shaped
<1> QED
  BY <1>3, <1>4 DEF p, l

\* The keys of a merge, and whose value each has.
LEMMA OverDomain == \A a, b : DOMAIN Over(a, b) = DOMAIN a \union DOMAIN b
  BY DEF Over

LEMMA OverTop == \A a, b : \A k \in DOMAIN b : Over(a, b)[k] = b[k]
  BY DEF Over

LEMMA OverBase == \A a, b : \A k \in DOMAIN a \ DOMAIN b : Over(a, b)[k] = a[k]
  BY DEF Over

\* What a file keeps.
LEMMA KeptDomain ==
  \A f \in Files : \A m : DOMAIN Kept(f, m) =
    {k \in Own(f) \intersect DOMAIN m : f # "public" \/ m[k] # Empty}
  BY DEF Kept, Own, Restrict

LEMMA KeptValue == \A f \in Files : \A m : \A k \in DOMAIN Kept(f, m) : Kept(f, m)[k] = m[k]
  BY DEF Kept, Own, Restrict

LEMMA KeptThere == \A f \in Files : \A m : Kept(f, m) # Missing
<1> SUFFICES ASSUME NEW f \in Files, NEW m PROVE Kept(f, m) # Missing
  OBVIOUS
<1>1. DOMAIN Kept(f, m) \subseteq Own(f)
  BY KeptDomain
<1>2. DOMAIN Missing = {"absent"}
  BY DEF Missing
<1>3. "absent" \notin Own(f)
  BY ConfigAssumption, Names DEF Own
<1> QED
  BY <1>1, <1>2, <1>3

LEMMA FoundIs ==
  ASSUME NEW x, NEW f \in Files, Fits(x, f)
  PROVE  DOMAIN Found(x) \subseteq Own(f) /\ (x # Missing => Found(x) = x)
  BY DEF Fits, Found, Nothing

\* In the settings of the control plane each key has the value of its own file.
LEMMA PlaneIs ==
  ASSUME NEW F, \A f \in Files : Fits(F[f], f)
  PROVE  /\ DOMAIN Plane(F) = Public \union Secret
         /\ \A f \in {"public", "local"} : F[f] # Missing =>
              \A k \in DOMAIN F[f] : Plane(F)[k] = F[f][k]
<1> DEFINE D == [k \in Public \union Secret |-> Preset]
           P == Found(F["public"])
           L == Found(F["local"])
           DP == Over(D, P)
<1>1. DOMAIN P \subseteq Public /\ DOMAIN L \subseteq Secret
  BY FoundIs, Names
<1>2. (F["public"] # Missing => P = F["public"]) /\ (F["local"] # Missing => L = F["local"])
  BY FoundIs, Names
<1>3. DOMAIN D = Public \union Secret
  OBVIOUS
<1>4. Plane(F) = Over(DP, L)
  BY DEF Plane
<1> HIDE DEF D, P, L
<1>5. DOMAIN DP = DOMAIN D \union DOMAIN P
  BY OverDomain
<1>6. DOMAIN DP = Public \union Secret
  BY <1>1, <1>3, <1>5
<1>7. \A k \in DOMAIN P : DP[k] = P[k]
  BY OverTop
<1> HIDE DEF DP
<1>8. DOMAIN Plane(F) = DOMAIN DP \union DOMAIN L
  BY <1>4, OverDomain
<1>9. DOMAIN Plane(F) = Public \union Secret
  BY <1>1, <1>8, <1>6
<1>10. \A k \in DOMAIN L : Plane(F)[k] = L[k]
  BY <1>4, OverTop
<1>11. \A k \in DOMAIN P : k \in DOMAIN DP \ DOMAIN L
  BY <1>1, <1>6, ConfigAssumption
<1>12. \A k \in DOMAIN P : Plane(F)[k] = P[k]
  BY <1>4, <1>7, <1>11, OverBase
<1> QED
  BY <1>2, <1>9, <1>10, <1>12

\* What a request writes has the acknowledged settings and its own.
LEMMA WritesAck ==
  ASSUME NEW st, NEW F, NEW svc \in {"evolution", "control"}, NEW patch,
         DOMAIN patch \subseteq Patchable(svc),
         \A f \in Files : Fits(F[f], f) /\ Acks(st, F[f], f)
  PROVE  /\ \A f \in Written(svc) : Acks(Over(st, patch), Kept(f, Merge(svc, F, patch)), f)
         /\ \A f \in Files \ Written(svc) : Acks(Over(st, patch), F[f], f)
<1> DEFINE m == Merge(svc, F, patch)
           new == Over(st, patch)
<1>1. DOMAIN new = DOMAIN st \union DOMAIN patch
  BY OverDomain
<1>2. \A k \in DOMAIN patch : new[k] = patch[k]
  BY OverTop
<1>3. \A k \in DOMAIN st \ DOMAIN patch : new[k] = st[k]
  BY OverBase
<1>4. \E b : m = Over(b, patch)
  BY DEF Merge
<1>5. DOMAIN patch \subseteq DOMAIN m
  BY <1>4, OverDomain
<1>6. \A k \in DOMAIN patch : m[k] = patch[k]
  BY <1>4, OverTop
<1>7. ASSUME NEW f \in Written(svc), F[f] # Missing, NEW k \in DOMAIN F[f], k \notin DOMAIN patch
      PROVE  k \in DOMAIN m /\ m[k] = F[f][k]
  <2>1. CASE svc = "evolution"
    <3>1. f = "override" /\ m = Over(F[f], patch)
      BY <1>7, <2>1, Names DEF Merge, Found
    <3>2. k \in DOMAIN F[f] \ DOMAIN patch
      BY <1>7
    <3>3. k \in DOMAIN Over(F[f], patch)
      BY <3>2, OverDomain
    <3>4. Over(F[f], patch)[k] = F[f][k]
      BY <3>2, OverBase
    <3> QED
      BY <3>1, <3>3, <3>4
  <2>2. CASE svc = "control"
    <3>1. f \in {"public", "local"} /\ m = Over(Plane(F), patch)
      BY <1>7, <2>2, Names DEF Merge
    <3>2. Plane(F)[k] = F[f][k]
      BY <1>7, <3>1, PlaneIs
    <3>3. k \in DOMAIN Plane(F)
      <4>1. Fits(F[f], f)
        BY <3>1, Names
      <4>2. k \in Public \union Secret
        BY <1>7, <3>1, <4>1, Names DEF Fits
      <4> QED
        BY <4>2, PlaneIs
    <3>4. k \in DOMAIN Over(Plane(F), patch)
      BY <3>3, OverDomain
    <3>5. Over(Plane(F), patch)[k] = Plane(F)[k]
      BY <1>7, <3>3, OverBase
    <3> QED
      BY <3>1, <3>2, <3>4, <3>5
  <2> QED
    BY <2>1, <2>2
<1> HIDE DEF m, new
<1>8. ASSUME NEW f \in Written(svc), NEW k \in DOMAIN new \intersect Own(f)
      PROVE  \/ f = "public" /\ new[k] = Empty
             \/ k \in DOMAIN Kept(f, m) /\ Kept(f, m)[k] = new[k]
  <2>1. f \in Files
    BY <1>8, Names DEF Written
  <2>2. CASE k \in DOMAIN patch
    <3>1. new[k] = patch[k] /\ k \in DOMAIN m /\ m[k] = patch[k]
      BY <1>2, <1>5, <1>6, <2>2
    <3>2. CASE f # "public" \/ m[k] # Empty
      <4>1. k \in DOMAIN Kept(f, m)
        BY <1>8, <2>1, <3>1, <3>2, KeptDomain
      <4> QED
        BY <3>1, <2>1, <4>1, KeptValue
    <3> QED
      BY <3>1, <3>2
  <2>3. CASE k \notin DOMAIN patch
    <3>1. k \in DOMAIN st \intersect Own(f) /\ new[k] = st[k]
      BY <1>1, <1>3, <1>8, <2>3
    <3>2. /\ F[f] # Missing
          /\ \/ f = "public" /\ st[k] = Empty
             \/ k \in DOMAIN F[f] /\ F[f][k] = st[k]
      BY <2>1, <3>1 DEF Acks
    <3>3. CASE k \in DOMAIN F[f] /\ F[f][k] = st[k]
      <4>1. k \in DOMAIN m /\ m[k] = st[k]
        BY <1>7, <2>3, <3>2, <3>3
      <4>2. CASE f # "public" \/ m[k] # Empty
        <5>1. k \in DOMAIN Kept(f, m)
          BY <1>8, <2>1, <4>1, <4>2, KeptDomain
        <5> QED
          BY <3>1, <2>1, <4>1, <5>1, KeptValue
      <4> QED
        BY <3>1, <4>1, <4>2
    <3> QED
      BY <3>1, <3>2, <3>3
  <2> QED
    BY <2>2, <2>3
<1>9. \A f \in Written(svc) : Kept(f, m) # Missing
  BY KeptThere, Names DEF Written
<1>10. ASSUME NEW f \in Files \ Written(svc)
      PROVE  Acks(new, F[f], f)
  <2>1. Own(f) \intersect DOMAIN patch = {}
    BY <1>10, ConfigAssumption, Names
  <2> QED
    BY <1>1, <1>3, <2>1 DEF Acks
<1>11. \A f \in Written(svc) : Acks(new, Kept(f, m), f)
  BY <1>8, <1>9 DEF Acks
<1> QED
  BY <1>10, <1>11 DEF m, new

\* Assignments to the fields of a request.
LEMMA SetPc ==
  ASSUME NEW j, Shaped(j), NEW p
  PROVE  LET n == [j EXCEPT !.pc = p] IN
         /\ Shaped(n) /\ n.pc = p /\ n.left = j.left /\ n.mine = j.mine
         /\ n.svc = j.svc /\ n.patch = j.patch /\ n.merged = j.merged /\ n.before = j.before
<1> DEFINE n == [pc |-> p, svc |-> j.svc, patch |-> j.patch, merged |-> j.merged, left |-> j.left,
                 mine |-> j.mine, before |-> j.before]
<1>1. [j EXCEPT !.pc = p] = n
  BY DEF Shaped
<1>2. Shaped(n)
  BY DEF Shaped
<1> QED
  BY <1>1, <1>2

LEMMA SetMine ==
  ASSUME NEW j, Shaped(j), NEW m
  PROVE  LET n == [j EXCEPT !.mine = m] IN
         /\ Shaped(n) /\ n.pc = j.pc /\ n.left = j.left /\ n.mine = m
         /\ n.svc = j.svc /\ n.patch = j.patch /\ n.merged = j.merged /\ n.before = j.before
<1> DEFINE n == [pc |-> j.pc, svc |-> j.svc, patch |-> j.patch, merged |-> j.merged, left |-> j.left,
                 mine |-> m, before |-> j.before]
<1>1. [j EXCEPT !.mine = m] = n
  BY DEF Shaped
<1>2. Shaped(n)
  BY DEF Shaped
<1> QED
  BY <1>1, <1>2

LEMMA SetLeft ==
  ASSUME NEW j, Shaped(j), NEW l, l = FilesOf(j.svc) \/ (Len(j.left) # 1 /\ l = Tail(j.left))
  PROVE  LET n == [j EXCEPT !.left = l] IN
         /\ Shaped(n) /\ n.pc = j.pc /\ n.left = l /\ n.mine = j.mine
         /\ n.svc = j.svc /\ n.patch = j.patch /\ n.merged = j.merged /\ n.before = j.before
<1> DEFINE n == [pc |-> j.pc, svc |-> j.svc, patch |-> j.patch, merged |-> j.merged, left |-> l,
                 mine |-> j.mine, before |-> j.before]
<1>1. \/ j.svc = "evolution" /\ l = <<"override">>
      \/ j.svc = "control" /\ l \in {<<"public", "local">>, <<"local">>}
  BY Names, Lists DEF Shaped
<1>2. [j EXCEPT !.left = l] = n
  BY DEF Shaped
<1>3. Shaped(n)
  BY <1>1 DEF Shaped
<1> QED
  BY <1>2, <1>3

\* The request in service is the only one.
LEMMA Serving ==
  ASSUME ConfigInv, NEW w \in Workers, ~ Resting(w)
  PROVE  Job(w) /\ \A v \in Workers \ {w} : Resting(v)
  BY DEF ConfigInv, Alone

\* A step of one request alone keeps the invariant when its request is as it should be.
LEMMA Goes ==
  ASSUME ConfigInv, NEW w \in Workers, \A v \in Workers \ {w} : Resting(v),
         request' = [request EXCEPT ![w] = request'[w]],
         file' = [f \in Files |-> file'[f]], copy' = [f \in Files |-> copy'[f]],
         \A f \in Files : Fits(file'[f], f), DOMAIN stored' \subseteq Keys,
         Job(w)' \/ (Resting(w)' /\ \A f \in Files : Acks(stored', file'[f], f))
  PROVE  ConfigInv'
<1>1. Base'
  BY DEF ConfigInv, Base
<1>2. \A v \in Workers \ {w} : Resting(v)'
  BY DEF ConfigInv, Base, Resting
<1>3. Alone'
  BY <1>2 DEF Alone
<1>4. Job(w)' => ~ Resting(w)'
  BY DEF Job, Progress, Resting, Cleaning
<1>5. (\A v \in Workers : ~ Resting(v) => Job(v))'
  BY <1>2
<1>6. (Quiet => \A f \in Files : Acks(stored, file[f], f))'
  BY <1>4 DEF Quiet
<1> QED
  BY <1>1, <1>3, <1>5, <1>6 DEF ConfigInv

\* A step that writes no other file keeps what the request is about.
LEMMA BasisKept ==
  ASSUME NEW w \in Workers, Basis(request[w]),
         \A f \in Files \ Written(request[w].svc) : file'[f] = file[f],
         request'[w].svc = request[w].svc, request'[w].patch = request[w].patch,
         request'[w].merged = request[w].merged, request'[w].before = request[w].before
  PROVE  Basis(request[w])'
  BY DEF Basis

LEMMA CopyAsideStep ==
  ASSUME ConfigInv, NEW w \in Workers, CopyAside(w)
  PROVE  ConfigInv'
<1> DEFINE j == request[w]
           f == Head(j.left)
           m == IF file[f] = Missing THEN j.mine ELSE j.mine \union {f}
           o == Onward(j, "open")
           n == [o EXCEPT !.mine = m]
<1>1. /\ j.pc = "copy" /\ file' = file /\ stored' = stored
      /\ request' = [request EXCEPT ![w] =
           [Onward(j, "open") EXCEPT !.mine = IF file[f] = Missing THEN @ ELSE @ \union {f}]]
      /\ copy' = IF file[f] = Missing THEN copy ELSE [copy EXCEPT ![f] = file[f]]
  BY DEF CopyAside
<1>2. Job(w) /\ \A v \in Workers \ {w} : Resting(v)
  BY <1>1, Serving DEF Resting
<1>3. Shaped(o) /\ o.svc = j.svc /\ o.patch = j.patch /\ o.merged = j.merged
      /\ o.mine = j.mine /\ o.before = j.before
      /\ (Len(j.left) = 1 => o.pc = "open" /\ o.left = FilesOf(j.svc))
      /\ (Len(j.left) # 1 => o.pc = j.pc /\ o.left = Tail(j.left))
  BY <1>2, OnwardShape DEF Job
<1>4. request'[w] = n
  BY <1>1, <1>3 DEF ConfigInv, Base
<1> HIDE DEF o
<1>5. Shaped(n) /\ n.pc = o.pc /\ n.left = o.left /\ n.mine = m
      /\ n.svc = j.svc /\ n.patch = j.patch /\ n.merged = j.merged /\ n.before = j.before
  BY <1>3, SetMine
<1> HIDE DEF n
<1>6. /\ f \in Written(j.svc) /\ f \in Todo(j.left)
      /\ Written(j.svc) \subseteq Files /\ Todo(j.left) \subseteq Written(j.svc)
      /\ Todo(FilesOf(j.svc)) = Written(j.svc)
      /\ Len(j.left) = 1 => Todo(j.left) = {f}
      /\ Len(j.left) # 1 => Todo(Tail(j.left)) = Todo(j.left) \ {f}
  BY <1>2, HeadOfLeft DEF Job
<1>7. Basis(request[w])'
  BY <1>1, <1>2, <1>4, <1>5, BasisKept DEF Job
<1>8. /\ file = j.before /\ j.mine \intersect Todo(j.left) = {}
      /\ Aside(j, Written(j.svc) \ Todo(j.left))
      /\ \A g \in Files : Acks(stored, j.before[g], g)
  BY <1>1, <1>2 DEF Job, Progress
<1>9. \A g \in (Written(j.svc) \ Todo(j.left)) \union {f} :
        /\ g \in m <=> j.before[g] # Missing
        /\ g \in m => copy'[g] = j.before[g]
  <2>1. \A g \in Files \ {f} : copy'[g] = copy[g]
    BY <1>1, <1>6 DEF ConfigInv, Base
  <2>2. \A g \in Written(j.svc) \ Todo(j.left) :
        /\ g \in m <=> j.before[g] # Missing
        /\ g \in m => copy'[g] = j.before[g]
    BY <1>6, <1>8, <2>1 DEF Aside
  <2>3. f \in m <=> j.before[f] # Missing
    BY <1>6, <1>8
  <2>4. f \in m => copy'[f] = j.before[f]
    BY <1>1, <1>6, <1>8, <2>3 DEF ConfigInv, Base
  <2> QED
    BY <2>2, <2>3, <2>4
<1>10. Progress(request[w])'
  <2>1. CASE Len(j.left) = 1
    <3>1. Aside(request[w], Written(request[w].svc))'
      BY <1>4, <1>5, <1>6, <1>9, <2>1 DEF Aside
    <3>2. n.pc = "open" /\ n.left = FilesOf(j.svc)
      BY <1>3, <1>5, <2>1
    <3>3. Written(j.svc) \ Todo(n.left) = {}
      <4>1. Todo(n.left) = Written(j.svc)
        BY Zenon, <1>6, <3>2
      <4> QED
        BY Zenon, <4>1
    <3> QED
      BY <1>1, <1>4, <1>5, <1>8, <3>1, <3>2, <3>3 DEF Progress
  <2>2. CASE Len(j.left) # 1
    <3>1. n.pc = "copy" /\ Todo(n.left) = Todo(j.left) \ {f}
      BY <1>1, <1>3, <1>5, <1>6, <2>2
    <3>2. Aside(request[w], Written(request[w].svc) \ Todo(request[w].left))'
      BY <1>4, <1>5, <1>6, <1>9, <3>1 DEF Aside
    <3>3. n.mine \intersect Todo(n.left) = {}
      BY <1>5, <1>8, <3>1
    <3> QED
      BY <1>1, <1>4, <1>5, <1>8, <3>1, <3>2, <3>3 DEF Progress
  <2> QED
    BY Zenon, <2>1, <2>2
<1>11. Job(w)'
  BY <1>4, <1>5, <1>7, <1>10 DEF Job
<1>12. copy' = [g \in Files |-> copy'[g]]
  BY <1>1 DEF ConfigInv, Base
<1>13. file' = [g \in Files |-> file'[g]] /\ \A g \in Files : Fits(file'[g], g)
  BY <1>1 DEF ConfigInv, Base
<1>14. request' = [request EXCEPT ![w] = request'[w]]
  BY <1>1, <1>4 DEF n, o
<1>15. DOMAIN stored' \subseteq Keys
  BY <1>1 DEF ConfigInv, Base
<1> QED
  BY <1>2, <1>11, <1>12, <1>13, <1>14, <1>15, Goes

LEMMA OpenFileStep ==
  ASSUME ConfigInv, NEW w \in Workers, OpenFile(w)
  PROVE  ConfigInv'
<1> DEFINE j == request[w]
           f == Head(j.left)
           n == [j EXCEPT !.pc = "fill"]
<1>1. /\ j.pc = "open" /\ copy' = copy /\ stored' = stored
      /\ request' = [request EXCEPT ![w].pc = "fill"] /\ file' = [file EXCEPT ![f] = Nothing]
  BY DEF OpenFile
<1>2. Job(w) /\ \A v \in Workers \ {w} : Resting(v)
  BY <1>1, Serving DEF Resting
<1>3. request'[w] = n
  BY <1>1 DEF ConfigInv, Base
<1>4. /\ Shaped(n) /\ n.pc = "fill" /\ n.left = j.left /\ n.mine = j.mine
      /\ n.svc = j.svc /\ n.patch = j.patch /\ n.merged = j.merged /\ n.before = j.before
  BY <1>2, SetPc DEF Job
<1> HIDE DEF n
<1>5. f \in Todo(j.left) /\ Todo(j.left) \subseteq Written(j.svc) /\ Written(j.svc) \subseteq Files
  BY <1>2, HeadOfLeft DEF Job
<1>6. file' = [g \in Files |-> file'[g]] /\ file'[f] = Nothing
      /\ \A g \in Files \ {f} : file'[g] = file[g]
  BY <1>1, <1>5 DEF ConfigInv, Base
<1>7. \A g \in Files : Fits(file'[g], g)
  BY <1>6 DEF ConfigInv, Base, Fits, Nothing
<1>8. Basis(request[w])'
  BY <1>2, <1>3, <1>4, <1>5, <1>6, BasisKept DEF Job
<1>9. Progress(request[w])'
  BY <1>1, <1>2, <1>3, <1>4, <1>5, <1>6 DEF Job, Progress, Aside
<1>10. Job(w)'
  BY <1>3, <1>4, <1>8, <1>9 DEF Job
<1>11. request' = [request EXCEPT ![w] = request'[w]]
  BY <1>1, <1>3 DEF n
<1>12. copy' = [g \in Files |-> copy'[g]]
  BY <1>1 DEF ConfigInv, Base
<1>13. DOMAIN stored' \subseteq Keys
  BY <1>1 DEF ConfigInv, Base
<1> QED
  BY <1>2, <1>6, <1>7, <1>10, <1>11, <1>12, <1>13, Goes

LEMMA FillFileStep ==
  ASSUME ConfigInv, NEW w \in Workers, FillFile(w)
  PROVE  ConfigInv'
<1> DEFINE j == request[w]
           f == Head(j.left)
           o == Onward(j, "record")
           p == IF Len(j.left) = 1 THEN "record" ELSE "open"
           n == [o EXCEPT !.pc = p]
<1>1. /\ j.pc = "fill" /\ copy' = copy /\ stored' = stored
      /\ request' = [request EXCEPT ![w] = n] /\ file' = [file EXCEPT ![f] = Kept(f, j.merged)]
  BY DEF FillFile
<1>2. Job(w) /\ \A v \in Workers \ {w} : Resting(v)
  BY <1>1, Serving DEF Resting
<1>3. Shaped(o) /\ o.svc = j.svc /\ o.patch = j.patch /\ o.merged = j.merged
      /\ o.mine = j.mine /\ o.before = j.before
      /\ (Len(j.left) = 1 => o.left = FilesOf(j.svc))
      /\ (Len(j.left) # 1 => o.left = Tail(j.left))
  BY <1>2, OnwardShape DEF Job
<1> HIDE DEF o
<1>4. /\ Shaped(n) /\ n.pc = p /\ n.left = o.left /\ n.mine = j.mine
      /\ n.svc = j.svc /\ n.patch = j.patch /\ n.merged = j.merged /\ n.before = j.before
  BY <1>3, SetPc
<1> HIDE DEF n
<1>5. /\ f \in Written(j.svc) /\ f \in Todo(j.left)
      /\ Written(j.svc) \subseteq Files /\ Todo(j.left) \subseteq Written(j.svc)
      /\ Todo(FilesOf(j.svc)) = Written(j.svc)
      /\ Len(j.left) = 1 => Todo(j.left) = {f}
      /\ Len(j.left) # 1 => Todo(Tail(j.left)) = Todo(j.left) \ {f}
  BY <1>2, HeadOfLeft DEF Job
<1>6. request'[w] = n /\ request' = [request EXCEPT ![w] = request'[w]]
  BY <1>1 DEF ConfigInv, Base
<1>7. /\ file' = [g \in Files |-> file'[g]] /\ file'[f] = Kept(f, j.merged)
      /\ \A g \in Files \ {f} : file'[g] = file[g]
  BY <1>1, <1>5 DEF ConfigInv, Base
<1>8. \A g \in Files : Fits(file'[g], g)
  <2>1. DOMAIN Kept(f, j.merged) \subseteq Own(f)
    <3>1. \A g \in Files : \A m : DOMAIN Kept(g, m) \subseteq Own(g)
      BY KeptDomain
    <3> QED
      BY <1>5, <3>1
  <2> QED
    BY <1>7, <2>1 DEF ConfigInv, Base, Fits
<1>9. Basis(request[w])'
  BY <1>2, <1>4, <1>5, <1>6, <1>7, BasisKept DEF Job
<1>10. \A g \in (Written(j.svc) \ Todo(j.left)) \union {f} : file'[g] = Kept(g, j.merged)
  <2>1. \A g \in Written(j.svc) \ Todo(j.left) : file[g] = Kept(g, j.merged)
    BY <1>1, <1>2 DEF Job, Progress
  <2> QED
    BY <1>5, <1>7, <2>1
<1>11. Aside(request[w], Written(request[w].svc))'
  BY <1>1, <1>2, <1>4, <1>6 DEF Job, Progress, Aside
<1>12. Progress(request[w])'
  <2>1. CASE Len(j.left) = 1
    <3>1. n.pc = "record" /\ \A g \in Written(j.svc) : file'[g] = Kept(g, j.merged)
      BY <1>4, <1>5, <1>10, <2>1
    <3> QED
      BY <1>1, <1>2, <1>4, <1>6, <1>11, <3>1 DEF Job, Progress
  <2>2. CASE Len(j.left) # 1
    <3>1. n.pc = "open" /\ \A g \in Written(j.svc) \ Todo(n.left) : file'[g] = Kept(g, j.merged)
      BY <1>3, <1>4, <1>5, <1>10, <2>2
    <3> QED
      BY <1>1, <1>2, <1>4, <1>6, <1>11, <3>1 DEF Job, Progress
  <2> QED
    BY <2>1, <2>2
<1>13. Job(w)'
  BY <1>4, <1>6, <1>9, <1>12 DEF Job
<1>14. copy' = [g \in Files |-> copy'[g]]
  BY <1>1 DEF ConfigInv, Base
<1>15. DOMAIN stored' \subseteq Keys
  BY <1>1 DEF ConfigInv, Base
<1> QED
  BY <1>2, <1>6, <1>7, <1>8, <1>13, <1>14, <1>15, Goes

\* The change is acknowledged, and every file has it already.
LEMMA RecordChangeStep ==
  ASSUME ConfigInv, NEW w \in Workers, RecordChange(w)
  PROVE  ConfigInv'
<1> DEFINE j == request[w]
           n == [j EXCEPT !.pc = "clean"]
<1>1. /\ j.pc = "record" /\ copy' = copy /\ file' = file
      /\ request' = [request EXCEPT ![w].pc = "clean"] /\ stored' = Over(stored, j.patch)
  BY DEF RecordChange
<1>2. Job(w) /\ \A v \in Workers \ {w} : Resting(v)
  BY <1>1, Serving DEF Resting
<1>3. request'[w] = n
  BY <1>1 DEF ConfigInv, Base
<1>4. /\ Shaped(n) /\ n.pc = "clean" /\ n.left = j.left /\ n.mine = j.mine
      /\ n.svc = j.svc /\ n.patch = j.patch /\ n.merged = j.merged /\ n.before = j.before
  BY <1>2, SetPc DEF Job
<1> HIDE DEF n
<1>5. Basis(request[w])'
  BY <1>1, <1>2, <1>3, <1>4, BasisKept DEF Job
<1>6. /\ \A f \in Files : Fits(j.before[f], f) /\ Acks(stored, j.before[f], f)
      /\ DOMAIN j.patch \subseteq Patchable(j.svc)
      /\ j.merged = Merge(j.svc, j.before, j.patch)
      /\ \A f \in Files \ Written(j.svc) : file[f] = j.before[f]
      /\ \A f \in Written(j.svc) : file[f] = Kept(f, j.merged)
      /\ j.svc \in {"evolution", "control"}
  BY <1>1, <1>2 DEF Job, Basis, Progress, Shaped
<1>7. /\ \A f \in Written(j.svc) :
           Acks(Over(stored, j.patch), Kept(f, Merge(j.svc, j.before, j.patch)), f)
      /\ \A f \in Files \ Written(j.svc) : Acks(Over(stored, j.patch), j.before[f], f)
  BY <1>6, WritesAck
<1>8. \A f \in Files : Acks(stored', file'[f], f)
  BY <1>1, <1>6, <1>7
<1>9. Progress(request[w])'
  BY <1>3, <1>4, <1>8 DEF Progress, Cleaning
<1>10. Job(w)'
  BY <1>3, <1>4, <1>5, <1>9 DEF Job
<1>11. request' = [request EXCEPT ![w] = request'[w]]
  BY <1>1, <1>3 DEF n
<1>12. /\ copy' = [g \in Files |-> copy'[g]] /\ file' = [g \in Files |-> file'[g]]
       /\ \A g \in Files : Fits(file'[g], g)
  BY <1>1 DEF ConfigInv, Base
<1>13. DOMAIN stored' \subseteq Keys
  <2>1. DOMAIN stored' = DOMAIN stored \union DOMAIN j.patch
    BY <1>1, OverDomain
  <2> QED
    BY <2>1, <1>6, Names DEF ConfigInv, Base, Keys
<1> QED
  BY <1>2, <1>10, <1>11, <1>12, <1>13, Goes

LEMMA StepRaisesStep ==
  ASSUME ConfigInv, NEW w \in Workers, StepRaises(w)
  PROVE  ConfigInv'
<1> DEFINE j == request[w]
           o == [j EXCEPT !.pc = "restore"]
           n == [o EXCEPT !.left = FilesOf(j.svc)]
<1>1. /\ j.pc \in {"open", "fill", "record"} /\ copy' = copy /\ file' = file /\ stored' = stored
      /\ request' = [request EXCEPT ![w] = n]
  BY DEF StepRaises
<1>2. Job(w) /\ \A v \in Workers \ {w} : Resting(v)
  BY <1>1, Serving DEF Resting
<1>3. request'[w] = n /\ request' = [request EXCEPT ![w] = request'[w]]
  BY <1>1 DEF ConfigInv, Base
<1>4. /\ Shaped(o) /\ o.pc = "restore" /\ o.mine = j.mine
      /\ o.svc = j.svc /\ o.patch = j.patch /\ o.merged = j.merged /\ o.before = j.before
  BY <1>2, SetPc DEF Job
<1> HIDE DEF o
<1>5. /\ Shaped(n) /\ n.pc = "restore" /\ n.left = FilesOf(j.svc) /\ n.mine = j.mine
      /\ n.svc = j.svc /\ n.patch = j.patch /\ n.merged = j.merged /\ n.before = j.before
  BY <1>4, SetLeft
<1> HIDE DEF n
<1>6. Basis(request[w])'
  BY <1>1, <1>2, <1>3, <1>5, BasisKept DEF Job
<1>7. Written(n.svc) \ Todo(n.left) = {}
  BY <1>2, <1>5, HeadOfLeft DEF Job
<1>8. Aside(request[w], Written(request[w].svc))'
  BY <1>1, <1>2, <1>3, <1>5 DEF Job, Progress, Aside
<1>9. Progress(request[w])'
  BY <1>1, <1>2, <1>3, <1>5, <1>7, <1>8 DEF Job, Progress, Back
<1>10. Job(w)'
  BY <1>3, <1>5, <1>6, <1>9 DEF Job
<1>11. /\ copy' = [g \in Files |-> copy'[g]] /\ file' = [g \in Files |-> file'[g]]
       /\ \A g \in Files : Fits(file'[g], g)
  BY <1>1 DEF ConfigInv, Base
<1>12. DOMAIN stored' \subseteq Keys
  BY <1>1 DEF ConfigInv, Base
<1> QED
  BY <1>2, <1>3, <1>10, <1>11, <1>12, Goes

LEMMA RestoreStep ==
  ASSUME ConfigInv, NEW w \in Workers, Restore(w)
  PROVE  ConfigInv'
<1> DEFINE j == request[w]
           f == Head(j.left)
           n == Onward(j, "cleanfail")
<1>1. /\ j.pc = "restore" /\ copy' = copy /\ stored' = stored
      /\ request' = [request EXCEPT ![w] = n]
      /\ file' = IF f \in j.mine /\ copy[f] # Missing THEN [file EXCEPT ![f] = copy[f]] ELSE file
  BY DEF Restore
<1>2. Job(w) /\ \A v \in Workers \ {w} : Resting(v)
  BY <1>1, Serving DEF Resting
<1>3. request'[w] = n /\ request' = [request EXCEPT ![w] = request'[w]]
  BY <1>1 DEF ConfigInv, Base
<1>4. Shaped(n) /\ n.svc = j.svc /\ n.patch = j.patch /\ n.merged = j.merged
      /\ n.mine = j.mine /\ n.before = j.before
      /\ (Len(j.left) = 1 => n.pc = "cleanfail" /\ n.left = FilesOf(j.svc))
      /\ (Len(j.left) # 1 => n.pc = j.pc /\ n.left = Tail(j.left))
  BY <1>2, OnwardShape DEF Job
<1> HIDE DEF n
<1>5. /\ f \in Written(j.svc) /\ f \in Todo(j.left)
      /\ Written(j.svc) \subseteq Files /\ Todo(j.left) \subseteq Written(j.svc)
      /\ Len(j.left) = 1 => Todo(j.left) = {f}
      /\ Len(j.left) # 1 => Todo(Tail(j.left)) = Todo(j.left) \ {f}
  BY <1>2, HeadOfLeft DEF Job
<1>6. Aside(j, Written(j.svc)) /\ Back(j, Written(j.svc) \ Todo(j.left))
      /\ \A g \in Files : Acks(stored, j.before[g], g)
  BY <1>1, <1>2 DEF Job, Progress
<1>7. /\ file' = [g \in Files |-> file'[g]]
      /\ \A g \in Files \ {f} : file'[g] = file[g]
      /\ file'[f] = file[f] \/ file'[f] = j.before[f]
  BY <1>1, <1>5, <1>6 DEF ConfigInv, Base, Aside
<1>8. j.before[f] # Missing => file'[f] = j.before[f]
  BY <1>1, <1>5, <1>6 DEF ConfigInv, Base, Aside
<1>9. \A g \in Files : Fits(file'[g], g)
  BY <1>2, <1>5, <1>7 DEF ConfigInv, Base, Job, Basis
<1>10. Basis(request[w])'
  BY <1>2, <1>3, <1>4, <1>5, <1>7, BasisKept DEF Job
<1>11. \A g \in (Written(j.svc) \ Todo(j.left)) \union {f} :
         j.before[g] # Missing => file'[g] = j.before[g]
  BY <1>5, <1>6, <1>7, <1>8 DEF Back
<1>12. Aside(request[w], Written(request[w].svc))'
  BY <1>1, <1>3, <1>4, <1>6 DEF Aside
<1>13. Progress(request[w])'
  <2>1. CASE Len(j.left) = 1
    <3>1. \A g \in Written(j.svc) : j.before[g] # Missing => file'[g] = j.before[g]
      BY <1>5, <1>11, <2>1
    <3>2. Back(request[w], Written(request[w].svc))'
      BY <1>3, <1>4, <3>1 DEF Back
    <3> QED
      BY <1>1, <1>3, <1>4, <1>6, <2>1, <3>2 DEF Progress, Cleaning
  <2>2. CASE Len(j.left) # 1
    <3>1. \A g \in Written(j.svc) \ Todo(n.left) : j.before[g] # Missing => file'[g] = j.before[g]
      BY <1>4, <1>5, <1>11, <2>2
    <3>2. Back(request[w], Written(request[w].svc) \ Todo(request[w].left))'
      BY <1>3, <1>4, <3>1 DEF Back
    <3> QED
      BY <1>1, <1>3, <1>4, <1>6, <1>12, <2>2, <3>2 DEF Progress
  <2> QED
    BY <2>1, <2>2
<1>14. Job(w)'
  BY <1>3, <1>4, <1>10, <1>13 DEF Job
<1>15. copy' = [g \in Files |-> copy'[g]]
  BY <1>1 DEF ConfigInv, Base
<1>16. DOMAIN stored' \subseteq Keys
  BY <1>1 DEF ConfigInv, Base
<1> QED
  BY <1>2, <1>3, <1>7, <1>9, <1>14, <1>15, <1>16, Goes

\* What a file that was not there has now is no setting anyone was told of.
LEMMA AcksBack ==
  ASSUME NEW st, NEW f, NEW x, NEW y, Acks(st, x, f), x # Missing => y = x
  PROVE  Acks(st, y, f)
  BY DEF Acks

\* Whatever is being cleaned up, the files have what was acknowledged.
LEMMA Accounted ==
  ASSUME NEW w \in Workers, Job(w), request[w].pc \in {"clean", "cleanfail", "cleanspoilt"}
  PROVE  \A g \in Files : Acks(stored, file[g], g)
<1> DEFINE j == request[w]
<1> SUFFICES ASSUME NEW g \in Files PROVE Acks(stored, file[g], g)
  OBVIOUS
<1>1. CASE j.pc \in {"clean", "cleanspoilt"}
  BY <1>1 DEF Job, Progress
<1>2. CASE j.pc = "cleanfail"
  <2>1. Acks(stored, j.before[g], g) /\ Back(j, Written(j.svc))
    BY <1>2 DEF Job, Progress
  <2>2. j.before[g] # Missing => file[g] = j.before[g]
    BY <2>1 DEF Job, Basis, Back
  <2> QED
    BY <2>1, <2>2, AcksBack
<1> QED
  BY <1>1, <1>2

LEMMA CleanUpStep ==
  ASSUME ConfigInv, NEW w \in Workers, CleanUp(w)
  PROVE  ConfigInv'
<1> DEFINE j == request[w]
           f == Head(j.left)
           l == Tail(j.left)
           n == [j EXCEPT !.left = l]
<1>1. /\ j.pc \in {"clean", "cleanfail", "cleanspoilt"} /\ file' = file /\ stored' = stored
      /\ copy' = IF f \in j.mine THEN [copy EXCEPT ![f] = Missing] ELSE copy
      /\ request' = [request EXCEPT ![w] = IF Len(j.left) = 1 THEN Waiting ELSE n]
  BY DEF CleanUp, Cleaning
<1>2. Job(w) /\ \A v \in Workers \ {w} : Resting(v)
  BY <1>1, Serving DEF Resting
<1>3. request'[w] = (IF Len(j.left) = 1 THEN Waiting ELSE n)
      /\ request' = [request EXCEPT ![w] = request'[w]]
  BY <1>1 DEF ConfigInv, Base
<1>4. f \in Files
  BY <1>2, HeadOfLeft DEF Job
<1>5. /\ copy' = [g \in Files |-> copy'[g]] /\ file' = [g \in Files |-> file'[g]]
      /\ \A g \in Files : Fits(file'[g], g)
  BY <1>1, <1>4 DEF ConfigInv, Base
<1>6. DOMAIN stored' \subseteq Keys
  BY <1>1 DEF ConfigInv, Base
<1>7. CASE Len(j.left) = 1
  <2>1. \A g \in Files : Acks(stored, file[g], g)
    BY <1>1, <1>2, Accounted
  <2>2. Resting(w)'
    BY <1>3, <1>7 DEF Resting, Waiting
  <2>3. \A g \in Files : Acks(stored', file'[g], g)
    BY <1>1, <2>1
  <2> QED
    BY <1>2, <1>3, <1>5, <2>2, <2>3, <1>6, Goes
<1>8. CASE Len(j.left) # 1
  <2>1. Shaped(j) /\ l = Tail(j.left)
    BY <1>2 DEF Job
  <2> HIDE DEF l
  <2>2. /\ Shaped(n) /\ n.pc = j.pc /\ n.left = l /\ n.mine = j.mine
        /\ n.svc = j.svc /\ n.patch = j.patch /\ n.merged = j.merged /\ n.before = j.before
    BY <1>8, <2>1, SetLeft
  <2>3. request'[w] = n
    BY <1>3, <1>8
  <2> HIDE DEF n
  <2>4. Basis(request[w])'
    BY <1>1, <1>2, <2>2, <2>3, BasisKept DEF Job
  <2>5. Progress(request[w])'
    BY <1>1, <1>2, <2>2, <2>3 DEF Job, Progress, Back, Cleaning
  <2>6. Job(w)'
    BY <2>2, <2>3, <2>4, <2>5 DEF Job
  <2> QED
    BY <1>2, <1>3, <1>5, <2>6, <1>6, Goes
<1> QED
  BY <1>7, <1>8

\* A copy that cannot be made ends the request before any file changed.
LEMMA CopyRaisesStep ==
  ASSUME ConfigInv, NEW w \in Workers, CopyRaises(w)
  PROVE  ConfigInv'
<1> DEFINE j == request[w]
           f == Head(j.left)
<1>1. /\ j.pc = "copy" /\ file' = file /\ stored' = stored
      /\ request' = [request EXCEPT ![w] = Waiting]
      /\ \E torn : copy' = [copy EXCEPT ![f] = torn]
  BY DEF CopyRaises
<1>2. Job(w) /\ \A v \in Workers \ {w} : Resting(v)
  BY <1>1, Serving DEF Resting
<1>3. request'[w] = Waiting /\ request' = [request EXCEPT ![w] = request'[w]]
  BY <1>1 DEF ConfigInv, Base
<1>4. Resting(w)'
  BY <1>3 DEF Resting, Waiting
<1>5. \A g \in Files : Acks(stored', file'[g], g)
  BY <1>1, <1>2 DEF Job, Progress
<1>6. /\ copy' = [g \in Files |-> copy'[g]] /\ file' = [g \in Files |-> file'[g]]
      /\ \A g \in Files : Fits(file'[g], g)
  BY <1>1 DEF ConfigInv, Base
<1>7. DOMAIN stored' \subseteq Keys
  BY <1>1 DEF ConfigInv, Base
<1> QED
  BY <1>2, <1>3, <1>4, <1>5, <1>6, <1>7, Goes

\* A copy that cannot be unlinked: the files are as they were, and acknowledged.
LEMMA CleanUpRaisesStep ==
  ASSUME ConfigInv, NEW w \in Workers, CleanUpRaises(w)
  PROVE  ConfigInv'
<1> DEFINE j == request[w]
<1>1. /\ j.pc \in {"clean", "cleanfail", "cleanspoilt"}
      /\ file' = file /\ stored' = stored /\ copy' = copy
      /\ request' = [request EXCEPT ![w] = Waiting]
  BY DEF CleanUpRaises, Cleaning
<1>2. Job(w) /\ \A v \in Workers \ {w} : Resting(v)
  BY <1>1, Serving DEF Resting
<1>3. request'[w] = Waiting /\ request' = [request EXCEPT ![w] = request'[w]]
  BY <1>1 DEF ConfigInv, Base
<1>4. Resting(w)'
  BY <1>3 DEF Resting, Waiting
<1>5. \A g \in Files : Acks(stored', file'[g], g)
  BY <1>1, <1>2, Accounted
<1>6. /\ copy' = [g \in Files |-> copy'[g]] /\ file' = [g \in Files |-> file'[g]]
      /\ \A g \in Files : Fits(file'[g], g)
  BY <1>1 DEF ConfigInv, Base
<1>7. DOMAIN stored' \subseteq Keys
  BY <1>1 DEF ConfigInv, Base
<1> QED
  BY <1>2, <1>3, <1>4, <1>5, <1>6, <1>7, Goes

\* A copy that cannot be taken back: what the files lost is no longer held to be stored,
\* and a file that was there is otherwise as the request found it.
LEMMA RestoreRaisesStep ==
  ASSUME ConfigInv, NEW w \in Workers, RestoreRaises(w)
  PROVE  ConfigInv'
<1> DEFINE j == request[w]
           f == Head(j.left)
           lost == {g \in Range(j.left) : j.before[g] # Missing /\ file'[g] # j.before[g]}
           kept == {k \in DOMAIN stored : \A g \in lost : k \notin Own(g)}
           o == [j EXCEPT !.pc = "cleanspoilt"]
           n == [o EXCEPT !.left = FilesOf(j.svc)]
<1>1. /\ j.pc = "restore" /\ copy' = copy /\ f \in j.mine
      /\ request' = [request EXCEPT ![w] = n]
      /\ stored' = [k \in kept |-> stored[k]]
  BY DEF RestoreRaises, Restrict
<1>2. PICK torn \in {file[f], Nothing, copy[f]} : file' = [file EXCEPT ![f] = torn]
  BY DEF RestoreRaises
<1>3. Job(w) /\ \A v \in Workers \ {w} : Resting(v)
  BY <1>1, Serving DEF Resting
<1>4. request'[w] = n /\ request' = [request EXCEPT ![w] = request'[w]]
  BY <1>1 DEF ConfigInv, Base
<1>5. /\ Shaped(o) /\ o.pc = "cleanspoilt" /\ o.mine = j.mine
      /\ o.svc = j.svc /\ o.patch = j.patch /\ o.merged = j.merged /\ o.before = j.before
  BY <1>3, SetPc DEF Job
<1> HIDE DEF o
<1>6. /\ Shaped(n) /\ n.pc = "cleanspoilt" /\ n.left = FilesOf(j.svc) /\ n.mine = j.mine
      /\ n.svc = j.svc /\ n.patch = j.patch /\ n.merged = j.merged /\ n.before = j.before
  BY <1>5, SetLeft
<1> HIDE DEF n
<1>7. /\ f \in Written(j.svc) /\ f \in Files /\ Written(j.svc) \subseteq Files
      /\ Todo(j.left) \subseteq Written(j.svc) /\ f \in Todo(j.left)
      /\ Range(j.left) = Todo(j.left)
  BY <1>3, HeadOfLeft, RangeOfLeft DEF Job
<1>8. /\ file' = [g \in Files |-> file'[g]] /\ file'[f] = torn
      /\ \A g \in Files \ {f} : file'[g] = file[g]
  BY <1>2, <1>7 DEF ConfigInv, Base
<1>9. /\ Aside(j, Written(j.svc)) /\ Back(j, Written(j.svc) \ Todo(j.left))
      /\ \A g \in Files : Acks(stored, j.before[g], g)
  BY <1>1, <1>3 DEF Job, Progress
<1>10. torn = file[f] \/ torn = Nothing \/ torn = j.before[f]
  BY <1>1, <1>2, <1>7, <1>9 DEF Aside
<1>11. \A g \in Files : Fits(file'[g], g)
  BY <1>3, <1>7, <1>8, <1>10 DEF ConfigInv, Base, Job, Basis, Fits, Nothing
<1>12. Basis(request[w])'
  BY <1>3, <1>4, <1>6, <1>7, <1>8, BasisKept DEF Job
<1>13. ASSUME NEW g \in Files
       PROVE  Acks(stored', file'[g], g)
  <2>1. CASE g \in lost
    <3>1. DOMAIN stored' \intersect Own(g) = {}
      BY <1>1, <2>1
    <3> QED
      BY <3>1 DEF Acks
  <2>2. CASE g \notin lost
    <3>1. j.before[g] # Missing => file'[g] = j.before[g]
      BY <1>3, <1>7, <1>8, <1>9, <2>2 DEF Job, Basis, Back
    <3>2. Acks(stored, file'[g], g)
      BY <1>9, <3>1, AcksBack
    <3> QED
      BY <1>1, <3>2 DEF Acks
  <2> QED
    BY <2>1, <2>2
<1>14. Progress(request[w])'
  BY <1>4, <1>6, <1>13 DEF Progress, Cleaning
<1>15. Job(w)'
  BY <1>4, <1>6, <1>12, <1>14 DEF Job
<1>16. copy' = [g \in Files |-> copy'[g]]
  BY <1>1 DEF ConfigInv, Base
<1>17. DOMAIN stored' \subseteq Keys
  BY <1>1 DEF ConfigInv, Base
<1> QED
  BY <1>3, <1>4, <1>8, <1>11, <1>15, <1>16, <1>17, Goes

\* The request taken up, field by field.
NewRequest(p, s, t, m, b, l) ==
  [Waiting EXCEPT !.pc = p, !.svc = s, !.patch = t, !.merged = m, !.before = b, !.left = l]

LEMMA NewRequestIs ==
  ASSUME NEW p, NEW s, NEW t, NEW m, NEW b, NEW l
  PROVE  NewRequest(p, s, t, m, b, l)
         = [pc |-> p, svc |-> s, patch |-> t, merged |-> m, left |-> l, mine |-> {}, before |-> b]
<1>1. PICK e, f, g, h : Waiting = [pc |-> e, svc |-> f, patch |-> g, merged |-> g, left |-> g,
                                   mine |-> h, before |-> g] /\ h = {}
  BY Zenon DEF Waiting
<1> DEFINE r1 == [Waiting EXCEPT !.pc = p]
           r2 == [r1 EXCEPT !.svc = s]
           r3 == [r2 EXCEPT !.patch = t]
           r4 == [r3 EXCEPT !.merged = m]
           r5 == [r4 EXCEPT !.before = b]
           r6 == [r5 EXCEPT !.left = l]
<1>2. NewRequest(p, s, t, m, b, l) = r6
  BY DEF NewRequest
<1>3. r1 = [pc |-> p, svc |-> f, patch |-> g, merged |-> g, left |-> g,
             mine |-> h, before |-> g]
  BY <1>1
<1> HIDE DEF r1
<1>4. r2 = [pc |-> p, svc |-> s, patch |-> g, merged |-> g, left |-> g,
             mine |-> h, before |-> g]
  BY <1>3
<1> HIDE DEF r2
<1>5. r3 = [pc |-> p, svc |-> s, patch |-> t, merged |-> g, left |-> g,
             mine |-> h, before |-> g]
  BY <1>4
<1> HIDE DEF r3
<1>6. r4 = [pc |-> p, svc |-> s, patch |-> t, merged |-> m, left |-> g,
             mine |-> h, before |-> g]
  BY <1>5
<1> HIDE DEF r4
<1>7. r5 = [pc |-> p, svc |-> s, patch |-> t, merged |-> m, left |-> g,
             mine |-> h, before |-> b]
  BY <1>6
<1> HIDE DEF r5
<1>8. r6 = [pc |-> p, svc |-> s, patch |-> t, merged |-> m, left |-> l,
             mine |-> h, before |-> b]
  BY <1>7
<1> HIDE DEF r6
<1> QED
  BY <1>1, <1>2, <1>8

\* A request is taken up when none is in service.
LEMMA TakenUp ==
  ASSUME ConfigInv, ~ Overlap, NEW w \in Workers, Resting(w), Unserved, NEW patch,
         NEW svc \in {"evolution", "control"}, DOMAIN patch \subseteq Patchable(svc), NEW merged,
         merged = Merge(svc, file, patch), UNCHANGED <<file, copy, stored>>,
         request' = [request EXCEPT
                       ![w] = NewRequest("copy", svc, patch, merged, file, FilesOf(svc))]
  PROVE  ConfigInv'
<1> DEFINE n == [pc |-> "copy", svc |-> svc, patch |-> patch, merged |-> merged,
                 left |-> FilesOf(svc), mine |-> {}, before |-> file]
<1>1. Quiet
  BY DEF Unserved, Quiet
<1>2. NewRequest("copy", svc, patch, merged, file, FilesOf(svc)) = n
  BY NewRequestIs
<1>3. request' = [request EXCEPT ![w] = n] /\ request'[w] = n
  BY <1>2 DEF ConfigInv, Base
<1>4. Shaped(n)
  BY Names DEF Shaped
<1>5. Written(svc) \ Todo(FilesOf(svc)) = {}
  BY Names, Lists
<1>6. Basis(request[w])'
  <2>1. (\A f \in Files : Fits(file[f], f))
    BY DEF ConfigInv, Base
  <2>2. /\ n.svc = svc /\ n.patch = patch /\ n.merged = merged /\ n.before = file
    OBVIOUS
  <2> HIDE DEF n
  <2> QED
    BY <1>3, <2>1, <2>2 DEF Basis
<1>7. Progress(request[w])'
  <2>1. \A f \in Files : Acks(stored, file[f], f)
    BY <1>1 DEF ConfigInv
  <2>2. /\ n.svc = svc /\ n.pc = "copy" /\ n.mine = {} /\ n.before = file
        /\ n.left = FilesOf(svc)
    OBVIOUS
  <2> HIDE DEF n
  <2> QED
    BY <1>3, <1>5, <2>1, <2>2 DEF Progress, Aside
<1>8. Job(w)'
  BY <1>3, <1>4, <1>6, <1>7 DEF Job
<1>9. \A v \in Workers \ {w} : Resting(v)
  BY <1>1 DEF Quiet
<1>10. request' = [request EXCEPT ![w] = request'[w]]
  BY <1>3
<1>11. /\ copy' = [g \in Files |-> copy'[g]] /\ file' = [g \in Files |-> file'[g]]
       /\ \A g \in Files : Fits(file'[g], g)
  BY DEF ConfigInv, Base
<1>12. DOMAIN stored' \subseteq Keys
  BY DEF ConfigInv, Base
<1> QED
  BY <1>8, <1>9, <1>10, <1>11, <1>12, Goes

\* The keys of a patch
LEMMA PatchKeys ==
  ASSUME NEW keys, NEW p \in Patches(keys)
  PROVE  DOMAIN p \subseteq keys
  BY DEF Patches

LEMMA ConfigInitInv == ConfigInit => ConfigInv
<1> SUFFICES ASSUME ConfigInit PROVE ConfigInv
  OBVIOUS
<1>1. \A f \in Files : Fits(file[f], f)
  BY DEF ConfigInit, Fits, Nothing
<1>2. Base
  BY <1>1 DEF ConfigInit, Base, Nothing
<1>3. \A w \in Workers : Resting(w)
  BY DEF ConfigInit, Resting, Waiting
<1>4. \A f \in Files : Acks(stored, file[f], f)
  BY DEF ConfigInit, Acks, Nothing
<1> QED
  BY <1>2, <1>3, <1>4 DEF ConfigInv, Alone

LEMMA ConfigStep ==
  ASSUME ~ Overlap, ConfigInv, [ConfigNext]_configVars
  PROVE  ConfigInv'
<1>1. ASSUME NEW w \in Workers, NEW p \in Patches(Training), PatchEvolution(w, p)
      PROVE  ConfigInv'
  <2>1. DOMAIN p \subseteq Patchable("evolution")
    BY PatchKeys, Names
  <2>2. Over(In("override"), p) = Merge("evolution", file, p)
    BY DEF Merge, In, Found
  <2>3. Resting(w) /\ Unserved /\ UNCHANGED <<file, copy, stored>>
    BY <1>1 DEF PatchEvolution
  <2>4. request' = [request EXCEPT
                      ![w] = NewRequest("copy", "evolution", p, Over(In("override"), p), file,
                                        FilesOf("evolution"))]
    BY <1>1, Zenon DEF PatchEvolution, NewRequest
  <2> QED
    BY <2>1, <2>2, <2>3, <2>4, TakenUp
<1>2. ASSUME NEW w \in Workers, NEW p \in Patches(Public \union Secret), PatchPlane(w, p)
      PROVE  ConfigInv'
  <2>1. DOMAIN p \subseteq Patchable("control")
    BY PatchKeys, Names
  <2>2. Over(LoadPlane, p) = Merge("control", file, p)
    BY DEF Merge, LoadPlane, Plane, In, Found
  <2>3. Resting(w) /\ Unserved /\ UNCHANGED <<file, copy, stored>>
    BY <1>2 DEF PatchPlane
  <2>4. request' = [request EXCEPT
                      ![w] = NewRequest("copy", "control", p, Over(LoadPlane, p), file, FilesOf("control"))]
    BY <1>2, Zenon DEF PatchPlane, NewRequest
  <2> QED
    BY <2>1, <2>2, <2>3, <2>4, TakenUp
<1>3. CASE UNCHANGED <<file, copy, request, stored>>
  <2>1. Base' /\ Alone'
    BY <1>3 DEF ConfigInv, Base, Alone, Resting
  <2>2. ASSUME NEW w \in Workers, ~ Resting(w)'
        PROVE  Job(w)'
    <3>1. Job(w)
      BY <1>3, <2>2 DEF ConfigInv, Resting
    <3>2. Basis(request[w])'
      BY <1>3, <3>1 DEF Job, Basis
    <3>3. Progress(request[w])'
      BY <1>3, <3>1 DEF Job, Progress, Aside, Back
    <3> QED
      BY <1>3, <3>1, <3>2, <3>3 DEF Job
  <2>3. (Quiet => \A f \in Files : Acks(stored, file[f], f))'
    BY <1>3 DEF ConfigInv, Quiet, Resting
  <2> QED
    BY <2>1, <2>2, <2>3 DEF ConfigInv
<1>4. ASSUME NEW w \in Workers, JobStep(w)
      PROVE  ConfigInv'
  BY <1>4, CopyAsideStep, OpenFileStep, FillFileStep, RecordChangeStep, StepRaisesStep,
     RestoreStep, CleanUpStep, CopyRaisesStep, RestoreRaisesStep, CleanUpRaisesStep DEF JobStep
<1> QED
  BY <1>1, <1>2, <1>3, <1>4 DEF ConfigNext, ReadPlane, configVars

\* When requests do not overlap, the files keep every setting acknowledged: a value in
\* force after a restart is the last one answered with success, whatever failed since.
THEOREM AcknowledgedAlwaysStored == ASSUME ~ Overlap PROVE ConfigSpec => []AcknowledgedIsStored
<1>1. ConfigInv => AcknowledgedIsStored
  <2> SUFFICES ASSUME ConfigInv, Quiet PROVE
        /\ \A k \in DOMAIN stored \intersect Training : AfterRestart[k] = stored[k]
        /\ \A k \in DOMAIN stored \ Training : stored[k] # Empty => LoadPlane[k] = stored[k]
    BY DEF AcknowledgedIsStored
  <2>1. \A f \in Files : Acks(stored, file[f], f) /\ Fits(file[f], f)
    BY DEF ConfigInv, Base
  <2>2. ASSUME NEW k \in DOMAIN stored \intersect Training
        PROVE  AfterRestart[k] = stored[k]
    <3>1. file["override"] # Missing /\ k \in DOMAIN file["override"]
          /\ file["override"][k] = stored[k]
      BY <2>1, Names DEF Acks
    <3> QED
      BY <3>1, OverTop DEF AfterRestart, In
  <2>3. ASSUME NEW k \in DOMAIN stored \ Training, stored[k] # Empty
        PROVE  LoadPlane[k] = stored[k]
    <3>1. PICK f \in {"public", "local"} : k \in Own(f)
      BY Names DEF ConfigInv, Base, Keys
    <3>2. file[f] # Missing /\ k \in DOMAIN file[f] /\ file[f][k] = stored[k]
      BY <2>1, <2>3, <3>1, Names DEF Acks
    <3>3. Plane(file)[k] = file[f][k]
      BY <2>1, <3>2, PlaneIs
    <3>4. LoadPlane = Plane(file)
      BY DEF LoadPlane, Plane, In, Found
    <3> QED
      BY <3>2, <3>3, <3>4
  <2> QED
    BY <2>2, <2>3
<1> QED
  BY <1>1, ConfigInitInv, ConfigStep, PTL DEF ConfigSpec

\* When requests do not overlap, a failed one leaves each file that was there as it found
\* it.
THEOREM FailedAlwaysLeavesFiles == ASSUME ~ Overlap PROVE ConfigSpec => []FailedLeavesFiles
<1>1. ConfigInv => FailedLeavesFiles
  <2> SUFFICES ASSUME ConfigInv, NEW w \in Workers, request[w].pc = "cleanfail",
                      NEW f \in Range(FilesOf(request[w].svc)), request[w].before[f] # Missing
               PROVE  file[f] = request[w].before[f]
    BY DEF FailedLeavesFiles
  <2>1. Job(w)
    BY DEF ConfigInv, Resting
  <2>2. Back(request[w], Written(request[w].svc))
    BY <2>1 DEF Job, Progress
  <2>3. Range(FilesOf(request[w].svc)) \subseteq Written(request[w].svc)
    <3>1. request[w].svc \in {"evolution", "control"}
      BY <2>1 DEF Job, Shaped
    <3> QED
      BY <3>1, Names DEF Range
  <2> QED
    BY <2>2, <2>3 DEF Back
<1> QED
  BY <1>1, ConfigInitInv, ConfigStep, PTL DEF ConfigSpec

---------------------------------------------------------------------------
(* The agent loop *)

Turn == [who : {"user", "assistant"}, r : Request]
Said == [role : {"assistant", "tool"}, ids : Seq(Nat)]
Place == [at : {"idle", "llm", "calls", "tool", "over", "done"},
          mode : {"none", "explicit", "builtin", "loop"},
          left : Seq(Call), rounds : Nat, next : Nat]

Sorts ==
  /\ req \in [Request -> Place]
  /\ messages \in [Request -> Seq(Said)]
  /\ session \in Seq(Turn)

\* A session of h questions, each beside its answer.
Paired(s, h) ==
  /\ Len(s) = 2 * h
  /\ \A i \in 1 .. h : /\ s[2 * i - 1].who = "user" /\ s[2 * i].who = "assistant"
                       /\ s[2 * i - 1].r = s[2 * i].r

\* The j-th call that message i asks for has its result.
Result(m, i, j) == i + j <= Len(m) /\ m[i + j] = [role |-> "tool", ids |-> <<m[i].ids[j]>>]

Behind(m) == \A i \in 1 .. Len(m) : m[i].role = "tool" =>
  \E k \in 1 .. i - 1 : m[k].role = "assistant" /\ i <= k + Len(m[k].ids)

Complete(m) ==
  /\ \A i \in 1 .. Len(m) : m[i].role = "assistant" => \A j \in 1 .. Len(m[i].ids) : Result(m, i, j)
  /\ Behind(m)

\* All calls have their results but for the last l of the last message that asked, the
\* first of which has the number next.
OpenAt(m, k, l, next) ==
  /\ m[k].role = "assistant" /\ Len(m[k].ids) = (Len(m) - k) + l
  /\ \A j \in 1 .. Len(m[k].ids) : m[k].ids[j] + (Len(m) - k) + 1 = next + j
  /\ \A i \in 1 .. Len(m) : i # k /\ m[i].role = "assistant" =>
       \A j \in 1 .. Len(m[i].ids) : Result(m, i, j)
  /\ \A j \in 1 .. Len(m) - k : Result(m, k, j)

Open(m, l, next) == Behind(m) /\ \E k \in 1 .. Len(m) : OpenAt(m, k, l, next)

\* What the next call of a request may be.
Admitted(mode, call) ==
  IF mode = "builtin" THEN call.args \in {"fit", "unfit"} ELSE ~ Refused(call)

LocalInv(q, m) ==
  /\ q.at = "llm" => q.mode = "loop" /\ Complete(m)
  /\ q.at = "calls" => q.mode = "loop"
  /\ q.at \in {"calls", "tool"} => q.left # <<>>
  /\ q.at \in {"calls", "tool"} /\ q.mode = "loop" => Open(m, Len(q.left), q.next)
  /\ q.at = "tool" => Admitted(q.mode, Head(q.left))

BrainInv ==
  /\ Sorts
  /\ Len(session) <= 4 * Window /\ \E h \in Nat : Paired(session, h)
  /\ \A r \in Request : LocalInv(req[r], messages[r])
  /\ ChangesAllowed

LEMMA FullWindow == \A h, w \in Nat : h <= 2 * w /\ 2 * h + 2 > 4 * w => h = 2 * w
  OBVIOUS

\* A turn is put behind the session, and the first one goes when there are too many.
LEMMA TurnAppended ==
  ASSUME NEW s \in Seq(Turn), NEW h \in Nat, Paired(s, h), Len(s) <= 4 * Window, NEW r \in Request
  PROVE  LET t == Trimmed(s \o <<[who |-> "user", r |-> r], [who |-> "assistant", r |-> r]>>)
         IN  t \in Seq(Turn) /\ Len(t) <= 4 * Window /\ \E g \in Nat : Paired(t, g)
<1> DEFINE u == [who |-> "user", r |-> r]
           a == [who |-> "assistant", r |-> r]
           p == <<u, a>>
           b == s \o p
           w == Window
           z == SubSeq(b, Len(b) - 4 * w + 1, Len(b))
<1>1. u \in Turn /\ a \in Turn /\ u.who = "user" /\ a.who = "assistant" /\ u.r = a.r
  BY DEF Turn
<1> HIDE DEF u, a
<1>2. p \in Seq(Turn) /\ Len(p) = 2 /\ p[1] = u /\ p[2] = a
  BY <1>1
<1> HIDE DEF p
<1>3. w \in Nat /\ w > 0
  BY BrainConstants
<1> HIDE DEF w
<1>4. Len(s) = 2 * h /\ h <= 2 * w /\ DOMAIN s = 1 .. Len(s)
  BY <1>3, LenProperties DEF Paired, w
<1>5. /\ b \in Seq(Turn) /\ Len(b) = 2 * h + 2
      /\ \A i \in 1 .. 2 * h + 2 : b[i] = IF i <= 2 * h THEN s[i] ELSE p[i - 2 * h]
  <2>1. /\ b \in Seq(Turn) /\ Len(b) = Len(s) + Len(p)
        /\ \A i \in 1 .. Len(s) + Len(p) : b[i] = IF i <= Len(s) THEN s[i] ELSE p[i - Len(s)]
    BY <1>2, ConcatProperties
  <2> HIDE DEF b
  <2> QED
    BY <1>2, <1>4, <2>1
<1>6. Paired(b, h + 1)
  <2> HIDE DEF b
  <2>1. ASSUME NEW i \in 1 .. h
        PROVE  /\ b[2 * i - 1].who = "user" /\ b[2 * i].who = "assistant"
               /\ b[2 * i - 1].r = b[2 * i].r
    <3>1. /\ 2 * i - 1 \in 1 .. 2 * h + 2 /\ 2 * i \in 1 .. 2 * h + 2
          /\ 2 * i - 1 <= 2 * h /\ 2 * i <= 2 * h
      OBVIOUS
    <3>2. b[2 * i - 1] = s[2 * i - 1] /\ b[2 * i] = s[2 * i]
      BY <1>5, <3>1
    <3> QED
      BY <3>2 DEF Paired
  <2>2. /\ 2 * (h + 1) - 1 \in 1 .. 2 * h + 2 /\ 2 * (h + 1) \in 1 .. 2 * h + 2
         /\ ~ (2 * (h + 1) - 1 <= 2 * h) /\ ~ (2 * (h + 1) <= 2 * h)
         /\ (2 * (h + 1) - 1) - 2 * h = 1 /\ 2 * (h + 1) - 2 * h = 2
    OBVIOUS
  <2>3. b[2 * (h + 1) - 1] = u /\ b[2 * (h + 1)] = a
    BY <1>2, <1>5, <2>2
  <2>4. \A i \in 1 .. h + 1 : i \in 1 .. h \/ i = h + 1
    OBVIOUS
  <2>5. Len(b) = 2 * (h + 1)
    BY <1>5
  <2> QED
    BY <1>1, <2>1, <2>3, <2>4, <2>5 DEF Paired
<1>7. CASE Len(b) > 4 * w
  <2>1. h = 2 * w
    <3>1. h <= 2 * w
      BY <1>4
    <3>2. Len(b) = 2 * h + 2
      BY <1>5
    <3>3. 2 * h + 2 > 4 * w
      BY <1>7, <3>2
    <3> QED
      BY <1>3, <3>1, <3>3, FullWindow
  <2>2. z = SubSeq(b, 3, 4 * w + 2)
    <3> HIDE DEF b
    <3>1. Len(b) - 4 * w + 1 = 3 /\ Len(b) = 4 * w + 2
      BY <1>3, <1>5, <2>1
    <3> QED
      BY <3>1
  <2>3. \A i \in 3 .. 4 * w + 2 : b[i] \in Turn
    BY <1>3, <1>5, <2>1, ElementOfSeq
  <2>4. /\ z \in Seq(Turn) /\ Len(z) = 4 * w
        /\ \A i \in 1 .. 4 * w : z[i] = b[i + 2]
    <3>1. 3 \in Int /\ 4 * w + 2 \in Int /\ 3 <= 4 * w + 2
          /\ (4 * w + 2) - 3 + 1 = 4 * w /\ \A i \in Nat : 3 + i - 1 = i + 2
      BY <1>3
    <3> HIDE DEF b, z
    <3>2. /\ SubSeq(b, 3, 4 * w + 2) \in Seq(Turn)
          /\ Len(SubSeq(b, 3, 4 * w + 2)) = 4 * w
          /\ \A i \in 1 .. 4 * w : SubSeq(b, 3, 4 * w + 2)[i] = b[3 + i - 1]
      BY <1>3, <2>3, <3>1, SubSeqProperties
    <3> QED
      BY <2>2, <3>1, <3>2, <1>3
  <2> HIDE DEF b, z
  <2>5. Paired(z, h)
    <3>1. ASSUME NEW i \in 1 .. h
          PROVE  /\ z[2 * i - 1].who = "user" /\ z[2 * i].who = "assistant"
                 /\ z[2 * i - 1].r = z[2 * i].r
      <4>1. z[2 * i - 1] = b[2 * (i + 1) - 1] /\ z[2 * i] = b[2 * (i + 1)]
        BY <1>3, <2>1, <2>4
      <4>2. i + 1 \in 1 .. h + 1
        OBVIOUS
      <4> QED
        BY <1>6, <4>1, <4>2 DEF Paired
    <3>2. Len(z) = 2 * h
      BY <1>3, <2>1, <2>4
    <3> QED
      BY <3>1, <3>2 DEF Paired
  <2>6. Trimmed(b) = z
    BY <1>7 DEF Trimmed, z, w
  <2>7. z \in Seq(Turn) /\ Len(z) <= 4 * w /\ \E g \in Nat : Paired(z, g)
    BY <1>3, <2>4, <2>5
  <2>8. Trimmed(b) \in Seq(Turn) /\ Len(Trimmed(b)) <= 4 * w /\ \E g \in Nat : Paired(Trimmed(b), g)
    BY <2>6, <2>7
  <2> QED
    BY <2>8 DEF b, p, u, a, w
<1>8. CASE ~ (Len(b) > 4 * w)
  <2>1. Trimmed(b) = b /\ Len(b) <= 4 * w
    BY <1>3, <1>5, <1>8 DEF Trimmed, w
  <2> HIDE DEF b
  <2>2. h + 1 \in Nat
    OBVIOUS
  <2> QED
    BY <1>5, <1>6, <2>1, <2>2 DEF b, p, u, a, w
<1> QED
  BY <1>7, <1>8

\* The assistant asks for calls.
LEMMA Asked ==
  ASSUME NEW m \in Seq(Said), Complete(m), NEW next \in Nat, NEW n \in Nat \ {0},
         NEW ids \in Seq(Nat), Len(ids) = n, \A i \in 1 .. n : ids[i] = next + i - 1
  PROVE  Open(Append(m, [role |-> "assistant", ids |-> ids]), n, next)
<1> DEFINE e == [role |-> "assistant", ids |-> ids]
           b == Append(m, e)
           k == Len(m) + 1
<1>1. e \in Said /\ e.role = "assistant" /\ e.ids = ids
  BY DEF Said
<1> HIDE DEF e
<1>2. Len(m) \in Nat
  BY LenProperties
<1>3. b \in Seq(Said) /\ Len(b) = k /\ b[k] = e /\ \A i \in 1 .. Len(m) : b[i] = m[i]
  BY <1>1, <1>2, AppendProperties
<1> HIDE DEF b
<1>4. ASSUME NEW i \in 1 .. Len(b), i # k, b[i].role = "assistant",
             NEW j \in 1 .. Len(b[i].ids)
      PROVE  Result(b, i, j)
  <2>1. i \in 1 .. Len(m) /\ b[i] = m[i]
    BY <1>2, <1>3, <1>4
  <2>2. Result(m, i, j)
    BY <1>4, <2>1 DEF Complete
  <2>3. j \in Nat
    <3>1. m[i] \in Said
      BY <2>1, ElementOfSeq
    <3>2. Len(m[i].ids) \in Nat
      BY <3>1, LenProperties DEF Said
    <3> QED
      BY <2>1, <3>2
  <2>4. i + j \in 1 .. Len(m) /\ i + j <= Len(b)
    BY <1>2, <1>3, <2>1, <2>2, <2>3 DEF Result
  <2> QED
    BY <1>3, <2>1, <2>2, <2>4 DEF Result
<1>5. ASSUME NEW i \in 1 .. Len(b), b[i].role = "tool"
      PROVE  \E h \in 1 .. i - 1 : b[h].role = "assistant" /\ i <= h + Len(b[h].ids)
  <2>1. i \in 1 .. Len(m) /\ b[i] = m[i]
    BY <1>1, <1>2, <1>3, <1>5
  <2>2. PICK h \in 1 .. i - 1 : m[h].role = "assistant" /\ i <= h + Len(m[h].ids)
    BY <1>5, <2>1 DEF Complete, Behind
  <2>3. b[h] = m[h]
    BY <1>2, <1>3, <2>1
  <2> QED
    BY <2>2, <2>3
<1>6. OpenAt(b, k, n, next)
  <2>1. Len(b) - k = 0 /\ Len(b[k].ids) = (Len(b) - k) + n
    BY <1>1, <1>2, <1>3
  <2>2. \A j \in 1 .. Len(b[k].ids) : b[k].ids[j] + (Len(b) - k) + 1 = next + j
    BY <1>1, <1>3, <2>1
  <2>3. \A j \in 1 .. Len(b) - k : FALSE
    BY <2>1
  <2> QED
    BY <1>1, <1>3, <1>4, <2>1, <2>2, <2>3 DEF OpenAt
<1> QED
  BY <1>2, <1>3, <1>5, <1>6 DEF Open, Behind, b, e

\* The next call has its result.
LEMMA NextAnswered ==
  ASSUME NEW m \in Seq(Said), NEW l \in Nat \ {0}, NEW next \in Nat, Open(m, l, next)
  PROVE  Open(Append(m, [role |-> "tool", ids |-> <<next>>]), l - 1, next + 1)
<1> DEFINE e == [role |-> "tool", ids |-> <<next>>]
           b == Append(m, e)
<1>1. e \in Said /\ e.role = "tool"
  BY DEF Said
<1> DEFINE N == Len(m)
<1>2. N \in Nat
  BY LenProperties
<1>3. b \in Seq(Said) /\ Len(b) = N + 1 /\ b[N + 1] = e
      /\ \A i \in 1 .. N : b[i] = m[i]
  <2> HIDE DEF e
  <2> QED
    BY <1>1, <1>2, AppendProperties
<1> HIDE DEF N
<1>4. PICK k \in 1 .. Len(m) : OpenAt(m, k, l, next)
  BY DEF Open
<1> DEFINE d == N - k
           ids == m[k].ids
<1>5. m[k].role = "assistant" /\ Len(ids) = d + l
  BY <1>4 DEF OpenAt, N
<1>6. \A j \in 1 .. Len(ids) : ids[j] + d + 1 = next + j
  BY <1>4 DEF OpenAt, N
<1>7. \A j \in 1 .. d : Result(m, k, j)
  BY <1>4 DEF OpenAt, N
<1>8. \A i \in 1 .. N : i # k /\ m[i].role = "assistant" =>
         \A j \in 1 .. Len(m[i].ids) : Result(m, i, j)
  BY <1>4 DEF OpenAt, N
<1>9. d \in Nat /\ k + d = N /\ k \in Nat /\ k \in 1 .. N
  BY <1>2, <1>4 DEF N
<1>10. ids \in Seq(Nat)
  <2>1. m[k] \in Said
    BY <1>4, ElementOfSeq
  <2> QED
    BY <2>1 DEF Said
<1> HIDE DEF b, d, ids
<1>11. d + 1 \in 1 .. Len(ids)
  BY <1>5, <1>9
<1>12. d + 1 \in 1 .. Len(ids) /\ ids[d + 1] \in Nat
  BY <1>10, <1>11, ElementOfSeq
<1>13. ids[d + 1] = next
  BY <1>6, <1>9, <1>12
<1>14. Len(b) - k = d + 1 /\ b[k] = m[k] /\ k \in 1 .. Len(b)
  <2>1. k \in 1 .. N + 1 /\ (N + 1) - k = d + 1
    BY <1>2, <1>9
  <2> QED
    BY <1>3, <1>9, <2>1
<1>15. \A i \in 1 .. N, j \in Nat : Result(m, i, j) /\ 1 <= j => Result(b, i, j)
  <2> SUFFICES ASSUME NEW i \in 1 .. N, NEW j \in Nat, Result(m, i, j), 1 <= j
               PROVE  Result(b, i, j)
    OBVIOUS
  <2>1. i + j \in 1 .. N /\ i + j <= Len(b)
    <3>1. i + j <= N
      BY DEF Result, N
    <3> QED
      BY <1>2, <1>3, <3>1
  <2> QED
    BY <1>3, <2>1 DEF Result
<1>16. Result(b, k, d + 1)
  <2>1. k + (d + 1) = N + 1 /\ k + (d + 1) <= Len(b)
    <3>1. k + (d + 1) = N + 1
      BY <1>2, <1>9
    <3>2. N + 1 <= Len(b)
      BY <1>2, <1>3
    <3> QED
      BY <3>1, <3>2
  <2>2. b[k + (d + 1)] = e
    BY <1>3, <2>1
  <2> QED
    BY <1>13, <1>14, <2>1, <2>2 DEF Result, ids
<1>17. \A j \in 1 .. Len(b) - k : Result(b, k, j)
  <2> SUFFICES ASSUME NEW j \in 1 .. d + 1 PROVE Result(b, k, j)
    BY <1>14
  <2>1. CASE j = d + 1
    BY <1>16, <2>1
  <2>2. CASE j # d + 1
    <3>1. j \in 1 .. d /\ j \in Nat
      BY <1>9, <2>2
    <3> QED
      BY <1>9, <1>7, <1>15, <3>1
  <2> QED
    BY <2>1, <2>2
<1>18. ASSUME NEW i \in 1 .. Len(b), i # k, b[i].role = "assistant",
              NEW j \in 1 .. Len(b[i].ids)
       PROVE  Result(b, i, j)
  <2>1. i \in 1 .. N /\ b[i] = m[i]
    <3>1. i # N + 1
      BY <1>1, <1>3, <1>18
    <3> QED
      BY <1>2, <1>3, <1>18, <3>1
  <2>2. m[i] \in Said
    BY <2>1, ElementOfSeq DEF N
  <2>3. Len(m[i].ids) \in Nat
    BY <2>2, LenProperties DEF Said
  <2> QED
    <3>1. Result(m, i, j)
      BY <1>8, <1>18, <2>1
    <3>2. j \in Nat /\ 1 <= j
      BY <2>1, <2>3
    <3> QED
      BY <1>15, <2>1, <3>1, <3>2
<1>19. ASSUME NEW i \in 1 .. Len(b), b[i].role = "tool"
       PROVE  \E h \in 1 .. i - 1 : b[h].role = "assistant" /\ i <= h + Len(b[h].ids)
  <2>1. CASE i = N + 1
    <3>1. k \in 1 .. i - 1 /\ b[k].role = "assistant"
      BY <1>2, <1>9, <1>5, <1>14, <2>1
    <3>2. i <= k + Len(b[k].ids)
      <4>1. i <= k + (d + l)
        BY <1>9, <2>1
      <4> QED
        BY <1>5, <1>14, <4>1 DEF ids
    <3> QED
      BY <3>1, <3>2
  <2>2. CASE i # N + 1
    <3>1. i \in 1 .. N /\ b[i] = m[i]
      BY <1>2, <1>3, <2>2
    <3>2. PICK h \in 1 .. i - 1 : m[h].role = "assistant" /\ i <= h + Len(m[h].ids)
      BY <1>19, <3>1 DEF Open, Behind, N
    <3>3. b[h] = m[h]
      BY <1>2, <1>3, <3>1
    <3> QED
      BY <3>2, <3>3
  <2> QED
    BY <2>1, <2>2
<1>20. OpenAt(b, k, l - 1, next + 1)
  <2>1. b[k].role = "assistant" /\ Len(b[k].ids) = (Len(b) - k) + (l - 1)
    <3>1. d + l = (d + 1) + (l - 1)
      BY <1>9
    <3> QED
      BY <1>5, <1>14, <3>1 DEF ids
  <2>2. \A j \in 1 .. Len(b[k].ids) : b[k].ids[j] + (Len(b) - k) + 1 = (next + 1) + j
    <3> SUFFICES ASSUME NEW j \in 1 .. Len(ids) PROVE ids[j] + (d + 1) + 1 = (next + 1) + j
      BY <1>14 DEF ids
    <3>1. ids[j] + d + 1 = next + j
      BY <1>6
    <3>2. ids[j] \in Nat
      BY <1>10, ElementOfSeq
    <3>3. Len(ids) \in Nat
      BY <1>10, LenProperties
    <3>4. j \in Nat
      BY <3>3
    <3> DEFINE x == ids[j]
    <3>5. x \in Nat /\ x + d + 1 = next + j
      BY <3>1, <3>2
    <3> HIDE DEF x
    <3>6. x + (d + 1) + 1 = (next + 1) + j
      BY <1>9, <3>4, <3>5
    <3> QED
      BY <3>6 DEF x
  <2> QED
    BY <1>17, <1>18, <2>1, <2>2 DEF OpenAt
<1> QED
  BY <1>14, <1>19, <1>20 DEF Open, Behind, b, e

\* No call is left.
LEMMA AllAnswered ==
  ASSUME NEW m \in Seq(Said), NEW next, Open(m, 0, next)
  PROVE  Complete(m)
<1>1. PICK k \in 1 .. Len(m) : OpenAt(m, k, 0, next)
  BY DEF Open
<1>2. Len(m) - k \in Nat /\ Len(m[k].ids) = Len(m) - k
  <2>1. Len(m) \in Nat
    BY LenProperties
  <2> QED
    BY <1>1, <2>1 DEF OpenAt
<1>3. \A i \in 1 .. Len(m) : m[i].role = "assistant" =>
        \A j \in 1 .. Len(m[i].ids) : Result(m, i, j)
  BY <1>1, <1>2 DEF OpenAt
<1> QED
  BY <1>3 DEF Complete, Open
\* Assignments to the fields of a request
LEMMA PutAt ==
  ASSUME NEW q \in Place, NEW x \in {"idle", "llm", "calls", "tool", "over", "done"}
  PROVE  LET n == [q EXCEPT !.at = x] IN
         n \in Place /\ n.at = x /\ n.mode = q.mode /\ n.left = q.left /\ n.rounds = q.rounds /\ n.next = q.next
  BY DEF Place

LEMMA PutLeft ==
  ASSUME NEW q \in Place, NEW x \in Seq(Call)
  PROVE  LET n == [q EXCEPT !.left = x] IN
         n \in Place /\ n.left = x /\ n.at = q.at /\ n.mode = q.mode /\ n.rounds = q.rounds /\ n.next = q.next
  BY DEF Place

LEMMA PutNext ==
  ASSUME NEW q \in Place, NEW x \in Nat
  PROVE  LET n == [q EXCEPT !.next = x] IN
         n \in Place /\ n.next = x /\ n.at = q.at /\ n.mode = q.mode /\ n.left = q.left /\ n.rounds = q.rounds
  BY DEF Place

LEMMA PutRounds ==
  ASSUME NEW q \in Place, NEW x \in Nat
  PROVE  LET n == [q EXCEPT !.rounds = x] IN
         n \in Place /\ n.rounds = x /\ n.at = q.at /\ n.mode = q.mode /\ n.left = q.left /\ n.next = q.next
  BY DEF Place

\* After a call comes the next one, or the LLM with every call answered.
LEMMA AfterCallKeeps ==
  ASSUME NEW q \in Place, NEW m \in Seq(Said), LocalInv(q, m), q.at \in {"calls", "tool"},
         q.mode = "loop"
  PROVE  LET n == AfterCall(q)  b == Append(m, [role |-> "tool", ids |-> <<q.next>>])
         IN  n \in Place /\ b \in Seq(Said) /\ LocalInv(n, b)
<1> DEFINE n == AfterCall(q)
           b == Append(m, [role |-> "tool", ids |-> <<q.next>>])
           t == Tail(q.left)
           l == Len(q.left)
<1>1. /\ q.left \in Seq(Call) /\ q.left # <<>> /\ q.next \in Nat /\ q.rounds \in Nat
      /\ Open(m, Len(q.left), q.next)
  BY DEF LocalInv, Place
<1>2. l \in Nat \ {0}
  BY <1>1, EmptySeq
<1>3. Open(b, l - 1, q.next + 1)
  BY <1>1, <1>2, NextAnswered
<1>4. b \in Seq(Said)
  <2>1. [role |-> "tool", ids |-> <<q.next>>] \in Said
    BY <1>1 DEF Said
  <2> QED
    BY <2>1, AppendProperties
<1>5. t \in Seq(Call) /\ Len(t) = l - 1
  BY <1>1, HeadTailProperties
<1> HIDE DEF b, t, l
<1>6. CASE l > 1
  <2> DEFINE n1 == [q EXCEPT !.at = "calls"]
             n2 == [n1 EXCEPT !.left = t]
             n3 == [n2 EXCEPT !.next = q.next + 1]
  <2>1. n = n3
    BY <1>6 DEF AfterCall, l, t
  <2>2. n1 \in Place /\ n1.at = "calls" /\ n1.mode = "loop"
    BY PutAt
  <2> HIDE DEF n1
  <2>3. n2 \in Place /\ n2.at = "calls" /\ n2.mode = "loop" /\ n2.left = t
    BY <1>5, <2>2, PutLeft
  <2> HIDE DEF n2
  <2>4. q.next + 1 \in Nat
    BY <1>1
  <2>5. n3 \in Place /\ n3.at = "calls" /\ n3.mode = "loop" /\ n3.left = t /\ n3.next = q.next + 1
    BY <2>3, <2>4, PutNext
  <2> HIDE DEF n3, n
  <2>6. n \in Place /\ n.at = "calls" /\ n.mode = "loop" /\ n.left = t /\ n.next = q.next + 1
    BY <2>1, <2>5
  <2>7. t # <<>>
    BY <1>2, <1>5, <1>6, EmptySeq
  <2> QED
    BY <1>3, <1>4, <1>5, <2>6, <2>7 DEF LocalInv, b, n
<1>7. CASE ~ (l > 1)
  <2> DEFINE p == IF q.rounds + 1 < MaxIterations THEN "llm" ELSE "over"
  <2> DEFINE n1 == [q EXCEPT !.at = p]
             n2 == [n1 EXCEPT !.left = <<>>]
             n3 == [n2 EXCEPT !.next = q.next + 1]
             n4 == [n3 EXCEPT !.rounds = q.rounds + 1]
  <2>1. n = n4
    BY <1>7 DEF AfterCall, l
  <2>2. p \in {"llm", "over"}
    OBVIOUS
  <2> HIDE DEF p
  <2>3. p \in {"idle", "llm", "calls", "tool", "over", "done"}
    BY <2>2
  <2>4. n1 \in Place /\ n1.at = p /\ n1.mode = "loop"
    BY <2>3, PutAt
  <2> HIDE DEF n1
  <2>5. n2 \in Place /\ n2.at = p /\ n2.mode = "loop"
    BY <2>4, EmptySeq, PutLeft
  <2> HIDE DEF n2
  <2>6. q.next + 1 \in Nat /\ q.rounds + 1 \in Nat
    BY <1>1
  <2>7. n3 \in Place /\ n3.at = p /\ n3.mode = "loop"
    BY <2>5, <2>6, PutNext
  <2> HIDE DEF n3
  <2>8. n4 \in Place /\ n4.at = p /\ n4.mode = "loop"
    BY <2>6, <2>7, PutRounds
  <2> HIDE DEF n4, n
  <2>9. n \in Place /\ n.at = p /\ n.mode = "loop"
    BY <2>1, <2>8
  <2>10. l - 1 = 0
    BY <1>2, <1>7
  <2>11. Complete(b)
    BY <1>1, <1>3, <1>4, <2>10, AllAnswered
  <2> QED
    BY <1>4, <2>2, <2>9, <2>11 DEF LocalInv, b, n
<1> QED
  BY <1>6, <1>7

\* An admitted call changes what it may.
LEMMA AdmittedMay ==
  ASSUME NEW call \in Call, NEW mode, Admitted(mode, call), Changes(call),
         call.tool \in Guarded
  PROVE  call.args = "fit"
  BY DEF Call, Admitted, Changes, Refused, Blocked, Guarded

LEMMA BrainInitInv == BrainInit => BrainInv
<1> SUFFICES ASSUME BrainInit PROVE BrainInv
  OBVIOUS
<1>1. <<>> \in Seq(Turn) /\ <<>> \in Seq(Said) /\ <<>> \in Seq(Call) /\ Len(<<>>) = 0
  BY EmptySeq
<1>2. Fresh \in Place /\ Fresh.at = "idle"
  BY <1>1 DEF Fresh, Place
<1>3. Sorts
  BY <1>1, <1>2 DEF BrainInit, Sorts
<1>4. 0 \in Nat /\ Paired(session, 0) /\ Len(session) <= 4 * Window
  BY <1>1, BrainConstants DEF BrainInit, Paired
<1>5. \A r \in Request : LocalInv(req[r], messages[r])
  BY <1>2 DEF BrainInit, LocalInv
<1>6. ChangesAllowed
  BY DEF BrainInit, ChangesAllowed
<1> QED
  BY <1>3, <1>4, <1>5, <1>6 DEF BrainInv

\* A step of one request
LEMMA RequestGoes ==
  ASSUME BrainInv, NEW r \in Request,
         req' = [req EXCEPT ![r] = req'[r]], messages' = [messages EXCEPT ![r] = messages'[r]],
         req'[r] \in Place, messages'[r] \in Seq(Said), LocalInv(req'[r], messages'[r]),
         session' = session \/ AppendTurn(r), ChangesAllowed'
  PROVE  BrainInv'
<1>1. req' \in [Request -> Place]
  BY DEF BrainInv, Sorts
<1>2. messages' \in [Request -> Seq(Said)]
  BY DEF BrainInv, Sorts
<1>3. session' \in Seq(Turn) /\ Len(session') <= 4 * Window /\ \E h \in Nat : Paired(session', h)
  <2>1. CASE session' = session
    BY <2>1 DEF BrainInv, Sorts
  <2>2. CASE AppendTurn(r)
    <3>1. PICK h \in Nat : Paired(session, h)
      BY DEF BrainInv
    <3>2. session \in Seq(Turn) /\ Len(session) <= 4 * Window
      BY DEF BrainInv, Sorts
    <3> QED
      BY <2>2, <3>1, <3>2, TurnAppended DEF AppendTurn
  <2> QED
    BY <2>1, <2>2
<1>4. \A v \in Request : LocalInv(req'[v], messages'[v])
  <2> SUFFICES ASSUME NEW v \in Request PROVE LocalInv(req'[v], messages'[v])
    OBVIOUS
  <2>1. CASE v = r
    BY <2>1
  <2>2. CASE v # r
    <3>1. req'[v] = req[v] /\ messages'[v] = messages[v]
      BY <2>2 DEF BrainInv, Sorts
    <3> QED
      BY <3>1 DEF BrainInv
  <2> QED
    BY <2>1, <2>2
<1> QED
  BY <1>1, <1>2, <1>3, <1>4 DEF BrainInv, Sorts

\* A request that is over has nothing left to keep.
LEMMA Ended ==
  ASSUME NEW q \in Place, NEW m
  PROVE  LET n == [q EXCEPT !.at = "done", !.left = <<>>]
         IN  n \in Place /\ LocalInv(n, m)
<1> DEFINE n == [q EXCEPT !.at = "done", !.left = <<>>]
<1>1. <<>> \in Seq(Call)
  BY EmptySeq
<1>2. n \in Place /\ n.at = "done"
  BY <1>1 DEF Place
<1> HIDE DEF n
<1> QED
  BY <1>2 DEF LocalInv, n

LEMMA FreshRequest ==
  ASSUME NEW mode \in {"explicit", "builtin", "loop"}
  PROVE  /\ [Fresh EXCEPT !.at = "done", !.mode = mode] \in Place
         /\ [Fresh EXCEPT !.at = "llm", !.mode = mode] \in Place
         /\ \A call \in Call : [Fresh EXCEPT !.at = "tool", !.mode = mode, !.left = <<call>>] \in Place
<1>1. <<>> \in Seq(Call) /\ \A call \in Call : <<call>> \in Seq(Call)
  BY EmptySeq
<1> QED
  BY <1>1 DEF Fresh, Place

\* A request is asked.
LEMMA AskStep ==
  ASSUME BrainInv, NEW r \in Request,
         (\E call \in Calls : AskTool(r, call) \/ AskBuiltin(r, call)) \/ AskLoop(r)
  PROVE  BrainInv'
<1>1. /\ messages' = [messages EXCEPT ![r] = <<>>] /\ changes' = changes
      /\ session' = session \/ AppendTurn(r)
  BY DEF AskTool, AskBuiltin, AskLoop
<1>2. messages' = [messages EXCEPT ![r] = messages'[r]] /\ messages'[r] = <<>>
  BY <1>1 DEF BrainInv, Sorts
<1>3. \E n \in Place : req' = [req EXCEPT ![r] = n] /\ LocalInv(n, <<>>)
  <2>1. ASSUME NEW call \in Calls, AskTool(r, call), Refused(call)
        PROVE  \E n \in Place : req' = [req EXCEPT ![r] = n] /\ LocalInv(n, <<>>)
    <3> DEFINE n == [Fresh EXCEPT !.at = "done", !.mode = "explicit"]
    <3>1. n \in Place /\ n.at = "done"
      BY FreshRequest DEF Fresh
    <3>2. req' = [req EXCEPT ![r] = n]
      BY <2>1 DEF AskTool
    <3> HIDE DEF n
    <3> QED
      BY <3>1, <3>2 DEF LocalInv
  <2>2. ASSUME NEW call \in Calls, NEW mode \in {"explicit", "builtin"}, Admitted(mode, call),
               req' = [req EXCEPT ![r] = [Fresh EXCEPT !.at = "tool", !.mode = mode, !.left = <<call>>]]
        PROVE  \E n \in Place : req' = [req EXCEPT ![r] = n] /\ LocalInv(n, <<>>)
    <3> DEFINE n == [Fresh EXCEPT !.at = "tool", !.mode = mode, !.left = <<call>>]
    <3>1. n \in Place
      BY FreshRequest, BrainConstants
    <3>2. n.at = "tool" /\ n.mode = mode /\ n.left = <<call>>
      BY DEF Fresh
    <3>3. <<call>> # <<>> /\ Head(<<call>>) = call
      OBVIOUS
    <3>4. req' = [req EXCEPT ![r] = n]
      BY <2>2
    <3> HIDE DEF n
    <3>5. LocalInv(n, <<>>)
      BY <2>2, <3>2, <3>3 DEF LocalInv
    <3> QED
      BY <3>1, <3>4, <3>5
  <2>3. ASSUME NEW call \in Calls, AskTool(r, call), ~ Refused(call)
        PROVE  \E n \in Place : req' = [req EXCEPT ![r] = n] /\ LocalInv(n, <<>>)
    BY <2>2, <2>3 DEF AskTool, Admitted
  <2>4. ASSUME NEW call \in Calls, AskBuiltin(r, call)
        PROVE  \E n \in Place : req' = [req EXCEPT ![r] = n] /\ LocalInv(n, <<>>)
    BY <2>2, <2>4 DEF AskBuiltin, Admitted
  <2>5. CASE AskLoop(r)
    <3> DEFINE n == [Fresh EXCEPT !.at = "llm", !.mode = "loop"]
    <3>1. n \in Place /\ n.at = "llm" /\ n.mode = "loop"
      BY FreshRequest DEF Fresh
    <3>2. req' = [req EXCEPT ![r] = n]
      BY <2>5 DEF AskLoop
    <3>3. Complete(<<>>)
      BY DEF Complete, Behind
    <3> HIDE DEF n
    <3> QED
      BY <3>1, <3>2, <3>3 DEF LocalInv
  <2> QED
    BY <2>1, <2>3, <2>4, <2>5
<1>4. /\ req' = [req EXCEPT ![r] = req'[r]] /\ req'[r] \in Place
      /\ LocalInv(req'[r], messages'[r])
  BY <1>2, <1>3 DEF BrainInv, Sorts
<1>5. messages'[r] \in Seq(Said) /\ ChangesAllowed'
  BY <1>1, <1>2, EmptySeq DEF BrainInv, ChangesAllowed
<1> QED
  BY <1>1, <1>2, <1>4, <1>5, RequestGoes
\* The answer ends a request.
LEMMA AnswerStep ==
  ASSUME BrainInv, NEW r \in Request, Answered(r), messages' = messages, ChangesAllowed'
  PROVE  BrainInv'
<1> DEFINE n == [req[r] EXCEPT !.at = "done", !.left = <<>>]
<1>1. req' = [req EXCEPT ![r] = n] /\ AppendTurn(r)
  BY DEF Answered
<1>2. req[r] \in Place /\ messages[r] \in Seq(Said)
  BY DEF BrainInv, Sorts
<1>3. n \in Place /\ LocalInv(n, messages[r])
  BY <1>2, Ended
<1> HIDE DEF n
<1>4. req'[r] = n /\ req' = [req EXCEPT ![r] = req'[r]]
      /\ messages' = [messages EXCEPT ![r] = messages'[r]]
  BY <1>1 DEF BrainInv, Sorts
<1> QED
  BY <1>1, <1>2, <1>3, <1>4, RequestGoes

LEMMA ReplyCallsStep ==
  ASSUME BrainInv, NEW r \in Request, NEW n \in 1 .. MaxCalls, NEW calls \in [1 .. n -> Calls],
         ReplyCalls(r, calls)
  PROVE  BrainInv'
<1> DEFINE q == req[r]
           m == messages[r]
           ids == [i \in DOMAIN calls |-> q.next + i - 1]
           e == [role |-> "assistant", ids |-> ids]
           p == [q EXCEPT !.at = "calls", !.left = calls]
<1>1. /\ q.at = "llm" /\ req' = [req EXCEPT ![r] = p]
      /\ messages' = [messages EXCEPT ![r] = Append(m, e)]
      /\ UNCHANGED <<session, changes>>
  BY DEF ReplyCalls
<1>2. q \in Place /\ m \in Seq(Said) /\ q.next \in Nat /\ LocalInv(q, m)
  BY DEF BrainInv, Sorts, Place
<1>3. n \in Nat \ {0} /\ MaxCalls \in Nat
  BY BrainConstants
<1>4. calls \in Seq(Call) /\ Len(calls) = n /\ calls # <<>>
  <2>1. calls \in [1 .. n -> Call]
    BY BrainConstants
  <2>2. calls \in Seq(Call) /\ Len(calls) = n
    BY <1>3, <2>1
  <2> QED
    BY <1>3, <2>2, EmptySeq
<1>5. ids \in Seq(Nat) /\ Len(ids) = n /\ \A i \in 1 .. n : ids[i] = q.next + i - 1
  <2>1. ids = [i \in 1 .. n |-> q.next + i - 1]
    BY <1>3
  <2>2. \A i \in 1 .. n : q.next + i - 1 \in Nat
    BY <1>2, <1>3
  <2> HIDE DEF q, ids
  <2> QED
    BY <1>3, <2>1, <2>2
<1> HIDE DEF ids
<1>6. Open(Append(m, e), n, q.next)
  BY <1>1, <1>2, <1>3, <1>5, Asked DEF LocalInv
<1>7. e \in Said /\ Append(m, e) \in Seq(Said)
  <2>1. e \in Said
    BY <1>5 DEF Said
  <2> HIDE DEF e, m
  <2> QED
    BY <1>2, <2>1, AppendProperties
<1>8. p \in Place /\ p.at = "calls" /\ p.left = calls /\ p.next = q.next /\ p.mode = q.mode
  <2> DEFINE o == [q EXCEPT !.at = "calls"]
  <2>1. o \in Place /\ o.at = "calls" /\ o.next = q.next /\ o.mode = q.mode
    BY <1>2, PutAt
  <2>2. p = [o EXCEPT !.left = calls]
    OBVIOUS
  <2> HIDE DEF o, p
  <2> QED
    BY <1>4, <2>1, <2>2, PutLeft
<1>9. q.mode = "loop"
  BY <1>1, <1>2 DEF LocalInv
<1> HIDE DEF p, e
<1>10. LocalInv(p, Append(m, e))
  BY <1>4, <1>6, <1>8, <1>9 DEF LocalInv
<1>11. /\ req'[r] = p /\ req' = [req EXCEPT ![r] = req'[r]]
       /\ messages'[r] = Append(m, e) /\ messages' = [messages EXCEPT ![r] = messages'[r]]
  BY <1>1 DEF BrainInv, Sorts, p, e
<1>12. ChangesAllowed' /\ session' = session
  BY <1>1 DEF BrainInv, ChangesAllowed
<1>13. req'[r] \in Place /\ messages'[r] \in Seq(Said) /\ LocalInv(req'[r], messages'[r])
  BY <1>7, <1>8, <1>10, <1>11
<1> QED
  BY <1>11, <1>12, <1>13, RequestGoes

\* A call has its result, whatever it changed.
LEMMA CallStep ==
  ASSUME BrainInv, NEW r \in Request, req[r].at \in {"calls", "tool"}, req[r].mode = "loop",
         NEW call, ToolMessage(r, call), req' = [req EXCEPT ![r] = AfterCall(@)],
         session' = session, ChangesAllowed'
  PROVE  BrainInv'
<1> DEFINE b == Append(messages[r], [role |-> "tool", ids |-> <<req[r].next>>])
           n == AfterCall(req[r])
<1>1. /\ req'[r] = n /\ req' = [req EXCEPT ![r] = req'[r]]
      /\ messages'[r] = b /\ messages' = [messages EXCEPT ![r] = messages'[r]]
  BY DEF ToolMessage, BrainInv, Sorts
<1>2. req[r] \in Place /\ messages[r] \in Seq(Said) /\ LocalInv(req[r], messages[r])
  BY DEF BrainInv, Sorts
<1>3. n \in Place /\ b \in Seq(Said) /\ LocalInv(n, b)
  BY <1>2, AfterCallKeeps
<1> HIDE DEF b, n
<1> QED
  BY <1>1, <1>3, RequestGoes

LEMMA NextCallStep ==
  ASSUME BrainInv, NEW r \in Request, NextCall(r)
  PROVE  BrainInv'
<1> DEFINE q == req[r]
           call == Head(q.left)
           n == [q EXCEPT !.at = "tool"]
<1>1. q.at = "calls" /\ session' = session /\ changes' = changes
  BY DEF NextCall
<1>2. q \in Place /\ messages[r] \in Seq(Said) /\ LocalInv(q, messages[r])
  BY DEF BrainInv, Sorts
<1>3. q.mode = "loop" /\ ChangesAllowed'
  BY <1>1, <1>2 DEF LocalInv, BrainInv, ChangesAllowed
<1>4. CASE Refused(call)
  <2>1. ToolMessage(r, call) /\ req' = [req EXCEPT ![r] = AfterCall(@)]
    BY <1>4 DEF NextCall
  <2> QED
    BY <1>1, <1>3, <2>1, CallStep
<1>5. CASE ~ Refused(call)
  <2>1. req' = [req EXCEPT ![r] = n] /\ messages' = messages
    BY <1>5 DEF NextCall
  <2>2. n \in Place /\ n.at = "tool" /\ n.mode = q.mode /\ n.left = q.left /\ n.next = q.next
    BY <1>2, PutAt
  <2> HIDE DEF n
  <2>3. LocalInv(n, messages[r])
    BY <1>1, <1>2, <1>3, <1>5, <2>2 DEF LocalInv, Admitted
  <2>4. /\ req'[r] = n /\ req' = [req EXCEPT ![r] = req'[r]]
        /\ messages' = [messages EXCEPT ![r] = messages'[r]]
    BY <2>1 DEF BrainInv, Sorts
  <2> QED
    BY <1>1, <1>2, <1>3, <2>1, <2>2, <2>3, <2>4, RequestGoes
<1> QED
  BY <1>4, <1>5

\* What a tool changes was admitted.
LEMMA ChangeAllowed ==
  ASSUME BrainInv, NEW r \in Request, req[r].at = "tool", Changes(Head(req[r].left)),
         changes' = changes \cup {Head(req[r].left)}
  PROVE  ChangesAllowed'
<1> DEFINE call == Head(req[r].left)
<1>1. req[r] \in Place /\ LocalInv(req[r], messages[r])
  BY DEF BrainInv, Sorts
<1>2. call \in Call
  BY <1>1, HeadTailProperties DEF Place, LocalInv
<1>3. Admitted(req[r].mode, call)
  BY <1>1 DEF LocalInv
<1> HIDE DEF call
<1>4. call.tool \in Guarded => call.args = "fit"
  BY <1>2, <1>3, AdmittedMay DEF call
<1> QED
  BY <1>4 DEF BrainInv, ChangesAllowed, call

LEMMA ToolEndsStep ==
  ASSUME BrainInv, NEW r \in Request, ToolEnds(r)
  PROVE  BrainInv'
<1>1. ChangesAllowed'
  <2>1. CASE changes' = changes
    BY <2>1 DEF BrainInv, ChangesAllowed
  <2>2. CASE Changes(Head(req[r].left)) /\ changes' = changes \cup {Head(req[r].left)}
    BY <2>2, ChangeAllowed DEF ToolEnds
  <2> QED
    BY <2>1, <2>2 DEF ToolEnds
<1>2. CASE req[r].mode = "loop"
  BY <1>1, <1>2, CallStep DEF ToolEnds
<1>3. CASE req[r].mode # "loop"
  BY <1>1, <1>3, AnswerStep DEF ToolEnds
<1> QED
  BY <1>2, <1>3

LEMMA CancelledStep ==
  ASSUME BrainInv, NEW r \in Request, Cancelled(r)
  PROVE  BrainInv'
<1> DEFINE n == [req[r] EXCEPT !.at = "done", !.left = <<>>]
<1>1. req' = [req EXCEPT ![r] = n] /\ messages' = messages /\ session' = session
  BY DEF Cancelled
<1>2. req[r] \in Place /\ messages[r] \in Seq(Said)
  BY DEF BrainInv, Sorts
<1>3. n \in Place /\ LocalInv(n, messages[r])
  BY <1>2, Ended
<1> HIDE DEF n
<1>4. req'[r] = n /\ req' = [req EXCEPT ![r] = req'[r]]
      /\ messages' = [messages EXCEPT ![r] = messages'[r]]
  BY <1>1 DEF BrainInv, Sorts
<1>5. ChangesAllowed'
  <2>1. CASE changes' = changes
    BY <2>1 DEF BrainInv, ChangesAllowed
  <2>2. CASE changes' # changes
    BY <2>2, ChangeAllowed DEF Cancelled
  <2> QED
    BY <2>1, <2>2
<1> QED
  BY <1>1, <1>2, <1>3, <1>4, <1>5, RequestGoes

LEMMA BrainStep == BrainInv /\ [BrainNext]_brainVars => BrainInv'
<1> SUFFICES ASSUME BrainInv, [BrainNext]_brainVars PROVE BrainInv'
  OBVIOUS
<1>1. CASE UNCHANGED brainVars
  BY <1>1 DEF brainVars, BrainInv, Sorts, ChangesAllowed
<1>2. ASSUME NEW r \in Request, Unavailable(r) \/ Reply(r) \/ OutOfRounds(r)
      PROVE  BrainInv'
  <2>1. Answered(r) /\ messages' = messages /\ changes' = changes
    BY <1>2 DEF Unavailable, Reply, OutOfRounds
  <2>2. ChangesAllowed'
    BY <2>1 DEF BrainInv, ChangesAllowed
  <2> QED
    BY <2>1, <2>2, AnswerStep
<1>3. ASSUME NEW r \in Request, RequestStep(r)
      PROVE  BrainInv'
  BY <1>2, <1>3, NextCallStep, ToolEndsStep, ReplyCallsStep DEF RequestStep
<1> QED
  BY <1>1, <1>3, AskStep, CancelledStep DEF BrainNext

\* Wherever the window cuts the session, its questions are shown beside their answers.
LEMMA ShownPaired ==
  ASSUME session \in Seq(Turn), NEW h \in Nat, Paired(session, h)
  PROVE  TurnsPaired
<1>1. Len(session) = 2 * h /\ Window \in Nat
  BY BrainConstants DEF Paired
<1>2. PICK d \in Nat :
        /\ Len(Shown) = 2 * h - d /\ d <= 2 * h
        /\ \A i \in 1 .. 2 * h - d : Shown[i] = session[d + i]
  <2> DEFINE m == IF Len(session) > Window THEN Len(session) - Window + 1 ELSE 1
  <2>1. m \in 1 .. Len(session) + 1 /\ m - 1 \in Nat /\ m - 1 <= 2 * h
    BY <1>1
  <2>2. Shown = SubSeq(session, m, Len(session))
    BY DEF Shown
  <2> HIDE DEF m
  <2>3. Len(Shown) = 2 * h - (m - 1) /\ \A i \in 1 .. 2 * h - (m - 1) : Shown[i] = session[m + i - 1]
    BY <1>1, <2>1, <2>2, SubSeqProperties
  <2>4. \A i \in 1 .. 2 * h - (m - 1) : m + i - 1 = (m - 1) + i
    BY <2>1
  <2> QED
    BY <2>1, <2>3, <2>4
<1>3. ASSUME NEW i \in 1 .. Len(Shown)
      PROVE  /\ Shown[i].who = "user" =>
                  i < Len(Shown) /\ Shown[i + 1] = [who |-> "assistant", r |-> Shown[i].r]
             /\ Shown[i].who = "assistant" =>
                  i = 1 \/ Shown[i - 1] = [who |-> "user", r |-> Shown[i].r]
  <2>1. /\ i \in 1 .. 2 * h - d /\ d + i \in 1 .. 2 * h /\ Shown[i] = session[d + i]
    BY <1>2
  <2>2. PICK j \in 1 .. h : d + i = 2 * j - 1 \/ d + i = 2 * j
    <3> DEFINE j == (d + i + 1) \div 2
    <3>1. j \in 1 .. h /\ (d + i = 2 * j - 1 \/ d + i = 2 * j)
      BY <2>1
    <3> QED
      BY <3>1
  <2>3. /\ session[2 * j - 1].who = "user" /\ session[2 * j].who = "assistant"
        /\ session[2 * j - 1].r = session[2 * j].r
    BY DEF Paired
  <2>4. 2 * j - 1 \in 1 .. Len(session) /\ 2 * j \in 1 .. Len(session)
    BY <1>1
  <2>5. session[2 * j - 1] \in Turn /\ session[2 * j] \in Turn
    BY <2>4
  <2>6. /\ session[2 * j] = [who |-> "assistant", r |-> session[2 * j - 1].r]
        /\ session[2 * j - 1] = [who |-> "user", r |-> session[2 * j].r]
    BY <2>3, <2>5 DEF Turn
  <2>7. CASE d + i = 2 * j - 1
    <3>1. i + 1 \in 1 .. 2 * h - d /\ d + (i + 1) = 2 * j /\ i < Len(Shown)
      BY <1>2, <2>1, <2>7
    <3>2. Shown[i] = session[2 * j - 1] /\ Shown[i + 1] = session[2 * j]
      BY <1>2, <2>1, <2>7, <3>1
    <3> QED
      BY <2>3, <2>6, <3>1, <3>2
  <2>8. CASE d + i = 2 * j
    <3>1. Shown[i] = session[2 * j]
      BY <2>1, <2>8
    <3>2. CASE i # 1
      <4>1. i - 1 \in 1 .. 2 * h - d /\ d + (i - 1) = 2 * j - 1
        BY <2>1, <2>8, <3>2
      <4>2. Shown[i - 1] = session[2 * j - 1]
        BY <1>2, <4>1
      <4> QED
        BY <2>3, <2>6, <3>1, <4>2
    <3> QED
      BY <2>3, <3>1, <3>2
  <2> QED
    BY <2>2, <2>7, <2>8
<1> QED
  BY <1>3 DEF TurnsPaired

\* However requests of a session overlap, are cancelled or run out of rounds, and whatever
\* the window, the LLM is shown a conversation; and nothing that the guardrails are there to
\* stop changed anything.
THEOREM CallsAlwaysSound == BrainSpec => []CallsAreSound
<1>1. BrainInv => CallsAreSound
  <2> SUFFICES ASSUME BrainInv PROVE CallsAreSound
    OBVIOUS
  <2>1. TurnsPaired
    BY ShownPaired DEF BrainInv, Sorts
  <2>2. CallsAnswered
    BY DEF BrainInv, LocalInv, Complete, Behind, Result, CallsAnswered
  <2> QED
    BY <2>1, <2>2 DEF CallsAreSound, BrainInv
<1> QED
  BY <1>1, BrainInitInv, BrainStep, PTL DEF BrainSpec

---------------------------------------------------------------------------
(* The market data store *)

\* A summary of at most n ticks.
Young(o, n) == \E b \in Body : o = <<b>> /\ b.age <= n

\* A request's counts and answer, by where it is.
Stage(r) ==
  /\ r.age <= 1
  /\ r.pc \in {"look", "store"} => r.kind \in {"fast", "slow"}
  /\ r.pc \in {"idle", "look", "lookInner", "lookAudit", "done"} => r.counts = None
  /\ r.pc \in {"idle", "look", "lookInner", "store", "storeInner", "storeAudit"} =>
       r.answer = None
  /\ r.pc \in {"store", "storeInner"} => Young(r.counts, r.age)
  /\ r.pc = "storeAudit" => Young(r.counts, r.age + StatusAge + 1)
  /\ r.pc = "lookAudit" =>
       /\ r.kind \in {"audit", "diagnose"} => r.answer = None
       /\ r.kind = "slow" => Young(r.answer, r.age)
       /\ r.kind = "fast" => Young(r.answer, r.age + StatusAge + 1)
  /\ r.pc = "done" =>
       /\ r.kind \in {"slow", "audit"} => Young(r.answer, r.age + StatusAge + 1)
       /\ r.kind \in {"fast", "diagnose"} => Young(r.answer, r.age + StatusAge + AuditAge + 2)

\* A snapshot that is kept `limit` ticks, of a summary that had at most `slack` then.
KeptFor(s, limit, slack) ==
  s = None \/ \E b \in Body, a \in 0 .. limit :
                s = <<[body |-> b, age |-> a]>> /\ b.age <= a + slack

\* A body made before the last commit was, or will be, noticed.
Noticed(b) == b.behind => b.raced \/ \E d \in Downloads : work[d].half

Ages ==
  /\ \A t \in Threads : query[t] \in SummaryRequest /\ Stage(query[t])
  /\ KeptFor(snap.status, StatusAge, 1)
  /\ KeptFor(snap.audit, AuditAge, StatusAge + 2)
  /\ KeptFor(memory, AuditAge, StatusAge + AuditAge + 2)

Notice ==
  /\ \A t \in Threads : query[t].counts # None => Noticed(query[t].counts[1])
  /\ snap.status # None => Noticed(snap.status[1].body)
  /\ snap.audit # None => Noticed(snap.audit[1].body)

\* The status of the job serves a runtime, and the flag its absence.
Jobs ==
  /\ embedded \in BOOLEAN /\ flag \in BOOLEAN
  /\ job \in {"idle", "running", "ok", "error"}
  /\ ~embedded => job # "running"
  /\ embedded => ~flag

\* A commit is announced before the operation is over.
Placed(n) ==
  /\ n \in Work
  /\ n.half => OpIn(n, Writing) /\ ~n.auditing
  /\ n.auditing => OpIn(n, {"audit"})

Threaded ==
  /\ Jobs
  /\ work \in [Downloads -> Work]
  /\ \A d \in Downloads : Placed(work[d])
  /\ RunningIsTrue

Typed ==
  /\ snap = [status |-> snap.status, audit |-> snap.audit]
  /\ query \in [Threads -> SummaryRequest]

MarketInv == Typed /\ Ages /\ Notice /\ Threaded

---------------------------------------------------------------------------
LEMMA PartIs == \A stage \in StageNames : Part(stage) \in Seq(StageNames)
  BY DEF Part

\* Whoever starts it, a synchronisation is a sequence of stages.
LEMMA RefreshesAre == Refreshes \subseteq Seq(StageNames)
<1>1. {"security", "daily", "index"} \subseteq StageNames
  BY DEF StageNames
<1>2. Part("security") \in Seq(StageNames) /\ Part("daily") \in Seq(StageNames)
      /\ Part("index") \in Seq(StageNames)
  BY <1>1, PartIs
<1>3. Part("security") \o Part("daily") \o Part("index") \in Seq(StageNames)
  BY <1>2, ConcatProperties
<1> QED
  BY <1>2, <1>3, ConcatProperties DEF Refreshes

LEMMA CommandLinesAre == CommandLines \subseteq Seq(StageNames)
<1> DEFINE Opt(stage, options) == IF stage \in options THEN Part(stage) ELSE <<>>
           Options == {"tradeDates", "capital", "dragon", "bulk"}
           Line(options) == Opt("tradeDates", options) \o Opt("capital", options)
                              \o Opt("dragon", options) \o Opt("bulk", options)
<1>1. Options \cup {"calendar", "financials", "tushare"} \subseteq StageNames
  BY DEF StageNames
<1>2. \A stage \in StageNames : \A options : Opt(stage, options) \in Seq(StageNames)
  BY PartIs
<1> HIDE DEF Opt
<1>3. ASSUME NEW options PROVE Line(options) \in Seq(StageNames)
  <2>1. Opt("tradeDates", options) \o Opt("capital", options) \in Seq(StageNames)
    BY <1>1, <1>2, ConcatProperties
  <2>2. Opt("tradeDates", options) \o Opt("capital", options) \o Opt("dragon", options)
          \in Seq(StageNames)
    BY <1>1, <1>2, <2>1, ConcatProperties
  <2> QED
    BY <1>1, <1>2, <2>2, ConcatProperties
<1>4. CommandLines = {Line(options) : options \in (SUBSET Options) \ {{}}}
                     \cup {Part("calendar"), Part("financials"), Part("tushare")} \cup Refreshes
  BY DEF CommandLines, Opt
<1> HIDE DEF Line, Options
<1>5. {Line(options) : options \in (SUBSET Options) \ {{}}} \subseteq Seq(StageNames)
  BY <1>3
<1>6. {Part("calendar"), Part("financials"), Part("tushare")} \subseteq Seq(StageNames)
  BY <1>1, PartIs
<1> QED
  BY <1>4, <1>5, <1>6, RefreshesAre

LEMMA DerivativesAre == Derivatives \subseteq Seq(StageNames)
<1>1. {"calendar", "status", "factors", "capital"} \subseteq StageNames
  BY DEF StageNames
<1>2. Part("calendar") \in Seq(StageNames) /\ Part("status") \in Seq(StageNames)
      /\ Part("factors") \in Seq(StageNames) /\ Part("capital") \in Seq(StageNames)
  BY <1>1, PartIs
<1>3. Part("calendar") \o Part("status") \in Seq(StageNames)
  BY <1>2, ConcatProperties
<1>4. Part("calendar") \o Part("status") \o Part("factors") \in Seq(StageNames)
  BY <1>2, <1>3, ConcatProperties
<1> QED
  BY <1>2, <1>4, ConcatProperties DEF Derivatives

LEMMA OneIs == \A S : \A o : o \in AtMostOne(S) <=> o = None \/ \E b \in S : o = <<b>>
<1> SUFFICES ASSUME NEW S, NEW o PROVE o \in AtMostOne(S) <=> o = None \/ \E b \in S : o = <<b>>
  OBVIOUS
<1>1. ASSUME o \in AtMostOne(S) PROVE o = None \/ \E b \in S : o = <<b>>
  <2>1. o \in Seq(S) /\ Len(o) \in Nat /\ Len(o) <= 1 /\ DOMAIN o = 1 .. Len(o)
    BY <1>1, LenProperties DEF AtMostOne
  <2>2. CASE Len(o) = 0
    BY <2>1, <2>2, EmptySeq DEF None
  <2>3. CASE Len(o) = 1
    <3>1. 1 \in 1 .. Len(o)
      BY <2>3
    <3>2. o[1] \in S
      BY <2>1, <3>1, ElementOfSeq
    <3>3. o = <<o[1]>>
      BY <2>1, <2>3
    <3> QED
      BY <3>2, <3>3
  <2> QED
    BY <2>1, <2>2, <2>3
<1>2. None \in AtMostOne(S)
  BY DEF AtMostOne, None
<1>3. ASSUME NEW b \in S PROVE <<b>> \in AtMostOne(S)
  BY DEF AtMostOne
<1> QED
  BY <1>1, <1>2, <1>3

LEMMA NoneIs == None \in AtMostOne(Body)
  BY OneIs

\* The fields of a request.
LEMMA SetStep == ASSUME NEW r \in SummaryRequest, NEW x \in PCs, NEW n, n = [r EXCEPT !.pc = x]
  PROVE  /\ n \in SummaryRequest /\ n.pc = x
         /\ n.kind = r.kind /\ n.age = r.age /\ n.counts = r.counts /\ n.answer = r.answer
  BY DEF SummaryRequest

LEMMA SetKind == ASSUME NEW r \in SummaryRequest, NEW x \in Kinds, NEW n, n = [r EXCEPT !.kind = x]
  PROVE  /\ n \in SummaryRequest /\ n.kind = x
         /\ n.pc = r.pc /\ n.age = r.age /\ n.counts = r.counts /\ n.answer = r.answer
  BY DEF SummaryRequest

\* Nobody asks.
LEMMA NobodyAsks ==
  /\ NoRequest \in SummaryRequest /\ NoRequest.pc = "idle" /\ NoRequest.age = 0
  /\ NoRequest.counts = None /\ NoRequest.answer = None
<1>1. None \in AtMostOne(Body) /\ 0 \in Age
  BY OneIs, MarketConstants DEF Age
<1> QED
  BY <1>1 DEF NoRequest, SummaryRequest, PCs, Kinds

LEMMA SetAge == ASSUME NEW r \in SummaryRequest, NEW x \in Age, NEW n, n = [r EXCEPT !.age = x]
  PROVE  /\ n \in SummaryRequest /\ n.age = x
         /\ n.kind = r.kind /\ n.pc = r.pc /\ n.counts = r.counts /\ n.answer = r.answer
  BY DEF SummaryRequest

LEMMA SetCounts ==
  ASSUME NEW r \in SummaryRequest, NEW x \in AtMostOne(Body), NEW n, n = [r EXCEPT !.counts = x]
  PROVE  /\ n \in SummaryRequest /\ n.counts = x
         /\ n.kind = r.kind /\ n.pc = r.pc /\ n.age = r.age /\ n.answer = r.answer
  BY DEF SummaryRequest

LEMMA SetAnswer ==
  ASSUME NEW r \in SummaryRequest, NEW x \in AtMostOne(Body), NEW n, n = [r EXCEPT !.answer = x]
  PROVE  /\ n \in SummaryRequest /\ n.answer = x
         /\ n.kind = r.kind /\ n.pc = r.pc /\ n.age = r.age /\ n.counts = r.counts
  BY DEF SummaryRequest

\* What a write, an invalidation and a tick make of a summary.
Left(b) == [b EXCEPT !.behind = TRUE]
Older(n) == IF n < MaxAge THEN n + 1 ELSE n
OlderBody(b) == [b EXCEPT !.age = Older(b.age)]

LEMMA Bodies == \A b \in Body :
  /\ Left(b) \in Body /\ Left(b).age = b.age /\ Left(b).behind
  /\ Missed(b) \in Body /\ Missed(b).age = b.age /\ Missed(b).behind = b.behind
  /\ Missed(b).raced = b.behind
  /\ OlderBody(b) \in Body /\ OlderBody(b).age = Older(b.age)
  /\ OlderBody(b).behind = b.behind /\ OlderBody(b).raced = b.raced
<1> SUFFICES ASSUME NEW b \in Body
             PROVE  /\ Left(b) \in Body /\ Left(b).age = b.age /\ Left(b).behind
                    /\ Missed(b) \in Body /\ Missed(b).age = b.age /\ Missed(b).behind = b.behind
                    /\ Missed(b).raced = b.behind
                    /\ OlderBody(b) \in Body /\ OlderBody(b).age = Older(b.age)
                    /\ OlderBody(b).behind = b.behind /\ OlderBody(b).raced = b.raced
  OBVIOUS
<1>1. Left(b) \in Body /\ Left(b).age = b.age /\ Left(b).behind
  BY DEF Left, Body
<1>2. Missed(b) \in Body /\ Missed(b).age = b.age /\ Missed(b).behind = b.behind
  BY DEF Missed, Body
<1>3. Missed(b).raced = b.behind
  BY DEF Missed, Body
<1>4. Older(b.age) \in Age
  BY MarketConstants DEF Older, Age, Body
<1>5. OlderBody(b) \in Body /\ OlderBody(b).age = Older(b.age)
      /\ OlderBody(b).behind = b.behind /\ OlderBody(b).raced = b.raced
  BY <1>4 DEF OlderBody, Body
<1> QED
  BY <1>1, <1>2, <1>3, <1>5

\* f applied to what there is.
LEMMA EachNone ==
  /\ [i \in DOMAIN None |-> Left(None[i])] = None
  /\ [i \in DOMAIN None |-> Missed(None[i])] = None
  /\ [i \in DOMAIN None |-> OlderBody(None[i])] = None
  BY DEF None

LEMMA EachOne == \A b :
  /\ [i \in DOMAIN <<b>> |-> Left(<<b>>[i])] = <<Left(b)>>
  /\ [i \in DOMAIN <<b>> |-> Missed(<<b>>[i])] = <<Missed(b)>>
  /\ [i \in DOMAIN <<b>> |-> OlderBody(<<b>>[i])] = <<OlderBody(b)>>
  OBVIOUS

---------------------------------------------------------------------------
(* A request for a summary *)

Snapshots ==
  /\ snap = [status |-> snap.status, audit |-> snap.audit]
  /\ KeptFor(snap.status, StatusAge, 1)
  /\ KeptFor(snap.audit, AuditAge, StatusAge + 2)
  /\ snap.status # None => Noticed(snap.status[1].body)
  /\ snap.audit # None => Noticed(snap.audit[1].body)

HalvesStay == \A d \in Downloads : work'[d].half = work[d].half

\* One request moves on; what is kept changes as it may.
LEMMA SummaryGoes ==
  ASSUME MarketInv, NEW t \in Threads, NEW n \in SummaryRequest, Stage(n),
         n.counts # None => Noticed(n.counts[1]),
         query' = [query EXCEPT ![t] = n], Snapshots',
         KeptFor(memory', AuditAge, StatusAge + AuditAge + 2), HalvesStay, Threaded'
  PROVE  MarketInv'
<1>1. \A s \in Threads : query'[s] = IF s = t THEN n ELSE query[s]
  BY DEF MarketInv, Typed
<1>2. \A b : Noticed(b)' = Noticed(b)
  BY DEF Noticed, HalvesStay
<1>3. query' \in [Threads -> SummaryRequest]
  BY DEF MarketInv, Typed
<1>4. Typed'
  BY <1>3 DEF Typed, Snapshots
<1>5. \A s \in Threads : query'[s] \in SummaryRequest /\ Stage(query'[s])
  BY <1>1 DEF MarketInv, Ages
<1>6. Ages'
  BY <1>5 DEF Ages, Snapshots
<1>7. \A s \in Threads : query'[s].counts # None => Noticed(query'[s].counts[1])
  BY <1>1 DEF MarketInv, Notice
<1>8. Notice'
  BY <1>2, <1>7 DEF Notice, Snapshots
<1> QED
  BY <1>4, <1>6, <1>8 DEF MarketInv

LEMMA ThreadsStay == ASSUME MarketInv, UNCHANGED <<embedded, work, job, flag>>
  PROVE  HalvesStay /\ Threaded'
  BY DEF MarketInv, Threaded, Jobs, RunningIsTrue, HalvesStay

LEMMA SummaryMoves ==
  ASSUME MarketInv, NEW t \in Threads, NEW n \in SummaryRequest, Stage(n),
         n.counts # None => Noticed(n.counts[1]),
         query' = [query EXCEPT ![t] = n], Snapshots',
         KeptFor(memory', AuditAge, StatusAge + AuditAge + 2),
         UNCHANGED <<embedded, work, job, flag>>
  PROVE  MarketInv'
  BY SummaryGoes, ThreadsStay

LEMMA SnapshotsThere ==
  ASSUME MarketInv PROVE Snapshots /\ KeptFor(memory, AuditAge, StatusAge + AuditAge + 2)
  BY DEF MarketInv, Typed, Ages, Notice, Snapshots

LEMMA SnapshotsKept == ASSUME Snapshots, snap' = snap, HalvesStay PROVE Snapshots'
<1>1. \A b : Noticed(b)' = Noticed(b)
  BY DEF Noticed, HalvesStay
<1> QED
  BY <1>1 DEF Snapshots

LEMMA SnapshotsStay == ASSUME Snapshots, UNCHANGED <<snap, work>> PROVE Snapshots'
  BY SnapshotsKept DEF HalvesStay

\* A thread that asks.
LEMMA AskMarketStep ==
  ASSUME MarketInv, NEW t \in Threads, NEW kind \in Kinds, Ask(t, kind),
         UNCHANGED <<snap, memory>>, HalvesStay, Threaded'
  PROVE  MarketInv'
<1> DEFINE pc == IF kind \in {"fast", "slow"} THEN "look" ELSE "lookAudit"
           n1 == [NoRequest EXCEPT !.pc = pc]
           n == [n1 EXCEPT !.kind = kind]
<1>1. query' = [query EXCEPT ![t] = n]
  BY DEF Ask
<1>2. pc \in PCs /\ pc \in {"look", "lookAudit"}
      /\ (pc = "look" => kind \in {"fast", "slow"}) /\ (pc # "look" => kind \in {"audit", "diagnose"})
  BY DEF PCs, Kinds
<1> HIDE DEF pc
<1>3. n1 \in SummaryRequest /\ n1.pc = pc /\ n1.age = 0 /\ n1.counts = None /\ n1.answer = None
  BY <1>2, NobodyAsks, SetStep
<1> HIDE DEF n1
<1>4. n \in SummaryRequest /\ n.pc = pc /\ n.kind = kind /\ n.age = 0
      /\ n.counts = None /\ n.answer = None
  BY <1>3, SetKind
<1> HIDE DEF n
<1>5. Stage(n)
  BY <1>2, <1>4 DEF Stage
<1> QED
  BY <1>1, <1>4, <1>5, SummaryGoes, SnapshotsThere, SnapshotsKept

LEMMA YoungIs == \A o, n : Young(o, n) =>
  o # None /\ o \in AtMostOne(Body) /\ o = <<o[1]>> /\ o[1] \in Body /\ o[1].age <= n
<1> SUFFICES ASSUME NEW o, NEW n, Young(o, n)
             PROVE  o # None /\ o \in AtMostOne(Body) /\ o = <<o[1]>> /\ o[1] \in Body
                    /\ o[1].age <= n
  OBVIOUS
<1>1. PICK b \in Body : o = <<b>> /\ b.age <= n
  BY DEF Young
<1>2. o # None /\ o[1] = b /\ o = <<o[1]>>
  BY <1>1 DEF None
<1> QED
  BY <1>1, <1>2, OneIs

LEMMA YoungOne == \A b \in Body : \A n : b.age <= n => Young(<<b>>, n)
  BY DEF Young

LEMMA YoungEnough == \A o : \A m, n \in Int : Young(o, m) /\ m <= n => Young(o, n)
  BY DEF Young, Body, Age

\* An answer is as young as the counts it is made of.
LEMMA AnswerYoung == \A o, n : Young(o, n) => Young(<<AgeOf(o[1])>>, n)
<1> SUFFICES ASSUME NEW o, NEW n, Young(o, n) PROVE Young(<<AgeOf(o[1])>>, n)
  OBVIOUS
<1>1. o[1] \in Body /\ o[1].age <= n
  BY YoungIs
<1>2. AgeOf(o[1]) \in Body /\ AgeOf(o[1]).age = o[1].age
  BY <1>1 DEF AgeOf, Body
<1> QED
  BY <1>1, <1>2, YoungOne

\* A snapshot is as old as its limit at most, and its summary so much older.
LEMMA KeptIs ==
  ASSUME NEW s, NEW limit \in Nat, NEW slack \in Nat, KeptFor(s, limit, slack), s # None
  PROVE  /\ s[1].body \in Body /\ s[1].age \in 0 .. limit /\ s[1].body.age <= limit + slack
         /\ \A n \in Nat : limit + slack <= n => Young(<<s[1].body>>, n)
<1>1. PICK b \in Body, a \in 0 .. limit : s = <<[body |-> b, age |-> a]>> /\ b.age <= a + slack
  BY DEF KeptFor
<1>2. s[1] = [body |-> b, age |-> a] /\ s[1].body = b /\ s[1].age = a
  BY <1>1
<1>3. b.age \in Nat
  BY DEF Body, Age
<1> QED
  BY <1>1, <1>2, <1>3, YoungOne

\* What is stored now is kept.
LEMMA StoredIsKept ==
  ASSUME NEW o, NEW limit \in Nat, NEW slack \in Nat, NEW n \in Nat, n <= slack, Young(o, n)
  PROVE  KeptFor(<<[body |-> o[1], age |-> 0]>>, limit, slack)
<1>1. o[1] \in Body /\ o[1].age <= n /\ o[1].age \in Nat
  BY YoungIs DEF Body, Age
<1>2. 0 \in 0 .. limit /\ o[1].age <= 0 + slack
  BY <1>1
<1> QED
  BY <1>1, <1>2 DEF KeptFor

LEMMA Limits == StatusAge \in Nat /\ AuditAge \in Nat /\ 1 <= AuditAge /\ MaxAge \in Nat
                /\ StatusAge <= MaxAge /\ AuditAge <= MaxAge
  BY MarketConstants

LEMMA RequestIs == ASSUME MarketInv, NEW t \in Threads
  PROVE  /\ query[t] \in SummaryRequest /\ Stage(query[t]) /\ query[t].age \in {0, 1}
         /\ query[t].counts # None => Noticed(query[t].counts[1])
<1>1. query[t] \in SummaryRequest /\ Stage(query[t])
  BY DEF MarketInv, Ages
<1>2. query[t].age \in Nat /\ query[t].age <= 1
  BY <1>1 DEF SummaryRequest, Age, Stage
<1> QED
  BY <1>1, <1>2 DEF MarketInv, Notice

\* Counts are made now.
LEMMA CountsAreYoung == /\ Counts \in Body /\ Young(<<Counts>>, 0)
                        /\ <<Counts>> \in AtMostOne(Body) /\ Noticed(Counts)
<1>1. Counts \in Body /\ Counts.age = 0 /\ Counts.behind = FALSE
  BY MarketConstants DEF Counts, Body, Age
<1> QED
  BY <1>1, OneIs, YoungOne DEF Noticed

LEMMA LookStep == ASSUME MarketInv, NEW t \in Threads, Look(t) PROVE MarketInv'
<1> DEFINE q == query[t]
<1>1. /\ q \in SummaryRequest /\ Stage(q) /\ q.age \in {0, 1}
      /\ q.pc = "look" /\ q.kind \in {"fast", "slow"} /\ q.counts = None /\ q.answer = None
  BY RequestIs DEF Look, Stage
<1>2. "lookAudit" \in PCs /\ "store" \in PCs
  BY DEF PCs
<1>3. CASE q.kind = "fast" /\ YoungerThan(snap.status, StatusAge)
  <2> DEFINE o == <<AgeOf(snap.status[1].body)>>
             n1 == [q EXCEPT !.pc = "lookAudit"]
             n == [n1 EXCEPT !.answer = o]
  <2>1. query' = [query EXCEPT ![t] = n]
    BY <1>3 DEF Look
  <2>2. Young(o, q.age + StatusAge + 1)
    <3>1. snap.status # None /\ KeptFor(snap.status, StatusAge, 1)
      BY <1>3 DEF YoungerThan, MarketInv, Ages
    <3>2. Young(<<snap.status[1].body>>, q.age + StatusAge + 1)
      BY <1>1, <3>1, KeptIs, Limits
    <3>3. <<snap.status[1].body>>[1] = snap.status[1].body
      OBVIOUS
    <3> QED
      BY <3>2, <3>3, AnswerYoung
  <2> HIDE DEF o
  <2>3. n1 \in SummaryRequest /\ n1.pc = "lookAudit" /\ n1.kind = q.kind /\ n1.age = q.age
        /\ n1.counts = None
    BY <1>1, <1>2, SetStep
  <2> HIDE DEF n1
  <2>4. n \in SummaryRequest /\ n.pc = "lookAudit" /\ n.kind = "fast" /\ n.age = q.age
        /\ n.counts = None /\ n.answer = o
    BY <1>3, <2>2, <2>3, YoungIs, SetAnswer
  <2> HIDE DEF n
  <2>5. Stage(n)
    BY <1>1, <2>2, <2>4 DEF Stage
  <2> QED
    BY <2>1, <2>4, <2>5, SummaryMoves, SnapshotsThere, SnapshotsStay DEF Look
<1>4. CASE ~ (q.kind = "fast" /\ YoungerThan(snap.status, StatusAge))
  <2> DEFINE n1 == [q EXCEPT !.pc = "store"]
             n == [n1 EXCEPT !.counts = <<Counts>>]
  <2>1. query' = [query EXCEPT ![t] = n]
    BY <1>4 DEF Look
  <2>2. n1 \in SummaryRequest /\ n1.pc = "store" /\ n1.kind = q.kind /\ n1.age = q.age
        /\ n1.answer = None
    BY <1>1, <1>2, SetStep
  <2> HIDE DEF n1
  <2>3. n \in SummaryRequest /\ n.pc = "store" /\ n.kind = q.kind /\ n.age = q.age
        /\ n.counts = <<Counts>> /\ n.answer = None
    BY <2>2, CountsAreYoung, SetCounts
  <2> HIDE DEF n
  <2>4. Young(n.counts, n.age) /\ Noticed(n.counts[1])
    BY <1>1, <2>3, CountsAreYoung, YoungEnough
  <2>5. Stage(n)
    BY <1>1, <2>3, <2>4 DEF Stage
  <2> QED
    BY <2>1, <2>3, <2>4, <2>5, SummaryMoves, SnapshotsThere, SnapshotsStay DEF Look
<1> QED
  BY <1>3, <1>4

LEMMA SetSnapshot == \A x, o, n : x = [status |-> x.status, audit |-> x.audit] =>
  /\ n = [x EXCEPT !.status = o] =>
       n.status = o /\ n.audit = x.audit /\ n = [status |-> n.status, audit |-> n.audit]
  /\ n = [x EXCEPT !.audit = o] =>
       n.audit = o /\ n.status = x.status /\ n = [status |-> n.status, audit |-> n.audit]
  OBVIOUS

\* A count becomes a snapshot.
LEMMA StatusStored ==
  ASSUME MarketInv, NEW t \in Threads, Young(query[t].counts, query[t].age),
         snap' = [snap EXCEPT !.status = <<[body |-> query[t].counts[1], age |-> 0]>>],
         UNCHANGED work
  PROVE  Snapshots'
<1> DEFINE b == query[t].counts[1]
           s == <<[body |-> b, age |-> 0]>>
<1>1. Noticed(b) /\ KeptFor(s, StatusAge, 1)
  BY RequestIs, StoredIsKept, YoungIs, Limits
<1>2. s[1].body = b
  OBVIOUS
<1>3. snap' = [snap EXCEPT !.status = s]
  OBVIOUS
<1> HIDE DEF b, s
<1>4. \A c : Noticed(c)' = Noticed(c)
  BY DEF Noticed
<1>5. snap'.status = s /\ snap'.audit = snap.audit /\ snap' = [status |-> snap'.status, audit |-> snap'.audit]
  BY <1>3, SetSnapshot DEF MarketInv, Typed
<1> QED
  BY <1>1, <1>2, <1>4, <1>5 DEF MarketInv, Ages, Notice, Snapshots

LEMMA AuditStored ==
  ASSUME MarketInv, NEW t \in Threads, Young(query[t].counts, query[t].age + StatusAge + 1),
         snap' = [snap EXCEPT !.audit = <<[body |-> query[t].counts[1], age |-> 0]>>],
         UNCHANGED work
  PROVE  Snapshots'
<1> DEFINE b == query[t].counts[1]
           s == <<[body |-> b, age |-> 0]>>
<1>1. Noticed(b) /\ KeptFor(s, AuditAge, StatusAge + 2)
  <2>1. query[t].age + StatusAge + 1 \in Nat /\ query[t].age + StatusAge + 1 <= StatusAge + 2
    BY RequestIs, Limits
  <2> QED
    BY <2>1, RequestIs, StoredIsKept, YoungIs, Limits
<1>2. s[1].body = b
  OBVIOUS
<1>3. snap' = [snap EXCEPT !.audit = s]
  OBVIOUS
<1> HIDE DEF b, s
<1>4. \A c : Noticed(c)' = Noticed(c)
  BY DEF Noticed
<1>5. snap'.status = snap.status /\ snap'.audit = s /\ snap' = [status |-> snap'.status, audit |-> snap'.audit]
  BY <1>3, SetSnapshot DEF MarketInv, Typed
<1> QED
  BY <1>1, <1>2, <1>4, <1>5 DEF MarketInv, Ages, Notice, Snapshots

LEMMA StoreStep == ASSUME MarketInv, NEW t \in Threads, Store(t) PROVE MarketInv'
<1> DEFINE q == query[t]
           n1 == [q EXCEPT !.pc = "lookAudit"]
           o == <<AgeOf(q.counts[1])>>
           n2 == [n1 EXCEPT !.counts = None]
           n == [n2 EXCEPT !.answer = o]
<1>1. /\ q \in SummaryRequest /\ Stage(q) /\ q.age \in {0, 1}
      /\ q.pc = "store" /\ q.kind \in {"fast", "slow"} /\ Young(q.counts, q.age)
  BY RequestIs DEF Store, Stage
<1>2. query' = [query EXCEPT ![t] = n]
  BY DEF Store
<1>3. n1 \in SummaryRequest /\ n1.pc = "lookAudit" /\ n1.kind = q.kind /\ n1.age = q.age
  BY <1>1, SetStep DEF PCs
<1> HIDE DEF n1
<1>4. n2 \in SummaryRequest /\ n2.pc = "lookAudit" /\ n2.kind = q.kind /\ n2.age = q.age
      /\ n2.counts = None
  BY <1>1, <1>3, NoneIs, SetCounts
<1> HIDE DEF n2
<1>9. Young(o, q.age)
  BY <1>1, AnswerYoung
<1> HIDE DEF o
<1>5. n \in SummaryRequest /\ n.pc = "lookAudit" /\ n.kind = q.kind /\ n.age = q.age
      /\ n.answer = o /\ n.counts = None
  BY <1>4, <1>9, YoungIs, SetAnswer
<1> HIDE DEF n
<1>6. Young(n.answer, n.age) /\ Young(n.answer, n.age + StatusAge + 1)
  BY <1>1, <1>5, <1>9, YoungEnough, Limits
<1>7. Stage(n)
  BY <1>1, <1>5, <1>6 DEF Stage
<1>8. Snapshots'
  BY <1>1, StatusStored DEF Store
<1> QED
  BY <1>2, <1>5, <1>7, <1>8, SummaryMoves, SnapshotsThere DEF Store

LEMMA LookAuditStep == ASSUME MarketInv, NEW t \in Threads, LookAudit(t) PROVE MarketInv'
<1> DEFINE q == query[t]
<1>1. /\ q \in SummaryRequest /\ Stage(q) /\ q.age \in {0, 1}
      /\ q.pc = "lookAudit" /\ q.counts = None
  BY RequestIs DEF LookAudit, Stage
<1>2. "done" \in PCs /\ "lookInner" \in PCs
  BY DEF PCs
<1>3. CASE q.kind \in {"fast", "diagnose"} /\ YoungerThan(snap.audit, AuditAge)
  <2> DEFINE o == <<AgeOf(snap.audit[1].body)>>
             n1 == [q EXCEPT !.pc = "done"]
             n == [n1 EXCEPT !.answer = o]
  <2>1. query' = [query EXCEPT ![t] = n]
    BY <1>3 DEF LookAudit
  <2>2. Young(o, q.age + StatusAge + AuditAge + 2)
    <3>1. snap.audit # None /\ KeptFor(snap.audit, AuditAge, StatusAge + 2)
      BY <1>3 DEF YoungerThan, MarketInv, Ages
    <3>2. StatusAge + 2 \in Nat /\ q.age + StatusAge + AuditAge + 2 \in Nat
          /\ AuditAge + (StatusAge + 2) <= q.age + StatusAge + AuditAge + 2
      BY <1>1, Limits
    <3>3. Young(<<snap.audit[1].body>>, q.age + StatusAge + AuditAge + 2)
      BY <3>1, <3>2, KeptIs, Limits
    <3>4. <<snap.audit[1].body>>[1] = snap.audit[1].body
      OBVIOUS
    <3> QED
      BY <3>3, <3>4, AnswerYoung
  <2> HIDE DEF o
  <2>3. n1 \in SummaryRequest /\ n1.pc = "done" /\ n1.kind = q.kind /\ n1.age = q.age
        /\ n1.counts = None
    BY <1>1, <1>2, SetStep
  <2> HIDE DEF n1
  <2>4. n \in SummaryRequest /\ n.pc = "done" /\ n.kind \in {"fast", "diagnose"}
        /\ n.age = q.age /\ n.counts = None /\ n.answer = o
    BY <1>3, <2>2, <2>3, YoungIs, SetAnswer
  <2> HIDE DEF n
  <2>5. Stage(n)
    BY <1>1, <2>2, <2>4 DEF Stage
  <2> QED
    BY <2>1, <2>4, <2>5, SummaryMoves, SnapshotsThere, SnapshotsStay DEF LookAudit
<1>4. CASE ~ (q.kind \in {"fast", "diagnose"} /\ YoungerThan(snap.audit, AuditAge))
  <2> DEFINE n1 == [q EXCEPT !.pc = "lookInner"]
             n == [n1 EXCEPT !.answer = None]
  <2>1. query' = [query EXCEPT ![t] = n]
    BY <1>4 DEF LookAudit
  <2>2. n1 \in SummaryRequest /\ n1.pc = "lookInner" /\ n1.age = q.age /\ n1.counts = None
    BY <1>1, <1>2, SetStep
  <2> HIDE DEF n1
  <2>3. n \in SummaryRequest /\ n.pc = "lookInner" /\ n.age = q.age /\ n.counts = None
        /\ n.answer = None
    BY <2>2, NoneIs, SetAnswer
  <2> HIDE DEF n
  <2>4. Stage(n)
    BY <1>1, <2>3 DEF Stage
  <2> QED
    BY <2>1, <2>3, <2>4, SummaryMoves, SnapshotsThere, SnapshotsStay DEF LookAudit
<1> QED
  BY <1>3, <1>4

LEMMA LookInnerStep == ASSUME MarketInv, NEW t \in Threads, LookInner(t) PROVE MarketInv'
<1> DEFINE q == query[t]
<1>1. /\ q \in SummaryRequest /\ Stage(q) /\ q.age \in {0, 1}
      /\ q.pc = "lookInner" /\ q.counts = None /\ q.answer = None
  BY RequestIs DEF LookInner, Stage
<1>2. "storeAudit" \in PCs /\ "storeInner" \in PCs
  BY DEF PCs
<1>3. CASE YoungerThan(snap.status, StatusAge)
  <2> DEFINE o == <<snap.status[1].body>>
             n1 == [q EXCEPT !.pc = "storeAudit"]
             n == [n1 EXCEPT !.counts = o]
  <2>1. query' = [query EXCEPT ![t] = n]
    BY <1>3 DEF LookInner
  <2>2. Young(o, q.age + StatusAge + 1) /\ Noticed(o[1])
    <3>1. snap.status # None /\ KeptFor(snap.status, StatusAge, 1)
          /\ Noticed(snap.status[1].body)
      BY <1>3 DEF YoungerThan, MarketInv, Ages, Notice
    <3> QED
      BY <1>1, <3>1, KeptIs, Limits
  <2> HIDE DEF o
  <2>3. n1 \in SummaryRequest /\ n1.pc = "storeAudit" /\ n1.age = q.age /\ n1.answer = None
    BY <1>1, <1>2, SetStep
  <2> HIDE DEF n1
  <2>4. n \in SummaryRequest /\ n.pc = "storeAudit" /\ n.age = q.age /\ n.counts = o
        /\ n.answer = None
    BY <2>2, <2>3, YoungIs, SetCounts
  <2> HIDE DEF n
  <2>5. Stage(n)
    BY <1>1, <2>2, <2>4 DEF Stage
  <2> QED
    BY <2>1, <2>2, <2>4, <2>5, SummaryMoves, SnapshotsThere, SnapshotsStay DEF LookInner
<1>4. CASE ~ YoungerThan(snap.status, StatusAge)
  <2> DEFINE n1 == [q EXCEPT !.pc = "storeInner"]
             n == [n1 EXCEPT !.counts = <<Counts>>]
  <2>1. query' = [query EXCEPT ![t] = n]
    BY <1>4 DEF LookInner
  <2>2. n1 \in SummaryRequest /\ n1.pc = "storeInner" /\ n1.age = q.age /\ n1.answer = None
    BY <1>1, <1>2, SetStep
  <2> HIDE DEF n1
  <2>3. n \in SummaryRequest /\ n.pc = "storeInner" /\ n.age = q.age
        /\ n.counts = <<Counts>> /\ n.answer = None
    BY <2>2, CountsAreYoung, SetCounts
  <2> HIDE DEF n
  <2>4. Young(n.counts, n.age) /\ Noticed(n.counts[1])
    BY <1>1, <2>3, CountsAreYoung, YoungEnough
  <2>5. Stage(n)
    BY <1>1, <2>3, <2>4 DEF Stage
  <2> QED
    BY <2>1, <2>3, <2>4, <2>5, SummaryMoves, SnapshotsThere, SnapshotsStay DEF LookInner
<1> QED
  BY <1>3, <1>4

LEMMA StoreInnerStep == ASSUME MarketInv, NEW t \in Threads, StoreInner(t) PROVE MarketInv'
<1> DEFINE q == query[t]
           n == [q EXCEPT !.pc = "storeAudit"]
<1>1. /\ q \in SummaryRequest /\ Stage(q) /\ q.age \in {0, 1}
      /\ q.pc = "storeInner" /\ q.answer = None /\ Young(q.counts, q.age)
      /\ Noticed(q.counts[1])
  BY RequestIs, YoungIs DEF StoreInner, Stage
<1>2. query' = [query EXCEPT ![t] = n]
  BY DEF StoreInner
<1>3. n \in SummaryRequest /\ n.pc = "storeAudit" /\ n.age = q.age /\ n.answer = None
      /\ n.counts = q.counts
  BY <1>1, SetStep DEF PCs
<1> HIDE DEF n
<1>4. Young(n.counts, n.age + StatusAge + 1)
  BY <1>1, <1>3, YoungEnough, Limits
<1>5. Stage(n)
  BY <1>1, <1>3, <1>4 DEF Stage
<1>6. Snapshots'
  BY <1>1, StatusStored DEF StoreInner
<1> QED
  BY <1>1, <1>2, <1>3, <1>5, <1>6, SummaryMoves, SnapshotsThere DEF StoreInner

LEMMA StoreAuditStep == ASSUME MarketInv, NEW t \in Threads, StoreAudit(t) PROVE MarketInv'
<1> DEFINE q == query[t]
           n1 == [q EXCEPT !.pc = "done"]
           o == <<AgeOf(q.counts[1])>>
           n2 == [n1 EXCEPT !.counts = None]
           n == [n2 EXCEPT !.answer = o]
<1>1. /\ q \in SummaryRequest /\ Stage(q) /\ q.age \in {0, 1}
      /\ q.pc = "storeAudit" /\ Young(q.counts, q.age + StatusAge + 1)
  BY RequestIs DEF StoreAudit, Stage
<1>2. query' = [query EXCEPT ![t] = n]
  BY DEF StoreAudit
<1>3. n1 \in SummaryRequest /\ n1.pc = "done" /\ n1.kind = q.kind /\ n1.age = q.age
  BY <1>1, SetStep DEF PCs
<1> HIDE DEF n1
<1>4. n2 \in SummaryRequest /\ n2.pc = "done" /\ n2.kind = q.kind /\ n2.age = q.age
      /\ n2.counts = None
  BY <1>1, <1>3, NoneIs, SetCounts
<1> HIDE DEF n2
<1>9. Young(o, q.age + StatusAge + 1)
  BY <1>1, AnswerYoung
<1> HIDE DEF o
<1>5. n \in SummaryRequest /\ n.pc = "done" /\ n.kind = q.kind /\ n.age = q.age
      /\ n.answer = o /\ n.counts = None
  BY <1>4, <1>9, YoungIs, SetAnswer
<1> HIDE DEF n
<1>6. Young(n.answer, n.age + StatusAge + 1) /\ Young(n.answer, n.age + StatusAge + AuditAge + 2)
  <2>1. /\ n.age + StatusAge + 1 \in Int /\ n.age + StatusAge + AuditAge + 2 \in Int
        /\ n.age + StatusAge + 1 <= n.age + StatusAge + AuditAge + 2
    BY <1>1, <1>5, Limits
  <2> QED
    BY <1>5, <1>9, <2>1, YoungEnough
<1>7. Stage(n)
  BY <1>1, <1>5, <1>6 DEF Stage
<1>8. Snapshots'
  BY <1>1, AuditStored DEF StoreAudit
<1> QED
  BY <1>2, <1>5, <1>7, <1>8, SummaryMoves, SnapshotsThere DEF StoreAudit

LEMMA SummarySteps == ASSUME MarketInv, NEW t \in Threads, SummaryStep(t) PROVE MarketInv'
  BY LookStep, StoreStep, LookAuditStep, LookInnerStep, StoreInnerStep, StoreAuditStep
     DEF SummaryStep

LEMMA NoRequestStage == Stage(NoRequest)
  BY NobodyAsks DEF Stage

LEMMA AnsweredStep == ASSUME MarketInv, NEW t \in Readers, SummaryAnswered(t) PROVE MarketInv'
<1>1. t \in Threads
  BY DEF Threads
<1> QED
  BY <1>1, NobodyAsks, NoRequestStage, SummaryMoves, SnapshotsThere, SnapshotsStay
     DEF SummaryAnswered

LEMMA RememberStep == ASSUME MarketInv, NEW t \in Readers, Remember(t) PROVE MarketInv'
<1> DEFINE q == query[t]
<1>1. t \in Threads
  BY DEF Threads
<1>2. /\ q \in SummaryRequest /\ q.age \in {0, 1}
      /\ Young(q.answer, q.age + StatusAge + AuditAge + 2)
  BY <1>1, RequestIs DEF Remember, Stage
<1>3. KeptFor(memory', AuditAge, StatusAge + AuditAge + 2)
  <2> DEFINE b == q.answer[1]
  <2>1. b \in Body /\ b.age <= q.age + (StatusAge + AuditAge + 2)
    BY <1>2, YoungIs, Limits
  <2>2. memory' = <<[body |-> b, age |-> q.age]>>
    BY DEF Remember
  <2>3. q.age \in 0 .. AuditAge
    BY <1>2, Limits
  <2> QED
    BY <2>1, <2>2, <2>3 DEF KeptFor
<1> QED
  BY <1>1, <1>3, NobodyAsks, NoRequestStage, SummaryMoves, SnapshotsThere, SnapshotsStay
     DEF Remember

LEMMA AskStatusStep == ASSUME MarketInv, NEW t \in Readers, AskStatus(t) PROVE MarketInv'
<1>1. t \in Threads /\ {"fast", "slow"} \subseteq Kinds
  BY DEF Threads, Kinds
<1> QED
  BY <1>1, AskMarketStep, ThreadsStay DEF AskStatus

LEMMA DiagnoseStep == ASSUME MarketInv, NEW t \in Readers, Diagnose(t) PROVE MarketInv'
<1>1. t \in Threads /\ "diagnose" \in Kinds
  BY DEF Threads, Kinds
<1> QED
  BY <1>1, AskMarketStep, ThreadsStay DEF Diagnose

---------------------------------------------------------------------------
(* The download *)

LEMMA WorkIs == ASSUME MarketInv, NEW d \in Downloads
  PROVE  /\ work[d] \in Work /\ Placed(work[d]) /\ work \in [Downloads -> Work]
         /\ work[d].half \in BOOLEAN /\ work[d].auditing \in BOOLEAN
  BY DEF MarketInv, Threaded, Work

LEMMA JobsNow == MarketInv => Jobs
  BY DEF MarketInv, Threaded

\* A thread of the download moves on.
LEMMA WorkMoves ==
  ASSUME MarketInv, NEW d \in Downloads, NEW n, Placed(n), work' = [work EXCEPT ![d] = n],
         Jobs', job' = "running" \/ flag'
                  => n.served \/ (~ work[d].served /\ (job = "running" \/ flag))
  PROVE  Threaded'
<1>1. \A e \in Downloads : work'[e] = IF e = d THEN n ELSE work[e]
  BY WorkIs
<1>2. work' \in [Downloads -> Work]
  BY WorkIs DEF Placed
<1>3. \A e \in Downloads : Placed(work'[e])
  BY <1>1, WorkIs
<1>4. RunningIsTrue'
  <2> SUFFICES ASSUME job' = "running" \/ flag' PROVE \E e \in Downloads : work'[e].served
    BY DEF RunningIsTrue
  <2>1. CASE n.served
    BY <1>1, <2>1
  <2>2. CASE ~ work[d].served /\ (job = "running" \/ flag)
    <3>1. PICK e \in Downloads : work[e].served
      BY <2>2 DEF MarketInv, Threaded, RunningIsTrue
    <3> QED
      BY <1>1, <2>2, <3>1
  <2> QED
    BY <2>1, <2>2
<1> QED
  BY <1>2, <1>3, <1>4 DEF Threaded

\* ... and says what it said.
LEMMA WorkGoesOn ==
  ASSUME MarketInv, NEW d \in Downloads, NEW n, Placed(n), work' = [work EXCEPT ![d] = n],
         n.served = work[d].served, UNCHANGED <<embedded, job, flag>>
  PROVE  Threaded'
<1>1. Jobs'
  BY JobsNow DEF Jobs
<1> QED
  BY <1>1, WorkMoves

\* Nothing is written and nothing announced.
LEMMA DataStays ==
  ASSUME MarketInv, UNCHANGED <<snap, query, memory>>, HalvesStay, Threaded'
  PROVE  MarketInv'
<1>1. \A b : Noticed(b)' = Noticed(b)
  BY DEF Noticed, HalvesStay
<1>2. Typed' /\ Ages'
  BY DEF MarketInv, Typed, Ages
<1>3. Notice'
  BY <1>1 DEF MarketInv, Notice
<1> QED
  BY <1>2, <1>3 DEF MarketInv

LEMMA EmptyIs == <<>> \in Seq(StageNames)
  OBVIOUS

LEMMA Begun ==
  /\ NotBegun \in Work /\ NotBegun.served = TRUE
  /\ NotBegun.half = FALSE /\ NotBegun.auditing = FALSE
  /\ Free \in Work /\ Free.served = FALSE /\ Free.half = FALSE /\ Free.auditing = FALSE
<1>1. Free \in Work /\ Free.served = FALSE /\ Free.half = FALSE /\ Free.auditing = FALSE
  BY EmptyIs DEF Free, Work
<1>2. NotBegun \in Work /\ NotBegun.served = TRUE
      /\ NotBegun.half = FALSE /\ NotBegun.auditing = FALSE
  BY <1>1 DEF NotBegun, Work
<1> QED
  BY <1>1, <1>2

LEMMA SetStages ==
  ASSUME NEW r \in Work, NEW stages \in Seq(StageNames), NEW n,
         n = [r EXCEPT !.todo = stages, !.at = 1]
  PROVE  n \in Work /\ n.half = r.half /\ n.auditing = r.auditing /\ n.served = r.served
  BY DEF Work

LEMMA SetHalf == ASSUME NEW r \in Work, NEW n, n = [r EXCEPT !.half = TRUE]
  PROVE  n \in Work /\ n.todo = r.todo /\ n.at = r.at /\ n.half = TRUE
         /\ n.auditing = r.auditing /\ n.served = r.served
  BY DEF Work

LEMMA SetAuditing == ASSUME NEW r \in Work, NEW n, n = [r EXCEPT !.auditing = TRUE]
  PROVE  n \in Work /\ n.todo = r.todo /\ n.at = r.at /\ n.half = r.half
         /\ n.auditing = TRUE /\ n.served = r.served
  BY DEF Work

\* An operation is followed by the next one, of the stage or of the next stage.
LEMMA StageOverIs == ASSUME NEW r \in Work, r.todo # <<>>
  PROVE  StageOver(r) \in Work /\ StageOver(r).half = FALSE /\ StageOver(r).auditing = FALSE
         /\ StageOver(r).served = r.served
<1>1. r.todo \in Seq(StageNames)
  BY DEF Work
<1>2. Tail(r.todo) \in Seq(StageNames)
  BY <1>1, HeadTailProperties
<1> QED
  BY <1>2 DEF StageOver, Work

LEMMA NextOpIs == ASSUME NEW r \in Work, r.todo # <<>>
  PROVE  NextOp(r) \in Work /\ NextOp(r).half = FALSE /\ NextOp(r).auditing = FALSE
         /\ NextOp(r).served = r.served
<1> DEFINE n == [r EXCEPT !.at = r.at + 1, !.half = FALSE, !.auditing = FALSE]
<1>1. n \in Work /\ n.half = FALSE /\ n.auditing = FALSE /\ n.served = r.served
  <2>1. r.at + 1 \in Nat
    BY DEF Work
  <2> DEFINE n1 == [r EXCEPT !.at = r.at + 1]
             n2 == [n1 EXCEPT !.half = FALSE]
  <2>2. n = [n2 EXCEPT !.auditing = FALSE]
    OBVIOUS
  <2>3. n1 \in Work /\ n1.served = r.served
    BY <2>1 DEF Work
  <2> HIDE DEF n, n1
  <2>4. n2 \in Work /\ n2.half = FALSE /\ n2.served = r.served
    BY <2>3 DEF Work
  <2> HIDE DEF n2
  <2> QED
    BY <2>2, <2>4 DEF Work
<1>2. NextOp(r) = n \/ NextOp(r) = StageOver(r)
  BY DEF NextOp
<1> QED
  BY <1>1, <1>2, StageOverIs

LEMMA AnnouncedIs == ASSUME NEW r \in Work, r.todo # <<>>, OpIn(r, {"each"}) => ~ r.auditing
  PROVE  Announced(r) \in Work /\ Announced(r).half = FALSE /\ Announced(r).auditing = FALSE
         /\ Announced(r).served = r.served
<1>1. CASE OpIn(r, {"each"})
  BY <1>1 DEF Announced, Work
<1>2. CASE ~ OpIn(r, {"each"})
  BY <1>2, NextOpIs DEF Announced
<1> QED
  BY <1>1, <1>2

\* Nothing to announce.
LEMMA ClearPlaced == ASSUME NEW n \in Work, n.half = FALSE, n.auditing = FALSE PROVE Placed(n)
  BY DEF Placed

\* An operation is of one kind.
LEMMA OneKind == \A r, S, T : OpIn(r, S) /\ OpIn(r, T) => r.todo # <<>> /\ S \cap T # {}
  BY DEF OpIn

\* One thread's work changes, but for what it has to announce.
LEMMA HalfStays ==
  ASSUME MarketInv, NEW d \in Downloads, NEW n, work' = [work EXCEPT ![d] = n],
         n.half = work[d].half
  PROVE  HalvesStay
<1>1. \A e \in Downloads : work'[e] = IF e = d THEN n ELSE work[e]
  BY WorkIs
<1> QED
  BY <1>1 DEF HalvesStay

LEMMA BegunPlaced == Placed(NotBegun) /\ Placed(Free)
  BY Begun, ClearPlaced

LEMMA TriggerJobStep == ASSUME MarketInv, NEW d \in Downloads, TriggerJob(d) PROVE MarketInv'
<1>1. Threaded'
  <2>1. Jobs'
    BY JobsNow DEF Jobs, TriggerJob
  <2> QED
    BY <2>1, Begun, BegunPlaced, WorkMoves DEF TriggerJob
<1>2. HalvesStay
  BY Begun, HalfStays DEF TriggerJob, Idle
<1> QED
  BY <1>1, <1>2, DataStays DEF TriggerJob

LEMMA TriggerFlagStep == ASSUME MarketInv, NEW d \in Downloads, TriggerFlag(d) PROVE MarketInv'
<1>1. Threaded'
  <2>1. Jobs'
    BY JobsNow DEF Jobs, TriggerFlag
  <2> QED
    BY <2>1, Begun, BegunPlaced, WorkMoves DEF TriggerFlag
<1>2. HalvesStay
  BY Begun, HalfStays DEF TriggerFlag, Idle
<1> QED
  BY <1>1, <1>2, DataStays DEF TriggerFlag

LEMMA RunSyncStep == ASSUME MarketInv, NEW d \in Downloads, RunSync(d) PROVE MarketInv'
<1> DEFINE N(stages) == [Free EXCEPT !.todo = stages, !.at = 1]
<1>1. PICK n : /\ \E stages \in CommandLines \cup Derivatives : n = N(stages)
               /\ work' = [work EXCEPT ![d] = n]
  BY Zenon DEF RunSync
<1>2. n \in Work /\ n.half = FALSE /\ n.auditing = FALSE /\ n.served = FALSE
  <2>1. PICK stages \in Seq(StageNames) : n = N(stages)
    BY <1>1, CommandLinesAre, DerivativesAre
  <2> QED
    BY <2>1, Begun, SetStages
<1>3. work' = [work EXCEPT ![d] = n]
  BY <1>1
<1> HIDE DEF N
<1>4. work[d] = Free
  BY DEF RunSync, Idle
<1>5. Threaded' /\ HalvesStay
  BY <1>2, <1>3, <1>4, Begun, ClearPlaced, HalfStays, WorkGoesOn DEF RunSync
<1> QED
  BY <1>5, DataStays DEF RunSync

LEMMA BeginStep == ASSUME MarketInv, NEW d \in Downloads, Begin(d) PROVE MarketInv'
<1> DEFINE N(stages) == [NotBegun EXCEPT !.todo = stages, !.at = 1]
<1>1. PICK n : /\ \E stages \in Refreshes : n = N(stages)
               /\ work' = [work EXCEPT ![d] = n]
  BY Zenon DEF Begin
<1>2. n \in Work /\ n.half = FALSE /\ n.auditing = FALSE /\ n.served = TRUE
  <2>1. PICK stages \in Seq(StageNames) : n = N(stages)
    BY <1>1, RefreshesAre
  <2> QED
    BY <2>1, Begun, SetStages
<1>3. work' = [work EXCEPT ![d] = n]
  BY <1>1
<1> HIDE DEF N
<1>4. Threaded'
  <2>1. Jobs'
    BY JobsNow DEF Jobs, Begin
  <2> QED
    BY <1>2, <1>3, <2>1, ClearPlaced, WorkMoves
<1>5. HalvesStay
  BY <1>2, <1>3, Begun, HalfStays DEF Begin
<1> QED
  BY <1>4, <1>5, DataStays DEF Begin

\* A thread with nothing to announce goes on with n.
LEMMA QuietStep ==
  ASSUME MarketInv, NEW d \in Downloads, NEW n \in Work, work' = [work EXCEPT ![d] = n],
         work[d].half = FALSE, n.half = FALSE, n.auditing = FALSE, n.served = work[d].served,
         UNCHANGED <<embedded, snap, query, job, flag, memory>>
  PROVE  MarketInv'
<1>1. Threaded' /\ HalvesStay
  BY ClearPlaced, HalfStays, WorkGoesOn
<1> QED
  BY <1>1, DataStays

LEMMA SkipStep == ASSUME MarketInv, NEW d \in Downloads, Skip(d) PROVE MarketInv'
<1> DEFINE n == NextOp(work[d])
<1>1. work[d] \in Work /\ work[d].half = FALSE /\ work[d].todo # <<>>
  BY WorkIs DEF Skip, At, OpIn
<1>2. n \in Work /\ n.half = FALSE /\ n.auditing = FALSE /\ n.served = work[d].served
  BY <1>1, NextOpIs
<1>3. work' = [work EXCEPT ![d] = n]
  BY DEF Skip
<1> HIDE DEF n
<1> QED
  BY <1>1, <1>2, <1>3, QuietStep DEF Skip

LEMMA NothingThereStep == ASSUME MarketInv, NEW d \in Downloads, NothingThere(d) PROVE MarketInv'
<1> DEFINE n == StageOver(work[d])
<1>1. OpIn(work[d], {"ask"})
  BY DEF NothingThere, At
<1>2. work[d] \in Work /\ work[d].half = FALSE /\ work[d].todo # <<>>
  <2>1. {"ask"} \cap Writing = {}
    BY DEF Writing
  <2> QED
    BY <1>1, <2>1, OneKind, WorkIs DEF Placed
<1>3. n \in Work /\ n.half = FALSE /\ n.auditing = FALSE /\ n.served = work[d].served
  BY <1>2, StageOverIs
<1>4. work' = [work EXCEPT ![d] = n]
  BY DEF NothingThere
<1> HIDE DEF n
<1> QED
  BY <1>2, <1>3, <1>4, QuietStep DEF NothingThere

LEMMA AuditStep == ASSUME MarketInv, NEW d \in Downloads, Audit(d) PROVE MarketInv'
<1> DEFINE n == [work[d] EXCEPT !.auditing = TRUE]
<1>1. work' = [work EXCEPT ![d] = n] /\ work[d] \in Work /\ OpIn(work[d], {"audit"})
  BY WorkIs DEF Audit, At
<1>2. ~work[d].half
  <2>1. {"audit"} \cap Writing = {}
    BY DEF Writing
  <2> QED
    BY <1>1, <2>1, OneKind, WorkIs DEF Placed
<1>3. n \in Work /\ n.todo = work[d].todo /\ n.at = work[d].at /\ n.half = work[d].half
      /\ n.auditing = TRUE /\ n.served = work[d].served
  BY <1>1, SetAuditing
<1> HIDE DEF n
<1>4. Placed(n)
  BY <1>1, <1>2, <1>3 DEF Placed, OpIn
<1>5. Threaded' /\ HalvesStay
  BY <1>1, <1>3, <1>4, WorkGoesOn, HalfStays DEF Audit
<1>6. d \in Threads /\ "audit" \in Kinds
  BY DEF Threads, Kinds
<1> QED
  BY <1>5, <1>6, AskMarketStep DEF Audit

\* The thread is over, when it has nothing to announce.
LEMMA EndStep ==
  ASSUME MarketInv, NEW d \in Downloads, NEW status \in {"ok", "error"}, End(d, status),
         ~work[d].half
  PROVE  MarketInv'
<1>1. d \in Threads
  BY DEF Threads
<1>2. Jobs'
  BY JobsNow DEF Jobs, End
<1>3. Threaded'
  <2>1. CASE work[d].served
    <3>1. ~ (job' = "running" \/ flag')
      BY <2>1, JobsNow DEF Jobs, End
    <3> QED
      BY <1>2, <3>1, BegunPlaced, WorkMoves DEF End
  <2>2. CASE ~ work[d].served
    <3>1. job' = job /\ flag' = flag /\ work' = [work EXCEPT ![d] = Free]
      BY <2>2 DEF End
    <3> QED
      BY <1>2, <2>2, <3>1, BegunPlaced, WorkMoves
  <2> QED
    BY <2>1, <2>2
<1>4. HalvesStay
  BY Begun, HalfStays, WorkIs DEF End
<1> QED
  BY <1>1, <1>3, <1>4, NobodyAsks, NoRequestStage, SummaryGoes, SnapshotsThere, SnapshotsKept
     DEF End

LEMMA FinishStep == ASSUME MarketInv, NEW d \in Downloads, Finish(d) PROVE MarketInv'
<1>1. ~ OpIn(work[d], Writing)
  BY DEF Finish, OpIn
<1> QED
  BY <1>1, EndStep, WorkIs DEF Finish, Placed

LEMMA FailStep == ASSUME MarketInv, NEW d \in Downloads, Fail(d) PROVE MarketInv'
  BY EndStep DEF Fail

---------------------------------------------------------------------------
(* What concerns every request and every snapshot *)

\* A request stays what it is when its summaries do.
LEMMA StageKept ==
  ASSUME NEW r \in SummaryRequest, NEW n \in SummaryRequest, Stage(r),
         n.pc = r.pc, n.kind = r.kind, n.age <= 1,
         r.counts = None => n.counts = None, r.answer = None => n.answer = None,
         \A k \in Nat : /\ Young(r.counts, r.age + k) => Young(n.counts, n.age + k)
                        /\ Young(r.answer, r.age + k) => Young(n.answer, n.age + k)
  PROVE  Stage(n)
<1> DEFINE K == StatusAge + 1
           L == StatusAge + AuditAge + 2
<1>1. K \in Nat /\ L \in Nat /\ r.age \in Nat /\ n.age \in Nat
  BY Limits DEF SummaryRequest, Age
<1>2. /\ r.age + 0 = r.age /\ n.age + 0 = n.age
      /\ r.age + StatusAge + 1 = r.age + K /\ n.age + StatusAge + 1 = n.age + K
      /\ r.age + StatusAge + AuditAge + 2 = r.age + L /\ n.age + StatusAge + AuditAge + 2 = n.age + L
  BY <1>1, Limits
<1> HIDE DEF K, L
<1>3. r.pc \in {"store", "storeInner"} => Young(n.counts, n.age)
  BY <1>1, <1>2 DEF Stage
<1>4. r.pc = "storeAudit" => Young(n.counts, n.age + StatusAge + 1)
  BY <1>1, <1>2 DEF Stage
<1>5. r.pc = "lookAudit" =>
        /\ n.kind = "slow" => Young(n.answer, n.age)
        /\ n.kind = "fast" => Young(n.answer, n.age + StatusAge + 1)
  BY <1>1, <1>2 DEF Stage
<1>6. r.pc = "done" =>
        /\ n.kind \in {"slow", "audit"} => Young(n.answer, n.age + StatusAge + 1)
        /\ n.kind \in {"fast", "diagnose"} => Young(n.answer, n.age + StatusAge + AuditAge + 2)
  BY <1>1, <1>2 DEF Stage
<1> QED
  BY <1>3, <1>4, <1>5, <1>6 DEF Stage

EachLeft(o) == [i \in DOMAIN o |-> Left(o[i])]
EachMissed(o) == [i \in DOMAIN o |-> Missed(o[i])]
EachOlder(o) == [i \in DOMAIN o |-> OlderBody(o[i])]

LEMMA LeftKeeps == \A o \in AtMostOne(Body) :
  /\ EachLeft(o) \in AtMostOne(Body)
  /\ o = None => EachLeft(o) = None
  /\ o # None => EachLeft(o) = <<Left(o[1])>> /\ o[1] \in Body
<1> SUFFICES ASSUME NEW o \in AtMostOne(Body)
             PROVE  /\ EachLeft(o) \in AtMostOne(Body)
                    /\ o = None => EachLeft(o) = None
                    /\ o # None => EachLeft(o) = <<Left(o[1])>> /\ o[1] \in Body
  OBVIOUS
<1>1. CASE o = None
  BY <1>1, EachNone, NoneIs DEF EachLeft
<1>2. ASSUME NEW b \in Body, o = <<b>>
      PROVE  EachLeft(o) = <<Left(b)>> /\ o[1] = b /\ o # None /\ EachLeft(o) \in AtMostOne(Body)
  <2>1. o # None /\ o[1] = b
    BY <1>2 DEF None
  <2>2. EachLeft(o) = <<Left(b)>>
    BY <1>2, EachOne DEF EachLeft
  <2>3. Left(b) \in Body
    BY Bodies
  <2> QED
    BY <2>1, <2>2, <2>3, OneIs
<1> QED
  BY <1>1, <1>2, OneIs

LEMMA MissedKeeps == \A o \in AtMostOne(Body) :
  /\ EachMissed(o) \in AtMostOne(Body)
  /\ o = None => EachMissed(o) = None
  /\ o # None => EachMissed(o) = <<Missed(o[1])>> /\ o[1] \in Body
<1> SUFFICES ASSUME NEW o \in AtMostOne(Body)
             PROVE  /\ EachMissed(o) \in AtMostOne(Body)
                    /\ o = None => EachMissed(o) = None
                    /\ o # None => EachMissed(o) = <<Missed(o[1])>> /\ o[1] \in Body
  OBVIOUS
<1>1. CASE o = None
  BY <1>1, EachNone, NoneIs DEF EachMissed
<1>2. ASSUME NEW b \in Body, o = <<b>>
      PROVE  EachMissed(o) = <<Missed(b)>> /\ o[1] = b /\ o # None /\ EachMissed(o) \in AtMostOne(Body)
  <2>1. o # None /\ o[1] = b
    BY <1>2 DEF None
  <2>2. EachMissed(o) = <<Missed(b)>>
    BY <1>2, EachOne DEF EachMissed
  <2>3. Missed(b) \in Body
    BY Bodies
  <2> QED
    BY <2>1, <2>2, <2>3, OneIs
<1> QED
  BY <1>1, <1>2, OneIs

LEMMA OlderKeeps == \A o \in AtMostOne(Body) :
  /\ EachOlder(o) \in AtMostOne(Body)
  /\ o = None => EachOlder(o) = None
  /\ o # None => EachOlder(o) = <<OlderBody(o[1])>> /\ o[1] \in Body
<1> SUFFICES ASSUME NEW o \in AtMostOne(Body)
             PROVE  /\ EachOlder(o) \in AtMostOne(Body)
                    /\ o = None => EachOlder(o) = None
                    /\ o # None => EachOlder(o) = <<OlderBody(o[1])>> /\ o[1] \in Body
  OBVIOUS
<1>1. CASE o = None
  BY <1>1, EachNone, NoneIs DEF EachOlder
<1>2. ASSUME NEW b \in Body, o = <<b>>
      PROVE  EachOlder(o) = <<OlderBody(b)>> /\ o[1] = b /\ o # None /\ EachOlder(o) \in AtMostOne(Body)
  <2>1. o # None /\ o[1] = b
    BY <1>2 DEF None
  <2>2. EachOlder(o) = <<OlderBody(b)>>
    BY <1>2, EachOne DEF EachOlder
  <2>3. OlderBody(b) \in Body
    BY Bodies
  <2> QED
    BY <2>1, <2>2, <2>3, OneIs
<1> QED
  BY <1>1, <1>2, OneIs

\* What becomes of a dated summary.
DatedLeft(o) == [i \in DOMAIN o |-> [o[i] EXCEPT !.body = Left(o[i].body)]]
DatedMissed(o) == [i \in DOMAIN o |-> [o[i] EXCEPT !.body = Missed(o[i].body)]]

DatedOlder(o, limit) ==
  IF o = None \/ o[1].age = limit THEN None
  ELSE <<[body |-> OlderBody(o[1].body), age |-> o[1].age + 1]>>

RequestLeft(r) == [r EXCEPT !.counts = EachLeft(r.counts)]
RequestOlder(r) == [[r EXCEPT !.counts = EachOlder(r.counts), !.answer = EachOlder(r.answer)]
                    EXCEPT !.age = Older(r.age)]

LEMMA WriteDoes == ASSUME NEW d \in Downloads, Write(d)
  PROVE  /\ query' = [t \in Threads |-> RequestLeft(query[t])]
         /\ snap' = [k \in DOMAIN snap |-> DatedLeft(snap[k])]
         /\ memory' = memory
  BY DEF Write, EachRequest, Each, EachDated, EachLeft, DatedLeft, Left, RequestLeft

LEMMA InvalidateDoes == ASSUME NEW d \in Downloads, Invalidate(d)
  PROVE  query' = [[t \in Threads |-> [query[t] EXCEPT !.counts = EachMissed(query[t].counts)]]
                   EXCEPT ![d] = NoRequest]
  BY Zenon DEF Invalidate, MarkRaced, EachRequest, Each, EachMissed

LEMMA FailHalfDoes == ASSUME NEW d \in Downloads, FailHalf(d)
  PROVE  /\ query' = [[t \in Threads |-> [query[t] EXCEPT !.counts = EachMissed(query[t].counts)]]
                      EXCEPT ![d] = NoRequest]
         /\ snap' = [k \in DOMAIN snap |-> DatedMissed(snap[k])]
<1>1. snap' = [k \in DOMAIN snap |-> DatedMissed(snap[k])]
  BY DEF FailHalf, EachDated, DatedMissed
<1>2. query' = [[t \in Threads |-> [query[t] EXCEPT !.counts = EachMissed(query[t].counts)]]
                EXCEPT ![d] = NoRequest]
  BY Zenon DEF FailHalf, MarkRaced, EachRequest, Each, EachMissed
<1> QED
  BY <1>1, <1>2

LEMMA TickDoes == ASSUME Tick
  PROVE  /\ query' = [t \in Threads |->
                        IF query[t].pc = "idle" THEN query[t] ELSE RequestOlder(query[t])]
         /\ snap' = [status |-> DatedOlder(snap.status, StatusAge),
                     audit |-> DatedOlder(snap.audit, AuditAge)]
         /\ memory' = DatedOlder(memory, AuditAge)
  BY DEF Tick, EachRequest, Each, EachOlder, OlderBody, Older, RequestOlder, DatedOlder

LEMMA LeftRequest ==
  ASSUME NEW r \in SummaryRequest, Stage(r)
  PROVE  RequestLeft(r) \in SummaryRequest /\ Stage(RequestLeft(r))
<1> DEFINE n == [r EXCEPT !.counts = EachLeft(r.counts)]
<1>1. r.counts \in AtMostOne(Body)
  BY DEF SummaryRequest
<1>3. RequestLeft(r) = n
  BY DEF RequestLeft
<1>4. n \in SummaryRequest /\ n.counts = EachLeft(r.counts) /\ n.answer = r.answer
      /\ n.kind = r.kind /\ n.pc = r.pc /\ n.age = r.age
  BY <1>1, LeftKeeps, SetCounts
<1> HIDE DEF n
<1>5. ASSUME NEW o \in AtMostOne(Body), NEW k, Young(o, k) PROVE Young(EachLeft(o), k)
  BY <1>5, Bodies, LeftKeeps, YoungIs, YoungOne
<1>6. \A k \in Nat : /\ Young(r.counts, r.age + k) => Young(n.counts, n.age + k)
                     /\ Young(r.answer, r.age + k) => Young(n.answer, n.age + k)
  BY <1>1, <1>4, <1>5
<1>7. (r.counts = None => n.counts = None) /\ (r.answer = None => n.answer = None) /\ n.age <= 1
  BY <1>1, <1>4, LeftKeeps DEF Stage
<1> QED
  BY <1>3, <1>4, <1>6, <1>7, StageKept

LEMMA MissedRequest ==
  ASSUME NEW r \in SummaryRequest, Stage(r), NEW n, n = [r EXCEPT !.counts = EachMissed(r.counts)]
  PROVE  /\ n \in SummaryRequest /\ Stage(n)
         /\ n.counts # None => (n.counts[1].behind => n.counts[1].raced)
<1>1. r.counts \in AtMostOne(Body)
  BY DEF SummaryRequest
<1>2. n \in SummaryRequest /\ n.counts = EachMissed(r.counts)
      /\ n.kind = r.kind /\ n.pc = r.pc /\ n.age = r.age /\ n.answer = r.answer
  BY <1>1, MissedKeeps, SetCounts
<1>3. ASSUME NEW o \in AtMostOne(Body), NEW k, Young(o, k) PROVE Young(EachMissed(o), k)
  BY <1>3, Bodies, MissedKeeps, YoungIs, YoungOne
<1>4. \A k \in Nat : /\ Young(r.counts, r.age + k) => Young(n.counts, n.age + k)
                     /\ Young(r.answer, r.age + k) => Young(n.answer, n.age + k)
  BY <1>1, <1>2, <1>3
<1>5. (r.counts = None => n.counts = None) /\ (r.answer = None => n.answer = None) /\ n.age <= 1
  BY <1>1, <1>2, MissedKeeps DEF Stage
<1>6. Stage(n)
  BY <1>2, <1>4, <1>5, StageKept
<1>7. ASSUME n.counts # None PROVE n.counts[1].behind => n.counts[1].raced
  <2>1. r.counts # None /\ r.counts[1] \in Body /\ n.counts = <<Missed(r.counts[1])>>
    BY <1>1, <1>2, <1>7, MissedKeeps
  <2>2. n.counts[1] = Missed(r.counts[1])
    BY <2>1
  <2> QED
    BY <2>1, <2>2, Bodies
<1> QED
  BY <1>2, <1>6, <1>7

LEMMA OlderIs == \A m, n \in Nat : \A k \in Nat :
  /\ Older(n) \in Nat /\ n <= Older(n) /\ Older(n) <= n + 1
  /\ m <= n + k => Older(m) <= Older(n) + k
  BY Limits DEF Older

LEMMA OlderRequest ==
  ASSUME NEW r \in SummaryRequest, Stage(r), r.age = 0
  PROVE  /\ RequestOlder(r) \in SummaryRequest /\ Stage(RequestOlder(r))
         /\ RequestOlder(r).counts = EachOlder(r.counts)
<1> DEFINE a == Older(r.age)
           n1 == [r EXCEPT !.counts = EachOlder(r.counts)]
           n2 == [n1 EXCEPT !.answer = EachOlder(r.answer)]
           n == [n2 EXCEPT !.age = a]
<1>1. r.counts \in AtMostOne(Body) /\ r.answer \in AtMostOne(Body) /\ r.age \in Nat
  BY DEF SummaryRequest, Age
<1>2. a \in Age /\ a \in Nat /\ a <= 1
  BY Limits DEF Older, Age
<1>3. n1 \in SummaryRequest /\ n1.counts = EachOlder(r.counts)
      /\ n1.kind = r.kind /\ n1.pc = r.pc /\ n1.answer = r.answer
  BY <1>1, OlderKeeps, SetCounts
<1>4. RequestOlder(r) = n
  BY DEF RequestOlder
<1>5. \A m \in Nat, k \in Nat : m <= r.age + k => Older(m) <= a + k
  BY <1>1, OlderIs
<1> HIDE DEF n1, a
<1>6. n2 \in SummaryRequest /\ n2.counts = EachOlder(r.counts) /\ n2.answer = EachOlder(r.answer)
      /\ n2.kind = r.kind /\ n2.pc = r.pc
  BY <1>1, <1>3, OlderKeeps, SetAnswer
<1> HIDE DEF n2
<1>7. n \in SummaryRequest /\ n.counts = EachOlder(r.counts) /\ n.answer = EachOlder(r.answer)
      /\ n.kind = r.kind /\ n.pc = r.pc /\ n.age = a
  BY <1>2, <1>6, SetAge
<1> HIDE DEF n
<1>8. ASSUME NEW o \in AtMostOne(Body), NEW k \in Nat, Young(o, r.age + k)
      PROVE  Young(EachOlder(o), a + k)
  <2>1. o # None /\ o[1] \in Body /\ o[1].age <= r.age + k /\ o[1].age \in Nat
    BY <1>8, YoungIs DEF Body, Age
  <2>2. EachOlder(o) = <<OlderBody(o[1])>> /\ OlderBody(o[1]) \in Body
        /\ OlderBody(o[1]).age = Older(o[1].age)
    BY <2>1, Bodies, OlderKeeps
  <2>3. OlderBody(o[1]).age <= a + k
    BY <1>5, <2>1, <2>2
  <2> QED
    BY <2>2, <2>3, YoungOne
<1>9. \A k \in Nat : /\ Young(r.counts, r.age + k) => Young(n.counts, n.age + k)
                     /\ Young(r.answer, r.age + k) => Young(n.answer, n.age + k)
  BY <1>1, <1>7, <1>8
<1>10. (r.counts = None => n.counts = None) /\ (r.answer = None => n.answer = None) /\ n.age <= 1
  BY <1>1, <1>2, <1>7, OlderKeeps
<1> QED
  BY <1>4, <1>7, <1>9, <1>10, StageKept

LEMMA DatedKept == ASSUME NEW s, NEW limit \in Nat, NEW slack \in Nat, KeptFor(s, limit, slack)
  PROVE  KeptFor(DatedLeft(s), limit, slack)
<1>1. CASE s = None
  <2>1. DatedLeft(s) = None
    BY <1>1 DEF DatedLeft, None
  <2> QED
    BY <2>1 DEF KeptFor
<1>2. CASE s # None
  <2>1. PICK b \in Body, a \in 0 .. limit : s = <<[body |-> b, age |-> a]>> /\ b.age <= a + slack
    BY <1>2 DEF KeptFor
  <2> DEFINE x == [body |-> b, age |-> a]
  <2>2. [x EXCEPT !.body = Left(x.body)] = [body |-> Left(b), age |-> a]
    OBVIOUS
  <2>3. DatedLeft(s) = <<[x EXCEPT !.body = Left(x.body)]>>
    <3> HIDE DEF x
    <3>1. DatedLeft(<<x>>) = <<[x EXCEPT !.body = Left(x.body)]>>
      BY DEF DatedLeft
    <3> QED
      BY <2>1, <3>1 DEF x
  <2>4. Left(b) \in Body /\ Left(b).age <= a + slack
    BY <2>1, Bodies
  <2> QED
    BY <2>2, <2>3, <2>4 DEF KeptFor
<1> QED
  BY <1>1, <1>2

LEMMA WriteStep == ASSUME MarketInv, NEW d \in Downloads, Write(d) PROVE MarketInv'
<1> DEFINE n == [work[d] EXCEPT !.half = TRUE]
<1>1. work' = [work EXCEPT ![d] = n] /\ work[d] \in Work /\ OpIn(work[d], Writing)
  BY WorkIs DEF Write, At
<1>2. ~work[d].auditing
  <2>1. {"audit"} \cap Writing = {}
    BY DEF Writing
  <2> QED
    BY <1>1, <2>1, OneKind, WorkIs DEF Placed
<1>3. n \in Work /\ n.todo = work[d].todo /\ n.at = work[d].at /\ n.half = TRUE
      /\ n.auditing = work[d].auditing /\ n.served = work[d].served
  BY <1>1, SetHalf
<1> HIDE DEF n
<1>4. Placed(n)
  BY <1>1, <1>2, <1>3 DEF Placed, OpIn
<1>6. Threaded'
  BY <1>1, <1>3, <1>4, WorkGoesOn DEF Write
<1>7. \A b : Noticed(b)'
  <2>1. work'[d].half
    BY <1>1, <1>3, WorkIs
  <2> QED
    BY <2>1 DEF Noticed
<1>8. \A t \in Threads : query'[t] \in SummaryRequest /\ Stage(query'[t])
  BY WriteDoes, RequestIs, LeftRequest
<1>9. query' \in [Threads -> SummaryRequest]
  BY <1>8, WriteDoes
<1>10. snap' = [status |-> DatedLeft(snap.status), audit |-> DatedLeft(snap.audit)]
  <2>1. snap = [status |-> snap.status, audit |-> snap.audit]
    BY DEF MarketInv, Typed
  <2>2. DOMAIN snap = {"status", "audit"}
    BY <2>1
  <2> QED
    BY <2>2, WriteDoes
<1>11. snap'.status = DatedLeft(snap.status) /\ snap'.audit = DatedLeft(snap.audit)
       /\ snap' = [status |-> snap'.status, audit |-> snap'.audit]
  BY <1>10
<1>12. Ages'
  <2>1. StatusAge + 2 \in Nat /\ StatusAge + AuditAge + 2 \in Nat
    BY Limits
  <2>2. KeptFor(DatedLeft(snap.status), StatusAge, 1)
    BY DatedKept, Limits DEF MarketInv, Ages
  <2>3. KeptFor(DatedLeft(snap.audit), AuditAge, StatusAge + 2)
    BY <2>1, DatedKept, Limits DEF MarketInv, Ages
  <2> QED
    BY <1>8, <1>11, <2>2, <2>3, WriteDoes DEF MarketInv, Ages
<1> QED
  BY <1>6, <1>7, <1>9, <1>11, <1>12 DEF MarketInv, Typed, Notice

LEMMA InvalidateStep == ASSUME MarketInv, NEW d \in Downloads, Invalidate(d) PROVE MarketInv'
<1> DEFINE n == Announced(work[d])
<1>1. work' = [work EXCEPT ![d] = n] /\ work[d] \in Work
  BY WorkIs DEF Invalidate
<1>2. work[d].todo # <<>> /\ (OpIn(work[d], {"each"}) => ~work[d].auditing)
  <2>1. work[d].todo # <<>>
    BY WorkIs DEF Invalidate, ToInvalidate, At, Placed, OpIn
  <2>2. {"audit"} \cap {"each"} = {}
    OBVIOUS
  <2> QED
    BY <2>1, <2>2, OneKind, WorkIs DEF Placed
<1>3. n \in Work /\ n.half = FALSE /\ n.auditing = FALSE /\ n.served = work[d].served
  BY <1>1, <1>2, AnnouncedIs
<1> HIDE DEF n
<1>6. Threaded'
  BY <1>1, <1>3, ClearPlaced, WorkGoesOn DEF Invalidate
<1>7. \A t \in Threads :
        query'[t] = IF t = d THEN NoRequest
                    ELSE [query[t] EXCEPT !.counts = EachMissed(query[t].counts)]
  BY InvalidateDoes
<1>8. ASSUME NEW t \in Threads
      PROVE  /\ query'[t] \in SummaryRequest /\ Stage(query'[t])
             /\ query'[t].counts # None => (query'[t].counts[1].behind => query'[t].counts[1].raced)
  <2>1. CASE t = d
    BY <1>7, <2>1, NobodyAsks, NoRequestStage
  <2>2. CASE t # d
    BY <1>7, <2>2, MissedRequest, RequestIs
  <2> QED
    BY <2>1, <2>2
<1>9. query' \in [Threads -> SummaryRequest]
  BY <1>8, InvalidateDoes
<1>10. snap' = [status |-> None, audit |-> None] /\ memory' = memory
  BY DEF Invalidate
<1>11. snap'.status = None /\ snap'.audit = None
       /\ snap' = [status |-> snap'.status, audit |-> snap'.audit]
  BY <1>10
<1>12. Ages'
  BY <1>8, <1>10, <1>11 DEF MarketInv, Ages, KeptFor
<1>13. Notice'
  BY <1>8, <1>11 DEF Notice, Noticed
<1> QED
  BY <1>6, <1>9, <1>11, <1>12, <1>13 DEF MarketInv, Typed

LEMMA DatedMissedKept == ASSUME NEW s, NEW limit \in Nat, NEW slack \in Nat, KeptFor(s, limit, slack)
  PROVE  /\ KeptFor(DatedMissed(s), limit, slack)
         /\ DatedMissed(s) # None =>
              (DatedMissed(s)[1].body.behind => DatedMissed(s)[1].body.raced)
<1>1. CASE s = None
  <2>1. DatedMissed(s) = None
    BY <1>1 DEF DatedMissed, None
  <2> QED
    BY <2>1 DEF KeptFor
<1>2. CASE s # None
  <2>1. PICK b \in Body, a \in 0 .. limit : s = <<[body |-> b, age |-> a]>> /\ b.age <= a + slack
    BY <1>2 DEF KeptFor
  <2> DEFINE x == [body |-> b, age |-> a]
  <2>2. [x EXCEPT !.body = Missed(x.body)] = [body |-> Missed(b), age |-> a]
    OBVIOUS
  <2>3. DatedMissed(s) = <<[x EXCEPT !.body = Missed(x.body)]>>
    <3> HIDE DEF x
    <3>1. DatedMissed(<<x>>) = <<[x EXCEPT !.body = Missed(x.body)]>>
      BY DEF DatedMissed
    <3> QED
      BY <2>1, <3>1 DEF x
  <2>4. /\ Missed(b) \in Body /\ Missed(b).age <= a + slack
        /\ Missed(b).behind => Missed(b).raced
    BY <2>1, Bodies
  <2>5. DatedMissed(s) = <<[body |-> Missed(b), age |-> a]>>
    BY <2>2, <2>3
  <2>6. DatedMissed(s)[1].body = Missed(b)
    BY <2>5
  <2> QED
    BY <2>4, <2>5, <2>6 DEF KeptFor
<1> QED
  BY <1>1, <1>2

\* A commit that is not announced: whatever was made before it is marked.
LEMMA FailHalfStep == ASSUME MarketInv, NEW d \in Downloads, FailHalf(d) PROVE MarketInv'
<1>1. Jobs'
  BY JobsNow DEF Jobs, FailHalf
<1>2. Threaded'
  <2>1. CASE work[d].served
    <3>1. ~ (job' = "running" \/ flag')
      BY <2>1, JobsNow DEF Jobs, FailHalf
    <3> QED
      BY <1>1, <3>1, BegunPlaced, WorkMoves DEF FailHalf
  <2>2. CASE ~ work[d].served
    <3>1. job' = job /\ flag' = flag /\ work' = [work EXCEPT ![d] = Free]
      BY <2>2 DEF FailHalf
    <3> QED
      BY <1>1, <2>2, <3>1, BegunPlaced, WorkMoves
  <2> QED
    BY <2>1, <2>2
<1>3. \A t \in Threads :
        query'[t] = IF t = d THEN NoRequest
                    ELSE [query[t] EXCEPT !.counts = EachMissed(query[t].counts)]
  BY FailHalfDoes
<1>4. ASSUME NEW t \in Threads
      PROVE  /\ query'[t] \in SummaryRequest /\ Stage(query'[t])
             /\ query'[t].counts # None => (query'[t].counts[1].behind => query'[t].counts[1].raced)
  <2>1. CASE t = d
    BY <1>3, <2>1, NobodyAsks, NoRequestStage
  <2>2. CASE t # d
    BY <1>3, <2>2, MissedRequest, RequestIs
  <2> QED
    BY <2>1, <2>2
<1>5. query' \in [Threads -> SummaryRequest]
  BY <1>4, FailHalfDoes
<1>6. snap' = [status |-> DatedMissed(snap.status), audit |-> DatedMissed(snap.audit)]
  <2>1. snap = [status |-> snap.status, audit |-> snap.audit]
    BY DEF MarketInv, Typed
  <2>2. DOMAIN snap = {"status", "audit"}
    BY <2>1
  <2> QED
    BY <2>2, FailHalfDoes
<1>7. snap'.status = DatedMissed(snap.status) /\ snap'.audit = DatedMissed(snap.audit)
      /\ snap' = [status |-> snap'.status, audit |-> snap'.audit] /\ memory' = memory
  BY <1>6 DEF FailHalf
<1>8. /\ KeptFor(DatedMissed(snap.status), StatusAge, 1)
      /\ KeptFor(DatedMissed(snap.audit), AuditAge, StatusAge + 2)
      /\ DatedMissed(snap.status) # None =>
           (DatedMissed(snap.status)[1].body.behind => DatedMissed(snap.status)[1].body.raced)
      /\ DatedMissed(snap.audit) # None =>
           (DatedMissed(snap.audit)[1].body.behind => DatedMissed(snap.audit)[1].body.raced)
  <2>1. StatusAge + 2 \in Nat /\ StatusAge \in Nat /\ AuditAge \in Nat /\ 1 \in Nat
    BY Limits
  <2>2. KeptFor(snap.status, StatusAge, 1) /\ KeptFor(snap.audit, AuditAge, StatusAge + 2)
    BY DEF MarketInv, Ages
  <2> QED
    BY <2>1, <2>2, DatedMissedKept
<1>9. Ages'
  BY <1>4, <1>7, <1>8 DEF MarketInv, Ages
<1>10. Notice'
  BY <1>4, <1>7, <1>8 DEF Notice, Noticed
<1> QED
  BY <1>2, <1>5, <1>7, <1>9, <1>10 DEF MarketInv, Typed

\* A tick makes a snapshot one older, or drops it.
LEMMA DatedOlderKept ==
  ASSUME NEW s, NEW limit \in Nat, NEW slack \in Nat, KeptFor(s, limit, slack)
  PROVE  /\ KeptFor(DatedOlder(s, limit), limit, slack)
         /\ (s # None => Noticed(s[1].body)) =>
              (DatedOlder(s, limit) # None => Noticed(DatedOlder(s, limit)[1].body))
<1>1. CASE s = None
  BY <1>1 DEF DatedOlder, KeptFor
<1>2. CASE s # None
  <2>1. PICK b \in Body, a \in 0 .. limit : s = <<[body |-> b, age |-> a]>> /\ b.age <= a + slack
    BY <1>2 DEF KeptFor
  <2>2. s[1].body = b /\ s[1].age = a
    BY <2>1
  <2>3. CASE a = limit
    BY <2>2, <2>3 DEF DatedOlder, KeptFor
  <2>4. CASE a # limit
    <3>1. DatedOlder(s, limit) = <<[body |-> OlderBody(b), age |-> a + 1]>>
      BY <1>2, <2>2, <2>4 DEF DatedOlder
    <3>2. a + 1 \in 0 .. limit /\ b.age \in Nat /\ a + slack \in Nat
      BY <2>1, <2>4 DEF Body, Age
    <3>3. OlderBody(b) \in Body /\ OlderBody(b).age = Older(b.age)
          /\ OlderBody(b).behind = b.behind /\ OlderBody(b).raced = b.raced
      BY Bodies
    <3>4. OlderBody(b).age <= (a + 1) + slack
      <4>1. Older(b.age) <= b.age + 1 /\ Older(b.age) \in Nat
        BY <3>2, OlderIs
      <4> QED
        BY <2>1, <3>2, <3>3, <4>1
    <3>5. DatedOlder(s, limit)[1].body = OlderBody(b)
      BY <3>1
    <3>6. KeptFor(DatedOlder(s, limit), limit, slack)
      BY <3>1, <3>2, <3>3, <3>4 DEF KeptFor
    <3>7. Noticed(b) => Noticed(OlderBody(b))
      BY <3>3 DEF Noticed
    <3> QED
      BY <1>2, <2>2, <3>5, <3>6, <3>7
  <2> QED
    BY <2>3, <2>4
<1> QED
  BY <1>1, <1>2

LEMMA TickStep == ASSUME MarketInv, Tick PROVE MarketInv'
<1>1. HalvesStay /\ Threaded'
  BY ThreadsStay DEF Tick
<1>2. \A b : Noticed(b)' = Noticed(b)
  BY <1>1 DEF Noticed, HalvesStay
<1>3. ASSUME NEW t \in Threads
      PROVE  /\ query'[t] \in SummaryRequest /\ Stage(query'[t])
             /\ query'[t].counts # None => Noticed(query'[t].counts[1])
  <2>1. CASE query[t].pc = "idle"
    BY <2>1, RequestIs, TickDoes
  <2>2. CASE query[t].pc # "idle"
    <3> DEFINE r == query[t]
               n == RequestOlder(r)
    <3>1. query'[t] = n /\ r.age = 0
      BY <2>2, TickDoes DEF Tick
    <3>2. n \in SummaryRequest /\ Stage(n) /\ n.counts = EachOlder(r.counts)
      BY <3>1, OlderRequest, RequestIs
    <3>3. r.counts \in AtMostOne(Body)
      BY RequestIs DEF SummaryRequest
    <3>4. ASSUME n.counts # None PROVE Noticed(n.counts[1])
      <4>1. r.counts # None /\ n.counts = <<OlderBody(r.counts[1])>> /\ r.counts[1] \in Body
        BY <3>2, <3>3, <3>4, OlderKeeps
      <4>2. n.counts[1] = OlderBody(r.counts[1])
        BY <4>1
      <4>3. Noticed(r.counts[1])
        BY <4>1, RequestIs
      <4> QED
        BY <4>1, <4>2, <4>3, Bodies DEF Noticed
    <3> QED
      BY <3>1, <3>2, <3>4
  <2> QED
    BY <2>1, <2>2
<1>4. query' \in [Threads -> SummaryRequest]
  BY <1>3, TickDoes
<1> DEFINE st == DatedOlder(snap.status, StatusAge)
           au == DatedOlder(snap.audit, AuditAge)
<1>5. snap' = [status |-> st, audit |-> au]
  BY TickDoes
<1>6. snap'.status = st /\ snap'.audit = au /\ snap' = [status |-> snap'.status, audit |-> snap'.audit]
  BY <1>5
<1>7. StatusAge + 2 \in Nat /\ StatusAge + AuditAge + 2 \in Nat
  BY Limits
<1>8. KeptFor(st, StatusAge, 1) /\ (st # None => Noticed(st[1].body))
  BY DatedOlderKept, Limits DEF MarketInv, Ages, Notice
<1>9. KeptFor(au, AuditAge, StatusAge + 2) /\ (au # None => Noticed(au[1].body))
  BY <1>7, DatedOlderKept, Limits DEF MarketInv, Ages, Notice
<1>10. KeptFor(memory', AuditAge, StatusAge + AuditAge + 2)
  BY <1>7, DatedOlderKept, Limits, TickDoes DEF MarketInv, Ages
<1> HIDE DEF st, au
<1>11. Ages'
  BY <1>3, <1>6, <1>8, <1>9, <1>10 DEF Ages
<1>12. Notice'
  BY <1>2, <1>3, <1>6, <1>8, <1>9 DEF Notice
<1> QED
  BY <1>1, <1>4, <1>6, <1>11, <1>12 DEF MarketInv, Typed

---------------------------------------------------------------------------
LEMMA MarketInitInv == MarketInit => MarketInv
<1> SUFFICES ASSUME MarketInit PROVE MarketInv
  OBVIOUS
<1>1. snap.status = None /\ snap.audit = None /\ snap = [status |-> snap.status, audit |-> snap.audit]
  BY DEF MarketInit
<1>2. \A t \in Threads : query[t] = NoRequest
  BY DEF MarketInit
<1>3. query \in [Threads -> SummaryRequest] /\ work \in [Downloads -> Work]
  BY NobodyAsks, Begun DEF MarketInit
<1>4. Typed /\ Ages /\ Notice
  BY <1>1, <1>2, <1>3, NobodyAsks, NoRequestStage DEF MarketInit, Typed, Ages, Notice, KeptFor
<1>5. Jobs /\ RunningIsTrue /\ \A d \in Downloads : Placed(work[d])
  BY BegunPlaced DEF MarketInit, Jobs, RunningIsTrue
<1> QED
  BY <1>3, <1>4, <1>5 DEF MarketInv, Threaded

LEMMA MarketStep == ASSUME MarketInv, [MarketNext]_marketVars PROVE MarketInv'
<1>1. ASSUME NEW t \in Readers,
             AskStatus(t) \/ Diagnose(t) \/ SummaryStep(t) \/ SummaryAnswered(t) \/ Remember(t)
      PROVE  MarketInv'
  <2>1. t \in Threads
    BY DEF Threads
  <2> QED
    BY <1>1, <2>1, AskStatusStep, DiagnoseStep, SummarySteps, AnsweredStep, RememberStep
<1>2. ASSUME NEW d \in Downloads, TriggerJob(d) \/ TriggerFlag(d) \/ RunSync(d) \/ DownloadStep(d)
      PROVE  MarketInv'
  <2>1. d \in Threads
    BY DEF Threads
  <2> QED
    BY <1>2, <2>1, TriggerJobStep, TriggerFlagStep, RunSyncStep, BeginStep, WriteStep,
       SkipStep, NothingThereStep, InvalidateStep, AuditStep, SummarySteps, FinishStep, FailStep,
       FailHalfStep DEF DownloadStep
<1>3. ASSUME UNCHANGED marketVars PROVE MarketInv'
  <2>1. HalvesStay /\ Threaded'
    BY <1>3, ThreadsStay DEF marketVars
  <2> QED
    BY <1>3, <2>1, DataStays DEF marketVars
<1> QED
  BY <1>1, <1>2, <1>3, TickStep DEF MarketNext

LEMMA MarketInvariant == MarketSpec => []MarketInv
BY MarketInitInv, MarketStep, PTL DEF MarketSpec

LEMMA KeptIsDated == ASSUME NEW s, NEW limit \in Nat, limit <= MaxAge, NEW slack, KeptFor(s, limit, slack)
  PROVE  s \in AtMostOne(Dated)
<1>1. ASSUME NEW b \in Body, NEW a \in 0 .. limit PROVE [body |-> b, age |-> a] \in Dated
  BY Limits DEF Dated, Age
<1> QED
  BY <1>1, OneIs DEF KeptFor

\* The summaries, the requests and the work keep their types, and there is one snapshot of
\* each kind at most: a program that is cut short never walks off its stages.
THEOREM MarketTypeCorrect == MarketSpec => []MarketTypeOK
<1>1. MarketInv => MarketTypeOK
  <2> SUFFICES ASSUME MarketInv PROVE MarketTypeOK
    OBVIOUS
  <2>1. /\ snap.status \in AtMostOne(Dated) /\ snap.audit \in AtMostOne(Dated)
        /\ memory \in AtMostOne(Dated)
    BY KeptIsDated, Limits DEF MarketInv, Ages
  <2>2. snap \in [status : AtMostOne(Dated), audit : AtMostOne(Dated)]
    BY <2>1 DEF MarketInv, Typed
  <2> QED
    BY <2>1, <2>2 DEF MarketInv, Typed, Threaded, Jobs, MarketTypeOK
<1> QED
  BY <1>1, MarketInvariant, PTL

\* What is shown of the store is not stale without a reason, however many requests and
\* downloads overlap: a summary is invalidated in time, or was counted while a table was
\* written; no chain of caches outlives the sum of their ages; a running download has a
\* thread.
THEOREM StoreAlwaysShown == MarketSpec => []StoreIsShown
<1>1. MarketInv => StoreIsShown
  <2> SUFFICES ASSUME MarketInv PROVE StoreIsShown
    OBVIOUS
  <2>1. SnapshotsAreInvalidated
    BY DEF MarketInv, Notice, SnapshotsAreInvalidated, Noticed
  <2>2. ASSUME NEW t \in Threads, query[t].answer # None
        PROVE  LET r == query[t] IN r.answer[1].age <= r.age +
                 CASE r.pc = "lookAudit" /\ r.kind = "slow" -> 0
                   [] r.pc = "lookAudit" /\ r.kind = "fast" -> StatusAge + 1
                   [] r.pc = "done" /\ r.kind \in {"slow", "audit"} -> StatusAge + 1
                   [] r.pc = "done" /\ r.kind \in {"fast", "diagnose"} -> StatusAge + AuditAge + 2
    <3> DEFINE r == query[t]
    <3>1. r \in SummaryRequest /\ Stage(r)
      BY RequestIs
    <3>2. r.age \in Nat /\ r.pc \in PCs /\ r.kind \in Kinds
      BY <3>1 DEF SummaryRequest, Age
    <3>3. r.pc \in {"lookAudit", "done"}
      BY <2>2, <3>1, <3>2 DEF Stage, PCs
    <3> HIDE DEF r
    <3>4. CASE r.pc = "lookAudit" /\ r.kind = "slow"
      <4>1. r.answer[1].age <= r.age
        BY <3>1, <3>4, YoungIs DEF Stage
      <4> QED
        BY <3>2, <3>4, <4>1 DEF r
    <3>5. CASE r.pc = "lookAudit" /\ r.kind = "fast"
      <4>1. r.answer[1].age <= r.age + StatusAge + 1
        BY <3>1, <3>5, YoungIs DEF Stage
      <4> QED
        BY <3>2, <3>5, <4>1, Limits DEF r
    <3>6. CASE r.pc = "done" /\ r.kind \in {"slow", "audit"}
      <4>1. r.answer[1].age <= r.age + StatusAge + 1
        BY <3>1, <3>6, YoungIs DEF Stage
      <4> QED
        BY <3>2, <3>6, <4>1, Limits DEF r
    <3>7. CASE r.pc = "done" /\ r.kind \in {"fast", "diagnose"}
      <4>1. r.answer[1].age <= r.age + StatusAge + AuditAge + 2
        BY <3>1, <3>7, YoungIs DEF Stage
      <4> QED
        BY <3>2, <3>7, <4>1, Limits DEF r
    <3> QED
      BY <2>2, <3>1, <3>2, <3>3, <3>4, <3>5, <3>6, <3>7 DEF Stage, Kinds, r
  <2>3. ASSUME memory # None PROVE memory[1].body.age <= 2 * (AuditAge + 1) + StatusAge
    <3>1. StatusAge + AuditAge + 2 \in Nat
      BY Limits
    <3>2. memory[1].body.age <= AuditAge + (StatusAge + AuditAge + 2)
          /\ memory[1].body \in Body
      BY <2>3, <3>1, KeptIs, Limits DEF MarketInv, Ages
    <3>3. memory[1].body.age \in Nat
      BY <3>2 DEF Body, Age
    <3> QED
      BY <3>2, <3>3, Limits
  <2>4. AnswersAreRecent
    BY <2>2, <2>3 DEF AnswersAreRecent
  <2> QED
    BY <2>1, <2>4 DEF StoreIsShown, MarketInv, Threaded
<1> QED
  BY <1>1, MarketInvariant, PTL
=============================================================================
