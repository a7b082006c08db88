---------------------------- MODULE StreamProofs ----------------------------
(***************************************************************************)
(* Proofs about the two streams of the web server: the response of a chat  *)
(* request (RequestStream) and the events of the training (WebEvents).     *)
(*                                                                         *)
(* Both come down to sequences that are appended to at one end and taken   *)
(* from at the other, so the lemmas about those come first.                *)
(***************************************************************************)
EXTENDS WebEvents, RequestStream, SequenceTheorems, FiniteSetTheorems, TLAPS

(* A sequence that was read and one that waits to be: what there is of each is below a bound, *)
(* the first goes on in the second, and together they end in an element.                     *)

Below(q, n) == \A i \in 1..Len(q) : q[i] < n

Sorted(r, q) ==
  /\ Increasing(r) /\ Increasing(q)
  /\ \A i \in 1..Len(r), j \in 1..Len(q) : r[i] < q[j]

EndsIn(r, q, x) ==
  \/ q # <<>> /\ q[Len(q)] = x
  \/ q = <<>> /\ r # <<>> /\ r[Len(r)] = x

LEMMA SeqOfNat ==
  ASSUME NEW s \in Seq(Nat)
  PROVE  Len(s) \in Nat /\ (s = <<>> <=> Len(s) = 0) /\ \A i \in 1..Len(s) : s[i] \in Nat
<1>1. Len(s) \in Nat /\ \A i \in 1..Len(s) : s[i] \in Nat
  BY LenProperties, ElementOfSeq
<1>2. s # <<>> => Len(s) # 0
  BY EmptySeq
<1>3. s = <<>> => Len(s) = 0
  OBVIOUS
<1> QED
  BY <1>1, <1>2, <1>3

LEMMA AppendOfNat ==
  ASSUME NEW s \in Seq(Nat), NEW n \in Nat, NEW p, p = Append(s, n)
  PROVE  /\ p \in Seq(Nat) /\ p # <<>> /\ Len(p) = Len(s) + 1 /\ p[Len(s) + 1] = n
         /\ \A i \in 1..Len(s) : p[i] = s[i]
         /\ \A i \in 1..Len(p) : i \in 1..Len(s) \/ (i = Len(s) + 1 /\ p[i] = n)
<1>1. p \in Seq(Nat) /\ Len(p) = Len(s) + 1 /\ p[Len(s) + 1] = n
  BY LenProperties
<1>2. \A i \in 1..Len(s) : p[i] = s[i]
  BY LenProperties
<1>3. Len(s) \in Nat
  BY SeqOfNat
<1>4. p # <<>>
  BY <1>1, <1>3, SeqOfNat
<1> QED
  BY <1>1, <1>2, <1>3, <1>4

\* A larger element is put at the end of the second.
LEMMA PutKeeps ==
  ASSUME NEW r \in Seq(Nat), NEW q \in Seq(Nat), NEW n \in Nat, Sorted(r, q), Below(r, n), Below(q, n)
  PROVE  /\ Sorted(r, Append(q, n)) /\ Below(r, n + 1) /\ Below(Append(q, n), n + 1)
         /\ EndsIn(r, Append(q, n), n)
         /\ Elements(Append(q, n)) = Elements(q) \cup {n}
<1> DEFINE p == Append(q, n)
<1>0. p = Append(q, n)
  OBVIOUS
<1> HIDE DEF p
<1>1. /\ p \in Seq(Nat) /\ p # <<>> /\ Len(p) = Len(q) + 1 /\ p[Len(q) + 1] = n
      /\ \A i \in 1..Len(q) : p[i] = q[i]
  <2>1. p \in Seq(Nat) /\ p # <<>> /\ Len(p) = Len(q) + 1 /\ p[Len(q) + 1] = n
    BY <1>0, AppendOfNat
  <2>2. \A i \in 1..Len(q) : p[i] = q[i]
    BY <1>0, AppendOfNat
  <2> QED
    BY <2>1, <2>2
<1>2. Len(q) \in Nat /\ Len(r) \in Nat /\ (\A i \in 1..Len(q) : q[i] \in Nat)
      /\ (\A i \in 1..Len(r) : r[i] \in Nat)
  BY SeqOfNat
<1>3. ASSUME NEW i \in 1..Len(p) PROVE i \in 1..Len(q) \/ (i = Len(q) + 1 /\ p[i] = n)
  BY <1>0, AppendOfNat
<1>4. Increasing(p)
  <2> SUFFICES ASSUME NEW i \in 1..Len(p), NEW j \in 1..Len(p), i < j PROVE p[i] < p[j]
    BY DEF Increasing
  <2>1. i \in 1..Len(q)
    BY <1>1, <1>2
  <2>2. CASE j \in 1..Len(q)
    BY <1>1, <2>1, <2>2 DEF Sorted, Increasing
  <2>3. CASE p[j] = n
    BY <1>1, <2>1, <2>3 DEF Below
  <2> QED
    BY <1>3, <2>2, <2>3
<1>5. ASSUME NEW i \in 1..Len(r), NEW j \in 1..Len(p) PROVE r[i] < p[j]
  BY <1>1, <1>3 DEF Sorted, Below
<1>6. Below(r, n + 1) /\ Below(p, n + 1)
  <2>1. ASSUME NEW i \in 1..Len(r) PROVE r[i] < n + 1
    BY <1>2 DEF Below
  <2>2. ASSUME NEW i \in 1..Len(p) PROVE p[i] < n + 1
    <3>1. CASE i \in 1..Len(q)
      <4>1. p[i] = q[i] /\ q[i] \in Nat /\ q[i] < n
        BY <1>1, <1>2, <3>1 DEF Below
      <4> QED
        BY <4>1
    <3>2. CASE p[i] = n
      BY <3>2
    <3> QED
      BY <1>3, <3>1, <3>2
  <2> QED
    BY <2>1, <2>2 DEF Below
<1>7. EndsIn(r, p, n)
  BY <1>1 DEF EndsIn
<1>8. Elements(p) = Elements(q) \cup {n}
  <2>1. ASSUME NEW x \in Elements(p) PROVE x \in Elements(q) \cup {n}
    BY <1>1, <1>3 DEF Elements
  <2>2. ASSUME NEW i \in 1..Len(q) PROVE q[i] \in Elements(p)
    <3>1. i \in 1..Len(p) /\ q[i] = p[i]
      BY <1>1, <1>2
    <3> QED
      BY <3>1 DEF Elements
  <2>3. Len(q) + 1 \in 1..Len(p)
    BY <1>1, <1>2
  <2>4. n \in Elements(p)
    BY <1>1, <2>3 DEF Elements
  <2> QED
    BY <2>1, <2>2, <2>4 DEF Elements
<1> QED
  BY <1>0, <1>4, <1>5, <1>6, <1>7, <1>8 DEF Sorted

\* The head of the second is taken away, or is moved to the end of the first.
LEMMA TakeKeeps ==
  ASSUME NEW r \in Seq(Nat), NEW q \in Seq(Nat), q # <<>>, Sorted(r, q)
  PROVE  /\ Sorted(r, Tail(q)) /\ Sorted(Append(r, Head(q)), Tail(q))
         /\ \A n \in Nat : Below(r, n) /\ Below(q, n)
              => Below(Tail(q), n) /\ Below(Append(r, Head(q)), n)
         /\ \A x : EndsIn(r, q, x) => EndsIn(Append(r, Head(q)), Tail(q), x)
         /\ Elements(q) = Elements(Tail(q)) \cup {Head(q)}
         /\ Elements(Append(r, Head(q))) = Elements(r) \cup {Head(q)}
<1> DEFINE h == Head(q)
           p == Append(r, h)
           t == Tail(q)
<1>0. h = Head(q) /\ p = Append(r, h) /\ t = Tail(q)
  OBVIOUS
<1>1. h = q[1] /\ h \in Nat /\ t \in Seq(Nat) /\ Len(t) = Len(q) - 1
      /\ (\A i \in 1..Len(t) : t[i] = q[i + 1])
  BY HeadTailProperties
<1> HIDE DEF h, p, t
<1>2. /\ p \in Seq(Nat) /\ p # <<>> /\ Len(p) = Len(r) + 1 /\ p[Len(r) + 1] = h
      /\ \A i \in 1..Len(r) : p[i] = r[i]
  BY <1>0, <1>1, AppendOfNat
<1>3. Len(q) \in Nat /\ Len(q) >= 1 /\ Len(r) \in Nat /\ Len(t) \in Nat
      /\ (\A i \in 1..Len(q) : q[i] \in Nat) /\ (\A i \in 1..Len(r) : r[i] \in Nat)
      /\ (t = <<>> <=> Len(t) = 0)
  <2>1. Len(q) \in Nat /\ Len(q) # 0 /\ \A i \in 1..Len(q) : q[i] \in Nat
    BY SeqOfNat
  <2>2. Len(r) \in Nat /\ \A i \in 1..Len(r) : r[i] \in Nat
    BY SeqOfNat
  <2>3. Len(t) \in Nat /\ (t = <<>> <=> Len(t) = 0)
    BY <1>1, SeqOfNat
  <2> QED
    BY <2>1, <2>2, <2>3
<1>4. ASSUME NEW i \in 1..Len(p) PROVE i \in 1..Len(r) \/ (i = Len(r) + 1 /\ p[i] = h)
  <2>1. p = Append(r, h) /\ h \in Nat
    BY <1>0, <1>1
  <2> QED
    BY <2>1, AppendOfNat
<1>5. ASSUME NEW i \in 1..Len(t) PROVE i + 1 \in 1..Len(q) /\ i \in 1..Len(q) /\ t[i] = q[i + 1] /\ h < t[i]
  <2>1. i + 1 \in 1..Len(q) /\ i \in 1..Len(q) /\ 1 \in 1..Len(q) /\ 1 < i + 1
    BY <1>1, <1>3
  <2>2. t[i] = q[i + 1]
    BY <1>1
  <2>3. Increasing(q)
    BY DEF Sorted
  <2>4. q[1] < q[i + 1]
    BY <2>1, <2>3 DEF Increasing
  <2> QED
    BY <1>1, <2>1, <2>2, <2>4
<1>6. Increasing(t)
  <2> SUFFICES ASSUME NEW i \in 1..Len(t), NEW j \in 1..Len(t), i < j PROVE t[i] < t[j]
    BY DEF Increasing
  <2>1. i + 1 \in 1..Len(q) /\ j + 1 \in 1..Len(q) /\ i + 1 < j + 1
    BY <1>3, <1>5
  <2> QED
    BY <1>5, <2>1 DEF Sorted, Increasing
<1>7. \A i \in 1..Len(r), j \in 1..Len(t) : r[i] < t[j]
  BY <1>5 DEF Sorted
<1>8. \A i \in 1..Len(r) : r[i] < h
  BY <1>1, <1>3 DEF Sorted
<1>9. Increasing(p)
  <2> SUFFICES ASSUME NEW i \in 1..Len(p), NEW j \in 1..Len(p), i < j PROVE p[i] < p[j]
    BY DEF Increasing
  <2>1. i \in 1..Len(r)
    BY <1>2, <1>3
  <2>2. CASE j \in 1..Len(r)
    BY <1>2, <2>1, <2>2 DEF Sorted, Increasing
  <2>3. CASE p[j] = h
    BY <1>2, <1>8, <2>1, <2>3
  <2> QED
    BY <1>4, <2>2, <2>3
<1>10. \A i \in 1..Len(p), j \in 1..Len(t) : p[i] < t[j]
  BY <1>2, <1>4, <1>5, <1>7
<1>11. ASSUME NEW n \in Nat, Below(r, n), Below(q, n) PROVE Below(t, n) /\ Below(p, n)
  <2>1. Below(t, n)
    BY <1>5, <1>11 DEF Below
  <2>2. h < n
    BY <1>1, <1>3, <1>11 DEF Below
  <2>3. ASSUME NEW i \in 1..Len(p) PROVE p[i] < n
    BY <1>2, <1>4, <1>11, <2>2 DEF Below
  <2> QED
    BY <2>1, <2>3 DEF Below
<1>12. ASSUME NEW x, EndsIn(r, q, x) PROVE EndsIn(p, t, x)
  <2>1. q[Len(q)] = x
    BY <1>12 DEF EndsIn
  <2>2. CASE Len(t) = 0
    <3>1. Len(q) = 1
      BY <1>1, <1>3, <2>2
    <3>2. t = <<>> /\ x = h /\ p[Len(p)] = h
      BY <1>1, <1>2, <1>3, <2>1, <2>2, <3>1
    <3> QED
      BY <1>2, <3>2 DEF EndsIn
  <2>3. CASE Len(t) # 0
    <3>0. Len(t) \in 1..Len(t) /\ Len(t) + 1 = Len(q) /\ t # <<>>
      <4>1. Len(t) = Len(q) - 1 /\ Len(t) \in Nat /\ Len(q) \in Nat /\ (t = <<>> <=> Len(t) = 0)
        BY <1>1, <1>3
      <4> QED
        BY <2>3, <4>1
    <3>1. t # <<>> /\ t[Len(t)] = q[Len(t) + 1] /\ Len(t) + 1 = Len(q)
      <4>1. t[Len(t)] = q[Len(t) + 1]
        BY <1>1, <3>0
      <4> QED
        BY <3>0, <4>1
    <3> QED
      BY <2>1, <3>1 DEF EndsIn
  <2> QED
    BY <2>2, <2>3
<1>13. Elements(q) = Elements(t) \cup {h}
  <2>1. ASSUME NEW i \in 1..Len(q) PROVE q[i] \in Elements(t) \cup {h}
    <3>1. CASE i = 1
      BY <1>1, <3>1
    <3>2. CASE i # 1
      <4>0. Len(t) = Len(q) - 1 /\ Len(t) \in Nat /\ Len(q) \in Nat
        BY <1>1, <1>3
      <4>1. i - 1 \in 1..Len(t) /\ t[i - 1] = q[(i - 1) + 1] /\ (i - 1) + 1 = i
        <5>1. i - 1 \in 1..Len(t) /\ (i - 1) + 1 = i
          BY <3>2, <4>0
        <5> QED
          BY <1>1, <5>1
      <4> QED
        BY <4>1 DEF Elements
    <3> QED
      BY <3>1, <3>2
  <2>2. \A i \in 1..Len(t) : t[i] \in Elements(q)
    BY <1>5 DEF Elements
  <2>3. h \in Elements(q)
    BY <1>1, <1>3 DEF Elements
  <2> QED
    BY <2>1, <2>2, <2>3 DEF Elements
<1>14. Elements(p) = Elements(r) \cup {h}
  <2>1. ASSUME NEW x \in Elements(p) PROVE x \in Elements(r) \cup {h}
    BY <1>2, <1>4 DEF Elements
  <2>2. ASSUME NEW i \in 1..Len(r) PROVE r[i] \in Elements(p)
    <3>1. i \in 1..Len(p) /\ r[i] = p[i]
      BY <1>2, <1>3
    <3> QED
      BY <3>1 DEF Elements
  <2>3. Len(r) + 1 \in 1..Len(p)
    BY <1>2, <1>3
  <2>4. h \in Elements(p)
    BY <1>2, <2>3 DEF Elements
  <2> QED
    BY <2>1, <2>2, <2>4 DEF Elements
<1> QED
  BY <1>0, <1>6, <1>7, <1>9, <1>10, <1>11, <1>12, <1>13, <1>14 DEF Sorted

\* Nothing is below anything, ends in nothing, and has no elements.
LEMMA NothingKept ==
  /\ Sorted(<<>>, <<>>) /\ Elements(<<>>) = {}
  /\ \A n : Below(<<>>, n)
BY DEF Sorted, Elements, Below, Increasing

\* The two put together are increasing, and end as they end.
LEMMA JoinedKeeps ==
  ASSUME NEW r \in Seq(Nat), NEW q \in Seq(Nat), Sorted(r, q)
  PROVE  /\ Increasing(r \o q)
         /\ \A x : EndsIn(r, q, x) => r \o q # <<>> /\ (r \o q)[Len(r \o q)] = x
<1> DEFINE p == r \o q
<1>1. /\ p \in Seq(Nat) /\ Len(p) = Len(r) + Len(q)
      /\ \A i \in 1 .. Len(r) + Len(q) : p[i] = IF i <= Len(r) THEN r[i] ELSE q[i - Len(r)]
  BY ConcatProperties
<1>2. Len(q) \in Nat /\ Len(r) \in Nat /\ (q = <<>> <=> Len(q) = 0) /\ (r = <<>> <=> Len(r) = 0)
      /\ (p = <<>> <=> Len(p) = 0)
  BY <1>1, SeqOfNat
<1> HIDE DEF p
<1>3. ASSUME NEW i \in 1..Len(p), NEW j \in 1..Len(p), i < j PROVE p[i] < p[j]
  <2>1. CASE j <= Len(r)
    <3>1. i \in 1..Len(r) /\ j \in 1..Len(r) /\ p[i] = r[i] /\ p[j] = r[j]
      BY <1>1, <1>2, <1>3, <2>1
    <3> QED
      BY <1>3, <3>1 DEF Sorted, Increasing
  <2>2. CASE i <= Len(r) /\ ~(j <= Len(r))
    <3>1. i \in 1..Len(r) /\ j - Len(r) \in 1..Len(q) /\ p[i] = r[i] /\ p[j] = q[j - Len(r)]
      BY <1>1, <1>2, <1>3, <2>2
    <3> QED
      BY <3>1 DEF Sorted
  <2>3. CASE ~(i <= Len(r)) /\ ~(j <= Len(r))
    <3>0. Len(p) = Len(r) + Len(q) /\ Len(r) \in Nat /\ Len(q) \in Nat /\ i \in Int /\ j \in Int
      BY <1>1, <1>2
    <3>1. i - Len(r) \in 1..Len(q) /\ j - Len(r) \in 1..Len(q) /\ i - Len(r) < j - Len(r)
          /\ p[i] = q[i - Len(r)] /\ p[j] = q[j - Len(r)]
      <4>1. i - Len(r) \in 1..Len(q) /\ j - Len(r) \in 1..Len(q) /\ i - Len(r) < j - Len(r)
        BY <1>3, <2>3, <3>0
      <4>2. p[i] = q[i - Len(r)] /\ p[j] = q[j - Len(r)]
        BY <1>1, <2>3, <3>0
      <4> QED
        BY <4>1, <4>2
    <3> QED
      BY <3>1 DEF Sorted, Increasing
  <2> QED
    BY <1>1, <1>2, <1>3, <2>1, <2>2, <2>3
<1>4. ASSUME NEW x, EndsIn(r, q, x) PROVE p # <<>> /\ p[Len(p)] = x
  <2>1. CASE q # <<>>
    <3>0. Len(p) = Len(r) + Len(q) /\ Len(q) # 0 /\ Len(q) \in Nat /\ Len(r) \in Nat
      BY <1>1, <1>2, <2>1
    <3>1. Len(p) \in 1 .. Len(r) + Len(q) /\ ~(Len(p) <= Len(r)) /\ Len(p) - Len(r) = Len(q)
      BY <3>0
    <3>2. p[Len(p)] = q[Len(q)] /\ p # <<>>
      <4>1. p[Len(p)] = q[Len(p) - Len(r)]
        BY <1>1, <3>1
      <4>2. p # <<>>
        BY <1>2, <3>0
      <4> QED
        BY <3>1, <4>1, <4>2
    <3>3. q[Len(q)] = x
      BY <1>4, <2>1 DEF EndsIn
    <3> QED
      BY <3>2, <3>3
  <2>2. CASE q = <<>>
    <3>1. Len(p) \in 1 .. Len(r) + Len(q) /\ Len(p) <= Len(r) /\ Len(p) = Len(r)
      BY <1>1, <1>2, <1>4, <2>2 DEF EndsIn
    <3> QED
      BY <1>1, <1>2, <1>4, <2>2, <3>1 DEF EndsIn
  <2> QED
    BY <2>1, <2>2
<1> QED
  BY <1>3, <1>4 DEF Increasing, p

---------------------------------------------------------------------------
(* RequestStream *)

\* The packet under way is the newest; a subscription it is still to be offered to, or that it
\* makes room in, has none as new.
Offered(s) == s \in pub.todo \/ pub.to = s

Publication ==
  /\ pub # Quiet => pub.n = made /\ made # 0
  /\ pub.at = "offer" => pub.to = Unset
  /\ pub.at # "offer" => pub.to \in Stream /\ pub.to \notin pub.todo
  /\ pub.at = "again" => Len(queue[pub.to]) < QueueLimit

\* A subscription lasts as long as its generator; an answer comes after the worker.
Lifetime(s) ==
  /\ s \in subs <=> gen[s] \notin {"none", "over"}
  /\ gen[s] \in {"drain", "answer"} => worker[s] = "completed"
  /\ Offered(s) => gen[s] # "none"
  /\ s \notin subs => queue[s] = <<>> /\ read[s] = <<>> /\ recorded[s] = <<>> /\ early[s] = {}

\* What the client read and the queue holds: in order, and up to the newest packet recorded,
\* but for the one under way.
Packets(s) ==
  /\ Sorted(read[s], queue[s])
  /\ Below(read[s], made + 1) /\ Below(queue[s], made + 1)
  /\ Offered(s) => Below(read[s], made) /\ Below(queue[s], made)
  /\ pub.to # s /\ recorded[s] # <<>> => EndsIn(read[s], queue[s], recorded[s][Len(recorded[s])])
  /\ pub.to = s /\ s \in subs => recorded[s] # <<>> /\ recorded[s][Len(recorded[s])] = made

\* What was there when the request completed is nowhere else.
Ending(s) ==
  /\ early[s] \subseteq Elements(read[s]) \cup Elements(queue[s]) \cup dropped[s]
  /\ gen[s] = "answer" => early[s] \subseteq Elements(read[s]) \cup dropped[s]

ChatInv ==
  /\ ChatTypeOK /\ Publication
  /\ \A s \in Stream : Lifetime(s) /\ Packets(s) /\ Ending(s)

LEMMA PacketsAreNat == ASSUME NEW q \in Seq(1..MaxPackets) PROVE q \in Seq(Nat)
BY SeqMonotonic, StreamConstants

LEMMA ChatInitInv == ChatInit => ChatInv
<1> SUFFICES ASSUME ChatInit PROVE ChatInv
  OBVIOUS
<1> USE StreamConstants DEF ChatInit
<1>1. ChatTypeOK
  <2>1. <<>> \in Seq(1..MaxPackets) /\ Len(<<>>) = 0
    BY EmptySeq
  <2>2. pub \in [at : {"offer", "full", "again"}, n : 0..MaxPackets,
              text : Text \cup {Unset}, todo : SUBSET Stream, to : Stream \cup {Unset}]
    BY DEF Quiet
  <2> QED
    BY <2>1, <2>2 DEF ChatTypeOK
<1>2. Publication
  BY DEF Publication, Quiet
<1>3. ASSUME NEW s \in Stream PROVE Lifetime(s) /\ Packets(s) /\ Ending(s)
  BY NothingKept DEF Lifetime, Packets, Ending, Quiet, Offered
<1> QED
  BY <1>1, <1>2, <1>3 DEF ChatInv

\* A step that concerns another stream.
LEMMA StreamKept ==
  ASSUME ChatInv, NEW s \in Stream, made' = made,
         queue'[s] = queue[s], read'[s] = read[s], recorded'[s] = recorded[s],
         early'[s] = early[s], dropped'[s] = dropped[s],
         gen'[s] = gen[s], worker'[s] = worker[s], s \in subs' <=> s \in subs,
         pub'.to = s <=> pub.to = s, Offered(s)' => Offered(s)
  PROVE  Lifetime(s)' /\ Packets(s)' /\ Ending(s)'
<1>1. Lifetime(s) /\ Packets(s) /\ Ending(s)
  BY DEF ChatInv
<1>2. Lifetime(s)'
  BY <1>1 DEF Lifetime
<1>3. Packets(s)'
  BY <1>1 DEF Packets
<1>4. Ending(s)'
  BY <1>1 DEF Ending
<1> QED
  BY <1>2, <1>3, <1>4

\* The publication goes on with the subscriptions that are left.
LEMMA ProceedKept ==
  ASSUME ChatInv, NEW todo, todo \subseteq pub.todo, Proceed(todo), made' = made
  PROVE  /\ pub' \in [at : {"offer", "full", "again"}, n : 0..MaxPackets,
                      text : Text \cup {Unset}, todo : SUBSET Stream, to : Stream \cup {Unset}]
         /\ Publication' /\ pub'.to = Unset
         /\ \A s \in Stream : pub'.to # s /\ (Offered(s)' => s \in todo)
<1> USE StreamConstants DEF ChatInv, ChatTypeOK, Publication, Proceed, Offered
<1>1. CASE todo = {}
  BY <1>1 DEF Quiet
<1>2. CASE todo # {}
  <2>1. pub # Quiet
    BY <1>2 DEF Quiet
  <2>2. pub' = [pub EXCEPT !.at = "offer", !.todo = todo, !.to = Unset]
    BY <1>2
  <2>3. pub'.at = "offer" /\ pub'.todo = todo /\ pub'.to = Unset /\ pub'.n = pub.n /\ pub'.text = pub.text
    BY <2>2
  <2> QED
    BY <2>1, <2>2, <2>3
<1> QED
  BY <1>1, <1>2

\* A packet is published to the subscriptions there are.
LEMMA PublishStep == ASSUME ChatInv, Publish PROVE ChatInv'
<1> USE StreamConstants DEF ChatInv
<1>1. /\ made' = made + 1 /\ made' \in 0..MaxPackets /\ made \in Nat /\ pub = Quiet
      /\ UNCHANGED <<subs, queue, lastText, recorded, ask, worker, result, early, gen, read, dropped>>
  BY DEF Publish, ChatTypeOK, sub, work, writer
<1>2. PICK t \in Text : pub' = IF subs = {} THEN Quiet
        ELSE [at |-> "offer", n |-> made + 1, text |-> t, todo |-> subs, to |-> Unset]
  BY DEF Publish
<1>3. pub' \in [at : {"offer", "full", "again"}, n : 0..MaxPackets,
                text : Text \cup {Unset}, todo : SUBSET Stream, to : Stream \cup {Unset}]
      /\ pub'.to = Unset /\ pub'.at = "offer" /\ pub'.todo \subseteq subs /\ (pub' # Quiet => pub'.n = made' /\ made' # 0)
  <2>1. CASE subs = {}
    BY <1>1, <1>2, <2>1 DEF Quiet
  <2>2. CASE subs # {}
    BY <1>1, <1>2, <2>2 DEF ChatTypeOK
  <2> QED
    BY <2>1, <2>2
<1>4. ChatTypeOK'
  BY <1>1, <1>3 DEF ChatTypeOK
<1>5. Publication'
  BY <1>1, <1>3 DEF Publication
<1>6. ASSUME NEW s \in Stream PROVE Lifetime(s)' /\ Packets(s)' /\ Ending(s)'
  <2>1. pub'.to # s /\ pub.to = Unset /\ pub.to # s /\ (Offered(s)' => s \in subs)
    BY <1>1, <1>3 DEF Offered, Quiet
  <2>2. Lifetime(s)'
    BY <1>1, <2>1 DEF Lifetime
  <2>3. /\ read[s] \in Seq(Nat) /\ queue[s] \in Seq(Nat)
        /\ Below(read[s], made + 1) /\ Below(queue[s], made + 1)
    BY PacketsAreNat DEF ChatTypeOK, Packets
  <2>4. Below(read[s], (made + 1) + 1) /\ Below(queue[s], (made + 1) + 1)
    <3>1. ASSUME NEW q \in Seq(Nat), Below(q, made + 1) PROVE Below(q, (made + 1) + 1)
      <4> SUFFICES ASSUME NEW i \in 1..Len(q) PROVE q[i] < (made + 1) + 1
        BY DEF Below
      <4>1. q[i] \in Nat /\ q[i] < made + 1
        BY <3>1, SeqOfNat DEF Below
      <4> QED
        BY <1>1, <4>1
    <3> QED
      BY <2>3, <3>1
  <2>5. Packets(s)'
    BY <1>1, <2>1, <2>3, <2>4 DEF Packets
  <2>6. Ending(s)'
    BY <1>1 DEF Ending
  <2> QED
    BY <2>2, <2>5, <2>6
<1> QED
  BY <1>4, <1>5, <1>6

\* A subscription is passed over.
LEMMA PassOverStep ==
  ASSUME ChatInv, NEW s \in Stream, Discard(s) \/ Suppress(s)
  PROVE  ChatInv'
<1>1. /\ pub.at = "offer" /\ s \in pub.todo /\ Proceed(pub.todo \ {s})
      /\ UNCHANGED <<subs, queue, lastText, recorded, made, ask, worker, result, early, gen, read, dropped>>
  BY DEF Discard, Suppress, sub, work, writer
<1>2. /\ pub' \in [at : {"offer", "full", "again"}, n : 0..MaxPackets,
                   text : Text \cup {Unset}, todo : SUBSET Stream, to : Stream \cup {Unset}]
      /\ Publication' /\ pub'.to = Unset
      /\ \A x \in Stream : pub'.to # x /\ (Offered(x)' => x \in pub.todo \ {s})
  BY <1>1, ProceedKept
<1>3. pub.to = Unset
  BY <1>1 DEF ChatInv, Publication
<1>4. ASSUME NEW x \in Stream PROVE Lifetime(x)' /\ Packets(x)' /\ Ending(x)'
  <2>1. Offered(x)' => Offered(x)
    BY <1>2 DEF Offered
  <2>2. pub.to # x
    BY <1>3, StreamConstants
  <2> QED
    BY <1>1, <1>2, <2>1, <2>2, StreamKept
<1>5. ChatTypeOK'
  BY <1>1, <1>2 DEF ChatInv, ChatTypeOK
<1> QED
  BY <1>2, <1>4, <1>5 DEF ChatInv

LEMMA AppendPacket ==
  ASSUME NEW q \in Seq(1..MaxPackets), NEW n \in 1..MaxPackets
  PROVE  /\ Append(q, n) \in Seq(1..MaxPackets) /\ Len(Append(q, n)) = Len(q) + 1
         /\ Append(q, n) # <<>> /\ Append(q, n)[Len(Append(q, n))] = n /\ Len(q) \in Nat
<1>1. Len(q) \in Nat
  BY LenProperties
<1>2. Append(q, n) \in Seq(1..MaxPackets) /\ Len(Append(q, n)) = Len(q) + 1
  BY AppendProperties
<1>3. Append(q, n)[Len(q) + 1] = n
  BY AppendProperties
<1>4. Append(q, n) # <<>>
  BY AppendProperties
<1> QED
  BY <1>1, <1>2, <1>3, <1>4

LEMMA TailPacket ==
  ASSUME NEW q \in Seq(1..MaxPackets), q # <<>>
  PROVE  /\ Head(q) \in 1..MaxPackets /\ Tail(q) \in Seq(1..MaxPackets)
         /\ Len(Tail(q)) = Len(q) - 1 /\ Len(q) \in Nat
BY HeadTailProperties, LenProperties

\* What is put into the queue of a stream that has read what it has read.
LEMMA PutPacket ==
  ASSUME ChatInv, NEW s \in Stream, made \in Nat,
         Below(read[s], made), Below(queue[s], made), NEW q, q = Append(queue[s], made)
  PROVE  /\ Sorted(read[s], q) /\ Below(read[s], made + 1) /\ Below(q, made + 1)
         /\ EndsIn(read[s], q, made) /\ Elements(q) = Elements(queue[s]) \cup {made}
<1>1. read[s] \in Seq(Nat) /\ queue[s] \in Seq(Nat) /\ Sorted(read[s], queue[s])
  BY PacketsAreNat DEF ChatInv, ChatTypeOK, Packets
<1> QED
  BY <1>1, PutKeeps

\* The packet is recorded for a subscription, and put into its queue if there is room.
LEMMA OfferStep == ASSUME ChatInv, NEW s \in Stream, Offer(s) PROVE ChatInv'
<1> USE StreamConstants
<1>1. /\ pub.at = "offer" /\ s \in pub.todo /\ s \in subs
      /\ lastText' = [lastText EXCEPT ![s] = pub.text]
      /\ recorded' = [recorded EXCEPT ![s] = Append(@, pub.n)]
      /\ UNCHANGED <<subs, made, ask, worker, result, early, gen, read, dropped>>
  BY DEF Offer, work, writer, Set
<1>2. pub.n = made /\ pub.to = Unset /\ made \in 1..MaxPackets /\ Offered(s)
  <2>1. pub # Quiet /\ pub.n \in 0..MaxPackets /\ Offered(s)
    BY <1>1 DEF Quiet, ChatInv, ChatTypeOK, Offered
  <2>2. pub.n = made /\ pub.to = Unset /\ made \in 0..MaxPackets
    BY <1>1, <2>1 DEF ChatInv, ChatTypeOK, Publication
  <2> QED
    BY <2>1, <2>2 DEF ChatInv, Publication
<1>3. recorded[s] \in Seq(1..MaxPackets) /\ queue[s] \in Seq(1..MaxPackets)
      /\ Below(read[s], made) /\ Below(queue[s], made) /\ made \in Nat
  BY <1>2 DEF ChatInv, ChatTypeOK, Packets
<1> DEFINE rec == Append(recorded[s], made)
           q == Append(queue[s], made)
<1>4. /\ recorded' = [recorded EXCEPT ![s] = rec] /\ rec \in Seq(1..MaxPackets)
      /\ rec # <<>> /\ rec[Len(rec)] = made
  <2>1. recorded' = [recorded EXCEPT ![s] = rec]
    BY <1>1, <1>2
  <2> QED
    BY <2>1, <1>2, <1>3, AppendPacket
<1>5. q \in Seq(1..MaxPackets) /\ Len(q) = Len(queue[s]) + 1 /\ Len(queue[s]) \in Nat
  BY <1>2, <1>3, AppendPacket
<1>6. /\ Sorted(read[s], q) /\ Below(read[s], made + 1) /\ Below(q, made + 1)
      /\ EndsIn(read[s], q, made) /\ Elements(q) = Elements(queue[s]) \cup {made}
  BY <1>3, PutPacket
<1> HIDE DEF rec, q
<1>7. pub.text \in Text \cup {Unset} /\ lastText' \in [Stream -> Text \cup {Unset}]
      /\ recorded' \in [Stream -> Seq(1..MaxPackets)]
  BY <1>1, <1>4 DEF ChatInv, ChatTypeOK
<1>8. CASE Len(queue[s]) < QueueLimit /\ queue' = [queue EXCEPT ![s] = Append(@, pub.n)]
           /\ Proceed(pub.todo \ {s})
  <2>1. queue' = [queue EXCEPT ![s] = q]
    BY <1>2, <1>8 DEF q
  <2>2. /\ pub' \in [at : {"offer", "full", "again"}, n : 0..MaxPackets,
                     text : Text \cup {Unset}, todo : SUBSET Stream, to : Stream \cup {Unset}]
        /\ Publication' /\ pub'.to = Unset
        /\ \A x \in Stream : pub'.to # x /\ (Offered(x)' => x \in pub.todo \ {s})
    BY <1>1, <1>8, ProceedKept
  <2>3. queue' \in [Stream -> Seq(1..MaxPackets)] /\ \A x \in Stream : Len(queue'[x]) <= QueueLimit
    <3>1. queue' \in [Stream -> Seq(1..MaxPackets)]
      BY <1>5, <2>1 DEF ChatInv, ChatTypeOK
    <3>2. ASSUME NEW x \in Stream PROVE Len(queue'[x]) <= QueueLimit
      <4>1. CASE x = s
        BY <1>5, <1>8, <2>1, <4>1 DEF ChatInv, ChatTypeOK
      <4>2. CASE x # s
        BY <2>1, <4>2 DEF ChatInv, ChatTypeOK
      <4> QED
        BY <4>1, <4>2
    <3> QED
      BY <3>1, <3>2
  <2>4. ChatTypeOK'
    BY <1>1, <1>7, <2>2, <2>3 DEF ChatInv, ChatTypeOK
  <2>5. ASSUME NEW x \in Stream PROVE Lifetime(x)' /\ Packets(x)' /\ Ending(x)'
    <3>1. CASE x # s
      <4>1. queue'[x] = queue[x] /\ recorded'[x] = recorded[x]
        BY <1>4, <2>1, <3>1
      <4>2. (Offered(x)' => Offered(x)) /\ pub.to # x
        BY <1>2, <2>2 DEF Offered
      <4> QED
        BY <1>1, <2>2, <4>1, <4>2, StreamKept
    <3>2. CASE x = s
      <4>1. queue'[s] = q /\ recorded'[s] = rec /\ ~Offered(s)' /\ pub'.to # s
        BY <1>4, <2>1, <2>2 DEF ChatInv, ChatTypeOK
      <4>2. Lifetime(s)'
        BY <1>1, <4>1 DEF ChatInv, Lifetime
      <4>3. Packets(s)'
        BY <1>1, <1>4, <1>6, <4>1 DEF Packets
      <4>4. Ending(s)'
        BY <1>1, <1>6, <4>1 DEF ChatInv, Ending
      <4> QED
        BY <3>2, <4>2, <4>3, <4>4
    <3> QED
      BY <3>1, <3>2
  <2> QED
    BY <2>2, <2>4, <2>5 DEF ChatInv
<1>9. CASE Len(queue[s]) = QueueLimit /\ pub' = [pub EXCEPT !.at = "full", !.todo = @ \ {s}, !.to = s]
           /\ UNCHANGED queue
  <2>1. /\ pub' \in [at : {"offer", "full", "again"}, n : 0..MaxPackets,
                     text : Text \cup {Unset}, todo : SUBSET Stream, to : Stream \cup {Unset}]
        /\ pub'.at = "full" /\ pub'.n = pub.n /\ pub'.todo = pub.todo \ {s} /\ pub'.to = s
    BY <1>9 DEF ChatInv, ChatTypeOK
  <2>2. ChatTypeOK'
    BY <1>1, <1>7, <1>9, <2>1 DEF ChatInv, ChatTypeOK
  <2>3. Publication'
    <3>1. pub # Quiet
      BY <1>1 DEF Quiet
    <3> QED
      BY <1>1, <2>1, <3>1 DEF ChatInv, Publication
  <2>4. ASSUME NEW x \in Stream PROVE Lifetime(x)' /\ Packets(x)' /\ Ending(x)'
    <3>1. CASE x # s
      <4>1. queue'[x] = queue[x] /\ recorded'[x] = recorded[x]
        BY <1>4, <1>9, <3>1
      <4>2. (Offered(x)' => Offered(x)) /\ pub.to # x /\ pub'.to # x
        BY <1>2, <2>1, <3>1 DEF Offered
      <4> QED
        BY <1>1, <4>1, <4>2, StreamKept
    <3>2. CASE x = s
      <4>1. queue'[s] = queue[s] /\ recorded'[s] = rec /\ pub'.to = s
        BY <1>4, <1>9, <2>1 DEF ChatInv, ChatTypeOK
      <4>2. Lifetime(s)'
        BY <1>1, <1>2, <4>1 DEF ChatInv, Lifetime
      <4>3. Packets(s)'
        BY <1>1, <1>2, <1>3, <1>4, <4>1 DEF ChatInv, Packets
      <4>4. Ending(s)'
        BY <1>1, <4>1 DEF ChatInv, Ending
      <4> QED
        BY <3>2, <4>2, <4>3, <4>4
    <3> QED
      BY <3>1, <3>2
  <2> QED
    BY <2>2, <2>3, <2>4 DEF ChatInv
<1> QED
  BY <1>8, <1>9 DEF Offer

\* The oldest packet makes room, if the reader has not emptied the queue.
LEMMA DropStep == ASSUME ChatInv, NEW s \in Stream, pub.to = s, DropOldest PROVE ChatInv'
<1> USE StreamConstants
<1>1. /\ pub.at = "full" /\ pub' = [pub EXCEPT !.at = "again"]
      /\ UNCHANGED <<subs, lastText, recorded, made, ask, worker, result, early, gen, read>>
      /\ \/ /\ queue[s] # <<>> /\ dropped' = [dropped EXCEPT ![s] = @ \cup {Head(queue[s])}]
            /\ queue' = [queue EXCEPT ![s] = Tail(@)]
         \/ queue[s] = <<>> /\ dropped' = dropped /\ queue' = queue
  BY DEF DropOldest, work, writer
<1>2. s \in Stream /\ queue[s] \in Seq(1..MaxPackets) /\ read[s] \in Seq(Nat)
      /\ Sorted(read[s], queue[s]) /\ Len(queue[s]) <= QueueLimit /\ queue[s] \in Seq(Nat)
  BY <1>1, PacketsAreNat DEF ChatInv, ChatTypeOK, Publication, Packets
<1>3. /\ pub' \in [at : {"offer", "full", "again"}, n : 0..MaxPackets,
                   text : Text \cup {Unset}, todo : SUBSET Stream, to : Stream \cup {Unset}]
      /\ pub'.at = "again" /\ pub'.n = pub.n /\ pub'.todo = pub.todo /\ pub'.to = s
  BY <1>1 DEF ChatInv, ChatTypeOK
<1>4. pub # Quiet /\ pub.n = made /\ made \in Nat
  BY <1>1 DEF Quiet, ChatInv, ChatTypeOK, Publication
<1>5. Len(queue'[s]) < QueueLimit /\ queue'[s] \in Seq(1..MaxPackets)
      /\ \A x \in Stream : x # s => queue'[x] = queue[x] /\ dropped'[x] = dropped[x]
  <2>1. CASE queue[s] = <<>>
    <3>1. queue' = queue /\ dropped' = dropped /\ Len(queue[s]) = 0
      BY <1>1, <2>1
    <3> QED
      BY <1>2, <3>1, StreamConstants
  <2>2. CASE queue[s] # <<>>
    <3>1. Tail(queue[s]) \in Seq(1..MaxPackets) /\ Len(Tail(queue[s])) = Len(queue[s]) - 1
          /\ Len(queue[s]) \in Nat
      BY <1>2, <2>2, TailPacket
    <3>2. queue'[s] = Tail(queue[s])
          /\ \A x \in Stream : x # s => queue'[x] = queue[x] /\ dropped'[x] = dropped[x]
      BY <1>1, <1>2, <2>2 DEF ChatInv, ChatTypeOK
    <3>3. Len(queue'[s]) < QueueLimit
      BY <1>2, <3>1, <3>2
    <3> QED
      BY <3>1, <3>2, <3>3
  <2> QED
    BY <2>1, <2>2
<1>6. ChatTypeOK'
  <2>1. queue' \in [Stream -> Seq(1..MaxPackets)] /\ dropped' \in [Stream -> SUBSET (1..MaxPackets)]
    <3>1. CASE queue[s] = <<>>
      BY <1>1, <3>1 DEF ChatInv, ChatTypeOK
    <3>2. CASE queue[s] # <<>>
      <4>1. Head(queue[s]) \in 1..MaxPackets /\ Tail(queue[s]) \in Seq(1..MaxPackets)
        BY <1>2, <3>2, TailPacket
      <4>2. /\ queue \in [Stream -> Seq(1..MaxPackets)] /\ queue' = [queue EXCEPT ![s] = Tail(@)]
            /\ dropped \in [Stream -> SUBSET (1..MaxPackets)]
            /\ dropped' = [dropped EXCEPT ![s] = @ \cup {Head(queue[s])}]
        BY <1>1, <3>2 DEF ChatInv, ChatTypeOK
      <4> QED
        BY <4>1, <4>2
    <3> QED
      BY <3>1, <3>2
  <2>2. ASSUME NEW x \in Stream PROVE Len(queue'[x]) <= QueueLimit
    <3>1. CASE x = s
      <4>1. Len(queue'[s]) \in Nat
        BY <1>5, LenProperties
      <4> QED
        BY <1>5, <3>1, <4>1
    <3>2. CASE x # s
      BY <1>5, <3>2 DEF ChatInv, ChatTypeOK
    <3> QED
      BY <3>1, <3>2
  <2> QED
    BY <1>1, <1>3, <2>1, <2>2 DEF ChatInv, ChatTypeOK
<1>7. Publication'
  BY <1>1, <1>2, <1>3, <1>4, <1>5 DEF ChatInv, Publication
<1>8. ASSUME NEW x \in Stream PROVE Lifetime(x)' /\ Packets(x)' /\ Ending(x)'
  <2>1. CASE x # s \/ queue[s] = <<>>
    <3>1. queue'[x] = queue[x] /\ dropped'[x] = dropped[x]
      BY <1>1, <1>5, <2>1
    <3>2. (Offered(x)' <=> Offered(x)) /\ (pub'.to = x <=> pub.to = x)
      BY <1>3 DEF Offered
    <3> QED
      BY <1>1, <3>1, <3>2, StreamKept
  <2>2. CASE x = s /\ queue[s] # <<>>
    <3>1. queue'[s] = Tail(queue[s]) /\ dropped'[s] = dropped[s] \cup {Head(queue[s])}
      BY <1>1, <1>2, <2>2 DEF ChatInv, ChatTypeOK
    <3>2. Offered(s) /\ pub.to = s /\ pub'.to = s
      BY <1>3 DEF Offered
    <3>3. /\ Sorted(read[s], Tail(queue[s]))
          /\ \A n \in Nat : Below(read[s], n) /\ Below(queue[s], n) => Below(Tail(queue[s]), n)
          /\ Elements(queue[s]) = Elements(Tail(queue[s])) \cup {Head(queue[s])}
      BY <1>2, <2>2, TakeKeeps
    <3>4. Lifetime(s)'
      BY <1>1, <1>2, <2>2, <3>2 DEF ChatInv, Lifetime
    <3>5. Packets(s)'
      <4>1. made + 1 \in Nat
        BY <1>4
      <4> QED
        BY <1>1, <1>2, <1>4, <3>1, <3>2, <3>3, <4>1 DEF ChatInv, Packets
    <3>6. Ending(s)'
      BY <1>1, <1>2, <3>1, <3>3 DEF ChatInv, Ending
    <3> QED
      BY <2>2, <3>4, <3>5, <3>6
  <2> QED
    BY <2>1, <2>2
<1> QED
  BY <1>6, <1>7, <1>8 DEF ChatInv

\* Room was made: the packet is put into the queue, if somebody still reads it.
LEMMA OfferAgainStep ==
  ASSUME ChatInv, NEW s \in Stream, pub.to = s, OfferAgain
  PROVE  ChatInv'
<1> USE StreamConstants
<1>1. /\ pub.at = "again" /\ Proceed(pub.todo)
      /\ queue' = IF s \in subs THEN [queue EXCEPT ![s] = Append(@, pub.n)] ELSE queue
      /\ UNCHANGED <<subs, lastText, recorded, made, ask, worker, result, early, gen, read, dropped>>
  BY DEF OfferAgain, work, writer
<1>2. /\ pub.n = made /\ made \in 1..MaxPackets /\ Offered(s) /\ s \notin pub.todo
      /\ Len(queue[s]) < QueueLimit
  <2>1. pub # Quiet /\ Offered(s)
    BY <1>1 DEF Quiet, Offered
  <2> QED
    BY <1>1, <2>1 DEF ChatInv, ChatTypeOK, Publication
<1>3. /\ queue[s] \in Seq(1..MaxPackets) /\ Below(read[s], made) /\ Below(queue[s], made)
      /\ made \in Nat /\ (s \in subs => recorded[s] # <<>> /\ recorded[s][Len(recorded[s])] = made)
  BY <1>2 DEF ChatInv, ChatTypeOK, Packets
<1>4. /\ pub' \in [at : {"offer", "full", "again"}, n : 0..MaxPackets,
                   text : Text \cup {Unset}, todo : SUBSET Stream, to : Stream \cup {Unset}]
      /\ Publication' /\ pub'.to = Unset
      /\ \A x \in Stream : pub'.to # x /\ (Offered(x)' => x \in pub.todo)
  BY <1>1, ProceedKept
<1> DEFINE q == Append(queue[s], made)
<1>5. q \in Seq(1..MaxPackets) /\ Len(q) = Len(queue[s]) + 1 /\ Len(queue[s]) \in Nat
  BY <1>2, <1>3, AppendPacket
<1>6. /\ Sorted(read[s], q) /\ Below(read[s], made + 1) /\ Below(q, made + 1)
      /\ EndsIn(read[s], q, made) /\ Elements(q) = Elements(queue[s]) \cup {made}
  BY <1>3, PutPacket
<1>7. queue' = IF s \in subs THEN [queue EXCEPT ![s] = q] ELSE queue
  BY <1>1, <1>2
<1> HIDE DEF q
<1>8. ASSUME NEW x \in Stream, x # s \/ s \notin subs PROVE queue'[x] = queue[x]
  BY <1>7, <1>8
<1>9. s \in subs => queue'[s] = q
  BY <1>7 DEF ChatInv, ChatTypeOK
<1>10. ChatTypeOK'
  <2>1. queue' \in [Stream -> Seq(1..MaxPackets)]
    <3>1. CASE s \in subs
      BY <1>5, <1>7, <3>1 DEF ChatInv, ChatTypeOK
    <3>2. CASE s \notin subs
      BY <1>7, <3>2 DEF ChatInv, ChatTypeOK
    <3> QED
      BY <3>1, <3>2
  <2>2. ASSUME NEW x \in Stream PROVE Len(queue'[x]) <= QueueLimit
    <3>1. CASE x = s /\ s \in subs
      BY <1>2, <1>5, <1>9, <3>1
    <3>2. CASE ~(x = s /\ s \in subs)
      BY <1>8, <3>2 DEF ChatInv, ChatTypeOK
    <3> QED
      BY <3>1, <3>2
  <2> QED
    BY <1>1, <1>4, <2>1, <2>2 DEF ChatInv, ChatTypeOK
<1>11. ASSUME NEW x \in Stream PROVE Lifetime(x)' /\ Packets(x)' /\ Ending(x)'
  <2>1. CASE x # s
    <3>1. queue'[x] = queue[x]
      BY <1>8, <2>1
    <3>2. (Offered(x)' => Offered(x)) /\ pub'.to # x /\ pub.to # x
      BY <1>4, <2>1 DEF Offered
    <3> QED
      BY <1>1, <3>1, <3>2, StreamKept
  <2>2. ~Offered(s)' /\ pub'.to # s /\ (made + 1) \in Nat
    BY <1>2, <1>3, <1>4
  <2>3. CASE x = s /\ s \in subs
    <3>1. Lifetime(s)'
      BY <1>1, <2>2, <2>3 DEF ChatInv, Lifetime
    <3>2. Packets(s)'
      BY <1>1, <1>3, <1>6, <1>9, <2>2, <2>3 DEF Packets
    <3>3. Ending(s)'
      BY <1>1, <1>6, <1>9, <2>3 DEF ChatInv, Ending
    <3> QED
      BY <2>3, <3>1, <3>2, <3>3
  <2>4. CASE x = s /\ s \notin subs
    <3>1. queue'[s] = queue[s] /\ recorded[s] = <<>>
      BY <1>8, <2>4 DEF ChatInv, Lifetime
    <3>2. Lifetime(s)'
      BY <1>1, <2>2, <2>4, <3>1 DEF ChatInv, Lifetime
    <3>3. Packets(s)'
      BY <1>1, <2>2, <2>4, <3>1 DEF ChatInv, Packets
    <3>4. Ending(s)'
      BY <1>1, <3>1 DEF ChatInv, Ending
    <3> QED
      BY <2>4, <3>2, <3>3, <3>4
  <2> QED
    BY <2>1, <2>3, <2>4
<1> QED
  BY <1>4, <1>10, <1>11 DEF ChatInv

\* A subscription and a worker come, a coroutine ends, a worker has its result or completes,
\* and a generator goes on without reading: what is kept for the client stays as it is.
LEMMA ThreadStep ==
  ASSUME ChatInv, NEW s \in Stream,
         \/ Open(s) \/ AskEnds(s) \/ WorkerStep(s) \/ Connect(s) \/ Empty(s) \/ CheckCompleted(s)
         \/ gen[s] = "new" /\ Gone(s)
  PROVE  ChatInv'
<1> USE StreamConstants
<1>1. /\ UNCHANGED <<queue, lastText, recorded, made, pub, read, dropped>>
      /\ subs' \subseteq Stream /\ \A x \in Stream : x # s => (x \in subs' <=> x \in subs)
      /\ \A x \in Stream \ {s} : gen'[x] = gen[x] /\ worker'[x] = worker[x] /\ early'[x] = early[x]
      /\ ask' \in [Stream -> {"none", "running", "ended"}]
      /\ worker' \in [Stream -> {"none", "waiting", "set", "completed"}]
      /\ result' \in [Stream -> {"reply", "error", Unset}]
      /\ gen' \in [Stream -> {"none", "new", "stream", "check", "drain", "answer", "over", "abandoned"}]
  <2>1. CASE Open(s)
    BY <2>1 DEF Open, sub, Set, ChatInv, ChatTypeOK
  <2>2. CASE AskEnds(s)
    BY <2>2 DEF AskEnds, sub, work, writer, Set, ChatInv, ChatTypeOK
  <2>3. CASE WorkerResult(s)
    <3>1. PICK r \in {"reply", "error"} : result' = [result EXCEPT ![s] = r]
      BY <2>3 DEF WorkerResult, Set
    <3>2. /\ worker' = [worker EXCEPT ![s] = "set"]
          /\ UNCHANGED <<queue, lastText, recorded, made, pub, ask, read, dropped, subs, gen, early>>
      BY <2>3 DEF WorkerResult, Set, sub, chatLoop, writer
    <3> QED
      BY <3>1, <3>2 DEF ChatInv, ChatTypeOK
  <2>4. CASE Complete(s)
    BY <2>4 DEF Complete, sub, chatLoop, writer, Set, ChatInv, ChatTypeOK
  <2>5. CASE Connect(s) \/ Empty(s) \/ CheckCompleted(s) \/ (gen[s] = "new" /\ Gone(s))
    <3>1. PICK g \in {"stream", "check", "drain", "answer", "abandoned"} : gen' = [gen EXCEPT ![s] = g]
      BY <2>5 DEF Connect, Empty, CheckCompleted, Gone, GenGoto, Set
    <3>2. UNCHANGED <<queue, lastText, recorded, made, pub, ask, read, dropped, subs, worker, result, early>>
      BY <2>5 DEF Connect, Empty, CheckCompleted, Gone, GenGoto, sub, chatLoop, work
    <3> QED
      BY <3>1, <3>2 DEF ChatInv, ChatTypeOK
  <2> QED
    BY <2>1, <2>2, <2>3, <2>4, <2>5 DEF WorkerStep
<1>2. early' \in [Stream -> SUBSET (1..MaxPackets)]
  <2>1. CASE Complete(s)
    <3>0. queue[s] \in Seq(1..MaxPackets)
      BY DEF ChatInv, ChatTypeOK
    <3>1. Elements(queue[s]) \subseteq 1..MaxPackets
      BY <3>0, ElementOfSeq DEF Elements
    <3> QED
      BY <2>1, <3>1 DEF Complete, Set, ChatInv, ChatTypeOK
  <2>2. CASE ~Complete(s)
    <3>1. early' = early
      BY <2>2 DEF Open, AskEnds, WorkerStep, WorkerResult, Connect, Empty, CheckCompleted, Gone, Over,
                  GenGoto, work, sub, chatLoop, writer
    <3> QED
      BY <3>1 DEF ChatInv, ChatTypeOK
  <2> QED
    BY <2>1, <2>2
<1>3. ChatTypeOK' /\ Publication'
  BY <1>1, <1>2 DEF ChatInv, ChatTypeOK, Publication
<1>4. Lifetime(s)' /\ Packets(s)' /\ Ending(s)'
  <2>2. (Offered(s)' <=> Offered(s)) /\ Lifetime(s) /\ Packets(s) /\ Ending(s)
    BY <1>1 DEF Offered, ChatInv
  <2>3. CASE Open(s)
    <3>1. gen[s] = "none" /\ gen'[s] = "new" /\ s \in subs' /\ s \notin subs
          /\ worker'[s] = "waiting" /\ early'[s] = early[s] /\ ~Offered(s)
      BY <2>2, <2>3 DEF Open, Set, ChatInv, ChatTypeOK, Lifetime
    <3>2. recorded[s] = <<>> /\ pub.to # s
      BY <2>2, <3>1 DEF Lifetime, Offered
    <3> QED
      BY <1>1, <2>2, <3>1, <3>2 DEF Lifetime, Packets, Ending
  <2>4. CASE AskEnds(s) \/ WorkerResult(s)
    <3>1. gen' = gen /\ subs' = subs /\ early' = early
          /\ (worker' = worker \/ (worker[s] = "waiting" /\ worker'[s] = "set"))
      BY <2>4 DEF AskEnds, WorkerResult, Set, work, writer, ChatInv, ChatTypeOK
    <3> QED
      BY <1>1, <2>2, <3>1 DEF Lifetime, Packets, Ending
  <2>5. CASE Complete(s)
    <3>1. gen' = gen /\ subs' = subs /\ worker[s] = "set" /\ worker'[s] = "completed"
          /\ early'[s] = IF s \in subs THEN Elements(queue[s]) ELSE early[s]
      BY <2>5 DEF Complete, Set, writer, ChatInv, ChatTypeOK
    <3>2. gen[s] \notin {"drain", "answer"}
      BY <2>2, <3>1 DEF Lifetime
    <3> QED
      BY <1>1, <2>2, <3>1, <3>2 DEF Lifetime, Packets, Ending
  <2>6. CASE Connect(s) \/ CheckCompleted(s) \/ (gen[s] = "new" /\ Gone(s))
    <3>1. /\ subs' = subs /\ worker' = worker /\ early' = early
          /\ gen[s] \in {"new", "check"} /\ gen'[s] \in {"stream", "drain", "abandoned"}
          /\ gen'[s] = "drain" => worker[s] = "completed"
      BY <2>6 DEF Connect, CheckCompleted, Gone, GenGoto, Set, work, ChatInv, ChatTypeOK
    <3> QED
      BY <1>1, <2>2, <3>1 DEF Lifetime, Packets, Ending
  <2>7. CASE Empty(s)
    <3>1. /\ subs' = subs /\ worker' = worker /\ early' = early /\ queue[s] = <<>>
          /\ \/ gen[s] = "stream" /\ gen'[s] = "check"
             \/ gen[s] = "drain" /\ gen'[s] = "answer"
      BY <2>7 DEF Empty, GenGoto, Set, work, ChatInv, ChatTypeOK
    <3>2. Elements(queue[s]) = {}
      BY <3>1, NothingKept
    <3> QED
      BY <1>1, <2>2, <3>1, <3>2 DEF Lifetime, Packets, Ending
  <2> QED
    BY <2>3, <2>4, <2>5, <2>6, <2>7 DEF WorkerStep
<1>5. ASSUME NEW x \in Stream PROVE Lifetime(x)' /\ Packets(x)' /\ Ending(x)'
  <2>1. CASE x # s
    <3>1. Offered(x)' <=> Offered(x)
      BY <1>1 DEF Offered
    <3> QED
      BY <1>1, <2>1, <3>1, StreamKept
  <2> QED
    BY <1>4, <2>1
<1> QED
  BY <1>3, <1>5 DEF ChatInv

\* A packet is written to the client.
LEMMA WriteStep == ASSUME ChatInv, NEW s \in Stream, Write(s) PROVE ChatInv'
<1> USE StreamConstants
<1>1. /\ gen[s] \in {"stream", "drain"} /\ queue[s] # <<>>
      /\ read' = [read EXCEPT ![s] = Append(@, Head(queue[s]))]
      /\ queue' = [queue EXCEPT ![s] = Tail(@)]
      /\ UNCHANGED <<subs, lastText, recorded, made, pub, ask, worker, result, early, gen, dropped>>
  BY DEF Write, work, chatLoop
<1>2. /\ queue[s] \in Seq(1..MaxPackets) /\ read[s] \in Seq(1..MaxPackets) /\ made \in Nat
      /\ queue[s] \in Seq(Nat) /\ read[s] \in Seq(Nat) /\ Sorted(read[s], queue[s])
      /\ Len(queue[s]) <= QueueLimit
  BY PacketsAreNat DEF ChatInv, ChatTypeOK, Packets
<1> DEFINE h == Head(queue[s])
           t == Tail(queue[s])
           r == Append(read[s], h)
<1>3. h \in 1..MaxPackets /\ t \in Seq(1..MaxPackets) /\ Len(t) = Len(queue[s]) - 1 /\ Len(queue[s]) \in Nat
  BY <1>1, <1>2, TailPacket
<1>4. r \in Seq(1..MaxPackets)
  BY <1>2, <1>3, AppendPacket
<1>5. /\ Sorted(r, t)
      /\ \A n \in Nat : Below(read[s], n) /\ Below(queue[s], n) => Below(t, n) /\ Below(r, n)
      /\ \A x : EndsIn(read[s], queue[s], x) => EndsIn(r, t, x)
      /\ Elements(queue[s]) = Elements(t) \cup {h}
      /\ Elements(r) = Elements(read[s]) \cup {h}
  BY <1>1, <1>2, TakeKeeps
<1>6. read' = [read EXCEPT ![s] = r] /\ queue' = [queue EXCEPT ![s] = t]
  BY <1>1
<1> HIDE DEF h, t, r
<1>7. read'[s] = r /\ queue'[s] = t
      /\ \A x \in Stream : x # s => read'[x] = read[x] /\ queue'[x] = queue[x]
  BY <1>6 DEF ChatInv, ChatTypeOK
<1>8. ChatTypeOK'
  <2>1. read' \in [Stream -> Seq(1..MaxPackets)] /\ queue' \in [Stream -> Seq(1..MaxPackets)]
    BY <1>3, <1>4, <1>6 DEF ChatInv, ChatTypeOK
  <2>2. ASSUME NEW x \in Stream PROVE Len(queue'[x]) <= QueueLimit
    <3>1. CASE x = s
      BY <1>2, <1>3, <1>7, <3>1
    <3>2. CASE x # s
      BY <1>7, <3>2 DEF ChatInv, ChatTypeOK
    <3> QED
      BY <3>1, <3>2
  <2> QED
    BY <1>1, <2>1, <2>2 DEF ChatInv, ChatTypeOK
<1>9. Publication'
  <2>1. pub.at = "again" => Len(queue'[pub.to]) < QueueLimit
    <3> SUFFICES ASSUME pub.at = "again" PROVE Len(queue'[pub.to]) < QueueLimit
      OBVIOUS
    <3>1. pub.to \in Stream /\ Len(queue[pub.to]) < QueueLimit
      BY DEF ChatInv, Publication
    <3>2. CASE pub.to = s
      BY <1>3, <1>7, <3>1, <3>2
    <3>3. CASE pub.to # s
      BY <1>7, <3>1, <3>3
    <3> QED
      BY <3>2, <3>3
  <2> QED
    BY <1>1, <2>1 DEF ChatInv, Publication
<1>10. Lifetime(s)' /\ Packets(s)' /\ Ending(s)'
  <2>1. (Offered(s)' <=> Offered(s)) /\ Lifetime(s) /\ Packets(s) /\ Ending(s) /\ made + 1 \in Nat
    BY <1>1, <1>2 DEF Offered, ChatInv
  <2>2. Lifetime(s)'
    BY <1>1, <2>1 DEF Lifetime
  <2>3. Packets(s)'
    BY <1>1, <1>2, <1>5, <1>7, <2>1 DEF Packets
  <2>4. Ending(s)'
    BY <1>1, <1>5, <1>7, <2>1 DEF Ending
  <2> QED
    BY <2>2, <2>3, <2>4
<1>11. ASSUME NEW x \in Stream PROVE Lifetime(x)' /\ Packets(x)' /\ Ending(x)'
  <2>1. CASE x # s
    <3>1. Offered(x)' <=> Offered(x)
      BY <1>1 DEF Offered
    <3> QED
      BY <1>1, <1>7, <2>1, <3>1, StreamKept
  <2> QED
    BY <1>10, <2>1
<1> QED
  BY <1>8, <1>9, <1>11 DEF ChatInv

\* A subscription is given up, with all that was kept for it.
LEMMA OverStep ==
  ASSUME ChatInv, NEW s \in Stream, gen[s] \in {"stream", "drain", "answer"}, Over(s)
  PROVE  ChatInv'
<1> USE StreamConstants
<1>1. /\ gen' = [gen EXCEPT ![s] = "over"] /\ subs' = subs \ {s}
      /\ queue' = [queue EXCEPT ![s] = <<>>] /\ lastText' = [lastText EXCEPT ![s] = Unset]
      /\ recorded' = [recorded EXCEPT ![s] = <<>>] /\ read' = [read EXCEPT ![s] = <<>>]
      /\ early' = [early EXCEPT ![s] = {}] /\ dropped' = [dropped EXCEPT ![s] = {}]
      /\ UNCHANGED <<made, pub, ask, worker, result>>
  BY DEF Over, GenGoto, Set, chatLoop
<1>2. <<>> \in Seq(1..MaxPackets) /\ Len(<<>>) = 0
  BY EmptySeq
<1>3. ASSUME NEW x \in Stream, x # s
      PROVE  /\ gen'[x] = gen[x] /\ queue'[x] = queue[x] /\ recorded'[x] = recorded[x]
             /\ read'[x] = read[x] /\ early'[x] = early[x] /\ dropped'[x] = dropped[x]
             /\ x \in subs' <=> x \in subs
  BY <1>1, <1>3 DEF ChatInv, ChatTypeOK
<1>4. /\ gen'[s] = "over" /\ queue'[s] = <<>> /\ recorded'[s] = <<>> /\ read'[s] = <<>>
      /\ early'[s] = {} /\ s \notin subs'
  BY <1>1 DEF ChatInv, ChatTypeOK
<1>5. ChatTypeOK'
  <2>1. /\ queue' \in [Stream -> Seq(1..MaxPackets)] /\ recorded' \in [Stream -> Seq(1..MaxPackets)]
        /\ read' \in [Stream -> Seq(1..MaxPackets)]
    BY <1>1, <1>2 DEF ChatInv, ChatTypeOK
  <2>2. ASSUME NEW x \in Stream PROVE Len(queue'[x]) <= QueueLimit
    <3>1. CASE x = s
      BY <1>2, <1>4, <3>1
    <3>2. CASE x # s
      BY <1>3, <3>2 DEF ChatInv, ChatTypeOK
    <3> QED
      BY <3>1, <3>2
  <2>3. /\ lastText' \in [Stream -> Text \cup {Unset}] /\ early' \in [Stream -> SUBSET (1..MaxPackets)]
        /\ dropped' \in [Stream -> SUBSET (1..MaxPackets)]
        /\ gen' \in [Stream -> {"none", "new", "stream", "check", "drain", "answer", "over", "abandoned"}]
    BY <1>1 DEF ChatInv, ChatTypeOK
  <2> QED
    BY <1>1, <2>1, <2>2, <2>3 DEF ChatInv, ChatTypeOK
<1>6. Publication'
  <2>1. pub.at = "again" => Len(queue'[pub.to]) < QueueLimit
    <3> SUFFICES ASSUME pub.at = "again" PROVE Len(queue'[pub.to]) < QueueLimit
      OBVIOUS
    <3>1. pub.to \in Stream /\ Len(queue[pub.to]) < QueueLimit
      BY DEF ChatInv, Publication
    <3>2. CASE pub.to = s
      BY <1>2, <1>4, <3>2
    <3>3. CASE pub.to # s
      BY <1>3, <3>1, <3>3
    <3> QED
      BY <3>2, <3>3
  <2> QED
    BY <1>1, <2>1 DEF ChatInv, Publication
<1>7. ASSUME NEW x \in Stream PROVE Lifetime(x)' /\ Packets(x)' /\ Ending(x)'
  <2>1. Offered(x)' <=> Offered(x)
    BY <1>1 DEF Offered
  <2>2. CASE x # s
    BY <1>1, <1>3, <2>1, <2>2, StreamKept
  <2>3. CASE x = s
    <3>1. Lifetime(s)'
      BY <1>4 DEF Lifetime
    <3>2. Packets(s)'
      BY <1>4, NothingKept DEF Packets
    <3>3. Ending(s)'
      BY <1>4 DEF Ending
    <3> QED
      BY <2>3, <3>1, <3>2, <3>3
  <2> QED
    BY <2>2, <2>3
<1> QED
  BY <1>5, <1>6, <1>7 DEF ChatInv

LEMMA ChatStepInv == ChatInv /\ [ChatNext]_chatVars => ChatInv'
<1> SUFFICES ASSUME ChatInv, [ChatNext]_chatVars PROVE ChatInv'
  OBVIOUS
<1>1. CASE Publish
  BY <1>1, PublishStep
<1>2. CASE PublisherStep
  <2>1. ASSUME NEW s \in Stream, Discard(s) \/ Suppress(s) PROVE ChatInv'
    BY <2>1, PassOverStep
  <2>2. ASSUME NEW s \in Stream, Offer(s) PROVE ChatInv'
    BY <2>2, OfferStep
  <2>3. CASE DropOldest
    <3>1. pub.to \in Stream
      BY <2>3 DEF DropOldest, ChatInv, Publication
    <3> QED
      BY <2>3, <3>1, DropStep
  <2>4. CASE OfferAgain
    <3>1. pub.to \in Stream
      BY <2>4 DEF OfferAgain, ChatInv, Publication
    <3> QED
      BY <2>4, <3>1, OfferAgainStep
  <2> QED
    BY <1>2, <2>1, <2>2, <2>3, <2>4 DEF PublisherStep
<1>3. ASSUME NEW s \in Stream, Open(s) \/ AskEnds(s) \/ WorkerStep(s) \/ WriterStep(s) \/ Gone(s)
      PROVE  ChatInv'
  <2>1. CASE Write(s)
    BY <2>1, WriteStep
  <2>2. CASE Answer(s)
    BY <2>2, OverStep DEF Answer
  <2>3. CASE Gone(s) /\ gen[s] # "new"
    BY <2>3, OverStep DEF Gone
  <2>4. CASE Open(s) \/ AskEnds(s) \/ WorkerStep(s) \/ Connect(s) \/ Empty(s) \/ CheckCompleted(s)
             \/ (gen[s] = "new" /\ Gone(s))
    BY <2>4, ThreadStep
  <2> QED
    BY <1>3, <2>1, <2>2, <2>3, <2>4 DEF WriterStep
<1>4. CASE UNCHANGED chatVars
  <2>1. ChatTypeOK' /\ Publication'
    BY <1>4 DEF chatVars, sub, chatLoop, work, writer, ChatInv, ChatTypeOK, Publication
  <2>2. ASSUME NEW s \in Stream PROVE Lifetime(s)' /\ Packets(s)' /\ Ending(s)'
    BY <1>4, StreamKept DEF chatVars, sub, chatLoop, work, writer, Offered
  <2> QED
    BY <2>1, <2>2 DEF ChatInv
<1> QED
  BY <1>1, <1>2, <1>3, <1>4 DEF ChatNext

LEMMA ChatInvariant == ChatSpec => []ChatInv
BY ChatInitInv, ChatStepInv, PTL DEF ChatSpec

\* A queue never holds more than its limit, though room is made in it by another thread than
\* the one that reads it.
THEOREM ChatTypeCorrect == ChatSpec => []ChatTypeOK
<1>1. ChatInv => ChatTypeOK
  BY DEF ChatInv
<1> QED
  BY <1>1, ChatInvariant, PTL

\* The client is written what a full queue left, in order, with the newest last, and all of it
\* before the answer, however the three threads of each stream interleave.
THEOREM StoryAlwaysTold == ChatSpec => []StoryIsTold
<1>1. ChatInv => StoryIsTold
  <2> SUFFICES ASSUME ChatInv PROVE StoryIsTold
    OBVIOUS
  <2>1. AllBeforeAnswer
    BY DEF ChatInv, Ending, AllBeforeAnswer
  <2>2. ASSUME NEW s \in Stream
        PROVE  /\ Increasing(read[s] \o queue[s])
               /\ pub.to # s /\ recorded[s] # <<>> =>
                    /\ read[s] \o queue[s] # <<>>
                    /\ (read[s] \o queue[s])[Len(read[s] \o queue[s])] = recorded[s][Len(recorded[s])]
    <3>1. read[s] \in Seq(Nat) /\ queue[s] \in Seq(Nat) /\ Packets(s)
      BY PacketsAreNat DEF ChatInv, ChatTypeOK
    <3>2. /\ Increasing(read[s] \o queue[s])
          /\ \A x : EndsIn(read[s], queue[s], x) =>
               read[s] \o queue[s] # <<>> /\ (read[s] \o queue[s])[Len(read[s] \o queue[s])] = x
      BY <3>1, JoinedKeeps, Zenon DEF Packets
    <3>3. pub.to # s /\ recorded[s] # <<>> => EndsIn(read[s], queue[s], recorded[s][Len(recorded[s])])
      BY <3>1 DEF Packets
    <3> QED
      BY <3>2, <3>3, Zenon
  <2> QED
    BY <2>1, <2>2 DEF StoryIsTold, NewestKept
<1> QED
  BY <1>1, ChatInvariant, PTL

---------------------------------------------------------------------------
(* WebEvents *)

\* There is one dispatcher, once there is any; it may hold an event.
Dispatcher ==
  \/ ~started /\ hands = <<>>
  \/ started /\ Len(hands) = 1

Held == IF started /\ hands[1] # Nobody THEN 1 ELSE 0

\* What was accepted is kept, held or in the queue, all of it numbered in order.
Numbered ==
  /\ Len(history) <= seq /\ (history = <<>> => seq = 0)
  /\ \A i \in 1..Len(history) :
       history[i].id = seq - Len(history) + i /\ history[i].event = seq - Len(history) + i
  /\ Held = 1 => hands[1] = seq + 1
  /\ \A j \in 1..Len(buffer) : buffer[j] = seq + Held + j
  /\ accepted = seq + Held + Len(buffer)

\* An emitter under way stands for an event that may still be accepted.
InFlight == {e \in Emitter : at[e] # "idle"}

Supplied == IsFiniteSet(InFlight) /\ accepted + Cardinality(InFlight) <= emitted

\* What a client was shown and is about to be, in order; nothing it has passed is kept and
\* was not shown.
Reader(c) ==
  /\ from[c] <= last[c] /\ last[c] <= seq
  /\ phase[c] # "yield" => pending[c] = <<>>
  /\ phase[c] = "out" => got[c] = <<>>
  /\ phase[c] = "awake" => history # <<>>
  /\ Sorted(got[c], pending[c]) /\ Below(got[c], last[c] + 1) /\ Below(pending[c], last[c] + 1)
  /\ \A i \in from[c] + 1 .. last[c] : i \in Elements(got[c]) \cup Elements(pending[c]) \/ i < Oldest

WebInv ==
  /\ WebTypeOK /\ Dispatcher /\ Numbered /\ Supplied
  /\ \A c \in Client : Reader(c)

LEMMA EventsAreNat ==
  ASSUME NEW q \in Seq(1..MaxEvents)
  PROVE  q \in Seq(Nat) /\ Len(q) \in Nat /\ (q = <<>> <=> Len(q) = 0)
<1>1. q \in Seq(Nat)
  BY SeqMonotonic, WebConstants
<1> QED
  BY <1>1, SeqOfNat

\* The oldest and the newest id that are kept.
LEMMA KeptIds ==
  ASSUME WebTypeOK, Numbered
  PROVE  /\ Len(history) \in Nat /\ (history = <<>> <=> Len(history) = 0)
         /\ seq \in Nat /\ Newest = seq
         /\ Oldest = IF history = <<>> THEN 0 ELSE seq - Len(history) + 1
<1>1. history \in Seq([id : 1..MaxEvents, event : 1..MaxEvents]) /\ seq \in Nat
  BY WebConstants DEF WebTypeOK
<1>2. Len(history) \in Nat /\ (history # <<>> => Len(history) # 0)
  BY <1>1, EmptySeq, LenProperties
<1>3. CASE history = <<>>
  BY <1>1, <1>2, <1>3 DEF Newest, Oldest, Numbered
<1>4. CASE history # <<>>
  <2>1. 1 \in 1..Len(history) /\ Len(history) \in 1..Len(history) /\ Head(history) = history[1]
    BY <1>1, <1>2, <1>4
  <2>2. history[1].id = seq - Len(history) + 1 /\ history[Len(history)].id = seq - Len(history) + Len(history)
    BY <2>1 DEF Numbered
  <2> QED
    BY <1>1, <1>2, <1>4, <2>1, <2>2 DEF Newest, Oldest, Last
<1> QED
  BY <1>3, <1>4

LEMMA WebInitInv == WebInit => WebInv
<1> SUFFICES ASSUME WebInit PROVE WebInv
  OBVIOUS
<1> USE WebConstants DEF WebInit
<1>0. \A S : <<>> \in Seq(S) /\ Len(<<>>) = 0
  BY EmptySeq
<1>1. WebTypeOK
  <2>1. /\ hands \in Seq(1..MaxEvents \cup {Nobody}) /\ buffer \in Seq(1..MaxEvents)
        /\ history \in Seq([id : 1..MaxEvents, event : 1..MaxEvents])
        /\ Len(buffer) = 0 /\ Len(history) = 0
    BY <1>0
  <2>2. pending \in [Client -> Seq(1..MaxEvents)] /\ got \in [Client -> Seq(1..MaxEvents)]
    <3>1. <<>> \in Seq(1..MaxEvents)
      BY <1>0
    <3> QED
      BY <3>1
  <2>3. emitted \in 0..MaxEvents /\ accepted \in 0..MaxEvents /\ seq \in 0..MaxEvents
    OBVIOUS
  <2>4. /\ at \in [Emitter -> {"idle", "ensure", "put"}] /\ started \in BOOLEAN
        /\ phase \in [Client -> {"out", "check", "asleep", "awake", "yield"}]
    OBVIOUS
  <2>5. last \in [Client -> 0..MaxEvents] /\ from \in [Client -> 0..MaxEvents]
    <3>1. 0 \in 0..MaxEvents
      OBVIOUS
    <3> QED
      BY <3>1
  <2> QED
    BY <2>1, <2>2, <2>3, <2>4, <2>5 DEF WebTypeOK
<1>2. Dispatcher /\ Numbered
  BY <1>0 DEF Dispatcher, Numbered, Held
<1>3. Supplied
  <2>1. InFlight = {}
    BY DEF InFlight
  <2> QED
    BY <2>1, FS_EmptySet DEF Supplied
<1>4. ASSUME NEW c \in Client PROVE Reader(c)
  BY NothingKept DEF Reader
<1> QED
  BY <1>1, <1>2, <1>3, <1>4 DEF WebInv

\* A client to which nothing happens, but that it may be woken, while events are dispatched.
LEMMA ReaderKept ==
  ASSUME WebInv, NEW c \in Client,
         from'[c] = from[c], last'[c] = last[c], got'[c] = got[c], pending'[c] = pending[c],
         phase'[c] = phase[c] \/ (phase[c] = "asleep" /\ phase'[c] = "check"),
         seq \in Nat, seq' \in Nat, seq <= seq', Oldest \in Int, Oldest' \in Int, Oldest <= Oldest',
         history' = <<>> => history = <<>>
  PROVE  Reader(c)'
<1>1. Reader(c) /\ last[c] \in Nat /\ from[c] \in Nat
  BY WebConstants DEF WebInv, WebTypeOK
<1>2. from'[c] <= last'[c] /\ last'[c] <= seq'
  BY <1>1 DEF Reader
<1>3. \A i \in from'[c] + 1 .. last'[c] :
        i \in Elements(got'[c]) \cup Elements(pending'[c]) \/ i < Oldest'
  <2> SUFFICES ASSUME NEW i \in from[c] + 1 .. last[c]
               PROVE  i \in Elements(got[c]) \cup Elements(pending[c]) \/ i < Oldest'
    OBVIOUS
  <2>1. i \in Elements(got[c]) \cup Elements(pending[c]) \/ i < Oldest
    BY <1>1 DEF Reader
  <2> QED
    BY <1>1, <2>1
<1>4. Elements(got[c])' = Elements(got'[c]) /\ Elements(pending[c])' = Elements(pending'[c])
  BY DEF Elements
<1>5. /\ phase'[c] # "yield" => pending'[c] = <<>>
      /\ phase'[c] = "out" => got'[c] = <<>>
      /\ phase'[c] = "awake" => history' # <<>>
      /\ Sorted(got'[c], pending'[c])
      /\ Below(got'[c], last'[c] + 1) /\ Below(pending'[c], last'[c] + 1)
  BY <1>1 DEF Reader
<1> QED
  BY <1>2, <1>3, <1>4, <1>5 DEF Reader

LEMMA ReadersKept ==
  ASSUME WebInv, UNCHANGED <<history, seq, clients>>
  PROVE  \A c \in Client : Reader(c)'
<1>1. Oldest' = Oldest /\ Oldest \in Int /\ seq \in Nat
  <2>1. Len(history) \in Nat /\ seq \in Nat /\ Oldest = IF history = <<>> THEN 0 ELSE seq - Len(history) + 1
    BY KeptIds DEF WebInv
  <2> QED
    BY <2>1 DEF Oldest
<1> QED
  BY <1>1, ReaderKept DEF clients

\* An event is emitted: it is on its way, and the bound leaves room for it.
LEMMA EmitStep == ASSUME WebInv, NEW e \in Emitter, Emit(e) PROVE WebInv'
<1> USE WebConstants DEF WebInv
<1>1. /\ at[e] = "idle" /\ emitted < MaxEvents /\ emitted' = emitted + 1
      /\ UNCHANGED <<accepted, started, buffer, hands, history, seq, clients>>
      /\ \E l \in {"ensure", "put"} : at' = [at EXCEPT ![e] = l]
  BY DEF Emit, GoesOn
<1>2. WebTypeOK'
  BY <1>1 DEF WebTypeOK, clients
<1>3. Dispatcher' /\ Numbered'
  BY <1>1 DEF Dispatcher, Numbered, Held
<1>4. Supplied'
  <2>1. InFlight' = InFlight \cup {e} /\ e \notin InFlight
    BY <1>1 DEF InFlight, WebTypeOK
  <2>2. IsFiniteSet(InFlight') /\ Cardinality(InFlight') = Cardinality(InFlight) + 1
        /\ Cardinality(InFlight) \in Nat
    BY <2>1, FS_AddElement, FS_CardinalityType DEF Supplied
  <2> QED
    BY <1>1, <2>2 DEF Supplied, WebTypeOK
<1>5. \A c \in Client : Reader(c)'
  BY <1>1, ReadersKept
<1> QED
  BY <1>2, <1>3, <1>4, <1>5

\* The dispatcher is started, unless another emitter did.
LEMMA EnsureStep == ASSUME WebInv, NEW e \in Emitter, EnsureDispatcher(e) PROVE WebInv'
<1> USE WebConstants DEF WebInv
<1>1. /\ at[e] = "ensure" /\ at' = [at EXCEPT ![e] = "put"] /\ started' = TRUE
      /\ hands' = IF started THEN hands ELSE Append(hands, Nobody)
      /\ UNCHANGED <<emitted, accepted, buffer, history, seq, clients>>
  BY DEF EnsureDispatcher, GoesOn
<1>2. /\ hands' \in Seq(1..MaxEvents \cup {Nobody}) /\ Len(hands') = 1
      /\ Held' = Held /\ (Held' = 1 => hands'[1] = hands[1])
  <2>1. CASE started
    BY <1>1, <2>1 DEF Dispatcher, Held, WebTypeOK
  <2>2. CASE ~started
    <3>1. <<>> \in Seq(1..MaxEvents \cup {Nobody}) /\ Len(<<>>) = 0
      BY EmptySeq
    <3>2. hands' = Append(<<>>, Nobody)
      BY <1>1, <2>2 DEF Dispatcher
    <3>3. hands' \in Seq(1..MaxEvents \cup {Nobody}) /\ Len(hands') = 1
      BY <3>1, <3>2, AppendProperties
    <3>4. hands'[1] = Nobody
      BY <3>1, <3>2, AppendProperties
    <3>5. Held = 0 /\ Held' = 0
      BY <1>1, <2>2, <3>4 DEF Held
    <3> QED
      BY <3>3, <3>5
  <2> QED
    BY <2>1, <2>2 DEF WebTypeOK
<1>3. WebTypeOK'
  BY <1>1, <1>2 DEF WebTypeOK, clients
<1>4. Dispatcher' /\ Numbered'
  BY <1>1, <1>2 DEF Dispatcher, Numbered
<1>5. Supplied'
  <2>1. InFlight' = InFlight
    BY <1>1 DEF InFlight, WebTypeOK
  <2> QED
    BY <1>1, <2>1 DEF Supplied
<1>6. \A c \in Client : Reader(c)'
  BY <1>1, ReadersKept
<1> QED
  BY <1>3, <1>4, <1>5, <1>6

\* The queue takes the event, or refuses it.
LEMMA PutEventStep == ASSUME WebInv, NEW e \in Emitter, Put(e) PROVE WebInv'
<1> USE WebConstants DEF WebInv
<1>1. /\ at[e] = "put" /\ at' = [at EXCEPT ![e] = "idle"]
      /\ UNCHANGED <<emitted, started, hands, history, seq, clients>>
      /\ \/ /\ Len(buffer) < BufferLimit /\ accepted' = accepted + 1
            /\ buffer' = Append(buffer, accepted + 1)
         \/ UNCHANGED <<accepted, buffer>>
  BY DEF Put, GoesOn
<1>2. /\ e \in InFlight /\ InFlight' = InFlight \ {e} /\ IsFiniteSet(InFlight')
      /\ Cardinality(InFlight') + 1 = Cardinality(InFlight) /\ Cardinality(InFlight') \in Nat
  <2>1. e \in InFlight /\ InFlight' = InFlight \ {e}
    BY <1>1 DEF InFlight, WebTypeOK
  <2>2. /\ IsFiniteSet(InFlight') /\ Cardinality(InFlight') = Cardinality(InFlight) - 1
        /\ Cardinality(InFlight) \in Nat /\ Cardinality(InFlight') \in Nat
    BY <2>1, FS_RemoveElement, FS_CardinalityType DEF Supplied
  <2> QED
    BY <2>1, <2>2
<1>3. accepted \in Nat /\ accepted + 1 <= emitted /\ emitted <= MaxEvents /\ emitted \in Nat
      /\ accepted + 1 \in 1..MaxEvents
  BY <1>2 DEF Supplied, WebTypeOK
<1>4. Supplied'
  BY <1>1, <1>2, <1>3 DEF Supplied
<1>5. Dispatcher' /\ Held' = Held
  BY <1>1 DEF Dispatcher, Held
<1>6. /\ accepted' \in 0..MaxEvents /\ buffer' \in Seq(1..MaxEvents) /\ Len(buffer') <= BufferLimit
      /\ (\A j \in 1..Len(buffer') : buffer'[j] = seq + Held + j)
      /\ accepted' = seq + Held + Len(buffer')
  <2>1. CASE UNCHANGED <<accepted, buffer>>
    BY <2>1 DEF WebTypeOK, Numbered
  <2>2. CASE /\ Len(buffer) < BufferLimit /\ accepted' = accepted + 1
             /\ buffer' = Append(buffer, accepted + 1)
    <3>1. buffer \in Seq(1..MaxEvents) /\ buffer \in Seq(Nat) /\ Len(buffer) \in Nat
      BY EventsAreNat DEF WebTypeOK
    <3>2. buffer' \in Seq(1..MaxEvents)
      BY <1>3, <2>2, <3>1, AppendProperties
    <3>3. /\ Len(buffer') = Len(buffer) + 1
          /\ \A i \in 1..Len(buffer) : buffer'[i] = buffer[i]
          /\ \A i \in 1..Len(buffer') : i \in 1..Len(buffer) \/ (i = Len(buffer) + 1 /\ buffer'[i] = accepted + 1)
      BY <1>3, <2>2, <3>1, AppendOfNat
    <3>4. Held \in {0, 1} /\ seq \in Nat /\ accepted = seq + Held + Len(buffer)
      BY DEF Held, WebTypeOK, Numbered
    <3>5. ASSUME NEW j \in 1..Len(buffer') PROVE buffer'[j] = seq + Held + j
      <4>1. CASE j \in 1..Len(buffer)
        BY <3>3, <4>1 DEF Numbered
      <4>2. CASE j = Len(buffer) + 1 /\ buffer'[j] = accepted + 1
        BY <3>1, <3>4, <4>2
      <4> QED
        BY <3>3, <4>1, <4>2
    <3>6. accepted' = seq + Held + Len(buffer') /\ Len(buffer') <= BufferLimit
      BY <2>2, <3>1, <3>3, <3>4
    <3> QED
      BY <1>3, <2>2, <3>2, <3>5, <3>6
  <2> QED
    BY <1>1, <2>1, <2>2
<1>7. WebTypeOK'
  BY <1>1, <1>6 DEF WebTypeOK, clients
<1>8. Numbered'
  BY <1>1, <1>5, <1>6 DEF Numbered
<1>9. \A c \in Client : Reader(c)'
  BY <1>1, ReadersKept
<1> QED
  BY <1>4, <1>5, <1>7, <1>8, <1>9

\* The dispatcher takes the first event of the queue.
LEMMA TakeEventStep == ASSUME WebInv, NEW d \in 1..Len(hands), TakeEvent(d) PROVE WebInv'
<1> USE WebConstants DEF WebInv
<1>1. /\ hands[d] = Nobody /\ buffer # <<>>
      /\ hands' = [hands EXCEPT ![d] = Head(buffer)] /\ buffer' = Tail(buffer)
      /\ UNCHANGED <<emitted, accepted, at, started, history, seq, clients>>
  BY DEF TakeEvent
<1>2. started /\ Len(hands) = 1 /\ d = 1 /\ Held = 0
  <2>1. hands # <<>>
    BY EmptySeq
  <2>2. started /\ Len(hands) = 1
    BY <2>1 DEF Dispatcher
  <2> QED
    BY <1>1, <2>2 DEF Held
<1>3. /\ buffer \in Seq(1..MaxEvents) /\ Len(buffer) \in Nat /\ Len(buffer) # 0
      /\ Len(buffer) <= BufferLimit
  BY <1>1, EventsAreNat DEF WebTypeOK
<1>4. /\ Head(buffer) \in 1..MaxEvents /\ Head(buffer) = buffer[1]
      /\ buffer' \in Seq(1..MaxEvents) /\ Len(buffer') = Len(buffer) - 1
      /\ \A i \in 1..Len(buffer') : buffer'[i] = buffer[i + 1]
  BY <1>1, <1>3, HeadTailProperties
<1>5. /\ hands' \in Seq(1..MaxEvents \cup {Nobody}) /\ Len(hands') = 1 /\ hands'[1] = Head(buffer)
  <2>1. /\ hands \in Seq(1..MaxEvents \cup {Nobody}) /\ d \in 1..Len(hands)
        /\ Head(buffer) \in 1..MaxEvents \cup {Nobody}
    BY <1>4 DEF WebTypeOK
  <2>2. /\ [hands EXCEPT ![d] = Head(buffer)] \in Seq(1..MaxEvents \cup {Nobody})
        /\ Len([hands EXCEPT ![d] = Head(buffer)]) = Len(hands)
        /\ \A j \in 1..Len(hands) :
             [hands EXCEPT ![d] = Head(buffer)][j] = IF j = d THEN Head(buffer) ELSE hands[j]
    BY <2>1, ExceptSeq
  <2> QED
    BY <1>1, <1>2, <2>2
<1>6. Held' = 1 /\ Dispatcher'
  BY <1>1, <1>2, <1>4, <1>5 DEF Held, Dispatcher
<1>7. WebTypeOK'
  BY <1>1, <1>3, <1>4, <1>5 DEF WebTypeOK, clients
<1>8. seq \in Nat /\ accepted = seq + Len(buffer) /\ \A j \in 1..Len(buffer) : buffer[j] = seq + j
  <2>1. seq \in Nat
    BY DEF WebTypeOK
  <2> QED
    BY <1>2, <1>3, <2>1 DEF Numbered
<1>9. Numbered'
  <2>1. hands'[1] = seq' + 1
    BY <1>1, <1>3, <1>4, <1>5, <1>8
  <2>2. ASSUME NEW j \in 1..Len(buffer') PROVE buffer'[j] = seq' + 1 + j
    <3>1. j + 1 \in 1..Len(buffer) /\ buffer'[j] = buffer[j + 1]
      BY <1>3, <1>4
    <3> QED
      BY <1>1, <1>8, <3>1
  <2>3. accepted' = seq' + 1 + Len(buffer')
    BY <1>1, <1>3, <1>4, <1>8
  <2> QED
    BY <1>1, <1>6, <2>1, <2>2, <2>3 DEF Numbered
<1>10. Supplied'
  BY <1>1 DEF Supplied, InFlight
<1>11. \A c \in Client : Reader(c)'
  BY <1>1, ReadersKept
<1> QED
  BY <1>6, <1>7, <1>9, <1>10, <1>11

\* The event it holds is numbered and kept, and the oldest may go.
LEMMA DispatchStep == ASSUME WebInv, NEW d \in 1..Len(hands), Dispatch(d) PROVE WebInv'
<1> USE WebConstants DEF WebInv
<1> DEFINE all == Append(history, [id |-> seq + 1, event |-> hands[d]])
           Kind == [id : 1..MaxEvents, event : 1..MaxEvents]
<1>1. /\ hands[d] # Nobody /\ seq' = seq + 1
      /\ hands' = [hands EXCEPT ![d] = Nobody]
      /\ phase' = [c \in Client |-> IF phase[c] = "asleep" THEN "check" ELSE phase[c]]
      /\ UNCHANGED <<emitted, accepted, at, started, buffer, last, pending, got, from>>
      /\ history' = IF Len(all) > HistoryLimit THEN Tail(all) ELSE all
  BY DEF Dispatch, emission
<1>2. started /\ Len(hands) = 1 /\ d = 1 /\ Held = 1
  <2>1. hands # <<>>
    BY EmptySeq
  <2>2. started /\ Len(hands) = 1
    BY <2>1 DEF Dispatcher
  <2> QED
    BY <1>1, <2>2 DEF Held
<1>3. /\ hands' \in Seq(1..MaxEvents \cup {Nobody}) /\ Len(hands') = 1 /\ hands'[1] = Nobody
  <2>1. /\ hands \in Seq(1..MaxEvents \cup {Nobody}) /\ d \in 1..Len(hands)
        /\ Nobody \in 1..MaxEvents \cup {Nobody}
    BY DEF WebTypeOK
  <2>2. /\ [hands EXCEPT ![d] = Nobody] \in Seq(1..MaxEvents \cup {Nobody})
        /\ Len([hands EXCEPT ![d] = Nobody]) = Len(hands)
        /\ \A j \in 1..Len(hands) :
             [hands EXCEPT ![d] = Nobody][j] = IF j = d THEN Nobody ELSE hands[j]
    BY <2>1, ExceptSeq
  <2> QED
    BY <1>1, <1>2, <2>2
<1>4. Held' = 0 /\ Dispatcher'
  BY <1>1, <1>2, <1>3 DEF Held, Dispatcher
<1>5. /\ seq \in Nat /\ accepted = seq + 1 + Len(buffer) /\ Len(buffer) \in Nat
      /\ seq + 1 \in 1..MaxEvents /\ hands[d] = seq + 1
  <2>1. seq \in Nat /\ accepted <= MaxEvents /\ accepted \in Nat /\ Len(buffer) \in Nat
    BY EventsAreNat DEF WebTypeOK
  <2>2. accepted = seq + 1 + Len(buffer) /\ hands[d] = seq + 1
    BY <1>2 DEF Numbered
  <2> QED
    BY <2>1, <2>2
<1>0. seq' = seq + 1 /\ seq \in Nat
  BY <1>1, <1>5
<1>6. /\ history \in Seq(Kind) /\ Len(history) \in Nat /\ Len(history) <= HistoryLimit
      /\ Len(history) <= seq
      /\ \A i \in 1..Len(history) : history[i].id = seq - Len(history) + i
                                    /\ history[i].event = seq - Len(history) + i
  BY KeptIds DEF WebTypeOK, Numbered
<1>7. [id |-> seq + 1, event |-> hands[d]] \in Kind
  BY <1>5
<1>8. /\ all \in Seq(Kind) /\ Len(all) = Len(history) + 1
      /\ all[Len(history) + 1] = [id |-> seq + 1, event |-> hands[d]]
      /\ \A i \in 1..Len(history) : all[i] = history[i]
  <2>1. /\ all \in Seq(Kind) /\ Len(all) = Len(history) + 1
        /\ all[Len(history) + 1] = [id |-> seq + 1, event |-> hands[d]]
    BY <1>6, <1>7, AppendProperties
  <2>2. \A i \in 1..Len(history) : all[i] = history[i]
    BY <1>6, <1>7, AppendProperties
  <2> QED
    BY <2>1, <2>2
<1>9. ASSUME NEW i \in 1..Len(all)
      PROVE  all[i].id = seq - Len(history) + i /\ all[i].event = seq - Len(history) + i
  <2>1. CASE i \in 1..Len(history)
    BY <1>6, <1>8, <2>1
  <2>2. CASE i = Len(history) + 1
    BY <1>5, <1>6, <1>8, <2>2
  <2>3. Len(all) = Len(history) + 1 /\ Len(history) \in Nat
    BY <1>6, <1>8
  <2> QED
    BY <2>1, <2>2, <2>3
<1> HIDE DEF all
<1>10. /\ history' \in Seq(Kind) /\ Len(history') <= HistoryLimit
       /\ Len(history') \in 1..seq' /\ Len(history') <= Len(history) + 1
       /\ \A i \in 1..Len(history') : history'[i].id = seq' - Len(history') + i
                                      /\ history'[i].event = seq' - Len(history') + i
  <2>1. CASE Len(all) > HistoryLimit
    <3>1. all # <<>> /\ history' = Tail(all)
      BY <1>1, <1>6, <1>8, <2>1, EmptySeq
    <3>2. /\ history' \in Seq(Kind) /\ Len(history') = Len(all) - 1
          /\ \A i \in 1..Len(history') : history'[i] = all[i + 1]
      BY <1>8, <3>1, HeadTailProperties
    <3>3. Len(history') = Len(history) /\ Len(history') >= 1
      BY <1>6, <1>8, <2>1, <3>2
    <3>4. ASSUME NEW i \in 1..Len(history')
          PROVE  history'[i].id = seq' - Len(history') + i /\ history'[i].event = seq' - Len(history') + i
      <4>0. history'[i] = all[i + 1]
        BY <3>2
      <4>1. i + 1 \in 1..Len(all) /\ history'[i] = all[i + 1]
        <5>1. Len(all) = Len(history) + 1 /\ Len(history') = Len(history) /\ Len(history) \in Nat
          BY <1>6, <1>8, <3>3
        <5>2. i \in 1..Len(history)
          BY <5>1
        <5> QED
          BY <4>0, <5>1, <5>2
      <4>2. all[i + 1].id = seq - Len(history) + (i + 1) /\ all[i + 1].event = seq - Len(history) + (i + 1)
        BY <1>9, <4>1
      <4>3. seq - Len(history) + (i + 1) = seq' - Len(history') + i
        BY <1>0, <1>6, <3>3
      <4> QED
        BY <4>1, <4>2, <4>3
    <3>5. Len(history') \in 1..seq' /\ Len(history') <= Len(history) + 1 /\ Len(history') <= HistoryLimit
      BY <1>0, <1>6, <3>3
    <3> QED
      BY <3>2, <3>4, <3>5
  <2>2. CASE ~(Len(all) > HistoryLimit)
    <3>1. history' = all /\ Len(history') = Len(history) + 1
      BY <1>1, <1>8, <2>2
    <3>2. ASSUME NEW i \in 1..Len(history')
          PROVE  history'[i].id = seq' - Len(history') + i /\ history'[i].event = seq' - Len(history') + i
      <4>1. i \in 1..Len(all) /\ history'[i] = all[i]
        BY <3>1
      <4>2. all[i].id = seq - Len(history) + i /\ all[i].event = seq - Len(history) + i
        BY <1>9, <4>1
      <4>3. seq - Len(history) + i = seq' - Len(history') + i
        BY <1>0, <1>6, <3>1
      <4> QED
        BY <4>1, <4>2, <4>3
    <3>3. Len(history') \in 1..seq' /\ Len(history') <= Len(history) + 1 /\ Len(history') <= HistoryLimit
      BY <1>0, <1>6, <1>8, <2>2, <3>1
    <3> QED
      BY <1>8, <3>1, <3>2, <3>3
  <2> QED
    BY <2>1, <2>2
<1>11. WebTypeOK'
  <2>1. phase' \in [Client -> {"out", "check", "asleep", "awake", "yield"}]
    BY <1>1 DEF WebTypeOK
  <2>2. seq' \in 0..MaxEvents
    BY <1>1, <1>5
  <2> QED
    BY <1>1, <1>3, <1>10, <2>1, <2>2 DEF WebTypeOK
<1>12. history' # <<>>
  BY <1>10
<1>13. Numbered'
  <2>1. accepted' = seq' + Held' + Len(buffer')
    BY <1>1, <1>4, <1>5
  <2>2. ASSUME NEW j \in 1..Len(buffer') PROVE buffer'[j] = seq' + Held' + j
    <3>1. buffer[j] = seq + 1 + j
      BY <1>1, <1>2 DEF Numbered
    <3> QED
      BY <1>1, <1>4, <1>5, <3>1
  <2> QED
    BY <1>4, <1>10, <1>12, <2>1, <2>2 DEF Numbered
<1>14. Supplied'
  BY <1>1 DEF Supplied, InFlight
<1>15. ASSUME NEW c \in Client PROVE Reader(c)'
  <2>1. Oldest = IF history = <<>> THEN 0 ELSE seq - Len(history) + 1
    BY KeptIds
  <2>2. Oldest' = seq' - Len(history') + 1
    <3>1. Head(history') = history'[1]
      BY <1>10, <1>12
    <3>2. 1 \in 1..Len(history')
      BY <1>10
    <3>3. history'[1].id = seq' - Len(history') + 1
      BY <1>10, <3>2
    <3> QED
      BY <1>12, <3>1, <3>3 DEF Oldest
  <2>3. Oldest \in Int /\ Oldest' \in Int /\ Oldest <= Oldest' /\ seq' \in Nat /\ seq <= seq'
    <3>1. Len(history') \in Int /\ Len(history') <= Len(history) + 1 /\ seq' \in Nat /\ seq \in Nat
          /\ Len(history) \in Nat /\ Len(history') <= seq'
      BY <1>0, <1>6, <1>10
    <3> QED
      BY <1>0, <2>1, <2>2, <3>1
  <2>4. phase'[c] = phase[c] \/ (phase[c] = "asleep" /\ phase'[c] = "check")
    BY <1>1 DEF WebTypeOK
  <2> QED
    BY <1>1, <1>5, <1>12, <2>3, <2>4, ReaderKept
<1> QED
  BY <1>4, <1>11, <1>13, <1>14, <1>15

\* A client does something: the others see nothing of it.
LEMMA OneReader ==
  ASSUME WebInv, NEW c \in Client, UNCHANGED <<emission, hands, history, seq>>,
         phase' \in [Client -> {"out", "check", "asleep", "awake", "yield"}],
         last' \in [Client -> 0..MaxEvents], from' \in [Client -> 0..MaxEvents],
         pending' \in [Client -> Seq(1..MaxEvents)], got' \in [Client -> Seq(1..MaxEvents)],
         \A x \in Client \ {c} : /\ phase'[x] = phase[x] /\ last'[x] = last[x] /\ from'[x] = from[x]
                                 /\ pending'[x] = pending[x] /\ got'[x] = got[x],
         Reader(c)'
  PROVE  WebInv'
<1>1. WebTypeOK' /\ Dispatcher' /\ Numbered' /\ Supplied'
  BY DEF WebInv, WebTypeOK, Dispatcher, Numbered, Held, Supplied, InFlight, emission
<1>2. Oldest' = Oldest /\ Oldest \in Int /\ seq \in Nat
  <2>1. Len(history) \in Nat /\ seq \in Nat /\ Oldest = IF history = <<>> THEN 0 ELSE seq - Len(history) + 1
    BY KeptIds DEF WebInv
  <2> QED
    BY <2>1 DEF Oldest
<1>3. ASSUME NEW x \in Client \ {c} PROVE Reader(x)'
  BY <1>2, ReaderKept
<1> QED
  BY <1>1, <1>3 DEF WebInv

\* A client connects, or goes.
LEMMA ComeOrGoStep == ASSUME WebInv, NEW c \in Client, Subscribe(c) \/ Disconnect(c) PROVE WebInv'
<1> USE WebConstants
<1>1. WebTypeOK /\ Reader(c) /\ seq \in Nat /\ Newest = seq /\ seq \in 0..MaxEvents
  <2>1. WebTypeOK /\ Numbered /\ Reader(c)
    BY DEF WebInv
  <2>2. Newest = seq /\ seq \in Nat
    BY <2>1, KeptIds
  <2> QED
    BY <2>1, <2>2 DEF WebTypeOK
<1>2. PICK n \in 0..MaxEvents, p \in {"check", "out"} :
        /\ n <= seq
        /\ phase' = [phase EXCEPT ![c] = p]
        /\ last' = [last EXCEPT ![c] = n] /\ from' = [from EXCEPT ![c] = n]
        /\ UNCHANGED <<emission, hands, history, seq>>
        /\ got'[c] = <<>> /\ pending'[c] = <<>>
        /\ got' \in [Client -> Seq(1..MaxEvents)] /\ pending' \in [Client -> Seq(1..MaxEvents)]
        /\ \A x \in Client \ {c} : got'[x] = got[x] /\ pending'[x] = pending[x]
  <2>1. CASE Subscribe(c)
    <3>1. pending[c] = <<>> /\ got[c] = <<>>
      BY <1>1, <2>1 DEF Subscribe, Reader
    <3>2. /\ phase' = [phase EXCEPT ![c] = "check"] /\ UNCHANGED <<emission, hands, history, seq, pending, got>>
          /\ last' = [last EXCEPT ![c] = seq] /\ from' = [from EXCEPT ![c] = seq]
      BY <1>1, <2>1 DEF Subscribe
    <3> seq \in 0..MaxEvents
      BY <1>1
    <3> WITNESS seq \in 0..MaxEvents, "check" \in {"check", "out"}
    <3> QED
      BY <1>1, <3>1, <3>2 DEF WebTypeOK
  <2>2. CASE Disconnect(c)
    <3>1. /\ phase' = [phase EXCEPT ![c] = "out"]
          /\ pending' = [pending EXCEPT ![c] = <<>>] /\ got' = [got EXCEPT ![c] = <<>>]
          /\ last' = [last EXCEPT ![c] = 0] /\ from' = [from EXCEPT ![c] = 0]
          /\ UNCHANGED <<emission, hands, history, seq>>
      BY <2>2 DEF Disconnect
    <3>2. <<>> \in Seq(1..MaxEvents)
      BY EmptySeq
    <3>3. 0 \in 0..MaxEvents /\ 0 <= seq
      BY <1>1
    <3> WITNESS 0 \in 0..MaxEvents, "out" \in {"check", "out"}
    <3> QED
      BY <1>1, <3>1, <3>2, <3>3 DEF WebTypeOK
  <2> QED
    BY <2>1, <2>2
<1>3. /\ phase' \in [Client -> {"out", "check", "asleep", "awake", "yield"}]
      /\ last' \in [Client -> 0..MaxEvents] /\ from' \in [Client -> 0..MaxEvents]
      /\ phase'[c] \in {"check", "out"} /\ last'[c] = n /\ from'[c] = n
      /\ \A x \in Client \ {c} : phase'[x] = phase[x] /\ last'[x] = last[x] /\ from'[x] = from[x]
  BY <1>1, <1>2 DEF WebTypeOK
<1>4. Reader(c)'
  <2>1. from'[c] <= last'[c] /\ last'[c] <= seq' /\ \A i \in from'[c] + 1 .. last'[c] : FALSE
    BY <1>2, <1>3
  <2> QED
    BY <1>2, <1>3, <2>1, NothingKept DEF Reader
<1> QED
  BY <1>2, <1>3, <1>4, OneReader

\* A client looks whether there is anything new.
LEMMA LookStep == ASSUME WebInv, NEW c \in Client, Check(c) \/ Keepalive(c) PROVE WebInv'
<1>1. PICK p \in {"awake", "asleep", "check"} :
        /\ phase' = [phase EXCEPT ![c] = p] /\ phase[c] # "yield"
        /\ p = "awake" => Newest > last[c]
        /\ UNCHANGED <<emission, hands, history, seq, last, pending, got, from>>
  BY DEF Check, Keepalive
<1>2. WebTypeOK /\ Reader(c) /\ last[c] \in Nat
  BY WebConstants DEF WebInv, WebTypeOK
<1>3. p = "awake" => history # <<>>
  BY <1>1, <1>2 DEF Newest
<1>4. phase' \in [Client -> {"out", "check", "asleep", "awake", "yield"}] /\ phase'[c] = p
      /\ \A x \in Client \ {c} : phase'[x] = phase[x]
  BY <1>1, <1>2 DEF WebTypeOK
<1>5. Reader(c)'
  <2>1. Oldest' = Oldest /\ Elements(got[c])' = Elements(got[c]) /\ Elements(pending[c])' = Elements(pending[c])
    BY <1>1 DEF Oldest, Elements
  <2> QED
    BY <1>1, <1>2, <1>3, <1>4, <2>1 DEF Reader
<1> QED
  BY <1>1, <1>2, <1>4, <1>5, OneReader DEF WebTypeOK

\* Where the ids newer than a given one begin among those that are kept.
LEMMA SeenIs ==
  ASSUME WebTypeOK, Numbered, NEW since \in Nat, since <= seq, seq - Len(history) <= since
  PROVE  Seen(since) = since - (seq - Len(history))
<1> DEFINE k0 == since - (seq - Len(history))
           Splits(k) == \A i \in 1..Len(history) : history[i].id > since <=> i > k
<1>1. Len(history) \in Nat /\ seq \in Nat /\ k0 \in 0..Len(history)
  BY KeptIds
<1>2. ASSUME NEW i \in 1..Len(history) PROVE history[i].id > since <=> i > k0
  <2>1. history[i].id = seq - Len(history) + i
    BY DEF Numbered
  <2> QED
    BY <1>1, <2>1
<1>3. Seen(since) \in 0..Len(history) /\ Splits(Seen(since))
  <2>1. \E k \in 0..Len(history) : Splits(k)
    BY <1>1, <1>2
  <2>2. Seen(since) = CHOOSE k \in 0..Len(history) : Splits(k)
    BY DEF Seen
  <2> HIDE DEF Splits
  <2> QED
    BY <2>1, <2>2
<1> HIDE DEF k0
<1>4. ~(Seen(since) < k0)
  <2> SUFFICES ASSUME Seen(since) < k0 PROVE FALSE
    OBVIOUS
  <2>1. k0 \in 1..Len(history) /\ k0 > Seen(since)
    BY <1>1, <1>3
  <2>2. k0 > k0
    BY <1>2, <1>3, <2>1
  <2> QED
    BY <1>1, <2>2
<1>5. ~(k0 < Seen(since))
  <2> SUFFICES ASSUME k0 < Seen(since) PROVE FALSE
    OBVIOUS
  <2>1. Seen(since) \in 1..Len(history) /\ Seen(since) > k0
    BY <1>1, <1>3
  <2>2. Seen(since) > Seen(since)
    BY <1>2, <1>3, <2>1
  <2> QED
    BY <1>3, <2>2
<1>6. Seen(since) = k0
  BY <1>1, <1>3, <1>4, <1>5
<1> QED
  BY <1>6 DEF k0

\* The ids above one and up to another, in order.
LEMMA IdsAfter ==
  ASSUME NEW a \in Nat, NEW b \in Nat, a <= b, b <= MaxEvents, NEW q,
         q = [i \in 1 .. b - a |-> a + i]
  PROVE  /\ q \in Seq(1..MaxEvents) /\ Len(q) = b - a
         /\ \A i \in 1 .. b - a : q[i] = a + i
         /\ \A i \in a + 1 .. b : i \in Elements(q)
<1> USE WebConstants
<1>1. b - a \in Nat /\ \A i \in 1 .. b - a : a + i \in 1..MaxEvents
  OBVIOUS
<1>2. q \in [1 .. b - a -> 1..MaxEvents] /\ \A i \in 1 .. b - a : q[i] = a + i
  BY <1>1
<1>3. q \in Seq(1..MaxEvents) /\ Len(q) = b - a
  <2>1. DOMAIN q = 1 .. b - a
    BY <1>2
  <2>2. q \in Seq(1..MaxEvents)
    BY <1>1, <1>2
  <2>3. DOMAIN q = 1..Len(q) /\ Len(q) \in Nat
    BY <2>2, LenProperties
  <2> QED
    BY <1>1, <2>1, <2>2, <2>3
<1>4. ASSUME NEW i \in a + 1 .. b PROVE i \in Elements(q)
  <2>1. i - a \in 1 .. b - a /\ a + (i - a) = i
    BY <1>4
  <2> QED
    BY <1>2, <1>3, <2>1 DEF Elements
<1> QED
  BY <1>2, <1>3, <1>4

\* A client that woke takes what is newer than what it has, or than what is gone.
LEMMA SnapshotStep == ASSUME WebInv, NEW c \in Client, Snapshot(c) PROVE WebInv'
<1> USE WebConstants
<1> DEFINE since == IF last[c] < Oldest - 1 THEN Oldest - 1 ELSE last[c]
           ids   == [i \in 1 .. Len(history) - Seen(since) |-> history[Seen(since) + i].id]
<1>1. /\ phase[c] = "awake" /\ phase' = [phase EXCEPT ![c] = "yield"]
      /\ pending' = [pending EXCEPT ![c] = ids]
      /\ last' = [last EXCEPT ![c] = IF Seen(since) = Len(history) THEN since ELSE Newest]
      /\ UNCHANGED <<emission, hands, history, seq, got, from>>
  BY DEF Snapshot
<1>2. /\ WebTypeOK /\ Numbered /\ Reader(c) /\ seq \in Nat /\ seq <= MaxEvents
      /\ last[c] \in Nat /\ from[c] \in Nat /\ last[c] <= seq /\ from[c] <= last[c]
      /\ history # <<>> /\ got[c] \in Seq(1..MaxEvents)
  <2>1. WebTypeOK /\ Numbered /\ Reader(c)
    BY DEF WebInv
  <2>2. /\ seq \in Nat /\ seq <= MaxEvents /\ last[c] \in Nat /\ from[c] \in Nat
        /\ got[c] \in Seq(1..MaxEvents)
    BY <2>1 DEF WebTypeOK
  <2> QED
    BY <1>1, <2>1, <2>2 DEF Reader
<1>3. /\ Len(history) \in Nat /\ Len(history) # 0 /\ Newest = seq /\ Oldest = seq - Len(history) + 1
      /\ Len(history) <= seq
  <2>1. /\ Len(history) \in Nat /\ (history = <<>> <=> Len(history) = 0) /\ Newest = seq
        /\ Oldest = IF history = <<>> THEN 0 ELSE seq - Len(history) + 1
    BY <1>2, KeptIds
  <2> QED
    BY <1>2, <2>1 DEF Numbered
<1>4. since \in Nat /\ since <= seq /\ seq - Len(history) <= since /\ last[c] <= since
      /\ (last[c] < since => since < Oldest)
  BY <1>2, <1>3
<1> HIDE DEF since
<1>5. Seen(since) = since - (seq - Len(history))
  BY <1>2, <1>4, SeenIs
<1>6. ids = [i \in 1 .. seq - since |-> since + i]
  <2>1. Len(history) - Seen(since) = seq - since
    BY <1>2, <1>3, <1>4, <1>5
  <2>2. ASSUME NEW i \in 1 .. seq - since PROVE history[Seen(since) + i].id = since + i
    <3>1. Seen(since) + i \in 1..Len(history)
      BY <1>2, <1>3, <1>4, <1>5
    <3>2. history[Seen(since) + i].id = seq - Len(history) + (Seen(since) + i)
      BY <1>2, <3>1 DEF Numbered
    <3> QED
      BY <1>2, <1>3, <1>4, <1>5, <3>2
  <2> QED
    BY <2>1, <2>2
<1> HIDE DEF ids
<1>7. /\ ids \in Seq(1..MaxEvents) /\ Len(ids) = seq - since
      /\ \A i \in 1 .. seq - since : ids[i] = since + i
      /\ \A i \in since + 1 .. seq : i \in Elements(ids)
  BY <1>2, <1>4, <1>6, IdsAfter
<1>8. (IF Seen(since) = Len(history) THEN since ELSE Newest) = seq
  BY <1>2, <1>3, <1>4, <1>5
<1>9. /\ phase' \in [Client -> {"out", "check", "asleep", "awake", "yield"}]
      /\ last' \in [Client -> 0..MaxEvents] /\ pending' \in [Client -> Seq(1..MaxEvents)]
      /\ phase'[c] = "yield" /\ last'[c] = seq /\ pending'[c] = ids
      /\ \A x \in Client \ {c} : phase'[x] = phase[x] /\ last'[x] = last[x] /\ pending'[x] = pending[x]
  <2>1. seq \in 0..MaxEvents
    BY <1>2
  <2> QED
    BY <1>1, <1>2, <1>7, <1>8, <2>1 DEF WebTypeOK
<1>10. Sorted(got[c], ids) /\ Below(got[c], seq + 1) /\ Below(ids, seq + 1)
  <2>1. Increasing(got[c]) /\ Below(got[c], last[c] + 1)
    BY <1>2 DEF Reader, Sorted
  <2>2. ASSUME NEW i \in 1..Len(got[c]) PROVE got[c][i] \in Nat /\ got[c][i] < since + 1
    <3>1. got[c][i] \in Nat /\ got[c][i] < last[c] + 1
      BY <1>2, <2>1, EventsAreNat, ElementOfSeq DEF Below
    <3>2. \A x, m, n \in Nat : x < m + 1 /\ m <= n => x < n + 1
      OBVIOUS
    <3> QED
      BY <1>2, <1>4, <3>1, <3>2
  <2>3. Increasing(ids)
    <3> SUFFICES ASSUME NEW i \in 1..Len(ids), NEW j \in 1..Len(ids), i < j PROVE ids[i] < ids[j]
      BY DEF Increasing
    <3>1. ids[i] = since + i /\ ids[j] = since + j
      BY <1>7
    <3> QED
      BY <1>4, <3>1
  <2>4. ASSUME NEW i \in 1..Len(ids) PROVE since < ids[i] /\ ids[i] < seq + 1
    <3>1. ids[i] = since + i /\ i \in 1 .. seq - since
      BY <1>7
    <3> QED
      BY <1>2, <1>4, <3>1
  <2>5. ASSUME NEW i \in 1..Len(got[c]), NEW j \in 1..Len(ids) PROVE got[c][i] < ids[j]
    <3>1. ids[j] = since + j /\ j \in Nat \ {0}
      BY <1>7
    <3>2. \A x, m, n \in Nat : x < m + 1 /\ n # 0 => x < m + n
      OBVIOUS
    <3> QED
      BY <1>4, <2>2, <3>1, <3>2
  <2>6. ASSUME NEW i \in 1..Len(got[c]) PROVE got[c][i] < seq + 1
    <3>1. \A x, m, n \in Nat : x < m + 1 /\ m <= n => x < n + 1
      OBVIOUS
    <3> QED
      BY <1>2, <1>4, <2>2, <3>1
  <2> QED
    BY <2>1, <2>3, <2>4, <2>5, <2>6 DEF Sorted, Below
<1>11. ASSUME NEW i \in from[c] + 1 .. seq PROVE i \in Elements(got[c]) \cup Elements(ids) \/ i < Oldest
  <2>1. CASE i \in since + 1 .. seq
    BY <1>7, <2>1
  <2>2. CASE i \in last[c] + 1 .. since
    BY <1>2, <1>3, <1>4, <2>2
  <2>3. CASE i \in from[c] + 1 .. last[c]
    <3>1. pending[c] = <<>> /\ Elements(pending[c]) = {}
      BY <1>1, <1>2, NothingKept DEF Reader
    <3> QED
      BY <1>2, <2>3, <3>1 DEF Reader
  <2> QED
    BY <1>2, <1>4, <2>1, <2>2, <2>3
<1>12. Reader(c)'
  <2>1. Oldest' = Oldest /\ Elements(got[c])' = Elements(got[c]) /\ Elements(pending[c])' = Elements(ids)
    BY <1>1, <1>9 DEF Oldest, Elements
  <2>2. from'[c] = from[c] /\ seq' = seq /\ got'[c] = got[c]
    BY <1>1
  <2> QED
    BY <1>2, <1>9, <1>10, <1>11, <2>1, <2>2 DEF Reader
<1> QED
  BY <1>1, <1>2, <1>9, <1>12, OneReader DEF WebTypeOK

LEMMA AppendEvent ==
  ASSUME NEW q \in Seq(1..MaxEvents), NEW n \in 1..MaxEvents
  PROVE  Append(q, n) \in Seq(1..MaxEvents)
BY AppendProperties

\* A client is shown the next event it took, or is through with them.
LEMMA YieldStep == ASSUME WebInv, NEW c \in Client, Yield(c) PROVE WebInv'
<1> USE WebConstants
<1>1. /\ WebTypeOK /\ Reader(c) /\ phase[c] = "yield" /\ last[c] \in Nat
      /\ got[c] \in Seq(1..MaxEvents) /\ pending[c] \in Seq(1..MaxEvents)
      /\ got[c] \in Seq(Nat) /\ pending[c] \in Seq(Nat)
      /\ UNCHANGED <<emission, hands, history, seq, last, from>>
  <2>1. WebTypeOK /\ Reader(c)
    BY DEF WebInv
  <2>2. last[c] \in Nat /\ got[c] \in Seq(1..MaxEvents) /\ pending[c] \in Seq(1..MaxEvents)
    BY <2>1 DEF WebTypeOK
  <2> QED
    BY <2>1, <2>2, EventsAreNat DEF Yield
<1>2. CASE /\ pending[c] # <<>>
           /\ got' = [got EXCEPT ![c] = Append(got[c], Head(pending[c]))]
           /\ pending' = [pending EXCEPT ![c] = Tail(pending[c])] /\ UNCHANGED phase
  <2>1. Head(pending[c]) \in 1..MaxEvents /\ Tail(pending[c]) \in Seq(1..MaxEvents)
    BY <1>1, <1>2, HeadTailProperties
  <2>2. Append(got[c], Head(pending[c])) \in Seq(1..MaxEvents)
    BY <1>1, <2>1, AppendEvent
  <2>3. /\ got' \in [Client -> Seq(1..MaxEvents)] /\ pending' \in [Client -> Seq(1..MaxEvents)]
        /\ got'[c] = Append(got[c], Head(pending[c])) /\ pending'[c] = Tail(pending[c])
        /\ \A x \in Client \ {c} : got'[x] = got[x] /\ pending'[x] = pending[x]
    BY <1>1, <1>2, <2>1, <2>2 DEF WebTypeOK
  <2>4. /\ Sorted(got[c], pending[c]) /\ Below(got[c], last[c] + 1) /\ Below(pending[c], last[c] + 1)
        /\ last[c] + 1 \in Nat
    BY <1>1 DEF Reader
  <2>5. /\ Sorted(got'[c], pending'[c])
        /\ Below(got'[c], last[c] + 1) /\ Below(pending'[c], last[c] + 1)
        /\ Elements(got'[c]) \cup Elements(pending'[c]) = Elements(got[c]) \cup Elements(pending[c])
    <3>1. /\ Sorted(Append(got[c], Head(pending[c])), Tail(pending[c]))
          /\ \A n \in Nat : Below(got[c], n) /\ Below(pending[c], n)
               => Below(Tail(pending[c]), n) /\ Below(Append(got[c], Head(pending[c])), n)
          /\ Elements(pending[c]) = Elements(Tail(pending[c])) \cup {Head(pending[c])}
          /\ Elements(Append(got[c], Head(pending[c]))) = Elements(got[c]) \cup {Head(pending[c])}
      BY <1>1, <1>2, <2>4, TakeKeeps
    <3> QED
      BY <2>3, <2>4, <3>1
  <2>6. Reader(c)'
    <3>1. /\ Oldest' = Oldest /\ Elements(got[c])' = Elements(got'[c])
          /\ Elements(pending[c])' = Elements(pending'[c])
      BY <1>1 DEF Oldest, Elements
    <3>2. phase'[c] = "yield" /\ last'[c] = last[c] /\ from'[c] = from[c] /\ seq' = seq
      BY <1>1, <1>2
    <3>3. ASSUME NEW i \in from[c] + 1 .. last[c]
          PROVE  i \in Elements(got'[c]) \cup Elements(pending'[c]) \/ i < Oldest
      BY <1>1, <2>5 DEF Reader
    <3>4. from[c] <= last[c] /\ last[c] <= seq
      BY <1>1 DEF Reader
    <3> QED
      BY <2>5, <3>1, <3>2, <3>3, <3>4 DEF Reader
  <2> QED
    BY <1>1, <1>2, <2>3, <2>6, OneReader DEF WebTypeOK
<1>3. CASE /\ pending[c] = <<>> /\ phase' = [phase EXCEPT ![c] = "check"] /\ UNCHANGED <<got, pending>>
  <2>1. /\ phase' \in [Client -> {"out", "check", "asleep", "awake", "yield"}] /\ phase'[c] = "check"
        /\ \A x \in Client \ {c} : phase'[x] = phase[x]
    BY <1>1, <1>3 DEF WebTypeOK
  <2>2. Reader(c)'
    <3>1. Oldest' = Oldest /\ Elements(got[c])' = Elements(got[c]) /\ Elements(pending[c])' = Elements(pending[c])
      BY <1>1, <1>3 DEF Oldest, Elements
    <3> QED
      BY <1>1, <1>3, <2>1, <3>1 DEF Reader
  <2> QED
    BY <1>1, <1>3, <2>1, <2>2, OneReader DEF WebTypeOK
<1> QED
  BY <1>2, <1>3 DEF Yield

LEMMA WebStepInv == WebInv /\ [WebNext]_webVars => WebInv'
<1> SUFFICES ASSUME WebInv, [WebNext]_webVars PROVE WebInv'
  OBVIOUS
<1>1. CASE \E e \in Emitter : Emit(e) \/ EmitterStep(e)
  BY <1>1, EmitStep, EnsureStep, PutEventStep DEF EmitterStep
<1>2. CASE \E d \in 1..Len(hands) : DispatcherStep(d)
  BY <1>2, TakeEventStep, DispatchStep DEF DispatcherStep
<1>3. CASE \E c \in Client : Subscribe(c) \/ ClientStep(c) \/ Keepalive(c) \/ Disconnect(c)
  BY <1>3, ComeOrGoStep, LookStep, SnapshotStep, YieldStep DEF ClientStep
<1>4. CASE UNCHANGED webVars
  <2>1. WebTypeOK' /\ Dispatcher' /\ Numbered' /\ Supplied'
    BY <1>4 DEF WebInv, WebTypeOK, Dispatcher, Numbered, Held, Supplied, InFlight, webVars, emission, clients
  <2>2. \A c \in Client : Reader(c)'
    BY <1>4, ReadersKept DEF webVars
  <2> QED
    BY <2>1, <2>2 DEF WebInv
<1> QED
  BY <1>1, <1>2, <1>3, <1>4 DEF WebNext

LEMMA WebInvariant == WebSpec => []WebInv
BY WebInitInv, WebStepInv, PTL DEF WebSpec

\* Neither the queue of events nor the history outgrows its limit, whoever puts and takes.
THEOREM WebTypeCorrect == WebSpec => []WebTypeOK
<1>1. WebInv => WebTypeOK
  BY DEF WebInv
<1> QED
  BY <1>1, WebInvariant, PTL

LEMMA ElementsOfJoined ==
  ASSUME NEW r \in Seq(Nat), NEW q \in Seq(Nat), NEW x \in Elements(r) \cup Elements(q)
  PROVE  Contains(r \o q, x)
<1>1. /\ Len(r \o q) = Len(r) + Len(q)
      /\ \A i \in 1 .. Len(r) + Len(q) : (r \o q)[i] = IF i <= Len(r) THEN r[i] ELSE q[i - Len(r)]
  BY ConcatProperties
<1>2. Len(r) \in Nat /\ Len(q) \in Nat
  BY SeqOfNat
<1>3. CASE x \in Elements(r)
  <2>1. PICK i \in 1..Len(r) : x = r[i]
    BY <1>3 DEF Elements
  <2>2. i \in 1..Len(r \o q) /\ (r \o q)[i] = x
    BY <1>1, <1>2, <2>1
  <2> QED
    BY <2>2 DEF Contains
<1>4. CASE x \in Elements(q)
  <2>1. PICK i \in 1..Len(q) : x = q[i]
    BY <1>4 DEF Elements
  <2>2. /\ Len(r) + i \in 1 .. Len(r) + Len(q) /\ ~(Len(r) + i <= Len(r))
        /\ (Len(r) + i) - Len(r) = i
    BY <1>2
  <2>3. Len(r) + i \in 1..Len(r \o q) /\ (r \o q)[Len(r) + i] = x
    BY <1>1, <2>1, <2>2
  <2> QED
    BY <2>3 DEF Contains
<1> QED
  BY <1>3, <1>4

\* However the emitters race to start the dispatcher, events keep the order in which the queue
\* took them and have one id each; and a client is shown every id in order, once, but for those
\* the history had dropped before it came to read them.
THEOREM EventsAlwaysKeepOrder == WebSpec => []EventsKeepOrder
<1>1. WebInv => EventsKeepOrder
  <2> SUFFICES ASSUME WebInv PROVE EventsKeepOrder
    OBVIOUS
  <2>1. /\ WebTypeOK /\ Numbered /\ Dispatcher /\ Len(history) \in Nat /\ seq \in Nat
        /\ Len(history) <= seq /\ Held \in {0, 1}
    BY KeptIds DEF WebInv, Numbered, Held
  <2>2. Len(buffer) \in Nat
    BY <2>1, EventsAreNat DEF WebTypeOK
  <2>3. InOrder
    <3> DEFINE shown == [i \in 1..Len(history) |-> history[i].event]
               kept  == {d \in 1..Len(hands) : hands[d] # Nobody}
    <3>1. Len(shown) = Len(history) /\ \A i \in 1..Len(history) : shown[i] = seq - Len(history) + i
      <4>1. \A i \in 1..Len(history) : shown[i] = seq - Len(history) + i
        BY <2>1 DEF Numbered
      <4>2. DOMAIN shown = 1..Len(history)
        OBVIOUS
      <4>3. shown \in Seq(Int)
        BY <2>1, <4>1
      <4>4. DOMAIN shown = 1..Len(shown) /\ Len(shown) \in Nat
        BY <4>3, LenProperties
      <4> QED
        BY <2>1, <4>1, <4>2, <4>4
    <3>2. \A j \in 1..Len(buffer) : buffer[j] = seq + Held + j
      BY <2>1 DEF Numbered
    <3>3. ASSUME NEW d \in kept PROVE d = 1 /\ Held = 1 /\ hands[d] = seq + 1
      <4>1. started /\ Len(hands) = 1 /\ d = 1
        BY <2>1, EmptySeq DEF Dispatcher
      <4> QED
        BY <2>1, <4>1 DEF Held, Numbered
    <3> HIDE DEF shown, kept
    <3>4. Ascending(shown)
      BY <2>1, <3>1 DEF Ascending
    <3>5. Ascending(buffer)
      BY <2>1, <2>2, <3>2 DEF Ascending
    <3>6. \A i \in 1..Len(shown), j \in 1..Len(buffer) : shown[i] < buffer[j]
      BY <2>1, <2>2, <3>1, <3>2
    <3>7. ASSUME NEW d \in kept
          PROVE  /\ \A i \in 1..Len(shown) : shown[i] < hands[d]
                 /\ \A j \in 1..Len(buffer) : hands[d] < buffer[j]
      BY <2>1, <2>2, <3>1, <3>2, <3>3
    <3>8. \A d, e \in kept : d = e
      BY <3>3
    <3> QED
      BY <3>4, <3>5, <3>6, <3>7, <3>8 DEF InOrder, shown, kept
  <2>4. ASSUME NEW c \in Client
        PROVE  /\ Ascending(got[c] \o pending[c])
               /\ \A i \in from[c] + 1 .. last[c] : Contains(got[c] \o pending[c], i) \/ i < Oldest
    <3>1. got[c] \in Seq(Nat) /\ pending[c] \in Seq(Nat) /\ Reader(c)
      BY <2>1, EventsAreNat DEF WebInv, WebTypeOK
    <3>2. Increasing(got[c] \o pending[c])
      BY <3>1, JoinedKeeps DEF Reader
    <3>3. ASSUME NEW i \in from[c] + 1 .. last[c], ~(i < Oldest) PROVE Contains(got[c] \o pending[c], i)
      <4>1. i \in Elements(got[c]) \cup Elements(pending[c])
        BY <3>1, <3>3 DEF Reader
      <4> QED
        BY <3>1, <4>1, ElementsOfJoined
    <3> QED
      BY <3>2, <3>3 DEF Ascending, Increasing
  <2> QED
    BY <2>3, <2>4 DEF EventsKeepOrder, ShownOnce
<1> QED
  BY <1>1, WebInvariant, PTL
=============================================================================
