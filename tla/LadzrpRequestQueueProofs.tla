----------------------- MODULE LadzrpRequestQueueProofs -----------------------
(***************************************************************************)
(* Proofs about LadzrpRequestQueue, for any packets, lengths, timeouts and *)
(* bounds.  Erasing from the vector is what needs care: RemainingFacts     *)
(* says what is left and in which order, and everything else follows from  *)
(* the three things that ever happen to the queue: entries are given up,   *)
(* one is handed out, one is queued.                                       *)
(***************************************************************************)
EXTENDS LadzrpRequestQueue, FiniteSetTheorems, WellFoundedInduction, TLAPS

(***************************************************************************)
(* A property that fails for some number fails for a least one.            *)
(***************************************************************************)
LEMMA FirstFailure ==
    ASSUME NEW Fails \in SUBSET Nat, Fails # {}
    PROVE  \E n \in Fails : n = 0 \/ (n - 1 \in Nat /\ n - 1 \notin Fails)
<1> DEFINE R == OpToRel(<, Nat)
<1>1. IsWellFoundedOn(R, Nat)
  BY NatLessThanWellFounded
<1>2. \A x, y \in Nat : x < y => <<x, y>> \in R
  BY DEF OpToRel
<1> HIDE DEF R
<1>3. PICK n \in Fails : \A m \in Fails : ~(<<m, n>> \in R)
  BY <1>1, WFMin
<1>4. n \in Nat /\ (n # 0 => n - 1 \in Nat /\ n - 1 < n)
  OBVIOUS
<1> QED
  BY <1>2, <1>3, <1>4

-----------------------------------------------------------------------------
(* Erasing from the vector.                                                *)

\* g tells, for every n up to k, what is left of the first n entries.
LeftUpTo(g, q, S, k) ==
    g = [n \in 0..k |-> IF n = 0 THEN <<>>
                        ELSE IF n \in S THEN Append(g[n - 1], q[n])
                        ELSE g[n - 1]]

(***************************************************************************)
(* The loop that erases has a result: Remaining is what it leaves after    *)
(* the last entry.                                                         *)
(***************************************************************************)
LEMMA ErasingEnds ==
    ASSUME NEW E, NEW q \in Seq(E), NEW S
    PROVE  \E g : LeftUpTo(g, q, S, Len(q)) /\ Remaining(q, S) = g[Len(q)]
<1> DEFINE Fails == {k \in Nat : ~ \E g : LeftUpTo(g, q, S, k)}
<1>1. 0 \notin Fails
  <2>1. LeftUpTo([n \in 0..0 |-> <<>>], q, S, 0)
    BY DEF LeftUpTo
  <2> QED
    BY <2>1
<1>2. ASSUME NEW k \in Nat, k # 0, k - 1 \in Nat, k - 1 \notin Fails
      PROVE  k \notin Fails
  <2>1. PICK g : LeftUpTo(g, q, S, k - 1)
    BY <1>2
  <2> DEFINE next == IF k \in S THEN Append(g[k - 1], q[k]) ELSE g[k - 1]
             h == [n \in 0..k |-> IF n = k THEN next ELSE g[n]]
  <2>2. \A n \in 0..(k - 1) :
           g[n] = IF n = 0 THEN <<>>
                  ELSE IF n \in S THEN Append(g[n - 1], q[n])
                  ELSE g[n - 1]
    BY <2>1 DEF LeftUpTo
  <2>3. \A n \in 0..k : n # 0 => n - 1 \in 0..k /\ n - 1 # k /\ (n # k => n \in 0..(k - 1))
    BY <1>2
  <2>4. \A n \in 0..k : h[n] = IF n = k THEN next ELSE g[n]
    OBVIOUS
  <2> HIDE DEF next
  <2>5. \A n \in 0..k :
           h[n] = IF n = 0 THEN <<>>
                  ELSE IF n \in S THEN Append(h[n - 1], q[n])
                  ELSE h[n - 1]
    <3> TAKE n \in 0..k
    <3>1. CASE n = k
      BY <1>2, <2>3, <2>4, <3>1 DEF next
    <3>2. CASE n # k /\ n # 0
      BY <2>2, <2>3, <2>4, <3>2
    <3>3. CASE n # k /\ n = 0
      <4>1. n \in 0..(k - 1)
        BY <1>2, <3>3
      <4> QED
        BY <2>2, <2>4, <3>3, <4>1
    <3> QED
      BY <3>1, <3>2, <3>3
  <2>6. LeftUpTo(h, q, S, k)
    BY <2>5 DEF LeftUpTo
  <2> QED
    BY <2>6
<1>3. Len(q) \notin Fails
  <2>1. Len(q) \in Nat
    OBVIOUS
  <2> HIDE DEF Fails
  <2>2. Fails \in SUBSET Nat
    BY DEF Fails
  <2> QED
    BY <1>1, <1>2, <2>1, <2>2, FirstFailure
<1>4. \E g : LeftUpTo(g, q, S, Len(q))
  BY <1>3
<1> DEFINE left == CHOOSE g : LeftUpTo(g, q, S, Len(q))
<1>5. LeftUpTo(left, q, S, Len(q))
  BY <1>4
<1>6. Remaining(q, S) = left[Len(q)]
  BY DEF Remaining, LeftUpTo
<1> QED
  BY <1>5, <1>6

\* r is what is left of the first k entries, and f says where its entries stood.
IsWhatIsLeft(r, f, q, S, k) ==
    /\ f \in [1..Len(r) -> S \intersect (1..k)]
    /\ \A i \in 1..Len(r) : r[i] = q[f[i]]
    /\ \A i, j \in 1..Len(r) : i < j => f[i] < f[j]
    /\ \A p \in S \intersect (1..k) : \E i \in 1..Len(r) : f[i] = p

(***************************************************************************)
(* What is left are the entries that were not to be erased, all of them,   *)
(* each once, in their order.                                              *)
(***************************************************************************)
LEMMA RemainingFacts ==
    ASSUME NEW E, NEW q \in Seq(E), NEW S
    PROVE  /\ Remaining(q, S) \in Seq(E)
           /\ \E f : IsWhatIsLeft(Remaining(q, S), f, q, S, Len(q))
<1>1. PICK g : LeftUpTo(g, q, S, Len(q)) /\ Remaining(q, S) = g[Len(q)]
  BY ErasingEnds
<1>2. /\ Len(q) \in Nat /\ 0 \in 0..Len(q) /\ g[0] = <<>>
      /\ \A n \in 1..Len(q) : /\ n - 1 \in 0..Len(q) /\ q[n] \in E
                              /\ g[n] = IF n \in S THEN Append(g[n - 1], q[n]) ELSE g[n - 1]
  <2>1. \A n \in 0..Len(q) :
           g[n] = IF n = 0 THEN <<>>
                  ELSE IF n \in S THEN Append(g[n - 1], q[n])
                  ELSE g[n - 1]
    BY <1>1 DEF LeftUpTo
  <2>2. Len(q) \in Nat /\ \A n \in 1..Len(q) : q[n] \in E /\ n \in 0..Len(q) /\ n # 0
    OBVIOUS
  <2>3. 0 \in 0..Len(q) /\ \A n \in 1..Len(q) : n - 1 \in 0..Len(q)
    BY <2>2
  <2> QED
    BY <2>1, <2>2, <2>3
<1> DEFINE Done(k) == g[k] \in Seq(E) /\ \E f : IsWhatIsLeft(g[k], f, q, S, k)
           Fails == {k \in 0..Len(q) : ~Done(k)}
<1>3. Done(0)
  <2>1. IsWhatIsLeft(<<>>, [i \in {} |-> 0], q, S, 0)
    BY DEF IsWhatIsLeft
  <2> QED
    BY <1>2, <2>1
<1>4. ASSUME NEW k \in 1..Len(q), Done(k - 1)
      PROVE  Done(k)
  <2>1. PICK f : IsWhatIsLeft(g[k - 1], f, q, S, k - 1)
    BY <1>4
  <2> DEFINE r == g[k - 1]
             more == Append(r, q[k])
             f2 == [i \in 1..(Len(r) + 1) |-> IF i = Len(r) + 1 THEN k ELSE f[i]]
  <2>2. r \in Seq(E) /\ Len(r) \in Nat /\ q[k] \in E /\ k \in Nat
    BY <1>2, <1>4
  <2> HIDE DEF r
  <2>3. CASE k \notin S
    <3>1. g[k] = r
      BY <1>2, <2>3 DEF r
    <3>2. S \intersect (1..k) = S \intersect (1..(k - 1))
      BY <2>2, <2>3
    <3>3. IsWhatIsLeft(r, f, q, S, k)
      BY <2>1, <3>2 DEF IsWhatIsLeft, r
    <3> QED
      BY <2>2, <3>1, <3>3
  <2>4. CASE k \in S
    <3>1. g[k] = more
      BY <1>2, <2>4 DEF r
    <3>2. /\ more \in Seq(E) /\ Len(more) = Len(r) + 1 /\ more[Len(r) + 1] = q[k]
          /\ \A i \in 1..Len(r) : more[i] = r[i]
      BY <2>2
    <3> HIDE DEF more
    <3>3. S \intersect (1..k) = (S \intersect (1..(k - 1))) \union {k}
      BY <2>2, <2>4
    <3>4. /\ \A i \in 1..Len(r) : /\ f[i] \in S \intersect (1..(k - 1)) /\ f[i] \in Int
                                  /\ f[i] < k /\ r[i] = q[f[i]]
          /\ \A i, j \in 1..Len(r) : i < j => f[i] < f[j]
          /\ \A p \in S \intersect (1..(k - 1)) : \E i \in 1..Len(r) : f[i] = p
      BY <2>1, <2>2 DEF IsWhatIsLeft, r
    <3>5. /\ f2[Len(r) + 1] = k
          /\ \A i \in 1..Len(r) : f2[i] = f[i] /\ i \in 1..(Len(r) + 1)
          /\ \A i \in 1..(Len(r) + 1) : i \in 1..Len(r) \/ i = Len(r) + 1
          /\ Len(r) + 1 \in 1..(Len(r) + 1)
          /\ DOMAIN f2 = 1..(Len(r) + 1)
      BY <2>2
    <3>6. f2 \in [1..(Len(r) + 1) -> S \intersect (1..k)]
      BY <2>2, <3>3, <3>4, <3>5
    <3> HIDE DEF f2
    <3>7. \A i \in 1..(Len(r) + 1) : more[i] = q[f2[i]]
      BY <3>2, <3>4, <3>5
    <3>8. ASSUME NEW i \in 1..(Len(r) + 1), NEW j \in 1..(Len(r) + 1), i < j
          PROVE  f2[i] < f2[j]
      <4>1. i \in 1..Len(r)
        BY <2>2, <3>8
      <4>2. CASE j = Len(r) + 1
        BY <3>4, <3>5, <4>1, <4>2
      <4>3. CASE j \in 1..Len(r)
        BY <3>4, <3>5, <3>8, <4>1, <4>3
      <4> QED
        BY <3>5, <4>2, <4>3
    <3>9. \A p \in S \intersect (1..k) : \E i \in 1..(Len(r) + 1) : f2[i] = p
      BY <3>3, <3>4, <3>5
    <3>10. IsWhatIsLeft(more, f2, q, S, k)
      BY <3>2, <3>6, <3>7, <3>8, <3>9 DEF IsWhatIsLeft
    <3> QED
      BY <3>1, <3>2, <3>10
  <2> QED
    BY <2>3, <2>4
<1>5. Fails = {}
  <2> SUFFICES ASSUME Fails # {} PROVE FALSE
    OBVIOUS
  <2>1. Fails \in SUBSET Nat
    BY <1>2
  <2> HIDE DEF Done
  <2>2. PICK n \in Fails : n = 0 \/ (n - 1 \in Nat /\ n - 1 \notin Fails)
    BY <2>1, FirstFailure
  <2>3. n \in 1..Len(q) /\ n - 1 \in 0..Len(q)
    BY <1>2, <1>3, <2>2
  <2> QED
    BY <1>4, <2>2, <2>3
<1>6. Done(Len(q))
  BY <1>2, <1>5
<1> QED
  BY <1>1, <1>6

-----------------------------------------------------------------------------
(* What happens to the packets.                                            *)

Numbers(s) == {s[i].number : i \in DOMAIN s}

Increasing(s) == \A i, j \in DOMAIN s : i < j => s[i].number < s[j].number

Distinct(s) == \A i, j \in DOMAIN s : s[i].number = s[j].number => i = j

HandedNumbers(h) == {h[i].entry.number : i \in DOMAIN h}

\* Of n packets accepted, those queued (q), handed out (h) and given up (e).
Consistent(q, h, e, n) ==
    /\ Increasing(q)
    /\ Distinct(e)
    /\ \A i, j \in DOMAIN h : h[i].entry.number = h[j].entry.number => i = j
    /\ Numbers(q) \intersect HandedNumbers(h) = {}
    /\ Numbers(q) \intersect Numbers(e) = {}
    /\ HandedNumbers(h) \intersect Numbers(e) = {}
    /\ Numbers(q) \union HandedNumbers(h) \union Numbers(e) = 1..n
    /\ \A i, j \in DOMAIN h :
          i < j /\ h[i].entry.dst = h[j].entry.dst => h[i].entry.number < h[j].entry.number
    /\ \A i \in DOMAIN h, j \in DOMAIN q :
          h[i].entry.dst = q[j].dst => h[i].entry.number < q[j].number

(***************************************************************************)
(* Erasing part of an ordered queue leaves it ordered, and leaves and      *)
(* erases nothing that was not in it.                                      *)
(***************************************************************************)
LEMMA Erased ==
    ASSUME NEW E, NEW q \in Seq(E), NEW S \in SUBSET (DOMAIN q), Increasing(q),
           Numbers(q) \subseteq Int
    PROVE  LET r == Remaining(q, S)
           IN  /\ r \in Seq(E) /\ Increasing(r) /\ Distinct(r)
               /\ \A i \in DOMAIN r : \E k \in S : r[i] = q[k]
               /\ \A k \in S : \E i \in DOMAIN r : r[i] = q[k]
               /\ Numbers(r) = {q[k].number : k \in S}
<1> DEFINE r == Remaining(q, S)
<1>1. r \in Seq(E)
  BY RemainingFacts
<1>2. PICK f : IsWhatIsLeft(r, f, q, S, Len(q))
  BY RemainingFacts
<1> HIDE DEF r
<1>3. /\ DOMAIN r = 1..Len(r) /\ Len(r) \in Nat /\ DOMAIN q = 1..Len(q)
      /\ S \intersect (1..Len(q)) = S
      /\ \A k \in S : k \in DOMAIN q /\ k \in Int /\ q[k].number \in Int
  BY <1>1 DEF Numbers
<1>4. /\ \A i \in DOMAIN r : f[i] \in S /\ r[i] = q[f[i]]
      /\ \A i, j \in DOMAIN r : i < j => f[i] < f[j]
      /\ \A k \in S : \E i \in DOMAIN r : f[i] = k
  BY <1>2, <1>3 DEF IsWhatIsLeft
<1>5. Increasing(r)
  BY <1>3, <1>4 DEF Increasing
<1>6. \A i \in DOMAIN r : r[i].number \in Int /\ i \in Int
  BY <1>3, <1>4
<1>7. Distinct(r)
  <2> SUFFICES ASSUME NEW i \in DOMAIN r, NEW j \in DOMAIN r, r[i].number = r[j].number, i # j
               PROVE  FALSE
    BY DEF Distinct
  <2>1. i < j \/ j < i
    BY <1>6
  <2> QED
    BY <1>5, <1>6, <2>1 DEF Increasing
<1>8. Numbers(r) = {q[k].number : k \in S}
  BY <1>4 DEF Numbers
<1> QED
  BY <1>1, <1>4, <1>5, <1>7, <1>8 DEF r

(***************************************************************************)
(* Two lists of packets with none in common, one after the other.          *)
(***************************************************************************)
LEMMA OneAfterTheOther ==
    ASSUME NEW E, NEW e \in Seq(E), NEW d \in Seq(E), Distinct(e), Distinct(d),
           Numbers(e) \intersect Numbers(d) = {}
    PROVE  /\ e \o d \in Seq(E) /\ Distinct(e \o d)
           /\ Numbers(e \o d) = Numbers(e) \union Numbers(d)
<1> DEFINE s == e \o d
<1>1. /\ s \in Seq(E) /\ Len(s) = Len(e) + Len(d) /\ Len(e) \in Nat /\ Len(d) \in Nat
      /\ \A i \in 1..Len(s) : s[i] = IF i =< Len(e) THEN e[i] ELSE d[i - Len(e)]
      /\ DOMAIN s = 1..Len(s) /\ DOMAIN e = 1..Len(e) /\ DOMAIN d = 1..Len(d)
  OBVIOUS
<1> HIDE DEF s
<1>2. \A i \in DOMAIN s : \/ i \in DOMAIN e /\ s[i] = e[i]
                          \/ i - Len(e) \in DOMAIN d /\ s[i] = d[i - Len(e)] /\ i \notin DOMAIN e
  BY <1>1
<1>3. /\ \A i \in DOMAIN e : i \in DOMAIN s /\ s[i] = e[i]
      /\ \A j \in DOMAIN d : j + Len(e) \in DOMAIN s /\ s[j + Len(e)] = d[j]
  <2>1. \A j \in DOMAIN d : j + Len(e) \in 1..Len(s) /\ ~(j + Len(e) =< Len(e))
                            /\ (j + Len(e)) - Len(e) = j
    BY <1>1
  <2> QED
    BY <1>1, <2>1
<1>4. Numbers(s) = Numbers(e) \union Numbers(d)
  BY <1>2, <1>3 DEF Numbers
<1>5. ASSUME NEW i \in DOMAIN s, NEW j \in DOMAIN s, s[i].number = s[j].number
      PROVE  i = j
  <2>1. CASE i \in DOMAIN e /\ j \in DOMAIN e
    <3>1. e[i].number = e[j].number
      BY <1>3, <1>5, <2>1
    <3> QED
      BY <2>1, <3>1 DEF Distinct
  <2>2. CASE i \notin DOMAIN e /\ j \notin DOMAIN e
    <3>1. /\ i - Len(e) \in DOMAIN d /\ s[i] = d[i - Len(e)]
          /\ j - Len(e) \in DOMAIN d /\ s[j] = d[j - Len(e)]
      BY <1>2, <2>2
    <3>2. i - Len(e) = j - Len(e)
      BY <1>5, <3>1 DEF Distinct
    <3> QED
      BY <1>1, <3>2
  <2>3. \A k \in DOMAIN s : k \in DOMAIN e => s[k].number \in Numbers(e)
    BY <1>3 DEF Numbers
  <2>4. \A k \in DOMAIN s : k \notin DOMAIN e => s[k].number \in Numbers(d)
    BY <1>2 DEF Numbers
  <2> QED
    BY <1>5, <2>1, <2>2, <2>3, <2>4
<1> QED
  BY <1>1, <1>4, <1>5 DEF Distinct, s

(***************************************************************************)
(* Giving up entries, each reported once, keeps the books.                 *)
(***************************************************************************)
LEMMA GivenUp ==
    ASSUME NEW E, NEW q \in Seq(E), NEW h, NEW e \in Seq(E), NEW n \in Nat, Consistent(q, h, e, n),
           NEW S \in SUBSET (DOMAIN q), NEW d \in Seq(E), Distinct(d),
           Numbers(d) = {q[k].number : k \in S}
    PROVE  Consistent(Remaining(q, DOMAIN q \ S), h, e \o d, n)
<1> DEFINE K == DOMAIN q \ S
           r == Remaining(q, K)
<1>1. Increasing(q) /\ Numbers(q) \subseteq Int
  BY DEF Consistent
<1>2. /\ r \in Seq(E) /\ Increasing(r)
      /\ \A i \in DOMAIN r : \E k \in K : r[i] = q[k]
      /\ Numbers(r) = {q[k].number : k \in K}
  <2>1. K \in SUBSET (DOMAIN q)
    OBVIOUS
  <2> HIDE DEF K
  <2> QED
    BY <1>1, <2>1, Erased
<1> HIDE DEF r
<1>3. \A k, l \in DOMAIN q : q[k].number = q[l].number => k = l
  <2> SUFFICES ASSUME NEW k \in DOMAIN q, NEW l \in DOMAIN q, q[k].number = q[l].number, k # l
               PROVE  FALSE
    OBVIOUS
  <2>1. (k < l \/ l < k) /\ q[k].number \in Int
    BY <1>1 DEF Numbers
  <2> QED
    BY <1>1, <2>1 DEF Increasing
<1>4. /\ Numbers(r) \intersect Numbers(d) = {}
      /\ Numbers(r) \union Numbers(d) = Numbers(q)
  <2>1. Numbers(q) = {q[k].number : k \in DOMAIN q} /\ DOMAIN q = K \union S
    BY DEF Numbers
  <2> QED
    BY <1>2, <1>3, <2>1
<1>5. Numbers(e) \intersect Numbers(d) = {}
  BY <1>4 DEF Consistent
<1>6. Distinct(e \o d) /\ Numbers(e \o d) = Numbers(e) \union Numbers(d)
  <2>1. Distinct(e)
    BY DEF Consistent
  <2> QED
    BY <1>5, <2>1, OneAfterTheOther
<1>7. \A i \in DOMAIN h, j \in DOMAIN r :
         h[i].entry.dst = r[j].dst => h[i].entry.number < r[j].number
  BY <1>2 DEF Consistent
<1> DEFINE gone == e \o d
<1> HIDE DEF gone
<1>8. Distinct(gone) /\ Numbers(gone) = Numbers(e) \union Numbers(d)
  BY <1>6 DEF gone
<1>9. Consistent(r, h, gone, n)
  BY <1>2, <1>4, <1>7, <1>8 DEF Consistent
<1> QED
  BY <1>9 DEF r, gone

(***************************************************************************)
(* So does handing out the first entry for a destination.                  *)
(***************************************************************************)
LEMMA HandedOut ==
    ASSUME NEW E, NEW q \in Seq(E), NEW H, NEW h \in Seq(H), NEW e, NEW n \in Nat,
           Consistent(q, h, e, n),
           NEW dst, NEW i \in FirstFor(q, dst), NEW t, [entry |-> q[i], at |-> t] \in H
    PROVE  Consistent(Remaining(q, DOMAIN q \ {i}), Append(h, [entry |-> q[i], at |-> t]), e, n)
<1> DEFINE K == DOMAIN q \ {i}
           r == Remaining(q, K)
           handout == [entry |-> q[i], at |-> t]
           h2 == Append(h, handout)
<1>1. Increasing(q) /\ Numbers(q) \subseteq Int /\ i \in DOMAIN q
  BY DEF Consistent, FirstFor, For
<1>2. /\ r \in Seq(E) /\ Increasing(r)
      /\ \A j \in DOMAIN r : \E k \in K : r[j] = q[k]
      /\ Numbers(r) = {q[k].number : k \in K}
  <2>1. K \in SUBSET (DOMAIN q)
    OBVIOUS
  <2> HIDE DEF K
  <2> QED
    BY <1>1, <2>1, Erased
<1>3. /\ Len(h) \in Nat /\ DOMAIN h = 1..Len(h) /\ DOMAIN h2 = 1..(Len(h) + 1)
      /\ h2[Len(h) + 1] = handout
      /\ \A j \in DOMAIN h : h2[j] = h[j] /\ j \in DOMAIN h2 /\ j < Len(h) + 1 /\ j \in Int
      /\ \A j \in DOMAIN h2 : j \in DOMAIN h \/ j = Len(h) + 1
      /\ Len(h) + 1 \in DOMAIN h2
      /\ handout.entry = q[i]
  OBVIOUS
<1> DEFINE last == Len(h) + 1
<1> HIDE DEF r, h2, handout
<1>4. last \in Int /\ last \notin DOMAIN h
  BY <1>3
<1>5. \A k \in DOMAIN q : /\ k \in Int /\ q[k].number \in Int
                          /\ q[k].number = q[i].number => k = i
                          /\ k # i /\ q[k].dst = q[i].dst => q[i].number < q[k].number
  <2> SUFFICES ASSUME NEW k \in DOMAIN q
               PROVE  /\ k \in Int /\ q[k].number \in Int
                      /\ q[k].number = q[i].number => k = i
                      /\ k # i /\ q[k].dst = q[i].dst => q[i].number < q[k].number
    OBVIOUS
  <2>1. k \in Int /\ i \in Int /\ q[k].number \in Int /\ q[i].number \in Int
    BY <1>1 DEF Numbers
  <2>2. k < i => q[k].number < q[i].number
    BY <1>1 DEF Increasing
  <2>3. i < k => q[i].number < q[k].number
    BY <1>1 DEF Increasing
  <2>4. q[k].dst = q[i].dst => i =< k
    BY DEF FirstFor, For
  <2> QED
    BY <2>1, <2>2, <2>3, <2>4
<1> HIDE DEF last
<1>6. /\ DOMAIN h2 = DOMAIN h \union {last}
      /\ h2[last].entry = q[i]
      /\ \A j \in DOMAIN h : h2[j] = h[j] /\ j < last /\ j \in Int
  BY <1>3 DEF last
<1>7. HandedNumbers(h2) = HandedNumbers(h) \union {q[i].number}
  BY <1>6 DEF HandedNumbers
<1>8. /\ Numbers(q) = Numbers(r) \union {q[i].number}
      /\ q[i].number \notin Numbers(r)
      /\ q[i].number \in Numbers(q)
  BY <1>1, <1>2, <1>5 DEF Numbers
<1>9. \A j \in DOMAIN h : h[j].entry.number # q[i].number
                          /\ (h[j].entry.dst = q[i].dst => h[j].entry.number < q[i].number)
  <2>1. \A j \in DOMAIN h : h[j].entry.number \in HandedNumbers(h)
    BY DEF HandedNumbers
  <2> QED
    BY <1>1, <1>8, <2>1 DEF Consistent
<1>10. \A j, k \in DOMAIN h2 : h2[j].entry.number = h2[k].entry.number => j = k
  BY <1>6, <1>9 DEF Consistent
<1>11. ASSUME NEW j \in DOMAIN h2, NEW k \in DOMAIN h2, j < k, h2[j].entry.dst = h2[k].entry.dst
       PROVE  h2[j].entry.number < h2[k].entry.number
  <2>1. j \in DOMAIN h
    BY <1>4, <1>6, <1>11
  <2>2. CASE k \in DOMAIN h
    BY <1>6, <1>11, <2>1, <2>2 DEF Consistent
  <2>3. CASE k = last
    BY <1>6, <1>9, <1>11, <2>1, <2>3
  <2> QED
    BY <1>6, <2>2, <2>3
<1>12. ASSUME NEW j \in DOMAIN h2, NEW k \in DOMAIN r, h2[j].entry.dst = r[k].dst
       PROVE  h2[j].entry.number < r[k].number
  <2>1. PICK l \in DOMAIN q : r[k] = q[l] /\ l # i
    BY <1>2
  <2>2. CASE j \in DOMAIN h
    BY <1>6, <1>12, <2>1, <2>2 DEF Consistent
  <2>3. CASE j = last
    BY <1>5, <1>6, <1>12, <2>1, <2>3
  <2> QED
    BY <1>6, <2>2, <2>3
<1>13. Consistent(r, h2, e, n)
  <2>1. /\ Numbers(r) \intersect HandedNumbers(h2) = {}
        /\ Numbers(r) \intersect Numbers(e) = {}
        /\ HandedNumbers(h2) \intersect Numbers(e) = {}
        /\ Numbers(r) \union HandedNumbers(h2) \union Numbers(e) = 1..n
    BY <1>7, <1>8 DEF Consistent
  <2>2. Distinct(e)
    BY DEF Consistent
  <2> QED
    BY <1>2, <1>10, <1>11, <1>12, <2>1, <2>2 DEF Consistent
<1> QED
  BY <1>13 DEF r, h2, handout

(***************************************************************************)
(* And so does queueing one more.                                          *)
(***************************************************************************)
LEMMA Queued ==
    ASSUME NEW E, NEW q \in Seq(E), NEW h, NEW e, NEW n \in Nat, Consistent(q, h, e, n),
           NEW x \in E, x.number = n + 1
    PROVE  Consistent(Append(q, x), h, e, n + 1)
<1> DEFINE q2 == Append(q, x)
           last == Len(q) + 1
<1>1. /\ DOMAIN q2 = DOMAIN q \union {last} /\ last \in Int /\ q2[last] = x
      /\ \A j \in DOMAIN q : q2[j] = q[j] /\ j \in Int /\ j < last
  <2>1. /\ Len(q) \in Nat /\ DOMAIN q = 1..Len(q) /\ DOMAIN q2 = 1..(Len(q) + 1)
        /\ q2[Len(q) + 1] = x /\ \A j \in DOMAIN q : q2[j] = q[j]
    OBVIOUS
  <2> HIDE DEF q2
  <2> QED
    BY <2>1
<1> HIDE DEF q2, last
<1>2. Numbers(q2) = Numbers(q) \union {n + 1}
  BY <1>1 DEF Numbers
<1>3. 1..(n + 1) = (1..n) \union {n + 1} /\ n + 1 \notin 1..n
  OBVIOUS
<1>4. /\ \A j \in DOMAIN q : q[j].number \in 1..n
      /\ \A j \in DOMAIN h : h[j].entry.number \in 1..n
  <2>1. /\ \A j \in DOMAIN q : q[j].number \in Numbers(q)
        /\ \A j \in DOMAIN h : h[j].entry.number \in HandedNumbers(h)
    BY DEF Numbers, HandedNumbers
  <2> QED
    BY <2>1 DEF Consistent
<1>5. Increasing(q2)
  <2> SUFFICES ASSUME NEW i \in DOMAIN q2, NEW j \in DOMAIN q2, i < j
               PROVE  q2[i].number < q2[j].number
    BY DEF Increasing
  <2>1. i \in DOMAIN q
    BY <1>1
  <2>2. CASE j \in DOMAIN q
    BY <1>1, <2>1, <2>2 DEF Consistent, Increasing
  <2>3. CASE j = last
    BY <1>1, <1>4, <2>1, <2>3
  <2> QED
    BY <1>1, <2>2, <2>3
<1>6. \A i \in DOMAIN h, j \in DOMAIN q2 :
         h[i].entry.dst = q2[j].dst => h[i].entry.number < q2[j].number
  <2> SUFFICES ASSUME NEW i \in DOMAIN h, NEW j \in DOMAIN q2, h[i].entry.dst = q2[j].dst
               PROVE  h[i].entry.number < q2[j].number
    OBVIOUS
  <2>1. CASE j \in DOMAIN q
    BY <1>1, <2>1 DEF Consistent
  <2>2. CASE j = last
    BY <1>1, <1>4, <2>2
  <2> QED
    BY <1>1, <2>1, <2>2
<1>7. Consistent(q2, h, e, n + 1)
  <2>1. /\ Numbers(q2) \intersect HandedNumbers(h) = {}
        /\ Numbers(q2) \intersect Numbers(e) = {}
        /\ HandedNumbers(h) \intersect Numbers(e) = {}
        /\ Numbers(q2) \union HandedNumbers(h) \union Numbers(e) = 1..(n + 1)
    BY <1>2, <1>3 DEF Consistent
  <2> QED
    BY <1>5, <1>6, <2>1 DEF Consistent
<1> QED
  BY <1>7 DEF q2

-----------------------------------------------------------------------------
(* The queue.                                                              *)

(***************************************************************************)
(* Purge splits the queue in two: what is left has not expired, what is    *)
(* reported has.                                                           *)
(***************************************************************************)
LEMMA PurgeFacts ==
    ASSUME queue \in Seq(QueueEntry)
    PROVE  /\ Purged \in Seq(QueueEntry) /\ Outdated \in Seq(QueueEntry)
           /\ \A i \in DOMAIN Purged : ~IsExpired(Purged[i])
           /\ \A i \in DOMAIN Outdated : IsExpired(Outdated[i])
<1> DEFINE live == {i \in DOMAIN queue : ~IsExpired(queue[i])}
           old == {i \in DOMAIN queue : IsExpired(queue[i])}
<1> HIDE DEF QueueEntry
<1>1. /\ Purged = Remaining(queue, live) /\ Outdated = Remaining(queue, old)
  BY DEF Purged, Outdated
<1>2. /\ \A i \in live : ~IsExpired(queue[i])
      /\ \A i \in old : IsExpired(queue[i])
  OBVIOUS
<1> HIDE DEF live, old
<1>3. ASSUME NEW S
      PROVE  /\ Remaining(queue, S) \in Seq(QueueEntry)
             /\ \A i \in DOMAIN Remaining(queue, S) : \E k \in S : Remaining(queue, S)[i] = queue[k]
  <2>1. Remaining(queue, S) \in Seq(QueueEntry)
    BY RemainingFacts
  <2>2. PICK f : IsWhatIsLeft(Remaining(queue, S), f, queue, S, Len(queue))
    BY RemainingFacts
  <2> DEFINE r == Remaining(queue, S)
  <2> HIDE DEF r
  <2>3. r \in Seq(QueueEntry) /\ IsWhatIsLeft(r, f, queue, S, Len(queue))
    BY <2>1, <2>2 DEF r
  <2>4. \A i \in DOMAIN r : \E k \in S : r[i] = queue[k]
    BY <2>3 DEF IsWhatIsLeft
  <2> QED
    BY <2>1, <2>4 DEF r
<1> QED
  BY <1>1, <1>2, <1>3

(***************************************************************************)
(* The clock, the settings and the queue stay well formed: what is queued  *)
(* is numbered in the order it was accepted, and no time is negative.      *)
(***************************************************************************)
THEOREM TypeCorrect == Spec => []TypeOK
<1> USE RequestQueueAssumption
<1> HIDE DEF QueueEntry
<1>1. Init => TypeOK
  BY DEF Init, TypeOK
<1>2. TypeOK /\ [Next]_vars => TypeOK'
  <2> SUFFICES ASSUME TypeOK, [Next]_vars PROVE TypeOK'
    OBVIOUS
  <2> USE DEF TypeOK
  <2>1. /\ Purged \in Seq(QueueEntry) /\ Outdated \in Seq(QueueEntry)
        /\ errors \o Outdated \in Seq(QueueEntry)
    BY PurgeFacts
  <2>2. \A q \in Seq(QueueEntry) : \A S : Remaining(q, S) \in Seq(QueueEntry)
    BY RemainingFacts
  <2>3. ASSUME NEW uid \in Uids, NEW dst \in Dsts, Enqueue(uid, dst) PROVE TypeOK'
    <3>1. CASE Refuse(uid, dst)
      BY <2>1, <3>1 DEF Refuse
    <3>2. CASE Accept(uid, dst)
      <4> DEFINE entry == [uid |-> uid, dst |-> dst, expire |-> now + timeout,
                           number |-> accepted + 1]
      <4>1. /\ accepted' = accepted + 1 /\ accepted < MaxAccepted
            /\ queue' = Append(MakeRoom(Purged).kept, entry)
            /\ errors' = errors \o Outdated \o MakeRoom(Purged).dropped
            /\ UNCHANGED <<now, maxLen, timeout, handed>>
        BY <3>2 DEF Accept
      <4>2. entry \in QueueEntry /\ accepted' \in 0..MaxAccepted
        <5>1. now + timeout \in Nat /\ accepted + 1 \in 1..MaxAccepted
          BY <4>1
        <5> QED
          BY <4>1, <5>1 DEF QueueEntry
      <4> HIDE DEF entry
      <4>3. /\ MakeRoom(Purged).kept \in Seq(QueueEntry)
            /\ MakeRoom(Purged).dropped \in Seq(QueueEntry)
        <5>1. CASE Len(Purged) = maxLen
          <6>1. Purged[1] \in QueueEntry
            BY <2>1, <5>1
          <6>2. <<Purged[1]>> \in Seq(QueueEntry)
            BY <6>1
          <6> QED
            BY <2>1, <2>2, <5>1, <6>2 DEF MakeRoom
        <5>2. CASE Len(Purged) # maxLen
          BY <2>1, <5>2 DEF MakeRoom
        <5> QED
          BY <5>1, <5>2
      <4>4. queue' \in Seq(QueueEntry) /\ errors' \in Seq(QueueEntry)
        <5> DEFINE kept == MakeRoom(Purged).kept
                   dropped == MakeRoom(Purged).dropped
                   reported == errors \o Outdated
        <5>1. kept \in Seq(QueueEntry) /\ dropped \in Seq(QueueEntry)
              /\ reported \in Seq(QueueEntry)
              /\ queue' = Append(kept, entry) /\ errors' = reported \o dropped
          BY <2>1, <4>1, <4>3
        <5> HIDE DEF kept, dropped, reported
        <5> QED
          BY <4>2, <5>1
      <4> QED
        BY <4>1, <4>2, <4>4
    <3> QED
      BY <2>3, <3>1, <3>2 DEF Enqueue
  <2>4. ASSUME NEW dst \in Dsts, DropPacketWithDst(dst) PROVE TypeOK'
    <3> DEFINE reported == errors \o Outdated
               dropped == Remaining(Purged, For(Purged, dst))
    <3>1. dropped \in Seq(QueueEntry) /\ reported \in Seq(QueueEntry)
      BY <2>1, <2>2
    <3>2. /\ queue' \in Seq(QueueEntry) /\ errors' = reported \o dropped
          /\ UNCHANGED <<now, maxLen, timeout, accepted, handed>>
      BY <2>1, <2>2, <2>4 DEF DropPacketWithDst
    <3> HIDE DEF reported, dropped
    <3> QED
      BY <3>1, <3>2
  <2>5. ASSUME NEW dst \in Dsts, Dequeue(dst) PROVE TypeOK'
    <3>1. errors' \in Seq(QueueEntry) /\ UNCHANGED <<now, maxLen, timeout, accepted>>
      BY <2>1, <2>5 DEF Dequeue
    <3>2. CASE \E i \in FirstFor(Purged, dst) :
                  /\ handed' = Append(handed, [entry |-> Purged[i], at |-> now])
                  /\ queue' = Remaining(Purged, DOMAIN Purged \ {i})
      <4>1. PICK i \in FirstFor(Purged, dst) :
                  /\ handed' = Append(handed, [entry |-> Purged[i], at |-> now])
                  /\ queue' = Remaining(Purged, DOMAIN Purged \ {i})
        BY <3>2
      <4>2. Purged[i] \in QueueEntry
        BY <2>1 DEF FirstFor, For
      <4>3. [entry |-> Purged[i], at |-> now] \in [entry : QueueEntry, at : 0..MaxTime]
        BY <4>2
      <4> DEFINE handout == [entry |-> Purged[i], at |-> now]
                 H == [entry : QueueEntry, at : 0..MaxTime]
      <4>4. handout \in H /\ handed \in Seq(H) /\ handed' = Append(handed, handout)
        BY <4>1, <4>3
      <4> HIDE DEF handout, H
      <4>5. handed' \in Seq(H)
        BY <4>4
      <4>6. queue' \in Seq(QueueEntry)
        BY <2>1, <2>2, <4>1
      <4> QED
        BY <3>1, <4>5, <4>6 DEF H
    <3>3. CASE queue' = Purged /\ UNCHANGED handed
      BY <2>1, <3>1, <3>3
    <3> QED
      BY <2>5, <3>2, <3>3 DEF Dequeue
  <2>6. CASE GetSize
    BY <2>1, <2>6 DEF GetSize
  <2>7. ASSUME NEW len \in MaxLens, SetMaxQueueLen(len) PROVE TypeOK'
    BY <2>7 DEF SetMaxQueueLen
  <2>8. ASSUME NEW t \in Timeouts, SetQueueTimeout(t) PROVE TypeOK'
    BY <2>8 DEF SetQueueTimeout
  <2>9. CASE Tick
    BY <2>9 DEF Tick
  <2>10. CASE UNCHANGED vars
    BY <2>10 DEF vars
  <2> QED
    BY <2>3, <2>4, <2>5, <2>6, <2>7, <2>8, <2>9, <2>10 DEF Next
<1> QED
  BY <1>1, <1>2, PTL DEF Spec

(***************************************************************************)
(* No packet is handed out after its timeout, whatever timeouts are set    *)
(* and however late Dequeue is called.                                     *)
(***************************************************************************)
THEOREM NoLateHandout == Spec => []NeverHandedLate
<1> USE DEF NeverHandedLate
<1> HIDE DEF QueueEntry
<1>1. Init => NeverHandedLate
  BY DEF Init
<1>2. TypeOK /\ NeverHandedLate /\ [Next]_vars => NeverHandedLate'
  <2> SUFFICES ASSUME TypeOK, NeverHandedLate, [Next]_vars PROVE NeverHandedLate'
    OBVIOUS
  <2>1. CASE UNCHANGED handed
    BY <2>1
  <2>2. ASSUME NEW dst \in Dsts, NEW i \in FirstFor(Purged, dst),
               handed' = Append(handed, [entry |-> Purged[i], at |-> now])
        PROVE  NeverHandedLate'
    <3> DEFINE handout == [entry |-> Purged[i], at |-> now]
    <3>1. Purged \in Seq(QueueEntry) /\ i \in DOMAIN Purged /\ ~IsExpired(Purged[i])
      BY PurgeFacts DEF FirstFor, For, TypeOK
    <3>2. Purged[i].expire \in Nat /\ now \in Nat
      <4>1. Purged[i] \in QueueEntry
        BY <3>1
      <4> QED
        BY <4>1 DEF TypeOK, QueueEntry
    <3>3. handout.at =< handout.entry.expire
      BY <3>1, <3>2 DEF IsExpired
    <3>4. /\ Len(handed) \in Nat /\ DOMAIN handed = 1..Len(handed)
          /\ DOMAIN handed' = 1..(Len(handed) + 1) /\ handed'[Len(handed) + 1] = handout
          /\ \A j \in DOMAIN handed : handed'[j] = handed[j]
      BY <2>2 DEF TypeOK
    <3> HIDE DEF handout
    <3>5. \A j \in DOMAIN handed' : j \in DOMAIN handed \/ j = Len(handed) + 1
      BY <3>4
    <3> QED
      BY <3>3, <3>4, <3>5
  <2> QED
    BY <2>1, <2>2 DEF Next, vars, Enqueue, Refuse, Accept, DropPacketWithDst, Dequeue, GetSize,
                      SetMaxQueueLen, SetQueueTimeout, Tick
<1> QED
  BY <1>1, <1>2, TypeCorrect, PTL DEF Spec

\* What makes OneFate, InOrder and OldestMakesRoom inductive.
Books == Consistent(queue, handed, errors, accepted)

(***************************************************************************)
(* The purge that begins an operation keeps the books.                     *)
(***************************************************************************)
LEMMA PurgeKeepsBooks ==
    ASSUME TypeOK, Books
    PROVE  Consistent(Purged, handed, errors \o Outdated, accepted)
<1> HIDE DEF QueueEntry
<1> DEFINE live == {i \in DOMAIN queue : ~IsExpired(queue[i])}
           old == {i \in DOMAIN queue : IsExpired(queue[i])}
<1>1. Purged = Remaining(queue, live) /\ Outdated = Remaining(queue, old)
  BY DEF Purged, Outdated
<1>2. live = DOMAIN queue \ old /\ old \in SUBSET (DOMAIN queue)
  OBVIOUS
<1>3. queue \in Seq(QueueEntry) /\ errors \in Seq(QueueEntry) /\ accepted \in Nat
  BY DEF TypeOK
<1>4. Increasing(queue) /\ Numbers(queue) \subseteq Int
  BY DEF Books, Consistent
<1> HIDE DEF live, old
<1>5. /\ Outdated \in Seq(QueueEntry) /\ Distinct(Outdated)
      /\ Numbers(Outdated) = {queue[k].number : k \in old}
  BY <1>1, <1>2, <1>3, <1>4, Erased
<1> QED
  BY <1>1, <1>2, <1>3, <1>5, GivenUp DEF Books

(***************************************************************************)
(* Making room gives up nothing, or the front of the queue; it leaves      *)
(* nothing older than what it gives up.                                    *)
(***************************************************************************)
LEMMA MakeRoomKeepsBooks ==
    ASSUME NEW q \in Seq(QueueEntry), NEW e \in Seq(QueueEntry), NEW n \in Nat, NEW h,
           Consistent(q, h, e, n), maxLen \in Nat \ {0}
    PROVE  LET room == MakeRoom(q)
           IN  /\ room.kept \in Seq(QueueEntry) /\ room.dropped \in Seq(QueueEntry)
               /\ Consistent(room.kept, h, e \o room.dropped, n)
               /\ \A i \in DOMAIN room.dropped, j \in DOMAIN room.kept :
                     room.dropped[i].number < room.kept[j].number
               /\ \A i \in DOMAIN room.dropped : \E k \in DOMAIN q : room.dropped[i] = q[k]
<1> HIDE DEF QueueEntry
<1> DEFINE room == MakeRoom(q)
<1>1. CASE Len(q) = maxLen
  <2> DEFINE kept == Remaining(q, DOMAIN q \ {1})
             dropped == <<q[1]>>
  <2>1. room.kept = kept /\ room.dropped = dropped
    BY <1>1 DEF MakeRoom
  <2>2. 1 \in DOMAIN q /\ q[1] \in QueueEntry /\ {1} \in SUBSET (DOMAIN q)
        /\ DOMAIN q \ {1} \in SUBSET (DOMAIN q) /\ \A k \in DOMAIN q \ {1} : 1 < k
    BY <1>1
  <2>3. dropped \in Seq(QueueEntry) /\ DOMAIN dropped = {1} /\ dropped[1] = q[1]
    BY <2>2
  <2> HIDE DEF dropped
  <2>4. Distinct(dropped) /\ Numbers(dropped) = {q[k].number : k \in {1}}
    BY <2>3 DEF Distinct, Numbers
  <2>5. Consistent(kept, h, e \o dropped, n)
    BY <2>2, <2>3, <2>4, GivenUp
  <2>6. Increasing(q) /\ Numbers(q) \subseteq Int
    BY DEF Consistent
  <2>7. /\ kept \in Seq(QueueEntry)
        /\ \A j \in DOMAIN kept : \E k \in DOMAIN q \ {1} : kept[j] = q[k]
    BY <2>2, <2>6, Erased
  <2> HIDE DEF kept
  <2>8. \A i \in DOMAIN dropped, j \in DOMAIN kept : dropped[i].number < kept[j].number
    BY <2>2, <2>3, <2>6, <2>7 DEF Increasing
  <2> HIDE DEF room
  <2> QED
    BY <2>1, <2>2, <2>3, <2>5, <2>7, <2>8 DEF room
<1>2. CASE Len(q) # maxLen
  <2>1. room.kept = q /\ room.dropped = <<>>
    BY <1>2 DEF MakeRoom
  <2>2. e \o <<>> = e /\ <<>> \in Seq(QueueEntry) /\ DOMAIN <<>> = {}
    OBVIOUS
  <2> HIDE DEF room
  <2> QED
    BY <2>1, <2>2 DEF room
<1> QED
  BY <1>1, <1>2

(***************************************************************************)
(* Every operation keeps the books.                                        *)
(***************************************************************************)
LEMMA BooksKept == Spec => []Books
<1> HIDE DEF QueueEntry
<1>1. Init => Books
  <2> SUFFICES ASSUME Init PROVE Books
    OBVIOUS
  <2>1. queue = <<>> /\ handed = <<>> /\ errors = <<>> /\ accepted = 0
    BY DEF Init
  <2>2. DOMAIN queue = {} /\ DOMAIN handed = {} /\ DOMAIN errors = {} /\ 1..accepted = {}
    BY <2>1
  <2> QED
    BY <2>2 DEF Books, Consistent, Increasing, Distinct, Numbers, HandedNumbers
<1>2. TypeOK /\ Books /\ [Next]_vars => Books'
  <2> SUFFICES ASSUME TypeOK, Books, [Next]_vars PROVE Books'
    OBVIOUS
  <2> DEFINE reported == errors \o Outdated
             q == Purged
  <2>1. /\ q \in Seq(QueueEntry) /\ Outdated \in Seq(QueueEntry)
        /\ accepted \in Nat /\ errors \in Seq(QueueEntry)
    BY PurgeFacts DEF TypeOK
  <2>2. reported \in Seq(QueueEntry)
    BY <2>1
  <2>3. Consistent(q, handed, reported, accepted)
    BY PurgeKeepsBooks
  <2>4. Increasing(q) /\ Numbers(q) \subseteq Int
    BY <2>3 DEF Consistent
  <2> USE DEF Books
  <2> HIDE DEF reported, q
  <2>5. ASSUME NEW uid \in Uids, NEW dst \in Dsts, Refuse(uid, dst) PROVE Books'
    BY <2>3, <2>5 DEF Refuse, reported, q
  <2>6. ASSUME NEW uid \in Uids, NEW dst \in Dsts, Accept(uid, dst) PROVE Books'
    <3> DEFINE entry == [uid |-> uid, dst |-> dst, expire |-> now + timeout,
                         number |-> accepted + 1]
               kept == MakeRoom(q).kept
               dropped == MakeRoom(q).dropped
    <3>1. /\ accepted' = accepted + 1 /\ handed' = handed
          /\ queue' = Append(kept, entry) /\ errors' = reported \o dropped
      BY <2>6 DEF Accept, reported, q
    <3>2. maxLen \in Nat \ {0}
      BY RequestQueueAssumption DEF TypeOK
    <3>3. /\ kept \in Seq(QueueEntry)
          /\ Consistent(kept, handed, reported \o dropped, accepted)
      BY <2>1, <2>2, <2>3, <3>2, MakeRoomKeepsBooks
    <3>4. entry \in {entry} \union QueueEntry /\ entry.number = accepted + 1
      OBVIOUS
    <3> HIDE DEF entry, kept, dropped
    <3> DEFINE E == {entry} \union QueueEntry
               given == reported \o dropped
    <3>5. kept \in Seq(E)
      <4>1. \A i \in 1..Len(kept) : kept[i] \in E
        BY <3>3
      <4> HIDE DEF E
      <4> QED
        BY <3>3, <4>1
    <3> HIDE DEF E, given
    <3>6. entry \in E /\ Consistent(kept, handed, given, accepted)
      BY <3>3, <3>4 DEF E, given
    <3>7. Consistent(Append(kept, entry), handed, given, accepted + 1)
      BY <2>1, <3>4, <3>5, <3>6, Queued
    <3> QED
      BY <3>1, <3>7 DEF given
  <2>7. ASSUME NEW dst \in Dsts, DropPacketWithDst(dst) PROVE Books'
    <3> DEFINE S == For(q, dst)
               dropped == Remaining(q, S)
    <3>1. /\ queue' = Remaining(q, DOMAIN q \ S) /\ errors' = reported \o dropped
          /\ UNCHANGED <<accepted, handed>>
      BY <2>7 DEF DropPacketWithDst, reported, q
    <3>2. S \in SUBSET (DOMAIN q)
      BY DEF For
    <3> HIDE DEF S
    <3>3. /\ dropped \in Seq(QueueEntry) /\ Distinct(dropped)
          /\ Numbers(dropped) = {q[k].number : k \in S}
      BY <2>1, <2>4, <3>2, Erased
    <3> HIDE DEF dropped
    <3>4. Consistent(Remaining(q, DOMAIN q \ S), handed, reported \o dropped, accepted)
      BY <2>1, <2>2, <2>3, <3>2, <3>3, GivenUp
    <3> QED
      BY <3>1, <3>4
  <2>8. ASSUME NEW dst \in Dsts, Dequeue(dst) PROVE Books'
    <3>1. errors' = reported /\ accepted' = accepted
      BY <2>8 DEF Dequeue, reported
    <3>2. CASE \E i \in FirstFor(q, dst) :
                  /\ handed' = Append(handed, [entry |-> q[i], at |-> now])
                  /\ queue' = Remaining(q, DOMAIN q \ {i})
      <4>1. PICK i \in FirstFor(q, dst) :
                  /\ handed' = Append(handed, [entry |-> q[i], at |-> now])
                  /\ queue' = Remaining(q, DOMAIN q \ {i})
        BY <3>2
      <4> DEFINE H == [entry : QueueEntry, at : 0..MaxTime]
      <4>2. handed \in Seq(H) /\ [entry |-> q[i], at |-> now] \in H
        BY <2>1 DEF TypeOK, FirstFor, For
      <4> HIDE DEF H
      <4>3. Consistent(Remaining(q, DOMAIN q \ {i}),
                       Append(handed, [entry |-> q[i], at |-> now]), reported, accepted)
        BY <2>1, <2>3, <4>2, HandedOut
      <4> QED
        BY <3>1, <4>1, <4>3
    <3>3. CASE queue' = q /\ UNCHANGED handed
      BY <2>3, <3>1, <3>3
    <3> QED
      BY <2>8, <3>2, <3>3 DEF Dequeue, q
  <2>9. CASE GetSize
    BY <2>3, <2>9 DEF GetSize, reported, q
  <2>10. CASE UNCHANGED <<queue, handed, errors, accepted>>
    BY <2>10
  <2> QED
    BY <2>5, <2>6, <2>7, <2>8, <2>9, <2>10
       DEF Next, Enqueue, SetMaxQueueLen, SetQueueTimeout, Tick, vars
<1> QED
  BY <1>1, <1>2, TypeCorrect, PTL DEF Spec

(***************************************************************************)
(* Every packet accepted is queued, was handed out, or was reported to its *)
(* sender, exactly once, however operations and timeouts follow each       *)
(* other.                                                                  *)
(***************************************************************************)
THEOREM EachHasOneFate == Spec => []OneFate
<1> HIDE DEF QueueEntry
<1>1. TypeOK /\ Books => OneFate
  <2> SUFFICES ASSUME TypeOK, Books, NEW n \in 1..accepted
               PROVE  Cardinality({i \in DOMAIN queue : queue[i].number = n})
                      + Cardinality({i \in DOMAIN handed : handed[i].entry.number = n})
                      + Cardinality({i \in DOMAIN errors : errors[i].number = n}) = 1
    BY DEF OneFate
  <2> DEFINE waiting == {i \in DOMAIN queue : queue[i].number = n}
             served == {i \in DOMAIN handed : handed[i].entry.number = n}
             failed == {i \in DOMAIN errors : errors[i].number = n}
  <2>1. /\ n \in Numbers(queue) \/ n \in HandedNumbers(handed) \/ n \in Numbers(errors)
        /\ ~(n \in Numbers(queue) /\ n \in HandedNumbers(handed))
        /\ ~(n \in Numbers(queue) /\ n \in Numbers(errors))
        /\ ~(n \in HandedNumbers(handed) /\ n \in Numbers(errors))
    BY DEF Books, Consistent
  <2>2. /\ waiting = {} <=> n \notin Numbers(queue)
        /\ served = {} <=> n \notin HandedNumbers(handed)
        /\ failed = {} <=> n \notin Numbers(errors)
    BY DEF Numbers, HandedNumbers
  <2>3. \A i, j \in waiting : i = j
    <3> SUFFICES ASSUME NEW i \in waiting, NEW j \in waiting, i # j PROVE FALSE
      OBVIOUS
    <3>1. queue[i].number = n /\ queue[j].number = n /\ n \in Int
      OBVIOUS
    <3>2. ~(i < j) /\ ~(j < i)
      BY <3>1 DEF Books, Consistent, Increasing
    <3>3. i \in Int /\ j \in Int
      BY DEF TypeOK
    <3> QED
      BY <3>2, <3>3
  <2>4. (\A i, j \in served : i = j) /\ (\A i, j \in failed : i = j)
    BY DEF Books, Consistent, Distinct
  <2> HIDE DEF waiting, served, failed
  <2>5. ASSUME NEW S, \A i, j \in S : i = j
        PROVE  Cardinality(S) = IF S = {} THEN 0 ELSE 1
    <3>1. CASE S = {}
      BY <3>1, FS_EmptySet
    <3>2. CASE S # {}
      <4>1. PICK x : S = {x}
        BY <2>5, <3>2
      <4> QED
        BY <4>1, FS_Singleton
    <3> QED
      BY <3>1, <3>2
  <2>6. /\ Cardinality(waiting) = IF waiting = {} THEN 0 ELSE 1
        /\ Cardinality(served) = IF served = {} THEN 0 ELSE 1
        /\ Cardinality(failed) = IF failed = {} THEN 0 ELSE 1
    BY <2>3, <2>4, <2>5
  <2>7. Cardinality(waiting) + Cardinality(served) + Cardinality(failed) = 1
    BY <2>1, <2>2, <2>6
  <2> QED
    BY <2>7 DEF waiting, served, failed
<1> QED
  BY <1>1, TypeCorrect, BooksKept, PTL

(***************************************************************************)
(* Packets for one destination leave in the order they came.               *)
(***************************************************************************)
THEOREM FirstComeFirstServed == Spec => []InOrder
<1>1. Books => InOrder
  BY DEF Books, Consistent, InOrder
<1> QED
  BY <1>1, BooksKept, PTL

(***************************************************************************)
(* Queueing a packet gives up, of those not expired, at most one, and that *)
(* is older than all that stay.                                            *)
(***************************************************************************)
THEOREM OldestGoesFirst == Spec => OldestMakesRoom
<1> HIDE DEF QueueEntry
<1>1. TypeOK /\ Books /\ [Next]_vars
      => [accepted' # accepted =>
            \A i \in DOMAIN errors' \ DOMAIN errors :
                errors'[i].expire >= now =>
                    \A j \in DOMAIN queue' : errors'[i].number < queue'[j].number]_vars
  <2> SUFFICES ASSUME TypeOK, Books, Next, accepted' # accepted,
                      NEW k \in DOMAIN errors' \ DOMAIN errors, errors'[k].expire >= now,
                      NEW j \in DOMAIN queue'
               PROVE  errors'[k].number < queue'[j].number
    OBVIOUS
  <2>1. PICK uid \in Uids, dst \in Dsts : Accept(uid, dst)
    BY DEF Next, Enqueue, Refuse, DropPacketWithDst, Dequeue, GetSize, SetMaxQueueLen,
           SetQueueTimeout, Tick
  <2> DEFINE q == Purged
             reported == errors \o Outdated
             room == MakeRoom(q)
             kept == room.kept
             dropped == room.dropped
             entry == [uid |-> uid, dst |-> dst, expire |-> now + timeout,
                       number |-> accepted + 1]
  <2>2. queue' = Append(kept, entry) /\ errors' = reported \o dropped
    BY <2>1 DEF Accept
  <2>3. /\ q \in Seq(QueueEntry) /\ Outdated \in Seq(QueueEntry) /\ errors \in Seq(QueueEntry)
        /\ accepted \in Nat /\ now \in Nat /\ maxLen \in Nat \ {0}
        /\ \A i \in DOMAIN Outdated : IsExpired(Outdated[i]) /\ Outdated[i].expire \in Nat
    <3>1. queue \in Seq(QueueEntry)
      BY DEF TypeOK
    <3>2. /\ q \in Seq(QueueEntry) /\ Outdated \in Seq(QueueEntry)
          /\ \A i \in DOMAIN Outdated : IsExpired(Outdated[i])
      BY <3>1, PurgeFacts
    <3>3. \A x \in QueueEntry : x.expire \in Nat
      BY DEF QueueEntry
    <3>4. \A i \in DOMAIN Outdated : Outdated[i] \in QueueEntry
      BY <3>2
    <3> QED
      BY <3>2, <3>3, <3>4, RequestQueueAssumption DEF TypeOK
  <2>4. reported \in Seq(QueueEntry)
    BY <2>3
  <2>5. Consistent(q, handed, reported, accepted)
    BY PurgeKeepsBooks
  <2> HIDE DEF q, reported, entry
  <2>6. /\ kept \in Seq(QueueEntry) /\ dropped \in Seq(QueueEntry)
        /\ \A a \in DOMAIN dropped, b \in DOMAIN kept : dropped[a].number < kept[b].number
        /\ \A a \in DOMAIN dropped : \E b \in DOMAIN q : dropped[a] = q[b]
    BY <2>3, <2>4, <2>5, MakeRoomKeepsBooks
  <2> HIDE DEF room, kept, dropped
  <2>7. \E a \in DOMAIN dropped : errors'[k] = dropped[a]
    <3>1. /\ Len(reported) = Len(errors) + Len(Outdated)
          /\ Len(errors) \in Nat /\ Len(Outdated) \in Nat /\ Len(dropped) \in Nat
          /\ Len(errors') = Len(reported) + Len(dropped)
          /\ DOMAIN errors = 1..Len(errors) /\ DOMAIN errors' = 1..Len(errors')
          /\ DOMAIN dropped = 1..Len(dropped) /\ DOMAIN Outdated = 1..Len(Outdated)
      BY <2>2, <2>3, <2>4, <2>6 DEF reported
    <3>2. k \in Int /\ k > Len(errors) /\ k =< Len(reported) + Len(dropped)
      BY <3>1
    <3>3. CASE k > Len(reported)
      <4>1. Len(reported) \in Nat /\ k - Len(reported) \in 1..Len(dropped)
        BY <3>1, <3>2, <3>3
      <4>2. k \in 1..(Len(reported) + Len(dropped)) /\ ~(k =< Len(reported))
        BY <3>1, <3>2, <3>3
      <4>3. errors'[k] = dropped[k - Len(reported)]
        BY <2>2, <2>4, <2>6, <4>1, <4>2
      <4> QED
        BY <3>1, <4>1, <4>3
    <3>4. CASE k =< Len(reported)
      <4>1. errors'[k] = reported[k]
        BY <2>2, <2>4, <2>6, <3>1, <3>2, <3>4
      <4>2. k - Len(errors) \in DOMAIN Outdated /\ reported[k] = Outdated[k - Len(errors)]
        BY <2>3, <3>1, <3>2, <3>4 DEF reported
      <4> QED
        BY <2>3, <4>1, <4>2 DEF IsExpired
    <3> QED
      BY <3>1, <3>2, <3>3, <3>4
  <2>8. errors'[k].number \in 1..accepted
    BY <2>5, <2>6, <2>7 DEF Consistent, Numbers
  <2>9. \/ j \in DOMAIN kept /\ queue'[j] = kept[j]
        \/ queue'[j].number = accepted + 1
    <3>1. (queue'[j] = kept[j] /\ j \in DOMAIN kept) \/ queue'[j] = entry
      BY <2>2, <2>6
    <3> QED
      BY <3>1 DEF entry
  <2> QED
    BY <2>3, <2>6, <2>7, <2>8, <2>9
<1> QED
  BY <1>1, TypeCorrect, BooksKept, PTL DEF Spec, OldestMakesRoom
=============================================================================
