--------------------------- MODULE LadzrpWireProofs ---------------------------
(***************************************************************************)
(* Proofs about the headers of LadzrpWire, as LadzrpTracking puts them on  *)
(* and takes them off.  A coordinate that came through a float comes       *)
(* through the next one unchanged, and is off by no more than half the     *)
(* distance between two floats; the fields of every header take as many    *)
(* bytes as the header says it does, and the packet behind it is left      *)
(* whole.  So whatever is written comes back.                              *)
(***************************************************************************)
EXTENDS LadzrpTracking, WellFoundedInduction, TLAPS

-----------------------------------------------------------------------------
(* Coordinates as floats.                                                  *)

(***************************************************************************)
(* A property that fails for some number fails for a least one.            *)
(***************************************************************************)
LEMMA FirstFailure ==
    ASSUME NEW Fails \in SUBSET Nat, Fails # {}
    PROVE  \E n \in Fails : /\ \A m \in Fails : n =< m
                            /\ n = 0 \/ (n - 1 \in Nat /\ n - 1 \notin Fails)
<1> DEFINE R == OpToRel(<, Nat)
<1>1. IsWellFoundedOn(R, Nat)
  BY NatLessThanWellFounded
<1>2. \A x, y \in Nat : x < y => <<x, y>> \in R
  BY DEF OpToRel
<1> HIDE DEF R
<1>3. PICK n \in Fails : \A m \in Fails : ~(<<m, n>> \in R)
  BY <1>1, WFMin
<1>4. n \in Nat /\ (n # 0 => n - 1 \in Nat /\ n - 1 < n)
  OBVIOUS
<1>5. ASSUME NEW m \in Fails PROVE n =< m
  <2>1. m \in Nat /\ ~(m < n)
    BY <1>2, <1>3, <1>4
  <2> QED
    BY <1>4, <2>1
<1> QED
  BY <1>2, <1>3, <1>4, <1>5

\* g tells Spacing for every number up to k.
SpacingUpTo(g, k) ==
    g = [n \in 0..k |-> IF n < Significands THEN 1 ELSE 2 * g[n \div 2]]

(***************************************************************************)
(* Half of a number is a smaller one.                                      *)
(***************************************************************************)
LEMMA Halves ==
    ASSUME NEW n \in Nat, n # 0
    PROVE  n \div 2 \in Nat /\ n \div 2 < n /\ 2 * (n \div 2) =< n /\ n =< 2 * (n \div 2) + 1
  OBVIOUS

(***************************************************************************)
(* Two tellings agree.                                                     *)
(***************************************************************************)
LEMMA SpacingsAgree ==
    ASSUME NEW g, NEW f, NEW j \in Nat, NEW k \in Nat, j =< k, SpacingUpTo(g, j), SpacingUpTo(f, k)
    PROVE  g[j] = f[j]
<1> DEFINE Fails == {n \in 0..j : g[n] # f[n]}
<1>1. /\ \A n \in 0..j : g[n] = IF n < Significands THEN 1 ELSE 2 * g[n \div 2]
      /\ \A n \in 0..k : f[n] = IF n < Significands THEN 1 ELSE 2 * f[n \div 2]
  BY DEF SpacingUpTo
<1>2. Fails = {}
  <2> SUFFICES ASSUME Fails # {} PROVE FALSE
    OBVIOUS
  <2>1. PICK n \in Fails : \A m \in Fails : n =< m
    <3>1. Fails \in SUBSET Nat
      OBVIOUS
    <3> HIDE DEF Fails
    <3> QED
      BY <3>1, FirstFailure
  <2>2. n \in 0..j /\ n \in 0..k /\ g[n] # f[n]
    BY <2>1
  <2>3. n >= Significands /\ n # 0
    BY <1>1, <2>2, WireAssumption
  <2>4. n \div 2 \in 0..j /\ n \div 2 < n
    BY <2>2, <2>3, Halves
  <2>5. g[n \div 2] = f[n \div 2]
    BY <2>1, <2>4
  <2> QED
    BY <1>1, <2>2, <2>3, <2>5
<1> QED
  BY <1>2

(***************************************************************************)
(* Spacing is what its definition says.                                    *)
(***************************************************************************)
LEMMA SpacingFacts ==
    \A n \in Nat : Spacing[n] = IF n < Significands THEN 1 ELSE 2 * Spacing[n \div 2]
<1> USE WireAssumption
<1> DEFINE Fails == {k \in Nat : ~ \E g : SpacingUpTo(g, k)}
<1>1. 0 \notin Fails
  <2>1. SpacingUpTo([n \in 0..0 |-> 1], 0)
    BY DEF SpacingUpTo
  <2> QED
    BY <2>1
<1>2. ASSUME NEW k \in Nat, k # 0, k - 1 \in Nat, k - 1 \notin Fails
      PROVE  k \notin Fails
  <2>1. PICK g : SpacingUpTo(g, k - 1)
    BY <1>2
  <2> DEFINE next == IF k < Significands THEN 1 ELSE 2 * g[k \div 2]
             h == [n \in 0..k |-> IF n = k THEN next ELSE g[n]]
  <2>2. \A n \in 0..(k - 1) : g[n] = IF n < Significands THEN 1 ELSE 2 * g[n \div 2]
    BY <2>1 DEF SpacingUpTo
  <2>3. \A n \in 0..k : h[n] = IF n = k THEN next ELSE g[n]
    OBVIOUS
  <2> HIDE DEF next, h
  <2>4. ASSUME NEW n \in 0..k
        PROVE  h[n] = IF n < Significands THEN 1 ELSE 2 * h[n \div 2]
    <3>1. n \div 2 \in 0..k /\ (n >= Significands => n \div 2 # k)
      BY Halves
    <3>2. CASE n = k
      BY <2>3, <3>1, <3>2 DEF next
    <3>3. CASE n # k
      <4>1. n \in 0..(k - 1)
        BY <1>2, <3>3
      <4> QED
        BY <2>2, <2>3, <3>1, <3>3, <4>1
    <3> QED
      BY <3>2, <3>3
  <2>5. h = [n \in 0..k |-> IF n < Significands THEN 1 ELSE 2 * h[n \div 2]]
    BY <2>4 DEF h
  <2>6. SpacingUpTo(h, k)
    BY <2>5 DEF SpacingUpTo
  <2> QED
    BY <2>6
<1>3. Fails = {}
  <2>1. Fails \in SUBSET Nat
    OBVIOUS
  <2> HIDE DEF Fails
  <2> QED
    BY <1>1, <1>2, <2>1, FirstFailure
<1> DEFINE At(n) == CHOOSE g : SpacingUpTo(g, n)
           F == [n \in Nat |-> At(n)[n]]
<1>4. \A n \in Nat : SpacingUpTo(At(n), n)
  BY <1>3
<1> HIDE DEF At, Fails
<1>5. ASSUME NEW n \in Nat
      PROVE  F[n] = IF n < Significands THEN 1 ELSE 2 * F[n \div 2]
  <2>1. At(n)[n] = IF n < Significands THEN 1 ELSE 2 * At(n)[n \div 2]
    <3>1. n \in 0..n
      OBVIOUS
    <3> QED
      BY <1>4, <3>1 DEF SpacingUpTo
  <2>2. CASE n < Significands
    BY <2>1, <2>2
  <2>3. CASE ~(n < Significands)
    <3>1. n \div 2 \in Nat /\ n \div 2 =< n
      BY <2>3, Halves
    <3>2. At(n \div 2)[n \div 2] = At(n)[n \div 2]
      BY <1>4, <3>1, SpacingsAgree
    <3> QED
      BY <2>1, <2>3, <3>1, <3>2
  <2> QED
    BY <2>2, <2>3
<1> HIDE DEF F
<1>6. F = [n \in Nat |-> IF n < Significands THEN 1 ELSE 2 * F[n \div 2]]
  BY <1>5 DEF F
<1>7. Spacing = [n \in Nat |-> IF n < Significands THEN 1 ELSE 2 * Spacing[n \div 2]]
  BY <1>6 DEF Spacing
<1> QED
  BY <1>7

\* Half of the significands: those with the highest bit set lie between it and all.
Half == Significands \div 2

(***************************************************************************)
(* A float has a significand below their number and, unless it is counted  *)
(* in ones, with the highest bit set.                                      *)
(***************************************************************************)
LEMMA SpacingBounds ==
    \A n \in Nat : /\ Spacing[n] \in Nat \ {0}
                   /\ n < Spacing[n] * Significands
                   /\ Spacing[n] = 1 \/ Spacing[n] * Half =< n
<1> USE WireAssumption
<1>0. Half \in Nat \ {0} /\ Significands = 2 * Half
  BY DEF Half
<1> DEFINE Bounded(n) == /\ Spacing[n] \in Nat \ {0}
                         /\ n < Spacing[n] * Significands
                         /\ Spacing[n] = 1 \/ Spacing[n] * Half =< n
           Fails == {n \in Nat : ~Bounded(n)}
<1>1. Fails = {}
  <2> SUFFICES ASSUME Fails # {} PROVE FALSE
    OBVIOUS
  <2>1. PICK n \in Fails : \A m \in Fails : n =< m
    <3>1. Fails \in SUBSET Nat
      OBVIOUS
    <3> HIDE DEF Fails
    <3> QED
      BY <3>1, FirstFailure
  <2>2. n \in Nat /\ ~Bounded(n)
    BY <2>1
  <2>3. CASE n < Significands
    <3>1. Spacing[n] = 1
      BY <2>2, <2>3, SpacingFacts
    <3> QED
      BY <2>2, <2>3, <3>1
  <2>4. CASE ~(n < Significands)
    <3> DEFINE m == n \div 2
               v == Spacing[m]
    <3>1. Spacing[n] = 2 * v
      BY <2>2, <2>4, SpacingFacts
    <3>2. m \in Nat /\ m < n /\ 2 * m =< n /\ n =< 2 * m + 1
      BY <2>2, <2>4, Halves
    <3>3. Bounded(m)
      BY <2>1, <2>2, <3>2
    <3>4. v \in Nat \ {0} /\ m < v * Significands /\ (v = 1 \/ v * Half =< m)
      BY <3>3
    <3> HIDE DEF m, v, Bounded
    <3>5. v * Significands \in Nat /\ (2 * v) * Significands = 2 * (v * Significands)
      BY <3>4
    <3>6. v * Half \in Nat /\ (2 * v) * Half = 2 * (v * Half)
      BY <1>0, <3>4
    <3>7. n < (2 * v) * Significands
      BY <2>2, <3>2, <3>4, <3>5
    <3>8. (2 * v) * Half =< n
      <4>1. CASE v = 1
        BY <1>0, <2>2, <2>4, <4>1
      <4>2. CASE v * Half =< m
        BY <2>2, <3>2, <3>6, <4>2
      <4> QED
        BY <3>4, <4>1, <4>2
    <3>9. 2 * v \in Nat \ {0}
      BY <3>4
    <3> QED
      BY <2>2, <3>1, <3>7, <3>8, <3>9 DEF Bounded
  <2> QED
    BY <2>3, <2>4
<1> QED
  BY <1>1

(***************************************************************************)
(* All numbers whose significand has the highest bit set at the same       *)
(* spacing have that spacing.                                              *)
(***************************************************************************)
LEMMA SameSpacing ==
    ASSUME NEW n \in Nat, NEW y \in Nat, Spacing[n] * Half =< y, y < Spacing[n] * Significands
    PROVE  Spacing[y] = Spacing[n]
<1> USE WireAssumption
<1>0. Half \in Nat \ {0} /\ Significands = 2 * Half
  BY DEF Half
<1> DEFINE Same(k) == \A z \in Nat : Spacing[k] * Half =< z /\ z < Spacing[k] * Significands
                                        => Spacing[z] = Spacing[k]
           Fails == {k \in Nat : ~Same(k)}
<1>1. Fails = {}
  <2> SUFFICES ASSUME Fails # {} PROVE FALSE
    OBVIOUS
  <2>1. PICK k \in Fails : \A m \in Fails : k =< m
    <3>1. Fails \in SUBSET Nat
      OBVIOUS
    <3> HIDE DEF Fails
    <3> QED
      BY <3>1, FirstFailure
  <2>2. k \in Nat /\ ~Same(k)
    BY <2>1
  <2>3. PICK z \in Nat : /\ Spacing[k] * Half =< z /\ z < Spacing[k] * Significands
                         /\ Spacing[z] # Spacing[k]
    BY <2>2
  <2>4. CASE k < Significands
    <3>1. Spacing[k] = 1
      BY <2>2, <2>4, SpacingFacts
    <3>2. z < Significands
      BY <2>3, <3>1
    <3> QED
      BY <2>3, <3>1, <3>2, SpacingFacts
  <2>5. CASE ~(k < Significands)
    <3> DEFINE m == k \div 2
               v == Spacing[m]
               w == z \div 2
    <3>1. Spacing[k] = 2 * v
      BY <2>2, <2>5, SpacingFacts
    <3>2. m \in Nat /\ m < k
      BY <2>2, <2>5, Halves
    <3>3. Same(m)
      BY <2>1, <2>2, <3>2
    <3>4. v \in Nat \ {0}
      BY <3>2, SpacingBounds
    <3> HIDE DEF m, v
    <3>5. v * Half \in Nat /\ (2 * v) * Half = 2 * (v * Half)
          /\ (2 * v) * Significands = 2 * (v * Significands) /\ v * Significands \in Nat
      BY <1>0, <3>4
    <3>6. Significands =< z
      <4>1. v * Half >= Half
        BY <1>0, <3>4
      <4> QED
        BY <1>0, <2>3, <3>1, <3>5, <4>1
    <3>7. w \in Nat /\ 2 * w =< z /\ z =< 2 * w + 1
      BY <3>6, Halves
    <3> HIDE DEF w
    <3>8. v * Half =< w /\ w < v * Significands
      BY <2>3, <3>1, <3>5, <3>7
    <3>9. Spacing[w] = v
      BY <3>3, <3>7, <3>8 DEF v
    <3>10. Spacing[z] = 2 * Spacing[w]
      BY <3>6, SpacingFacts DEF w
    <3> QED
      BY <2>3, <3>1, <3>9, <3>10
  <2> QED
    BY <2>4, <2>5
<1> QED
  BY <1>1

\* What EncodeFloat makes of a number that is not negative.
Rounded(n) ==
    LET u == Spacing[n]
        q == n \div u
        r == n % u
    IN  u * (IF 2 * r > u \/ (2 * r = u /\ q % 2 = 1) THEN q + 1 ELSE q)

(***************************************************************************)
(* Multiples of the spacing stay as they are.                              *)
(***************************************************************************)
LEMMA MultiplesStay ==
    ASSUME NEW n \in Nat, NEW q \in Nat, n = Spacing[n] * q
    PROVE  Rounded(n) = n
<1> DEFINE u == Spacing[n]
<1>1. u \in Nat \ {0} /\ n = u * q
  BY SpacingBounds
<1> HIDE DEF u
<1>2. n \div u = q /\ n % u = 0
  <2> DEFINE d == n \div u
             m == n % u
  <2>1. d \in Nat /\ m \in Nat /\ m < u /\ u * q = u * d + m
    <3>1. n \in Nat /\ u \in Nat \ {0}
      BY <1>1
    <3>2. d \in Nat /\ m \in Nat /\ m < u /\ n = u * d + m
      BY <3>1
    <3> QED
      BY <1>1, <3>2
  <2> HIDE DEF d, m
  <2>2. ~(d < q)
    <3> SUFFICES ASSUME d < q PROVE FALSE
      OBVIOUS
    <3>1. u * (d + 1) =< u * q
      BY <1>1, <2>1
    <3> QED
      BY <1>1, <2>1, <3>1
  <2>3. ~(q < d)
    <3> SUFFICES ASSUME q < d PROVE FALSE
      OBVIOUS
    <3>1. u * (q + 1) =< u * d
      BY <1>1, <2>1
    <3> QED
      BY <1>1, <2>1, <3>1
  <2>4. d = q
    BY <2>1, <2>2, <2>3
  <2> QED
    BY <1>1, <2>1, <2>4 DEF d, m
<1>3. ~(2 * (n % u) > u \/ (2 * (n % u) = u /\ (n \div u) % 2 = 1))
  BY <1>1, <1>2
<1>4. Rounded(n) = u * (n \div u)
  BY <1>3, Zenon DEF Rounded, u
<1> QED
  BY <1>1, <1>2, <1>4

(***************************************************************************)
(* What was rounded once is a float, and rounding it again changes         *)
(* nothing; it is off by at most half the distance between floats there,   *)
(* which is no larger than the one where it ends up; and only zero is      *)
(* rounded to zero.                                                        *)
(***************************************************************************)
LEMMA RoundedFacts ==
    ASSUME NEW n \in Nat
    PROVE  /\ Rounded(n) \in Nat /\ Rounded(Rounded(n)) = Rounded(n)
           /\ n # 0 => Rounded(n) # 0
           /\ Spacing[n] \in Nat \ {0} /\ Spacing[Rounded(n)] \in Nat
           /\ Spacing[n] =< Spacing[Rounded(n)]
           /\ 2 * (Rounded(n) - n) =< Spacing[n] /\ 2 * (n - Rounded(n)) =< Spacing[n]
           /\ Spacing[n] = 1 => Rounded(n) = n
<1> USE WireAssumption
<1> DEFINE u == Spacing[n]
           q == n \div u
           r == n % u
           p == IF 2 * r > u \/ (2 * r = u /\ q % 2 = 1) THEN q + 1 ELSE q
           y == u * p
<1>0. Half \in Nat \ {0} /\ Significands = 2 * Half
  BY DEF Half
<1>1. u \in Nat \ {0} /\ n < u * Significands /\ (u = 1 \/ u * Half =< n)
  BY SpacingBounds
<1>2. y = Rounded(n)
  BY Zenon DEF Rounded
<1> HIDE DEF u
<1>3. q \in Nat /\ r \in Nat /\ r < u /\ n = u * q + r
  BY <1>1
<1> HIDE DEF q, r
<1>4. p \in {q, q + 1} /\ p \in Nat
  BY <1>3
<1>5. 2 * (y - n) =< u /\ 2 * (n - y) =< u
  <2>1. CASE p = q
    <3>1. y = u * q /\ u * q \in Nat /\ 2 * r =< u
      BY <1>1, <1>3, <2>1
    <3> QED
      BY <1>1, <1>3, <3>1
  <2>2. CASE p = q + 1
    <3>1. y = u * q + u /\ u * q \in Nat /\ 2 * r >= u
      BY <1>1, <1>3, <2>2
    <3> QED
      BY <1>1, <1>3, <3>1
  <2> QED
    BY <1>4, <2>1, <2>2
<1>6. CASE u = 1
  <2>1. r = 0 /\ q = n
    BY <1>1, <1>3, <1>6
  <2>2. y = n
    BY <1>6, <2>1
  <2>3. Rounded(n) = n
    BY <1>2, <2>2
  <2> HIDE DEF y
  <2> QED
    BY <1>1, <1>2, <1>5, <2>3 DEF u
<1>7. CASE u * Half =< n /\ u # 1
  <2> HIDE DEF p
  <2>1. Half =< q
    <3>1. u * Half \in Nat /\ u * q \in Nat
      BY <1>0, <1>1, <1>3
    <3>2. u * Half < u * (q + 1)
      BY <1>1, <1>3, <1>7, <3>1
    <3> QED
      BY <1>0, <1>1, <1>3, <3>2
  <2>2. q < Significands
    <3>1. u * q < u * Significands
      BY <1>1, <1>3
    <3> QED
      BY <1>1, <1>3, <3>1
  <2>3. Half =< p /\ p =< Significands
    BY <1>0, <1>3, <1>4, <2>1, <2>2
  <2>4. y \in Nat /\ u * Half =< y /\ y # 0
    BY <1>0, <1>1, <1>4, <2>3
  <2>5. CASE p < Significands
    <3>1. y < u * Significands
      BY <1>1, <1>4, <2>5
    <3>2. Spacing[y] = u
      BY <2>4, <3>1, SameSpacing DEF u
    <3>3. Rounded(y) = y
      <4>1. y = Spacing[y] * p
        BY <3>2
      <4> HIDE DEF y
      <4> QED
        BY <1>4, <2>4, <4>1, MultiplesStay
    <3> HIDE DEF y
    <3> QED
      BY <1>1, <1>2, <1>7, <1>5, <2>4, <3>2, <3>3 DEF u
  <2>6. CASE p = Significands
    <3> DEFINE z == y \div 2
    <3>1. y = 2 * (u * Half) /\ u * Half \in Nat
      BY <1>0, <1>1, <2>6
    <3>2. z = u * Half
      BY <3>1
    <3>3. u * Half < u * Significands
      BY <1>0, <1>1
    <3>4. Spacing[z] = u
      BY <3>1, <3>2, <3>3, SameSpacing DEF u
    <3>5. y >= Significands
      BY <1>1, <2>6
    <3>6. Spacing[y] = 2 * u
      BY <2>4, <3>4, <3>5, SpacingFacts
    <3>7. y = Spacing[y] * Half
      BY <1>0, <1>1, <3>1, <3>6
    <3>8. Rounded(y) = y
      <4> HIDE DEF y
      <4> QED
        BY <1>0, <2>4, <3>7, MultiplesStay
    <3> HIDE DEF y
    <3> QED
      BY <1>1, <1>2, <1>7, <1>5, <2>4, <3>6, <3>8 DEF u
  <2> QED
    BY <1>4, <2>3, <2>5, <2>6
<1> QED
  BY <1>1, <1>6, <1>7

(***************************************************************************)
(* A number that came through a float comes through another one unchanged. *)
(***************************************************************************)
LEMMA RoundingSettles ==
    ASSUME NEW x \in Int
    PROVE  /\ EncodeFloat(x) \in Int
           /\ EncodeFloat(EncodeFloat(x)) = EncodeFloat(x)
           /\ x >= 0 => EncodeFloat(x) >= 0
<1>1. ASSUME NEW z \in Int
      PROVE  EncodeFloat(z) = IF z < 0 THEN -Rounded(Abs(z)) ELSE Rounded(Abs(z))
  BY Zenon DEF EncodeFloat, Rounded, Ulp
<1> DEFINE n == Abs(x)
           y == Rounded(n)
<1>2. n \in Nat /\ (x # 0 => n # 0)
  BY DEF Abs
<1>3. y \in Nat /\ Rounded(y) = y /\ (n # 0 => y # 0)
  BY <1>2, RoundedFacts
<1> HIDE DEF n, y
<1>4. EncodeFloat(x) = IF x < 0 THEN -y ELSE y
  BY <1>1 DEF n, y
<1>5. Abs(-y) = y /\ Abs(y) = y
  BY <1>3 DEF Abs
<1>6. CASE x < 0
  <2>1. -y \in Int /\ -y < 0
    BY <1>2, <1>3, <1>6
  <2>2. EncodeFloat(-y) = -y
    BY <1>1, <1>3, <1>5, <2>1
  <2> QED
    BY <1>4, <1>6, <2>1, <2>2
<1>7. CASE ~(x < 0)
  <2>1. EncodeFloat(y) = y
    BY <1>1, <1>3, <1>5
  <2> QED
    BY <1>3, <1>4, <1>7, <2>1
<1> QED
  BY <1>6, <1>7

-----------------------------------------------------------------------------
(* Headers on and off a packet.                                            *)

\* g tells, for every n up to k, how many bytes the first n fields of b take.
TotalsUpTo(g, b, k) == g = [n \in 0..k |-> IF n = 0 THEN 0 ELSE g[n - 1] + b[n].width]

(***************************************************************************)
(* What the first fields of a packet take, one field after the other.      *)
(***************************************************************************)
LEMMA TotalsFacts ==
    ASSUME NEW E, \A e \in E : e.width \in Nat \ {0}, NEW b \in Seq(E)
    PROVE  /\ BytesUpTo(b)[0] = 0
           /\ \A i \in 1..Len(b) : BytesUpTo(b)[i] = BytesUpTo(b)[i - 1] + b[i].width
           /\ \A i \in 0..Len(b) : BytesUpTo(b)[i] \in Nat
           /\ \A i, j \in 0..Len(b) : i < j => BytesUpTo(b)[i] < BytesUpTo(b)[j]
<1> DEFINE Fails == {k \in Nat : ~ \E g : TotalsUpTo(g, b, k)}
<1>1. 0 \notin Fails
  <2>1. TotalsUpTo([n \in 0..0 |-> 0], b, 0)
    BY DEF TotalsUpTo
  <2> QED
    BY <2>1
<1>2. ASSUME NEW k \in Nat, k # 0, k - 1 \in Nat, k - 1 \notin Fails
      PROVE  k \notin Fails
  <2>1. PICK g : TotalsUpTo(g, b, k - 1)
    BY <1>2
  <2> DEFINE next == g[k - 1] + b[k].width
             h == [n \in 0..k |-> IF n = k THEN next ELSE g[n]]
  <2>2. \A n \in 0..(k - 1) : g[n] = IF n = 0 THEN 0 ELSE g[n - 1] + b[n].width
    BY <2>1 DEF TotalsUpTo
  <2>3. \A n \in 0..k : n # 0 => n - 1 \in 0..k /\ n - 1 # k /\ (n # k => n \in 0..(k - 1))
    BY <1>2
  <2>4. \A n \in 0..k : h[n] = IF n = k THEN next ELSE g[n]
    OBVIOUS
  <2> HIDE DEF next
  <2>5. \A n \in 0..k : h[n] = IF n = 0 THEN 0 ELSE h[n - 1] + b[n].width
    <3> TAKE n \in 0..k
    <3>1. CASE n = k
      BY <1>2, <2>3, <2>4, <3>1 DEF next
    <3>2. CASE n # k /\ n # 0
      BY <2>2, <2>3, <2>4, <3>2
    <3>3. CASE n # k /\ n = 0
      <4>1. n \in 0..(k - 1)
        BY <1>2, <3>3
      <4> QED
        BY <2>2, <2>4, <3>3, <4>1
    <3> QED
      BY <3>1, <3>2, <3>3
  <2>6. TotalsUpTo(h, b, k)
    BY <2>5 DEF TotalsUpTo
  <2> QED
    BY <2>6
<1>3. Len(b) \in Nat /\ Len(b) \notin Fails
  <2>1. Len(b) \in Nat
    OBVIOUS
  <2> HIDE DEF Fails
  <2>2. Fails \in SUBSET Nat
    BY DEF Fails
  <2> QED
    BY <1>1, <1>2, <2>1, <2>2, FirstFailure
<1> DEFINE t == CHOOSE g : TotalsUpTo(g, b, Len(b))
<1>4. TotalsUpTo(t, b, Len(b))
  BY <1>3
<1>5. BytesUpTo(b) = t
  BY DEF BytesUpTo, TotalsUpTo
<1> HIDE DEF t, Fails
<1>6. \A n \in 0..Len(b) : t[n] = IF n = 0 THEN 0 ELSE t[n - 1] + b[n].width
  BY <1>4 DEF TotalsUpTo
<1>7. t[0] = 0 /\ \A i \in 1..Len(b) : t[i] = t[i - 1] + b[i].width
  <2>1. 0 \in 0..Len(b) /\ \A i \in 1..Len(b) : i \in 0..Len(b) /\ i # 0
    BY <1>3
  <2> QED
    BY <1>6, <2>1
<1>8. \A i \in 1..Len(b) : b[i].width \in Nat /\ b[i].width > 0
  OBVIOUS
\* The total of the first i fields is a number, above that of fewer fields.
<1> DEFINE Rises(i) == t[i] \in Nat /\ \A j \in 0..Len(b) : j < i => t[j] \in Nat /\ t[j] < t[i]
           Falls == {i \in 0..Len(b) : ~Rises(i)}
<1>9. ASSUME NEW i \in 1..Len(b), Rises(i - 1) PROVE Rises(i)
  <2>1. t[i] = t[i - 1] + b[i].width /\ t[i - 1] \in Nat /\ i - 1 \in Nat /\ i \in Nat
    BY <1>7, <1>9
  <2>2. t[i] \in Nat /\ t[i - 1] < t[i]
    BY <1>8, <2>1
  <2>3. ASSUME NEW j \in 0..Len(b), j < i PROVE t[j] \in Nat /\ t[j] < t[i]
    <3>1. CASE j = i - 1
      BY <2>1, <2>2, <3>1
    <3>2. CASE j < i - 1
      BY <1>9, <2>1, <2>2, <3>2
    <3> QED
      BY <2>1, <2>3, <3>1, <3>2
  <2> QED
    BY <2>2, <2>3
<1>10. Rises(0)
  BY <1>3, <1>7
<1>11. Falls = {}
  <2> SUFFICES ASSUME Falls # {} PROVE FALSE
    OBVIOUS
  <2>1. Falls \in SUBSET Nat
    BY <1>3
  <2> HIDE DEF Rises
  <2>2. PICK n \in Falls : n = 0 \/ (n - 1 \in Nat /\ n - 1 \notin Falls)
    BY <2>1, FirstFailure
  <2>3. n \in 1..Len(b) /\ n - 1 \in 0..Len(b)
    BY <1>3, <1>10, <2>2
  <2> QED
    BY <1>9, <2>2, <2>3
<1>12. \A i \in 0..Len(b) : Rises(i)
  BY <1>11
<1> QED
  BY <1>5, <1>7, <1>12

(***************************************************************************)
(* A header that fits the room made for it is read where it was written,   *)
(* and taking it off leaves what it was put before.                        *)
(***************************************************************************)
LEMMA OnAndOff ==
    ASSUME NEW E, \A e \in E : e.width \in Nat \ {0},
           NEW fields \in Seq(E), NEW b \in Seq(E), NEW size, Bytes(fields) = size
    PROVE  /\ AddHeader(b, size, fields) \in Seq(E)
           /\ \A i \in 1..Len(fields) : AddHeader(b, size, fields)[i] = fields[i]
           /\ RemoveHeader(AddHeader(b, size, fields), size) = b
           /\ Bytes(<<>>) = 0
<1> DEFINE p == fields \o b
           n == Len(fields)
<1>1. /\ n \in Nat /\ Len(b) \in Nat /\ p \in Seq(E) /\ Len(p) = n + Len(b)
      /\ \A i \in 1..n : p[i] = fields[i]
      /\ \A i \in 1..Len(b) : p[n + i] = b[i]
  OBVIOUS
<1>2. size = BytesUpTo(fields)[n] /\ size \in Nat
  BY <1>1, TotalsFacts DEF Bytes
<1>3. AddHeader(b, size, fields) = p
  <2>1. fields \o <<>> = fields
    OBVIOUS
  <2>2. Bytes(fields) =< size /\ ~(Bytes(fields) < size)
    BY <1>2
  <2>3. AddHeader(b, size, fields) =
            fields \o (IF Bytes(fields) < size THEN <<Field(size - Bytes(fields), 0)>> ELSE <<>>)
            \o b
    BY <2>2 DEF AddHeader
  <2>4. (IF Bytes(fields) < size THEN <<Field(size - Bytes(fields), 0)>> ELSE <<>>) = <<>>
    BY <2>2
  <2> QED
    BY <2>1, <2>3, <2>4
<1> HIDE DEF p
<1> DEFINE f == BytesUpTo(fields)
           t == BytesUpTo(p)
<1>4. /\ f[0] = 0 /\ \A i \in 1..n : f[i] = f[i - 1] + fields[i].width
      /\ t[0] = 0 /\ \A i \in 1..Len(p) : t[i] = t[i - 1] + p[i].width
      /\ \A i \in 0..Len(p) : t[i] \in Nat
      /\ \A i, j \in 0..Len(p) : i < j => t[i] < t[j]
  BY <1>1, TotalsFacts
<1> HIDE DEF f, t
<1> DEFINE Fails == {i \in 0..n : t[i] # f[i]}
<1>5. Fails = {}
  <2> SUFFICES ASSUME Fails # {} PROVE FALSE
    OBVIOUS
  <2>1. Fails \in SUBSET Nat
    BY <1>1
  <2>2. PICK i \in Fails : i = 0 \/ (i - 1 \in Nat /\ i - 1 \notin Fails)
    BY <2>1, FirstFailure
  <2>3. i \in 1..n /\ i - 1 \in 0..n /\ i \in 1..Len(p) /\ t[i - 1] = f[i - 1]
    BY <1>1, <1>4, <2>2
  <2> QED
    BY <1>1, <1>4, <2>2, <2>3
<1>6. t[n] = size /\ n \in 0..Len(p)
  <2>1. n \in 0..n /\ n \in 0..Len(p)
    BY <1>1
  <2> QED
    BY <1>2, <1>5, <2>1 DEF f
<1> DEFINE covering == {i \in 0..Len(p) : t[i] >= size}
           first == CHOOSE i \in covering : \A j \in covering : i =< j
<1>7. first = n
  <2>1. n \in covering
    BY <1>2, <1>6
  <2>2. \A i \in covering : n =< i
    BY <1>1, <1>2, <1>4, <1>6
  <2>3. \A i \in covering : (\A j \in covering : i =< j) => i = n
    BY <1>1, <2>1, <2>2
  <2> QED
    BY <2>1, <2>2, <2>3
<1>8. After(p, size) = SubSeq(p, n + 1, Len(p))
  <2>1. covering # {}
    BY <1>2, <1>6
  <2>2. After(p, size) = IF covering = {} THEN <<>> ELSE SubSeq(p, first + 1, Len(p))
    BY DEF After, t
  <2> HIDE DEF covering, first
  <2> QED
    BY <1>7, <2>1, <2>2
<1>9. SubSeq(p, n + 1, Len(p)) = b
  BY <1>1
<1>10. Bytes(<<>>) = 0
  <2>1. <<>> \in Seq(E) /\ Len(<<>>) = 0
    OBVIOUS
  <2>2. BytesUpTo(<<>>)[0] = 0
    BY <2>1, TotalsFacts
  <2> QED
    BY <2>1, <2>2 DEF Bytes
<1> QED
  BY <1>1, <1>3, <1>8, <1>9, <1>10 DEF RemoveHeader

\* A sequence of fields, each of some bytes.
IsPacket(b) ==
    /\ b \in Seq({b[i] : i \in DOMAIN b})
    /\ \A i \in DOMAIN b : b[i].width \in Nat \ {0}

(***************************************************************************)
(* A packet that gets a header is a packet again.                          *)
(***************************************************************************)
LEMMA PacketWithHeader ==
    ASSUME NEW fields, NEW b, NEW size, IsPacket(fields), IsPacket(b), Bytes(fields) = size
    PROVE  /\ IsPacket(AddHeader(b, size, fields))
           /\ \A i \in 1..Len(fields) : AddHeader(b, size, fields)[i] = fields[i]
           /\ RemoveHeader(AddHeader(b, size, fields), size) = b
           /\ Bytes(<<>>) = 0
<1> DEFINE F == {fields[i] : i \in DOMAIN fields}
           B == {b[i] : i \in DOMAIN b}
           E == F \union B
           p == AddHeader(b, size, fields)
<1>1. /\ fields \in Seq(F) /\ b \in Seq(B)
      /\ \A e \in F : e.width \in Nat \ {0}
      /\ \A e \in B : e.width \in Nat \ {0}
  BY DEF IsPacket
<1> HIDE DEF F, B
<1>2. \A e \in E : e.width \in Nat \ {0}
  BY <1>1
<1>3. fields \in Seq(E) /\ b \in Seq(E)
  <2>1. \A i \in 1..Len(fields) : fields[i] \in E
    BY <1>1
  <2>2. \A i \in 1..Len(b) : b[i] \in E
    BY <1>1
  <2> HIDE DEF E
  <2> QED
    BY <1>1, <2>1, <2>2
<1> HIDE DEF E, p
<1>4. /\ p \in Seq(E) /\ \A i \in 1..Len(fields) : p[i] = fields[i]
      /\ RemoveHeader(p, size) = b /\ Bytes(<<>>) = 0
  BY <1>2, <1>3, OnAndOff DEF p
<1>5. IsPacket(p)
  <2>1. \A i \in DOMAIN p : p[i] \in E
    BY <1>4
  <2>2. p \in Seq({p[i] : i \in DOMAIN p})
    BY <1>4
  <2> QED
    BY <1>2, <2>1, <2>2 DEF IsPacket
<1> QED
  BY <1>4, <1>5 DEF p

(***************************************************************************)
(* What is written of a vector, and of numbers.                            *)
(***************************************************************************)
LEMMA FieldsWritten ==
    ASSUME NEW x, NEW u
    PROVE  /\ WriteU8(x) = <<Field(1, x % 256)>> /\ WriteU32(x) = <<Field(4, x)>>
           /\ WriteTime(x) = <<Field(8, x)>> /\ WriteFloat(x) = <<Field(4, EncodeFloat(x))>>
           /\ WriteVector(u) = <<Field(4, EncodeFloat(u.x)), Field(4, EncodeFloat(u.y)),
                                 Field(4, EncodeFloat(0))>>
<1>1. ASSUME NEW a, NEW b, NEW c
      PROVE  <<a>> \o <<b>> \o <<c>> = <<a, b, c>>
  <2> DEFINE s == <<a>> \o <<b>> \o <<c>>
  <2>1. s \in Seq({a, b, c}) /\ Len(s) = 3 /\ s[1] = a /\ s[2] = b /\ s[3] = c
    OBVIOUS
  <2> HIDE DEF s
  <2>2. s = <<a, b, c>>
    BY <2>1
  <2> QED
    BY <2>2 DEF s
<1>2. WriteVector(u) = <<Field(4, EncodeFloat(u.x))>> \o <<Field(4, EncodeFloat(u.y))>>
                       \o <<Field(4, EncodeFloat(0))>>
  BY DEF WriteVector, WriteFloat
<1> QED
  BY <1>1, <1>2 DEF WriteU8, WriteU32, WriteTime, WriteFloat

\* What is written of the four headers, piece by piece.
MessagePieces(a, b, c) ==
    <<a>> \o <<b>> \o <<c>>

UpdatePieces(a, b, c, d, e, f, g, h) ==
    <<a, b, c>> \o <<d, e, f>> \o <<g>> \o <<h>>

HelloPieces(a, b, c, d, e, f, g, h, i, j, k, l, m) ==
    <<a, b, c>> \o <<d, e, f>> \o <<g>> \o <<h, i, j>> \o <<k>> \o <<l>> \o <<m>>

DataPieces(a, b, c, d, e, f, g, h, i, j, k, l, m, n, o) ==
    <<a, b, c>> \o <<d, e, f>> \o <<g>> \o <<h, i, j>> \o <<k, l, m>> \o <<n>> \o <<o>>

(***************************************************************************)
(* The pieces of a message header are its fields, in that order.           *)
(***************************************************************************)
LEMMA MessagePiecesFields ==
    ASSUME NEW a, NEW b, NEW c
    PROVE  LET s == MessagePieces(a, b, c)
           IN  /\ s \in Seq({a, b, c}) /\ Len(s) = 3
               /\ s[1] = a /\ s[2] = b /\ s[3] = c
  BY SMTT(60) DEF MessagePieces

(***************************************************************************)
(* The pieces of a GLOBAL_UPDATE are its fields, in that order.            *)
(***************************************************************************)
LEMMA UpdatePiecesFields ==
    ASSUME NEW a, NEW b, NEW c, NEW d, NEW e, NEW f, NEW g, NEW h
    PROVE  LET s == UpdatePieces(a, b, c, d, e, f, g, h)
           IN  /\ s \in Seq({a, b, c, d, e, f, g, h}) /\ Len(s) = 8
               /\ s[1] = a /\ s[2] = b /\ s[3] = c /\ s[4] = d /\ s[5] = e /\ s[6] = f
               /\ s[7] = g /\ s[8] = h
  BY SMTT(60) DEF UpdatePieces

(***************************************************************************)
(* The pieces of a HELLO are its fields, in that order.                    *)
(***************************************************************************)
LEMMA HelloPiecesFields ==
    ASSUME NEW a, NEW b, NEW c, NEW d, NEW e, NEW f, NEW g, NEW h, NEW i, NEW j, NEW k, NEW l,
           NEW m
    PROVE  LET s == HelloPieces(a, b, c, d, e, f, g, h, i, j, k, l, m)
           IN  /\ s \in Seq({a, b, c, d, e, f, g, h, i, j, k, l, m}) /\ Len(s) = 13
               /\ s[1] = a /\ s[2] = b /\ s[3] = c /\ s[4] = d /\ s[5] = e /\ s[6] = f
               /\ s[7] = g /\ s[8] = h /\ s[9] = i /\ s[10] = j /\ s[11] = k /\ s[12] = l
               /\ s[13] = m
  BY SMTT(60) DEF HelloPieces

(***************************************************************************)
(* The pieces of a data header are its fields, in that order.              *)
(***************************************************************************)
LEMMA DataPiecesFields ==
    ASSUME NEW a, NEW b, NEW c, NEW d, NEW e, NEW f, NEW g, NEW h, NEW i, NEW j, NEW k, NEW l,
           NEW m, NEW n, NEW o
    PROVE  LET s == DataPieces(a, b, c, d, e, f, g, h, i, j, k, l, m, n, o)
           IN  /\ s \in Seq({a, b, c, d, e, f, g, h, i, j, k, l, m, n, o}) /\ Len(s) = 15
               /\ s[1] = a /\ s[2] = b /\ s[3] = c /\ s[4] = d /\ s[5] = e /\ s[6] = f
               /\ s[7] = g /\ s[8] = h /\ s[9] = i /\ s[10] = j /\ s[11] = k /\ s[12] = l
               /\ s[13] = m /\ s[14] = n /\ s[15] = o
  BY SMTT(60) DEF DataPieces

(***************************************************************************)
(* A sequence of fields that are each some bytes is a packet, and takes as *)
(* many as the fields add up to.                                           *)
(***************************************************************************)
LEMMA FieldsAddUp ==
    ASSUME NEW E, NEW s \in Seq(E), \A e \in E : e.width \in Nat \ {0}
    PROVE  /\ IsPacket(s)
           /\ BytesUpTo(s)[0] = 0
           /\ \A i \in 1..Len(s) : BytesUpTo(s)[i] = BytesUpTo(s)[i - 1] + s[i].width
<1>1. \A i \in DOMAIN s : s[i] \in E
  OBVIOUS
<1>2. s \in Seq({s[i] : i \in DOMAIN s})
  OBVIOUS
<1>3. IsPacket(s)
  BY <1>1, <1>2 DEF IsPacket
<1> QED
  BY <1>3, TotalsFacts

(***************************************************************************)
(* The fields of a message header are as many bytes as it says.            *)
(***************************************************************************)
LEMMA MessageFields ==
    ASSUME NEW h
    PROVE  LET s == SerializeMessage(h)
           IN  /\ IsPacket(s) /\ Len(s) = 3 /\ Bytes(s) = MessageHeaderSize
               /\ s[1] = Field(1, h.type % 256)
               /\ s[2] = Field(1, h.ttl % 256)
               /\ s[3] = Field(4, h.sequence)
<1> DEFINE s == SerializeMessage(h)
           a == Field(1, h.type % 256)
           b == Field(1, h.ttl % 256)
           c == Field(4, h.sequence)
           E == {a, b, c}
<1>1. s = MessagePieces(a, b, c)
  BY FieldsWritten DEF SerializeMessage, MessagePieces
<1>2. /\ a.width = 1 /\ b.width = 1 /\ c.width = 4
  BY DEF Field
<1> HIDE DEF s, a, b, c
<1>3. /\ s \in Seq(E) /\ Len(s) = 3
      /\ s[1] = a /\ s[2] = b /\ s[3] = c
  BY <1>1, MessagePiecesFields
<1>4. \A e \in E : e.width \in Nat \ {0}
  BY <1>2
<1> HIDE DEF E
<1>5. /\ IsPacket(s) /\ BytesUpTo(s)[0] = 0
      /\ \A i \in 1..3 : BytesUpTo(s)[i] = BytesUpTo(s)[i - 1] + s[i].width
  BY <1>3, <1>4, FieldsAddUp
<1>6. /\ s[1].width = 1 /\ s[2].width = 1 /\ s[3].width = 4
  BY <1>2, <1>3
<1>7. BytesUpTo(s)[3] = MessageHeaderSize
  BY <1>5, <1>6 DEF MessageHeaderSize
<1>8. Bytes(s) = MessageHeaderSize
  BY <1>3, <1>7 DEF Bytes
<1> QED
  BY <1>3, <1>5, <1>8 DEF s, a, b, c

(***************************************************************************)
(* So are those of a GLOBAL_UPDATE,                                        *)
(***************************************************************************)
LEMMA UpdateFields ==
    ASSUME NEW h
    PROVE  LET s == SerializeGlobalUpdate(h)
           IN  /\ IsPacket(s) /\ Len(s) = 8 /\ Bytes(s) = GlobalUpdateHeaderSize
               /\ s[1] = Field(4, EncodeFloat(h.position.x))
               /\ s[2] = Field(4, EncodeFloat(h.position.y))
               /\ s[4] = Field(4, EncodeFloat(h.velocity.x))
               /\ s[5] = Field(4, EncodeFloat(h.velocity.y))
               /\ s[7] = Field(4, h.originator)
               /\ s[8] = Field(8, h.timestamp)
<1> DEFINE s == SerializeGlobalUpdate(h)
           p1 == Field(4, EncodeFloat(h.position.x))
           p2 == Field(4, EncodeFloat(h.position.y))
           z == Field(4, EncodeFloat(0))
           v1 == Field(4, EncodeFloat(h.velocity.x))
           v2 == Field(4, EncodeFloat(h.velocity.y))
           o == Field(4, h.originator)
           t == Field(8, h.timestamp)
           E == {p1, p2, z, v1, v2, z, o, t}
<1>1. s = UpdatePieces(p1, p2, z, v1, v2, z, o, t)
  BY FieldsWritten DEF SerializeGlobalUpdate, UpdatePieces
<1>2. /\ p1.width = 4 /\ p2.width = 4 /\ z.width = 4 /\ v1.width = 4 /\ v2.width = 4
      /\ o.width = 4 /\ t.width = 8
  BY DEF Field
<1> HIDE DEF s, p1, p2, z, v1, v2, o, t
<1>3. /\ s \in Seq(E) /\ Len(s) = 8
      /\ s[1] = p1 /\ s[2] = p2 /\ s[3] = z /\ s[4] = v1 /\ s[5] = v2 /\ s[6] = z /\ s[7] = o
      /\ s[8] = t
  BY <1>1, UpdatePiecesFields
<1>4. \A e \in E : e.width \in Nat \ {0}
  BY <1>2
<1> HIDE DEF E
<1>5. /\ IsPacket(s) /\ BytesUpTo(s)[0] = 0
      /\ \A i \in 1..8 : BytesUpTo(s)[i] = BytesUpTo(s)[i - 1] + s[i].width
  BY <1>3, <1>4, FieldsAddUp
<1>6. /\ s[1].width = 4 /\ s[2].width = 4 /\ s[3].width = 4 /\ s[4].width = 4 /\ s[5].width = 4
      /\ s[6].width = 4 /\ s[7].width = 4 /\ s[8].width = 8
  BY <1>2, <1>3
<1>7. BytesUpTo(s)[8] = GlobalUpdateHeaderSize
  BY <1>5, <1>6 DEF GlobalUpdateHeaderSize
<1>8. Bytes(s) = GlobalUpdateHeaderSize
  BY <1>3, <1>7 DEF Bytes
<1> QED
  BY <1>3, <1>5, <1>8 DEF s, p1, p2, z, v1, v2, o, t

(***************************************************************************)
(* those of a HELLO,                                                       *)
(***************************************************************************)
LEMMA HelloFields ==
    ASSUME NEW h
    PROVE  LET s == SerializeHello(h)
           IN  /\ IsPacket(s) /\ Len(s) = 13 /\ Bytes(s) = HelloHeaderSize
               /\ s[1] = Field(4, EncodeFloat(h.sourcePosition.x))
               /\ s[2] = Field(4, EncodeFloat(h.sourcePosition.y))
               /\ s[4] = Field(4, EncodeFloat(h.sourceVelocity.x))
               /\ s[5] = Field(4, EncodeFloat(h.sourceVelocity.y))
               /\ s[7] = Field(4, h.originator)
               /\ s[8] = Field(4, EncodeFloat(h.lastHopPosition.x))
               /\ s[9] = Field(4, EncodeFloat(h.lastHopPosition.y))
               /\ s[11] = Field(4, EncodeFloat(h.averageHopDistance))
               /\ s[12] = Field(1, h.hopCount % 256)
               /\ s[13] = Field(8, h.timestamp)
<1> DEFINE s == SerializeHello(h)
           p1 == Field(4, EncodeFloat(h.sourcePosition.x))
           p2 == Field(4, EncodeFloat(h.sourcePosition.y))
           z == Field(4, EncodeFloat(0))
           v1 == Field(4, EncodeFloat(h.sourceVelocity.x))
           v2 == Field(4, EncodeFloat(h.sourceVelocity.y))
           o == Field(4, h.originator)
           l1 == Field(4, EncodeFloat(h.lastHopPosition.x))
           l2 == Field(4, EncodeFloat(h.lastHopPosition.y))
           d == Field(4, EncodeFloat(h.averageHopDistance))
           c == Field(1, h.hopCount % 256)
           t == Field(8, h.timestamp)
           E == {p1, p2, z, v1, v2, z, o, l1, l2, z, d, c, t}
<1>1. s = HelloPieces(p1, p2, z, v1, v2, z, o, l1, l2, z, d, c, t)
  BY FieldsWritten, ZenonT(60) DEF SerializeHello, HelloPieces
<1>2. /\ p1.width = 4 /\ p2.width = 4 /\ z.width = 4 /\ v1.width = 4 /\ v2.width = 4
      /\ o.width = 4 /\ l1.width = 4 /\ l2.width = 4 /\ d.width = 4 /\ c.width = 1
      /\ t.width = 8
  BY DEF Field
<1> HIDE DEF s, p1, p2, z, v1, v2, o, l1, l2, d, c, t
<1>3. /\ s \in Seq(E) /\ Len(s) = 13
      /\ s[1] = p1 /\ s[2] = p2 /\ s[3] = z /\ s[4] = v1 /\ s[5] = v2 /\ s[6] = z /\ s[7] = o
      /\ s[8] = l1 /\ s[9] = l2 /\ s[10] = z /\ s[11] = d /\ s[12] = c /\ s[13] = t
  BY <1>1, HelloPiecesFields, SMTT(60)
<1>4. \A e \in E : e.width \in Nat \ {0}
  BY <1>2
<1> HIDE DEF E
<1>5. /\ IsPacket(s) /\ BytesUpTo(s)[0] = 0
      /\ \A i \in 1..13 : BytesUpTo(s)[i] = BytesUpTo(s)[i - 1] + s[i].width
  BY <1>3, <1>4, FieldsAddUp
<1>6. /\ s[1].width = 4 /\ s[2].width = 4 /\ s[3].width = 4 /\ s[4].width = 4 /\ s[5].width = 4
      /\ s[6].width = 4 /\ s[7].width = 4 /\ s[8].width = 4 /\ s[9].width = 4
      /\ s[10].width = 4 /\ s[11].width = 4 /\ s[12].width = 1 /\ s[13].width = 8
  BY <1>2, <1>3
<1>7. BytesUpTo(s)[13] = HelloHeaderSize
  BY <1>5, <1>6 DEF HelloHeaderSize
<1>8. Bytes(s) = HelloHeaderSize
  BY <1>3, <1>7 DEF Bytes
<1> QED
  BY <1>3, <1>5, <1>8 DEF s, p1, p2, z, v1, v2, o, l1, l2, d, c, t

(***************************************************************************)
(* and those of a data header.                                             *)
(***************************************************************************)
LEMMA DataFields ==
    ASSUME NEW h
    PROVE  LET s == SerializeData(h)
           IN  /\ IsPacket(s) /\ Len(s) = 15 /\ Bytes(s) = DataHeaderSize
               /\ s[1] = Field(4, EncodeFloat(h.destinationPosition.x))
               /\ s[2] = Field(4, EncodeFloat(h.destinationPosition.y))
               /\ s[4] = Field(4, EncodeFloat(h.destinationVelocity.x))
               /\ s[5] = Field(4, EncodeFloat(h.destinationVelocity.y))
               /\ s[7] = Field(8, h.destinationTimestamp)
               /\ s[8] = Field(4, EncodeFloat(h.senderPosition.x))
               /\ s[9] = Field(4, EncodeFloat(h.senderPosition.y))
               /\ s[11] = Field(4, EncodeFloat(h.senderVelocity.x))
               /\ s[12] = Field(4, EncodeFloat(h.senderVelocity.y))
               /\ s[14] = Field(1, h.phaseFlags % 256)
               /\ s[15] = Field(1, h.hopCount % 256)
<1> DEFINE s == SerializeData(h)
           p1 == Field(4, EncodeFloat(h.destinationPosition.x))
           p2 == Field(4, EncodeFloat(h.destinationPosition.y))
           z == Field(4, EncodeFloat(0))
           v1 == Field(4, EncodeFloat(h.destinationVelocity.x))
           v2 == Field(4, EncodeFloat(h.destinationVelocity.y))
           t == Field(8, h.destinationTimestamp)
           q1 == Field(4, EncodeFloat(h.senderPosition.x))
           q2 == Field(4, EncodeFloat(h.senderPosition.y))
           w1 == Field(4, EncodeFloat(h.senderVelocity.x))
           w2 == Field(4, EncodeFloat(h.senderVelocity.y))
           f == Field(1, h.phaseFlags % 256)
           c == Field(1, h.hopCount % 256)
           E == {p1, p2, z, v1, v2, z, t, q1, q2, z, w1, w2, z, f, c}
<1>1. s = DataPieces(p1, p2, z, v1, v2, z, t, q1, q2, z, w1, w2, z, f, c)
  <2>1. /\ WriteVector(h.destinationPosition) = <<p1, p2, z>>
        /\ WriteVector(h.destinationVelocity) = <<v1, v2, z>>
        /\ WriteTime(h.destinationTimestamp) = <<t>>
        /\ WriteVector(h.senderPosition) = <<q1, q2, z>>
        /\ WriteVector(h.senderVelocity) = <<w1, w2, z>>
        /\ WriteU8(h.phaseFlags) = <<f>>
        /\ WriteU8(h.hopCount) = <<c>>
    BY FieldsWritten
  <2> HIDE DEF p1, p2, z, v1, v2, t, q1, q2, w1, w2, f, c
  <2> QED
    BY <2>1, Zenon DEF SerializeData, DataPieces
<1>2. /\ p1.width = 4 /\ p2.width = 4 /\ z.width = 4 /\ v1.width = 4 /\ v2.width = 4
      /\ t.width = 8 /\ q1.width = 4 /\ q2.width = 4 /\ w1.width = 4 /\ w2.width = 4
      /\ f.width = 1 /\ c.width = 1
  BY DEF Field
<1> HIDE DEF s, p1, p2, z, v1, v2, t, q1, q2, w1, w2, f, c
<1>3. /\ s \in Seq(E) /\ Len(s) = 15
      /\ s[1] = p1 /\ s[2] = p2 /\ s[3] = z /\ s[4] = v1 /\ s[5] = v2 /\ s[6] = z /\ s[7] = t
      /\ s[8] = q1 /\ s[9] = q2 /\ s[10] = z /\ s[11] = w1 /\ s[12] = w2 /\ s[13] = z
      /\ s[14] = f /\ s[15] = c
  BY <1>1, DataPiecesFields
<1>4. \A e \in E : e.width \in Nat \ {0}
  BY <1>2
<1> HIDE DEF E
<1>5. /\ IsPacket(s) /\ BytesUpTo(s)[0] = 0
      /\ \A i \in 1..15 : BytesUpTo(s)[i] = BytesUpTo(s)[i - 1] + s[i].width
  BY <1>3, <1>4, FieldsAddUp
<1>6. /\ s[1].width = 4 /\ s[2].width = 4 /\ s[3].width = 4 /\ s[4].width = 4 /\ s[5].width = 4
      /\ s[6].width = 4 /\ s[7].width = 8 /\ s[8].width = 4 /\ s[9].width = 4
      /\ s[10].width = 4 /\ s[11].width = 4 /\ s[12].width = 4 /\ s[13].width = 4
      /\ s[14].width = 1 /\ s[15].width = 1
  BY <1>2, <1>3
<1>7. BytesUpTo(s)[15] = DataHeaderSize
  BY <1>5, <1>6 DEF DataHeaderSize
<1>8. Bytes(s) = DataHeaderSize
  BY <1>3, <1>7 DEF Bytes
<1> QED
  BY <1>3, <1>5, <1>8 DEF s, p1, p2, z, v1, v2, t, q1, q2, w1, w2, f, c

-----------------------------------------------------------------------------
(* What is written of a header is what is read of it.                      *)

(***************************************************************************)
(* Where a HELLO was written, DeserializeHello reads it, its coordinates   *)
(* narrowed to floats and its hop count to a byte;                         *)
(***************************************************************************)
LEMMA HelloRead ==
    ASSUME NEW b, NEW h, \A i \in 1..13 : b[i] = SerializeHello(h)[i]
    PROVE  DeserializeHello(b) =
              [sourcePosition |-> Narrowed(h.sourcePosition),
               sourceVelocity |-> Narrowed(h.sourceVelocity),
               originator |-> h.originator,
               lastHopPosition |-> Narrowed(h.lastHopPosition),
               averageHopDistance |-> EncodeFloat(h.averageHopDistance),
               hopCount |-> h.hopCount % 256,
               timestamp |-> h.timestamp]
<1>1. /\ b[1] = Field(4, EncodeFloat(h.sourcePosition.x))
      /\ b[2] = Field(4, EncodeFloat(h.sourcePosition.y))
      /\ b[4] = Field(4, EncodeFloat(h.sourceVelocity.x))
      /\ b[5] = Field(4, EncodeFloat(h.sourceVelocity.y))
      /\ b[7] = Field(4, h.originator)
      /\ b[8] = Field(4, EncodeFloat(h.lastHopPosition.x))
      /\ b[9] = Field(4, EncodeFloat(h.lastHopPosition.y))
      /\ b[11] = Field(4, EncodeFloat(h.averageHopDistance))
      /\ b[12] = Field(1, h.hopCount % 256)
      /\ b[13] = Field(8, h.timestamp)
  BY HelloFields
<1>2. /\ ReadVector(b, 1) = Narrowed(h.sourcePosition)
      /\ ReadVector(b, 4) = Narrowed(h.sourceVelocity)
      /\ ReadVector(b, 8) = Narrowed(h.lastHopPosition)
  BY <1>1 DEF ReadVector, Read, Field, Narrowed
<1>3. /\ Read(b, 7, 4) = h.originator
      /\ Read(b, 11, 4) = EncodeFloat(h.averageHopDistance)
      /\ Read(b, 12, 1) = h.hopCount % 256
      /\ Read(b, 13, 8) = h.timestamp
  BY <1>1 DEF Read, Field
<1> QED
  BY <1>2, <1>3, Zenon DEF DeserializeHello

(***************************************************************************)
(* a GLOBAL_UPDATE likewise,                                               *)
(***************************************************************************)
LEMMA UpdateRead ==
    ASSUME NEW b, NEW h, \A i \in 1..8 : b[i] = SerializeGlobalUpdate(h)[i]
    PROVE  DeserializeGlobalUpdate(b) =
              [position |-> Narrowed(h.position), velocity |-> Narrowed(h.velocity),
               originator |-> h.originator, timestamp |-> h.timestamp]
<1>1. /\ b[1] = Field(4, EncodeFloat(h.position.x))
      /\ b[2] = Field(4, EncodeFloat(h.position.y))
      /\ b[4] = Field(4, EncodeFloat(h.velocity.x))
      /\ b[5] = Field(4, EncodeFloat(h.velocity.y))
      /\ b[7] = Field(4, h.originator)
      /\ b[8] = Field(8, h.timestamp)
  BY UpdateFields
<1>2. /\ ReadVector(b, 1) = Narrowed(h.position)
      /\ ReadVector(b, 4) = Narrowed(h.velocity)
  BY <1>1 DEF ReadVector, Read, Field, Narrowed
<1>3. Read(b, 7, 4) = h.originator /\ Read(b, 8, 8) = h.timestamp
  BY <1>1 DEF Read, Field
<1> QED
  BY <1>2, <1>3, Zenon DEF DeserializeGlobalUpdate

(***************************************************************************)
(* and a data header.                                                      *)
(***************************************************************************)
LEMMA DataRead ==
    ASSUME NEW b, NEW h, \A i \in 1..15 : b[i] = SerializeData(h)[i]
    PROVE  DeserializeData(b) =
              [destinationPosition |-> Narrowed(h.destinationPosition),
               destinationVelocity |-> Narrowed(h.destinationVelocity),
               destinationTimestamp |-> h.destinationTimestamp,
               senderPosition |-> Narrowed(h.senderPosition),
               senderVelocity |-> Narrowed(h.senderVelocity),
               phaseFlags |-> h.phaseFlags % 256, hopCount |-> h.hopCount % 256]
<1>1. /\ b[1] = Field(4, EncodeFloat(h.destinationPosition.x))
      /\ b[2] = Field(4, EncodeFloat(h.destinationPosition.y))
      /\ b[4] = Field(4, EncodeFloat(h.destinationVelocity.x))
      /\ b[5] = Field(4, EncodeFloat(h.destinationVelocity.y))
      /\ b[7] = Field(8, h.destinationTimestamp)
      /\ b[8] = Field(4, EncodeFloat(h.senderPosition.x))
      /\ b[9] = Field(4, EncodeFloat(h.senderPosition.y))
      /\ b[11] = Field(4, EncodeFloat(h.senderVelocity.x))
      /\ b[12] = Field(4, EncodeFloat(h.senderVelocity.y))
      /\ b[14] = Field(1, h.phaseFlags % 256)
      /\ b[15] = Field(1, h.hopCount % 256)
  BY DataFields
<1>2. /\ ReadVector(b, 1) = Narrowed(h.destinationPosition)
      /\ ReadVector(b, 4) = Narrowed(h.destinationVelocity)
      /\ ReadVector(b, 8) = Narrowed(h.senderPosition)
      /\ ReadVector(b, 11) = Narrowed(h.senderVelocity)
  BY <1>1 DEF ReadVector, Read, Field, Narrowed
<1>3. /\ Read(b, 7, 8) = h.destinationTimestamp
      /\ Read(b, 14, 1) = h.phaseFlags % 256
      /\ Read(b, 15, 1) = h.hopCount % 256
  BY <1>1 DEF Read, Field
<1> QED
  BY <1>2, <1>3, Zenon DEF DeserializeData

(***************************************************************************)
(* A HELLO behind its message header comes through a hop as it was sent:   *)
(* its kind, its fields, and nothing after them;                           *)
(***************************************************************************)
LEMMA HelloReceived ==
    ASSUME NEW ttl, NEW h
    PROVE  Received(Packed(HELLO, ttl, h)) =
              [kind |-> HELLO, ttl |-> ttl % 256,
               body |-> [sourcePosition |-> Narrowed(h.sourcePosition),
                         sourceVelocity |-> Narrowed(h.sourceVelocity),
                         originator |-> h.originator,
                         lastHopPosition |-> Narrowed(h.lastHopPosition),
                         averageHopDistance |-> EncodeFloat(h.averageHopDistance),
                         hopCount |-> h.hopCount % 256,
                         timestamp |-> h.timestamp],
               rest |-> <<>>]
<1> DEFINE fields == SerializeHello(h)
           inner == AddHeader(<<>>, HelloHeaderSize, fields)
           msg == [type |-> HELLO, ttl |-> ttl, sequence |-> now]
           packet == AddHeader(inner, MessageHeaderSize, SerializeMessage(msg))
<1>1. IsPacket(<<>>)
  BY DEF IsPacket
<1>2. IsPacket(fields) /\ Len(fields) = 13 /\ Bytes(fields) = HelloHeaderSize
  BY HelloFields
<1> HIDE DEF fields
<1>3. /\ IsPacket(inner) /\ \A i \in 1..13 : inner[i] = fields[i]
      /\ RemoveHeader(inner, HelloHeaderSize) = <<>>
  <2>1. IsPacket(inner)
    BY <1>1, <1>2, PacketWithHeader
  <2>2. \A i \in 1..13 : inner[i] = fields[i]
    <3>1. IsPacket(fields) /\ Bytes(fields) = HelloHeaderSize
      BY <1>2
    <3>2. \A i \in 1..Len(fields) : inner[i] = fields[i]
      BY <1>1, <3>1, PacketWithHeader
    <3> QED
      BY <1>2, <3>2
  <2>3. RemoveHeader(inner, HelloHeaderSize) = <<>>
    BY <1>1, <1>2, PacketWithHeader
  <2> QED
    BY <2>1, <2>2, <2>3
<1> HIDE DEF inner, msg
<1>4. LET s == SerializeMessage(msg)
      IN  /\ IsPacket(s) /\ Len(s) = 3 /\ Bytes(s) = MessageHeaderSize
          /\ s[1] = Field(1, msg.type % 256) /\ s[2] = Field(1, msg.ttl % 256)
  BY MessageFields
<1>5. /\ packet[1] = Field(1, msg.type % 256) /\ packet[2] = Field(1, msg.ttl % 256)
      /\ RemoveHeader(packet, MessageHeaderSize) = inner
  <2> DEFINE outer == SerializeMessage(msg)
  <2>1. IsPacket(outer) /\ Len(outer) = 3 /\ Bytes(outer) = MessageHeaderSize
    BY <1>4
  <2>2. outer[1] = Field(1, msg.type % 256) /\ outer[2] = Field(1, msg.ttl % 256)
    BY <1>4
  <2> HIDE DEF outer
  <2>3. \A i \in 1..3 : packet[i] = outer[i]
    <3>1. IsPacket(outer) /\ Bytes(outer) = MessageHeaderSize
      BY <2>1
    <3>2. \A i \in 1..Len(outer) : packet[i] = outer[i]
      BY <1>3, <3>1, PacketWithHeader DEF outer
    <3> QED
      BY <2>1, <3>2
  <2>4. RemoveHeader(packet, MessageHeaderSize) = inner
    BY <1>3, <2>1, PacketWithHeader DEF outer
  <2> QED
    BY <2>2, <2>3, <2>4
<1>6. msg.type % 256 = HELLO /\ msg.ttl = ttl
  BY DEF msg, HELLO
<1>7. /\ DeserializeMessage(packet).type = HELLO
      /\ DeserializeMessage(packet).ttl = ttl % 256
  BY <1>5, <1>6 DEF DeserializeMessage, Read, Field
<1>8. packet = Packed(HELLO, ttl, h)
  BY DEF Packed, packet, inner, msg, fields
<1> HIDE DEF packet
<1>9. Received(packet) = [kind |-> HELLO, ttl |-> ttl % 256, body |-> DeserializeHello(inner),
                          rest |-> RemoveHeader(inner, HelloHeaderSize)]
  BY <1>5, <1>7 DEF Received
<1> QED
  BY <1>3, <1>8, <1>9, HelloRead DEF fields

(***************************************************************************)
(* so does a GLOBAL_UPDATE.                                                *)
(***************************************************************************)
LEMMA UpdateReceived ==
    ASSUME NEW ttl, NEW h
    PROVE  Received(Packed(GLOBAL_UPDATE, ttl, h)) =
              [kind |-> GLOBAL_UPDATE, ttl |-> ttl % 256,
               body |-> [position |-> Narrowed(h.position), velocity |-> Narrowed(h.velocity),
                         originator |-> h.originator, timestamp |-> h.timestamp],
               rest |-> <<>>]
<1> DEFINE fields == SerializeGlobalUpdate(h)
           inner == AddHeader(<<>>, GlobalUpdateHeaderSize, fields)
           msg == [type |-> GLOBAL_UPDATE, ttl |-> ttl, sequence |-> now]
           packet == AddHeader(inner, MessageHeaderSize, SerializeMessage(msg))
<1>1. IsPacket(<<>>)
  BY DEF IsPacket
<1>2. IsPacket(fields) /\ Len(fields) = 8 /\ Bytes(fields) = GlobalUpdateHeaderSize
  BY UpdateFields
<1> HIDE DEF fields
<1>3. /\ IsPacket(inner) /\ \A i \in 1..8 : inner[i] = fields[i]
      /\ RemoveHeader(inner, GlobalUpdateHeaderSize) = <<>>
  <2>1. IsPacket(inner)
    BY <1>1, <1>2, PacketWithHeader
  <2>2. \A i \in 1..8 : inner[i] = fields[i]
    <3>1. IsPacket(fields) /\ Bytes(fields) = GlobalUpdateHeaderSize
      BY <1>2
    <3>2. \A i \in 1..Len(fields) : inner[i] = fields[i]
      BY <1>1, <3>1, PacketWithHeader
    <3> QED
      BY <1>2, <3>2
  <2>3. RemoveHeader(inner, GlobalUpdateHeaderSize) = <<>>
    BY <1>1, <1>2, PacketWithHeader
  <2> QED
    BY <2>1, <2>2, <2>3
<1> HIDE DEF inner, msg
<1>4. LET s == SerializeMessage(msg)
      IN  /\ IsPacket(s) /\ Len(s) = 3 /\ Bytes(s) = MessageHeaderSize
          /\ s[1] = Field(1, msg.type % 256) /\ s[2] = Field(1, msg.ttl % 256)
  BY MessageFields
<1>5. /\ packet[1] = Field(1, msg.type % 256) /\ packet[2] = Field(1, msg.ttl % 256)
      /\ RemoveHeader(packet, MessageHeaderSize) = inner
  <2> DEFINE outer == SerializeMessage(msg)
  <2>1. IsPacket(outer) /\ Len(outer) = 3 /\ Bytes(outer) = MessageHeaderSize
    BY <1>4
  <2>2. outer[1] = Field(1, msg.type % 256) /\ outer[2] = Field(1, msg.ttl % 256)
    BY <1>4
  <2> HIDE DEF outer
  <2>3. \A i \in 1..3 : packet[i] = outer[i]
    <3>1. IsPacket(outer) /\ Bytes(outer) = MessageHeaderSize
      BY <2>1
    <3>2. \A i \in 1..Len(outer) : packet[i] = outer[i]
      BY <1>3, <3>1, PacketWithHeader DEF outer
    <3> QED
      BY <2>1, <3>2
  <2>4. RemoveHeader(packet, MessageHeaderSize) = inner
    BY <1>3, <2>1, PacketWithHeader DEF outer
  <2> QED
    BY <2>2, <2>3, <2>4
<1>6. msg.type % 256 = GLOBAL_UPDATE /\ msg.ttl = ttl /\ HELLO # GLOBAL_UPDATE
  BY DEF msg, GLOBAL_UPDATE, HELLO
<1>7. /\ DeserializeMessage(packet).type = GLOBAL_UPDATE
      /\ DeserializeMessage(packet).ttl = ttl % 256
  BY <1>5, <1>6 DEF DeserializeMessage, Read, Field
<1>8. packet = Packed(GLOBAL_UPDATE, ttl, h)
  BY <1>6 DEF Packed, packet, inner, msg, fields
<1> HIDE DEF packet
<1>9. Received(packet) = [kind |-> GLOBAL_UPDATE, ttl |-> ttl % 256,
                          body |-> DeserializeGlobalUpdate(inner),
                          rest |-> RemoveHeader(inner, GlobalUpdateHeaderSize)]
  BY <1>5, <1>6, <1>7 DEF Received
<1> QED
  BY <1>3, <1>8, <1>9, UpdateRead DEF fields

(***************************************************************************)
(* What narrowing the coordinates of a GLOBAL_UPDATE makes of it,          *)
(***************************************************************************)
LEMMA UpdateNarrowed ==
    ASSUME NEW p, NEW v, NEW o, NEW t
    PROVE  NarrowedUpdate([position |-> p, velocity |-> v, originator |-> o, timestamp |-> t]) =
              [position |-> Narrowed(p), velocity |-> Narrowed(v), originator |-> o,
               timestamp |-> t]
<1> DEFINE r0 == [position |-> p, velocity |-> v, originator |-> o, timestamp |-> t]
           r1 == [position |-> Narrowed(p), velocity |-> v, originator |-> o, timestamp |-> t]
           r2 == [position |-> Narrowed(p), velocity |-> Narrowed(v), originator |-> o,
                  timestamp |-> t]
<1>1. [r0 EXCEPT !.position = Narrowed(@)] = r1
  OBVIOUS
<1>2. [r1 EXCEPT !.velocity = Narrowed(@)] = r2
  OBVIOUS
<1> HIDE DEF r0, r1, r2
<1>3. NarrowedUpdate(r0) = [[r0 EXCEPT !.position = Narrowed(@)] EXCEPT !.velocity = Narrowed(@)]
  BY DEF NarrowedUpdate
<1> QED
  BY <1>1, <1>2, <1>3 DEF r0, r2

(***************************************************************************)
(* of a HELLO,                                                             *)
(***************************************************************************)
LEMMA HelloNarrowed ==
    ASSUME NEW p, NEW v, NEW o, NEW l, NEW d, NEW c, NEW t
    PROVE  NarrowedHello([sourcePosition |-> p, sourceVelocity |-> v, originator |-> o,
                          lastHopPosition |-> l, averageHopDistance |-> d, hopCount |-> c,
                          timestamp |-> t]) =
              [sourcePosition |-> Narrowed(p), sourceVelocity |-> Narrowed(v),
               originator |-> o, lastHopPosition |-> Narrowed(l),
               averageHopDistance |-> EncodeFloat(d), hopCount |-> c, timestamp |-> t]
<1> DEFINE Hello(a, b, e, f) == [sourcePosition |-> a, sourceVelocity |-> b, originator |-> o,
                                 lastHopPosition |-> e, averageHopDistance |-> f,
                                 hopCount |-> c, timestamp |-> t]
<1>1. [Hello(p, v, l, d) EXCEPT !.sourcePosition = Narrowed(@)] = Hello(Narrowed(p), v, l, d)
  OBVIOUS
<1>2. [Hello(Narrowed(p), v, l, d) EXCEPT !.sourceVelocity = Narrowed(@)]
        = Hello(Narrowed(p), Narrowed(v), l, d)
  OBVIOUS
<1>3. [Hello(Narrowed(p), Narrowed(v), l, d) EXCEPT !.lastHopPosition = Narrowed(@)]
        = Hello(Narrowed(p), Narrowed(v), Narrowed(l), d)
  OBVIOUS
<1>4. [Hello(Narrowed(p), Narrowed(v), Narrowed(l), d)
          EXCEPT !.averageHopDistance = EncodeFloat(@)]
        = Hello(Narrowed(p), Narrowed(v), Narrowed(l), EncodeFloat(d))
  OBVIOUS
<1> HIDE DEF Hello
<1>5. NarrowedHello(Hello(p, v, l, d)) =
         [[[[Hello(p, v, l, d) EXCEPT !.sourcePosition = Narrowed(@)]
                EXCEPT !.sourceVelocity = Narrowed(@)]
                EXCEPT !.lastHopPosition = Narrowed(@)]
                EXCEPT !.averageHopDistance = EncodeFloat(@)]
  BY DEF NarrowedHello
<1> QED
  BY <1>1, <1>2, <1>3, <1>4, <1>5 DEF Hello

(***************************************************************************)
(* and of a data header.                                                   *)
(***************************************************************************)
LEMMA DataNarrowed ==
    ASSUME NEW u, NEW v, NEW t, NEW q, NEW w, NEW f, NEW c
    PROVE  NarrowedData([destinationPosition |-> u, destinationVelocity |-> v,
                         destinationTimestamp |-> t, senderPosition |-> q,
                         senderVelocity |-> w, phaseFlags |-> f, hopCount |-> c]) =
              [destinationPosition |-> Narrowed(u), destinationVelocity |-> Narrowed(v),
               destinationTimestamp |-> t, senderPosition |-> Narrowed(q),
               senderVelocity |-> Narrowed(w), phaseFlags |-> f, hopCount |-> c]
<1> DEFINE Data(a, b, d, e) == [destinationPosition |-> a, destinationVelocity |-> b,
                                destinationTimestamp |-> t, senderPosition |-> d,
                                senderVelocity |-> e, phaseFlags |-> f, hopCount |-> c]
<1>1. [Data(u, v, q, w) EXCEPT !.destinationPosition = Narrowed(@)]
        = Data(Narrowed(u), v, q, w)
  OBVIOUS
<1>2. [Data(Narrowed(u), v, q, w) EXCEPT !.destinationVelocity = Narrowed(@)]
        = Data(Narrowed(u), Narrowed(v), q, w)
  OBVIOUS
<1>3. [Data(Narrowed(u), Narrowed(v), q, w) EXCEPT !.senderPosition = Narrowed(@)]
        = Data(Narrowed(u), Narrowed(v), Narrowed(q), w)
  OBVIOUS
<1>4. [Data(Narrowed(u), Narrowed(v), Narrowed(q), w) EXCEPT !.senderVelocity = Narrowed(@)]
        = Data(Narrowed(u), Narrowed(v), Narrowed(q), Narrowed(w))
  OBVIOUS
<1> HIDE DEF Data
<1>5. NarrowedData(Data(u, v, q, w)) =
         [[[[Data(u, v, q, w) EXCEPT !.destinationPosition = Narrowed(@)]
                EXCEPT !.destinationVelocity = Narrowed(@)]
                EXCEPT !.senderPosition = Narrowed(@)]
                EXCEPT !.senderVelocity = Narrowed(@)]
  BY DEF NarrowedData
<1> QED
  BY <1>1, <1>2, <1>3, <1>4, <1>5 DEF Data

(***************************************************************************)
(* The headers come back, in any state: the HELLO and the GLOBAL_UPDATE a  *)
(* node sends, and the data header it puts before a payload, are read      *)
(* field by field as they were written, with coordinates no nearer than a  *)
(* float comes, and taking them off leaves exactly what they were put      *)
(* before.  Of HeadersIntact it leaves out the part about a second hop,    *)
(* that a float read is not rounded again.                                 *)
(***************************************************************************)
THEOREM HeadersComeBack ==
    /\ Received(Packed(HELLO, Ttl, HelloBody)) =
          [kind |-> HELLO, ttl |-> Ttl, body |-> NarrowedHello(HelloBody), rest |-> <<>>]
    /\ Received(Packed(GLOBAL_UPDATE, Ttl, GlobalUpdateBody)) =
          [kind |-> GLOBAL_UPDATE, ttl |-> Ttl, body |-> NarrowedUpdate(GlobalUpdateBody),
           rest |-> <<>>]
    /\ \A h \in DataHeaders :
          LET packet == AddHeader(<<Payload>>, DataHeaderSize, SerializeData(h))
          IN  /\ DeserializeData(packet) = NarrowedData(h)
              /\ RemoveHeader(packet, DataHeaderSize) = <<Payload>>
<1>1. Ttl % 256 = Ttl
  BY TrackingAssumption
<1>2. Received(Packed(HELLO, Ttl, HelloBody)) =
          [kind |-> HELLO, ttl |-> Ttl, body |-> NarrowedHello(HelloBody), rest |-> <<>>]
  <2>1. NarrowedHello(HelloBody) =
           [sourcePosition |-> Narrowed(pos), sourceVelocity |-> Narrowed(vel),
            originator |-> Peer, lastHopPosition |-> Narrowed(pos),
            averageHopDistance |-> EncodeFloat(0), hopCount |-> 1, timestamp |-> now]
    BY HelloNarrowed DEF HelloBody
  <2>2. /\ HelloBody.sourcePosition = pos /\ HelloBody.sourceVelocity = vel
        /\ HelloBody.originator = Peer /\ HelloBody.lastHopPosition = pos
        /\ HelloBody.averageHopDistance = 0 /\ HelloBody.hopCount % 256 = 1
        /\ HelloBody.timestamp = now
    BY DEF HelloBody
  <2> QED
    BY <1>1, <2>1, <2>2, HelloReceived
<1>3. Received(Packed(GLOBAL_UPDATE, Ttl, GlobalUpdateBody)) =
          [kind |-> GLOBAL_UPDATE, ttl |-> Ttl, body |-> NarrowedUpdate(GlobalUpdateBody),
           rest |-> <<>>]
  <2>1. NarrowedUpdate(GlobalUpdateBody) =
           [position |-> Narrowed(pos), velocity |-> Narrowed(vel), originator |-> Peer,
            timestamp |-> now]
    BY UpdateNarrowed DEF GlobalUpdateBody
  <2>2. /\ GlobalUpdateBody.position = pos /\ GlobalUpdateBody.velocity = vel
        /\ GlobalUpdateBody.originator = Peer /\ GlobalUpdateBody.timestamp = now
    BY DEF GlobalUpdateBody
  <2> QED
    BY <1>1, <2>1, <2>2, UpdateReceived
<1>4. ASSUME NEW h \in DataHeaders
      PROVE  LET packet == AddHeader(<<Payload>>, DataHeaderSize, SerializeData(h))
             IN  /\ DeserializeData(packet) = NarrowedData(h)
                 /\ RemoveHeader(packet, DataHeaderSize) = <<Payload>>
  <2> DEFINE fields == SerializeData(h)
             packet == AddHeader(<<Payload>>, DataHeaderSize, fields)
  <2>1. IsPacket(<<Payload>>)
    BY DEF IsPacket, Payload, Field
  <2>2. IsPacket(fields) /\ Len(fields) = 15 /\ Bytes(fields) = DataHeaderSize
    BY DataFields
  <2> HIDE DEF fields
  <2>3. /\ \A i \in 1..15 : packet[i] = fields[i]
        /\ RemoveHeader(packet, DataHeaderSize) = <<Payload>>
    <3>1. \A i \in 1..15 : packet[i] = fields[i]
      <4>1. IsPacket(fields) /\ Bytes(fields) = DataHeaderSize
        BY <2>2
      <4>2. \A i \in 1..Len(fields) : packet[i] = fields[i]
        BY <2>1, <4>1, PacketWithHeader
      <4> QED
        BY <2>2, <4>2
    <3>2. RemoveHeader(packet, DataHeaderSize) = <<Payload>>
      BY <2>1, <2>2, PacketWithHeader
    <3> QED
      BY <3>1, <3>2
  <2> HIDE DEF packet
  <2>4. PICK u, v, t, phase :
           /\ phase \in {0, 1, 2}
           /\ h = [destinationPosition |-> u, destinationVelocity |-> v,
                   destinationTimestamp |-> t,
                   senderPosition |-> MyPosition, senderVelocity |-> MyVelocity,
                   phaseFlags |-> phase, hopCount |-> 0]
    BY DEF DataHeaders
  <2>5. DeserializeData(packet) =
           [destinationPosition |-> Narrowed(u), destinationVelocity |-> Narrowed(v),
            destinationTimestamp |-> t,
            senderPosition |-> Narrowed(MyPosition), senderVelocity |-> Narrowed(MyVelocity),
            phaseFlags |-> phase, hopCount |-> 0]
    <3>1. /\ h.destinationPosition = u /\ h.destinationVelocity = v
          /\ h.destinationTimestamp = t
          /\ h.senderPosition = MyPosition /\ h.senderVelocity = MyVelocity
          /\ h.phaseFlags % 256 = phase /\ h.hopCount % 256 = 0
      BY <2>4
    <3>2. \A i \in 1..15 : packet[i] = SerializeData(h)[i]
      BY <2>3 DEF fields
    <3>3. DeserializeData(packet) =
             [destinationPosition |-> Narrowed(h.destinationPosition),
              destinationVelocity |-> Narrowed(h.destinationVelocity),
              destinationTimestamp |-> h.destinationTimestamp,
              senderPosition |-> Narrowed(h.senderPosition),
              senderVelocity |-> Narrowed(h.senderVelocity),
              phaseFlags |-> h.phaseFlags % 256, hopCount |-> h.hopCount % 256]
      BY <3>2, DataRead
    <3> QED
      BY <3>1, <3>3
  <2>6. DeserializeData(packet) = NarrowedData(h)
    BY <2>4, <2>5, DataNarrowed
  <2> QED
    BY <2>3, <2>6 DEF packet, fields
<1> QED
  BY <1>2, <1>3, <1>4

(***************************************************************************)
(* What is under way of a message is a message of that kind, due when it   *)
(* was to be.                                                              *)
(***************************************************************************)
LEMMA SentKind ==
    ASSUME NEW kind \in {HELLO, GLOBAL_UPDATE}, NEW ttl, NEW body, NEW delay
    PROVE  Sent(kind, ttl, body, delay).kind = kind
<1>1. Received(Packed(kind, ttl, body)).kind = kind
  BY HelloReceived, UpdateReceived
<1> QED
  BY <1>1 DEF Sent
=============================================================================
