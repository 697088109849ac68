--------------------------- MODULE LadzrpMpfProofs ---------------------------
(***************************************************************************)
(* Forwarding, proved for any number of nodes in any layout with any radio *)
(* range, any contents of the tables and any interleaving of data and      *)
(* control traffic.                                                        *)
(***************************************************************************)
EXTENDS LadzrpMpf, TLAPS, WellFoundedInduction

(***************************************************************************)
(* All the proofs need of geometry: distances are numbers, none is below   *)
(* zero, and the one of a point to itself is zero.                         *)
(***************************************************************************)
LEMMA DistanceFacts ==
    ASSUME NEW u \in Vector, NEW v \in Vector
    PROVE  Distance2(u, v) \in Int /\ Distance2(u, v) >= 0 /\ Distance2(u, u) = 0
<1>1. ASSUME NEW x \in Int PROVE x * x \in Int /\ x * x >= 0
  OBVIOUS
<1>2. Distance2(u, v) = (v.x - u.x) * (v.x - u.x) + (v.y - u.y) * (v.y - u.y)
  BY DEF Distance2, From, Dot, Vector
<1>3. Distance2(u, u) = (u.x - u.x) * (u.x - u.x) + (u.y - u.y) * (u.y - u.y)
  BY DEF Distance2, From, Dot, Vector
<1>4. u.x \in Int /\ u.y \in Int /\ v.x \in Int /\ v.y \in Int
  BY DEF Vector
<1>5. /\ (v.x - u.x) * (v.x - u.x) \in Int /\ (v.x - u.x) * (v.x - u.x) >= 0
      /\ (v.y - u.y) * (v.y - u.y) \in Int /\ (v.y - u.y) * (v.y - u.y) >= 0
  BY <1>1, <1>4
<1>6. u.x - u.x = 0 /\ u.y - u.y = 0
  BY <1>4
<1> QED
  BY <1>2, <1>3, <1>5, <1>6

-----------------------------------------------------------------------------
(* Numbers.                                                                *)

(***************************************************************************)
(* The square of an integer is positive unless the integer is zero.        *)
(***************************************************************************)
LEMMA Squares ==
    ASSUME NEW x \in Int
    PROVE  x * x \in Int /\ x * x >= 0 /\ (x # 0 => x * x > 0)
  OBVIOUS

(***************************************************************************)
(* A set of numbers that is not empty has a least member.                  *)
(***************************************************************************)
LEMMA LeastNumber ==
    ASSUME NEW S \in SUBSET Nat, S # {}
    PROVE  \E n \in S : \A m \in S : n =< m
<1> DEFINE R == OpToRel(<, Nat)
<1>1. IsWellFoundedOn(R, Nat)
  BY NatLessThanWellFounded
<1>2. \A x, y \in Nat : x < y => <<x, y>> \in R
  BY DEF OpToRel
<1> HIDE DEF R
<1>3. PICK n \in S : \A m \in S : ~(<<m, n>> \in R)
  BY <1>1, WFMin
<1>4. ASSUME NEW m \in S PROVE n =< m
  <2>1. m \in Nat /\ n \in Nat
    OBVIOUS
  <2>2. ~(m < n)
    BY <1>2, <1>3, <2>1
  <2> QED
    BY <2>1, <2>2
<1> QED
  BY <1>4

(***************************************************************************)
(* What holds of 0, and of n + 1 whenever of n, holds of every number.     *)
(***************************************************************************)
LEMMA CountingUp ==
    ASSUME NEW T \in SUBSET Nat, 0 \in T, \A n \in T : n + 1 \in T
    PROVE  T = Nat
<1> SUFFICES ASSUME Nat \ T # {} PROVE FALSE
  OBVIOUS
<1>1. PICK n \in Nat \ T : \A m \in Nat \ T : n =< m
  BY LeastNumber
<1>2. n # 0 /\ n - 1 \in Nat /\ n - 1 \in T
  BY <1>1
<1> QED
  BY <1>2

-----------------------------------------------------------------------------
(* Angles.                                                                 *)

\* A table of positions, as BestNeighbor is asked about.
Asked(position, destination, origin) ==
    /\ destination \in Vector /\ origin \in Vector
    /\ DOMAIN position \subseteq Nat
    /\ \A q \in DOMAIN position : position[q] \in Vector

(***************************************************************************)
(* A candidate lies ahead: its way has a positive component along the one  *)
(* to the destination.                                                     *)
(***************************************************************************)
LEMMA CandidatesAhead ==
    ASSUME NEW position, NEW destination, NEW origin, Asked(position, destination, origin),
           NEW q \in Nearer(position, destination, origin)
    PROVE  LET d == From(origin, destination)
               a == From(origin, position[q])
           IN  /\ Dot(d, a) \in Int /\ Dot(d, a) > 0
               /\ Cross(d, a) \in Int /\ Cross(d, a) >= 0
<1> DEFINE u == position[q]
           dx == destination.x - origin.x
           dy == destination.y - origin.y
           ax == u.x - origin.x
           ay == u.y - origin.y
<1>1. u \in Vector /\ destination \in Vector /\ origin \in Vector
  BY DEF Asked, Nearer
<1>2. dx \in Int /\ dy \in Int /\ ax \in Int /\ ay \in Int
  BY <1>1 DEF Vector
<1>3. destination.x - u.x = dx - ax /\ destination.y - u.y = dy - ay
  BY <1>1 DEF Vector
<1>4. /\ Distance2(u, destination) = (dx - ax) * (dx - ax) + (dy - ay) * (dy - ay)
      /\ Distance2(origin, destination) = dx * dx + dy * dy
  <2>1. Distance2(u, destination)
            = (destination.x - u.x) * (destination.x - u.x)
                + (destination.y - u.y) * (destination.y - u.y)
    BY DEF Distance2, From, Dot
  <2> QED
    BY <1>3, <2>1 DEF Distance2, From, Dot
<1>5. Distance2(u, destination) < Distance2(origin, destination)
  BY DEF Nearer
<1>6. /\ Dot(From(origin, destination), From(origin, u)) = dx * ax + dy * ay
      /\ Cross(From(origin, destination), From(origin, u)) = Magnitude(dx * ay - dy * ax)
  BY DEF Dot, Cross, From
<1> HIDE DEF dx, dy, ax, ay
<1>7. /\ (dx - ax) * (dx - ax) = dx * dx - 2 * (dx * ax) + ax * ax
      /\ (dy - ay) * (dy - ay) = dy * dy - 2 * (dy * ay) + ay * ay
  BY <1>2
<1>8. /\ ax * ax \in Int /\ ax * ax >= 0 /\ ay * ay \in Int /\ ay * ay >= 0
      /\ dx * dx \in Int /\ dy * dy \in Int /\ dx * ax \in Int /\ dy * ay \in Int
      /\ dx * ay - dy * ax \in Int
  BY <1>2, Squares
<1>9. dx * ax + dy * ay \in Int /\ dx * ax + dy * ay > 0
  BY <1>4, <1>5, <1>7, <1>8
<1>10. \A i \in Int : Magnitude(i) \in Int /\ Magnitude(i) >= 0
  BY DEF Magnitude
<1> QED
  BY <1>6, <1>8, <1>9, <1>10

(***************************************************************************)
(* The comparison of angles in numbers: x, y and z are the components of   *)
(* three ways along the one to the destination, a, b and c those across.   *)
(* No angle is smaller than itself; one that is smaller at all is not      *)
(* greater by the tolerance; and what does not undercut an angle is        *)
(* greater than what does.                                                 *)
(***************************************************************************)
LEMMA Tolerance ==
    ASSUME NEW k \in Int, k > 0,
           NEW x \in Int, NEW y \in Int, NEW z \in Int, x > 0, y > 0, z > 0,
           NEW a \in Int, NEW b \in Int, NEW c \in Int, a >= 0, b >= 0, c >= 0
    PROVE  /\ ~(k * (a * x - a * x) > x * x + a * a)
           /\ b * x - a * y > 0 => ~(k * (a * y - b * x) > y * x + b * a)
           /\ k * (c * x - a * z) > x * z + a * c /\ ~(k * (c * y - b * z) > y * z + b * c)
                 => b * x - a * y > 0
<1>1. /\ \A i \in Int, j \in Int : i * j \in Int
      /\ \A i \in Int, j \in Int : i >= 0 /\ j >= 0 => i * j >= 0
      /\ \A i \in Int, j \in Int : i > 0 /\ j > 0 => i * j > 0
  OBVIOUS
<1>2. ~(k * (a * x - a * x) > x * x + a * a)
  <2>1. a * x - a * x = 0 /\ k * 0 = 0
    BY <1>1
  <2>2. x * x \in Int /\ x * x >= 0 /\ a * a \in Int /\ a * a >= 0
    BY <1>1
  <2> QED
    BY <2>1, <2>2
<1>3. ASSUME b * x - a * y > 0 PROVE ~(k * (a * y - b * x) > y * x + b * a)
  <2> DEFINE lead == b * x - a * y
  <2>1. lead \in Int /\ k * lead \in Int /\ k * lead > 0
    BY <1>1, <1>3
  <2>2. k * (a * y - b * x) = -(k * lead)
    <3>1. b * x \in Int /\ a * y \in Int
      BY <1>1
    <3>2. \A i \in Int, j \in Int : k * (j - i) = -(k * (i - j))
      OBVIOUS
    <3> QED
      BY <3>1, <3>2
  <2>3. y * x \in Int /\ y * x >= 0 /\ b * a \in Int /\ b * a >= 0
    BY <1>1
  <2> HIDE DEF lead
  <2> QED
    BY <2>1, <2>2, <2>3
<1>4. ASSUME k * (c * x - a * z) > x * z + a * c, ~(k * (c * y - b * z) > y * z + b * c)
      PROVE  b * x - a * y > 0
  <2> DEFINE lead == b * x - a * y
             p == k * (c * x - a * z) - (x * z + a * c)
             q == k * (c * y - b * z) - (y * z + b * c)
             w == k * z + c
  <2>1. lead \in Int /\ p \in Int /\ q \in Int /\ w \in Int
    BY <1>1
  <2>2. w > 0
    <3>1. k * z \in Int /\ k * z > 0
      BY <1>1
    <3> QED
      BY <3>1
  <2>3. p > 0 /\ ~(q > 0)
    <3>1. /\ k * (c * x - a * z) \in Int /\ x * z + a * c \in Int
          /\ k * (c * y - b * z) \in Int /\ y * z + b * c \in Int
      BY <1>1
    <3> QED
      BY <1>4, <3>1
  <2>4. p * y - q * x = w * lead
    OBVIOUS
  <2> HIDE DEF lead, p, q, w
  <2>5. p * y \in Int /\ p * y > 0
    BY <1>1, <2>1, <2>3
  <2>6. q * x \in Int /\ q * x =< 0
    <3>1. -q \in Int /\ -q >= 0
      BY <2>1, <2>3
    <3>2. (-q) * x >= 0
      BY <1>1, <3>1
    <3>3. (-q) * x = -(q * x) /\ q * x \in Int
      BY <2>1
    <3> QED
      BY <3>2, <3>3
  <2>7. w * lead > 0
    BY <2>4, <2>5, <2>6
  <2>8. ASSUME lead =< 0 PROVE FALSE
    <3>1. -lead \in Int /\ -lead >= 0
      BY <2>1, <2>8
    <3>2. w * (-lead) >= 0
      BY <1>1, <2>1, <2>2, <3>1
    <3>3. w * (-lead) = -(w * lead) /\ w * lead \in Int
      BY <2>1
    <3> QED
      BY <2>7, <3>2, <3>3
  <2>9. lead > 0
    BY <2>1, <2>8
  <2> QED
    BY <2>9 DEF lead
<1> QED
  BY <1>2, <1>3, <1>4

(***************************************************************************)
(* What the loop relies on when it compares the angles of candidates.      *)
(***************************************************************************)
LEMMA AnglesCompare ==
    ASSUME NEW position, NEW destination, NEW origin, Asked(position, destination, origin),
           NEW scale \in Nat \ {0},
           NEW q \in Nearer(position, destination, origin),
           NEW r \in Nearer(position, destination, origin),
           NEW s \in Nearer(position, destination, origin)
    PROVE  LET smaller(i, j) ==
                   SmallerAngle(position[i], position[j], destination, origin, scale)
               lead(i, j) == LeadSine(position[i], position[j], destination, origin)
           IN  /\ ~smaller(q, q)
               /\ lead(q, r) > 0 => ~smaller(r, q)
               /\ smaller(q, s) /\ ~smaller(r, s) => lead(q, r) > 0
<1> DEFINE along(i) == Dot(From(origin, destination), From(origin, position[i]))
           across(i) == Cross(From(origin, destination), From(origin, position[i]))
           smaller(i, j) == SmallerAngle(position[i], position[j], destination, origin, scale)
           lead(i, j) == LeadSine(position[i], position[j], destination, origin)
<1>1. \A i \in {q, r, s} : /\ along(i) \in Int /\ along(i) > 0
                           /\ across(i) \in Int /\ across(i) >= 0
  BY CandidatesAhead
<1>2. \A i, j \in {q, r, s} :
          /\ lead(i, j) = across(j) * along(i) - across(i) * along(j)
          /\ smaller(i, j) <=> scale * (across(j) * along(i) - across(i) * along(j))
                                   > along(i) * along(j) + across(i) * across(j)
  BY Zenon DEF LeadSine, LeadCosine, SmallerAngle
<1>3. scale \in Int /\ scale > 0
  OBVIOUS
<1> HIDE DEF along, across, smaller, lead
<1>4. ~smaller(q, q)
  BY <1>1, <1>2, <1>3, Tolerance
<1>5. lead(q, r) > 0 => ~smaller(r, q)
  BY <1>1, <1>2, <1>3, Tolerance
<1>6. smaller(q, s) /\ ~smaller(r, s) => lead(q, r) > 0
  BY <1>1, <1>2, <1>3, Tolerance
<1> QED
  BY <1>4, <1>5, <1>6 DEF smaller, lead

-----------------------------------------------------------------------------
(* The loop of BestNeighbor.                                               *)

\* Of the candidates up to address a, b is the one to keep when the angle compared with
\* is the one of m.
Chosen(b, m, a, position, destination, origin, scale) ==
    LET smaller(q, r) == SmallerAngle(position[q], position[r], destination, origin, scale)
        far(q) == Distance2(position[q], destination)
    IN  /\ m =< b /\ b =< a
        /\ ~smaller(m, b)
        /\ \A c \in Nearer(position, destination, origin) :
              c =< a =>
                  /\ ~smaller(c, m)
                  /\ c < m => LeadSine(position[m], position[c], destination, origin) > 0
                  /\ c >= m /\ ~smaller(m, c) =>
                        far(b) < far(c) \/ (far(b) = far(c) /\ b =< c)

\* What has been kept after the turns up to address a.
KeptWell(kept, a, position, destination, origin, scale) ==
    LET candidates == Nearer(position, destination, origin)
    IN  \/ /\ kept = [best |-> {}, anchor |-> {}]
           /\ \A c \in candidates : ~(c =< a)
        \/ \E m, b \in candidates :
              /\ kept = [best |-> {b}, anchor |-> {m}]
              /\ Chosen(b, m, a, position, destination, origin, scale)

(***************************************************************************)
(* Every turn keeps well what was kept well.                               *)
(***************************************************************************)
LEMMA OneTurn ==
    ASSUME NEW position, NEW destination, NEW origin, Asked(position, destination, origin),
           NEW scale \in Nat \ {0}, NEW a \in Nat, NEW kept,
           KeptWell(kept, a - 1, position, destination, origin, scale)
    PROVE  KeptWell(Consider(kept, a, position, destination, origin, scale), a,
                    position, destination, origin, scale)
<1> DEFINE C == Nearer(position, destination, origin)
           smaller(q, r) == SmallerAngle(position[q], position[r], destination, origin, scale)
           lead(q, r) == LeadSine(position[q], position[r], destination, origin)
           far(q) == Distance2(position[q], destination)
           after == Consider(kept, a, position, destination, origin, scale)
           chosen(b, m, i) == Chosen(b, m, i, position, destination, origin, scale)
           keptWell(k, i) == KeptWell(k, i, position, destination, origin, scale)
<1>1. \A b, m, i : chosen(b, m, i) <=>
          /\ m =< b /\ b =< i
          /\ ~smaller(m, b)
          /\ \A c \in C : c =< i =>
                /\ ~smaller(c, m)
                /\ c < m => lead(m, c) > 0
                /\ c >= m /\ ~smaller(m, c) =>
                      far(b) < far(c) \/ (far(b) = far(c) /\ b =< c)
  BY Zenon DEF Chosen
<1>2. \A k, i : keptWell(k, i) <=>
          \/ k = [best |-> {}, anchor |-> {}] /\ \A c \in C : ~(c =< i)
          \/ \E m, b \in C : k = [best |-> {b}, anchor |-> {m}] /\ chosen(b, m, i)
  BY Zenon DEF KeptWell
<1>3. after = IF a \notin C THEN kept
              ELSE IF \A r \in kept.anchor : smaller(a, r) THEN [best |-> {a}, anchor |-> {a}]
              ELSE IF /\ \A r \in kept.anchor : ~smaller(r, a)
                      /\ \A r \in kept.best : far(a) < far(r)
              THEN TakeTie(kept, a)
              ELSE kept
  BY Zenon DEF Consider
<1>4. /\ \A q \in C : ~smaller(q, q)
      /\ \A q, r \in C : lead(q, r) > 0 => ~smaller(r, q)
      /\ \A q, r, s \in C : smaller(q, s) /\ ~smaller(r, s) => lead(q, r) > 0
  BY AnglesCompare
<1>5. \A q \in C : q \in Nat /\ far(q) \in Int
  BY DistanceFacts DEF Asked, Nearer
<1>6. keptWell(kept, a - 1)
  OBVIOUS
<1> SUFFICES keptWell(after, a)
  OBVIOUS
<1> HIDE DEF C, smaller, lead, far, after, chosen, keptWell
<1>7. \A q \in C : q =< a <=> q =< a - 1 \/ q = a
  BY <1>5
<1>8. CASE a \notin C
  <2>1. after = kept
    BY <1>3, <1>8
  <2>2. \A c \in C : c =< a => c =< a - 1
    BY <1>7, <1>8
  <2>3. CASE kept = [best |-> {}, anchor |-> {}] /\ \A c \in C : ~(c =< a - 1)
    BY <1>2, <2>1, <2>2, <2>3, Zenon
  <2>4. CASE \E m, b \in C : kept = [best |-> {b}, anchor |-> {m}] /\ chosen(b, m, a - 1)
    <3>1. PICK m \in C, b \in C : kept = [best |-> {b}, anchor |-> {m}] /\ chosen(b, m, a - 1)
      BY <2>4
    <3>2. b =< a - 1 => b =< a
      BY <1>5
    <3>3. chosen(b, m, a)
      BY <1>1, <2>2, <3>1, <3>2, Zenon
    <3> QED
      BY <1>2, <2>1, <3>1, <3>3, Zenon
  <2> QED
    BY <1>2, <1>6, <2>3, <2>4, Zenon
<1>9. CASE a \in C
  <2>1. ASSUME \A c \in C : c =< a - 1 => lead(a, c) > 0
        PROVE  chosen(a, a, a)
    <3>1. ASSUME NEW c \in C, c =< a
          PROVE  /\ ~smaller(c, a)
                 /\ c < a => lead(a, c) > 0
                 /\ c >= a /\ ~smaller(a, c) =>
                       far(a) < far(c) \/ (far(a) = far(c) /\ a =< c)
      <4>1. CASE c = a
        BY <1>4, <1>5, <1>9, <4>1
      <4>2. CASE c =< a - 1
        <5>1. lead(a, c) > 0 /\ ~(c >= a)
          BY <1>5, <2>1, <4>2
        <5> QED
          BY <1>4, <1>9, <5>1
      <4> QED
        BY <1>7, <3>1, <4>1, <4>2
    <3>2. a =< a /\ ~smaller(a, a)
      BY <1>4, <1>9
    <3> QED
      BY <1>1, <3>1, <3>2, Zenon
  <2>2. CASE kept = [best |-> {}, anchor |-> {}] /\ \A c \in C : ~(c =< a - 1)
    <3>1. after = [best |-> {a}, anchor |-> {a}]
      BY <1>3, <1>9, <2>2
    <3>2. chosen(a, a, a)
      BY <2>1, <2>2
    <3> QED
      BY <1>2, <1>9, <3>1, <3>2, Zenon
  <2>3. CASE \E m, b \in C : kept = [best |-> {b}, anchor |-> {m}] /\ chosen(b, m, a - 1)
    <3>1. PICK m \in C, b \in C : kept = [best |-> {b}, anchor |-> {m}] /\ chosen(b, m, a - 1)
      BY <2>3
    <3>2. /\ m =< b /\ b =< a - 1 /\ ~smaller(m, b)
          /\ \A c \in C : c =< a - 1 =>
                /\ ~smaller(c, m)
                /\ c < m => lead(m, c) > 0
                /\ c >= m /\ ~smaller(m, c) =>
                      far(b) < far(c) \/ (far(b) = far(c) /\ b =< c)
      BY <1>1, <3>1, Zenon
    <3>3. b =< a /\ b < a /\ m =< a /\ m < a
      BY <1>5, <3>2
    <3>4. after = IF smaller(a, m) THEN [best |-> {a}, anchor |-> {a}]
                  ELSE IF ~smaller(m, a) /\ far(a) < far(b)
                  THEN [best |-> {a}, anchor |-> {m}]
                  ELSE [best |-> {b}, anchor |-> {m}]
      <4>1. kept.anchor = {m} /\ kept.best = {b}
        BY <3>1
      <4>2. TakeTie(kept, a) = [best |-> {a}, anchor |-> {m}]
        <5>1. TakeTie(kept, a) = [[best |-> {b}, anchor |-> {m}] EXCEPT !.best = {a}]
          BY <3>1 DEF TakeTie
        <5> QED
          BY <5>1
      <4>3. /\ (\A r \in kept.anchor : smaller(a, r)) <=> smaller(a, m)
            /\ (\A r \in kept.anchor : ~smaller(r, a)) <=> ~smaller(m, a)
            /\ (\A r \in kept.best : far(a) < far(r)) <=> far(a) < far(b)
        BY <4>1
      <4> QED
        BY <1>3, <1>9, <3>1, <4>2, <4>3, Zenon
    <3>5. CASE smaller(a, m)
      <4>1. \A c \in C : c =< a - 1 => lead(a, c) > 0
        BY <1>4, <1>9, <3>2, <3>5
      <4> QED
        BY <1>2, <1>9, <2>1, <3>4, <3>5, <4>1
    <3>6. CASE ~smaller(a, m) /\ ~smaller(m, a) /\ far(a) < far(b)
      <4>1. ASSUME NEW c \in C, c =< a
            PROVE  /\ ~smaller(c, m)
                   /\ c < m => lead(m, c) > 0
                   /\ c >= m /\ ~smaller(m, c) =>
                         far(a) < far(c) \/ (far(a) = far(c) /\ a =< c)
        <5>1. CASE c = a
          BY <1>5, <3>3, <3>6, <5>1
        <5>2. CASE c =< a - 1
          BY <1>5, <1>9, <3>2, <3>6, <5>2
        <5> QED
          BY <1>7, <4>1, <5>1, <5>2
      <4>2. chosen(a, m, a)
        BY <1>1, <3>3, <3>6, <4>1
      <4> QED
        BY <1>2, <1>9, <3>4, <3>6, <4>2
    <3>7. CASE ~smaller(a, m) /\ ~(~smaller(m, a) /\ far(a) < far(b))
      <4>1. ASSUME NEW c \in C, c =< a
            PROVE  /\ ~smaller(c, m)
                   /\ c < m => lead(m, c) > 0
                   /\ c >= m /\ ~smaller(m, c) =>
                         far(b) < far(c) \/ (far(b) = far(c) /\ b =< c)
        <5>1. CASE c = a
          BY <1>5, <1>9, <3>3, <3>7, <5>1
        <5>2. CASE c =< a - 1
          BY <3>2, <5>2
        <5> QED
          BY <1>7, <4>1, <5>1, <5>2
      <4>2. chosen(b, m, a)
        BY <1>1, <3>2, <3>3, <4>1
      <4> QED
        BY <1>2, <3>4, <3>7, <4>2
    <3> QED
      BY <3>5, <3>6, <3>7
  <2> QED
    BY <1>2, <1>6, <2>2, <2>3, Zenon
<1> QED
  BY <1>8, <1>9

(***************************************************************************)
(* The pass over the table: there is a function from each address to what  *)
(* is kept after it, whose last value is the answer.                       *)
(***************************************************************************)
LEMMA ThePass ==
    ASSUME NEW position, NEW destination, NEW origin, NEW scale, NEW last \in Nat
    PROVE  \E kept :
              /\ kept[-1] = [best |-> {}, anchor |-> {}]
              /\ \A a \in 0..last :
                    kept[a] = Consider(kept[a - 1], a, position, destination, origin, scale)
              /\ BestNeighbor(position, destination, origin, scale, last) = kept[last].best
<1> DEFINE none == [best |-> {}, anchor |-> {}]
           turn(k, a) == Consider(k, a, position, destination, origin, scale)
           IsPass(f, n) == f = [a \in -1..n |-> IF a = -1 THEN none ELSE turn(f[a - 1], a)]
           kept == CHOOSE f : IsPass(f, last)
<1>1. BestNeighbor(position, destination, origin, scale, last) = kept[last].best
  BY DEF BestNeighbor
<1> HIDE DEF none, turn
<1>2. \E f : IsPass(f, last)
  <2> DEFINE T == {n \in Nat : \E f : IsPass(f, n)}
  <2>1. 0 \in T
    <3> DEFINE f == [a \in -1..0 |-> IF a = -1 THEN none ELSE turn(none, a)]
    <3>1. \A a \in -1..0 : a = -1 \/ (a # -1 /\ f[a - 1] = none)
      OBVIOUS
    <3>2. IsPass(f, 0)
      BY <3>1
    <3> HIDE DEF f
    <3> QED
      BY <3>2
  <2>2. ASSUME NEW n \in T PROVE n + 1 \in T
    <3>1. PICK f : IsPass(f, n)
      OBVIOUS
    <3> DEFINE g == [a \in -1..n + 1 |-> IF a = n + 1 THEN turn(f[n], n + 1) ELSE f[a]]
    <3>2. n \in Nat /\ n + 1 \in Nat /\ (n + 1) - 1 = n
      OBVIOUS
    <3>3. ASSUME NEW a \in -1..n + 1
          PROVE  g[a] = IF a = -1 THEN none ELSE turn(g[a - 1], a)
      <4>1. CASE a = n + 1
        <5>1. g[a] = turn(f[n], a) /\ a # -1 /\ n \in -1..n + 1 /\ n # n + 1
          BY <3>2, <4>1
        <5>2. g[a - 1] = f[n]
          BY <3>2, <4>1, <5>1
        <5> QED
          BY <5>1, <5>2
      <4>2. CASE a # n + 1
        <5>1. a \in -1..n /\ g[a] = f[a]
          BY <3>2, <4>2
        <5>2. f[a] = IF a = -1 THEN none ELSE turn(f[a - 1], a)
          BY <3>1, <5>1
        <5>3. a # -1 => a - 1 \in -1..n + 1 /\ a - 1 # n + 1
          BY <3>2, <5>1
        <5>4. a # -1 => g[a - 1] = f[a - 1]
          BY <5>3
        <5> QED
          BY <5>1, <5>2, <5>4
      <4> QED
        BY <4>1, <4>2
    <3> DEFINE h == [a \in -1..n + 1 |-> IF a = -1 THEN none ELSE turn(g[a - 1], a)]
    <3>4. g = h
      <4>1. \A a \in -1..n + 1 : g[a] = h[a]
        BY <3>3
      <4>2. DOMAIN g = DOMAIN h /\ g = [a \in DOMAIN g |-> g[a]] /\ h = [a \in DOMAIN h |-> h[a]]
        OBVIOUS
      <4> HIDE DEF g, h
      <4>3. DOMAIN g = -1..n + 1
        BY DEF g
      <4> QED
        BY <4>1, <4>2, <4>3
    <3>5. IsPass(g, n + 1)
      BY <3>4
    <3> HIDE DEF g, h
    <3> QED
      BY <3>2, <3>5
  <2>3. T \in SUBSET Nat
    OBVIOUS
  <2> HIDE DEF T
  <2>4. T = Nat
    BY <2>1, <2>2, <2>3, CountingUp
  <2> QED
    BY <2>4 DEF T
<1>3. IsPass(kept, last)
  BY <1>2
<1> HIDE DEF kept
<1>4. kept[-1] = none /\ \A a \in 0..last : kept[a] = turn(kept[a - 1], a)
  <2>1. -1 \in -1..last /\ \A a \in 0..last : a \in -1..last /\ a # -1
    OBVIOUS
  <2>2. \A a \in -1..last : kept[a] = IF a = -1 THEN none ELSE turn(kept[a - 1], a)
    BY <1>3
  <2> QED
    BY <2>1, <2>2
<1> QED
  BY <1>1, <1>4 DEF none, turn

(***************************************************************************)
(* BestNeighbor keeps well: what holds after every turn holds at the end.  *)
(***************************************************************************)
LEMMA BestIsKept ==
    ASSUME NEW position, NEW destination, NEW origin, Asked(position, destination, origin),
           NEW scale \in Nat \ {0}, NEW last \in Nat
    PROVE  \E kept : /\ KeptWell(kept, last, position, destination, origin, scale)
                     /\ BestNeighbor(position, destination, origin, scale, last) = kept.best
<1> DEFINE keptWell(k, a) == KeptWell(k, a, position, destination, origin, scale)
           turn(k, a) == Consider(k, a, position, destination, origin, scale)
<1>1. PICK kept :
          /\ kept[-1] = [best |-> {}, anchor |-> {}]
          /\ \A a \in 0..last : kept[a] = turn(kept[a - 1], a)
          /\ BestNeighbor(position, destination, origin, scale, last) = kept[last].best
  BY ThePass
<1>2. keptWell(kept[-1], -1)
  <2>1. \A c \in Nearer(position, destination, origin) : ~(c =< -1)
    BY DEF Nearer, Asked
  <2> QED
    BY <1>1, <2>1 DEF KeptWell
<1>3. \A a \in Nat : \A k : keptWell(k, a - 1) => keptWell(turn(k, a), a)
  BY OneTurn
<1> HIDE DEF keptWell, turn
<1> DEFINE T == {a \in Nat : a =< last + 1 => keptWell(kept[a - 1], a - 1)}
<1>4. 0 \in T
  <2>1. 0 - 1 = -1
    OBVIOUS
  <2> QED
    BY <1>2, <2>1
<1>5. ASSUME NEW a \in T PROVE a + 1 \in T
  <2>1. (a + 1) - 1 = a /\ a + 1 \in Nat /\ a \in Nat
    OBVIOUS
  <2>2. CASE a =< last
    <3>1. a \in 0..last /\ a =< last + 1
      BY <2>1, <2>2
    <3>2. keptWell(kept[a], a)
      BY <1>1, <1>3, <2>1, <3>1
    <3> QED
      BY <2>1, <3>2
  <2>3. CASE ~(a =< last)
    <3>1. ~(a + 1 =< last + 1)
      BY <2>1, <2>3
    <3> QED
      BY <2>1, <3>1
  <2> QED
    BY <2>2, <2>3
<1>6. T \in SUBSET Nat
  OBVIOUS
<1> HIDE DEF T
<1>7. T = Nat
  BY <1>4, <1>5, <1>6, CountingUp
<1>8. keptWell(kept[last], last)
  <2>1. last + 1 \in T /\ (last + 1) - 1 = last
    BY <1>7
  <2> QED
    BY <2>1 DEF T
<1> QED
  BY <1>1, <1>8 DEF keptWell

(***************************************************************************)
(* A table of a node is one BestNeighbor may be asked about.               *)
(***************************************************************************)
LEMMA TablesAsked ==
    ASSUME TypeOK, NEW n \in Nodes, NEW here \in Vector, NEW there \in Vector
    PROVE  Asked(zone[n], there, here) /\ DOMAIN zone[n] \subseteq 0..MaxAddress
  BY MpfAssumption DEF TypeOK, IsTable, Asked

(***************************************************************************)
(* The gateway, if there is one, is a neighbour of the table nearer to the *)
(* destination than the node, and there is no other.                       *)
(***************************************************************************)
LEMMA GatewayIsBest ==
    ASSUME TypeOK, NEW n \in Nodes, NEW d \in Nodes, NEW g \in GatewayOf(n, d)
    PROVE  /\ g \in Nearer(zone[n], TargetOf(n, d, pos[n]), pos[n])
           /\ GatewayOf(n, d) = {g}
<1> DEFINE target == TargetOf(n, d, pos[n])
<1>1. pos[n] \in Vector /\ IsTable(zone[n]) /\ IsTable(global[n])
  BY MpfAssumption DEF TypeOK
<1>2. target \in Vector
  BY <1>1 DEF IsTable, TargetOf, InZone, InGlobal
<1>3. GatewayOf(n, d) = BestNeighbor(zone[n], target, pos[n], AngleScale, MaxAddress)
  BY DEF GatewayOf
<1> HIDE DEF target
<1>4. Asked(zone[n], target, pos[n])
  BY <1>1, <1>2, TablesAsked
<1>5. PICK kept : /\ KeptWell(kept, MaxAddress, zone[n], target, pos[n], AngleScale)
                  /\ GatewayOf(n, d) = kept.best
  BY <1>3, <1>4, BestIsKept, MpfAssumption
<1>6. PICK m, b \in Nearer(zone[n], target, pos[n]) : kept = [best |-> {b}, anchor |-> {m}]
  BY <1>5 DEF KeptWell
<1> QED
  BY <1>5, <1>6 DEF target

LEMMA OneGateway ==
    ASSUME TypeOK, NEW n \in Nodes, NEW d \in Nodes,
           NEW q \in GatewayOf(n, d), NEW r \in GatewayOf(n, d)
    PROVE  q = r
  BY GatewayIsBest

LEMMA GatewayIsNearer ==
    ASSUME TypeOK, NEW n \in Nodes, NEW d \in Nodes, NEW g \in GatewayOf(n, d)
    PROVE  LET target == TargetOf(n, d, pos[n])
           IN  /\ g \in DOMAIN zone[n]
               /\ Distance2(zone[n][g], target) < Distance2(pos[n], target)
  BY GatewayIsBest DEF Nearer

-----------------------------------------------------------------------------
(* Frames.                                                                 *)

(***************************************************************************)
(* A frame that arrives, spelt out.                                        *)
(***************************************************************************)
LEMMA ArrivalFacts ==
    ASSUME NEW n \in Nodes, NEW p, NEW fallback, NEW f \in Arrivals(n, p, fallback)
    PROVE  /\ f = [id |-> p.id, dst |-> p.dst, ttl |-> p.ttl, at |-> f.at,
                   phase |-> PhaseOf(n, p.dst), sender |-> pos[n],
                   target |-> TargetOf(n, p.dst, fallback),
                   path |-> Append(p.path, [node |-> n, phase |-> PhaseOf(n, p.dst),
                                            known |-> ~Unknown(n, p.dst)])]
           /\ f.at \in Nodes
           /\ GatewayOf(n, p.dst) # {} => f.at \in GatewayOf(n, p.dst)
  BY DEF Arrivals

(***************************************************************************)
(* The fields of the header that the receiver looks at.                    *)
(***************************************************************************)
LEMMA ArrivalFields ==
    ASSUME NEW n \in Nodes, NEW p, NEW fallback, NEW f \in Arrivals(n, p, fallback)
    PROVE  /\ f.phase = PhaseOf(n, p.dst)
           /\ f.sender = pos[n]
           /\ f.target = TargetOf(n, p.dst, fallback)
<1> DEFINE phase == PhaseOf(n, p.dst)
           target == TargetOf(n, p.dst, fallback)
           path == Append(p.path, [node |-> n, phase |-> PhaseOf(n, p.dst),
                                   known |-> ~Unknown(n, p.dst)])
<1>1. f = [id |-> p.id, dst |-> p.dst, ttl |-> p.ttl, at |-> f.at, phase |-> phase,
           sender |-> pos[n], target |-> target, path |-> path]
  BY ArrivalFacts
<1> HIDE DEF phase, target, path
<1>2. f.phase = phase /\ f.sender = pos[n] /\ f.target = target
  BY <1>1
<1> QED
  BY <1>2 DEF phase, target

(***************************************************************************)
(* The destination stays, and the sender is added to the path.             *)
(***************************************************************************)
LEMMA ArrivalPath ==
    ASSUME NEW n \in Nodes, NEW p, NEW fallback, NEW f \in Arrivals(n, p, fallback)
    PROVE  /\ f.dst = p.dst
           /\ f.path = Append(p.path, [node |-> n, phase |-> PhaseOf(n, p.dst),
                                       known |-> ~Unknown(n, p.dst)])
<1> DEFINE phase == PhaseOf(n, p.dst)
           target == TargetOf(n, p.dst, fallback)
           path == Append(p.path, [node |-> n, phase |-> PhaseOf(n, p.dst),
                                   known |-> ~Unknown(n, p.dst)])
<1>1. f = [id |-> p.id, dst |-> p.dst, ttl |-> p.ttl, at |-> f.at, phase |-> phase,
           sender |-> pos[n], target |-> target, path |-> path]
  BY ArrivalFacts
<1> HIDE DEF phase, target, path
<1>2. f.dst = p.dst /\ f.path = path
  BY <1>1
<1> QED
  BY <1>2 DEF path

(***************************************************************************)
(* A frame that arrives is a frame.                                        *)
(***************************************************************************)
LEMMA ArrivalTyped ==
    ASSUME TypeOK, NEW n \in Nodes, NEW p, NEW fallback \in Vector,
           p.id \in Nat, p.dst \in Nodes, p.ttl \in Nat, p.path \in Seq(Hop),
           NEW f \in Arrivals(n, p, fallback)
    PROVE  f \in Frame
<1> DEFINE phase == PhaseOf(n, p.dst)
           target == TargetOf(n, p.dst, fallback)
           hop == [node |-> n, phase |-> phase, known |-> ~Unknown(n, p.dst)]
           path == Append(p.path, hop)
<1>1. pos[n] \in Vector
  BY MpfAssumption DEF TypeOK
<1>2. target \in Vector
  BY DEF TypeOK, IsTable, TargetOf, InZone, InGlobal
<1>3. phase \in 0..2
  BY DEF PhaseOf
<1>4. hop \in Hop
  BY <1>3 DEF Hop, Unknown
<1>5. path \in Seq(Hop)
  BY <1>4
<1>6. /\ f = [id |-> p.id, dst |-> p.dst, ttl |-> p.ttl, at |-> f.at, phase |-> phase,
              sender |-> pos[n], target |-> target, path |-> path]
      /\ f.at \in Nodes
  BY ArrivalFacts
<1> HIDE DEF phase, target, hop, path
<1> DEFINE g == [id |-> p.id, dst |-> p.dst, ttl |-> p.ttl, at |-> f.at, phase |-> phase,
                 sender |-> pos[n], target |-> target, path |-> path]
<1>7. g \in Frame
  BY <1>1, <1>2, <1>3, <1>5, <1>6 DEF Frame
<1> QED
  BY <1>6, <1>7

(***************************************************************************)
(* Forwarding leaves every node with two tables of positions.              *)
(***************************************************************************)
LEMMA ZoneAfterTyped ==
    ASSUME TypeOK, NEW n \in Nodes, NEW d \in Nodes
    PROVE  /\ DOMAIN ZoneAfter(n, d) = Nodes
           /\ \A m \in Nodes : IsTable(ZoneAfter(n, d)[m])
           /\ \A m \in Nodes : \A q \in DOMAIN ZoneAfter(n, d)[m] :
                 \/ q \in DOMAIN zone[m] /\ ZoneAfter(n, d)[m][q] = zone[m][q]
                 \/ q \in DOMAIN global[m] /\ ZoneAfter(n, d)[m][q] = global[m][q]
<1> USE DEF TypeOK
<1>1. CASE InGlobal(n, d)
  <2>1. /\ ZoneAfter(n, d) = [zone EXCEPT ![n] = AddOrUpdate(zone[n], d, global[n][d])]
        /\ d \in DOMAIN global[n]
    BY <1>1 DEF ZoneAfter, InGlobal
  <2>2. global[n][d] \in Vector
    BY <2>1 DEF IsTable
  <2>3. /\ IsTable(AddOrUpdate(zone[n], d, global[n][d]))
        /\ \A q \in DOMAIN AddOrUpdate(zone[n], d, global[n][d]) :
              \/ q = d /\ AddOrUpdate(zone[n], d, global[n][d])[q] = global[n][q]
              \/ /\ q \in DOMAIN zone[n]
                 /\ AddOrUpdate(zone[n], d, global[n][d])[q] = zone[n][q]
    BY <2>2 DEF AddOrUpdate, IsTable
  <2> QED
    BY <2>1, <2>3
<1>2. CASE ~InGlobal(n, d)
  BY <1>2 DEF ZoneAfter
<1> QED
  BY <1>1, <1>2

(***************************************************************************)
(* Every handler keeps tables, frames and counters within their types.     *)
(***************************************************************************)
THEOREM TypeCorrect == Spec => []TypeOK
<1> USE MpfAssumption
<1>1. Init => TypeOK
  BY DEF Init, TypeOK, IsTable
<1>2. TypeOK /\ [Next]_vars => TypeOK'
  <2> SUFFICES ASSUME TypeOK, [Next]_vars PROVE TypeOK'
    OBVIOUS
  <2>1. ASSUME NEW n \in Nodes, NEW d \in Nodes, RouteOutput(n, d) PROVE TypeOK'
    <3> DEFINE p == [id |-> packets + 1, dst |-> d, ttl |-> InitialTtl, path |-> <<>>]
    <3>1. /\ p.id \in Nat /\ p.dst \in Nodes /\ p.ttl \in Nat /\ p.path \in Seq(Hop)
          /\ pos[n] \in Vector
      BY DEF TypeOK
    <3>2. Arrivals(n, p, pos[n]) \subseteq Frame
      BY <3>1, ArrivalTyped
    <3>3. /\ net' = net \union Arrivals(n, p, pos[n])
          /\ zone' = ZoneAfter(n, d)
          /\ packets < MaxPackets /\ packets' = packets + 1
          /\ UNCHANGED <<pos, global, delivered, tableEvents>>
      BY <2>1 DEF RouteOutput
    <3> HIDE DEF p
    <3> QED
      BY <3>2, <3>3, ZoneAfterTyped DEF TypeOK, IsTable
  <2>2. ASSUME NEW f \in net, Deliver(f) PROVE TypeOK'
    BY <2>2 DEF Deliver, TypeOK, IsTable, Frame
  <2>3. ASSUME NEW f \in net, Drop(f) PROVE TypeOK'
    BY <2>3 DEF Drop, TypeOK, IsTable
  <2>4. ASSUME NEW f \in net, Relay(f) PROVE TypeOK'
    <3> DEFINE p == [id |-> f.id, dst |-> f.dst, ttl |-> f.ttl - 1, path |-> f.path]
    <3>1. /\ f \in Frame
          /\ net' = (net \ {f}) \union (IF f.ttl > 1 THEN Arrivals(f.at, p, f.target) ELSE {})
          /\ zone' = ZoneAfter(f.at, f.dst)
          /\ UNCHANGED <<pos, global, packets, delivered, tableEvents>>
      BY <2>4 DEF Relay, TypeOK
    <3>2. /\ p.id \in Nat /\ p.dst \in Nodes /\ p.path \in Seq(Hop)
          /\ f.ttl > 1 => p.ttl \in Nat
          /\ f.at \in Nodes /\ f.dst \in Nodes /\ f.target \in Vector
      BY <3>1 DEF Frame
    <3> HIDE DEF p
    <3>3. f.ttl > 1 => Arrivals(f.at, p, f.target) \subseteq Frame
      BY <3>2, ArrivalTyped
    <3>4. net' \subseteq Frame
      BY <3>1, <3>3 DEF TypeOK
    <3> QED
      BY <3>1, <3>2, <3>4, ZoneAfterTyped DEF TypeOK, IsTable
  <2>5. ASSUME NEW f \in net, Lose(f) PROVE TypeOK'
    BY <2>5 DEF Lose, TypeOK, IsTable
  <2>6. ASSUME NEW n \in Nodes, NEW m \in Nodes, NEW e \in Errors, HearHello(n, m, e)
        PROVE  TypeOK'
    <3>1. Believed(m, e) \in Vector
      BY DEF TypeOK, Believed, Vector
    <3> QED
      BY <2>6, <3>1 DEF HearHello, TypeOK, IsTable, AddOrUpdate
  <2>7. ASSUME NEW n \in Nodes, NEW m \in Nodes, NEW e \in Errors,
               HearGlobalUpdate(n, m, e)
        PROVE  TypeOK'
    <3>1. Believed(m, e) \in Vector
      BY DEF TypeOK, Believed, Vector
    <3> QED
      BY <2>7, <3>1 DEF HearGlobalUpdate, TypeOK, IsTable, AddOrUpdate
  <2>8. ASSUME NEW n \in Nodes, NEW m \in Nodes, Expire(n, m) PROVE TypeOK'
    <3>1. IsTable(Without(zone[n], m)) /\ IsTable(Without(global[n], m))
      BY DEF TypeOK, IsTable, Without
    <3>2. CASE zone' = [zone EXCEPT ![n] = Without(@, m)] /\ UNCHANGED global
      BY <2>8, <3>1, <3>2 DEF Expire, TypeOK, IsTable
    <3>3. CASE global' = [global EXCEPT ![n] = Without(@, m)] /\ UNCHANGED zone
      BY <2>8, <3>1, <3>3 DEF Expire, TypeOK, IsTable
    <3> QED
      BY <2>8, <3>2, <3>3 DEF Expire
  <2>9. CASE UNCHANGED vars
    BY <2>9 DEF vars, TypeOK, IsTable
  <2> QED
    BY <2>1, <2>2, <2>3, <2>4, <2>5, <2>6, <2>7, <2>8, <2>9 DEF Next, RouteInput
<1> QED
  BY <1>1, <1>2, PTL DEF Spec

(***************************************************************************)
(* Steps that put no new frame on the air keep whatever holds of every     *)
(* frame by itself.                                                        *)
(***************************************************************************)
LEMMA NewFrames ==
    ASSUME [Next]_vars
    PROVE  \/ net' \subseteq net
           \/ \E n, d \in Nodes : RouteOutput(n, d)
           \/ \E f \in net : Relay(f) /\ f.ttl > 1
<1>1. CASE \E n, d \in Nodes : RouteOutput(n, d)
  BY <1>1
<1>2. CASE \E f \in net : RouteInput(f)
  BY <1>2 DEF RouteInput, Deliver, Drop, Relay
<1>3. CASE \E f \in net : Lose(f)
  BY <1>3 DEF Lose
<1>4. CASE \E n, m \in Nodes, e \in Errors : HearHello(n, m, e)
  BY <1>4 DEF HearHello
<1>5. CASE \E n, m \in Nodes, e \in Errors : HearGlobalUpdate(n, m, e)
  BY <1>5 DEF HearGlobalUpdate
<1>6. CASE \E n, m \in Nodes : Expire(n, m)
  BY <1>6 DEF Expire
<1>7. CASE UNCHANGED vars
  BY <1>7 DEF vars
<1> QED
  BY <1>1, <1>2, <1>3, <1>4, <1>5, <1>6, <1>7 DEF Next

(***************************************************************************)
(* A frame on its first hop from a source without an entry aims back at    *)
(* that source.  This is what BlindStaysLocal needs to be inductive.       *)
(***************************************************************************)
BlindAim ==
    \A f \in net :
        /\ Len(f.path) > 0
        /\ Len(f.path) = 1 /\ ~f.path[1].known => f.phase = 2 /\ f.target = f.sender

(***************************************************************************)
(* Of a packet of which the sender knows nothing, the header names the     *)
(* fallback as the target, and the phase is the backup phase.              *)
(***************************************************************************)
LEMMA UnknownBroadcasts ==
    ASSUME NEW n, NEW d, NEW fallback, Unknown(n, d)
    PROVE  PhaseOf(n, d) = 2 /\ TargetOf(n, d, fallback) = fallback
  BY DEF Unknown, PhaseOf, GatewayOf, TargetOf, InZone, InGlobal

(***************************************************************************)
(* A packet broadcast blindly is never heard beyond the first hop, for any *)
(* network and any errors of the announced positions.                      *)
(***************************************************************************)
THEOREM BlindPacketsStayLocal == Spec => []BlindStaysLocal
<1> USE MpfAssumption
<1>1. Init => BlindAim /\ BlindStaysLocal
  BY DEF Init, BlindAim, BlindStaysLocal
<1>2. TypeOK /\ BlindAim /\ BlindStaysLocal /\ [Next]_vars => (BlindAim /\ BlindStaysLocal)'
  <2> SUFFICES ASSUME TypeOK, BlindAim, BlindStaysLocal, [Next]_vars
               PROVE  (BlindAim /\ BlindStaysLocal)'
    OBVIOUS
  <2>1. CASE net' \subseteq net
    BY <2>1 DEF BlindAim, BlindStaysLocal
  <2>2. ASSUME NEW n \in Nodes, NEW d \in Nodes, RouteOutput(n, d)
        PROVE  (BlindAim /\ BlindStaysLocal)'
    <3> DEFINE p == [id |-> packets + 1, dst |-> d, ttl |-> InitialTtl, path |-> <<>>]
               hop == [node |-> n, phase |-> PhaseOf(n, d), known |-> ~Unknown(n, d)]
    <3>1. net' = net \union Arrivals(n, p, pos[n])
      BY <2>2 DEF RouteOutput
    <3>2. ASSUME NEW f \in Arrivals(n, p, pos[n])
          PROVE  /\ Len(f.path) = 1
                 /\ ~f.path[1].known => f.phase = 2 /\ f.target = f.sender
      <4>1. /\ f.path = Append(<<>>, hop)
            /\ f.phase = PhaseOf(n, d) /\ f.sender = pos[n]
            /\ f.target = TargetOf(n, d, pos[n])
        BY ArrivalFacts
      <4>2. Append(<<>>, hop) = <<hop>>
        OBVIOUS
      <4>3. Len(f.path) = 1 /\ f.path[1] = hop
        BY <4>1, <4>2
      <4>4. CASE Unknown(n, d)
        BY <4>1, <4>3, <4>4, UnknownBroadcasts
      <4>5. CASE ~Unknown(n, d)
        <5>1. hop.known
          BY <4>5, Zenon
        <5> QED
          BY <4>3, <5>1, Zenon
      <4> QED
        BY <4>4, <4>5
    <3> HIDE DEF p, hop
    <3> SUFFICES ASSUME NEW f \in net'
                 PROVE  /\ Len(f.path) > 0
                        /\ Len(f.path) = 1 /\ ~f.path[1].known
                               => f.phase = 2 /\ f.target = f.sender
                        /\ Len(f.path) > 1 => f.path[1].known
      BY DEF BlindAim, BlindStaysLocal
    <3>3. CASE f \in net
      BY <3>3 DEF BlindAim, BlindStaysLocal
    <3>4. CASE f \in Arrivals(n, p, pos[n])
      <4>1. Len(f.path) = 1 /\ (~f.path[1].known => f.phase = 2 /\ f.target = f.sender)
        BY <3>2, <3>4, Zenon
      <4>2. Len(f.path) > 0 /\ ~(Len(f.path) > 1)
        BY <4>1
      <4> QED
        BY <4>1, <4>2, Zenon
    <3> QED
      BY <3>1, <3>3, <3>4
  <2>3. ASSUME NEW f \in net, Relay(f), f.ttl > 1 PROVE (BlindAim /\ BlindStaysLocal)'
    <3> DEFINE p == [id |-> f.id, dst |-> f.dst, ttl |-> f.ttl - 1, path |-> f.path]
               hop == [node |-> f.at, phase |-> PhaseOf(f.at, f.dst),
                       known |-> ~Unknown(f.at, f.dst)]
    <3>1. /\ net' = (net \ {f}) \union Arrivals(f.at, p, f.target)
          /\ Admits(f)
      BY <2>3 DEF Relay
    <3>2. /\ f.path \in Seq(Hop) /\ Len(f.path) > 0 /\ f.at \in Nodes
          /\ f.target \in Vector /\ f.sender \in Vector
      BY DEF TypeOK, Frame, BlindAim
    <3>3. f.path[1].known
      <4>1. CASE Len(f.path) = 1
        <5>1. SUFFICES ASSUME ~f.path[1].known PROVE FALSE
          OBVIOUS
        <5>2. f.phase = 2 /\ f.target = f.sender
          BY <4>1, <5>1 DEF BlindAim
        <5>3. Distance2(pos[f.at], f.target) < Distance2(f.target, f.target)
          BY <3>1, <5>2 DEF Admits
        <5>4. pos[f.at] \in Vector
          BY <3>2 DEF TypeOK
        <5> QED
          BY <3>2, <5>3, <5>4, DistanceFacts
      <4>2. CASE Len(f.path) > 1
        BY <4>2 DEF BlindStaysLocal
      <4>3. Len(f.path) \in Nat /\ Len(f.path) > 0
        BY <3>2
      <4>4. \A k \in Nat : k > 0 => k = 1 \/ k > 1
        OBVIOUS
      <4>5. Len(f.path) = 1 \/ Len(f.path) > 1
        BY <4>3, <4>4, Zenon
      <4> QED
        BY <4>1, <4>2, <4>5, Zenon
    <3>4. p.dst = f.dst /\ p.path = f.path
      OBVIOUS
    <3> HIDE DEF p
    <3>5. ASSUME NEW g \in Arrivals(f.at, p, f.target)
          PROVE  Len(g.path) > 1 /\ g.path[1].known
      <4>1. g.path = Append(f.path, hop)
        <5>1. f.at \in Nodes
          BY <3>2
        <5>2. g.path = Append(p.path, [node |-> f.at, phase |-> PhaseOf(f.at, p.dst),
                                       known |-> ~Unknown(f.at, p.dst)])
          BY <5>1, ArrivalPath
        <5> QED
          BY <3>4, <5>2, Zenon
      <4> HIDE DEF hop
      <4>2. Len(g.path) > 1 /\ g.path[1] = f.path[1]
        BY <3>2, <4>1
      <4> QED
        BY <3>3, <4>2
    <3> HIDE DEF hop
    <3> SUFFICES ASSUME NEW g \in net'
                 PROVE  /\ Len(g.path) > 0
                        /\ Len(g.path) = 1 /\ ~g.path[1].known
                               => g.phase = 2 /\ g.target = g.sender
                        /\ Len(g.path) > 1 => g.path[1].known
      BY DEF BlindAim, BlindStaysLocal
    <3>6. CASE g \in net
      BY <3>6 DEF BlindAim, BlindStaysLocal
    <3>7. CASE g \in Arrivals(f.at, p, f.target)
      BY <3>5, <3>7
    <3> QED
      BY <3>1, <3>6, <3>7
  <2> QED
    BY <2>1, <2>2, <2>3, NewFrames
<1> QED
  BY <1>1, <1>2, TypeCorrect, PTL DEF Spec

-----------------------------------------------------------------------------
\* Positions are announced without error.
NoError == Errors \subseteq {[x |-> 0, y |-> 0]}

(***************************************************************************)
(* Without errors, every entry of every table names the true position.     *)
(***************************************************************************)
LEMMA TablesStayAccurate ==
    ASSUME NoError, TypeOK, AccurateTables, [Next]_vars
    PROVE  AccurateTables' /\ pos' = pos
<1> USE MpfAssumption DEF TypeOK
<1>1. ASSUME NEW n \in Nodes, NEW d \in Nodes, zone' = ZoneAfter(n, d),
             UNCHANGED <<pos, global>>
      PROVE  AccurateTables'
  <2>1. \A m \in Nodes : \A q \in DOMAIN zone'[m] :
           \/ q \in DOMAIN zone[m] /\ zone'[m][q] = zone[m][q]
           \/ q \in DOMAIN global[m] /\ zone'[m][q] = global[m][q]
    BY <1>1, ZoneAfterTyped
  <2> QED
    BY <1>1, <2>1 DEF AccurateTables
<1>2. ASSUME NEW m \in Nodes, NEW e \in Errors PROVE Believed(m, e) = pos[m]
  <2>1. e = [x |-> 0, y |-> 0] /\ pos[m] \in Vector
    BY DEF NoError
  <2> QED
    BY <2>1 DEF Believed, Vector
<1>3. ASSUME NEW n \in Nodes, NEW d \in Nodes, RouteOutput(n, d)
      PROVE  AccurateTables' /\ pos' = pos
  BY <1>1, <1>3 DEF RouteOutput
<1>4. ASSUME NEW f \in net, RouteInput(f)
      PROVE  AccurateTables' /\ pos' = pos
  <2>1. CASE Deliver(f) \/ Drop(f)
    BY <2>1 DEF Deliver, Drop, AccurateTables
  <2>2. CASE Relay(f)
    <3>1. f.at \in Nodes /\ f.dst \in Nodes
      BY DEF Frame
    <3> QED
      BY <1>1, <2>2, <3>1 DEF Relay
  <2> QED
    BY <1>4, <2>1, <2>2 DEF RouteInput
<1>5. ASSUME NEW f \in net, Lose(f) PROVE AccurateTables' /\ pos' = pos
  BY <1>5 DEF Lose, AccurateTables
<1>6. ASSUME NEW n \in Nodes, NEW m \in Nodes, NEW e \in Errors, HearHello(n, m, e)
      PROVE  AccurateTables' /\ pos' = pos
  BY <1>2, <1>6 DEF HearHello, AccurateTables, AddOrUpdate
<1>7. ASSUME NEW n \in Nodes, NEW m \in Nodes, NEW e \in Errors, HearGlobalUpdate(n, m, e)
      PROVE  AccurateTables' /\ pos' = pos
  BY <1>2, <1>7 DEF HearGlobalUpdate, AccurateTables, AddOrUpdate
<1>8. ASSUME NEW n \in Nodes, NEW m \in Nodes, Expire(n, m)
      PROVE  AccurateTables' /\ pos' = pos
  BY <1>8 DEF Expire, AccurateTables, Without
<1>9. CASE UNCHANGED vars
  BY <1>9 DEF vars, AccurateTables
<1> QED
  BY <1>3, <1>4, <1>5, <1>6, <1>7, <1>8, <1>9 DEF Next

(***************************************************************************)
(* Where a node sends a packet: to a node nearer to the destination, or to *)
(* every node around with the destination or the fallback as the target.   *)
(***************************************************************************)
LEMMA SentForward ==
    ASSUME TypeOK, AccurateTables, NEW n \in Nodes, NEW p, NEW fallback,
           p.dst \in Nodes, NEW f \in Arrivals(n, p, fallback)
    PROVE  /\ f.phase # 2 => /\ f.target = pos[p.dst]
                             /\ DistanceTo(p.dst, f.at) < DistanceTo(p.dst, n)
           /\ f.phase = 2 => /\ f.sender = pos[n]
                             /\ f.target = pos[p.dst] \/ f.target = fallback
<1>1. /\ f.phase = PhaseOf(n, p.dst) /\ f.sender = pos[n]
      /\ f.target = TargetOf(n, p.dst, fallback) /\ f.at \in Nodes
      /\ GatewayOf(n, p.dst) # {} => f.at \in GatewayOf(n, p.dst)
  <2>1. /\ f.phase = PhaseOf(n, p.dst)
        /\ f.sender = pos[n]
        /\ f.target = TargetOf(n, p.dst, fallback)
    BY ArrivalFields
  <2>2. f.at \in Nodes /\ (GatewayOf(n, p.dst) # {} => f.at \in GatewayOf(n, p.dst))
    BY ArrivalFacts
  <2> QED
    BY <2>1, <2>2
<1>2. ~Unknown(n, p.dst) => \A q : TargetOf(n, p.dst, q) = pos[p.dst]
  BY DEF Unknown, TargetOf, InZone, InGlobal, AccurateTables
<1>3. Unknown(n, p.dst) => f.target = fallback
  BY <1>1, UnknownBroadcasts
<1>4. f.target = pos[p.dst] \/ f.target = fallback
  BY <1>1, <1>2, <1>3
<1>5. ASSUME f.phase # 2
      PROVE  f.target = pos[p.dst] /\ DistanceTo(p.dst, f.at) < DistanceTo(p.dst, n)
  <2>1. GatewayOf(n, p.dst) # {} /\ ~Unknown(n, p.dst)
    BY <1>1, <1>5 DEF PhaseOf, GatewayOf
  <2>2. TargetOf(n, p.dst, pos[n]) = pos[p.dst] /\ f.at \in GatewayOf(n, p.dst)
    BY <1>1, <1>2, <2>1
  <2>3. /\ f.at \in DOMAIN zone[n]
        /\ Distance2(zone[n][f.at], pos[p.dst]) < Distance2(pos[n], pos[p.dst])
    BY <2>2, GatewayIsNearer
  <2>4. zone[n][f.at] = pos[f.at]
    BY <2>3 DEF AccurateTables
  <2> QED
    BY <1>1, <1>2, <2>1, <2>3, <2>4 DEF DistanceTo
<1> QED
  BY <1>1, <1>4, <1>5

(***************************************************************************)
(* A node that sends on what it received is nearer than the node before.   *)
(***************************************************************************)
LEMMA RelayIsNearer ==
    ASSUME TypeOK, AimedForward, NEW f \in net, Admits(f)
    PROVE  /\ f.target = pos[f.dst]
           /\ DistanceTo(f.dst, f.at) < DistanceTo(f.dst, f.path[Len(f.path)].node)
<1> DEFINE last == f.path[Len(f.path)].node
<1>1. /\ last \in Nodes
      /\ f.phase # 2 => /\ f.target = pos[f.dst]
                        /\ DistanceTo(f.dst, f.at) < DistanceTo(f.dst, last)
      /\ f.phase = 2 => /\ f.sender = pos[last]
                        /\ f.target \in {pos[f.dst], f.sender}
  BY DEF AimedForward
<1> HIDE DEF last
<1>2. CASE f.phase = 2
  <2>1. /\ f.at \in Nodes /\ f.dst \in Nodes
        /\ pos[f.at] \in Vector /\ pos[f.dst] \in Vector /\ pos[last] \in Vector
    BY <1>1, MpfAssumption DEF TypeOK, Frame
  <2>2. Distance2(pos[f.at], f.target) < Distance2(f.sender, f.target)
    BY <1>2 DEF Admits
  <2>3. f.target # f.sender
    BY <1>1, <1>2, <2>1, <2>2, DistanceFacts
  <2> QED
    BY <1>1, <1>2, <2>2, <2>3 DEF DistanceTo, last
<1> QED
  BY <1>1, <1>2 DEF last

\* AimedForward and GreedyProgress, of one frame.
Aimed(f) ==
    /\ Len(f.path) > 0
    /\ f.path[Len(f.path)].node \in Nodes
    /\ f.phase # 2 =>
          /\ f.target = pos[f.dst]
          /\ DistanceTo(f.dst, f.at) < DistanceTo(f.dst, f.path[Len(f.path)].node)
    /\ f.phase = 2 => /\ f.sender = pos[f.path[Len(f.path)].node]
                      /\ f.target \in {pos[f.dst], f.sender}

Progress(f) ==
    \A i \in DOMAIN f.path : \A j \in DOMAIN f.path :
        i < j => DistanceTo(f.dst, f.path[j].node) < DistanceTo(f.dst, f.path[i].node)

(***************************************************************************)
(* A packet its source sends is aimed forward.                             *)
(***************************************************************************)
LEMMA FirstHop ==
    ASSUME TypeOK, AccurateTables, NEW n \in Nodes, NEW p, p.dst \in Nodes, p.path = <<>>,
           NEW f \in Arrivals(n, p, pos[n])
    PROVE  Aimed(f) /\ Progress(f)
<1> DEFINE hop == [node |-> n, phase |-> PhaseOf(n, p.dst), known |-> ~Unknown(n, p.dst)]
<1>1. f.path = Append(p.path, hop) /\ f.dst = p.dst
  BY ArrivalFacts
<1>2. hop.node = n
  OBVIOUS
<1> HIDE DEF hop
<1>3. f.path = <<hop>>
  BY <1>1
<1>4. Len(f.path) = 1 /\ f.path[1].node = n /\ DOMAIN f.path = {1}
  BY <1>2, <1>3
<1>5. /\ f.phase # 2 => /\ f.target = pos[p.dst]
                        /\ DistanceTo(p.dst, f.at) < DistanceTo(p.dst, n)
      /\ f.phase = 2 => /\ f.sender = pos[n]
                        /\ f.target = pos[p.dst] \/ f.target = pos[n]
  BY SentForward
<1>6. Aimed(f)
  BY <1>1, <1>4, <1>5 DEF Aimed
<1>7. Progress(f)
  BY <1>4 DEF Progress
<1> QED
  BY <1>6, <1>7

(***************************************************************************)
(* A packet a node sends on stays aimed forward, and has come nearer.      *)
(***************************************************************************)
LEMMA NextHop ==
    ASSUME TypeOK, AccurateTables, AimedForward, NEW f \in net, Admits(f), Progress(f),
           NEW p, p.dst = f.dst, p.path = f.path,
           NEW g \in Arrivals(f.at, p, f.target)
    PROVE  Aimed(g) /\ Progress(g)
<1> DEFINE n == f.at
           hop == [node |-> n, phase |-> PhaseOf(n, p.dst), known |-> ~Unknown(n, p.dst)]
           k == Len(f.path)
<1>1. /\ f.path \in Seq(Hop) /\ k \in Nat /\ k > 0 /\ n \in Nodes /\ f.dst \in Nodes
      /\ p.dst \in Nodes
  BY DEF TypeOK, Frame, AimedForward
<1>2. g.path = Append(f.path, hop) /\ g.dst = f.dst
  <2>1. f.at \in Nodes
    BY <1>1
  <2>2. g.dst = p.dst /\ g.path = Append(p.path, hop)
    BY <2>1, ArrivalPath
  <2> HIDE DEF hop
  <2> QED
    BY <2>2
<1>3. hop.node = n
  OBVIOUS
<1>4. /\ g.phase # 2 => /\ g.target = pos[f.dst]
                        /\ DistanceTo(f.dst, g.at) < DistanceTo(f.dst, n)
      /\ g.phase = 2 => /\ g.sender = pos[n]
                        /\ g.target = pos[f.dst] \/ g.target = f.target
  BY <1>1, SentForward
<1>5. f.target = pos[f.dst] /\ DistanceTo(f.dst, n) < DistanceTo(f.dst, f.path[k].node)
  BY RelayIsNearer
<1>6. \A m \in Nodes : DistanceTo(f.dst, m) \in Int
  <2>1. \A m \in Nodes : pos[m] \in Vector
    BY MpfAssumption DEF TypeOK
  <2> QED
    BY <1>1, <2>1, DistanceFacts DEF DistanceTo
<1> HIDE DEF hop, n
<1>7. /\ Len(g.path) = k + 1 /\ g.path[k + 1] = hop
      /\ DOMAIN g.path = 1..(k + 1)
      /\ \A i \in 1..k : g.path[i] = f.path[i]
  BY <1>1, <1>2
<1>8. DOMAIN f.path = 1..k /\ \A i \in 1..k : f.path[i].node \in Nodes
  <2>1. DOMAIN f.path = 1..k /\ \A i \in 1..k : f.path[i] \in Hop
    BY <1>1
  <2>2. \A h \in Hop : h.node \in Nodes
    BY DEF Hop
  <2> QED
    BY <2>1, <2>2
<1> HIDE DEF k
<1>9. Aimed(g)
  BY <1>1, <1>2, <1>3, <1>4, <1>5, <1>7 DEF Aimed
<1>10. Progress(g)
  <2> SUFFICES ASSUME NEW i \in 1..(k + 1), NEW j \in 1..(k + 1), i < j
               PROVE  DistanceTo(f.dst, g.path[j].node) < DistanceTo(f.dst, g.path[i].node)
    BY <1>2, <1>7 DEF Progress
  <2>1. i \in 1..k
    BY <1>1
  <2>2. CASE j \in 1..k
    BY <1>7, <1>8, <2>1, <2>2 DEF Progress
  <2>3. CASE j = k + 1
    <3>1. CASE i = k
      BY <1>3, <1>5, <1>7, <2>1, <2>3, <3>1
    <3>2. CASE i < k
      <4>1. k \in 1..k
        BY <1>1
      <4>2. DistanceTo(f.dst, f.path[k].node) < DistanceTo(f.dst, f.path[i].node)
        BY <1>8, <2>1, <3>2, <4>1 DEF Progress
      <4>3. /\ DistanceTo(f.dst, f.path[k].node) \in Int
            /\ DistanceTo(f.dst, f.path[i].node) \in Int
            /\ DistanceTo(f.dst, n) \in Int
        BY <1>1, <1>6, <1>8, <2>1, <4>1
      <4>4. g.path[j].node = n /\ g.path[i].node = f.path[i].node
        BY <1>3, <1>7, <2>1, <2>3
      <4>5. DistanceTo(f.dst, n) < DistanceTo(f.dst, f.path[i].node)
        BY <1>5, <4>2, <4>3
      <4> QED
        BY <4>4, <4>5
    <3> QED
      BY <1>1, <2>1, <3>1, <3>2
  <2> QED
    BY <1>1, <2>2, <2>3
<1> QED
  BY <1>9, <1>10

(***************************************************************************)
(* With positions announced without error, each node that sends a packet   *)
(* on is strictly nearer to the destination than all before it, however    *)
(* the phases alternate and however incomplete the tables are.             *)
(***************************************************************************)
THEOREM PacketsComeNearer == ASSUME NoError PROVE Spec => []GreedyProgress
<1>1. Init => IInv
  BY DEF Init, IInv, AccurateTables, AimedForward, GreedyProgress
<1>2. TypeOK /\ IInv /\ [Next]_vars => IInv'
  <2> SUFFICES ASSUME TypeOK, IInv, [Next]_vars PROVE IInv'
    OBVIOUS
  <2>1. AccurateTables' /\ pos' = pos
    BY TablesStayAccurate DEF IInv
  <2>2. \A f \in net : Aimed(f) /\ Progress(f)
    BY DEF IInv, AimedForward, GreedyProgress, Aimed, Progress
  <2>3. \A f \in net' : Aimed(f) /\ Progress(f)
    <3>1. CASE net' \subseteq net
      BY <2>2, <3>1
    <3>2. ASSUME NEW n \in Nodes, NEW d \in Nodes, RouteOutput(n, d)
          PROVE  \A f \in net' : Aimed(f) /\ Progress(f)
      <4> DEFINE p == [id |-> packets + 1, dst |-> d, ttl |-> InitialTtl, path |-> <<>>]
      <4>1. net' = net \union Arrivals(n, p, pos[n])
        BY <3>2 DEF RouteOutput
      <4>2. p.dst \in Nodes /\ p.path = <<>>
        OBVIOUS
      <4> HIDE DEF p
      <4>3. \A f \in Arrivals(n, p, pos[n]) : Aimed(f) /\ Progress(f)
        BY <4>2, FirstHop DEF IInv
      <4> QED
        BY <2>2, <4>1, <4>3
    <3>3. ASSUME NEW f \in net, Relay(f), f.ttl > 1
          PROVE  \A g \in net' : Aimed(g) /\ Progress(g)
      <4> DEFINE p == [id |-> f.id, dst |-> f.dst, ttl |-> f.ttl - 1, path |-> f.path]
      <4>1. /\ net' = (net \ {f}) \union Arrivals(f.at, p, f.target)
            /\ Admits(f)
        BY <3>3 DEF Relay
      <4>2. p.dst = f.dst /\ p.path = f.path
        OBVIOUS
      <4> HIDE DEF p
      <4>3. \A g \in Arrivals(f.at, p, f.target) : Aimed(g) /\ Progress(g)
        BY <2>2, <4>1, <4>2, NextHop DEF IInv
      <4> QED
        BY <2>2, <4>1, <4>3
    <3> QED
      BY <3>1, <3>2, <3>3, NewFrames
  <2>4. AimedForward' /\ GreedyProgress'
    BY <2>1, <2>3 DEF AimedForward, GreedyProgress, Aimed, Progress, DistanceTo
  <2> QED
    BY <2>1, <2>4 DEF IInv
<1>3. IInv => GreedyProgress
  BY DEF IInv
<1> QED
  BY <1>1, <1>2, <1>3, TypeCorrect, PTL DEF Spec

(***************************************************************************)
(* Hence no packet ever comes back to a node that sent it on: greedy and   *)
(* backup forwarding are free of loops while announced positions hold.     *)
(***************************************************************************)
THEOREM LoopFreedom == ASSUME NoError PROVE Spec => []NoRevisit
<1>1. TypeOK /\ GreedyProgress => NoRevisit
  <2> SUFFICES ASSUME TypeOK, GreedyProgress, NEW f \in net,
                      NEW i \in DOMAIN f.path, NEW j \in DOMAIN f.path, i # j,
                      f.path[i].node = f.path[j].node
               PROVE  FALSE
    BY DEF NoRevisit
  <2>1. f.path \in Seq(Hop) /\ f.dst \in Nodes
    BY DEF TypeOK, Frame
  <2>2. i \in Int /\ j \in Int /\ f.path[i] \in Hop
    BY <2>1
  <2>3. f.path[i].node \in Nodes
    BY <2>2 DEF Hop
  <2>4. pos[f.path[i].node] \in Vector /\ pos[f.dst] \in Vector
    BY <2>1, <2>3, MpfAssumption DEF TypeOK
  <2>5. DistanceTo(f.dst, f.path[i].node) \in Int
    BY <2>4, DistanceFacts DEF DistanceTo
  <2>6. ~(i < j) /\ ~(j < i)
    BY <2>5 DEF GreedyProgress
  <2> QED
    BY <2>2, <2>6
<1> QED
  BY <1>1, TypeCorrect, PacketsComeNearer, PTL

-----------------------------------------------------------------------------
(* Copies of a packet.                                                     *)

\* Two paths are the same up to a broadcast.
PartAtBroadcast(s, t) ==
    \E k \in DOMAIN s \intersect DOMAIN t :
        s[k].phase = 2 /\ \A i \in 1..k : s[i] = t[i]

(***************************************************************************)
(* CopiesPartAtBroadcast, hop by hop.                                      *)
(***************************************************************************)
LEMMA SamePrefix ==
    ASSUME NEW s \in Seq(Hop), NEW t \in Seq(Hop)
    PROVE  PartAtBroadcast(s, t) <=>
               \E k \in DOMAIN s \intersect DOMAIN t :
                   s[k].phase = 2 /\ SubSeq(s, 1, k) = SubSeq(t, 1, k)
<1> SUFFICES ASSUME NEW k \in DOMAIN s \intersect DOMAIN t
             PROVE  SubSeq(s, 1, k) = SubSeq(t, 1, k) <=> \A i \in 1..k : s[i] = t[i]
  BY DEF PartAtBroadcast
<1>1. k \in 1..Len(s) /\ k \in 1..Len(t) /\ Len(s) \in Nat /\ Len(t) \in Nat
  OBVIOUS
<1>2. /\ SubSeq(s, 1, k) = [i \in 1..k |-> s[i]]
      /\ SubSeq(t, 1, k) = [i \in 1..k |-> t[i]]
  <2>1. SubSeq(s, 1, k) = [i \in 1..(1 + k - 1) |-> s[i + 1 - 1]]
    BY <1>1
  <2>2. SubSeq(t, 1, k) = [i \in 1..(1 + k - 1) |-> t[i + 1 - 1]]
    BY <1>1
  <2> QED
    BY <1>1, <2>1, <2>2
<1> QED
  BY <1>2

(***************************************************************************)
(* Paths that parted at a broadcast stay parted, and parting is mutual.    *)
(***************************************************************************)
LEMMA PartedForGood ==
    ASSUME NEW s \in Seq(Hop), NEW t \in Seq(Hop), NEW hop \in Hop, PartAtBroadcast(s, t)
    PROVE  PartAtBroadcast(t, s) /\ PartAtBroadcast(Append(s, hop), t)
<1>1. PICK k \in DOMAIN s \intersect DOMAIN t :
          s[k].phase = 2 /\ \A i \in 1..k : s[i] = t[i]
  BY DEF PartAtBroadcast
<1>2. k \in 1..Len(s) /\ Len(s) \in Nat
  OBVIOUS
<1>3. PartAtBroadcast(t, s)
  BY <1>1, <1>2 DEF PartAtBroadcast
<1> DEFINE longer == Append(s, hop)
<1>4. /\ DOMAIN longer = 1..Len(s) + 1
      /\ \A i \in 1..Len(s) : longer[i] = s[i]
  OBVIOUS
<1> HIDE DEF longer
<1>5. k \in DOMAIN longer /\ longer[k] = s[k] /\ \A i \in 1..k : longer[i] = t[i]
  BY <1>1, <1>2, <1>4
<1>6. PartAtBroadcast(longer, t)
  BY <1>1, <1>5 DEF PartAtBroadcast
<1> QED
  BY <1>3, <1>6 DEF longer

(***************************************************************************)
(* Two frames that arrive when a node sends a packet on: it broadcast the  *)
(* packet.                                                                 *)
(***************************************************************************)
LEMMA ArrivalsPart ==
    ASSUME TypeOK, NEW n \in Nodes, NEW p, NEW fallback, p.dst \in Nodes, p.path \in Seq(Hop),
           NEW f \in Arrivals(n, p, fallback), NEW g \in Arrivals(n, p, fallback), f # g
    PROVE  PartAtBroadcast(f.path, g.path)
<1> DEFINE phase == PhaseOf(n, p.dst)
           hop == [node |-> n, phase |-> phase, known |-> ~Unknown(n, p.dst)]
<1>1. f.path = Append(p.path, hop) /\ g.path = Append(p.path, hop)
  BY ArrivalPath
<1>2. GatewayOf(n, p.dst) = {}
  <2> SUFFICES ASSUME GatewayOf(n, p.dst) # {} PROVE f = g
    OBVIOUS
  <2> DEFINE Copy(m) == [id |-> p.id, dst |-> p.dst, ttl |-> p.ttl, at |-> m,
                         phase |-> phase, sender |-> pos[n],
                         target |-> TargetOf(n, p.dst, fallback),
                         path |-> Append(p.path, hop)]
  <2>1. f = Copy(f.at) /\ f.at \in GatewayOf(n, p.dst)
    BY ArrivalFacts
  <2>2. g = Copy(g.at) /\ g.at \in GatewayOf(n, p.dst)
    BY ArrivalFacts
  <2> HIDE DEF Copy
  <2>3. f.at = g.at
    BY <2>1, <2>2, OneGateway
  <2> QED
    BY <2>1, <2>2, <2>3
<1>3. phase = 2
  BY <1>2 DEF PhaseOf
<1>4. hop.phase = phase
  OBVIOUS
<1> HIDE DEF hop, phase
<1> DEFINE path == Append(p.path, hop)
           k == Len(p.path) + 1
<1>5. k \in DOMAIN path /\ path[k] = hop
  OBVIOUS
<1> HIDE DEF path, k
<1>6. PartAtBroadcast(path, path)
  BY <1>3, <1>4, <1>5 DEF PartAtBroadcast
<1> QED
  BY <1>1, <1>6 DEF path

\* What the frames of a packet have to do with those of any other, and which there are.
CopiesParted ==
    /\ \A f \in net : f.id =< packets
    /\ \A f, g \in net : f # g /\ f.id = g.id => PartAtBroadcast(f.path, g.path)

(***************************************************************************)
(* Copies stay parted when one of them is sent on, or a packet with a      *)
(* number of its own is originated.                                        *)
(***************************************************************************)
LEMMA SendingKeepsParted ==
    ASSUME TypeOK, CopiesParted, NEW n \in Nodes, NEW p, NEW fallback,
           p.dst \in Nodes, p.path \in Seq(Hop),
           packets' \in Nat, packets =< packets', p.id \in Nat, p.id =< packets',
           NEW old \in SUBSET net, net' = old \union Arrivals(n, p, fallback),
           \A g \in old : g.id = p.id => PartAtBroadcast(p.path, g.path)
    PROVE  CopiesParted'
<1> DEFINE hop == [node |-> n, phase |-> PhaseOf(n, p.dst), known |-> ~Unknown(n, p.dst)]
<1>1. hop \in Hop
  BY DEF Hop, PhaseOf, Unknown
<1>2. ASSUME NEW f \in Arrivals(n, p, fallback)
      PROVE  f.id = p.id /\ f.path = Append(p.path, hop)
  <2>1. f.path = Append(p.path, hop)
    BY ArrivalPath
  <2>2. f.id = p.id
    BY DEF Arrivals
  <2> QED
    BY <2>1, <2>2
<1> HIDE DEF hop
<1>3. \A g \in net : g.id \in Nat /\ g.path \in Seq(Hop)
  BY DEF TypeOK, Frame
<1>4. ASSUME NEW f \in Arrivals(n, p, fallback), NEW g \in old, f.id = g.id
      PROVE  PartAtBroadcast(f.path, g.path) /\ PartAtBroadcast(g.path, f.path)
  <2>1. PartAtBroadcast(p.path, g.path)
    BY <1>2, <1>4
  <2>2. f.path = Append(p.path, hop) /\ g.path \in Seq(Hop)
    BY <1>2, <1>3
  <2>4. f.path \in Seq(Hop)
    BY <1>1, <2>2
  <2>3. PartAtBroadcast(f.path, g.path)
    BY <1>1, <2>1, <2>2, PartedForGood
  <2> QED
    BY <1>1, <2>2, <2>3, <2>4, PartedForGood
<1>5. \A f \in net' : f.id =< packets'
  <2>1. packets \in Nat
    BY MpfAssumption DEF TypeOK
  <2> QED
    BY <1>2, <1>3, <2>1 DEF CopiesParted
<1>6. ASSUME NEW f \in net', NEW g \in net', f # g, f.id = g.id
      PROVE  PartAtBroadcast(f.path, g.path)
  <2>1. CASE f \in old /\ g \in old
    BY <1>6, <2>1 DEF CopiesParted
  <2>2. CASE f \in Arrivals(n, p, fallback) /\ g \in Arrivals(n, p, fallback)
    BY <1>6, <2>2, ArrivalsPart
  <2> QED
    BY <1>4, <1>6, <2>1, <2>2
<1> QED
  BY <1>5, <1>6 DEF CopiesParted

(***************************************************************************)
(* Nothing but a broadcast multiplies a packet, for any tables, layouts    *)
(* and errors of positions.                                                *)
(***************************************************************************)
THEOREM OnlyBroadcastsMultiply == Spec => []CopiesPartAtBroadcast
<1> USE MpfAssumption
<1>1. Init => CopiesParted
  BY DEF Init, CopiesParted
<1>2. TypeOK /\ CopiesParted /\ [Next]_vars => CopiesParted'
  <2> SUFFICES ASSUME TypeOK, CopiesParted, [Next]_vars PROVE CopiesParted'
    OBVIOUS
  <2>1. CASE net' \subseteq net
    <3>1. packets' = packets \/ packets' = packets + 1
      BY DEF Next, RouteOutput, RouteInput, Deliver, Drop, Relay, Lose, HearHello,
             HearGlobalUpdate, Expire, vars
    <3>2. packets \in Nat /\ \A f \in net : f.id \in Nat
      BY DEF TypeOK, Frame
    <3> QED
      BY <2>1, <3>1, <3>2 DEF CopiesParted
  <2>2. ASSUME NEW n \in Nodes, NEW d \in Nodes, RouteOutput(n, d) PROVE CopiesParted'
    <3> DEFINE p == [id |-> packets + 1, dst |-> d, ttl |-> InitialTtl, path |-> <<>>]
    <3>1. /\ net' = net \union Arrivals(n, p, pos[n]) /\ packets' = packets + 1
          /\ packets \in Nat
      BY <2>2 DEF RouteOutput, TypeOK
    <3>2. p.id = packets + 1 /\ p.dst \in Nodes /\ p.path \in Seq(Hop)
      OBVIOUS
    <3>3. \A g \in net : g.id # packets + 1
      BY <3>1 DEF CopiesParted, TypeOK, Frame
    <3> HIDE DEF p
    <3>4. /\ p.id \in Nat /\ packets' \in Nat /\ packets =< packets' /\ p.id =< packets'
          /\ net \in SUBSET net
      BY <3>1, <3>2
    <3>5. \A g \in net : g.id = p.id => PartAtBroadcast(p.path, g.path)
      BY <3>2, <3>3
    <3> QED
      BY <3>1, <3>2, <3>4, <3>5, SendingKeepsParted
  <2>3. ASSUME NEW f \in net, Relay(f), f.ttl > 1 PROVE CopiesParted'
    <3> DEFINE p == [id |-> f.id, dst |-> f.dst, ttl |-> f.ttl - 1, path |-> f.path]
    <3>1. /\ net' = (net \ {f}) \union Arrivals(f.at, p, f.target) /\ packets' = packets
          /\ packets \in Nat
      BY <2>3 DEF Relay, TypeOK
    <3>2. f \in Frame /\ f.at \in Nodes /\ f.dst \in Nodes /\ f.id \in Nat /\ f.path \in Seq(Hop)
          /\ f.id =< packets
      BY DEF CopiesParted, TypeOK, Frame
    <3>3. p.id = f.id /\ p.dst = f.dst /\ p.path = f.path
      OBVIOUS
    <3>4. \A g \in net \ {f} : g.id = f.id => PartAtBroadcast(f.path, g.path)
      BY DEF CopiesParted
    <3> HIDE DEF p
    <3>5. /\ p.dst \in Nodes /\ p.path \in Seq(Hop) /\ p.id \in Nat /\ p.id =< packets'
          /\ packets' \in Nat /\ packets =< packets' /\ net \ {f} \in SUBSET net
      BY <3>1, <3>2, <3>3
    <3>6. \A g \in net \ {f} : g.id = p.id => PartAtBroadcast(p.path, g.path)
      BY <3>3, <3>4
    <3> QED
      BY <3>1, <3>2, <3>5, <3>6, SendingKeepsParted
  <2> QED
    BY <2>1, <2>2, <2>3, NewFrames
<1>3. TypeOK /\ CopiesParted => CopiesPartAtBroadcast
  <2>1. TypeOK => \A f \in net : f.path \in Seq(Hop)
    BY DEF TypeOK, Frame
  <2> QED
    BY <2>1, SamePrefix DEF CopiesParted, CopiesPartAtBroadcast
<1> QED
  BY <1>1, <1>2, <1>3, TypeCorrect, PTL DEF Spec

-----------------------------------------------------------------------------
(* What BestNeighbor chooses.                                              *)

(***************************************************************************)
(* One pass over any table the nodes have come to hold, with any tolerance *)
(* for angles, wherever the node and the destination are, ends with a      *)
(* neighbour that ties with an anchor none undercuts, and is nearest to    *)
(* the destination of all that do from the anchor on.                      *)
(***************************************************************************)
THEOREM ChoiceWithinTolerance == Spec => []BestWithinTolerance
<1>1. TypeOK => BestWithinTolerance
  <2> SUFFICES ASSUME TypeOK, NEW n \in Nodes, NEW origin \in Nodes, NEW target \in Nodes
               PROVE  LET there == pos[target]
                          here == pos[origin]
                          candidates == Nearer(zone[n], there, here)
                          best == BestNeighbor(zone[n], there, here, AngleScale, MaxAddress)
                          smaller(q, r) ==
                              SmallerAngle(zone[n][q], zone[n][r], there, here, AngleScale)
                          far(q) == Distance2(zone[n][q], there)
                      IN  /\ best = {} <=> candidates = {}
                          /\ \A b \in best : \E m \in candidates :
                                /\ b \in candidates /\ m =< b /\ ~smaller(m, b)
                                /\ \A c \in candidates :
                                      /\ ~smaller(c, m)
                                      /\ c < m => LeadSine(zone[n][m], zone[n][c], there, here) > 0
                                      /\ c >= m /\ ~smaller(m, c) =>
                                            far(b) < far(c) \/ (far(b) = far(c) /\ b =< c)
    BY Zenon DEF BestWithinTolerance
  <2> DEFINE there == pos[target]
             here == pos[origin]
             candidates == Nearer(zone[n], there, here)
             best == BestNeighbor(zone[n], there, here, AngleScale, MaxAddress)
             smaller(q, r) == SmallerAngle(zone[n][q], zone[n][r], there, here, AngleScale)
             far(q) == Distance2(zone[n][q], there)
             lead(q, r) == LeadSine(zone[n][q], zone[n][r], there, here)
             fits(b, m) == /\ b \in candidates /\ m =< b /\ ~smaller(m, b)
                           /\ \A c \in candidates :
                                 /\ ~smaller(c, m)
                                 /\ c < m => lead(m, c) > 0
                                 /\ c >= m /\ ~smaller(m, c) =>
                                       far(b) < far(c) \/ (far(b) = far(c) /\ b =< c)
  <2>1. here \in Vector /\ there \in Vector
    BY MpfAssumption DEF TypeOK
  <2>2. Asked(zone[n], there, here) /\ DOMAIN zone[n] \subseteq 0..MaxAddress
    BY <2>1, TablesAsked
  <2>3. \A c \in candidates : c =< MaxAddress
    <3>1. candidates \subseteq DOMAIN zone[n]
      BY DEF Nearer
    <3> QED
      BY <2>2, <3>1
  <2>4. PICK kept : /\ KeptWell(kept, MaxAddress, zone[n], there, here, AngleScale)
                    /\ best = kept.best
    BY <2>2, BestIsKept, MpfAssumption
  <2>5. \/ /\ kept = [best |-> {}, anchor |-> {}]
           /\ \A c \in candidates : ~(c =< MaxAddress)
        \/ \E m, b \in candidates :
              /\ kept = [best |-> {b}, anchor |-> {m}]
              /\ Chosen(b, m, MaxAddress, zone[n], there, here, AngleScale)
    BY <2>4, Zenon DEF KeptWell
  <2>6. \A m, b \in candidates :
            Chosen(b, m, MaxAddress, zone[n], there, here, AngleScale) => fits(b, m)
    BY <2>3, Zenon DEF Chosen
  <2> SUFFICES /\ best = {} <=> candidates = {}
               /\ \A b \in best : \E m \in candidates : fits(b, m)
    BY Zenon
  <2> HIDE DEF candidates, best, fits
  <2> QED
    BY <2>3, <2>4, <2>5, <2>6
<1> QED
  BY <1>1, TypeCorrect, PTL
=============================================================================
