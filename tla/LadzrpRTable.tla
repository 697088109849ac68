---------------------------- MODULE LadzrpRTable ----------------------------
(***************************************************************************)
(* Routing table entries and the operations of class RoutingTable on the   *)
(* zone and the global table: src/model/ladzrp-rtable.{h,cc}.              *)
(*                                                                         *)
(* A table is a function whose domain is the set of addresses it has an    *)
(* entry for.  An entry here carries what maintenance looks at; positions, *)
(* which only the choice of a next hop looks at, are given to that         *)
(* operator as a function of the address.                                  *)
(***************************************************************************)
EXTENDS Integers

\* The fields of RoutingTableEntry that maintenance reads or writes.
Entry == [expiry : Nat,            \* m_expiry; 0 stands for "never"
          hopCount : Nat,          \* m_hopCount; 0 unless a HELLO set it
          txAttempts : Nat,        \* m_txAttempts
          txFailures : Nat,        \* m_txFailures
          suppressUntil : Nat,     \* m_suppressUntil
          lastRequest : Nat]       \* m_lastRequest; 0 when none was sent

\* A default-constructed entry that was given an expiry and a hop count.
NewEntry(expiry, hopCount) ==
    [expiry |-> expiry, hopCount |-> hopCount, txAttempts |-> 0, txFailures |-> 0,
     suppressUntil |-> 0, lastRequest |-> 0]

\* The entry is dropped only after, not at, its expiry.
IsExpired(e, now) == e.expiry # 0 /\ now > e.expiry

\* A success takes back a failure, below zero if it must.
SuccessForgives_Mutant(e, success) ==
    [e EXCEPT !.txAttempts = @ + 1,
              !.txFailures = IF success THEN @ - 1 ELSE @ + 1]

RecordTransmissionResult(e, success) ==
    [e EXCEPT !.txAttempts = @ + 1,
              !.txFailures = IF success THEN @ ELSE @ + 1]

\* GetFailureRatio () > 0.5, the only use of the ratio; no attempt is ratio 0.
FailureRatioAboveHalf(e) == 2 * e.txFailures > e.txAttempts

ResetFailureStatistics(e) == [e EXCEPT !.txAttempts = 0, !.txFailures = 0]

\* AddOrUpdateZone and AddOrUpdateGlobal replace the whole entry of an address.
AddOrUpdate(table, p, e) ==
    [q \in DOMAIN table \union {p} |-> IF q = p THEN e ELSE table[q]]

\* A purge that keeps what has expired.
PurgeNothing_Mutant(table, now) == table

\* What a purge at the given time leaves of a table.
Purge(table, now) ==
    [p \in {q \in DOMAIN table : ~IsExpired(table[q], now)} |-> table[p]]

-----------------------------------------------------------------------------
(* Geometry, on integer coordinates of the plane.  Distances are compared  *)
(* through their squares.                                                  *)

Vector == [x : Int, y : Int]

Dot(u, v) == u.x * v.x + u.y * v.y

From(u, v) == [x |-> v.x - u.x, y |-> v.y - u.y]

\* CalculateDistance, squared.
Distance2(u, v) == Dot(From(u, v), From(u, v))

\* A neighbour as far from the destination as the node will do, too.
NotFarther_Mutant(position, destination, origin) ==
    {q \in DOMAIN position :
        /\ position[q] # origin
        /\ Distance2(position[q], destination) =< Distance2(origin, destination)}

\* A neighbour BestNeighbor may pick: not where the node itself stands, and
\* strictly nearer to the destination than the node.
Nearer(position, destination, origin) ==
    {q \in DOMAIN position :
        /\ position[q] # origin
        /\ Distance2(position[q], destination) < Distance2(origin, destination)}

Magnitude(i) == IF i < 0 THEN -i ELSE i

\* The area u and v span, by its amount.
Cross(u, v) == Magnitude(u.x * v.y - u.y * v.x)

\* By how much the angle between the destination and u, seen from origin, is smaller
\* than the one of v: the sine and the cosine of the difference, both times the same
\* lengths.  Whatever is nearer to the destination lies within a right angle of it.
LeadSine(u, v, destination, origin) ==
    LET d == From(origin, destination)
        a == From(origin, u)
        b == From(origin, v)
    IN  Cross(d, b) * Dot(d, a) - Cross(d, a) * Dot(d, b)

LeadCosine(u, v, destination, origin) ==
    LET d == From(origin, destination)
        a == From(origin, u)
        b == From(origin, v)
    IN  Dot(d, a) * Dot(d, b) + Cross(d, a) * Cross(d, b)

\* The angle of u is smaller than the one of v by more than the tolerance, whose
\* cotangent is scale.
SmallerAngle(u, v, destination, origin, scale) ==
    scale * LeadSine(u, v, destination, origin) > LeadCosine(u, v, destination, origin)

\* A tie that brings the angle to compare with up to date as well.
TakeTieAndAngle_Mutant(kept, a) == [best |-> {a}, anchor |-> {a}]

\* Neighbour a ties with the angle to compare with, and is kept for its distance:
\* bestDistance and best are replaced, bestAngle is not.
TakeTie(kept, a) == [kept EXCEPT !.best = {a}]

\* One turn of BestNeighbor's loop.  best is the neighbour kept so far; anchor is the
\* one whose angle bestAngle is; both are empty at first.
Consider(kept, a, position, destination, origin, scale) ==
    LET smaller(q, r) ==
            SmallerAngle(position[q], position[r], destination, origin, scale)
        closer(q, r) ==
            Distance2(position[q], destination) < Distance2(position[r], destination)
    IN  IF a \notin Nearer(position, destination, origin) THEN kept
        ELSE IF \A r \in kept.anchor : smaller(a, r) THEN [best |-> {a}, anchor |-> {a}]
        ELSE IF /\ \A r \in kept.anchor : ~smaller(r, a)
                /\ \A r \in kept.best : closer(a, r)
        THEN TakeTie(kept, a)
        ELSE kept

\* BestNeighbor, in one pass over the table in the order of the addresses, which are at
\* most last: a singleton, or the empty set for std::nullopt.
BestNeighbor(position, destination, origin, scale, last) ==
    LET kept[a \in -1..last] ==
            IF a = -1 THEN [best |-> {}, anchor |-> {}]
            ELSE Consider(kept[a - 1], a, position, destination, origin, scale)
    IN  kept[last].best
=============================================================================
