------------------------- MODULE LadzrpTrackingProofs -------------------------
(***************************************************************************)
(* Proofs about LadzrpTracking, for any motion, intervals, densities,      *)
(* delays, losses and bounds: the types, and that a message comes through  *)
(* every hop unchanged; that what is known globally is forgotten only when *)
(* the updates have stopped, and no copy of it lives on; that a lifetime   *)
(* ends when the peer crosses the sphere, no later and no earlier; and     *)
(* that dead reckoning keeps the peer within reach of what it announced.   *)
(***************************************************************************)
EXTENDS LadzrpWireProofs

-----------------------------------------------------------------------------
(* What is known globally, and its copies among the neighbours.            *)

TablesOfPeer == DOMAIN zone \subseteq {Peer} /\ DOMAIN global \subseteq {Peer}

\* A global entry expires, within three intervals from now.
GlobalsExpire ==
    \A p \in DOMAIN global :
        global[p].expiry \in Nat \ {0} /\ global[p].expiry =< now + 3 * GlobalUpdateInterval

\* A copy in the zone table expires no later than the entry it is a copy of.
CopiesExpire ==
    \A p \in DOMAIN zone :
        zone[p].ofUpdate => /\ p \in DOMAIN global
                            /\ zone[p].expiry \in Nat \ {0}
                            /\ zone[p].expiry =< global[p].expiry

CopyInv == now \in Nat /\ TablesOfPeer /\ GlobalsExpire /\ CopiesExpire

(***************************************************************************)
(* Both tables start empty.                                                *)
(***************************************************************************)
LEMMA CopyInit == Init => CopyInv
<1> SUFFICES ASSUME Init PROVE CopyInv
  OBVIOUS
<1>1. now \in Nat /\ DOMAIN zone = {} /\ DOMAIN global = {}
  BY DEF Init, StartTime
<1> QED
  BY <1>1 DEF CopyInv, TablesOfPeer, GlobalsExpire, CopiesExpire

(***************************************************************************)
(* Every action keeps the copies short-lived: an update prolongs the       *)
(* global entry and leaves the copy, forwarding copies the expiry, a HELLO *)
(* replaces the copy, and the purge that takes the global entry takes the  *)
(* copy in the same step.                                                  *)
(***************************************************************************)
LEMMA CopyStep == CopyInv /\ [Next]_vars => CopyInv'
<1> SUFFICES ASSUME CopyInv, [Next]_vars PROVE CopyInv'
  OBVIOUS
<1> USE DEF TablesOfPeer, GlobalsExpire, CopiesExpire
<1>0. /\ now \in Nat /\ GlobalUpdateInterval \in Nat \ {0}
      /\ TablesOfPeer /\ GlobalsExpire /\ CopiesExpire
  BY TrackingAssumption DEF CopyInv
<1>1. ASSUME UNCHANGED <<now, zone, global>> PROVE CopyInv'
  BY <1>0, <1>1 DEF CopyInv
<1>2. CASE SendHello
  BY <1>1, <1>2 DEF SendHello, observer
<1>3. CASE MaybeSendGlobalUpdate
  BY <1>1, <1>3 DEF MaybeSendGlobalUpdate, observer
<1>4. ASSUME NEW f \in net, ProcessHello(f) PROVE CopyInv'
  <2>1. PICK avgHd, x :
           zone' = AddOrUpdate(zone, Peer,
                      [position |-> f.body.sourcePosition, velocity |-> f.body.sourceVelocity,
                       timestamp |-> f.body.timestamp, expiry |-> x,
                       averageHopDistance |-> avgHd, lastHopPosition |-> MyPosition,
                       ofUpdate |-> FALSE])
    BY <1>4, Zenon DEF ProcessHello
  <2>2. DOMAIN zone' = {Peer} /\ zone'[Peer].ofUpdate = FALSE
    BY <1>0, <2>1 DEF AddOrUpdate
  <2>3. now' = now /\ global' = global
    BY <1>4 DEF ProcessHello
  <2> QED
    BY <1>0, <2>2, <2>3 DEF CopyInv
<1>5. ASSUME NEW f \in net, ProcessGlobalUpdate(f) PROVE CopyInv'
  <2>1. /\ global' = AddOrUpdate(global, Peer, GlobalEntry(f.body))
        /\ now' = now /\ zone' = zone
    BY <1>5 DEF ProcessGlobalUpdate
  <2>2. DOMAIN global' = {Peer} /\ global'[Peer].expiry = now + 3 * GlobalUpdateInterval
    BY <1>0, <2>1 DEF AddOrUpdate, GlobalEntry
  <2>3. GlobalsExpire'
    BY <1>0, <2>1, <2>2
  <2>4. CopiesExpire'
    BY <1>0, <2>1, <2>2
  <2> QED
    BY <1>0, <2>1, <2>2, <2>3, <2>4 DEF CopyInv
<1>6. ASSUME NEW f \in net, Relay(f) PROVE CopyInv'
  BY <1>1, <1>6 DEF Relay, observer
<1>7. ASSUME NEW f \in net, Lose(f) PROVE CopyInv'
  BY <1>1, <1>7 DEF Lose, observer
<1>8. CASE PerformMaintenance
  <2>1. now' = now /\ zone' = Purge(zone, now) /\ global' = Purge(global, now)
    BY <1>8 DEF PerformMaintenance
  <2>2. /\ DOMAIN global' = {q \in DOMAIN global : ~IsExpired(global[q], now)}
        /\ \A q \in DOMAIN global' : global'[q] = global[q]
    BY <2>1 DEF Purge
  <2>3. /\ DOMAIN zone' = {q \in DOMAIN zone : ~IsExpired(zone[q], now)}
        /\ \A q \in DOMAIN zone' : zone'[q] = zone[q]
    BY <2>1 DEF Purge
  <2>4. GlobalsExpire'
    BY <1>0, <2>1, <2>2
  <2>5. CopiesExpire'
    <3> SUFFICES ASSUME NEW p \in DOMAIN zone', zone'[p].ofUpdate
                 PROVE  /\ p \in DOMAIN global'
                        /\ zone'[p].expiry \in Nat \ {0}
                        /\ zone'[p].expiry =< global'[p].expiry
      OBVIOUS
    <3>1. p \in DOMAIN zone /\ zone'[p] = zone[p] /\ ~IsExpired(zone[p], now)
      BY <2>3
    <3>2. /\ p \in DOMAIN global /\ zone[p].expiry \in Nat \ {0}
          /\ zone[p].expiry =< global[p].expiry /\ global[p].expiry \in Nat \ {0}
      BY <1>0, <3>1
    <3>3. ~IsExpired(global[p], now)
      BY <1>0, <3>1, <3>2 DEF IsExpired
    <3> QED
      BY <2>2, <3>1, <3>2, <3>3
  <2> QED
    BY <1>0, <2>1, <2>2, <2>3, <2>4, <2>5 DEF CopyInv
<1>9. CASE RouteOutput
  <2>1. /\ now' = now /\ global' = global /\ DOMAIN zone = {} /\ DOMAIN global # {}
        /\ zone' = AddOrUpdate(zone, Peer, global[Peer])
    BY <1>9 DEF RouteOutput, ZoneCopy
  <2>2. Peer \in DOMAIN global /\ DOMAIN zone' = {Peer} /\ zone'[Peer] = global[Peer]
    BY <1>0, <2>1 DEF AddOrUpdate
  <2>3. CopiesExpire'
    BY <1>0, <2>1, <2>2
  <2> QED
    BY <1>0, <2>1, <2>2, <2>3 DEF CopyInv
<1>10. CASE Turn
  BY <1>1, <1>10 DEF Turn, observer
<1>11. CASE Tick
  <2>1. now' = now + 1 /\ zone' = zone /\ global' = global
    BY <1>11 DEF Tick, observer
  <2> QED
    BY <1>0, <2>1 DEF CopyInv
<1>12. CASE UNCHANGED vars
  BY <1>1, <1>12 DEF vars
<1> QED
  BY <1>2, <1>3, <1>4, <1>5, <1>6, <1>7, <1>8, <1>9, <1>10, <1>11, <1>12 DEF Next, RecvControl

(***************************************************************************)
(* The copy of a global entry that forwarding leaves in the zone table,    *)
(* where it hides newer global entries, is gone when the global entry is,  *)
(* whatever is lost, delayed or relayed and however the peer moves.        *)
(***************************************************************************)
THEOREM CopiesDieFirst == TrackingSpec => []CopyNotOutliving
<1>1. CopyInv => CopyNotOutliving
  BY DEF CopyInv, CopiesExpire, CopyNotOutliving
<1> QED
  BY <1>1, CopyInit, CopyStep, PTL DEF TrackingSpec

-----------------------------------------------------------------------------
(* When a node is forgotten globally.                                      *)

NoneUnderWay == \A f \in net : f.kind # GLOBAL_UPDATE

\* What reached the observer after the last announcement lasts three intervals from it.
KnownSinceLast ==
    losses = 0 /\ NoneUnderWay =>
        \A p \in DOMAIN global :
            global[p].expiry >= lastGlobal.timestamp + 3 * GlobalUpdateInterval

QuietInv ==
    /\ CopyInv
    /\ losses \in Nat
    /\ lastGlobal.timestamp \in Nat /\ lastGlobal.timestamp =< now
    /\ \A f \in net : f.kind \in {HELLO, GLOBAL_UPDATE}
    /\ KnownSinceLast

(***************************************************************************)
(* Nothing is known at the start.                                          *)
(***************************************************************************)
LEMMA QuietInit == Init => QuietInv
<1> SUFFICES ASSUME Init PROVE QuietInv
  OBVIOUS
<1>1. CopyInv
  BY CopyInit
<1>2. /\ now = 1 /\ lastGlobal.timestamp = now /\ losses = 0 /\ net = {}
      /\ DOMAIN global = {}
  BY DEF Init, StartTime
<1> QED
  BY <1>1, <1>2 DEF QuietInv, KnownSinceLast

(***************************************************************************)
(* Every action keeps it so: an announcement is under way until the        *)
(* observer has it, however often a relay sends it anew, or it is lost;    *)
(* and what the observer has of it lasts three intervals from then.        *)
(***************************************************************************)
LEMMA QuietStep == QuietInv /\ [Next]_vars => QuietInv'
<1> SUFFICES ASSUME QuietInv, [Next]_vars PROVE QuietInv'
  OBVIOUS
<1> USE DEF KnownSinceLast, NoneUnderWay
<1>0. /\ CopyInv' /\ now \in Nat /\ GlobalUpdateInterval \in Nat \ {0}
      /\ losses \in Nat /\ lastGlobal.timestamp \in Nat /\ lastGlobal.timestamp =< now
      /\ \A f \in net : f.kind \in {HELLO, GLOBAL_UPDATE}
      /\ KnownSinceLast /\ GlobalsExpire /\ TablesOfPeer
  BY CopyStep, TrackingAssumption DEF QuietInv, CopyInv
<1>1. ASSUME UNCHANGED <<now, lastGlobal, net, global, losses>> PROVE QuietInv'
  BY <1>0, <1>1 DEF QuietInv
<1>2. CASE SendHello
  <2>1. PICK d \in Delays : net' = net \union {Sent(HELLO, Ttl, HelloBody, d)}
    BY <1>2 DEF SendHello, Send
  <2>2. Sent(HELLO, Ttl, HelloBody, d).kind = HELLO
    BY SentKind
  <2>3. UNCHANGED <<now, lastGlobal, global, losses>>
    BY <1>2 DEF SendHello, observer
  <2> HIDE DEF HELLO, GLOBAL_UPDATE
  <2> QED
    BY <1>0, <2>1, <2>2, <2>3 DEF QuietInv
<1>3. CASE MaybeSendGlobalUpdate
  <2>1. UNCHANGED <<now, global, losses>>
    BY <1>3 DEF MaybeSendGlobalUpdate, observer
  <2>2. \/ UNCHANGED <<net, lastGlobal>>
        \/ /\ Send(GLOBAL_UPDATE, Ttl, GlobalUpdateBody)
           /\ lastGlobal' = [position |-> pos, velocity |-> vel, timestamp |-> now]
    BY <1>3 DEF MaybeSendGlobalUpdate
  <2>3. CASE UNCHANGED <<net, lastGlobal>>
    BY <1>1, <2>1, <2>3
  <2>4. CASE /\ Send(GLOBAL_UPDATE, Ttl, GlobalUpdateBody)
             /\ lastGlobal' = [position |-> pos, velocity |-> vel, timestamp |-> now]
    <3>1. PICK d \in Delays :
             net' = net \union {Sent(GLOBAL_UPDATE, Ttl, GlobalUpdateBody, d)}
      BY <2>4 DEF Send
    <3>2. Sent(GLOBAL_UPDATE, Ttl, GlobalUpdateBody, d).kind = GLOBAL_UPDATE
      BY SentKind
    <3>3. lastGlobal'.timestamp = now
      BY <2>4
    <3> QED
      BY <1>0, <2>1, <3>1, <3>2, <3>3 DEF QuietInv
  <2> QED
    BY <2>2, <2>3, <2>4
<1>4. ASSUME NEW f \in net, ProcessHello(f) PROVE QuietInv'
  <2>1. /\ net' = net \ {f} /\ f.kind = HELLO /\ HELLO # GLOBAL_UPDATE
        /\ UNCHANGED <<now, lastGlobal, global, losses>>
    BY <1>4 DEF ProcessHello, sender, HELLO, GLOBAL_UPDATE
  <2> QED
    BY <1>0, <2>1 DEF QuietInv
<1>5. ASSUME NEW f \in net, ProcessGlobalUpdate(f) PROVE QuietInv'
  <2>1. /\ global' = AddOrUpdate(global, Peer, GlobalEntry(f.body)) /\ net' = net \ {f}
        /\ UNCHANGED <<now, lastGlobal, losses>>
    BY <1>5 DEF ProcessGlobalUpdate, sender
  <2>2. DOMAIN global' = {Peer} /\ global'[Peer].expiry = now + 3 * GlobalUpdateInterval
    BY <1>0, <2>1 DEF AddOrUpdate, GlobalEntry, TablesOfPeer
  <2> QED
    BY <1>0, <2>1, <2>2 DEF QuietInv
<1>6. ASSUME NEW f \in net, Relay(f) PROVE QuietInv'
  <2>1. PICK d, body : net' = (net \ {f}) \union {Sent(f.kind, f.ttl - 1, body, d)}
    BY <1>6 DEF Relay
  <2>2. Sent(f.kind, f.ttl - 1, body, d).kind = f.kind
    BY <1>0, SentKind
  <2>3. UNCHANGED <<now, lastGlobal, global, losses>>
    BY <1>6 DEF Relay, sender, observer
  <2>4. \A g \in net' : g.kind \in {HELLO, GLOBAL_UPDATE}
    BY <1>0, <2>1, <2>2
  <2>5. NoneUnderWay' => NoneUnderWay
    BY <2>1, <2>2
  <2> QED
    BY <1>0, <2>3, <2>4, <2>5 DEF QuietInv
<1>7. ASSUME NEW f \in net, Lose(f) PROVE QuietInv'
  <2>1. /\ net' = net \ {f} /\ losses' = losses + 1
        /\ UNCHANGED <<now, lastGlobal, global>>
    BY <1>7 DEF Lose, sender, observer
  <2> QED
    BY <1>0, <2>1 DEF QuietInv
<1>8. CASE PerformMaintenance
  <2>1. /\ global' = Purge(global, now)
        /\ UNCHANGED <<now, lastGlobal, net, losses>>
    BY <1>8 DEF PerformMaintenance, sender
  <2>2. \A q \in DOMAIN global' : q \in DOMAIN global /\ global'[q] = global[q]
    BY <2>1 DEF Purge
  <2> QED
    BY <1>0, <2>1, <2>2 DEF QuietInv
<1>9. CASE RouteOutput
  BY <1>1, <1>9 DEF RouteOutput, sender
<1>10. CASE Turn
  BY <1>1, <1>10 DEF Turn, sender, observer
<1>11. CASE Tick
  <2>1. now' = now + 1 /\ UNCHANGED <<lastGlobal, net, global, losses>>
    BY <1>11 DEF Tick, sender, observer
  <2> QED
    BY <1>0, <2>1 DEF QuietInv
<1>12. CASE UNCHANGED vars
  BY <1>1, <1>12 DEF vars
<1> QED
  BY <1>2, <1>3, <1>4, <1>5, <1>6, <1>7, <1>8, <1>9, <1>10, <1>11, <1>12 DEF Next, RecvControl

(***************************************************************************)
(* Only the purge forgets, and only what has expired.                      *)
(***************************************************************************)
LEMMA OnlyExpiredForgotten ==
    ASSUME Next, DOMAIN global # {}, DOMAIN global' = {}
    PROVE  \E p \in DOMAIN global : IsExpired(global[p], now)
<1>1. CASE PerformMaintenance
  <2>1. global' = Purge(global, now)
    BY <1>1 DEF PerformMaintenance
  <2>2. DOMAIN global' = {q \in DOMAIN global : ~IsExpired(global[q], now)}
    BY <2>1 DEF Purge
  <2> QED
    BY <2>2
<1>2. ASSUME NEW f \in net, ProcessGlobalUpdate(f) PROVE FALSE
  <2>1. global' = AddOrUpdate(global, Peer, GlobalEntry(f.body))
    BY <1>2 DEF ProcessGlobalUpdate
  <2>2. Peer \in DOMAIN global'
    BY <2>1 DEF AddOrUpdate
  <2> QED
    BY <2>2
<1>3. ASSUME global' = global PROVE FALSE
  BY <1>3
<1>4. ASSUME NEW f \in net, ProcessHello(f) \/ Relay(f) \/ Lose(f) PROVE FALSE
  BY <1>3, <1>4 DEF ProcessHello, Relay, Lose, observer
<1>5. CASE SendHello \/ MaybeSendGlobalUpdate \/ RouteOutput \/ Turn \/ Tick
  BY <1>3, <1>5 DEF SendHello, MaybeSendGlobalUpdate, RouteOutput, Turn, Tick, observer
<1> QED
  BY <1>1, <1>2, <1>4, <1>5 DEF Next, RecvControl

(***************************************************************************)
(* A node is forgotten globally only when it has been quiet for three      *)
(* update intervals, an update was lost or one is still under way: at any  *)
(* delays, over any relays, however late after its sending it was heard.   *)
(***************************************************************************)
THEOREM ForgottenWhenQuiet == TrackingSpec => ForgottenOnlyWhenQuiet
<1> DEFINE Forgets ==
       DOMAIN global # {} /\ DOMAIN global' = {} =>
           \/ losses > 0
           \/ \E f \in net : f.kind = GLOBAL_UPDATE
           \/ now > lastGlobal.timestamp + 3 * GlobalUpdateInterval
<1>1. QuietInv /\ [Next]_vars => [Forgets]_vars
  <2> SUFFICES ASSUME QuietInv, Next, DOMAIN global # {}, DOMAIN global' = {},
                      losses = 0, NoneUnderWay
               PROVE  now > lastGlobal.timestamp + 3 * GlobalUpdateInterval
    BY DEF QuietInv, NoneUnderWay
  <2>1. PICK p \in DOMAIN global : IsExpired(global[p], now)
    BY OnlyExpiredForgotten
  <2>2. /\ global[p].expiry >= lastGlobal.timestamp + 3 * GlobalUpdateInterval
        /\ global[p].expiry \in Nat /\ now \in Nat /\ lastGlobal.timestamp \in Nat
        /\ GlobalUpdateInterval \in Nat
    BY TrackingAssumption DEF QuietInv, CopyInv, GlobalsExpire, KnownSinceLast
  <2> QED
    BY <2>1, <2>2 DEF IsExpired
<1> QED
  BY <1>1, QuietInit, QuietStep, PTL DEF TrackingSpec, ForgottenOnlyWhenQuiet

-----------------------------------------------------------------------------
(* When a motion crosses a sphere.                                         *)

(***************************************************************************)
(* The whole part of a square root.                                        *)
(***************************************************************************)
LEMMA SquareRoots ==
    ASSUME NEW n \in Nat
    PROVE  /\ FloorSqrt(n) \in Nat /\ FloorSqrt(n) * FloorSqrt(n) =< n
           /\ n < (FloorSqrt(n) + 1) * (FloorSqrt(n) + 1)
           /\ CeilSqrt(n) \in {FloorSqrt(n), FloorSqrt(n) + 1}
           /\ n =< CeilSqrt(n) * CeilSqrt(n)
           /\ CeilSqrt(n) = FloorSqrt(n) => FloorSqrt(n) * FloorSqrt(n) = n
<1> DEFINE Above == {r \in Nat : n < (r + 1) * (r + 1)}
           IsRoot(r) == r * r =< n /\ n < (r + 1) * (r + 1)
<1>1. \E r \in 0..n : IsRoot(r)
  <2>1. n \in Above
    <3>1. (n + 1) * (n + 1) >= n + 1
      OBVIOUS
    <3> QED
      BY <3>1
  <2>2. PICK r \in Above : r = 0 \/ (r - 1 \in Nat /\ r - 1 \notin Above)
    <3>1. Above \in SUBSET Nat /\ Above # {}
      BY <2>1
    <3> HIDE DEF Above
    <3> QED
      BY <3>1, FirstFailure
  <2>3. r \in Nat /\ n < (r + 1) * (r + 1)
    BY <2>2
  <2>4. r * r =< n
    <3>1. CASE r = 0
      BY <3>1
    <3>2. CASE r - 1 \in Nat /\ r - 1 \notin Above
      <4>1. ~(n < ((r - 1) + 1) * ((r - 1) + 1))
        BY <3>2
      <4>2. (r - 1) + 1 = r
        BY <2>3
      <4> QED
        BY <2>3, <4>1, <4>2
    <3> QED
      BY <2>2, <3>1, <3>2
  <2>5. r =< n
    <3>1. r =< r * r
      BY <2>3
    <3> QED
      BY <2>3, <2>4, <3>1
  <2> QED
    BY <2>3, <2>4, <2>5
<1> DEFINE root == FloorSqrt(n)
<1>2. root \in 0..n /\ IsRoot(root)
  BY <1>1 DEF FloorSqrt
<1>3. CeilSqrt(n) = IF root * root = n THEN root ELSE root + 1
  BY DEF CeilSqrt
<1> HIDE DEF root
<1> QED
  BY <1>2, <1>3 DEF root

(***************************************************************************)
(* What a square is compared with is told by the numbers.                  *)
(***************************************************************************)
LEMMA SquaresCompare ==
    ASSUME NEW x \in Int, NEW y \in Nat
    PROVE  /\ -y =< x /\ x =< y => x * x =< y * y
           /\ x =< -y => x * x >= y * y
           /\ x >= y => x * x >= y * y
           /\ x < 0 /\ y * y < x * x => y < -x
<1>1. ASSUME NEW m \in Nat, NEW n \in Nat, m =< n PROVE m * m =< n * n
  <2>1. m * m =< m * n /\ m * n =< n * n
    BY <1>1
  <2> QED
    BY <2>1
<1>3. (-x) * (-x) = x * x /\ -x \in Int
  OBVIOUS
<1>4. -y =< x /\ x =< y => x * x =< y * y
  <2>1. CASE x >= 0
    BY <1>1, <2>1
  <2>2. CASE x < 0
    BY <1>1, <1>3, <2>2
  <2> QED
    BY <2>1, <2>2
<1>5. x =< -y => x * x >= y * y
  <2> SUFFICES ASSUME x =< -y PROVE y * y =< x * x
    BY <1>3
  <2>1. -x \in Nat /\ y =< -x
    OBVIOUS
  <2>2. y * y =< (-x) * (-x)
    BY <1>1, <2>1
  <2> QED
    BY <1>3, <2>2
<1>6. x >= y => x * x >= y * y
  BY <1>1
<1>7. x < 0 /\ y * y < x * x => y < -x
  <2> SUFFICES ASSUME x < 0, ~(y < -x) PROVE x * x =< y * y
    OBVIOUS
  <2>1. -x \in Nat /\ -x =< y
    OBVIOUS
  <2>2. (-x) * (-x) =< y * y
    BY <1>1, <2>1
  <2> QED
    BY <1>3, <2>2
<1> QED
  BY <1>4, <1>5, <1>6, <1>7

(***************************************************************************)
(* How far apart two nodes are, squared, when the one moves by v relative  *)
(* to the other, s instants after it was r0 away.                          *)
(***************************************************************************)
Apart(r0, v, s) == Dot(Extrapolated(r0, v, s), Extrapolated(r0, v, s))

(***************************************************************************)
(* ComputeLifetime finds the first crossing of the sphere, for any motion  *)
(* and radius.  Up to the whole instant it yields the other node stays on  *)
(* the side it was on, inside or outside, and if it was inside it is out   *)
(* from the next one on; when it yields nothing, no crossing is ahead.     *)
(***************************************************************************)
THEOREM LifetimeEndsAtCrossing ==
    ASSUME NEW r0 \in Vector, NEW v \in Vector, NEW radius \in Nat
    PROVE  LET sphere == radius * radius
           IN  /\ \A t \in ComputeLifetime(r0, v, radius) :
                     /\ t \in Nat
                     /\ Apart(r0, v, 0) < sphere =>
                           /\ \A s \in 0..t : Apart(r0, v, s) =< sphere
                           /\ \A s \in Nat : s > t => Apart(r0, v, s) > sphere
                     /\ Apart(r0, v, 0) > sphere => \A s \in 0..t : Apart(r0, v, s) >= sphere
               /\ ComputeLifetime(r0, v, radius) = {} =>
                     /\ Apart(r0, v, 0) < sphere =>
                           v = Null /\ \A s \in Nat : Apart(r0, v, s) < sphere
                     /\ Apart(r0, v, 0) > sphere => \A s \in Nat : Apart(r0, v, s) >= sphere
<1> DEFINE a == Dot(v, v)
           b == Dot(r0, v)
           sphere == radius * radius
           e == Dot(r0, r0) - sphere
           d == b * b - a * e
           Q(s) == e + 2 * (b * s) + a * (s * s)
<1>1. /\ r0.x \in Int /\ r0.y \in Int /\ v.x \in Int /\ v.y \in Int /\ sphere \in Int
  BY DEF Vector
<1>2. a \in Nat /\ b \in Int /\ e \in Int /\ d \in Int /\ (a = 0 => b = 0 /\ v = Null)
  <2>1. v.x * v.x \in Nat /\ v.y * v.y \in Nat
    BY <1>1
  <2>2. a \in Nat
    BY <2>1 DEF Dot
  <2>3. b \in Int /\ Dot(r0, r0) \in Int
    BY <1>1 DEF Dot
  <2>4. a = 0 => b = 0 /\ v = Null
    <3> SUFFICES ASSUME a = 0 PROVE b = 0 /\ v = Null
      OBVIOUS
    <3>1. v.x * v.x = 0 /\ v.y * v.y = 0
      BY <2>1 DEF Dot
    <3>2. v.x = 0 /\ v.y = 0
      <4>1. ASSUME NEW x \in Int, x * x = 0 PROVE x = 0
        BY <4>1
      <4> QED
        BY <1>1, <3>1, <4>1
    <3>3. v = [x |-> v.x, y |-> v.y]
      BY DEF Vector
    <3> QED
      BY <1>1, <3>2, <3>3 DEF Dot, Null
  <2>5. e \in Int
    BY <1>1, <2>3
  <2> HIDE DEF a, b, e
  <2> QED
    BY <2>2, <2>3, <2>4, <2>5
<1>3. ASSUME NEW s \in Int PROVE Apart(r0, v, s) = sphere + Q(s)
  <2>1. Apart(r0, v, s) = (r0.x + v.x * s) * (r0.x + v.x * s)
                          + (r0.y + v.y * s) * (r0.y + v.y * s)
    BY DEF Apart, Dot, Extrapolated
  <2>2. (r0.x + v.x * s) * (r0.x + v.x * s)
           = r0.x * r0.x + 2 * ((r0.x * v.x) * s) + (v.x * v.x) * (s * s)
    BY <1>1
  <2>3. (r0.y + v.y * s) * (r0.y + v.y * s)
           = r0.y * r0.y + 2 * ((r0.y * v.y) * s) + (v.y * v.y) * (s * s)
    BY <1>1
  <2>4. b * s = (r0.x * v.x) * s + (r0.y * v.y) * s
    BY <1>1 DEF Dot
  <2>5. a * (s * s) = (v.x * v.x) * (s * s) + (v.y * v.y) * (s * s)
    BY <1>1 DEF Dot
  <2>6. e = r0.x * r0.x + r0.y * r0.y - sphere
    BY <1>1 DEF Dot
  <2> QED
    BY <1>1, <2>1, <2>2, <2>3, <2>4, <2>5, <2>6
<1> HIDE DEF a, b, e, sphere
<1>4. ASSUME NEW s \in Int
      PROVE  /\ Q(s) \in Int
             /\ a * Q(s) = (a * s + b) * (a * s + b) - d
  BY <1>2
<1>5. Q(0) = e
  BY <1>2
<1>6. ASSUME NEW s \in Int, a # 0
      PROVE  (a * Q(s) >= 0 => Q(s) >= 0) /\ (a * Q(s) =< 0 => Q(s) =< 0)
             /\ (a * Q(s) > 0 => Q(s) > 0)
  BY <1>2, <1>4, <1>6
<1>7. ComputeLifetime(r0, v, radius) =
         IF a = 0 \/ d < 0 THEN {}
         ELSE Least((IF b < 0 /\ b * b > d THEN {(-b - CeilSqrt(d)) \div a} ELSE {})
                    \union (IF b < 0 \/ d > b * b THEN {(-b + FloorSqrt(d)) \div a} ELSE {}))
  BY DEF ComputeLifetime, a, b, d, e, sphere
\* The sides of the sphere are the signs of Q.
<1> DEFINE L == ComputeLifetime(r0, v, radius)
           Leaving(t) == /\ \A s \in 0..t : Q(s) =< 0
                         /\ \A s \in Nat : s > t => Q(s) > 0
           Claim == /\ \A t \in L : /\ t \in Nat
                                    /\ e < 0 => Leaving(t)
                                    /\ e > 0 => \A s \in 0..t : Q(s) >= 0
                    /\ L = {} => /\ e < 0 => v = Null /\ \A s \in Nat : Q(s) < 0
                                 /\ e > 0 => \A s \in Nat : Q(s) >= 0
\* Not moving relative to each other, or passing the sphere by.
<1>8. ASSUME a = 0 \/ d < 0 PROVE Claim
  <2>1. L = {}
    BY <1>7, <1>8
  <2>2. CASE a = 0
    <3>1. \A s \in Int : Q(s) = e
      BY <1>2, <2>2
    <3>2. v = Null
      BY <1>2, <2>2
    <3> HIDE DEF L, Q
    <3> QED
      BY <1>2, <2>1, <3>1, <3>2
  <2>3. CASE a # 0 /\ d < 0
    <3>1. ASSUME NEW s \in Int PROVE Q(s) > 0 /\ Q(s) \in Int
      <4>1. a * s + b \in Int
        BY <1>2
      <4>2. (a * s + b) * (a * s + b) >= 0
        BY <4>1
      <4>3. (a * s + b) * (a * s + b) - d > 0
        BY <1>2, <2>3, <4>1, <4>2
      <4> HIDE DEF Q, d
      <4> QED
        BY <1>4, <1>6, <2>3, <4>3
    <3>2. e > 0
      BY <1>5, <3>1
    <3> HIDE DEF L, Q
    <3> QED
      BY <1>2, <2>1, <3>1, <3>2
  <2> QED
    BY <1>8, <2>2, <2>3
\* Crossing the sphere, behind or ahead.
<1>9. ASSUME a # 0, d >= 0 PROVE Claim
  <2> DEFINE f == FloorSqrt(d)
             c == CeilSqrt(d)
             into == (-b - c) \div a
             out == (-b + f) \div a
             Enters == b < 0 /\ b * b > d
             Leaves == b < 0 \/ d > b * b
             S == (IF Enters THEN {into} ELSE {}) \union (IF Leaves THEN {out} ELSE {})
  <2>1. L = Least(S)
    <3>1. ~(a = 0 \/ d < 0)
      BY <1>2, <1>9
    <3> QED
      BY <1>7, <3>1, Zenon
  <2>2. /\ f \in Nat /\ f * f =< d /\ d < (f + 1) * (f + 1)
        /\ c \in {f, f + 1} /\ d =< c * c /\ (c = f => f * f = d)
    <3>1. d \in Nat
      BY <1>2, <1>9
    <3> HIDE DEF d
    <3> QED
      BY <3>1, SquareRoots
  <2>3. (e > 0 <=> b * b > d) /\ (e < 0 <=> d > b * b)
    <3>1. a * e \in Int /\ (e > 0 <=> a * e > 0) /\ (e < 0 <=> a * e < 0)
      BY <1>2, <1>9
    <3> QED
      BY <1>2, <3>1
  <2> HIDE DEF f, c, d, Q
  <2>4. Enters => into \in Nat /\ a * into =< -b - c
    <3> SUFFICES ASSUME Enters PROVE into \in Nat /\ a * into =< -b - c
      OBVIOUS
    <3>1. f < -b
      BY <1>2, <2>2, SquaresCompare
    <3>2. -b - c \in Nat
      BY <1>2, <2>2, <3>1
    <3> HIDE DEF c
    <3> QED
      BY <1>2, <1>9, <3>2
  <2>5. Leaves => out \in Nat /\ a * out =< -b + f /\ -b + f < a * (out + 1)
    <3> SUFFICES ASSUME Leaves
                 PROVE  out \in Nat /\ a * out =< -b + f /\ -b + f < a * (out + 1)
      OBVIOUS
    <3>1. -b + f \in Nat
      <4>1. CASE b < 0
        BY <1>2, <2>2, <4>1
      <4>2. CASE b >= 0 /\ d > b * b
        <5>1. ~(f + 1 =< b)
          <6> SUFFICES ASSUME f + 1 =< b PROVE FALSE
            OBVIOUS
          <6>1. b * b >= (f + 1) * (f + 1)
            BY <1>2, <2>2, SquaresCompare
          <6> QED
            BY <1>2, <2>2, <4>2, <6>1
        <5> QED
          BY <1>2, <2>2, <5>1
      <4> QED
        BY <1>2, <4>1, <4>2
    <3> DEFINE g == -b + f
               q == g \div a
    <3>2. g \in Nat
      BY <3>1
    <3> HIDE DEF g
    <3>3. q \in Nat /\ a * q =< g /\ g < a * (q + 1)
      BY <1>2, <1>9, <3>2
    <3> QED
      BY <3>3 DEF g, q
  <2> HIDE DEF into, out
  <2>6. ASSUME NEW t \in Least(S) PROVE t \in Nat
    BY <2>4, <2>5 DEF Least
  \* The squares of what the sphere is compared with.
  <2>7. ASSUME NEW s \in Nat
        PROVE  LET z == a * s + b
               IN  /\ z \in Int /\ Q(s) \in Int
                   /\ -f =< z /\ z =< f => Q(s) =< 0
                   /\ z =< -c => Q(s) >= 0
                   /\ z >= f + 1 => Q(s) > 0
    <3> DEFINE z == a * s + b
    <3>1. z \in Int /\ Q(s) \in Int /\ a * Q(s) = z * z - d /\ z * z \in Int
      BY <1>2, <1>4
    <3> HIDE DEF z
    <3>2. c \in Nat /\ f + 1 \in Nat
      BY <2>2
    <3>3. /\ -f =< z /\ z =< f => z * z =< f * f
          /\ z =< -c => z * z >= c * c
          /\ z >= f + 1 => z * z >= (f + 1) * (f + 1)
      BY <2>2, <3>1, <3>2, SquaresCompare
    <3>4. f * f \in Int /\ c * c \in Int /\ (f + 1) * (f + 1) \in Int
      BY <2>2, <3>2
    <3>5. /\ -f =< z /\ z =< f => a * Q(s) =< 0
          /\ z =< -c => a * Q(s) >= 0
          /\ z >= f + 1 => a * Q(s) > 0
      BY <1>2, <2>2, <3>1, <3>3, <3>4
    <3>6. /\ -f =< z /\ z =< f => Q(s) =< 0
          /\ z =< -c => Q(s) >= 0
          /\ z >= f + 1 => Q(s) > 0
      BY <1>6, <1>9, <3>5
    <3> QED
      BY <3>1, <3>6 DEF z
  <2> HIDE DEF Least
  \* From inside, the peer can only leave.
  <2>8. ASSUME e < 0, NEW t \in L
        PROVE  (\A s \in 0..t : Q(s) =< 0) /\ \A s \in Nat : s > t => Q(s) > 0
    <3>1. ~Enters /\ d > b * b
      BY <1>2, <2>3, <2>8
    <3>2. Leaves
      BY <3>1
    <3>3. t = out /\ t \in Nat
      <4>1. S = {out}
        BY <3>1, <3>2
      <4> HIDE DEF S
      <4>2. t \in Least(S)
        BY <2>1, <2>8
      <4>3. t \in S
        BY <4>2 DEF Least
      <4> QED
        BY <2>6, <4>1, <4>2, <4>3
    <3>4. a * t =< -b + f /\ -b + f < a * (t + 1)
      BY <2>5, <3>2, <3>3
    <3>5. -f =< b
      <4> SUFFICES ASSUME b =< -(f + 1) PROVE FALSE
        BY <1>2, <2>2
      <4>1. b * b >= (f + 1) * (f + 1)
        BY <1>2, <2>2, SquaresCompare
      <4> QED
        BY <1>2, <2>2, <3>1, <4>1
    <3>6. ASSUME NEW s \in 0..t PROVE Q(s) =< 0
      <4>1. s \in Nat /\ 0 =< a * s /\ a * s =< a * t
        BY <1>2, <3>3
      <4>2. -f =< a * s + b /\ a * s + b =< f
        BY <1>2, <2>2, <3>3, <3>4, <3>5, <4>1
      <4> QED
        BY <2>7, <4>1, <4>2
    <3>7. ASSUME NEW s \in Nat, s > t PROVE Q(s) > 0
      <4>1. a * (t + 1) =< a * s
        BY <1>2, <3>3, <3>7
      <4>2. a * s + b >= f + 1
        BY <1>2, <2>2, <3>3, <3>4, <4>1
      <4> QED
        BY <2>7, <4>2
    <3> QED
      BY <3>6, <3>7
  \* From outside, the first of two crossings is the way in.
  <2>9. ASSUME e > 0, NEW t \in L, NEW s \in 0..t
        PROVE  Q(s) >= 0
    <3>1. t \in Nat /\ t \in S /\ \A u \in S : t =< u
      BY <2>1, <2>6, <2>9 DEF Least
    <3>2. b < 0
      BY <1>2, <2>3, <2>9, <3>1
    <3>3. Enters
      BY <2>3, <2>9, <3>2
    <3>4. t =< into /\ into \in Nat /\ a * into =< -b - c
      BY <2>4, <3>1, <3>3
    <3>5. s \in Nat /\ a * s =< a * into
      BY <1>2, <3>1, <3>4
    <3>6. a * s + b =< -c
      BY <1>2, <2>2, <3>4, <3>5
    <3> QED
      BY <2>7, <3>5, <3>6
  \* Without a crossing ahead the peer is outside and moves away.
  <2>10. ASSUME L = {}
         PROVE  e >= 0 /\ \A s \in Nat : Q(s) >= 0
    <3>1. S = {}
      <4>1. CASE Enters /\ Leaves
        <5>1. S = {into, out} /\ into \in Nat /\ out \in Nat
          BY <2>4, <2>5, <4>1
        <5>2. into \in Least(S) \/ out \in Least(S)
          BY <5>1 DEF Least
        <5> QED
          BY <2>1, <2>10, <5>2
      <4>2. CASE ~Enters /\ Leaves
        <5>1. S = {out} /\ out \in Nat
          BY <2>5, <4>2
        <5>2. out \in Least(S)
          BY <5>1 DEF Least
        <5> QED
          BY <2>1, <2>10, <5>2
      <4>3. CASE ~Leaves
        BY <4>3
      <4> QED
        BY <4>1, <4>2, <4>3
    <3>2. ~Leaves
      BY <3>1
    <3>3. b >= 0 /\ e >= 0
      BY <1>2, <2>3, <3>2
    <3>4. ASSUME NEW s \in Nat PROVE Q(s) >= 0
      <4>1. b * s >= 0 /\ a * (s * s) >= 0 /\ b * s \in Int /\ a * (s * s) \in Int
        <5>1. s * s \in Nat
          OBVIOUS
        <5> QED
          BY <1>2, <3>3, <5>1
      <4> QED
        BY <1>2, <3>3, <4>1 DEF Q
    <3> QED
      BY <3>3, <3>4
  <2> HIDE DEF L, S
  <2>11. L = {} => ~(e < 0) /\ \A s \in Nat : Q(s) >= 0
    BY <1>2, <2>10
  <2>12. \A t \in L : t \in Nat
    BY <2>1, <2>6
  <2> HIDE DEF Q
  <2>13. \A t \in L : e < 0 => Leaving(t)
    BY <2>8
  <2>14. \A t \in L : e > 0 => \A s \in 0..t : Q(s) >= 0
    BY <2>9
  <2> HIDE DEF Leaving
  <2> QED
    BY <2>11, <2>12, <2>13, <2>14
<1>10. Claim
  <2>1. (a = 0 \/ d < 0) \/ (a # 0 /\ d >= 0)
    BY <1>2
  <2> HIDE DEF Claim
  <2> QED
    BY <1>8, <1>9, <2>1
<1>11. \A s \in Nat : Q(s) \in Int /\ Apart(r0, v, s) = sphere + Q(s)
  BY <1>3, <1>4
<1> HIDE DEF Q, L
<1>12. /\ \A t \in L : /\ t \in Nat
                       /\ Apart(r0, v, 0) < sphere =>
                             /\ \A s \in 0..t : Apart(r0, v, s) =< sphere
                             /\ \A s \in Nat : s > t => Apart(r0, v, s) > sphere
                       /\ Apart(r0, v, 0) > sphere => \A s \in 0..t : Apart(r0, v, s) >= sphere
       /\ L = {} => /\ Apart(r0, v, 0) < sphere =>
                          v = Null /\ \A s \in Nat : Apart(r0, v, s) < sphere
                    /\ Apart(r0, v, 0) > sphere => \A s \in Nat : Apart(r0, v, s) >= sphere
  <2>1. \A t \in L : t \in Nat /\ \A s \in 0..t : s \in Nat
    BY <1>10
  <2>2. (Apart(r0, v, 0) < sphere <=> e < 0) /\ (Apart(r0, v, 0) > sphere <=> e > 0)
    BY <1>1, <1>2, <1>3, <1>5 DEF sphere
  <2> QED
    BY <1>1, <1>10, <1>11, <2>1, <2>2 DEF sphere
<1> QED
  BY <1>12 DEF sphere, L

-----------------------------------------------------------------------------
(* What is under way, and that it comes through every further hop unchanged. *)

\* Vectors and numbers that came through a float.
SettledVectors == {u \in Vector : Narrowed(u) = u}
SettledNumbers == {n \in Nat : EncodeFloat(n) = n}

HelloOf(V, N) == [sourcePosition : V, sourceVelocity : V, originator : {Peer},
                  lastHopPosition : V, averageHopDistance : N, hopCount : 1..255,
                  timestamp : Nat]
UpdateOf(V) == [position : V, velocity : V, originator : {Peer}, timestamp : Nat]

\* A message under way.  The hop count of a HELLO fits its byte, because it can only
\* have grown as often as the TTL has shrunk.
HellosUnderWay ==
    {f \in [kind : {HELLO}, ttl : 1..Ttl, body : HelloOf(SettledVectors, SettledNumbers),
            due : Nat] : f.body.hopCount + f.ttl =< Ttl + 1}
UpdatesUnderWay ==
    [kind : {GLOBAL_UPDATE}, ttl : 1..Ttl, body : UpdateOf(SettledVectors), due : Nat]

(***************************************************************************)
(* A vector that came through a float is settled.                          *)
(***************************************************************************)
LEMMA VectorsSettle ==
    ASSUME NEW u \in Vector
    PROVE  Narrowed(u) \in SettledVectors
<1>1. u.x \in Int /\ u.y \in Int
  BY DEF Vector
<1>2. /\ EncodeFloat(u.x) \in Int /\ EncodeFloat(EncodeFloat(u.x)) = EncodeFloat(u.x)
      /\ EncodeFloat(u.y) \in Int /\ EncodeFloat(EncodeFloat(u.y)) = EncodeFloat(u.y)
  BY <1>1, RoundingSettles
<1>3. Narrowed(u) = [x |-> EncodeFloat(u.x), y |-> EncodeFloat(u.y)]
  BY DEF Narrowed
<1> DEFINE w == [x |-> EncodeFloat(u.x), y |-> EncodeFloat(u.y)]
<1>4. w \in Vector /\ w.x = EncodeFloat(u.x) /\ w.y = EncodeFloat(u.y)
  BY <1>2 DEF Vector
<1>5. Narrowed(w) = w
  BY <1>2, <1>4 DEF Narrowed
<1> HIDE DEF w
<1> QED
  BY <1>3, <1>4, <1>5 DEF SettledVectors, w

(***************************************************************************)
(* A HELLO that is sent, by the peer or a relay, is under way as one;      *)
(***************************************************************************)
LEMMA HelloSent ==
    ASSUME now \in Nat, NEW ttl \in 1..Ttl, NEW h \in HelloOf(Vector, Nat),
           h.hopCount + ttl =< Ttl + 1, NEW delay \in Nat
    PROVE  Sent(HELLO, ttl, h, delay) \in HellosUnderWay
<1> DEFINE body == [sourcePosition |-> Narrowed(h.sourcePosition),
                    sourceVelocity |-> Narrowed(h.sourceVelocity),
                    originator |-> h.originator,
                    lastHopPosition |-> Narrowed(h.lastHopPosition),
                    averageHopDistance |-> EncodeFloat(h.averageHopDistance),
                    hopCount |-> h.hopCount % 256,
                    timestamp |-> h.timestamp]
<1>1. /\ h.sourcePosition \in Vector /\ h.sourceVelocity \in Vector
      /\ h.lastHopPosition \in Vector /\ h.averageHopDistance \in Nat
      /\ h.originator = Peer /\ h.hopCount \in 1..255 /\ h.timestamp \in Nat
  BY DEF HelloOf
<1>2. ttl % 256 = ttl /\ ttl \in Nat
  BY TrackingAssumption
<1>3. h.hopCount % 256 = h.hopCount
  BY <1>1
<1>4. Sent(HELLO, ttl, h, delay) = [kind |-> HELLO, ttl |-> ttl, body |-> body,
                                    due |-> now + delay]
  BY <1>2, HelloReceived DEF Sent
<1>5. EncodeFloat(h.averageHopDistance) \in SettledNumbers
  BY <1>1, RoundingSettles DEF SettledNumbers
<1>6. /\ Narrowed(h.sourcePosition) \in SettledVectors
      /\ Narrowed(h.sourceVelocity) \in SettledVectors
      /\ Narrowed(h.lastHopPosition) \in SettledVectors
  BY <1>1, VectorsSettle
<1>7. body \in HelloOf(SettledVectors, SettledNumbers) /\ body.hopCount = h.hopCount
  BY <1>1, <1>3, <1>5, <1>6 DEF HelloOf
<1>8. now + delay \in Nat
  OBVIOUS
<1> HIDE DEF body
<1> QED
  BY <1>4, <1>7, <1>8 DEF HellosUnderWay

(***************************************************************************)
(* so is a GLOBAL_UPDATE.                                                  *)
(***************************************************************************)
LEMMA UpdateSent ==
    ASSUME now \in Nat, NEW ttl \in 1..Ttl, NEW h \in UpdateOf(Vector), NEW delay \in Nat
    PROVE  Sent(GLOBAL_UPDATE, ttl, h, delay) \in UpdatesUnderWay
<1> DEFINE body == [position |-> Narrowed(h.position), velocity |-> Narrowed(h.velocity),
                    originator |-> h.originator, timestamp |-> h.timestamp]
<1>1. /\ h.position \in Vector /\ h.velocity \in Vector
      /\ h.originator = Peer /\ h.timestamp \in Nat
  BY DEF UpdateOf
<1>2. ttl % 256 = ttl /\ ttl \in Nat
  BY TrackingAssumption
<1>3. Sent(GLOBAL_UPDATE, ttl, h, delay) = [kind |-> GLOBAL_UPDATE, ttl |-> ttl,
                                            body |-> body, due |-> now + delay]
  BY <1>2, UpdateReceived DEF Sent
<1>4. Narrowed(h.position) \in SettledVectors /\ Narrowed(h.velocity) \in SettledVectors
  BY <1>1, VectorsSettle
<1>5. body \in UpdateOf(SettledVectors)
  BY <1>1, <1>4 DEF UpdateOf
<1>6. now + delay \in Nat
  OBVIOUS
<1> HIDE DEF body
<1> QED
  BY <1>3, <1>5, <1>6 DEF UpdatesUnderWay

(***************************************************************************)
(* What was read once is read the same after another hop.                  *)
(***************************************************************************)
LEMMA AnotherHop ==
    ASSUME now \in Nat, NEW f \in HellosUnderWay \union UpdatesUnderWay, f.due = now
    PROVE  Sent(f.kind, f.ttl, f.body, 0) = f
<1>1. now + 0 = now
  OBVIOUS
<1>2. CASE f \in HellosUnderWay
  <2> DEFINE h == f.body
  <2>1. /\ f = [kind |-> HELLO, ttl |-> f.ttl, body |-> h, due |-> now]
        /\ f.kind = HELLO /\ f.ttl \in 1..Ttl
        /\ h \in HelloOf(SettledVectors, SettledNumbers)
    BY <1>2 DEF HellosUnderWay
  <2> HIDE DEF h
  <2>2. f.ttl % 256 = f.ttl
    BY <2>1, TrackingAssumption
  <2>3. /\ Narrowed(h.sourcePosition) = h.sourcePosition
        /\ Narrowed(h.sourceVelocity) = h.sourceVelocity
        /\ Narrowed(h.lastHopPosition) = h.lastHopPosition
        /\ EncodeFloat(h.averageHopDistance) = h.averageHopDistance
        /\ h.hopCount % 256 = h.hopCount
    BY <2>1 DEF HelloOf, SettledVectors, SettledNumbers
  <2>4. h = [sourcePosition |-> h.sourcePosition, sourceVelocity |-> h.sourceVelocity,
             originator |-> h.originator, lastHopPosition |-> h.lastHopPosition,
             averageHopDistance |-> h.averageHopDistance, hopCount |-> h.hopCount,
             timestamp |-> h.timestamp]
    BY <2>1 DEF HelloOf
  <2>5. Received(Packed(HELLO, f.ttl, h)) =
           [kind |-> HELLO, ttl |-> f.ttl, body |-> h, rest |-> <<>>]
    BY <2>2, <2>3, <2>4, HelloReceived
  <2>6. Sent(HELLO, f.ttl, h, 0) = [kind |-> HELLO, ttl |-> f.ttl, body |-> h, due |-> now]
    BY <1>1, <2>5 DEF Sent
  <2> QED
    BY <2>1, <2>6 DEF h
<1>3. CASE f \in UpdatesUnderWay
  <2> DEFINE h == f.body
  <2>1. /\ f = [kind |-> GLOBAL_UPDATE, ttl |-> f.ttl, body |-> h, due |-> now]
        /\ f.kind = GLOBAL_UPDATE /\ f.ttl \in 1..Ttl
        /\ h \in UpdateOf(SettledVectors)
    BY <1>3 DEF UpdatesUnderWay
  <2> HIDE DEF h
  <2>2. f.ttl % 256 = f.ttl
    BY <2>1, TrackingAssumption
  <2>3. Narrowed(h.position) = h.position /\ Narrowed(h.velocity) = h.velocity
    BY <2>1 DEF UpdateOf, SettledVectors
  <2>4. h = [position |-> h.position, velocity |-> h.velocity, originator |-> h.originator,
             timestamp |-> h.timestamp]
    BY <2>1 DEF UpdateOf
  <2>5. Received(Packed(GLOBAL_UPDATE, f.ttl, h)) =
           [kind |-> GLOBAL_UPDATE, ttl |-> f.ttl, body |-> h, rest |-> <<>>]
    BY <2>2, <2>3, <2>4, UpdateReceived
  <2>6. Sent(GLOBAL_UPDATE, f.ttl, h, 0) =
           [kind |-> GLOBAL_UPDATE, ttl |-> f.ttl, body |-> h, due |-> now]
    BY <1>1, <2>5 DEF Sent
  <2> QED
    BY <2>1, <2>6 DEF h
<1> QED
  BY <1>2, <1>3

-----------------------------------------------------------------------------
(* The types of the two nodes, and what follows for the headers.           *)

(***************************************************************************)
(* A table with an entry more, or purged, is a table.                      *)
(***************************************************************************)
LEMMA TablesStay ==
    ASSUME NEW table, IsTable(table)
    PROVE  /\ \A e \in Track : IsTable(AddOrUpdate(table, Peer, e))
           /\ \A n : IsTable(Purge(table, n))
           /\ Peer \in DOMAIN table => table[Peer] \in Track
<1>1. DOMAIN table \subseteq {Peer} /\ \A q \in DOMAIN table : table[q] \in Track
  BY DEF IsTable
<1>2. ASSUME NEW e \in Track PROVE IsTable(AddOrUpdate(table, Peer, e))
  <2> DEFINE t == AddOrUpdate(table, Peer, e)
  <2>1. /\ t = [q \in DOMAIN table \union {Peer} |-> IF q = Peer THEN e ELSE table[q]]
    BY DEF AddOrUpdate
  <2>2. DOMAIN t \subseteq {Peer} /\ t \in [DOMAIN t -> Track]
    BY <1>1, <2>1
  <2> QED
    BY <2>2 DEF IsTable
<1>3. ASSUME NEW n PROVE IsTable(Purge(table, n))
  <2> DEFINE t == Purge(table, n)
  <2>1. t = [p \in {q \in DOMAIN table : ~IsExpired(table[q], n)} |-> table[p]]
    BY DEF Purge
  <2>2. DOMAIN t \subseteq {Peer} /\ t \in [DOMAIN t -> Track]
    BY <1>1, <2>1
  <2> QED
    BY <2>2 DEF IsTable
<1> QED
  BY <1>1, <1>2, <1>3

(***************************************************************************)
(* Whatever moves in a straight line is somewhere.                         *)
(***************************************************************************)
LEMMA StraightLines ==
    ASSUME NEW u \in Vector, NEW v \in Vector, NEW t \in Int
    PROVE  Extrapolated(u, v, t) \in Vector /\ From(u, v) \in Vector
<1>1. u.x \in Int /\ u.y \in Int /\ v.x \in Int /\ v.y \in Int
  BY DEF Vector
<1>2. /\ u.x + v.x * t \in Int /\ u.y + v.y * t \in Int
      /\ v.x - u.x \in Int /\ v.y - u.y \in Int
  BY <1>1
<1> QED
  BY <1>2 DEF Extrapolated, From, Vector

TypeInv == TypeOK /\ net \subseteq HellosUnderWay \union UpdatesUnderWay

(***************************************************************************)
(* The two nodes start with nothing under way.                             *)
(***************************************************************************)
LEMMA TypeInit == Init => TypeInv
<1> SUFFICES ASSUME Init PROVE TypeInv
  OBVIOUS
<1> USE TrackingAssumption DEF Init, StartTime
<1>1. now = 1 /\ net = {} /\ DOMAIN zone = {} /\ DOMAIN global = {}
  OBVIOUS
<1>2. now \in 0..MaxTime /\ turned \in 0..MaxTime /\ turns \in 0..MaxTurns
      /\ heard \in 0..MaxTime /\ losses \in 0..MaxLosses
      /\ hello \in Nat /\ check \in Nat /\ maint \in Nat
  OBVIOUS
<1>3. pos \in Vector /\ vel \in Velocities
      /\ lastGlobal \in [position : Vector, velocity : Velocities, timestamp : Nat]
  OBVIOUS
<1>4. IsTable(zone) /\ IsTable(global)
  BY DEF IsTable
<1> QED
  BY <1>1, <1>2, <1>3, <1>4 DEF TypeInv, TypeOK

(***************************************************************************)
(* Every action keeps the types, and what it sends is a message.           *)
(***************************************************************************)
LEMMA TypeStep == TypeInv /\ [Next]_vars => TypeInv'
<1> SUFFICES ASSUME TypeInv, [Next]_vars PROVE TypeInv'
  OBVIOUS
<1> DEFINE Messages == HellosUnderWay \union UpdatesUnderWay
<1>0. /\ TypeOK /\ net \subseteq Messages /\ now \in Nat /\ now \in 0..MaxTime
      /\ IsTable(zone) /\ IsTable(global) /\ pos \in Vector /\ vel \in Vector
      /\ Delays \subseteq Nat /\ Densities \subseteq Nat
  BY TrackingAssumption DEF TypeInv, TypeOK
<1>a. \A f \in Messages : f.due \in Nat /\ f.kind \in 0..1 /\ f.ttl \in 1..Ttl
  BY DEF HellosUnderWay, UpdatesUnderWay, HELLO, GLOBAL_UPDATE
<1>b. MyPosition \in Vector /\ MyVelocity \in Vector
  <2>1. now - StartTime \in Int
    BY <1>0 DEF StartTime
  <2>2. MyStart \in Vector /\ MyVelocity \in Vector
    BY TrackingAssumption
  <2> QED
    BY <2>1, <2>2, StraightLines DEF MyPosition
<1> HIDE DEF Messages
\* What remains to be shown of an action that leaves the motion of the peer alone.
<1>1. ASSUME UNCHANGED <<now, pos, vel, turned, turns>>,
             lastGlobal' \in [position : Vector, velocity : Velocities, timestamp : Nat],
             hello' \in Nat, check' \in Nat, maint' \in Nat, net' \subseteq Messages,
             IsTable(zone'), IsTable(global'), heard' \in 0..MaxTime, losses' \in 0..MaxLosses
      PROVE  TypeInv'
  <2>1. \A f \in net' : f.due \in Nat /\ f.kind \in 0..1 /\ f.ttl \in 1..Ttl
    BY <1>a, <1>1
  <2>2. (HellosUnderWay \union UpdatesUnderWay)' = Messages
    BY DEF Messages, HellosUnderWay, UpdatesUnderWay, HelloOf, UpdateOf,
           SettledVectors, SettledNumbers
  <2>3. IsTable(zone)' /\ IsTable(global)'
    BY <1>1
  <2> QED
    BY <1>0, <1>1, <2>1, <2>2, <2>3 DEF TypeInv, TypeOK
<1> USE DEF sender, observer, motion
<1>2. CASE SendHello
  <2>1. PICK d \in Delays : net' = net \union {Sent(HELLO, Ttl, HelloBody, d)}
    BY <1>2 DEF SendHello, Send
  <2>2. HelloBody \in HelloOf(Vector, Nat) /\ HelloBody.hopCount = 1
    BY <1>0 DEF HelloBody, HelloOf
  <2>3. Sent(HELLO, Ttl, HelloBody, d) \in Messages
    BY <1>0, <2>2, HelloSent, TrackingAssumption DEF Messages
  <2>4. hello' \in Nat
    BY <1>0, <1>2, TrackingAssumption DEF SendHello
  <2> QED
    BY <1>0, <1>1, <1>2, <2>1, <2>3, <2>4 DEF SendHello, TypeOK
<1>3. CASE MaybeSendGlobalUpdate
  <2>1. check' \in Nat /\ UNCHANGED <<now, motion, hello, observer, losses>>
    BY <1>0, <1>3, TrackingAssumption DEF MaybeSendGlobalUpdate
  <2>2. \/ UNCHANGED <<net, lastGlobal>>
        \/ /\ Send(GLOBAL_UPDATE, Ttl, GlobalUpdateBody)
           /\ lastGlobal' = [position |-> pos, velocity |-> vel, timestamp |-> now]
    BY <1>3 DEF MaybeSendGlobalUpdate
  <2>3. /\ net' \subseteq Messages
        /\ lastGlobal' \in [position : Vector, velocity : Velocities, timestamp : Nat]
    <3>1. CASE UNCHANGED <<net, lastGlobal>>
      BY <1>0, <3>1 DEF TypeOK
    <3>2. CASE /\ Send(GLOBAL_UPDATE, Ttl, GlobalUpdateBody)
               /\ lastGlobal' = [position |-> pos, velocity |-> vel, timestamp |-> now]
      <4>1. PICK d \in Delays :
               net' = net \union {Sent(GLOBAL_UPDATE, Ttl, GlobalUpdateBody, d)}
        BY <3>2 DEF Send
      <4>2. GlobalUpdateBody \in UpdateOf(Vector)
        BY <1>0 DEF GlobalUpdateBody, UpdateOf
      <4>3. Sent(GLOBAL_UPDATE, Ttl, GlobalUpdateBody, d) \in Messages
        BY <1>0, <4>2, UpdateSent, TrackingAssumption DEF Messages
      <4> QED
        BY <1>0, <3>2, <4>1, <4>3 DEF TypeOK
    <3> QED
      BY <2>2, <3>1, <3>2
  <2> QED
    BY <1>0, <1>1, <2>1, <2>3 DEF TypeOK
<1>4. ASSUME NEW f \in net, ProcessHello(f) PROVE TypeInv'
  <2> DEFINE h == f.body
             Lifetime(avgHd) == ComputeLifetime(From(MyPosition, h.sourcePosition),
                                                From(MyVelocity, h.sourceVelocity),
                                                Threshold(avgHd))
             Expiry(avgHd) == IF Lifetime(avgHd) = {} THEN now + 3 * HelloInterval
                              ELSE now + CHOOSE t \in Lifetime(avgHd) : TRUE
             Heard(avgHd) == [position |-> h.sourcePosition, velocity |-> h.sourceVelocity,
                              timestamp |-> h.timestamp, expiry |-> Expiry(avgHd),
                              averageHopDistance |-> avgHd, lastHopPosition |-> MyPosition,
                              ofUpdate |-> FALSE]
  <2>1. /\ h.sourcePosition \in Vector /\ h.sourceVelocity \in Vector
        /\ h.averageHopDistance \in Nat /\ h.timestamp \in Nat
    <3>1. f \in HellosUnderWay
      BY <1>0, <1>4 DEF ProcessHello, Messages, UpdatesUnderWay, HELLO, GLOBAL_UPDATE
    <3> QED
      BY <3>1 DEF HellosUnderWay, HelloOf, SettledVectors, SettledNumbers
  <2>2. PICK avgHd \in AverageHopDistances(h) : zone' = AddOrUpdate(zone, Peer, Heard(avgHd))
    BY <1>4, Zenon DEF ProcessHello
  <2>3. avgHd \in Nat
    BY <1>0, <2>1 DEF AverageHopDistances
  <2>4. Threshold(avgHd) \in Nat
    <3>1. ZoneRadiusMid \in Nat
      BY TrackingAssumption
    <3> QED
      BY <2>3, <3>1 DEF Threshold
  <2>5. Lifetime(avgHd) \subseteq Nat
    <3>1. /\ From(MyPosition, h.sourcePosition) \in Vector
          /\ From(MyVelocity, h.sourceVelocity) \in Vector
      BY <1>b, <2>1, StraightLines
    <3> QED
      BY <2>4, <3>1, LifetimeEndsAtCrossing
  <2> HIDE DEF Lifetime
  <2>6. Expiry(avgHd) \in Nat
    <3>1. CASE Lifetime(avgHd) = {}
      BY <1>0, <3>1, TrackingAssumption
    <3>2. CASE Lifetime(avgHd) # {}
      <4>1. (CHOOSE t \in Lifetime(avgHd) : TRUE) \in Lifetime(avgHd)
        BY <3>2
      <4> QED
        BY <1>0, <2>5, <3>2, <4>1
    <3> QED
      BY <3>1, <3>2
  <2> HIDE DEF Expiry
  <2>7. Heard(avgHd) \in Track
    BY <1>b, <2>1, <2>3, <2>6 DEF Track
  <2> HIDE DEF Heard
  <2>8. IsTable(zone')
    BY <1>0, <2>2, <2>7, TablesStay
  <2>9. /\ heard' = now /\ net' = net \ {f}
        /\ UNCHANGED <<now, motion, sender, global, maint, losses>>
    BY <1>4 DEF ProcessHello
  <2> QED
    BY <1>0, <1>1, <2>8, <2>9 DEF TypeOK
<1>5. ASSUME NEW f \in net, ProcessGlobalUpdate(f) PROVE TypeInv'
  <2>1. /\ global' = AddOrUpdate(global, Peer, GlobalEntry(f.body)) /\ net' = net \ {f}
        /\ UNCHANGED <<now, motion, sender, zone, heard, maint, losses>>
    BY <1>5 DEF ProcessGlobalUpdate
  <2>2. f.body.position \in Vector /\ f.body.velocity \in Vector /\ f.body.timestamp \in Nat
    <3>1. f \in UpdatesUnderWay
      BY <1>0, <1>5 DEF ProcessGlobalUpdate, Messages, HellosUnderWay, HELLO, GLOBAL_UPDATE
    <3> QED
      BY <3>1 DEF UpdatesUnderWay, UpdateOf, SettledVectors
  <2>3. GlobalEntry(f.body) \in Track
    <3>1. now + 3 * GlobalUpdateInterval \in Nat /\ Null \in Vector
      BY <1>0, TrackingAssumption DEF Null, Vector
    <3> QED
      BY <2>2, <3>1 DEF GlobalEntry, Track
  <2>4. IsTable(global')
    BY <1>0, <2>1, <2>3, TablesStay
  <2> QED
    BY <1>0, <1>1, <2>1, <2>4 DEF TypeOK
<1>6. ASSUME NEW f \in net, Relay(f) PROVE TypeInv'
  <2>1. PICK d \in Delays, body \in Forwarded(f) :
           net' = (net \ {f}) \union {Sent(f.kind, f.ttl - 1, body, d)}
    BY <1>6 DEF Relay
  <2>2. f.ttl > 1 /\ UNCHANGED <<now, motion, sender, observer, losses>>
    BY <1>6 DEF Relay
  <2>3. Sent(f.kind, f.ttl - 1, body, d) \in Messages
    <3>1. CASE f \in HellosUnderWay
      <4>1. /\ f.kind = HELLO /\ f.ttl \in 1..Ttl /\ f.body.hopCount + f.ttl =< Ttl + 1
            /\ f.body \in HelloOf(SettledVectors, SettledNumbers)
        BY <3>1 DEF HellosUnderWay
      <4>2. f.ttl - 1 \in 1..Ttl /\ Ttl \in 1..255
        BY <2>2, <4>1, TrackingAssumption
      <4>3. f.body \in HelloOf(Vector, Nat)
        BY <4>1 DEF HelloOf, SettledVectors, SettledNumbers
      <4>4. PICK avgHd \in AverageHopDistances(f.body) :
               body = [f.body EXCEPT !.hopCount = @ + 1, !.averageHopDistance = avgHd,
                                     !.lastHopPosition = RelayPosition]
        BY <2>1, <4>1 DEF Forwarded
      <4>5. avgHd \in Nat
        BY <1>0, <4>3, <4>4 DEF AverageHopDistances, HelloOf
      <4>6. f.body.hopCount + 1 \in 1..255 /\ (f.body.hopCount + 1) + (f.ttl - 1) =< Ttl + 1
        BY <2>2, <4>1, <4>2, <4>3 DEF HelloOf
      <4>7. body \in HelloOf(Vector, Nat) /\ body.hopCount = f.body.hopCount + 1
        BY <4>3, <4>4, <4>5, <4>6, TrackingAssumption DEF HelloOf
      <4> QED
        BY <1>0, <4>1, <4>2, <4>6, <4>7, HelloSent DEF Messages
    <3>2. CASE f \in UpdatesUnderWay
      <4>1. /\ f.kind = GLOBAL_UPDATE /\ f.ttl \in 1..Ttl
            /\ f.body \in UpdateOf(SettledVectors)
        BY <3>2 DEF UpdatesUnderWay
      <4>2. f.ttl - 1 \in 1..Ttl
        BY <2>2, <4>1, TrackingAssumption
      <4>3. body = f.body /\ body \in UpdateOf(Vector)
        BY <2>1, <4>1 DEF Forwarded, UpdateOf, SettledVectors, HELLO, GLOBAL_UPDATE
      <4> QED
        BY <1>0, <4>1, <4>2, <4>3, UpdateSent DEF Messages
    <3> QED
      BY <1>0, <3>1, <3>2 DEF Messages
  <2> QED
    BY <1>0, <1>1, <2>1, <2>2, <2>3 DEF TypeOK
<1>7. ASSUME NEW f \in net, Lose(f) PROVE TypeInv'
  <2>1. losses' \in 0..MaxLosses
    BY <1>0, <1>7, TrackingAssumption DEF Lose, TypeOK
  <2> QED
    BY <1>0, <1>1, <1>7, <2>1 DEF Lose, TypeOK
<1>8. CASE PerformMaintenance
  <2>1. /\ maint' = now + MaintenanceInterval
        /\ zone' = Purge(zone, now) /\ global' = Purge(global, now)
        /\ UNCHANGED <<now, motion, sender, net, heard, losses>>
    BY <1>8 DEF PerformMaintenance
  <2>2. maint' \in Nat
    BY <1>0, <2>1, TrackingAssumption
  <2>3. IsTable(zone') /\ IsTable(global')
    BY <1>0, <2>1, TablesStay
  <2> QED
    BY <1>0, <1>1, <2>1, <2>2, <2>3 DEF TypeOK
<1>9. CASE RouteOutput
  <2>1. /\ DOMAIN global # {} /\ zone' = AddOrUpdate(zone, Peer, global[Peer])
        /\ UNCHANGED <<now, motion, sender, net, global, heard, maint, losses>>
    BY <1>9 DEF RouteOutput, ZoneCopy
  <2>2. Peer \in DOMAIN global
    BY <1>0, <2>1 DEF IsTable
  <2>3. IsTable(zone')
    BY <1>0, <2>1, <2>2, TablesStay
  <2> QED
    BY <1>0, <1>1, <2>1, <2>3 DEF TypeOK
<1>10. CASE Turn
  <2>1. /\ vel' \in Velocities /\ turned' = now /\ turns' \in 0..MaxTurns
        /\ UNCHANGED <<now, pos, sender, net, observer, losses>>
    BY <1>0, <1>10, TrackingAssumption DEF Turn, TypeOK
  <2> QED
    BY <1>0, <2>1 DEF TypeInv, TypeOK, IsTable
<1>11. CASE Tick
  <2>1. /\ now' = now + 1 /\ now < MaxTime /\ pos' = Extrapolated(pos, vel, 1)
        /\ UNCHANGED <<vel, turned, turns, sender, net, observer, losses>>
    BY <1>11 DEF Tick
  <2>2. now' \in 0..MaxTime
    BY <1>0, <2>1, TrackingAssumption
  <2>3. pos' \in Vector
    <3>1. \A t \in Int : Extrapolated(pos, vel, t) \in Vector
      BY <1>0, StraightLines
    <3>2. Extrapolated(pos, vel, 1) \in Vector
      BY <3>1
    <3> QED
      BY <2>1, <3>2
  <2> QED
    BY <1>0, <2>1, <2>2, <2>3 DEF TypeInv, TypeOK, IsTable
<1>12. CASE UNCHANGED vars
  BY <1>0, <1>12 DEF vars, TypeInv, TypeOK, IsTable
<1> QED
  BY <1>2, <1>3, <1>4, <1>5, <1>6, <1>7, <1>8, <1>9, <1>10, <1>11, <1>12 DEF Next, RecvControl

(***************************************************************************)
(* Type correctness, for any motion, densities, delays and losses.         *)
(***************************************************************************)
THEOREM TypeCorrect == TrackingSpec => []TypeOK
<1>1. TypeInv => TypeOK
  BY DEF TypeInv
<1> QED
  BY <1>1, TypeInit, TypeStep, PTL DEF TrackingSpec

(***************************************************************************)
(* HeadersIntact, the second and every further hop included.               *)
(***************************************************************************)
THEOREM HeadersStayIntact == TrackingSpec => []HeadersIntact
<1>1. TypeInv => HeadersIntact
  <2> SUFFICES ASSUME TypeInv PROVE HeadersIntact
    OBVIOUS
  <2>1. \A f \in net : f.due = now => Sent(f.kind, f.ttl, f.body, 0) = f
    BY AnotherHop DEF TypeInv, TypeOK
  <2> QED
    BY <2>1, HeadersComeBack, Zenon DEF HeadersIntact
<1> QED
  BY <1>1, TypeInit, TypeStep, PTL DEF TrackingSpec

-----------------------------------------------------------------------------
(* Distances, and how far rounding and moving go.                          *)

(***************************************************************************)
(* A number is rounded by at most half the distance between floats, be it  *)
(* the one around the number or the one around what became of it.          *)
(***************************************************************************)
LEMMA RoundingError ==
    ASSUME NEW x \in Int
    PROVE  LET y == EncodeFloat(x)
           IN  /\ y \in Int /\ Ulp(x) \in Nat \ {0} /\ Ulp(y) \in Nat /\ Ulp(x) =< Ulp(y)
               /\ 2 * (y - x) =< Ulp(x) /\ 2 * (x - y) =< Ulp(x)
               /\ Ulp(x) = 1 => y = x
<1> DEFINE n == Abs(x)
           m == Rounded(n)
           y == EncodeFloat(x)
<1>1. n \in Nat /\ (x < 0 => x = -n) /\ (~(x < 0) => x = n)
  BY DEF Abs
<1>2. y = IF x < 0 THEN -m ELSE m
  BY Zenon DEF EncodeFloat, Rounded, Ulp
<1>3. Ulp(x) = Spacing[n]
  BY DEF Ulp
<1> HIDE DEF n, m
<1>4. /\ m \in Nat /\ Spacing[n] \in Nat \ {0} /\ Spacing[m] \in Nat /\ Spacing[n] =< Spacing[m]
      /\ 2 * (m - n) =< Spacing[n] /\ 2 * (n - m) =< Spacing[n] /\ (Spacing[n] = 1 => m = n)
  BY <1>1, RoundedFacts DEF m
<1> HIDE DEF y
<1>5. y \in Int /\ Abs(y) = m
  BY <1>2, <1>4 DEF Abs
<1>6. Ulp(y) = Spacing[m]
  BY <1>5 DEF Ulp
<1>7. 2 * (y - x) =< Spacing[n] /\ 2 * (x - y) =< Spacing[n] /\ (Spacing[n] = 1 => y = x)
  BY <1>1, <1>2, <1>4
<1> QED
  BY <1>3, <1>4, <1>5, <1>6, <1>7 DEF y

(***************************************************************************)
(* The triangle inequality, on squares.                                    *)
(***************************************************************************)
LEMMA Triangle ==
    ASSUME NEW u \in Vector, NEW v \in Vector, NEW w \in Vector, NEW r \in Nat, NEW s \in Nat,
           Within(v, w, s)
    PROVE  /\ Within(u, v, r) => Within(u, w, r + s)
           /\ Distance2(u, v) < r * r => Distance2(u, w) < (r + s) * (r + s)
<1> DEFINE a == v.x - u.x
           b == v.y - u.y
           c == w.x - v.x
           d == w.y - v.y
           P == a * a + b * b
           R == c * c + d * d
           g == a * c + b * d
           k == a * d - b * c
<1>1. u.x \in Int /\ u.y \in Int /\ v.x \in Int /\ v.y \in Int /\ w.x \in Int /\ w.y \in Int
  BY DEF Vector
<1>2. /\ Distance2(u, v) = P /\ Distance2(v, w) = R
      /\ Distance2(u, w) = (w.x - u.x) * (w.x - u.x) + (w.y - u.y) * (w.y - u.y)
  BY DEF Distance2, Dot, From
<1>3. a \in Int /\ b \in Int /\ c \in Int /\ d \in Int
  BY <1>1
<1>4. w.x - u.x = a + c /\ w.y - u.y = b + d
  BY <1>1
<1> HIDE DEF a, b, c, d
<1>5. Distance2(u, w) = P + R + 2 * g
  <2>1. /\ (a + c) * (a + c) = a * a + 2 * (a * c) + c * c
        /\ (b + d) * (b + d) = b * b + 2 * (b * d) + d * d
    BY <1>3
  <2>2. /\ a * a \in Int /\ a * c \in Int /\ c * c \in Int
        /\ b * b \in Int /\ b * d \in Int /\ d * d \in Int
    BY <1>3
  <2> QED
    BY <1>2, <1>4, <2>1, <2>2
<1>6. P \in Nat /\ R \in Nat /\ g \in Int /\ k \in Int
  <2>1. a * a \in Nat /\ b * b \in Nat /\ c * c \in Nat /\ d * d \in Nat
    BY <1>3
  <2> QED
    BY <1>3, <2>1
<1>7. g * g + k * k = P * R
  BY <1>3
<1> HIDE DEF P, R, g, k
<1>8. R =< s * s
  BY <1>2 DEF Within
<1>9. P =< r * r => g =< r * s
  <2> SUFFICES ASSUME P =< r * r, g >= r * s + 1 PROVE FALSE
    BY <1>6
  <2>1. r * s \in Nat /\ r * s + 1 \in Nat
    OBVIOUS
  <2>2. g * g >= (r * s + 1) * (r * s + 1)
    BY <1>6, <2>1, SquaresCompare
  <2>3. (r * s + 1) * (r * s + 1) > (r * s) * (r * s)
    BY <2>1
  <2>4. P * R =< (r * r) * (s * s)
    <3>1. r * r \in Nat /\ s * s \in Nat
      OBVIOUS
    <3>2. P * R =< (r * r) * R /\ (r * r) * R =< (r * r) * (s * s)
      BY <1>6, <1>8, <3>1
    <3> QED
      BY <1>6, <3>1, <3>2
  <2>5. (r * r) * (s * s) = (r * s) * (r * s)
    OBVIOUS
  <2>6. k * k >= 0 /\ k * k \in Int /\ g * g \in Int /\ P * R \in Int /\ (r * s) * (r * s) \in Int
    BY <1>6, <2>1
  <2>7. (r * s + 1) * (r * s + 1) \in Int
    BY <2>1
  <2> QED
    BY <1>7, <2>2, <2>3, <2>4, <2>5, <2>6, <2>7
<1>10. (r + s) * (r + s) = r * r + s * s + 2 * (r * s)
  OBVIOUS
<1>11. r * r \in Int /\ s * s \in Int /\ r * s \in Int
  OBVIOUS
<1>12. P =< r * r => P + R + 2 * g =< (r + s) * (r + s)
  BY <1>6, <1>8, <1>9, <1>10, <1>11
<1>13. P < r * r => P + R + 2 * g < (r + s) * (r + s)
  BY <1>6, <1>8, <1>9, <1>10, <1>11
<1> QED
  BY <1>2, <1>5, <1>12, <1>13 DEF Within

(***************************************************************************)
(* Distances do not depend on the direction they are taken in.             *)
(***************************************************************************)
LEMMA BothWays ==
    ASSUME NEW u \in Vector, NEW v \in Vector
    PROVE  Distance2(u, v) = Distance2(v, u) /\ Distance2(u, v) \in Nat
<1>1. u.x \in Int /\ u.y \in Int /\ v.x \in Int /\ v.y \in Int
  BY DEF Vector
<1>2. /\ Distance2(u, v) = (v.x - u.x) * (v.x - u.x) + (v.y - u.y) * (v.y - u.y)
      /\ Distance2(v, u) = (u.x - v.x) * (u.x - v.x) + (u.y - v.y) * (u.y - v.y)
  BY DEF Distance2, Dot, From
<1>3. ASSUME NEW m \in Int, NEW n \in Int
      PROVE  (m - n) * (m - n) = (n - m) * (n - m) /\ (m - n) * (m - n) \in Nat
  OBVIOUS
<1> QED
  BY <1>1, <1>2, <1>3

(***************************************************************************)
(* A vector is rounded by no more than Rounding tells, of the vector or of *)
(* what became of it.                                                      *)
(***************************************************************************)
LEMMA VectorRounding ==
    ASSUME NEW u \in Vector
    PROVE  /\ Narrowed(u) \in Vector /\ Rounding(u) \in Nat /\ Rounding(Narrowed(u)) \in Nat
           /\ Within(Narrowed(u), u, Rounding(u)) /\ Within(Narrowed(u), u, Rounding(Narrowed(u)))
<1> DEFINE x == EncodeFloat(u.x)
           y == EncodeFloat(u.y)
           w == Narrowed(u)
<1>1. u.x \in Int /\ u.y \in Int
  BY DEF Vector
<1>2. /\ x \in Int /\ Ulp(u.x) \in Nat \ {0} /\ Ulp(x) \in Nat /\ Ulp(u.x) =< Ulp(x)
      /\ 2 * (x - u.x) =< Ulp(u.x) /\ 2 * (u.x - x) =< Ulp(u.x)
      /\ Ulp(u.x) = 1 => x = u.x
  BY <1>1, RoundingError
<1>3. /\ y \in Int /\ Ulp(u.y) \in Nat \ {0} /\ Ulp(y) \in Nat /\ Ulp(u.y) =< Ulp(y)
      /\ 2 * (y - u.y) =< Ulp(u.y) /\ 2 * (u.y - y) =< Ulp(u.y)
      /\ Ulp(u.y) = 1 => y = u.y
  BY <1>1, RoundingError
<1>4. w.x = x /\ w.y = y /\ w \in Vector
  BY <1>2, <1>3 DEF Narrowed, Vector
<1> HIDE DEF x, y, w
<1>5. Distance2(w, u) = (u.x - x) * (u.x - x) + (u.y - y) * (u.y - y)
  BY <1>4 DEF Distance2, Dot, From
<1>6. ASSUME NEW m \in Nat, NEW n \in Nat, Ulp(u.x) =< m, Ulp(u.y) =< n
      PROVE  LET ulp == Larger(m, n)
                 r == IF ulp = 1 THEN 0 ELSE ulp
             IN  r \in Nat /\ Within(w, u, r)
  <2> DEFINE ulp == Larger(m, n)
             r == IF ulp = 1 THEN 0 ELSE ulp
             e == u.x - x
             f == u.y - y
  <2>1. ulp \in Nat /\ Ulp(u.x) =< ulp /\ Ulp(u.y) =< ulp
    BY <1>2, <1>3, <1>6 DEF Larger
  <2>2. e \in Int /\ f \in Int
    BY <1>1, <1>2, <1>3
  <2>3. 2 * e =< ulp /\ 2 * (-e) =< ulp /\ 2 * f =< ulp /\ 2 * (-f) =< ulp
    BY <1>1, <1>2, <1>3, <2>1
  <2> HIDE DEF ulp
  <2>4. CASE ulp = 1
    <3>1. e = 0 /\ f = 0
      BY <2>2, <2>3, <2>4
    <3> HIDE DEF e, f
    <3>2. e * e + f * f =< r * r
      BY <2>4, <3>1
    <3> QED
      BY <1>5, <2>4, <3>2 DEF Within, e, f, ulp
  <2>5. CASE ulp # 1
    <3>1. (2 * e) * (2 * e) =< ulp * ulp /\ (2 * f) * (2 * f) =< ulp * ulp
      <4>1. -ulp =< 2 * e /\ -ulp =< 2 * f /\ 2 * e \in Int /\ 2 * f \in Int
        BY <2>1, <2>2, <2>3
      <4> QED
        BY <2>1, <2>3, <4>1, SquaresCompare
    <3> HIDE DEF e, f
    <3>2. /\ (2 * e) * (2 * e) = 4 * (e * e) /\ (2 * f) * (2 * f) = 4 * (f * f)
          /\ e * e \in Nat /\ f * f \in Nat /\ ulp * ulp \in Nat
      BY <2>1, <2>2
    <3>3. e * e + f * f =< ulp * ulp
      BY <3>1, <3>2
    <3> QED
      BY <1>5, <2>1, <2>5, <3>3 DEF Within, e, f, ulp
  <2> QED
    BY <2>4, <2>5
<1>7. Rounding(u) \in Nat /\ Within(w, u, Rounding(u))
  BY <1>2, <1>3, <1>6 DEF Rounding
<1>8. Rounding(w) \in Nat /\ Within(w, u, Rounding(w))
  BY <1>2, <1>3, <1>4, <1>6 DEF Rounding
<1> QED
  BY <1>4, <1>7, <1>8 DEF w

(***************************************************************************)
(* Nobody goes farther than the speed says; and of two that start some way *)
(* apart and move at the same velocity, one stays as far from the other.   *)
(***************************************************************************)
LEMMA MovingWithin ==
    ASSUME NEW u \in Vector, NEW v \in Vector, NEW t \in Nat
    PROVE  /\ Speed(v) \in Nat
           /\ Within(Extrapolated(u, v, t), u, Speed(v) * t)
           /\ Within(u, Extrapolated(u, v, t), Speed(v) * t)
           /\ \A w \in Vector :
                 Distance2(Extrapolated(u, v, t), Extrapolated(w, v, t)) = Distance2(u, w)
<1>1. u.x \in Int /\ u.y \in Int /\ v.x \in Int /\ v.y \in Int
  BY DEF Vector
<1> DEFINE a == Abs(v.x)
           b == Abs(v.y)
           p == Extrapolated(u, v, t)
<1>2. /\ a \in Nat /\ b \in Nat /\ a * a = v.x * v.x /\ b * b = v.y * v.y
  BY <1>1 DEF Abs
<1> HIDE DEF a, b
<1>3. Speed(v) = a + b /\ Speed(v) \in Nat
  BY <1>2 DEF Speed, a, b
<1>4. p \in Vector /\ p.x = u.x + v.x * t /\ p.y = u.y + v.y * t
  BY <1>1, StraightLines DEF Extrapolated
<1> HIDE DEF p
<1>5. Distance2(u, p) = (v.x * t) * (v.x * t) + (v.y * t) * (v.y * t)
  <2>1. v.x * t \in Int /\ v.y * t \in Int
    BY <1>1
  <2>2. p.x - u.x = v.x * t /\ p.y - u.y = v.y * t
    BY <1>1, <1>4, <2>1
  <2> QED
    BY <2>2 DEF Distance2, Dot, From
<1>6. Within(u, p, Speed(v) * t)
  <2>1. (v.x * t) * (v.x * t) = (a * a) * (t * t) /\ (v.y * t) * (v.y * t) = (b * b) * (t * t)
    <3>1. ASSUME NEW m \in Int PROVE (m * t) * (m * t) = (m * m) * (t * t)
      OBVIOUS
    <3> QED
      BY <1>1, <1>2, <3>1
  <2>2. ((a + b) * t) * ((a + b) * t) = (a * a) * (t * t) + (b * b) * (t * t)
                                        + 2 * ((a * b) * (t * t))
    BY <1>2
  <2>3. a * b \in Nat /\ t * t \in Nat /\ a * a \in Nat /\ b * b \in Nat
    BY <1>2
  <2>4. (a * b) * (t * t) \in Nat /\ (a * a) * (t * t) \in Nat /\ (b * b) * (t * t) \in Nat
    BY <2>3
  <2> QED
    BY <1>3, <1>5, <2>1, <2>2, <2>4 DEF Within
<1>7. Within(p, u, Speed(v) * t)
  BY <1>4, <1>6, BothWays DEF Within
<1>8. ASSUME NEW w \in Vector
      PROVE  Distance2(p, Extrapolated(w, v, t)) = Distance2(u, w)
  <2> DEFINE q == Extrapolated(w, v, t)
  <2>1. w.x \in Int /\ w.y \in Int
    BY DEF Vector
  <2>2. q.x = w.x + v.x * t /\ q.y = w.y + v.y * t
    BY DEF Extrapolated
  <2> HIDE DEF q
  <2>3. v.x * t \in Int /\ v.y * t \in Int
    BY <1>1
  <2>4. q.x - p.x = w.x - u.x /\ q.y - p.y = w.y - u.y
    BY <1>1, <1>4, <2>1, <2>2, <2>3
  <2> QED
    BY <2>4 DEF Distance2, Dot, From, q
<1> QED
  BY <1>3, <1>6, <1>7, <1>8 DEF p

(***************************************************************************)
(* Two who start at one place at velocities that differ by some vector are *)
(* apart by that vector for every instant.                                 *)
(***************************************************************************)
LEMMA Parting ==
    ASSUME NEW u \in Vector, NEW v \in Vector, NEW w \in Vector, NEW r \in Nat, NEW t \in Nat,
           Within(v, w, r)
    PROVE  Within(Extrapolated(u, v, t), Extrapolated(u, w, t), r * t)
<1>1. /\ u.x \in Int /\ u.y \in Int /\ v.x \in Int /\ v.y \in Int /\ w.x \in Int /\ w.y \in Int
  BY DEF Vector
<1> DEFINE a == w.x - v.x
           b == w.y - v.y
<1>2. Distance2(v, w) = a * a + b * b
  BY DEF Distance2, Dot, From
<1>3. a \in Int /\ b \in Int
  BY <1>1
<1>4. ASSUME NEW k \in Int, NEW m \in Int, NEW n \in Int
      PROVE  (k + n * t) - (k + m * t) = (n - m) * t
  OBVIOUS
<1>5. /\ (u.x + w.x * t) - (u.x + v.x * t) = a * t
      /\ (u.y + w.y * t) - (u.y + v.y * t) = b * t
  BY <1>1, <1>4
<1>6. Distance2(Extrapolated(u, v, t), Extrapolated(u, w, t)) = (a * t) * (a * t) + (b * t) * (b * t)
  BY <1>5 DEF Distance2, Dot, From, Extrapolated
<1> HIDE DEF a, b
<1>7. (a * t) * (a * t) = (a * a) * (t * t) /\ (b * t) * (b * t) = (b * b) * (t * t)
  <2>1. ASSUME NEW m \in Int PROVE (m * t) * (m * t) = (m * m) * (t * t)
    OBVIOUS
  <2> QED
    BY <1>3, <2>1
<1>8. (a * a) * (t * t) + (b * b) * (t * t) = (a * a + b * b) * (t * t)
  <2>1. a * a \in Int /\ b * b \in Int /\ t * t \in Int
    BY <1>3
  <2>2. ASSUME NEW k \in Int, NEW m \in Int, NEW n \in Int PROVE k * n + m * n = (k + m) * n
    OBVIOUS
  <2> QED
    BY <2>1, <2>2
<1>9. (a * a + b * b) * (t * t) =< (r * r) * (t * t)
  <2>1. a * a + b * b =< r * r
    BY <1>2 DEF Within
  <2>2. a * a + b * b \in Int /\ r * r \in Int /\ t * t \in Nat
    BY <1>3
  <2>3. ASSUME NEW k \in Int, NEW m \in Int, NEW n \in Nat, k =< m PROVE k * n =< m * n
    BY <2>3
  <2> QED
    BY <2>1, <2>2, <2>3
<1>10. (r * r) * (t * t) = (r * t) * (r * t)
  OBVIOUS
<1> QED
  BY <1>6, <1>7, <1>8, <1>9, <1>10 DEF Within

-----------------------------------------------------------------------------
(* Where the peer is said to be, and where it is.                          *)

\* Where the peer was at time t, if it has not turned since, and the observer.
Course(t) == Extrapolated(pos, vel, t - now)
MyCourse(t) == Extrapolated(MyStart, MyVelocity, t - StartTime)

\* Position p was told at time t.
Told(t, p) == turned =< t => p = Narrowed(Course(t))

HellosOnCourse ==
    \A f \in net : f.kind = HELLO =>
        f.body.timestamp =< now /\ Told(f.body.timestamp, f.body.sourcePosition)

\* When the motion the zone entry was made with crosses the sphere.
EntryLife ==
    ComputeLifetime(From(zone[Peer].lastHopPosition, zone[Peer].position),
                    From(MyVelocity, zone[Peer].velocity), EntryRadius(Peer))

EntryOnCourse ==
    OfHello(Peer) =>
        /\ zone[Peer].timestamp =< heard /\ heard =< now
        /\ Told(zone[Peer].timestamp, zone[Peer].position)
        /\ zone[Peer].lastHopPosition = MyCourse(heard)
        /\ EntryLife = {} \/ zone[Peer].expiry - heard \in EntryLife

GlobalsMarked == \A p \in DOMAIN global : global[p].ofUpdate

CourseInv == TypeInv /\ turned =< now /\ HellosOnCourse /\ EntryOnCourse /\ GlobalsMarked

(***************************************************************************)
(* Nothing was told at the start.                                          *)
(***************************************************************************)
LEMMA CourseInit == Init => CourseInv
<1> SUFFICES ASSUME Init PROVE CourseInv
  OBVIOUS
<1>1. TypeInv
  BY TypeInit
<1>2. turned =< now /\ net = {} /\ DOMAIN zone = {} /\ DOMAIN global = {}
  BY DEF Init, StartTime
<1> QED
  BY <1>1, <1>2 DEF CourseInv, HellosOnCourse, EntryOnCourse, OfHello, GlobalsMarked

(***************************************************************************)
(* What is said in a HELLO under way is what was said in the one sent.     *)
(***************************************************************************)
LEMMA SaidInHello ==
    ASSUME NEW ttl, NEW h, NEW delay
    PROVE  LET f == Sent(HELLO, ttl, h, delay)
           IN  /\ f.kind = HELLO /\ f.body.timestamp = h.timestamp
               /\ f.body.sourcePosition = Narrowed(h.sourcePosition)
<1> DEFINE body == [sourcePosition |-> Narrowed(h.sourcePosition),
                    sourceVelocity |-> Narrowed(h.sourceVelocity),
                    originator |-> h.originator,
                    lastHopPosition |-> Narrowed(h.lastHopPosition),
                    averageHopDistance |-> EncodeFloat(h.averageHopDistance),
                    hopCount |-> h.hopCount % 256,
                    timestamp |-> h.timestamp]
<1>1. Sent(HELLO, ttl, h, delay) = [kind |-> HELLO, ttl |-> ttl % 256, body |-> body,
                                    due |-> now + delay]
  BY HelloReceived DEF Sent
<1>2. body.timestamp = h.timestamp /\ body.sourcePosition = Narrowed(h.sourcePosition)
  OBVIOUS
<1> HIDE DEF body
<1> QED
  BY <1>1, <1>2

(***************************************************************************)
(* As long as the peer does not turn, what was told of it stays true of    *)
(* its course, and what is told anew is; a turn leaves it where it is.     *)
(***************************************************************************)
LEMMA CourseStep == CourseInv /\ [Next]_vars => CourseInv'
<1> SUFFICES ASSUME CourseInv, [Next]_vars PROVE CourseInv'
  OBVIOUS
<1>0. /\ TypeInv /\ TypeOK /\ now \in Nat /\ turned \in Nat /\ turned =< now
      /\ pos \in Vector /\ vel \in Vector /\ HellosOnCourse /\ EntryOnCourse
      /\ net \subseteq HellosUnderWay \union UpdatesUnderWay /\ TypeInv'
      /\ heard \in Nat /\ GlobalsMarked /\ IsTable(global)
  BY TypeStep, TrackingAssumption DEF CourseInv, TypeInv, TypeOK
<1>a. \A f \in net : f.kind = HELLO => f.body \in HelloOf(SettledVectors, SettledNumbers)
  BY <1>0 DEF HellosUnderWay, UpdatesUnderWay, HELLO, GLOBAL_UPDATE
<1>b. now - StartTime \in Int /\ MyPosition = Extrapolated(MyStart, MyVelocity, now - StartTime)
  BY <1>0 DEF MyPosition, StartTime
<1>c. MyPosition \in Vector
  BY <1>b, StraightLines, TrackingAssumption
<1>d. GlobalsMarked'
  <2>1. CASE UNCHANGED global
    BY <1>0, <2>1 DEF GlobalsMarked
  <2>2. CASE global' = Purge(global, now)
    BY <1>0, <2>2 DEF GlobalsMarked, Purge
  <2>3. ASSUME NEW f, global' = AddOrUpdate(global, Peer, GlobalEntry(f.body))
        PROVE  GlobalsMarked'
    <3>1. GlobalEntry(f.body).ofUpdate = TRUE
      BY DEF GlobalEntry
    <3> QED
      BY <1>0, <2>3, <3>1 DEF GlobalsMarked, AddOrUpdate
  <2>4. \/ UNCHANGED global \/ global' = Purge(global, now)
        \/ \E f : global' = AddOrUpdate(global, Peer, GlobalEntry(f.body))
    BY DEF Next, vars, observer, SendHello, MaybeSendGlobalUpdate, RecvControl, ProcessHello,
           ProcessGlobalUpdate, Relay, Lose, PerformMaintenance, RouteOutput, Turn, Tick
  <2> QED
    BY <2>1, <2>2, <2>3, <2>4
<1>e. ASSUME now' \in Nat, now =< now', turned' =< now', UNCHANGED <<net, zone, heard>>,
             \A t \in Nat : \A p : t =< now /\ Told(t, p) => Told(t, p)'
      PROVE  CourseInv'
  <2>1. HellosOnCourse'
    <3> SUFFICES ASSUME NEW f \in net, f.kind = HELLO
                 PROVE  f.body.timestamp =< now' /\ Told(f.body.timestamp, f.body.sourcePosition)'
      BY <1>e DEF HellosOnCourse
    <3>1. /\ f.body.timestamp \in Nat /\ f.body.timestamp =< now
          /\ Told(f.body.timestamp, f.body.sourcePosition)
      BY <1>0, <1>a DEF HellosOnCourse, HelloOf
    <3> QED
      BY <1>0, <1>e, <3>1
  <2>2. EntryOnCourse'
    <3> SUFFICES ASSUME OfHello(Peer) PROVE EntryOnCourse'
      BY <1>e DEF EntryOnCourse, OfHello
    <3>1. PICK e : e = zone[Peer]
      OBVIOUS
    <3>2. PICK life : life = EntryLife
      OBVIOUS
    <3>3. zone'[Peer] = e /\ EntryLife' = life
      BY <1>e, <3>1, <3>2 DEF EntryLife, EntryRadius
    <3>4. /\ e.timestamp =< heard /\ heard =< now /\ Told(e.timestamp, e.position)
          /\ e.lastHopPosition = MyCourse(heard)
          /\ life = {} \/ e.expiry - heard \in life
      BY <1>0, <3>1, <3>2 DEF EntryOnCourse
    <3>5. e.timestamp \in Nat
      BY <1>0, <3>1 DEF TypeOK, IsTable, Track, OfHello
    <3>6. Told(e.timestamp, e.position)'
      BY <1>0, <1>e, <3>4, <3>5
    <3>7. heard =< now'
      BY <1>0, <1>e, <3>4
    <3> QED
      BY <1>e, <3>3, <3>4, <3>6, <3>7 DEF EntryOnCourse, MyCourse
  <2> QED
    BY <1>0, <1>d, <1>e, <2>1, <2>2 DEF CourseInv
<1>1. ASSUME UNCHANGED <<now, pos, vel, turned>>, HellosOnCourse', EntryOnCourse'
      PROVE  CourseInv'
  BY <1>0, <1>d, <1>1 DEF CourseInv
<1>2. ASSUME UNCHANGED <<now, pos, vel, turned>>, net' \subseteq net PROVE HellosOnCourse'
  BY <1>0, <1>2 DEF HellosOnCourse, Told, Course
<1>3. ASSUME UNCHANGED <<now, pos, vel, turned, zone, heard>> PROVE EntryOnCourse'
  BY <1>0, <1>3 DEF EntryOnCourse, EntryLife, EntryRadius, OfHello, Told, Course
<1>4. ASSUME UNCHANGED <<now, pos, vel, turned>>, NEW g, net' \subseteq net \union {g},
             g.kind = HELLO => g.body.timestamp =< now /\ Told(g.body.timestamp, g.body.sourcePosition)
      PROVE  HellosOnCourse'
  BY <1>0, <1>4 DEF HellosOnCourse, Told, Course
<1> USE DEF sender, observer, motion
<1>5. CASE SendHello
  <2>1. PICK d \in Delays : net' = net \union {Sent(HELLO, Ttl, HelloBody, d)}
    BY <1>5 DEF SendHello, Send
  <2>2. Narrowed(pos) = Narrowed(Course(now))
    <3>1. Course(now) = pos
      <4>1. pos = [x |-> pos.x, y |-> pos.y] /\ pos.x \in Int /\ pos.y \in Int
            /\ vel.x \in Int /\ vel.y \in Int
        BY <1>0 DEF Vector
      <4>2. pos.x + vel.x * (now - now) = pos.x /\ pos.y + vel.y * (now - now) = pos.y
        BY <1>0, <4>1
      <4> QED
        BY <4>1, <4>2 DEF Course, Extrapolated
    <3> QED
      BY <3>1
  <2>3. HelloBody.timestamp = now /\ HelloBody.sourcePosition = pos
    BY DEF HelloBody
  <2> DEFINE g == Sent(HELLO, Ttl, HelloBody, d)
  <2>4. g.body.timestamp = now /\ g.body.sourcePosition = Narrowed(pos)
    BY <2>3, SaidInHello
  <2> HIDE DEF g
  <2>5. g.body.timestamp =< now /\ Told(g.body.timestamp, g.body.sourcePosition)
    BY <1>0, <2>2, <2>4 DEF Told
  <2>6. UNCHANGED <<now, pos, vel, turned, zone, heard>>
    BY <1>5 DEF SendHello
  <2> QED
    BY <1>1, <1>3, <1>4, <2>1, <2>5, <2>6 DEF g
<1>6. CASE MaybeSendGlobalUpdate
  <2>1. UNCHANGED <<now, pos, vel, turned, zone, heard>>
    BY <1>6 DEF MaybeSendGlobalUpdate
  <2>2. \/ UNCHANGED net
        \/ \E d \in Delays : net' = net \union {Sent(GLOBAL_UPDATE, Ttl, GlobalUpdateBody, d)}
    BY <1>6 DEF MaybeSendGlobalUpdate, Send
  <2>3. \A d : Sent(GLOBAL_UPDATE, Ttl, GlobalUpdateBody, d).kind # HELLO
    BY SentKind DEF HELLO, GLOBAL_UPDATE
  <2>4. HellosOnCourse'
    <3>1. CASE UNCHANGED net
      BY <1>2, <2>1, <3>1
    <3>2. CASE \E d \in Delays :
                  net' = net \union {Sent(GLOBAL_UPDATE, Ttl, GlobalUpdateBody, d)}
      BY <1>4, <2>1, <2>3, <3>2
    <3> QED
      BY <2>2, <3>1, <3>2
  <2> QED
    BY <1>1, <1>3, <2>1, <2>4
<1>7. ASSUME NEW f \in net, ProcessHello(f) PROVE CourseInv'
  <2> DEFINE h == f.body
             Lifetime(avgHd) == ComputeLifetime(From(MyPosition, h.sourcePosition),
                                                From(MyVelocity, h.sourceVelocity),
                                                Threshold(avgHd))
             Expiry(avgHd) == IF Lifetime(avgHd) = {} THEN now + 3 * HelloInterval
                              ELSE now + CHOOSE t \in Lifetime(avgHd) : TRUE
             Heard(avgHd) == [position |-> h.sourcePosition, velocity |-> h.sourceVelocity,
                              timestamp |-> h.timestamp, expiry |-> Expiry(avgHd),
                              averageHopDistance |-> avgHd, lastHopPosition |-> MyPosition,
                              ofUpdate |-> FALSE]
  <2>1. PICK avgHd \in AverageHopDistances(h) : zone' = AddOrUpdate(zone, Peer, Heard(avgHd))
    BY <1>7, Zenon DEF ProcessHello
  <2>2. /\ heard' = now /\ net' = net \ {f} /\ f.kind = HELLO
        /\ UNCHANGED <<now, pos, vel, turned>>
    BY <1>7 DEF ProcessHello
  <2>3. zone'[Peer] = Heard(avgHd)
    BY <2>1 DEF AddOrUpdate
  <2> DEFINE x == Expiry(avgHd)
             L == Lifetime(avgHd)
  <2>4. L = {} \/ x - now \in L
    <3> SUFFICES ASSUME L # {} PROVE x - now \in L
      OBVIOUS
    <3>1. (CHOOSE t \in L : TRUE) \in L
      OBVIOUS
    <3>2. L \subseteq Nat
      <4>1. /\ MyPosition \in Vector /\ h.sourcePosition \in Vector
            /\ h.sourceVelocity \in Vector /\ h.averageHopDistance \in Nat
        BY <1>a, <1>c, <2>2 DEF HelloOf, SettledVectors, SettledNumbers
      <4>2. Threshold(avgHd) \in Nat
        <5>1. avgHd \in Nat /\ ZoneRadiusMid \in Nat
          BY <2>1, <4>1, TrackingAssumption DEF AverageHopDistances
        <5> QED
          BY <5>1 DEF Threshold
      <4>3. /\ From(MyPosition, h.sourcePosition) \in Vector
            /\ From(MyVelocity, h.sourceVelocity) \in Vector
        BY <4>1, StraightLines, TrackingAssumption
      <4> QED
        BY <4>2, <4>3, LifetimeEndsAtCrossing
    <3> HIDE DEF L, Lifetime
    <3>3. x = now + CHOOSE t \in L : TRUE
      BY DEF L
    <3> DEFINE t == CHOOSE u \in L : TRUE
    <3>4. t \in L /\ t \in Nat /\ x = now + t
      BY <3>1, <3>2, <3>3
    <3> HIDE DEF t, x
    <3>5. x - now = t
      BY <1>0, <3>4
    <3> QED
      BY <3>4, <3>5
  <2> HIDE DEF x, L
  <2>5. /\ zone'[Peer].position = h.sourcePosition /\ zone'[Peer].velocity = h.sourceVelocity
        /\ zone'[Peer].timestamp = h.timestamp /\ zone'[Peer].expiry = x
        /\ zone'[Peer].averageHopDistance = avgHd /\ zone'[Peer].lastHopPosition = MyPosition
    BY <2>3 DEF x
  <2>6. EntryLife' = L
    BY <2>5 DEF EntryLife, EntryRadius, L
  <2>7. h.timestamp =< now /\ Told(h.timestamp, h.sourcePosition)
    BY <1>0, <2>2 DEF HellosOnCourse
  <2>8. EntryOnCourse'
    BY <1>0, <2>2, <2>4, <2>5, <2>6, <2>7
       DEF EntryOnCourse, Told, Course, MyCourse, MyPosition
  <2> QED
    BY <1>1, <1>2, <2>2, <2>8
<1>8. ASSUME NEW f \in net, ProcessGlobalUpdate(f) PROVE CourseInv'
  <2>1. UNCHANGED <<now, pos, vel, turned, zone, heard>> /\ net' = net \ {f}
    BY <1>8 DEF ProcessGlobalUpdate
  <2> QED
    BY <1>1, <1>2, <1>3, <2>1
<1>9. ASSUME NEW f \in net, Relay(f) PROVE CourseInv'
  <2>1. PICK d \in Delays, body \in Forwarded(f) :
           net' = (net \ {f}) \union {Sent(f.kind, f.ttl - 1, body, d)}
    BY <1>9 DEF Relay
  <2>2. UNCHANGED <<now, pos, vel, turned, zone, heard>>
    BY <1>9 DEF Relay
  <2> DEFINE g == Sent(f.kind, f.ttl - 1, body, d)
  <2>3. g.kind = HELLO => g.body.timestamp =< now /\ Told(g.body.timestamp, g.body.sourcePosition)
    <3>1. CASE f.kind = HELLO
      <4>1. f.body \in HelloOf(SettledVectors, SettledNumbers)
        BY <1>a, <3>1
      <4>2. PICK avgHd \in AverageHopDistances(f.body) :
               body = [f.body EXCEPT !.hopCount = @ + 1, !.averageHopDistance = avgHd,
                                     !.lastHopPosition = RelayPosition]
        BY <2>1, <3>1 DEF Forwarded
      <4>3. body.sourcePosition = f.body.sourcePosition /\ body.timestamp = f.body.timestamp
        BY <4>1, <4>2 DEF HelloOf
      <4>4. Narrowed(f.body.sourcePosition) = f.body.sourcePosition
        BY <4>1 DEF HelloOf, SettledVectors
      <4>5. g.body.timestamp = f.body.timestamp /\ g.body.sourcePosition = f.body.sourcePosition
        BY <3>1, <4>3, <4>4, SaidInHello
      <4> HIDE DEF g
      <4> QED
        BY <1>0, <3>1, <4>5 DEF HellosOnCourse
    <3>2. CASE f.kind # HELLO
      <4>1. f.kind = GLOBAL_UPDATE
        BY <1>0, <3>2 DEF HellosUnderWay, UpdatesUnderWay
      <4>2. g.kind = GLOBAL_UPDATE
        BY <4>1, SentKind
      <4> HIDE DEF g
      <4> QED
        BY <4>2 DEF HELLO, GLOBAL_UPDATE
    <3> QED
      BY <3>1, <3>2
  <2>4. net' \subseteq net \union {g}
    BY <2>1
  <2> HIDE DEF g
  <2> QED
    BY <1>1, <1>3, <1>4, <2>2, <2>3, <2>4
<1>10. ASSUME NEW f \in net, Lose(f) PROVE CourseInv'
  <2>1. UNCHANGED <<now, pos, vel, turned, zone, heard>> /\ net' = net \ {f}
    BY <1>10 DEF Lose
  <2> QED
    BY <1>1, <1>2, <1>3, <2>1
<1>11. CASE PerformMaintenance
  <2>1. zone' = Purge(zone, now) /\ UNCHANGED <<now, pos, vel, turned, net, heard>>
    BY <1>11 DEF PerformMaintenance
  <2>2. Peer \in DOMAIN zone' => Peer \in DOMAIN zone /\ zone'[Peer] = zone[Peer]
    BY <2>1 DEF Purge
  <2>3. EntryOnCourse'
    BY <1>0, <2>1, <2>2 DEF EntryOnCourse, EntryLife, EntryRadius, OfHello, Told, Course
  <2> QED
    BY <1>1, <1>2, <2>1, <2>3
<1>12. CASE RouteOutput
  <2>1. /\ DOMAIN global # {} /\ zone' = AddOrUpdate(zone, Peer, global[Peer])
        /\ UNCHANGED <<now, pos, vel, turned, net, heard>>
    BY <1>12 DEF RouteOutput, ZoneCopy
  <2>2. zone'[Peer].ofUpdate
    BY <1>0, <2>1 DEF IsTable, GlobalsMarked, AddOrUpdate
  <2>3. EntryOnCourse'
    BY <2>2 DEF EntryOnCourse, OfHello
  <2> QED
    BY <1>1, <1>2, <2>1, <2>3
<1>13. CASE Turn
  <2>1. turned' = now /\ UNCHANGED <<now, pos, net, zone, heard>>
    BY <1>13 DEF Turn
  <2>2. vel' \in Vector
    BY <1>0, TrackingAssumption DEF TypeInv, TypeOK
  \* What was told at this time is where the peer is, whatever its velocity.
  <2>3. ASSUME NEW t, NEW p, t =< now, t \in Nat, Told(t, p)
        PROVE  Told(t, p)'
    <3> SUFFICES ASSUME now =< t PROVE p = Narrowed(Extrapolated(pos, vel', t - now))
      BY <2>1 DEF Told, Course
    <3>1. t = now
      BY <1>0, <2>3
    <3>2. p = Narrowed(Extrapolated(pos, vel, now - now))
      BY <1>0, <2>3, <3>1 DEF Told, Course
    <3>3. Extrapolated(pos, vel, now - now) = Extrapolated(pos, vel', now - now)
      <4>1. /\ pos.x \in Int /\ pos.y \in Int /\ vel.x \in Int /\ vel.y \in Int
            /\ vel'.x \in Int /\ vel'.y \in Int
        BY <1>0, <2>2 DEF Vector
      <4>2. /\ pos.x + vel.x * (now - now) = pos.x + vel'.x * (now - now)
            /\ pos.y + vel.y * (now - now) = pos.y + vel'.y * (now - now)
        BY <1>0, <4>1
      <4> QED
        BY <4>2 DEF Extrapolated
    <3> QED
      BY <3>1, <3>2, <3>3
  <2> QED
    BY <1>0, <1>e, <2>1, <2>3
<1>14. CASE Tick
  <2>1. /\ now' = now + 1 /\ pos' = Extrapolated(pos, vel, 1)
        /\ UNCHANGED <<vel, turned, net, zone, heard>>
    BY <1>14 DEF Tick
  <2>2. ASSUME NEW t \in Nat PROVE Course(t)' = Course(t)
    <3>1. /\ pos.x \in Int /\ pos.y \in Int /\ vel.x \in Int /\ vel.y \in Int
      BY <1>0 DEF Vector
    <3>2. pos'.x = pos.x + vel.x /\ pos'.y = pos.y + vel.y
      BY <2>1, <3>1 DEF Extrapolated
    <3>3. ASSUME NEW m \in Int, NEW v \in Int
          PROVE  (m + v) + v * (t - (now + 1)) = m + v * (t - now)
      BY <1>0
    <3>4. /\ pos'.x + vel.x * (t - now') = pos.x + vel.x * (t - now)
          /\ pos'.y + vel.y * (t - now') = pos.y + vel.y * (t - now)
      BY <2>1, <3>1, <3>2, <3>3
    <3> QED
      BY <2>1, <3>4 DEF Course, Extrapolated
  <2>3. ASSUME NEW t \in Nat, NEW p, Told(t, p) PROVE Told(t, p)'
    BY <2>1, <2>2, <2>3 DEF Told
  <2> QED
    BY <1>0, <1>e, <2>1, <2>3
<1>15. CASE UNCHANGED vars
  <2>1. UNCHANGED <<now, pos, vel, turned, zone, heard, net>>
    BY <1>15 DEF vars
  <2> QED
    BY <1>1, <1>2, <1>3, <2>1
<1> QED
  BY <1>5, <1>6, <1>7, <1>8, <1>9, <1>10, <1>11, <1>12, <1>13, <1>14, <1>15 DEF Next, RecvControl

-----------------------------------------------------------------------------
(* What the zone entry is good for.                                        *)

(***************************************************************************)
(* Two moves at one velocity make one, and so does what two nodes' moves   *)
(* do to where the one sees the other.                                     *)
(***************************************************************************)
LEMMA Moves ==
    ASSUME NEW u \in Vector, NEW v \in Vector, NEW s \in Int, NEW t \in Int
    PROVE  /\ Extrapolated(Extrapolated(u, v, s), v, t) = Extrapolated(u, v, s + t)
           /\ Extrapolated(u, v, 0) = u
           /\ \A p, w \in Vector :
                 From(Extrapolated(u, v, t), Extrapolated(p, w, t)) =
                     Extrapolated(From(u, p), From(v, w), t)
<1>1. u.x \in Int /\ u.y \in Int /\ v.x \in Int /\ v.y \in Int /\ u = [x |-> u.x, y |-> u.y]
  BY DEF Vector
<1>2. ASSUME NEW m \in Int, NEW n \in Int
      PROVE  (m + n * s) + n * t = m + n * (s + t) /\ m + n * 0 = m
  OBVIOUS
<1>3. ASSUME NEW p \in Vector, NEW w \in Vector
      PROVE  From(Extrapolated(u, v, t), Extrapolated(p, w, t)) =
                 Extrapolated(From(u, p), From(v, w), t)
  <2>1. p.x \in Int /\ p.y \in Int /\ w.x \in Int /\ w.y \in Int
    BY DEF Vector
  <2>2. /\ (p.x + w.x * t) - (u.x + v.x * t) = (p.x - u.x) + (w.x - v.x) * t
        /\ (p.y + w.y * t) - (u.y + v.y * t) = (p.y - u.y) + (w.y - v.y) * t
    <3> DEFINE a == v.x
               b == v.y
               c == w.x
               d == w.y
    <3>1. a \in Int /\ b \in Int /\ c \in Int /\ d \in Int
      BY <1>1, <2>1
    <3> HIDE DEF a, b, c, d
    <3>2. /\ (c - a) * t = c * t - a * t /\ c * t \in Int /\ a * t \in Int
          /\ (d - b) * t = d * t - b * t /\ d * t \in Int /\ b * t \in Int
      BY <3>1
    <3>3. /\ (p.x + c * t) - (u.x + a * t) = (p.x - u.x) + (c - a) * t
          /\ (p.y + d * t) - (u.y + b * t) = (p.y - u.y) + (d - b) * t
      BY <1>1, <2>1, <3>2
    <3> QED
      BY <3>3 DEF a, b, c, d
  <2> QED
    BY <2>2 DEF From, Extrapolated
<1> QED
  BY <1>1, <1>2, <1>3 DEF Extrapolated

\* Where the observer takes the peer to be by its zone entry.
Estimate == Extrapolated(zone[Peer].position, zone[Peer].velocity, now - heard)
Offset == From(zone[Peer].lastHopPosition, zone[Peer].position)
Drift == From(MyVelocity, zone[Peer].velocity)

(***************************************************************************)
(* The estimate is off by no more than the slack, as long as the peer      *)
(* keeps its course; and ComputeLifetime was told how far it is away.      *)
(***************************************************************************)
LEMMA EstimateWithinSlack ==
    ASSUME CourseInv, OfHello(Peer), Straight(Peer)
    PROVE  /\ Estimate \in Vector /\ pos \in Vector /\ MyPosition \in Vector
           /\ Offset \in Vector /\ Drift \in Vector /\ EntryRadius(Peer) \in Nat
           /\ now - heard \in Nat /\ Slack(Peer) \in Nat
           /\ Within(Estimate, pos, Slack(Peer))
           /\ Distance2(MyPosition, Estimate) = Apart(Offset, Drift, now - heard)
           /\ Distance2(zone[Peer].position, zone[Peer].lastHopPosition) = Apart(Offset, Drift, 0)
           /\ zone[Peer].expiry \in Nat /\ heard \in Nat /\ now \in Nat
           /\ EntryLife = ComputeLifetime(Offset, Drift, EntryRadius(Peer))
           /\ EntryLife = {} \/ zone[Peer].expiry - heard \in EntryLife
<1> DEFINE e == zone[Peer]
           t == e.timestamp
           P == Course(t)
           ahead == now - heard
           late == heard - t
<1>1. e \in Track /\ now \in Nat /\ heard \in Nat /\ pos \in Vector /\ vel \in Vector
  BY TrackingAssumption DEF CourseInv, TypeInv, TypeOK, IsTable, OfHello
<1>2. /\ e.position \in Vector /\ e.velocity \in Vector /\ e.lastHopPosition \in Vector
      /\ t \in Nat /\ e.expiry \in Nat /\ e.averageHopDistance \in Nat
  BY <1>1 DEF Track
<1>3. /\ t =< heard /\ heard =< now /\ Told(t, e.position) /\ e.lastHopPosition = MyCourse(heard)
      /\ EntryLife = {} \/ e.expiry - heard \in EntryLife
  BY DEF CourseInv, EntryOnCourse
<1>4. turned =< t /\ e.velocity = Narrowed(vel)
  BY DEF Straight
<1>5. EntryRadius(Peer) \in Nat
  <2>1. ZoneRadiusMid \in Nat
    BY TrackingAssumption
  <2> QED
    BY <1>2, <2>1 DEF EntryRadius, Threshold
<1>6. e.position = Narrowed(P)
  BY <1>3, <1>4 DEF Told
<1> HIDE DEF e, t
<1>7. ahead \in Nat /\ late \in Nat /\ t - now \in Int /\ now - t \in Int
  BY <1>1, <1>2, <1>3
<1>8. P \in Vector
  BY <1>1, <1>7, StraightLines DEF Course
<1>9. Within(e.position, P, Rounding(e.position)) /\ Rounding(e.position) \in Nat
  BY <1>6, <1>8, VectorRounding
<1> DEFINE Q == Extrapolated(P, vel, ahead)
           q == Extrapolated(P, e.velocity, ahead)
<1>a. Estimate = Extrapolated(e.position, e.velocity, ahead)
  BY DEF Estimate, e
<1> HIDE DEF P, ahead
<1>10. Q \in Vector /\ q \in Vector /\ Estimate \in Vector
  <2>1. ahead \in Int
    BY <1>7
  <2> QED
    BY <1>1, <1>2, <1>8, <1>a, <2>1, StraightLines
\* It begins at a rounded position and goes on at a rounded velocity.
<1>11. /\ Within(Estimate, Q, Rounding(e.position) + Rounding(e.velocity) * ahead)
       /\ Rounding(e.velocity) * ahead \in Nat
  <2>1. Within(Estimate, q, Rounding(e.position))
    <3>1. \A w \in Vector : Distance2(Extrapolated(e.position, e.velocity, ahead),
                                      Extrapolated(w, e.velocity, ahead)) = Distance2(e.position, w)
      <4>1. e.position \in Vector /\ e.velocity \in Vector /\ ahead \in Nat
        BY <1>2, <1>7
      <4> QED
        BY <4>1, MovingWithin
    <3>2. Distance2(Estimate, q) = Distance2(e.position, P)
      BY <1>8, <1>a, <3>1
    <3> QED
      BY <1>9, <3>2 DEF Within
  <2>2. Within(e.velocity, vel, Rounding(e.velocity)) /\ Rounding(e.velocity) \in Nat
    BY <1>1, <1>4, VectorRounding
  <2>3. Rounding(e.velocity) * ahead \in Nat
    BY <1>7, <2>2
  <2>4. Within(q, Q, Rounding(e.velocity) * ahead)
    BY <1>1, <1>2, <1>7, <1>8, <2>2, Parting
  <2> HIDE DEF q, Q
  <2> QED
    BY <1>9, <1>10, <2>1, <2>3, <2>4, Triangle
<1> HIDE DEF q
<1>12. pos = Extrapolated(Q, vel, late)
  <2>1. Q = Extrapolated(pos, vel, (t - now) + ahead)
    BY <1>1, <1>7, Moves DEF Course, P
  <2>2. (t - now) + ahead \in Int /\ ((t - now) + ahead) + late = 0
    BY <1>1, <1>2, <1>3 DEF ahead
  <2> HIDE DEF Q, late
  <2>3. Extrapolated(Q, vel, late) = Extrapolated(pos, vel, ((t - now) + ahead) + late)
    BY <1>1, <1>7, <2>1, <2>2, Moves
  <2> QED
    BY <1>1, <2>2, <2>3, Moves
<1> HIDE DEF Q
<1>13. Within(Q, pos, Speed(vel) * late) /\ Speed(vel) * late \in Nat /\ Speed(vel) \in Nat
  <2>1. Speed(vel) \in Nat /\ Within(Q, Extrapolated(Q, vel, late), Speed(vel) * late)
    BY <1>1, <1>7, <1>10, MovingWithin
  <2> QED
    BY <1>7, <1>12, <2>1
<1> DEFINE r == Rounding(e.position) + Rounding(e.velocity) * ahead
<1>14. Slack(Peer) = r + Speed(vel) * late /\ Slack(Peer) \in Nat /\ r \in Nat
  <2>1. Slack(Peer) = Speed(vel) * late + Rounding(e.position) + Rounding(e.velocity) * ahead
    BY DEF Slack, e, t, ahead
  <2> QED
    BY <1>9, <1>11, <1>13, <2>1
<1>15. Within(Estimate, pos, Slack(Peer))
  BY <1>1, <1>10, <1>11, <1>13, <1>14, Triangle
<1>16. Offset \in Vector /\ Drift \in Vector
  BY <1>2, StraightLines, TrackingAssumption DEF Offset, Drift, e
<1>17. MyPosition \in Vector /\ From(MyPosition, Estimate) = Extrapolated(Offset, Drift, ahead)
  <2>1. heard - StartTime \in Int /\ now - StartTime = (heard - StartTime) + ahead
    BY <1>1 DEF StartTime, ahead
  <2>2. MyCourse(heard) \in Vector
    BY <2>1, StraightLines, TrackingAssumption DEF MyCourse
  <2>3. MyPosition = Extrapolated(MyCourse(heard), MyVelocity, ahead)
    <3>1. MyVelocity \in Vector /\ MyStart \in Vector
      BY TrackingAssumption
    <3> QED
      BY <1>7, <2>1, <3>1, Moves DEF MyPosition, MyCourse
  <2>4. MyVelocity \in Vector
    BY TrackingAssumption
  <2>5. /\ Offset = From(MyCourse(heard), e.position) /\ Drift = From(MyVelocity, e.velocity)
        /\ Estimate = Extrapolated(e.position, e.velocity, ahead)
    BY <1>3, <1>a DEF Offset, Drift, e
  <2>6. From(MyPosition, Estimate) = Extrapolated(Offset, Drift, ahead)
    BY <1>2, <1>7, <2>2, <2>3, <2>4, <2>5, Moves
  <2>7. MyPosition \in Vector
    <3>1. ahead \in Int
      BY <1>7
    <3> QED
      BY <2>2, <2>3, <2>4, <3>1, StraightLines
  <2> QED
    BY <2>6, <2>7
<1>18. Distance2(MyPosition, Estimate) = Apart(Offset, Drift, ahead)
  BY <1>17 DEF Distance2, Apart
<1>19. Distance2(e.position, e.lastHopPosition) = Apart(Offset, Drift, 0)
  <2>1. Distance2(e.position, e.lastHopPosition) = Distance2(e.lastHopPosition, e.position)
    BY <1>2, BothWays
  <2>2. Extrapolated(Offset, Drift, 0) = Offset
    BY <1>16, Moves
  <2> QED
    BY <2>1, <2>2 DEF Distance2, Apart, Offset, e
<1>20. EntryLife = ComputeLifetime(Offset, Drift, EntryRadius(Peer))
  BY DEF EntryLife, Offset, Drift
<1> QED
  BY <1>1, <1>2, <1>3, <1>5, <1>7, <1>10, <1>14, <1>15, <1>16, <1>17, <1>18, <1>19, <1>20 DEF e, t, ahead

(***************************************************************************)
(* A peer whose estimate is not inside the sphere is not far inside it.    *)
(***************************************************************************)
LEMMA NotFarInside ==
    ASSUME CourseInv, OfHello(Peer), Straight(Peer), EntryRadius(Peer) > Slack(Peer),
           Apart(Offset, Drift, now - heard) >= EntryRadius(Peer) * EntryRadius(Peer)
    PROVE  LET r == EntryRadius(Peer) - Slack(Peer)
           IN  Distance2(pos, MyPosition) >= r * r
<1> DEFINE R == EntryRadius(Peer)
           s == Slack(Peer)
           r == R - s
<1>1. /\ Estimate \in Vector /\ pos \in Vector /\ MyPosition \in Vector
      /\ R \in Nat /\ s \in Nat /\ R > s /\ Within(Estimate, pos, s)
      /\ Distance2(MyPosition, Estimate) >= R * R
  BY EstimateWithinSlack
<1> HIDE DEF R, s
<1>2. r \in Nat /\ r + s = R
  BY <1>1
<1>3. Within(pos, Estimate, s)
  BY <1>1, BothWays DEF Within
<1>4. Distance2(MyPosition, pos) = Distance2(pos, MyPosition)
      /\ Distance2(pos, MyPosition) \in Nat /\ Distance2(MyPosition, Estimate) \in Nat
  BY <1>1, BothWays
<1> HIDE DEF r
<1>5. Distance2(MyPosition, pos) < r * r => Distance2(MyPosition, Estimate) < (r + s) * (r + s)
  BY <1>1, <1>2, <1>3, Triangle
<1>6. r * r \in Nat /\ R * R \in Nat /\ (r + s) * (r + s) = R * R
  BY <1>1, <1>2
<1>7. Distance2(pos, MyPosition) >= r * r
  BY <1>1, <1>4, <1>5, <1>6
<1> QED
  BY <1>7 DEF r, R, s

(***************************************************************************)
(* SameSideWhileValid.                                                     *)
(***************************************************************************)
THEOREM StaysOnItsSide == TrackingSpec => []SameSideWhileValid
<1>1. CourseInv => SameSideWhileValid
  <2> SUFFICES ASSUME CourseInv, OfHello(Peer), Straight(Peer), now =< zone[Peer].expiry
               PROVE  /\ StartedInside(Peer) =>
                            Within(pos, MyPosition, EntryRadius(Peer) + Slack(Peer))
                      /\ StartedOutside(Peer) /\ EntryRadius(Peer) > Slack(Peer) =>
                            LET r == EntryRadius(Peer) - Slack(Peer)
                            IN  Distance2(pos, MyPosition) >= r * r
    BY DEF SameSideWhileValid
  <2> DEFINE R == EntryRadius(Peer)
             s == Slack(Peer)
             ahead == now - heard
             life == zone[Peer].expiry - heard
  <2>1. /\ Estimate \in Vector /\ pos \in Vector /\ MyPosition \in Vector
        /\ Offset \in Vector /\ Drift \in Vector /\ R \in Nat /\ s \in Nat /\ ahead \in Nat
        /\ Within(Estimate, pos, s) /\ Distance2(MyPosition, Estimate) = Apart(Offset, Drift, ahead)
        /\ Distance2(zone[Peer].position, zone[Peer].lastHopPosition) = Apart(Offset, Drift, 0)
        /\ zone[Peer].expiry \in Nat /\ heard \in Nat /\ now \in Nat
        /\ EntryLife = ComputeLifetime(Offset, Drift, R)
        /\ EntryLife = {} \/ life \in EntryLife
    BY EstimateWithinSlack
  <2>2. life \in Int /\ (life \in Nat => ahead \in 0..life)
    BY <2>1
  <2> HIDE DEF R, life
  <2>3. R * R \in Nat /\ Apart(Offset, Drift, ahead) \in Nat
    <3>1. Distance2(MyPosition, Estimate) \in Nat
      BY <2>1, BothWays
    <3> QED
      BY <2>1, <3>1
  <2>4. Apart(Offset, Drift, 0) < R * R => Apart(Offset, Drift, ahead) =< R * R
    <3>1. CASE EntryLife = {}
      <4>1. Apart(Offset, Drift, 0) < R * R => Apart(Offset, Drift, ahead) < R * R
        BY <2>1, <3>1, LifetimeEndsAtCrossing
      <4> QED
        BY <2>3, <4>1
    <3>2. CASE life \in EntryLife
      BY <2>1, <2>2, <3>2, LifetimeEndsAtCrossing
    <3> QED
      BY <2>1, <3>1, <3>2
  <2>5. Apart(Offset, Drift, 0) > R * R => Apart(Offset, Drift, ahead) >= R * R
    <3>1. CASE EntryLife = {}
      BY <2>1, <3>1, LifetimeEndsAtCrossing
    <3>2. CASE life \in EntryLife
      BY <2>1, <2>2, <3>2, LifetimeEndsAtCrossing
    <3> QED
      BY <2>1, <3>1, <3>2
  <2>6. StartedInside(Peer) => Within(pos, MyPosition, R + s)
    <3> SUFFICES ASSUME StartedInside(Peer) PROVE Within(pos, MyPosition, R + s)
      OBVIOUS
    <3>1. Apart(Offset, Drift, 0) < R * R
      <4>1. Distance2(zone[Peer].position, zone[Peer].lastHopPosition) < R * R
        BY DEF StartedInside, R
      <4> QED
        BY <2>1, <4>1
    <3>2. Within(MyPosition, Estimate, R)
      BY <2>1, <2>4, <3>1 DEF Within
    <3>3. Within(MyPosition, pos, R + s)
      BY <2>1, <3>2, Triangle
    <3> QED
      BY <2>1, <3>3, BothWays DEF Within
  <2>7. StartedOutside(Peer) => Apart(Offset, Drift, ahead) >= R * R
    BY <2>1, <2>5 DEF StartedOutside, R
  <2> QED
    BY <2>6, <2>7, NotFarInside DEF R
<1> QED
  BY <1>1, CourseInit, CourseStep, PTL DEF TrackingSpec

(***************************************************************************)
(* Only maintenance takes the peer out of the zone table, and only after   *)
(* its entry has run out.                                                  *)
(***************************************************************************)
LEMMA DroppedByMaintenance ==
    ASSUME [Next]_vars, IsTable(zone), Peer \in DOMAIN zone, Peer \notin DOMAIN zone'
    PROVE  IsExpired(zone[Peer], now)
<1>1. zone' # zone
  OBVIOUS
<1>2. ASSUME NEW e PROVE zone' # AddOrUpdate(zone, Peer, e)
  BY DEF AddOrUpdate
<1>3. zone' = Purge(zone, now)
  BY <1>1, <1>2, Zenon DEF Next, vars, observer, SendHello, MaybeSendGlobalUpdate, RecvControl, ProcessHello,
         ProcessGlobalUpdate, Relay, Lose, PerformMaintenance, RouteOutput, Turn, Tick
<1> QED
  BY <1>3 DEF Purge

(***************************************************************************)
(* DroppedOnlyAcross.                                                      *)
(***************************************************************************)
THEOREM DroppedWhenAcross == TrackingSpec => DroppedOnlyAcross
<1> DEFINE Across == OfHello(Peer) /\ Straight(Peer) /\ StartedInside(Peer)
                     /\ zone[Peer].velocity # MyVelocity
                     /\ Peer \notin DOMAIN zone' /\ EntryRadius(Peer) > Slack(Peer)
                     => LET r == EntryRadius(Peer) - Slack(Peer)
                        IN  Distance2(pos, MyPosition) >= r * r
<1>1. CourseInv /\ [Next]_vars => [Across]_vars
  <2> SUFFICES ASSUME CourseInv, [Next]_vars,
                      OfHello(Peer), Straight(Peer), StartedInside(Peer),
                      zone[Peer].velocity # MyVelocity,
                      Peer \notin DOMAIN zone', EntryRadius(Peer) > Slack(Peer)
               PROVE  LET r == EntryRadius(Peer) - Slack(Peer)
                      IN  Distance2(pos, MyPosition) >= r * r
    OBVIOUS
  <2> DEFINE R == EntryRadius(Peer)
             ahead == now - heard
             life == zone[Peer].expiry - heard
  <2>1. /\ Estimate \in Vector /\ MyPosition \in Vector
        /\ Offset \in Vector /\ Drift \in Vector /\ R \in Nat /\ ahead \in Nat
        /\ Distance2(MyPosition, Estimate) = Apart(Offset, Drift, ahead)
        /\ Distance2(zone[Peer].position, zone[Peer].lastHopPosition) = Apart(Offset, Drift, 0)
        /\ zone[Peer].expiry \in Nat /\ heard \in Nat /\ now \in Nat
        /\ EntryLife = ComputeLifetime(Offset, Drift, R)
        /\ EntryLife = {} \/ life \in EntryLife
    BY EstimateWithinSlack
  <2>2. IsTable(zone) /\ Peer \in DOMAIN zone /\ zone[Peer].velocity \in Vector
    <3>1. IsTable(zone) /\ Peer \in DOMAIN zone
      BY DEF CourseInv, TypeInv, TypeOK, OfHello
    <3> QED
      BY <3>1 DEF IsTable, Track
  <2>3. zone[Peer].expiry < now
    BY <2>1, <2>2, DroppedByMaintenance DEF IsExpired
  <2>4. ahead > life /\ life \in Int
    BY <2>1, <2>3
  <2>5. Apart(Offset, Drift, 0) < R * R
    BY <2>1 DEF StartedInside
  <2>6. Drift # Null
    <3>1. zone[Peer].velocity.x # MyVelocity.x \/ zone[Peer].velocity.y # MyVelocity.y
      BY <2>2, TrackingAssumption DEF Vector
    <3> QED
      BY <2>2, <3>1, TrackingAssumption DEF Drift, From, Null, Vector
  <2> HIDE DEF R, ahead, life
  <2>7. life \in EntryLife
    BY <2>1, <2>5, <2>6, LifetimeEndsAtCrossing
  <2>8. Apart(Offset, Drift, ahead) > R * R
    BY <2>1, <2>4, <2>5, <2>7, LifetimeEndsAtCrossing
  <2>9. Apart(Offset, Drift, ahead) >= R * R
    <3>1. R * R \in Int /\ Apart(Offset, Drift, ahead) \in Int
      BY <2>1, BothWays
    <3> QED
      BY <2>8, <3>1
  <2> QED
    BY <2>9, NotFarInside DEF R, ahead
<1> QED
  BY <1>1, CourseInit, CourseStep, PTL DEF TrackingSpec, DroppedOnlyAcross

-----------------------------------------------------------------------------
(* Dead reckoning: how far the peer is from what it last announced, and    *)
(* what the observer has of it.                                            *)

\* How far the peer may be, given an average hop distance and a velocity.
Reach(avgHd, v) ==
    Threshold(avgHd) + 2 * Speed(v) * (now - (check - GlobalUpdateInterval))

NearAnnounced ==
    \E avgHd \in Densities, v \in Velocities :
        Within(Extrapolated(lastGlobal.position, lastGlobal.velocity, now - lastGlobal.timestamp),
               pos, Reach(avgHd, v))

\* What an update, or an entry made of one, says is what was last announced, or older.
Announced(e) ==
    /\ e.timestamp =< lastGlobal.timestamp
    /\ e.timestamp = lastGlobal.timestamp =>
          e.position = Narrowed(lastGlobal.position) /\ e.velocity = Narrowed(lastGlobal.velocity)

ReckoningInv ==
    /\ TypeInv
    /\ check =< now + GlobalUpdateInterval
    /\ lastGlobal.timestamp =< now
    /\ lastGlobal.timestamp = now => lastGlobal.position = pos
    /\ \A f \in net : f.kind = GLOBAL_UPDATE => Announced(f.body)
    /\ \A p \in DOMAIN global : Announced(global[p])
    /\ NearAnnounced

(***************************************************************************)
(* Nobody is away from where it is, and who is within some distance is     *)
(* within a greater one.                                                   *)
(***************************************************************************)
LEMMA Nearby ==
    ASSUME NEW u \in Vector, NEW v \in Vector, NEW r \in Nat, NEW s \in Nat
    PROVE  /\ Within(u, u, r)
           /\ Within(u, v, r) /\ r =< s => Within(u, v, s)
<1>1. Distance2(u, u) = 0
  <2>1. u.x \in Int /\ u.y \in Int
    BY DEF Vector
  <2>2. u.x - u.x = 0 /\ u.y - u.y = 0
    BY <2>1
  <2> QED
    BY <2>2 DEF Distance2, Dot, From
<1>2. r * r \in Nat /\ s * s \in Nat /\ Distance2(u, v) \in Nat
  BY BothWays
<1>3. r =< s => r * r =< s * s
  BY SquaresCompare
<1> QED
  BY <1>1, <1>2, <1>3 DEF Within

(***************************************************************************)
(* What is said in a GLOBAL_UPDATE under way is what was said in the one   *)
(* sent.                                                                   *)
(***************************************************************************)
LEMMA SaidInUpdate ==
    ASSUME NEW ttl, NEW h, NEW delay
    PROVE  LET f == Sent(GLOBAL_UPDATE, ttl, h, delay)
           IN  /\ f.body.timestamp = h.timestamp
               /\ f.body.position = Narrowed(h.position) /\ f.body.velocity = Narrowed(h.velocity)
<1> DEFINE body == [position |-> Narrowed(h.position), velocity |-> Narrowed(h.velocity),
                    originator |-> h.originator, timestamp |-> h.timestamp]
<1>1. Sent(GLOBAL_UPDATE, ttl, h, delay) = [kind |-> GLOBAL_UPDATE, ttl |-> ttl % 256,
                                            body |-> body, due |-> now + delay]
  BY UpdateReceived DEF Sent
<1>2. /\ body.timestamp = h.timestamp
      /\ body.position = Narrowed(h.position) /\ body.velocity = Narrowed(h.velocity)
  OBVIOUS
<1> HIDE DEF body
<1> QED
  BY <1>1, <1>2

(***************************************************************************)
(* Right after an announcement the peer is where it says.                  *)
(***************************************************************************)
LEMMA JustAnnounced ==
    ASSUME NEW u \in Vector, NEW v \in Vector, NEW t \in Nat, NEW r \in Nat
    PROVE  Within(Extrapolated(u, v, t - t), u, r)
<1>1. t - t = 0 /\ Extrapolated(u, v, 0) = u
  <2>1. t - t = 0 /\ t \in Int
    OBVIOUS
  <2>2. Extrapolated(u, v, 0) = u
    BY <2>1, Moves
  <2> QED
    BY <2>1, <2>2
<1> QED
  BY <1>1, Nearby

(***************************************************************************)
(* The types of what dead reckoning computes with.                         *)
(***************************************************************************)
LEMMA ReckoningTypes ==
    ASSUME TypeOK
    PROVE  /\ now \in Nat /\ check \in Nat /\ lastGlobal.timestamp \in Nat
           /\ pos \in Vector /\ vel \in Vector /\ vel \in Velocities
           /\ lastGlobal.position \in Vector /\ lastGlobal.velocity \in Velocities
           /\ lastGlobal.velocity \in Vector
           /\ GlobalUpdateInterval \in Nat
           /\ \A avgHd \in Densities : Threshold(avgHd) \in Nat
           /\ \A v \in Velocities : v \in Vector /\ Speed(v) \in Nat
<1>1. \A avgHd \in Densities : Threshold(avgHd) \in Nat
  <2>1. ZoneRadiusMid \in Nat /\ Densities \subseteq Nat
    BY TrackingAssumption
  <2> QED
    BY <2>1 DEF Threshold
<1>2. \A v \in Velocities : v \in Vector /\ Speed(v) \in Nat
  BY MovingWithin, TrackingAssumption
<1> QED
  BY <1>1, <1>2, TrackingAssumption DEF TypeOK

(***************************************************************************)
(* Both start with what is announced, which nobody has yet.                *)
(***************************************************************************)
LEMMA ReckoningInit == Init => ReckoningInv
<1> SUFFICES ASSUME Init PROVE ReckoningInv
  OBVIOUS
<1>1. TypeInv /\ TypeOK
  BY TypeInit DEF TypeInv
<1>2. /\ now = StartTime /\ check = now /\ net = {} /\ DOMAIN global = {}
      /\ lastGlobal = [position |-> pos, velocity |-> vel, timestamp |-> now]
  BY DEF Init
<1>3. check =< now + GlobalUpdateInterval /\ lastGlobal.timestamp =< now
  BY <1>1, <1>2, ReckoningTypes
<1>4. NearAnnounced
  <2>1. PICK avgHd \in Densities : TRUE
    BY TrackingAssumption
  <2>2. Reach(avgHd, vel) \in Nat
    <3>1. now - (check - GlobalUpdateInterval) \in Nat /\ Threshold(avgHd) \in Nat
          /\ Speed(vel) \in Nat
      BY <1>1, <1>2, ReckoningTypes
    <3> QED
      BY <3>1 DEF Reach
  <2>3. Within(Extrapolated(pos, vel, now - now), pos, Reach(avgHd, vel))
    BY <1>1, <2>2, ReckoningTypes, JustAnnounced
  <2> QED
    BY <1>1, <1>2, <2>3, ReckoningTypes DEF NearAnnounced
<1> QED
  BY <1>1, <1>2, <1>3, <1>4 DEF ReckoningInv

(***************************************************************************)
(* Every action keeps the peer within reach of what it announced: a check  *)
(* finds it within the threshold or announces anew, and between two checks *)
(* the announced and the true course part at no more than two velocities.  *)
(***************************************************************************)
LEMMA ReckoningStep == ReckoningInv /\ [Next]_vars => ReckoningInv'
<1> SUFFICES ASSUME ReckoningInv, [Next]_vars PROVE ReckoningInv'
  OBVIOUS
<1>0. /\ TypeInv /\ TypeOK /\ TypeInv' /\ TypeOK' /\ NearAnnounced
      /\ check =< now + GlobalUpdateInterval /\ lastGlobal.timestamp =< now
      /\ lastGlobal.timestamp = now => lastGlobal.position = pos
      /\ \A f \in net : f.kind = GLOBAL_UPDATE => Announced(f.body)
      /\ \A p \in DOMAIN global : Announced(global[p])
  BY TypeStep DEF ReckoningInv, TypeInv
<1>a. /\ now \in Nat /\ check \in Nat /\ lastGlobal.timestamp \in Nat
      /\ pos \in Vector /\ vel \in Vector /\ vel \in Velocities
      /\ lastGlobal.position \in Vector /\ lastGlobal.velocity \in Velocities
      /\ lastGlobal.velocity \in Vector /\ GlobalUpdateInterval \in Nat
      /\ \A avgHd \in Densities : Threshold(avgHd) \in Nat
      /\ \A v \in Velocities : v \in Vector /\ Speed(v) \in Nat
  BY <1>0, ReckoningTypes
\* What remains to be shown of an action that leaves the peer and its announcement alone.
<1>1. ASSUME UNCHANGED <<now, pos, lastGlobal, check>>, NEW g, net' \subseteq net \union {g},
             g.kind = GLOBAL_UPDATE => Announced(g.body),
             \A p \in DOMAIN global' : Announced(global'[p])
      PROVE  ReckoningInv'
  <2>1. \A f \in net' : f.kind = GLOBAL_UPDATE => Announced(f.body)
    BY <1>0, <1>1
  <2> QED
    BY <1>0, <1>1, <2>1 DEF ReckoningInv, Announced, NearAnnounced, Reach
<1>2. ASSUME UNCHANGED <<now, pos, lastGlobal, check>>, net' \subseteq net,
             \A p \in DOMAIN global' : Announced(global'[p])
      PROVE  ReckoningInv'
  <2>1. \A f \in net' : f.kind = GLOBAL_UPDATE => Announced(f.body)
    BY <1>0, <1>2
  <2> QED
    BY <1>0, <1>2, <2>1 DEF ReckoningInv, Announced, NearAnnounced, Reach
<1> USE DEF sender, observer, motion
<1>3. CASE SendHello
  <2>1. PICK d \in Delays : net' = net \union {Sent(HELLO, Ttl, HelloBody, d)}
    BY <1>3 DEF SendHello, Send
  <2>2. Sent(HELLO, Ttl, HelloBody, d).kind # GLOBAL_UPDATE
    BY SentKind DEF HELLO, GLOBAL_UPDATE
  <2>3. UNCHANGED <<now, pos, lastGlobal, check, global>>
    BY <1>3 DEF SendHello
  <2> QED
    BY <1>0, <1>1, <2>1, <2>2, <2>3
<1>4. CASE MaybeSendGlobalUpdate
  <2>1. /\ now = check /\ check' = now + GlobalUpdateInterval
        /\ UNCHANGED <<now, pos, vel, global>>
    BY <1>4 DEF MaybeSendGlobalUpdate
  <2>2. PICK avgHd \in Densities :
           \/ /\ Deviates(avgHd) /\ Send(GLOBAL_UPDATE, Ttl, GlobalUpdateBody)
              /\ lastGlobal' = [position |-> pos, velocity |-> vel, timestamp |-> now]
           \/ ~Deviates(avgHd) /\ UNCHANGED <<net, lastGlobal>>
    BY <1>4 DEF MaybeSendGlobalUpdate
  <2>3. now' - (check' - GlobalUpdateInterval) = 0 /\ check' =< now' + GlobalUpdateInterval
    BY <1>a, <2>1
  <2>4. Reach(avgHd, vel)' = Threshold(avgHd)
    <3>1. Threshold(avgHd) + 2 * Speed(vel) * 0 = Threshold(avgHd)
      BY <1>a
    <3> QED
      BY <2>1, <2>3, <3>1 DEF Reach, Threshold, Speed
  <2>5. CASE ~Deviates(avgHd) /\ UNCHANGED <<net, lastGlobal>>
    <3> DEFINE u == Extrapolated(lastGlobal.position, lastGlobal.velocity,
                                 now - lastGlobal.timestamp)
    <3>1. u \in Vector
      <4>1. now - lastGlobal.timestamp \in Int
        BY <1>a
      <4> QED
        BY <1>a, <4>1, StraightLines
    <3>2. Distance2(u, pos) \in Nat /\ ~(Distance2(u, pos) > Threshold(avgHd) * Threshold(avgHd))
      BY <1>a, <2>5, <3>1, BothWays DEF Deviates
    <3> HIDE DEF u
    <3>3. Within(u, pos, Threshold(avgHd))
      <4>1. Threshold(avgHd) * Threshold(avgHd) \in Nat
        BY <1>a
      <4> QED
        BY <3>2, <4>1 DEF Within
    <3>4. NearAnnounced'
      BY <1>a, <2>1, <2>4, <2>5, <3>3 DEF NearAnnounced, u
    <3> QED
      BY <1>0, <2>1, <2>3, <2>5, <3>4 DEF ReckoningInv, Announced
  <2>6. CASE /\ Deviates(avgHd) /\ Send(GLOBAL_UPDATE, Ttl, GlobalUpdateBody)
             /\ lastGlobal' = [position |-> pos, velocity |-> vel, timestamp |-> now]
    <3>1. lastGlobal.timestamp < now
      <4> SUFFICES ASSUME lastGlobal.timestamp = now PROVE FALSE
        BY <1>0, <1>a
      <4>1. Within(Extrapolated(pos, lastGlobal.velocity, now - now), pos, Threshold(avgHd))
        BY <1>a, JustAnnounced
      <4>2. Distance2(Extrapolated(pos, lastGlobal.velocity, now - now), pos) \in Nat
        <5>1. now - now \in Int
          BY <1>a
        <5> QED
          BY <1>a, <5>1, StraightLines, BothWays
      <4>3. Threshold(avgHd) * Threshold(avgHd) \in Nat
        BY <1>a
      <4> QED
        BY <1>0, <2>6, <4>1, <4>2, <4>3 DEF Deviates, Within
    <3>2. /\ lastGlobal'.position = pos /\ lastGlobal'.velocity = vel
          /\ lastGlobal'.timestamp = now
      BY <2>6
    <3>3. \A e : Announced(e) /\ e.timestamp \in Nat => Announced(e)'
      BY <1>a, <3>1, <3>2 DEF Announced
    <3>4. PICK d \in Delays : net' = net \union {Sent(GLOBAL_UPDATE, Ttl, GlobalUpdateBody, d)}
      BY <2>6 DEF Send
    <3>5. PICK g : g = Sent(GLOBAL_UPDATE, Ttl, GlobalUpdateBody, d)
      OBVIOUS
    <3>6. Announced(g.body)'
      <4>1. /\ g.body.timestamp = now /\ g.body.position = Narrowed(pos)
            /\ g.body.velocity = Narrowed(vel)
        BY <3>5, SaidInUpdate DEF GlobalUpdateBody
      <4> QED
        BY <1>a, <3>2, <4>1 DEF Announced
    <3>7. \A f \in net' : f.kind = GLOBAL_UPDATE => Announced(f.body)'
      <4> SUFFICES ASSUME NEW f \in net, f.kind = GLOBAL_UPDATE PROVE Announced(f.body)'
        BY <3>4, <3>5, <3>6
      <4>1. f.body.timestamp \in Nat
        <5>1. f \in UpdatesUnderWay
          BY <1>0 DEF TypeInv, HellosUnderWay, HELLO, GLOBAL_UPDATE
        <5> QED
          BY <5>1 DEF UpdatesUnderWay, UpdateOf
      <4> QED
        BY <1>0, <3>3, <4>1
    <3>8. \A p \in DOMAIN global' : Announced(global[p])'
      <4> SUFFICES ASSUME NEW p \in DOMAIN global PROVE Announced(global[p])'
        BY <2>1
      <4>1. PICK e : e = global[p]
        OBVIOUS
      <4>2. e = global'[p] /\ Announced(e) /\ e.timestamp \in Nat
        BY <1>0, <2>1, <4>1 DEF TypeOK, IsTable, Track
      <4>3. Announced(e)'
        BY <3>3, <4>2
      <4> QED
        BY <4>2, <4>3 DEF Announced
    <3>9. NearAnnounced'
      <4>1. Within(Extrapolated(pos, vel, now - now), pos, Threshold(avgHd))
        BY <1>a, JustAnnounced
      <4> QED
        BY <1>a, <2>1, <2>4, <3>2, <4>1 DEF NearAnnounced
    <3> QED
      BY <1>0, <1>a, <2>1, <2>3, <3>2, <3>7, <3>8, <3>9 DEF ReckoningInv
  <2> QED
    BY <2>2, <2>5, <2>6
<1>5. ASSUME NEW f \in net, ProcessHello(f) PROVE ReckoningInv'
  <2>1. net' = net \ {f} /\ UNCHANGED <<now, pos, lastGlobal, check, global>>
    BY <1>5 DEF ProcessHello
  <2> QED
    BY <1>0, <1>2, <2>1
<1>6. ASSUME NEW f \in net, ProcessGlobalUpdate(f) PROVE ReckoningInv'
  <2>1. /\ global' = AddOrUpdate(global, Peer, GlobalEntry(f.body)) /\ net' = net \ {f}
        /\ f.kind = GLOBAL_UPDATE /\ UNCHANGED <<now, pos, lastGlobal, check>>
    BY <1>6 DEF ProcessGlobalUpdate
  <2>2. Announced(GlobalEntry(f.body))
    BY <1>0, <2>1 DEF Announced, GlobalEntry
  <2>3. \A p \in DOMAIN global' : Announced(global'[p])
    BY <1>0, <2>1, <2>2 DEF AddOrUpdate
  <2> QED
    BY <1>2, <2>1, <2>3
<1>7. ASSUME NEW f \in net, Relay(f) PROVE ReckoningInv'
  <2>1. PICK d \in Delays, body \in Forwarded(f) :
           net' = (net \ {f}) \union {Sent(f.kind, f.ttl - 1, body, d)}
    BY <1>7 DEF Relay
  <2>2. UNCHANGED <<now, pos, lastGlobal, check, global>>
    BY <1>7 DEF Relay
  <2> DEFINE g == Sent(f.kind, f.ttl - 1, body, d)
  <2>3. g.kind = GLOBAL_UPDATE => Announced(g.body)
    <3>1. CASE f \in UpdatesUnderWay
      <4>1. f.kind = GLOBAL_UPDATE /\ f.body \in UpdateOf(SettledVectors)
        BY <3>1 DEF UpdatesUnderWay
      <4>2. body = f.body
        BY <2>1, <4>1 DEF Forwarded, HELLO, GLOBAL_UPDATE
      <4>3. Narrowed(body.position) = body.position /\ Narrowed(body.velocity) = body.velocity
        BY <4>1, <4>2 DEF UpdateOf, SettledVectors
      <4>4. /\ g.body.timestamp = body.timestamp
            /\ g.body.position = body.position /\ g.body.velocity = body.velocity
        BY <4>1, <4>3, SaidInUpdate
      <4> HIDE DEF g
      <4> QED
        BY <1>0, <4>1, <4>2, <4>4 DEF Announced
    <3>2. CASE f \in HellosUnderWay
      <4>1. f.kind = HELLO
        BY <3>2 DEF HellosUnderWay
      <4>2. g.kind = HELLO
        BY <4>1, SentKind
      <4> HIDE DEF g
      <4> QED
        BY <4>2 DEF HELLO, GLOBAL_UPDATE
    <3> QED
      BY <1>0, <3>1, <3>2 DEF TypeInv
  <2>4. net' \subseteq net \union {g}
    BY <2>1
  <2> HIDE DEF g
  <2> QED
    BY <1>0, <1>1, <2>2, <2>3, <2>4
<1>8. ASSUME NEW f \in net, Lose(f) PROVE ReckoningInv'
  <2>1. net' = net \ {f} /\ UNCHANGED <<now, pos, lastGlobal, check, global>>
    BY <1>8 DEF Lose
  <2> QED
    BY <1>0, <1>2, <2>1
<1>9. CASE PerformMaintenance
  <2>1. global' = Purge(global, now) /\ UNCHANGED <<now, pos, lastGlobal, check, net>>
    BY <1>9 DEF PerformMaintenance
  <2>2. \A p \in DOMAIN global' : Announced(global'[p])
    BY <1>0, <2>1 DEF Purge
  <2> QED
    BY <1>2, <2>1, <2>2
<1>10. CASE RouteOutput \/ Turn
  <2>1. UNCHANGED <<now, pos, lastGlobal, check, net, global>>
    BY <1>10 DEF RouteOutput, Turn
  <2> QED
    BY <1>0, <1>2, <2>1
<1>11. CASE Tick
  <2>1. /\ now' = now + 1 /\ pos' = Extrapolated(pos, vel, 1)
        /\ UNCHANGED <<vel, lastGlobal, check, net, global>>
    BY <1>11 DEF Tick
  <2> DEFINE age == now - lastGlobal.timestamp
             u == Extrapolated(lastGlobal.position, lastGlobal.velocity, age)
             elapsed == now - (check - GlobalUpdateInterval)
  <2>2. PICK avgHd \in Densities, v \in Velocities : Within(u, pos, Reach(avgHd, v))
    BY <1>0 DEF NearAnnounced
  <2>3. PICK w \in Velocities : /\ Speed(v) =< Speed(w) /\ Speed(vel) =< Speed(w)
                                /\ Speed(lastGlobal.velocity) =< Speed(w)
    <3>1. /\ v \in Velocities /\ Speed(v) \in Nat /\ Speed(vel) \in Nat
          /\ Speed(lastGlobal.velocity) \in Nat
      BY <1>a
    <3>2. CASE Speed(v) >= Speed(vel) /\ Speed(v) >= Speed(lastGlobal.velocity)
      BY <3>1, <3>2
    <3>3. CASE Speed(vel) >= Speed(v) /\ Speed(vel) >= Speed(lastGlobal.velocity)
      BY <1>a, <3>1, <3>3
    <3>4. CASE Speed(lastGlobal.velocity) >= Speed(v) /\ Speed(lastGlobal.velocity) >= Speed(vel)
      BY <1>a, <3>1, <3>4
    <3> QED
      BY <3>1, <3>2, <3>3, <3>4
  <2>4. age \in Nat /\ age \in Int /\ elapsed \in Nat /\ u \in Vector
    <3>1. age \in Nat /\ age \in Int /\ elapsed \in Nat
      BY <1>0, <1>a
    <3> QED
      BY <1>a, <3>1, StraightLines
  <2>5. /\ now' - lastGlobal'.timestamp = age + 1
        /\ now' - (check' - GlobalUpdateInterval) = elapsed + 1
    BY <1>a, <2>1
  <2>6. Reach(avgHd, v) = Threshold(avgHd) + 2 * Speed(v) * elapsed
        /\ Reach(avgHd, w)' = Threshold(avgHd) + 2 * Speed(w) * (elapsed + 1)
    BY <2>1, <2>5 DEF Reach, Threshold, Speed
  <2> DEFINE r == Reach(avgHd, v)
             x == Speed(lastGlobal.velocity)
             y == Speed(vel)
             u1 == Extrapolated(u, lastGlobal.velocity, 1)
  <2> HIDE DEF age, elapsed
  <2>7. Extrapolated(lastGlobal.position, lastGlobal.velocity, age + 1) = u1
    <3>1. \A s, t \in Int :
             Extrapolated(Extrapolated(lastGlobal.position, lastGlobal.velocity, s),
                          lastGlobal.velocity, t)
                 = Extrapolated(lastGlobal.position, lastGlobal.velocity, s + t)
      <4>1. lastGlobal.position \in Vector /\ lastGlobal.velocity \in Vector
        BY <1>a
      <4> HIDE DEF u, u1, x, y, r
      <4> QED
        BY <4>1, Moves, SMTT(30)
    <3> QED
      BY <2>4, <3>1
  <2> HIDE DEF u
  <2>8. /\ r \in Nat /\ x \in Nat /\ y \in Nat
        /\ x + r + y \in Nat
        /\ Threshold(avgHd) + 2 * Speed(w) * (elapsed + 1) \in Nat
        /\ x + r + y =< Threshold(avgHd) + 2 * Speed(w) * (elapsed + 1)
    <3> DEFINE T == Threshold(avgHd)
               b == Speed(v)
               c == Speed(w)
    <3>1. T \in Nat /\ b \in Nat /\ c \in Nat /\ x \in Nat /\ y \in Nat
          /\ b =< c /\ x =< c /\ y =< c /\ r = T + 2 * b * elapsed
      BY <1>a, <2>3, <2>6
    <3> HIDE DEF T, b, c, x, y, r
    <3>2. b * elapsed =< c * elapsed /\ b * elapsed \in Nat /\ c * elapsed \in Nat
      BY <2>4, <3>1
    <3>3. /\ 2 * c * (elapsed + 1) = 2 * (c * elapsed) + 2 * c
          /\ 2 * b * elapsed = 2 * (b * elapsed)
      BY <2>4, <3>1
    <3>4. /\ r \in Nat /\ x + r + y \in Nat /\ T + 2 * c * (elapsed + 1) \in Nat
          /\ x + r + y =< T + 2 * c * (elapsed + 1)
      BY <3>1, <3>2, <3>3
    <3> QED
      BY <3>1, <3>4 DEF T, c
  <2>9. /\ u1 \in Vector /\ pos' \in Vector
        /\ Within(u1, u, x) /\ Within(pos, pos', y)
    <3>1. 1 \in Nat /\ 1 \in Int /\ x * 1 = x /\ y * 1 = y
      BY <2>8
    <3>2. u1 \in Vector /\ pos' \in Vector
      BY <1>a, <2>1, <2>4, <3>1, StraightLines
    <3>3. Within(u1, u, x * 1) /\ Within(pos, pos', y * 1)
      BY <1>a, <2>1, <2>4, <3>1, MovingWithin
    <3> QED
      BY <3>1, <3>2, <3>3
  <2> HIDE DEF u1, x, y, r
  <2>10. Within(u1, pos', x + r + y)
    <3>1. Within(u, pos, r)
      BY <2>2 DEF r
    <3>2. x + r \in Nat /\ Within(u1, pos, x + r)
      BY <1>a, <2>4, <2>8, <2>9, <3>1, Triangle
    <3> QED
      BY <1>a, <2>8, <2>9, <3>2, Triangle
  <2>11. Within(u1, pos', Reach(avgHd, w)')
    BY <2>6, <2>8, <2>9, <2>10, Nearby
  <2>12. NearAnnounced'
    BY <2>1, <2>5, <2>7, <2>11 DEF NearAnnounced, Reach
  <2>13. /\ check' =< now' + GlobalUpdateInterval /\ lastGlobal'.timestamp =< now'
         /\ lastGlobal'.timestamp # now'
    BY <1>0, <1>a, <2>1
  <2> QED
    BY <1>0, <2>1, <2>12, <2>13 DEF ReckoningInv, Announced
<1>12. CASE UNCHANGED vars
  BY <1>0, <1>2, <1>12 DEF vars
<1> QED
  BY <1>3, <1>4, <1>5, <1>6, <1>7, <1>8, <1>9, <1>10, <1>11, <1>12 DEF Next, RecvControl

(***************************************************************************)
(* PredictionBound.                                                        *)
(***************************************************************************)
THEOREM ReckoningHolds == TrackingSpec => []PredictionBound
<1>1. ReckoningInv => PredictionBound
  <2> SUFFICES ASSUME ReckoningInv, NEW p \in DOMAIN global,
                      global[p].timestamp = lastGlobal.timestamp
               PROVE  \E avgHd \in Densities, v \in Velocities :
                         Within(PredictPosition(global[p]), pos,
                                Reach(avgHd, v) + Rounding(lastGlobal.position)
                                + Rounding(lastGlobal.velocity) * (now - lastGlobal.timestamp))
    BY DEF PredictionBound, Reach
  <2> DEFINE P == lastGlobal.position
             V == lastGlobal.velocity
             age == now - lastGlobal.timestamp
             u == Extrapolated(P, V, age)
             n == Narrowed(P)
             m == Narrowed(V)
             r == Rounding(P)
             s == Rounding(V)
  <2>1. /\ P \in Vector /\ V \in Vector /\ pos \in Vector
        /\ now \in Nat /\ check \in Nat /\ GlobalUpdateInterval \in Nat
        /\ \A avgHd \in Densities : Threshold(avgHd) \in Nat
        /\ \A v \in Velocities : Speed(v) \in Nat
        /\ lastGlobal.timestamp \in Nat /\ lastGlobal.timestamp =< now
        /\ check =< now + GlobalUpdateInterval
        /\ global[p].position = n /\ global[p].velocity = m
    BY ReckoningTypes DEF ReckoningInv, TypeInv, Announced
  <2>2. age \in Nat /\ age \in Int
    BY <2>1
  <2>3. PredictPosition(global[p]) = Extrapolated(n, m, age)
    BY <2>1 DEF PredictPosition
  <2>4. PICK avgHd \in Densities, v \in Velocities : Within(u, pos, Reach(avgHd, v))
    BY DEF ReckoningInv, NearAnnounced
  <2>5. Reach(avgHd, v) \in Nat
    <3>1. now - (check - GlobalUpdateInterval) \in Nat
      BY <2>1
    <3> QED
      BY <2>1, <3>1 DEF Reach
  <2> HIDE DEF P, V, age
  <2>6. /\ n \in Vector /\ m \in Vector /\ r \in Nat /\ s \in Nat
        /\ Within(n, P, r) /\ Within(m, V, s)
    BY <2>1, VectorRounding
  <2> HIDE DEF n, m, r, s
  <2> DEFINE x == Extrapolated(n, m, age)
             y == Extrapolated(P, m, age)
  <2>7. x \in Vector /\ y \in Vector /\ u \in Vector
    BY <2>1, <2>2, <2>6, StraightLines
  <2>8. Within(x, y, r)
    <3>1. \A w \in Vector : Distance2(Extrapolated(n, m, age), Extrapolated(w, m, age)) = Distance2(n, w)
      BY <2>2, <2>6, MovingWithin
    <3>2. Distance2(x, y) = Distance2(n, P)
      BY <2>1, <3>1
    <3> QED
      BY <2>6, <3>2 DEF Within
  <2>9. Within(y, u, s * age) /\ s * age \in Nat
    <3>1. s * age \in Nat
      BY <2>2, <2>6
    <3>2. Within(Extrapolated(P, m, age), Extrapolated(P, V, age), s * age)
      BY <2>1, <2>2, <2>6, Parting
    <3> QED
      BY <3>1, <3>2
  <2> HIDE DEF x, y, u
  <2>10. Within(x, u, r + s * age) /\ r + s * age \in Nat
    BY <2>6, <2>7, <2>8, <2>9, Triangle
  <2>11. Within(x, pos, (r + s * age) + Reach(avgHd, v))
    BY <2>1, <2>4, <2>5, <2>7, <2>10, Triangle
  <2>12. (r + s * age) + Reach(avgHd, v) = Reach(avgHd, v) + r + s * age
    BY <2>5, <2>6, <2>9
  <2> QED
    BY <2>3, <2>11, <2>12 DEF x, r, s, P, V, age
<1> QED
  BY <1>1, ReckoningInit, ReckoningStep, PTL DEF TrackingSpec
=============================================================================
