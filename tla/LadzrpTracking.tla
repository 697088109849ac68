---------------------------- MODULE LadzrpTracking ----------------------------
(***************************************************************************)
(* How one node keeps track of another one that moves: the periodic HELLO  *)
(* and the GLOBAL_UPDATE that dead reckoning decides on travel through the *)
(* headers of LadzrpWire, directly or over a relay, and become entries     *)
(* whose positions are extrapolated and whose lifetimes are computed from  *)
(* the motion (src/model/ladzrp-routing-protocol.cc).                      *)
(*                                                                         *)
(* The observer, whose tables these are, moves in a straight line.  The    *)
(* peer turns now and then.  Coordinates, speeds and times are whole       *)
(* numbers; a crossing at a time in between is kept as the last whole      *)
(* instant before it, which is when IsExpired tells it from the next one.  *)
(***************************************************************************)
EXTENDS LadzrpWire, FiniteSets

CONSTANTS Peer,                 \* the address of the node that is tracked
          Starts,               \* where it may start
          Velocities,           \* at what velocities it may move
          MyStart, MyVelocity,  \* the observer's motion
          HelloInterval,        \* m_helloInterval
          GlobalUpdateInterval, \* m_globalUpdateInterval
          MaintenanceInterval,  \* the Seconds (1) of ScheduleMaintenance
          ZoneRadiusMid,        \* m_zoneRadiusMid
          Ttl,                  \* the TTL of either message
          RelayPosition,        \* where a relay stands
          Densities,            \* average hop distances a node may compute
          Delays,               \* how long a message may be under way
          MaxTurns,             \* bound on the turns of the peer
          MaxLosses,            \* bound on the messages lost
          MaxTime               \* bound on the clock

ASSUME TrackingAssumption ==
    /\ Peer \in Nat
    /\ Starts \subseteq Vector /\ Velocities \subseteq Vector
    /\ MyStart \in Vector /\ MyVelocity \in Vector /\ RelayPosition \in Vector
    /\ HelloInterval \in Nat \ {0} /\ GlobalUpdateInterval \in Nat \ {0}
    /\ MaintenanceInterval \in Nat \ {0}
    /\ ZoneRadiusMid \in 1..255 /\ Ttl \in 1..255
    /\ Densities \subseteq Nat /\ Densities # {} /\ Delays \subseteq Nat
    /\ MaxTurns \in Nat /\ MaxLosses \in Nat /\ MaxTime \in Nat \ {0}

VARIABLES now,          \* Simulator::Now ()
          pos, vel,     \* external: the peer's mobility model
          turned,       \* history: when the peer last turned
          turns,        \* how often it did
          lastGlobal,   \* the peer's m_lastGlobalPosition, Velocity and Timestamp
          hello, check, \* when its m_helloEvent and m_globalEvent fire
          net,          \* messages under way
          zone, global, \* the observer's tables
          heard,        \* history: when its zone entry was made of a HELLO
          maint,        \* when its m_maintenanceEvent fires
          losses        \* how many messages were lost

motion == <<pos, vel, turned, turns>>
sender == <<lastGlobal, hello, check>>
observer == <<zone, global, heard, maint>>
vars == <<now, pos, vel, turned, turns, lastGlobal, hello, check, net,
          zone, global, heard, maint, losses>>

Null == [x |-> 0, y |-> 0]

\* Position u, t instants later.
Extrapolated(u, v, t) == [x |-> u.x + v.x * t, y |-> u.y + v.y * t]

\* When both nodes start.  An expiry of 0 means none, and rounding a crossing down to
\* a whole instant must not make one.
StartTime == 1

MyPosition == Extrapolated(MyStart, MyVelocity, now - StartTime)

\* What tracking uses of a RoutingTableEntry, and ofUpdate, a history of its own: whether
\* a GLOBAL_UPDATE made the entry.  m_isGlobal, which AddOrUpdateZone clears and
\* AddOrUpdateGlobal sets, is left out: nothing reads it.
Track == [position : Vector, velocity : Vector, timestamp : Nat, expiry : Nat,
          averageHopDistance : Nat, lastHopPosition : Vector, ofUpdate : BOOLEAN]

IsTable(table) == DOMAIN table \subseteq {Peer} /\ table \in [DOMAIN table -> Track]

TypeOK ==
    /\ now \in 0..MaxTime
    /\ pos \in Vector /\ vel \in Velocities
    /\ turned \in 0..MaxTime /\ turns \in 0..MaxTurns
    /\ lastGlobal \in [position : Vector, velocity : Velocities, timestamp : Nat]
    /\ hello \in Nat /\ check \in Nat
    /\ \A f \in net : f.due \in Nat /\ f.kind \in 0..1 /\ f.ttl \in 1..Ttl
    /\ IsTable(zone) /\ IsTable(global)
    /\ heard \in 0..MaxTime
    /\ maint \in Nat
    /\ losses \in 0..MaxLosses

\* Start of both nodes: the peer takes its motion for announced.
Init ==
    /\ now = StartTime
    /\ pos \in Starts /\ vel \in Velocities
    /\ turned = now /\ turns = 0
    /\ lastGlobal = [position |-> pos, velocity |-> vel, timestamp |-> now]
    /\ hello = now /\ check = now
    /\ net = {}
    /\ zone = [p \in {} |-> Null] /\ global = [p \in {} |-> Null]
    /\ heard = 0
    /\ maint = now + MaintenanceInterval
    /\ losses = 0

-----------------------------------------------------------------------------
(* The peer announces itself.                                              *)

HELLO == 0
GLOBAL_UPDATE == 1

\* A message as it is sent.  One of a kind is sent in an instant at most, so that the
\* clock tells them apart as m_sequenceNumber does.
Packed(kind, ttl, body) ==
    LET inner == IF kind = HELLO
                 THEN AddHeader(<<>>, HelloHeaderSize, SerializeHello(body))
                 ELSE AddHeader(<<>>, GlobalUpdateHeaderSize, SerializeGlobalUpdate(body))
    IN  AddHeader(inner, MessageHeaderSize,
                  SerializeMessage([type |-> kind, ttl |-> ttl, sequence |-> now]))

\* The head of RecvControl: the headers it takes off a packet, and what is left.
Received(packet) ==
    LET msg == DeserializeMessage(packet)
        inner == RemoveHeader(packet, MessageHeaderSize)
    IN  [kind |-> msg.type, ttl |-> msg.ttl,
         body |-> IF msg.type = HELLO THEN DeserializeHello(inner)
                  ELSE DeserializeGlobalUpdate(inner),
         rest |-> RemoveHeader(inner, IF msg.type = HELLO THEN HelloHeaderSize
                                      ELSE GlobalUpdateHeaderSize)]

\* A message under way is kept as what will be received of it.
Sent(kind, ttl, body, delay) ==
    LET r == Received(Packed(kind, ttl, body))
    IN  [kind |-> r.kind, ttl |-> r.ttl, body |-> r.body, due |-> now + delay]

Send(kind, ttl, body) == \E d \in Delays : net' = net \union {Sent(kind, ttl, body, d)}

HelloBody == [sourcePosition |-> pos, sourceVelocity |-> vel, originator |-> Peer,
              lastHopPosition |-> pos, averageHopDistance |-> 0, hopCount |-> 1,
              timestamp |-> now]

GlobalUpdateBody ==
    [position |-> pos, velocity |-> vel, originator |-> Peer, timestamp |-> now]

SendHello ==
    /\ now = hello
    /\ hello' = now + HelloInterval
    /\ Send(HELLO, Ttl, HelloBody)
    /\ UNCHANGED <<now, motion, lastGlobal, check, observer, losses>>

Threshold(avgHd) == (IF avgHd > 1 THEN avgHd ELSE 1) * ZoneRadiusMid

\* The deviation is measured from the last announced position, as if the peer had
\* stood still since.
StandStill_Mutant(avgHd) ==
    Distance2(lastGlobal.position, pos) > Threshold(avgHd) * Threshold(avgHd)

\* The deviation from what was last announced passes the threshold.
Deviates(avgHd) ==
    Distance2(Extrapolated(lastGlobal.position, lastGlobal.velocity,
                           now - lastGlobal.timestamp), pos)
        > Threshold(avgHd) * Threshold(avgHd)

MaybeSendGlobalUpdate ==
    /\ now = check
    /\ check' = now + GlobalUpdateInterval
    /\ \E avgHd \in Densities :
          \/ /\ Deviates(avgHd)
             /\ Send(GLOBAL_UPDATE, Ttl, GlobalUpdateBody)
             /\ lastGlobal' = [position |-> pos, velocity |-> vel, timestamp |-> now]
          \/ /\ ~Deviates(avgHd)
             /\ UNCHANGED <<net, lastGlobal>>
    /\ UNCHANGED <<now, motion, hello, observer, losses>>

-----------------------------------------------------------------------------
(* The observer, or a relay on the way to it, takes a message in.          *)

\* The whole instant before the square root of n, and the one not before it.
FloorSqrt(n) == CHOOSE r \in 0..n : r * r =< n /\ n < (r + 1) * (r + 1)
CeilSqrt(n) == IF FloorSqrt(n) * FloorSqrt(n) = n THEN FloorSqrt(n) ELSE FloorSqrt(n) + 1

Least(S) == {t \in S : \A u \in S : t =< u}

\* Of two crossings ahead the later one is taken.
LastCrossing_Mutant(r0, v, radius) ==
    LET a == Dot(v, v)
        b == Dot(r0, v)
        d == b * b - a * (Dot(r0, r0) - radius * radius)
    IN  IF a = 0 \/ d < 0 \/ ~(b < 0 \/ d > b * b) THEN {}
        ELSE {(-b + FloorSqrt(d)) \div a}

\* Half of the code's b over the whole of its 2 a.
HalfRoot_Mutant(r0, v, radius) ==
    LET a == Dot(v, v)
        b == Dot(r0, v)
        d == b * b - a * (Dot(r0, r0) - radius * radius)
    IN  IF a = 0 \/ d < 0 THEN {}
        ELSE Least((IF b < 0 /\ b * b > d THEN {(-b - CeilSqrt(d)) \div (2 * a)} ELSE {})
                   \union (IF b < 0 \/ d > b * b THEN {(-b + FloorSqrt(d)) \div (2 * a)} ELSE {}))

\* ComputeLifetime: when the relative motion r0 + t v first crosses the sphere of the
\* radius, as a singleton.  The empty set stands for the code's 0 and infinity, no
\* crossing ahead, which ProcessHello does not tell apart.  With b half of the code's
\* b and d a quarter of its discriminant, the roots are (-b -+ sqrt d) / a.
ComputeLifetime(r0, v, radius) ==
    LET a == Dot(v, v)
        b == Dot(r0, v)
        d == b * b - a * (Dot(r0, r0) - radius * radius)
    IN  IF a = 0 \/ d < 0 THEN {}
        ELSE Least((IF b < 0 /\ b * b > d THEN {(-b - CeilSqrt(d)) \div a} ELSE {})
                   \union (IF b < 0 \/ d > b * b THEN {(-b + FloorSqrt(d)) \div a} ELSE {}))

\* The average hop distance at the receiver: beyond the first hop it takes in the
\* distance from the last hop, to whatever comes out of the density of nodes.
AverageHopDistances(h) == IF h.hopCount > 1 THEN Densities ELSE {h.averageHopDistance}

\* ProcessHello at the observer.
ProcessHello(f) ==
    /\ f.due = now
    /\ f.kind = HELLO
    /\ LET h == f.body
       IN  \E avgHd \in AverageHopDistances(h) :
              LET lifetime == ComputeLifetime(From(MyPosition, h.sourcePosition),
                                              From(MyVelocity, h.sourceVelocity),
                                              Threshold(avgHd))
                  expiry == IF lifetime = {} THEN now + 3 * HelloInterval
                            ELSE now + CHOOSE t \in lifetime : TRUE
              IN  zone' = AddOrUpdate(zone, Peer,
                             [position |-> h.sourcePosition, velocity |-> h.sourceVelocity,
                              timestamp |-> h.timestamp, expiry |-> expiry,
                              averageHopDistance |-> avgHd, lastHopPosition |-> MyPosition,
                              ofUpdate |-> FALSE])
    /\ heard' = now
    /\ net' = net \ {f}
    /\ UNCHANGED <<now, motion, sender, global, maint, losses>>

\* A global entry that lives as long as one interval.
OneInterval_Mutant(h) ==
    [position |-> h.position, velocity |-> h.velocity, timestamp |-> h.timestamp,
     expiry |-> now + GlobalUpdateInterval, averageHopDistance |-> 0,
     lastHopPosition |-> Null, ofUpdate |-> TRUE]

GlobalEntry(h) ==
    [position |-> h.position, velocity |-> h.velocity, timestamp |-> h.timestamp,
     expiry |-> now + 3 * GlobalUpdateInterval, averageHopDistance |-> 0,
     lastHopPosition |-> Null, ofUpdate |-> TRUE]

ProcessGlobalUpdate(f) ==
    /\ f.due = now
    /\ f.kind = GLOBAL_UPDATE
    /\ global' = AddOrUpdate(global, Peer, GlobalEntry(f.body))
    /\ net' = net \ {f}
    /\ UNCHANGED <<now, motion, sender, zone, heard, maint, losses>>

\* What a relay makes of the header it read.
Forwarded(f) ==
    IF f.kind = HELLO
    THEN {[f.body EXCEPT !.hopCount = @ + 1, !.averageHopDistance = avgHd,
                         !.lastHopPosition = RelayPosition] :
             avgHd \in AverageHopDistances(f.body)}
    ELSE {f.body}

\* A relay that does not look at the TTL.
RelayAlways_Mutant(f) ==
    /\ f.due = now
    /\ \E d \in Delays, body \in Forwarded(f) :
          net' = (net \ {f}) \union {Sent(f.kind, f.ttl - 1, body, d)}
    /\ UNCHANGED <<now, motion, sender, observer, losses>>

\* A relay reads a message and writes it anew; what it lets through is the only copy.
Relay(f) ==
    /\ f.due = now
    /\ f.ttl > 1
    /\ \E d \in Delays, body \in Forwarded(f) :
          net' = (net \ {f}) \union {Sent(f.kind, f.ttl - 1, body, d)}
    /\ UNCHANGED <<now, motion, sender, observer, losses>>

RecvControl(f) == ProcessHello(f) \/ ProcessGlobalUpdate(f) \/ Relay(f)

Lose(f) ==
    /\ losses < MaxLosses
    /\ losses' = losses + 1
    /\ net' = net \ {f}
    /\ UNCHANGED <<now, motion, sender, observer>>

-----------------------------------------------------------------------------
(* The observer uses what it knows, and forgets.                           *)

\* PerformMaintenance: the purge of both tables.
PerformMaintenance ==
    /\ now = maint
    /\ maint' = now + MaintenanceInterval
    /\ zone' = Purge(zone, now)
    /\ global' = Purge(global, now)
    /\ UNCHANGED <<now, motion, sender, net, heard, losses>>

\* What a data header says of a destination the node has an entry of.
TargetOf(e) == [position |-> e.position, velocity |-> e.velocity, timestamp |-> e.timestamp]

\* The copy of a global entry starts a life of its own.
FreshCopy_Mutant(e) == [e EXCEPT !.expiry = now + 3 * GlobalUpdateInterval]

\* What ForwardInterZone writes to the zone table of the global entry it used: all of it.
ZoneCopy(e) == e

Payload == Field(1, 0)

\* The header RouteOutput puts on a packet to the peer.  BestNeighbor may find a next
\* hop or not, in which case the packet is broadcast in phase 2.
DataHeaders ==
    LET inZone == Peer \in DOMAIN zone
        inGlobal == Peer \in DOMAIN global
        target == IF inZone THEN TargetOf(zone[Peer])
                  ELSE IF inGlobal THEN TargetOf(global[Peer])
                  ELSE [position |-> MyPosition, velocity |-> MyVelocity, timestamp |-> now]
        phases == {2} \union (IF inZone THEN {0} ELSE IF inGlobal THEN {1} ELSE {})
    IN  {[destinationPosition |-> target.position, destinationVelocity |-> target.velocity,
          destinationTimestamp |-> target.timestamp,
          senderPosition |-> MyPosition, senderVelocity |-> MyVelocity,
          phaseFlags |-> phase, hopCount |-> 0] : phase \in phases}

\* What RouteOutput does to the tables; the packet itself is left to LadzrpMpf.
RouteOutput ==
    /\ DOMAIN zone = {} /\ DOMAIN global # {}
    /\ zone' = AddOrUpdate(zone, Peer, ZoneCopy(global[Peer]))
    /\ UNCHANGED <<now, motion, sender, net, global, heard, maint, losses>>

-----------------------------------------------------------------------------
(* The world.                                                              *)

\* External: the peer changes its velocity.
Turn ==
    /\ turns < MaxTurns
    /\ \E v \in Velocities \ {vel} : vel' = v
    /\ turned' = now
    /\ turns' = turns + 1
    /\ UNCHANGED <<now, pos, sender, net, observer, losses>>

\* Simulated time passes once everything due has happened.
Tick ==
    /\ now < MaxTime
    /\ now < hello /\ now < check /\ now < maint
    /\ \A f \in net : now < f.due
    /\ now' = now + 1
    /\ pos' = Extrapolated(pos, vel, 1)
    /\ UNCHANGED <<vel, turned, turns, sender, net, observer, losses>>

Next ==
    \/ SendHello
    \/ MaybeSendGlobalUpdate
    \/ \E f \in net : RecvControl(f) \/ Lose(f)
    \/ PerformMaintenance
    \/ RouteOutput
    \/ Turn
    \/ Tick

TrackingSpec == Init /\ [][Next]_vars

-----------------------------------------------------------------------------
(* Properties.                                                             *)

\* PredictPosition.
PredictPosition(e) == Extrapolated(e.position, e.velocity, now - e.timestamp)

Narrowed(u) == [x |-> EncodeFloat(u.x), y |-> EncodeFloat(u.y)]

NarrowedHello(h) ==
    [h EXCEPT !.sourcePosition = Narrowed(@), !.sourceVelocity = Narrowed(@),
              !.lastHopPosition = Narrowed(@), !.averageHopDistance = EncodeFloat(@)]

NarrowedUpdate(h) == [h EXCEPT !.position = Narrowed(@), !.velocity = Narrowed(@)]

NarrowedData(h) ==
    [h EXCEPT !.destinationPosition = Narrowed(@), !.destinationVelocity = Narrowed(@),
              !.senderPosition = Narrowed(@), !.senderVelocity = Narrowed(@)]

\* Whatever is to be sent now is read back field by field, its coordinates as near as a
\* float comes, and taking the headers off leaves exactly what they were put before:
\* the sizes, the order and the widths of Serialize and Deserialize agree; and what was
\* read comes through another hop unchanged, however many relays there are.
HeadersIntact ==
    /\ now = hello =>
          Received(Packed(HELLO, Ttl, HelloBody)) =
              [kind |-> HELLO, ttl |-> Ttl, body |-> NarrowedHello(HelloBody), rest |-> <<>>]
    /\ now = check =>
          Received(Packed(GLOBAL_UPDATE, Ttl, GlobalUpdateBody)) =
              [kind |-> GLOBAL_UPDATE, ttl |-> Ttl, body |-> NarrowedUpdate(GlobalUpdateBody),
               rest |-> <<>>]
    /\ \A f \in net : f.due = now => Sent(f.kind, f.ttl, f.body, 0) = f
    /\ \A h \in DataHeaders :
          LET packet == AddHeader(<<Payload>>, DataHeaderSize, SerializeData(h))
          IN  /\ DeserializeData(packet) = NarrowedData(h)
              /\ RemoveHeader(packet, DataHeaderSize) = <<Payload>>

\* How far a narrowed position may be off.
Larger(m, n) == IF m < n THEN n ELSE m
Rounding(u) ==
    LET ulp == Larger(Ulp(u.x), Ulp(u.y)) IN IF ulp = 1 THEN 0 ELSE ulp

Speed(v) == Abs(v.x) + Abs(v.y)
Within(u, v, r) == Distance2(u, v) =< r * r

\* Dead reckoning keeps its promise: as long as the observer's global entry is of the
\* last announcement, the position extrapolated from it is off by no more than the
\* threshold the peer checks against (for the largest average hop distance), what two
\* velocities can part since the last check, and the rounding to floats, the one of the
\* velocity for as long as it has been extrapolated.
PredictionBound ==
    \A p \in DOMAIN global :
        global[p].timestamp = lastGlobal.timestamp =>
            \E avgHd \in Densities, v \in Velocities :
                Within(PredictPosition(global[p]), pos,
                       Threshold(avgHd) + 2 * Speed(v) * (now - (check - GlobalUpdateInterval))
                           + Rounding(lastGlobal.position)
                       + Rounding(lastGlobal.velocity) * (now - lastGlobal.timestamp))

\* What the lifetime of the zone entry was computed with: the radius, and whether the
\* peer seemed inside it (before it, behind it) when the HELLO was taken in.
OfHello(p) == p \in DOMAIN zone /\ ~zone[p].ofUpdate
Straight(p) == turned =< zone[p].timestamp /\ zone[p].velocity = Narrowed(vel)
EntryRadius(p) == Threshold(zone[p].averageHopDistance)
StartedInside(p) ==
    Distance2(zone[p].position, zone[p].lastHopPosition) < EntryRadius(p) * EntryRadius(p)
StartedOutside(p) ==
    Distance2(zone[p].position, zone[p].lastHopPosition) > EntryRadius(p) * EntryRadius(p)

\* The position in a HELLO is taken for the present one however long the HELLO was
\* under way, and the velocity for exact: the peer may be this much off the course it is
\* given.
Slack(p) ==
    Speed(vel) * (heard - zone[p].timestamp)
    + Rounding(zone[p].position) + Rounding(zone[p].velocity) * (now - heard)

\* A lifetime ends no later than the first crossing of the sphere: while an entry made
\* of a HELLO has not expired and the peer keeps its course, the peer stays on the side
\* of the sphere, inside or outside, it was on when the entry was made.
SameSideWhileValid ==
    OfHello(Peer) /\ Straight(Peer) /\ now =< zone[Peer].expiry =>
        /\ StartedInside(Peer) =>
              Within(pos, MyPosition, EntryRadius(Peer) + Slack(Peer))
        /\ StartedOutside(Peer) /\ EntryRadius(Peer) > Slack(Peer) =>
              LET r == EntryRadius(Peer) - Slack(Peer)
              IN  Distance2(pos, MyPosition) >= r * r

\* ... and it does not end before: of a peer that keeps its course, and does not move
\* with the observer, an entry that began inside the sphere is dropped only once the
\* peer has left the sphere.
DroppedOnlyAcross ==
    [][ OfHello(Peer) /\ Straight(Peer) /\ StartedInside(Peer)
        /\ zone[Peer].velocity # MyVelocity
        /\ Peer \notin DOMAIN zone' /\ EntryRadius(Peer) > Slack(Peer)
        => LET r == EntryRadius(Peer) - Slack(Peer)
           IN  Distance2(pos, MyPosition) >= r * r ]_vars

\* A node that is forgotten globally has been quiet for three update intervals, unless
\* updates were lost or are still under way.
ForgottenOnlyWhenQuiet ==
    [][ DOMAIN global # {} /\ DOMAIN global' = {} =>
        \/ losses > 0
        \/ \E f \in net : f.kind = GLOBAL_UPDATE
        \/ now > lastGlobal.timestamp + 3 * GlobalUpdateInterval ]_vars

\* The copy of a global entry that forwarding leaves in the zone table, where it hides
\* newer global entries, never outlives the global entry of that node.
CopyNotOutliving ==
    \A p \in DOMAIN zone :
        zone[p].ofUpdate => p \in DOMAIN global /\ zone[p].expiry =< global[p].expiry
=============================================================================
