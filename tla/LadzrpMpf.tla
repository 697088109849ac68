------------------------------ MODULE LadzrpMpf ------------------------------
(***************************************************************************)
(* Multi-phase forwarding: what RouteOutput and RouteInput of              *)
(* src/model/ladzrp-routing-protocol.cc do with a data packet at every     *)
(* node it comes through.  Phase 0 forwards greedily towards a destination *)
(* of the zone table, phase 1 towards one of the global table, and phase 2 *)
(* broadcasts when no neighbour is nearer or the destination is unknown.   *)
(*                                                                         *)
(* Nodes do not move while packets are under way; what a node believes of  *)
(* another one's position may be off by an error, which stands for the     *)
(* movement since the last announcement and for PredictPosition's guess.   *)
(* The link layer and the decrement of the IP TTL are the simulator's: a   *)
(* frame reaches the nodes within radio range, or is lost.                 *)
(***************************************************************************)
EXTENDS LadzrpRTable, Sequences, FiniteSets

CONSTANTS Nodes,        \* the addresses, in the order of std::map
          MaxAddress,   \* the highest address there may be
          AngleScale,   \* the cotangent of the tolerance for angles
          Layouts,      \* where the nodes may stand: functions Nodes -> Vector
          Errors,       \* how far off an announced position may be
          Range2,       \* the square of the radio range
          InitialTtl,   \* the TTL IP gives to a new packet
          MaxPackets,   \* bound on the packets originated
          MaxTableEvents  \* bound on the changes of tables by control traffic

ASSUME MpfAssumption ==
    /\ MaxAddress \in Nat /\ Nodes \subseteq 0..MaxAddress
    /\ AngleScale \in Nat \ {0}
    /\ Layouts \subseteq [Nodes -> Vector]
    /\ Errors \subseteq Vector
    /\ Range2 \in Nat
    /\ InitialTtl \in Nat /\ MaxPackets \in Nat /\ MaxTableEvents \in Nat

VARIABLES pos,          \* where each node stands
          zone,         \* each node's zone table: address -> believed position
          global,       \* each node's global table: address -> believed position
          net,          \* frames that arrived at a node and await RouteInput
          packets,      \* how many packets were originated
          delivered,    \* history: packets that reached their destination
          tableEvents   \* how often control traffic changed a table

vars == <<pos, zone, global, net, packets, delivered, tableEvents>>

\* A node that sent the packet on, in which phase, and whether it had an entry.
Hop == [node : Nodes, phase : 0..2, known : BOOLEAN]

Frame == [id : Nat,             \* the packet
          dst : Nodes,          \* the IP destination
          ttl : Nat,            \* the IP TTL
          at : Nodes,           \* the node that received it
          phase : 0..2,         \* GetPhaseFlags
          sender : Vector,      \* GetSenderPosition
          target : Vector,      \* GetDestinationPosition
          path : Seq(Hop)]      \* history: the nodes that sent it on

IsTable(table) == DOMAIN table \subseteq Nodes /\ table \in [DOMAIN table -> Vector]

TypeOK ==
    /\ pos \in Layouts
    /\ DOMAIN zone = Nodes /\ \A n \in Nodes : IsTable(zone[n])
    /\ DOMAIN global = Nodes /\ \A n \in Nodes : IsTable(global[n])
    /\ net \subseteq Frame
    /\ packets \in 0..MaxPackets
    /\ delivered \subseteq Nat
    /\ tableEvents \in 0..MaxTableEvents

Init ==
    /\ pos \in Layouts
    /\ zone = [n \in Nodes |-> [m \in {} |-> [x |-> 0, y |-> 0]]]
    /\ global = [n \in Nodes |-> [m \in {} |-> [x |-> 0, y |-> 0]]]
    /\ net = {}
    /\ packets = 0
    /\ delivered = {}
    /\ tableEvents = 0

Linked(n, m) == n # m /\ Distance2(pos[n], pos[m]) =< Range2

-----------------------------------------------------------------------------
(* The choice both entry points make at node n for destination d.          *)

InZone(n, d) == d \in DOMAIN zone[n]
InGlobal(n, d) == d \notin DOMAIN zone[n] /\ d \in DOMAIN global[n]
Unknown(n, d) == d \notin DOMAIN zone[n] /\ d \notin DOMAIN global[n]

\* The position in the entry found; fallback where there is none.
TargetOf(n, d, fallback) ==
    IF InZone(n, d) THEN zone[n][d] ELSE IF InGlobal(n, d) THEN global[n][d] ELSE fallback

\* The gateway ForwardIntraZone or ForwardInterZone sets, as a singleton; the empty
\* set stands for the broadcast gateway of ForwardBackup.
GatewayOf(n, d) ==
    IF Unknown(n, d) THEN {}
    ELSE BestNeighbor(zone[n], TargetOf(n, d, pos[n]), pos[n], AngleScale, MaxAddress)

\* No phase is set for a broadcast.
PhaseUnset_Mutant(n, d) ==
    IF GatewayOf(n, d) = {} THEN 255 ELSE IF InZone(n, d) THEN 0 ELSE 1

\* The phase of the lookup stays although no neighbour is nearer.
LookupPhase_Mutant(n, d) == IF Unknown(n, d) THEN 2 ELSE IF InZone(n, d) THEN 0 ELSE 1

\* The phase is what the lookup says, unless the gateway is broadcast.
PhaseOf(n, d) ==
    IF GatewayOf(n, d) = {} THEN 2 ELSE IF InZone(n, d) THEN 0 ELSE 1

\* ForwardInterZone stores the global entry it used in the zone table.
ZoneAfter(n, d) ==
    IF InGlobal(n, d) THEN [zone EXCEPT ![n] = AddOrUpdate(zone[n], d, global[n][d])]
    ELSE zone

\* The frames that arrive when n sends packet p on: to the gateway if the radio
\* reaches it, or to every node in range.
Arrivals(n, p, fallback) ==
    LET d == p.dst
        receivers == {m \in Nodes : Linked(n, m)
                                    /\ (GatewayOf(n, d) = {} \/ m \in GatewayOf(n, d))}
    IN  {[id |-> p.id, dst |-> d, ttl |-> p.ttl, at |-> m,
          phase |-> PhaseOf(n, d), sender |-> pos[n], target |-> TargetOf(n, d, fallback),
          path |-> Append(p.path, [node |-> n, phase |-> PhaseOf(n, d),
                                   known |-> ~Unknown(n, d)])] : m \in receivers}

-----------------------------------------------------------------------------
\* RouteOutput: node n originates a packet for d.  Of a destination it does not
\* know, it puts its own position into the header.
RouteOutput(n, d) ==
    /\ n # d
    /\ packets < MaxPackets
    /\ packets' = packets + 1
    /\ net' = net \union
              Arrivals(n, [id |-> packets + 1, dst |-> d, ttl |-> InitialTtl, path |-> <<>>],
                       pos[n])
    /\ zone' = ZoneAfter(n, d)
    /\ UNCHANGED <<pos, global, delivered, tableEvents>>

\* RouteInput at the destination hands the packet up.
Deliver(f) ==
    /\ f.at = f.dst
    /\ delivered' = delivered \union {f.id}
    /\ net' = net \ {f}
    /\ UNCHANGED <<pos, zone, global, packets, tableEvents>>

\* The check of the backup phase: a receiver no nearer than the sender drops it.
Admits_Mutant(f) == TRUE

\* The comparison with its sides exchanged.
AdmitsFarther_Mutant(f) ==
    f.phase = 2 => Distance2(f.sender, f.target) < Distance2(pos[f.at], f.target)

Admits(f) ==
    f.phase = 2 => Distance2(pos[f.at], f.target) < Distance2(f.sender, f.target)

\* RouteInput at another node drops the packet ...
Drop(f) ==
    /\ f.at # f.dst
    /\ ~Admits(f)
    /\ net' = net \ {f}
    /\ UNCHANGED <<pos, zone, global, packets, delivered, tableEvents>>

\* ... or sends it on, with its own position as the sender's.  When it does not
\* know the destination, the header keeps the target it came with.  IP decrements the
\* TTL after that, and drops a packet whose TTL is used up.
Relay(f) ==
    /\ f.at # f.dst
    /\ Admits(f)
    /\ net' = (net \ {f}) \union
              (IF f.ttl > 1
               THEN Arrivals(f.at, [id |-> f.id, dst |-> f.dst, ttl |-> f.ttl - 1,
                                    path |-> f.path], f.target)
               ELSE {})
    /\ zone' = ZoneAfter(f.at, f.dst)
    /\ UNCHANGED <<pos, global, packets, delivered, tableEvents>>

\* The radio loses a frame.
Lose(f) ==
    /\ net' = net \ {f}
    /\ UNCHANGED <<pos, zone, global, packets, delivered, tableEvents>>

-----------------------------------------------------------------------------
(* Control traffic, as far as forwarding sees it.                          *)

Believed(m, e) == [x |-> pos[m].x + e.x, y |-> pos[m].y + e.y]

\* A HELLO of m is accepted at n, which one hop of the radio connects: a node with
\* one radio interface relays no HELLO, since it sends none back where it came from.
HearHello(n, m, e) ==
    /\ tableEvents < MaxTableEvents
    /\ Linked(n, m)
    /\ zone' = [zone EXCEPT ![n] = AddOrUpdate(@, m, Believed(m, e))]
    /\ tableEvents' = tableEvents + 1
    /\ UNCHANGED <<pos, global, net, packets, delivered>>

\* A GLOBAL_UPDATE of m is accepted at n, from however far.
HearGlobalUpdate(n, m, e) ==
    /\ tableEvents < MaxTableEvents
    /\ n # m
    /\ global' = [global EXCEPT ![n] = AddOrUpdate(@, m, Believed(m, e))]
    /\ tableEvents' = tableEvents + 1
    /\ UNCHANGED <<pos, zone, net, packets, delivered>>

Without(table, m) == [q \in DOMAIN table \ {m} |-> table[q]]

\* Maintenance drops n's entries of m that ran out.
Expire(n, m) ==
    /\ tableEvents < MaxTableEvents
    /\ m \in DOMAIN zone[n] \union DOMAIN global[n]
    /\ \/ zone' = [zone EXCEPT ![n] = Without(@, m)] /\ UNCHANGED global
       \/ global' = [global EXCEPT ![n] = Without(@, m)] /\ UNCHANGED zone
    /\ tableEvents' = tableEvents + 1
    /\ UNCHANGED <<pos, net, packets, delivered>>

-----------------------------------------------------------------------------
RouteInput(f) == Deliver(f) \/ Drop(f) \/ Relay(f)

Next ==
    \/ \E n, d \in Nodes : RouteOutput(n, d)
    \/ \E f \in net : RouteInput(f)
    \/ \E f \in net : Lose(f)
    \/ \E n, m \in Nodes, e \in Errors : HearHello(n, m, e)
    \/ \E n, m \in Nodes, e \in Errors : HearGlobalUpdate(n, m, e)
    \/ \E n, m \in Nodes : Expire(n, m)

Spec == Init /\ [][Next]_vars

-----------------------------------------------------------------------------
DistanceTo(d, n) == Distance2(pos[n], pos[d])

(***************************************************************************)
(* Greedy forwarding makes progress (BestNeighbor, ladzrp-rtable.cc:349;   *)
(* RouteInput, ladzrp-routing-protocol.cc:1007-1017): with positions that  *)
(* are announced without error, every node that sends a packet on is       *)
(* strictly nearer to the destination than the one before it, whatever the *)
(* tables of the nodes hold and however the phases alternate.              *)
(***************************************************************************)
GreedyProgress ==
    \A f \in net : \A i \in DOMAIN f.path : \A j \in DOMAIN f.path :
        i < j => DistanceTo(f.dst, f.path[j].node) < DistanceTo(f.dst, f.path[i].node)

\* No node sends a packet on twice.
NoRevisit ==
    \A f \in net : \A i \in DOMAIN f.path : \A j \in DOMAIN f.path :
        i # j => f.path[i].node # f.path[j].node

(***************************************************************************)
(* What makes GreedyProgress inductive: the receiver of a unicast frame is *)
(* nearer than its sender; a broadcast frame aims at the destination or,   *)
(* blindly, at its own sender, whom no receiver can be nearer to.          *)
(***************************************************************************)
AimedForward ==
    \A f \in net :
        /\ Len(f.path) > 0
        /\ LET last == f.path[Len(f.path)].node
           IN  /\ last \in Nodes
               /\ f.phase # 2 => /\ f.target = pos[f.dst]
                                 /\ DistanceTo(f.dst, f.at) < DistanceTo(f.dst, last)
               /\ f.phase = 2 => /\ f.sender = pos[last]
                                 /\ f.target \in {pos[f.dst], f.sender}

AccurateTables ==
    \A n \in Nodes :
        /\ \A m \in DOMAIN zone[n] : zone[n][m] = pos[m]
        /\ \A m \in DOMAIN global[n] : global[n][m] = pos[m]

IInv == AccurateTables /\ AimedForward /\ GreedyProgress

(***************************************************************************)
(* A packet broadcast because its source knew nothing of the destination   *)
(* is heard one hop away and never sent on, even by a node that knows the  *)
(* destination well: the header aims at the source itself                  *)
(* (ladzrp-routing-protocol.cc:876-880, 1011-1016).                        *)
(***************************************************************************)
BlindStaysLocal ==
    \A f \in net : Len(f.path) > 1 => f.path[1].known

(***************************************************************************)
(* Nothing but a backup broadcast multiplies a packet                      *)
(* (ladzrp-routing-protocol.cc:961-974): two copies of one packet went the *)
(* same way up to a hop that broadcast it, and no packet that every node   *)
(* had a next hop for exists twice.                                        *)
(***************************************************************************)
CopiesPartAtBroadcast ==
    \A f, g \in net : f # g /\ f.id = g.id =>
        \E k \in DOMAIN f.path \intersect DOMAIN g.path :
            /\ f.path[k].phase = 2
            /\ SubSeq(f.path, 1, k) = SubSeq(g.path, 1, k)

-----------------------------------------------------------------------------
(***************************************************************************)
(* What BestNeighbor promises although its ties are not transitive and its *)
(* result depends on the order of the table (ladzrp-rtable.cc:363-373):    *)
(* whatever the table, and wherever the node and the destination are, the  *)
(* neighbour chosen is nearest of those, from an anchor on, whose angles   *)
(* tie with the anchor's; no angle at all is smaller than the anchor's by  *)
(* more than the tolerance, and none before the anchor's is as small.  A   *)
(* chain of ties never carries the choice away from the anchor.            *)
(***************************************************************************)
BestWithinTolerance ==
    \A n, origin, target \in Nodes :
        LET there == pos[target]
            here == pos[origin]
            candidates == Nearer(zone[n], there, here)
            best == BestNeighbor(zone[n], there, here, AngleScale, MaxAddress)
            smaller(q, r) == SmallerAngle(zone[n][q], zone[n][r], there, here, AngleScale)
            far(q) == Distance2(zone[n][q], there)
        IN  /\ best = {} <=> candidates = {}
            /\ \A b \in best : \E m \in candidates :
                  /\ b \in candidates /\ m =< b /\ ~smaller(m, b)
                  /\ \A c \in candidates :
                        /\ ~smaller(c, m)
                        /\ c < m => LeadSine(zone[n][m], zone[n][c], there, here) > 0
                        /\ c >= m /\ ~smaller(m, c) =>
                              far(b) < far(c) \/ (far(b) = far(c) /\ b =< c)

(***************************************************************************)
(* The next hop is chosen among the neighbours, and the route's gateway is *)
(* the neighbour chosen (ladzrp-routing-protocol.cc:768, 906): whatever    *)
(* packet a node is asked to route, its radio reaches the gateway.         *)
(***************************************************************************)
GatewayIsNeighbour ==
    \A n \in Nodes : \A d \in Nodes \ {n} : \A g \in GatewayOf(n, d) : Linked(n, g)
=============================================================================
