# A TLA+ model of LADZRP

LADZRP is an ns-3 routing protocol for mobile ad hoc nodes with directional
antennas. Each node keeps two tables of other nodes' positions (two-tier location
maintenance, TTLM), filled by two flooded control messages, and forwards data
greedily by position in up to three phases (multi-phase forwarding, MPF). This
directory holds TLA+ modules for the protocol, the TLC configurations that check
them, and TLAPS proofs. `cc` below is `src/model/ladzrp-routing-protocol.cc`.

## The system

| Component | State | Operations |
|---|---|---|
| Duplicate filter, `ladzrp-id-cache` | `m_idCache` (pairs of originator and sequence number, with expiry), `m_lifetime` | `IsDuplicate` (purge, search, insert), `Purge`, `GetSize`, `SetLifetime` |
| Routing tables, `ladzrp-rtable` | `m_zoneTable`, `m_globalTable`: address to position, velocity, timestamp, expiry, statistics, suppression | `Lookup*`, `AddOrUpdate*`, `Purge`, `GetZoneSnapshot`, `BestNeighbor`, `ComputeAverageHopDistance` |
| TTLM, in `RoutingProtocol` | both tables, `m_maintenanceEvent` | `ProcessHello`, `ProcessGlobalUpdate`, `PerformMaintenance`, `SendUnicastRequest`, `ComputeLifetime`, `ComputeSuppressionWindow` |
| Control floods, in `RoutingProtocol` | `m_sequenceNumber`, `m_idCache`, frames under way | `SendHello`, `MaybeSendGlobalUpdate`, `ProcessUnicastRequest`, `RecvControl`, the relaying halves of `Process*` |
| MPF, in `RoutingProtocol` | the data header (phase, sender, target) and what forwarding writes into the tables | `RouteOutput`, `RouteInput`, `ForwardIntraZone`, `ForwardInterZone`, `ForwardBackup` |
| Lifecycle, in `RoutingProtocol` | three timers, `m_socketAddresses`, `m_mainAddress`, `m_ipv4` | `SetIpv4`, `Start`, `Stop`, the `Notify*` handlers, `DoDispose` |
| Packet buffer, `ladzrp-rqueue` | `m_queue`, `m_maxLen`, `m_queueTimeout` | `Enqueue`, `Dequeue`, `DropPacketWithDst`, `Find`, `GetSize`, setters. Compiled, but instantiated nowhere |
| Packet headers, `ladzrp-packet` | none | `GetSerializedSize`, `Serialize`, `Deserialize` of four headers, with `EncodeFloat` and the vector and time helpers |
| Dead reckoning and lifetimes, in `RoutingProtocol` | `m_lastGlobalPosition`, `-Velocity`, `-Timestamp`; position, velocity, timestamp and expiry of entries | `MaybeSendGlobalUpdate`'s deviation test, `PredictPosition`, `PredictFromHeader`, `ComputeLifetime` |
| Helper | none | an object factory |
| Example | the settings and counters of one experiment | an experiment with a flying network, one ad hoc Wi-Fi device to a node, under a protocol of choice |
| Test suite, documentation | none | unfilled templates of a module |

How they interact: the simulator runs one event at a time, so every handler is
atomic; concurrency is the order of events within a node and of messages between
nodes. `RecvControl` hands a message to `ProcessHello` or `ProcessGlobalUpdate`,
which ask the duplicate filter, write a table and relay. A `UNICAST_REQUEST` is
answered by a HELLO to the requester alone. IP calls `RouteOutput` and
`RouteInput`, which read the tables *and write them*: success counts always, and
for an inter-zone packet the whole entry of the destination. Maintenance purges
both tables every second and sends requests, which again go through
`RouteOutput`. The IPv4 stack reports interface events, which start the sockets
and timers or start them over.

What is hard: entries used after they expired; the copies maintenance works on;
timers that are restarted or die; copies of a message that meet over cycles, late or
out of order; forwarding decisions based on tables that differ from node to node;
equality tests at boundaries (expiry, distance, queue length); packets that must
have one fate. `PROJECT.json` lists these hazards at their lines.

What makes each component correct:

* filter: a pair is known for one lifetime from its first question, no shorter, no
  longer;
* TTLM: no entry outlives its expiry by more than the maintenance schedule allows;
  a peer is asked before its entry is dropped, and not too often;
* floods: they end, reach the zone, and are taken in once by every node;
* MPF: packets come nearer to their destination, do not loop, and arrive when
  they can;
* refresh: a peer that answers is forgotten only after repeated mishaps, and is not
  asked while a request or an answer is under way;
* dead reckoning: what others extrapolate is as near to a node as its threshold
  promises; a lifetime ends at the first crossing of the zone sphere; headers are
  read back as they were written;
* lifecycle: maintenance never stops, no address is bound twice, nothing runs
  after disposal, the main address has a socket;
* buffer: every packet accepted has one fate, in order and in time.

## The modules

| Module | Models | Composes |
|---|---|---|
| `LadzrpDupFilter` | the promise of the filter (abstract) | |
| `LadzrpIdCache` | `ladzrp-id-cache.{h,cc}` | implements `LadzrpDupFilter` |
| `LadzrpRTable` | entries, tables and `BestNeighbor`'s loop as operators | |
| `LadzrpTtlm` | TTLM at one node | `LadzrpRTable` |
| `LadzrpRefresh` | requests and answers between maintenance and the peers, late or lost | `LadzrpTtlm` with a network |
| `LadzrpWire` | the four headers, `ladzrp-packet.{h,cc}`, as operators | `LadzrpRTable` (vectors) |
| `LadzrpTracking` | a node that moves, seen by another: HELLO, dead reckoning, lifetimes, purge | `LadzrpWire`, `LadzrpRTable` |
| `LadzrpMpf` | MPF over several nodes | `LadzrpRTable` |
| `LadzrpFlood` | the two floods over several nodes and interfaces | uses the filter as `LadzrpDupFilter` states it |
| `LadzrpLifecycle` | sockets and timers of a node | |
| `LadzrpRequestQueue` | `ladzrp-rqueue.{h,cc}` | |
| `Ladzrp*Proofs` | proofs about the module they are named after; those about `LadzrpTtlm` open `LadzrpRefreshProofs` | |
| `MC*` | instances for TLC | |

An operator whose name ends in `_Mutant` is a seeded fault: a plausible mistake
in the definition that follows it. It is used by nothing; `PROJECT.json` names the
property that must fail when it takes that definition's place.

### State and actions, and the code

**LadzrpIdCache.** `cache` is `m_idCache` as a set (the code never looks at its
order), one action per method. `accepts` and `until` record what was answered. In
`LadzrpDupFilter` forgetting happens as time passes; the refinement mapping takes
the live records for the known pairs.

**LadzrpTtlm.** One node and its peers. `zone` maps a peer to the fields
maintenance reads (expiry, hop count, attempts, failures, suppression, last
request), `global` to an expiry. `ProcessHello` builds a fresh entry, as the code
does, which forgets statistics and suppression; its lifetime is any member of
`Lifetimes`. `SendData` is the effect of `RouteOutput` or `RouteInput` on the
tables, with any neighbour, or none, chosen; `ForwardInterZone` stores the global
entry in the zone table. `PerformMaintenance` is one atomic pass: purge, then the two
branches on a copy of each entry, with the counts the requests themselves cause
free within their bound. `NotifyInterfaceDown` restarts the timer.

**LadzrpRefresh.** Every action of `LadzrpTtlm` is one here, joined with what it
does to the messages under way. `Maintain` puts as many requests to a peer on the
way as the pass sent; `ProcessUnicastRequest` turns one into an answer, and
`ReceiveAnswer` is `ProcessHello`. A request that routing leads nowhere, and a peer
that has no mobility model, are both `Lose`. `passes` and `mishaps` count, per
entry, the passes it survived and what went wrong, up to the number of passes the
advance reaches over.

**LadzrpWire.** A packet is a sequence of fields with their widths in bytes, so that a
size that does not fit, a different order or a different width changes what is read.
`EncodeFloat` rounds to the nearest float, to the even one on a tie, as the conversion to
`float` does: whole numbers below `Significands` (2^24 in the code) are floats, and the
distance between floats (`Spacing`, a recursive function, so that it can be proved about)
doubles whenever the number does. `AddHeader` and `RemoveHeader` move as many bytes as the
sizes say.

**LadzrpTracking.** A peer moves at integer velocities and may turn; the observer
moves on a straight line; a relay may stand between them. A message under way is
kept as what will be read from it: `Sent` writes both headers, takes them off and
reads them. `ComputeLifetime` solves the quadratic as the code does, with the square
roots rounded so that the result is the last whole instant not after the crossing;
`IsExpired` compares whole instants, so nothing is lost by it. The average hop
distance beyond the first hop, and the one the peer computes of its own table, are
members of `Densities`. The clock starts at 1, because an expiry of 0 means none.
Of `RouteOutput` the module has the header that it writes and the copy of the
global entry in the zone table; next hops are `LadzrpMpf`'s. `ofUpdate` is a history:
it tells the copy from an entry made of a HELLO, which the code, where
`AddOrUpdateZone` clears `m_isGlobal` and nothing reads it, does not.

**LadzrpMpf.** `zone` and `global` of each node map addresses to believed
positions; a frame carries the header's phase, sender and target. Prediction, and
movement, are one idea here: an announced position may be off by a member of
`Errors`. `GatewayOf`, `PhaseOf` and `ZoneAfter` are the lookups and forwarding
functions, used by `RouteOutput` and `Relay` alike. `Drop` is the packet that is not the
node's to relay; one whose TTL ends is lost in `Relay`, after the forwarding function has
written its copy of the global entry into the zone table. Distances are compared by
their squares, on integer coordinates of the plane. `BestNeighbor` is the code's loop
(`Consider` is one turn): on a tie of angles within the tolerance the nearer neighbour
takes the place of the one kept, and the angle to compare with stays that of the
`anchor`. Two angles are compared by the sine and the cosine of their difference, and the
tolerance is given by its cotangent, `AngleScale`: about 10^6 stands for the 1e-6 of
`ladzrp-rtable.cc:363`. `HearHello`, `HearGlobalUpdate` and `Expire` stand for control traffic.

**LadzrpFlood.** A frame goes from an interface to every interface that hears it, each
after a delay of its own, and may be lost. A HELLO is not relayed to the interface that
received it; a GLOBAL_UPDATE is compared with the neighbour's address, as in the code, and
so goes to all. Originations of a node are at least `Pause`, and never less than an
instant, apart: events due at the same instant are in no order here, while the simulator
keeps the order they were scheduled in. `IgnoreHello` is the node without a mobility
model, which remembers the pair all the same.

**LadzrpLifecycle.** `timers` is the set of running events, `sockets` the
interfaces bound. Every notification ends in `Start`, an operator on the sockets and
events as they were, which does nothing while any event runs.

**LadzrpRequestQueue.** The vector, with the calls of `ErrorCallback` and the
packets dequeued as histories. `Remaining` is erasing, of what has expired, of a
destination's packets, or of one place. `Find`, which changes nothing and does not
even purge, has no action.

## Runs

| Run | What it shows | Bounds |
|---|---|---|
| `id_cache` | no pair new again too early; the lazy cache implements the filter | 2 pairs, lifetimes 0, 1, 3, changed at will; 7 instants |
| `ttlm` | bound on stale entries; request before purge; one request per pass; requests spaced | 2 peers, lifetimes shorter and longer than the interval, 5 instants of half a second, 1 restart |
| `refresh` | a peer that answers survives losses; one request or answer under way | 1 peer, 12 instants, 3 to an interval, advance over 2 passes, delays 0 and 1, any losses, 1 restart |
| `tracking` | headers read back; error of the extrapolation; lifetimes against crossings; who is forgotten; copies of global entries | 2 starts, 4 velocities, 1 turn, floats exact below 4, delays 0 and 1, a relay, 1 loss, 6 instants |
| `mpf` | every hop comes nearer; blind packets stay local; copies part only at broadcasts | 3 nodes in 4 layouts, 1 packet, 4 table changes at any time |
| `mpf_static` | the first packet arrives (liveness); where angles nearly tie, `BestNeighbor` stays within the tolerance of an angle none undercuts | 5 nodes in 4 layouts without local minimum, any nodes informed, a tolerance wide enough for ties that are not transitive |
| `mpf_far_gateway` | *violated:* the gateway is a neighbour | as `mpf` |
| `flood` | each node takes a message once; hop counts; floods end; how far an entry falls back | a triangle with a tail, one node without mobility model, 2 messages of one node, 3 instants apart or more, delays 1 and 2, loss |
| `flood_wires` | HELLO and update cover what they can reach although longer ways may be faster | the same wires, 1 message of any node, TTL 3 and 4, delays 1 and 2, no loss |
| `flood_radio` | *violated:* "the regular HELLO covers the whole zone" | a chain of 4 nodes, one radio interface each |
| `lifecycle` | no double bind, maintenance goes on, the main address is bound | 3 interfaces; all reachable states, no bound |
| `request_queue` | one fate, order, timeout, oldest makes room | 2 packets, 2 destinations, limits 1 and 2, 3 accepted |

Why the bounds are enough. `id_cache`: a lifetime longer than another, expiry and a second
acceptance all fit in seven instants, and pairs never affect each other but through the
purge. `ttlm`: five instants hold two passes, and three with a restart; the hold of 3
outlasts one interval and not two, so a request can be both suppressed and repeated; peers
are symmetric. `refresh`: a request and its answer fit between two passes (`AnswersInTime`
in `MCRefresh`, which `LossTolerance` needs), and the advance of two passes leaves one
chance after a loss; twelve instants hold four passes. `tracking`: an announcement can be
made at 2, be off course by the turn at once, and run out at 6; the starts lie inside and
outside the sphere, and a coordinate of 9 no longer fits three bits; crossings come after
one to four instants and HELLOs every three, so that entries run out as well as being
replaced. `mpf`: three nodes are the fewest with a relay, and four table changes let both
tables of source and relay fill or empty while the packet is under way. `mpf_static`: the
fourth layout shows the first node three angles to the last one of which the first ties
with the second and the second with the third, but not the first with the third, so that a
loop that brought `bestAngle` up to date on a tie would choose another neighbour. `flood`:
the triangle makes copies meet; the lifetime of 3 is the least that `FloodDies` allows
(delay bound times TTL, less one), with 2 `OncePerNode` fails; with a pause of 3 the
second message overtakes the first, by exactly what `OrderKeptBetweenFloods` allows.
`flood_wires`: a copy that has gone two sides of the triangle at a delay of 1 each is due
with one that took the third side at a delay of 2; it may be taken first, and has one hop
less to go. `request_queue`: three packets make a queue of two overflow, and the limit
changes at any time.

The clock, message counts, attempts, restarts and table changes are bounded by the
constants `Max...`; where a bound stops the system the configuration says
`CHECK_DEADLOCK FALSE`. `id_cache` and `lifecycle` never stop and check deadlock.

**Fairness.** Only `mpf_static` needs it: weak fairness of receiving a frame. The
simulator runs `RouteInput` for every frame that arrives; no frame is lost there,
and nothing is assumed of when applications send.

## What the violated runs say

* `GatewayIsNeighbour`. `ForwardInterZone` stores the *global* entry of a distant
  destination with `AddOrUpdateZone` (cc:942, 957). From the next packet on the
  destination is in the zone table; it lies in exactly its own direction, so
  `BestNeighbor` picks it, and the packet is sent to a gateway no radio reaches.
* `HellosCoverZone` on radio. A HELLO goes to every interface but the receiving one
  (cc:393), so nodes with one radio interface never relay it: the TTL of
  `m_zoneRadiusHigh` has no effect, in the repository's own example, too. GLOBAL_UPDATE
  is relayed there, because it is compared with another address (cc:496).

Further behaviour met on the way that the models have and no run states:

* Every relay with an entry of its own overwrites the target in the data header
  (cc:1034-1037). Two nodes that believe the destination on opposite sides can
  broadcast the same packet back and forth until its TTL runs out, although cc:1009
  says that the test on distances avoids loops.
* `Start` returns at once while any timer runs (cc:155), and maintenance always
  runs: an interface configured after `SetIpv4` gets no socket until some
  interface goes down, although cc:160 says each interface gets one.
* A HELLO that replaces an entry forgets its suppression, so requests can be closer
  together than `MinRequestHold` (`OneInFlight` says what remains true).
* The zone copy of a global entry hides every later GLOBAL_UPDATE of that node until
  the copy expires, since the zone table is asked first. The two entries are distinct
  afterwards; `CopyNotOutliving` says only that the copy ends no later.
* Nothing compares timestamps when an entry is replaced. `OrderKeptBetweenFloods` bounds
  how old a message may be that replaces a newer one; within that bound it may.
* `Start` looks for the main address from interface 0 on (cc:165), which is the loopback
  in ns-3. The models take main addresses as distinct, as the duplicate filter does.
* `Start` takes the node's motion for announced without having announced it
  (cc:187-193): a node that goes on as it started sends no GLOBAL_UPDATE, ever.
* GLOBAL_UPDATEs are echoed to where they came from, in spite of the comment at
  cc:500; HELLO and update timers die if they fire before there is a mobility model.
* A queue limit lowered under the present length is never enforced (`==` at
  `ladzrp-rqueue.cc:35`), and a limit of 0 reads the front of an empty vector.

## Proofs

TLAPS proves, for all values of the constants within the named assumptions:

* **LadzrpIdCacheProofs.** `CacheInvariant`: at most one record of a pair, and a
  pair whose time has not run out has its record. Without the second part the
  first says nothing about answers; together with typing it is inductive. From it
  `FilterHolds` (`NoEarlyReaccept`) and the refinement
  `LazyPurgeImplementsFilter`: purging is a stutter of the filter, since only dead
  records go.
* **LadzrpRefreshProofs, about LadzrpTtlm.** The properties are not inductive alone. `IInv` adds that
  nothing had expired at the last pass (`SweptAtLastMaintenance`), that the timer
  is late by at most one interval per restart (`TimerOnTime`), that what was left
  unasked was not near its expiry (`AskedWhenNearExpiry`) and that suppression
  comes from a request and lasts the smaller hold (`SuppressedByRequest`). Each is
  proved in a lemma of its own. `StalenessBounded` follows from the first two,
  `RequestsSpaced` and `NoDoubleRequest` from the last, and `RefreshPrecedesPurge`
  from all, under the assumption `PreExpiryAdvance >= MaintenanceInterval` (which
  the defaults, 1 s and 1 s, meet with nothing to spare).
* **LadzrpRefreshProofs, about LadzrpRefresh.** `RefreshImplementsTtlm`: whatever the network does, each
  step is one of `LadzrpTtlm` or leaves the tables alone, so that everything proved of
  the tables holds for them here. `NeverTwoInFlight` assumes `AnswersInTime`, that a
  request and its answer take less than a maintenance interval; the invariant
  (`BeforeNextPass`) is that whatever is under way, and the answer it may still cause,
  arrives before the next pass. `LossesTolerated` assumes `HoldsAreShort`, too: the
  smaller hold and a fifth of the advance fit into an interval (200 ms, and 200 ms of
  the default advance of 1 s, into 1 s). Its invariant (`MadeUpFor`) weighs an entry's
  mishaps, counting what is still under way as one, against the passes left until it
  expires, and says that suppression from an unanswered request is over when the next
  pass comes.
* **LadzrpMpfProofs.** `PacketsComeNearer` and `LoopFreedom`, when positions are
  announced without error (`Errors` holds only the null vector). The strengthening
  says that a unicast frame is at a node nearer than its sender, and that a
  broadcast frame aims at the destination or at its own sender; in either case
  whoever is admitted is nearer. `BlindPacketsStayLocal` and
  `OnlyBroadcastsMultiply` need no such assumption; the latter's invariant
  (`CopiesParted`) adds to `CopiesPartAtBroadcast` that no frame has a number not given
  out yet, so that a new packet starts a way of its own. `ChoiceWithinTolerance` is about
  `BestNeighbor` in one state: ties are not transitive, so that the neighbour kept need
  not be the best of anything, and the invariant of the loop is about the `anchor`. No
  neighbour's angle undercuts the anchor's by more than the tolerance (`AnglesCompare`: a
  smaller anchor only makes that harder, as long as all angles are less than a right
  angle, which `CandidatesAhead` gets from the test of distances), none before the anchor
  is as small, and what is kept is the nearest, from the anchor on, that ties with it
  (`OneTurn`, `ThePass`). Addresses end at `MaxAddress`, in the code at 32 bits.
  `PacketsComeNearer` needs no more of the loop than that it keeps a neighbour nearer to
  the destination, however angles tie.
* **LadzrpFloodProofs.** `FloodsDie` is inductive with typing: a relay spends one hop
  and at most one delay. `TakenOnce` assumes `LifetimeCoversFloods`, `Lifetime + 1 >=
  MaxDelay * UpdateTtl`, which is as small as it can be (one less, and the run finds a
  node that takes a message twice); it needs that copies of a message bear one
  timestamp (`OneTimestamp`), later than which every node took it, and that the
  filter remembers what was taken for its lifetime (`Remembered`). `HopCountsSound`
  needs that a HELLO under way has made the hops it counts, and has no more left than
  its TTL (`HopsCounted`).

  `HellosCoverTheirReach` and `UpdatesCoverTheirReach` suppose that nothing is lost, and
  nothing of delays or of the order in which copies come. A copy that came a longer way
  may be first; the duplicate filter then shuts out the one that would have gone further.
  `Reach` is what is left: h hops, if the slowest copy over h - 1 of them is faster than
  the fastest copy that has used up its TTL. With equal delays that is the whole TTL; with
  delays 1 and 2 and a TTL of 3 it is two hops. The argument is
  about times, not ways: a copy taken before `Spent` still has hops to go, so a node that
  has the message by then passes it on (`PassedOn`), and one hop further everybody has it a
  `MaxDelay` later (`NearNodesHaveIt`, by the least number of hops at which someone has not).
  An update is relayed to every interface, so this holds in any network. A HELLO is
  not sent back to the interface it came from, and a node without a mobility model drops
  it after the filter has recorded it. So beyond the direct neighbours, which every HELLO
  reaches on radios, too, `HellosCover` asks for `NoHiddenNodes` (what hears the
  interface where a relay received a HELLO heard the sender) and `Placed = Nodes`; wires
  meet the former, and radios that all hear one another. On other radios it fails, as
  `flood_radio` shows.

  `FloodsKeepTheirOrder` holds in any network, with any delays and losses. No
  line of the handlers sees to it: they overwrite whatever they have. What a table holds
  was sent at least `MinDelay` ago (`EntriesAge`), and what arrives was sent at most
  a flood's life ago (`FloodsDie`), so an entry falls back by at most the difference.
* **LadzrpLifecycleProofs.** `LifecycleInvariant`, and from it `NoBindFails`,
  `MaintenanceNeverStops` and `MainAddressHasSocket`, for any set of interfaces:
  sockets are open only while maintenance is scheduled, which is why `Start` never
  meets an open socket, and `Start` sets the main address whenever it opens any.
  That nothing runs after disposal is a conjunct of the invariant.
* **LadzrpRequestQueueProofs.** `EachHasOneFate`, `FirstComeFirstServed` and
  `OldestGoesFirst` rest on one invariant (`Books`): the numbers in the queue rise,
  every accepted number is in exactly one place of queue, handed-out packets and
  reports, and what was handed out to a destination came before whatever still
  waits for it. That erasing keeps the order, and loses nothing but what it erases, is
  a lemma about `Remaining`, proved by the least place at which it would fail.
* **LadzrpWireProofs.** `HeadersComeBack`, in every state and for any contents: the
  widths of what `Serialize` writes add up to `GetSerializedSize`, hence `Deserialize`
  reads each field where it was written and `RemoveHeader` leaves exactly what the
  header was put before. Floats: `Spacing` is the same power of two between one power
  and the next (`SpacingBounds`, `SameSpacing`), found by the least number at which it
  would not be; so a rounded number is rounded no more (`RoundingSettles`), and is off
  by half a spacing at most.
* **LadzrpTrackingProofs**, for any motion of the peer within `Velocities`, any
  intervals, densities, delays and losses. `TypeCorrect` needs to know what may be under
  way (`TypeInv`): settled coordinates, and a hop count that has grown only as the TTL
  shrank, so that it fits its byte. `HeadersStayIntact` follows.
  `LifetimeEndsAtCrossing` is the geometry alone: what `ComputeLifetime` returns is the
  first crossing of the quadratic, or the last whole instant before it, and an empty
  result means there is none. With it `StaysOnItsSide` and `DroppedWhenAcross` follow
  from one invariant (`CourseInv`): what a HELLO said of a peer that has not turned
  since lies on its course, the entry has what the HELLO said, and the expiry is a
  crossing from then. The estimate made of the entry is off by `Slack`
  (`EstimateWithinSlack`), and the triangle inequality, on squares, does the rest.
  `ReckoningHolds` rests on `ReckoningInv`: the peer is within the threshold of its
  announced course at each check or announces anew, between checks the two courses part
  at no more than two velocities, and what the observer has under the timestamp of the
  last announcement is that announcement, rounded.
  A relayed update is still an update, which `ForgottenWhenQuiet` needs: unless one is
  lost or under way, what is known globally lives three intervals from the last
  announcement (`QuietInv`). `CopiesDieFirst` (`CopyInv`) adds that every global entry
  does expire, since an expiry of 0, which the purge spares, is never given.

The proofs corrected bounds that a run as short as `tracking` cannot tell from true
ones, because in six instants their other terms make up for the difference. A narrowed
velocity is off, too, and that error grows with the time it is extrapolated for:
`PredictionBound` and `Slack` have the term now, and `Straight` asks for the narrowed
velocity, since hardly any velocity of the code is one that a float holds. And `Slack`
took the rounding at the peer's present position for the one at the position it told;
they differ when the peer has crossed a power of two on the way.

Each `TypeCorrect` is the type invariant of its module. Assumptions on constants are
the named `ASSUME`s of the modules; TLC evaluates them in every run. They say that
times are naturals (intervals and holds positive), radii fit a `uint8_t`, and queue
limits are positive. What a single theorem assumes beyond them is named with it above.

Only model-checked, and why:

* `FirstPacketArrives` is liveness under fairness, out of the prover's reach.
* What `EncodeFloat` and `ComputeLifetime` return on the doubles of the code: the proofs
  are about whole numbers, as the model is.

## Not modelled, and why

* Doubles as such: positions, velocities and times are integers, which a float narrows
  from `Significands` on. One velocity of the run does not fit; the proofs assume
  nothing of them. Numbers too large for a float are left out.
* `ComputeAverageHopDistance`: a mean over the peer's own zone table, replaced by a
  free choice. The order in which ns-3's UDP and IP layers add their own headers
  around the data header is outside the repository.
* Paths without an output interface (`CreateRouteToNeighbor` returning null, and the
  unguarded `GetNetDevice` at cc:1024): what the stack does there is its own.
* Several addresses of one interface; three dimensions; equal main addresses.
* Printing, logging, attribute plumbing, the helper, the example, the test templates.

## Plan

Written so far, in this order: filter, TTLM with its tables, MPF, floods,
lifecycle, buffer, the composition of maintenance with the peers it asks, headers,
dead reckoning and lifetimes; proofs about every one of them, of all invariants and
action properties that the passing runs check. Next:

1. Stronger statements where a proof shows slack: `PredictionBound` with the velocities
   the peer really had since the last check in place of some velocity.
2. Properties for the hazards that have a note and no property in `PROJECT.json`, where
   the code makes any promise about them.
