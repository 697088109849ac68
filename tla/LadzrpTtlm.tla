----------------------------- MODULE LadzrpTtlm -----------------------------
(***************************************************************************)
(* Two-tier location maintenance at one node: how the zone table and the   *)
(* global table of src/model/ladzrp-routing-protocol.cc are filled by      *)
(* received control messages, written by the data plane, and swept by the  *)
(* maintenance timer, which asks a peer for a fresh HELLO shortly before   *)
(* its entry runs out or when sending towards it keeps failing.            *)
(*                                                                         *)
(* Simulation events run one at a time, so each handler is one action; the *)
(* order of handlers that are due at the same instant is free.  Positions  *)
(* are left out: the lifetime a HELLO earns and the neighbour BestNeighbor *)
(* finds are chosen freely.                                                *)
(***************************************************************************)
EXTENDS LadzrpRTable, FiniteSets

CONSTANTS Peers,                \* addresses control messages may originate from
          Lifetimes,            \* what a HELLO's entry may be given to live
          GlobalUpdateInterval, \* m_globalUpdateInterval
          MaintenanceInterval,  \* the Seconds (1) of ScheduleMaintenance
          PreExpiryAdvance,     \* m_preExpiryAdvance
          MinRequestHold,       \* m_minRequestHold
          MaxRequestHold,       \* m_maxRequestHold
          MaxTime,              \* bound: end of the simulated time
          MaxAttempts,          \* bound on m_txAttempts
          MaxRestarts           \* bound on interface-down events in a row

ASSUME TtlmAssumption ==
    /\ Lifetimes \subseteq Nat \ {0}
    /\ GlobalUpdateInterval \in Nat \ {0}
    /\ MaintenanceInterval \in Nat \ {0}
    /\ PreExpiryAdvance \in Nat
    /\ MinRequestHold \in Nat \ {0}
    /\ MaxRequestHold \in Nat \ {0}
    /\ MaxTime \in Nat /\ MaxAttempts \in Nat /\ MaxRestarts \in Nat

VARIABLES now,          \* Simulator::Now ()
          zone,         \* m_routingTable.m_zoneTable
          global,       \* m_routingTable.m_globalTable: address -> m_expiry
          maint,        \* when m_maintenanceEvent fires
          lastMaint,    \* history: when it last fired, or the protocol started
          restarts,     \* history: restarts of the timer since lastMaint
          renewed,      \* history: peers whose entry was replaced since lastMaint
          sent          \* history: requests the last pass sent to each peer

vars == <<now, zone, global, maint, lastMaint, restarts, renewed, sent>>

TypeOK ==
    /\ now \in 0..MaxTime
    /\ DOMAIN zone \subseteq Peers /\ zone \in [DOMAIN zone -> Entry]
    /\ DOMAIN global \subseteq Peers /\ global \in [DOMAIN global -> Nat]
    /\ maint \in Nat \ {0}
    /\ lastMaint \in Nat
    /\ restarts \in 0..MaxRestarts
    /\ renewed \subseteq Peers
    /\ sent \in [Peers -> Nat]

\* Start: empty tables, the first maintenance one interval away.
Init ==
    /\ now = 0
    /\ zone = [p \in {} |-> NewEntry(0, 0)]
    /\ global = [p \in {} |-> 0]
    /\ maint = MaintenanceInterval
    /\ lastMaint = 0
    /\ restarts = 0
    /\ renewed = {}
    /\ sent = [p \in Peers |-> 0]

-----------------------------------------------------------------------------
(* Control messages.                                                       *)

\* ProcessHello, past its duplicate check: the entry is built afresh, without
\* statistics and without a memory of requests.
ProcessHello(p, lifetime) ==
    /\ zone' = AddOrUpdate(zone, p, NewEntry(now + lifetime, 1))
    /\ renewed' = renewed \union {p}
    /\ UNCHANGED <<now, global, maint, lastMaint, restarts, sent>>

\* ProcessGlobalUpdate, past its duplicate check.
ProcessGlobalUpdate(p) ==
    /\ global' = AddOrUpdate(global, p, now + 3 * GlobalUpdateInterval)
    /\ UNCHANGED <<now, zone, maint, lastMaint, restarts, renewed, sent>>

-----------------------------------------------------------------------------
(* The data plane, for a packet this node originates (RouteOutput) or      *)
(* relays (RouteInput): both write the same entries.  `best` is what       *)
(* BestNeighbor returned, a singleton, or {} when it returned none.        *)

\* ForwardIntraZone: the destination's copy was taken before the neighbour's
\* statistics were updated, and is written last.
ForwardIntraZone(d, best) ==
    /\ d \in DOMAIN zone
    /\ zone' = [p \in DOMAIN zone |->
                    IF p = d \/ p \in best
                    THEN RecordTransmissionResult(zone[p], best # {})
                    ELSE zone[p]]
    /\ UNCHANGED <<renewed>>

\* ForwardInterZone: the global entry, with the outcome recorded in it, is
\* stored in the ZONE table.
ForwardInterZone(d, best) ==
    /\ d \in DOMAIN global \ DOMAIN zone
    /\ LET neighbour == [p \in DOMAIN zone |->
                             IF p \in best THEN RecordTransmissionResult(zone[p], TRUE)
                             ELSE zone[p]]
       IN  zone' = AddOrUpdate(neighbour, d,
                       RecordTransmissionResult(NewEntry(global[d], 0), best # {}))
    /\ renewed' = renewed \union {d}

\* A packet towards d.  One that only the backup broadcast can carry because
\* d is in neither table leaves the tables alone, and so does one for which a
\* neighbour is found, but no interface to send on.
SendData(d) ==
    /\ \A p \in DOMAIN zone : zone[p].txAttempts < MaxAttempts
    /\ \E best \in {{}} \union {{p} : p \in DOMAIN zone} :
           ForwardIntraZone(d, best) \/ ForwardInterZone(d, best)
    /\ UNCHANGED <<now, global, maint, lastMaint, restarts, sent>>

-----------------------------------------------------------------------------
(* Maintenance.                                                            *)

Clamp(t, low, high) ==
    LET atLeast == IF t < low THEN low ELSE t
    IN  IF atLeast > high THEN high ELSE atLeast

\* All of what is left.
WholeLife_Mutant(e) ==
    Clamp((IF e.expiry > now THEN e.expiry - now ELSE 0), MinRequestHold, MaxRequestHold)

\* A fifth of what is left, at least the minimum, and at most the maximum.
ComputeSuppressionWindow(e) ==
    Clamp((IF e.expiry > now THEN e.expiry - now ELSE 0) \div 5,
          MinRequestHold, MaxRequestHold)

\* The entry forgets to suppress the next request.
NoSuppression_Mutant(e) == [e EXCEPT !.lastRequest = now]

\* What the code notes in its copy of an entry after sending a request.
Requested(e) ==
    [e EXCEPT !.suppressUntil = now + ComputeSuppressionWindow(e),
              !.lastRequest = now]

\* The first condition of PerformMaintenance: the entry is about to run out.
NearExpiryLate_Mutant(e) ==
    /\ e.expiry # 0
    /\ e.expiry - now < 0
    /\ now >= e.suppressUntil

NearExpiry(e) ==
    /\ e.expiry # 0
    /\ e.expiry - now =< PreExpiryAdvance
    /\ now >= e.suppressUntil

\* The second one: sending towards the peer fails more often than not.
UnstableAlways_Mutant(e) == FailureRatioAboveHalf(e)

Unstable(e) == FailureRatioAboveHalf(e) /\ now >= e.suppressUntil

\* The two branches work on one copy of the entry, one after the other.
AfterFirst(e) == IF NearExpiry(e) THEN Requested(e) ELSE e

AfterBoth(e) ==
    LET f == AfterFirst(e)
    IN  IF Unstable(f) THEN Requested(ResetFailureStatistics(f)) ELSE f

RequestsSent(e) ==
    (IF NearExpiry(e) THEN 1 ELSE 0) + (IF Unstable(AfterFirst(e)) THEN 1 ELSE 0)

\* PerformMaintenance.  Sending a request routes it like any packet, so it may
\* also count an attempt towards the neighbour chosen as its next hop; a count
\* made towards a peer of the snapshot that is itself asked later is lost when
\* that peer's copy is written back.
PerformMaintenance ==
    /\ now = maint
    /\ LET kept  == Purge(zone, now)
           asked == {p \in DOMAIN kept : RequestsSent(kept[p]) > 0}
       IN  /\ \E hops \in [DOMAIN kept -> 0..Cardinality(asked)] :
                  /\ \A p \in DOMAIN kept :
                        /\ hops[p] =< Cardinality(asked \ {p})
                        /\ hops[p] > 0 => kept[p].txAttempts + hops[p] =< MaxAttempts
                  /\ zone' = [p \in DOMAIN kept |->
                                 [AfterBoth(kept[p]) EXCEPT !.txAttempts = @ + hops[p]]]
           /\ sent' = [p \in Peers |->
                          IF p \in asked THEN RequestsSent(kept[p]) ELSE 0]
    /\ global' = [p \in {q \in DOMAIN global : global[q] = 0 \/ now =< global[q]} |->
                      global[p]]
    /\ maint' = now + MaintenanceInterval
    /\ lastMaint' = now
    /\ restarts' = 0
    /\ renewed' = {}
    /\ UNCHANGED now

-----------------------------------------------------------------------------
\* NotifyInterfaceDown: Stop and Start.  The tables survive, the timer starts over.
NotifyInterfaceDown ==
    /\ restarts < MaxRestarts
    /\ maint' = now + MaintenanceInterval
    /\ restarts' = restarts + 1
    /\ UNCHANGED <<now, zone, global, lastMaint, renewed, sent>>

\* The scheduler lets time pass only when no event is due.
Tick ==
    /\ now < maint
    /\ now < MaxTime
    /\ now' = now + 1
    /\ UNCHANGED <<zone, global, maint, lastMaint, restarts, renewed, sent>>

Next ==
    \/ \E p \in Peers, lifetime \in Lifetimes : ProcessHello(p, lifetime)
    \/ \E p \in Peers : ProcessGlobalUpdate(p)
    \/ \E p \in Peers : SendData(p)
    \/ PerformMaintenance
    \/ NotifyInterfaceDown
    \/ Tick

Spec == Init /\ [][Next]_vars

-----------------------------------------------------------------------------
(***************************************************************************)
(* "Purged on every maintenance so that no outdated entry is used"         *)
(* (ladzrp-rtable.cc:265) made precise.  Lookups never test expiry, so     *)
(* what bounds the age of a usable entry is the timer alone: an entry is   *)
(* never used later than one maintenance interval past its expiry, plus    *)
(* one for each time an interface going down restarted the timer.          *)
(***************************************************************************)
StaleBound ==
    LET bound == (restarts + 1) * MaintenanceInterval
    IN  /\ \A p \in DOMAIN zone : now =< zone[p].expiry + bound
        /\ \A p \in DOMAIN global : now =< global[p] + bound

(***************************************************************************)
(* Refresh before removal (ladzrp-routing-protocol.cc:525-534): maintenance*)
(* never drops a zone entry whose peer was not asked for a HELLO first,    *)
(* unless the entry is younger than a maintenance interval or the timer    *)
(* was restarted.  It takes an advance of at least one interval.           *)
(***************************************************************************)
RefreshedBeforePurge ==
    [][\A p \in DOMAIN zone \ DOMAIN zone' :
          zone[p].lastRequest # 0 \/ p \in renewed \/ restarts > 0]_vars

(***************************************************************************)
(* A maintenance pass asks a peer at most once, although an entry may be   *)
(* both near its expiry and unstable: the first branch's suppression       *)
(* covers the second (ladzrp-routing-protocol.cc:525-544).                 *)
(***************************************************************************)
OneRequestPerPass == \A p \in Peers : sent[p] =< 1

(***************************************************************************)
(* As long as an entry is not replaced, two requests for it are at least   *)
(* the smaller of the two holds apart (ladzrp-routing-protocol.cc:725-745).*)
(***************************************************************************)
MinHold == IF MinRequestHold < MaxRequestHold THEN MinRequestHold ELSE MaxRequestHold

RequestSpacing ==
    [][\A p \in DOMAIN zone \intersect DOMAIN zone' :
          /\ zone'[p].lastRequest # zone[p].lastRequest
          /\ zone[p].lastRequest # 0
          /\ zone'[p].lastRequest # 0
          => now >= zone[p].lastRequest + MinHold]_vars

(***************************************************************************)
(* The strengthening that makes the three inductive.                       *)
(***************************************************************************)
\* Nothing in the tables had expired when maintenance last ran.
SweptAtLastMaintenance ==
    /\ lastMaint =< now
    /\ \A p \in DOMAIN zone : zone[p].expiry >= lastMaint /\ zone[p].expiry # 0
    /\ \A p \in DOMAIN global : global[p] >= lastMaint /\ global[p] # 0

\* The timer is at most one interval per restart behind.
TimerOnTime ==
    /\ now =< maint
    /\ maint =< lastMaint + (restarts + 1) * MaintenanceInterval

\* What the last pass left unrequested was not about to run out.
AskedWhenNearExpiry ==
    \A p \in DOMAIN zone :
        \/ zone[p].lastRequest # 0
        \/ p \in renewed
        \/ zone[p].expiry > lastMaint + PreExpiryAdvance

\* An entry is suppressed only because of a request, and long enough.
SuppressedByRequest ==
    \A p \in DOMAIN zone :
        LET e == zone[p]
        IN  IF e.lastRequest = 0 THEN e.suppressUntil = 0
            ELSE e.suppressUntil >= e.lastRequest + MinHold

IInv == /\ SweptAtLastMaintenance
        /\ TimerOnTime
        /\ AskedWhenNearExpiry
        /\ SuppressedByRequest
        /\ OneRequestPerPass

=============================================================================
