-------------------------- MODULE LadzrpRefreshProofs --------------------------
(***************************************************************************)
(* Table maintenance, proved for any peers, intervals and holds and for    *)
(* runs of any length: first what LadzrpTtlm promises, whatever comes of   *)
(* its requests, then the requests, the answers and their loss.            *)
(* Maintenance together with its peers is still the maintenance of         *)
(* LadzrpTtlm, so what is proved of that holds here, too.                  *)
(***************************************************************************)
EXTENDS LadzrpRefresh, TLAPS, FiniteSetTheorems

-----------------------------------------------------------------------------
(* What the operators on one entry preserve.                               *)

(***************************************************************************)
(* A fresh entry has no statistics and no memory of requests.              *)
(***************************************************************************)
LEMMA NewEntryFacts ==
    ASSUME NEW t \in Nat, NEW h \in Nat
    PROVE  /\ NewEntry(t, h) \in Entry
           /\ NewEntry(t, h).expiry = t
           /\ NewEntry(t, h).lastRequest = 0
           /\ NewEntry(t, h).suppressUntil = 0
  BY DEF NewEntry, Entry

(***************************************************************************)
(* Counting a transmission touches the two counters only.                  *)
(***************************************************************************)
LEMMA RecordFacts ==
    ASSUME NEW e \in Entry, NEW ok
    PROVE  /\ RecordTransmissionResult(e, ok) \in Entry
           /\ RecordTransmissionResult(e, ok).expiry = e.expiry
           /\ RecordTransmissionResult(e, ok).lastRequest = e.lastRequest
           /\ RecordTransmissionResult(e, ok).suppressUntil = e.suppressUntil
<1> DEFINE failures == IF ok THEN e.txFailures ELSE e.txFailures + 1
<1>1. failures \in Nat /\ e.txAttempts + 1 \in Nat
  BY DEF Entry
<1>2. RecordTransmissionResult(e, ok)
        = [e EXCEPT !.txAttempts = e.txAttempts + 1, !.txFailures = failures]
  BY DEF RecordTransmissionResult
<1> HIDE DEF failures
<1> QED
  BY <1>1, <1>2 DEF Entry

(***************************************************************************)
(* The window is at least the smaller hold, whatever is left of the entry. *)
(***************************************************************************)
LEMMA WindowBound ==
    ASSUME NEW e \in Entry, now \in Nat
    PROVE  /\ ComputeSuppressionWindow(e) \in Nat
           /\ ComputeSuppressionWindow(e) >= MinHold
           /\ MinHold \in Nat \ {0}
<1>1. (IF e.expiry > now THEN e.expiry - now ELSE 0) \div 5 \in Int
  BY DEF Entry
<1> QED
  BY <1>1, TtlmAssumption DEF ComputeSuppressionWindow, Clamp, MinHold

(***************************************************************************)
(* A request stamps the entry and suppresses the next one for the window.  *)
(***************************************************************************)
LEMMA RequestedFacts ==
    ASSUME NEW e \in Entry, now \in Nat
    PROVE  /\ Requested(e) \in Entry
           /\ Requested(e).expiry = e.expiry
           /\ Requested(e).lastRequest = now
           /\ Requested(e).suppressUntil >= now + MinHold
<1>1. now + ComputeSuppressionWindow(e) \in Nat
  BY WindowBound
<1>2. now + ComputeSuppressionWindow(e) >= now + MinHold
  BY WindowBound
<1> QED
  BY <1>1, <1>2 DEF Requested, Entry

(***************************************************************************)
(* The two branches of PerformMaintenance together: an entry is stamped    *)
(* once, and only when it was not suppressed, or left alone.               *)
(***************************************************************************)
LEMMA AfterBothFacts ==
    ASSUME NEW e \in Entry, now \in Nat
    PROVE  /\ AfterBoth(e) \in Entry
           /\ AfterBoth(e).expiry = e.expiry
           /\ RequestsSent(e) \in 0..1
           /\ \/ /\ AfterBoth(e).lastRequest = e.lastRequest
                 /\ AfterBoth(e).suppressUntil = e.suppressUntil
                 /\ ~NearExpiry(e)
              \/ /\ AfterBoth(e).lastRequest = now
                 /\ AfterBoth(e).suppressUntil >= now + MinHold
                 /\ now >= e.suppressUntil
<1>1. CASE NearExpiry(e)
  <2>1. /\ AfterFirst(e) \in Entry
        /\ AfterFirst(e).expiry = e.expiry
        /\ AfterFirst(e).lastRequest = now
        /\ AfterFirst(e).suppressUntil >= now + MinHold
    BY <1>1, RequestedFacts DEF AfterFirst
  <2>2. ~Unstable(AfterFirst(e))
    BY <2>1, WindowBound DEF Unstable, Entry
  <2>3. AfterBoth(e) = AfterFirst(e)
    BY <2>2 DEF AfterBoth
  <2> QED
    BY <1>1, <2>1, <2>2, <2>3 DEF RequestsSent, NearExpiry
<1>2. CASE ~NearExpiry(e)
  <2>1. AfterFirst(e) = e
    BY <1>2 DEF AfterFirst
  <2>2. /\ ResetFailureStatistics(e) \in Entry
        /\ ResetFailureStatistics(e).expiry = e.expiry
    BY DEF ResetFailureStatistics, Entry
  <2>3. CASE Unstable(e)
    BY <1>2, <2>1, <2>2, <2>3, RequestedFacts
    DEF AfterBoth, RequestsSent, Unstable
  <2>4. CASE ~Unstable(e)
    BY <1>2, <2>1, <2>4 DEF AfterBoth, RequestsSent
  <2> QED
    BY <2>3, <2>4
<1> QED
  BY <1>1, <1>2

-----------------------------------------------------------------------------
(* What each handler does to the zone table, as the invariants see it.     *)

\* The entries of old are still in new, with the fields the invariants read.
Preserves(new, old) ==
    \A p \in DOMAIN old :
        /\ p \in DOMAIN new
        /\ new[p].expiry = old[p].expiry
        /\ new[p].lastRequest = old[p].lastRequest
        /\ new[p].suppressUntil = old[p].suppressUntil

(***************************************************************************)
(* The data plane keeps every entry, and adds at most one: a copy of the   *)
(* global entry of the destination.                                        *)
(***************************************************************************)
LEMMA SendDataFacts ==
    ASSUME TypeOK, NEW d \in Peers, SendData(d)
    PROVE  /\ DOMAIN zone' \subseteq Peers
           /\ zone' \in [DOMAIN zone' -> Entry]
           /\ Preserves(zone', zone)
           /\ \A p \in DOMAIN zone' \ DOMAIN zone :
                 /\ p \in DOMAIN global
                 /\ zone'[p].expiry = global[p]
                 /\ zone'[p].lastRequest = 0
                 /\ zone'[p].suppressUntil = 0
                 /\ p \in renewed'
           /\ renewed \subseteq renewed' /\ renewed' \subseteq Peers
<1> USE DEF TypeOK
<1>1. PICK best \in {{}} \union {{p} : p \in DOMAIN zone} :
          ForwardIntraZone(d, best) \/ ForwardInterZone(d, best)
  BY DEF SendData
<1>3. CASE ForwardIntraZone(d, best)
  BY <1>3, RecordFacts DEF ForwardIntraZone, Preserves
<1>4. CASE ForwardInterZone(d, best)
  <2> DEFINE neighbour == [p \in DOMAIN zone |->
                 IF p \in best THEN RecordTransmissionResult(zone[p], TRUE) ELSE zone[p]]
             copy == RecordTransmissionResult(NewEntry(global[d], 0), best # {})
  <2>1. /\ neighbour \in [DOMAIN zone -> Entry]
        /\ Preserves(neighbour, zone)
    BY RecordFacts DEF Preserves
  <2>2. d \in DOMAIN global /\ d \notin DOMAIN zone /\ global[d] \in Nat
    BY <1>4 DEF ForwardInterZone
  <2>3. /\ copy \in Entry
        /\ copy.expiry = global[d]
        /\ copy.lastRequest = 0
        /\ copy.suppressUntil = 0
    <3>1. NewEntry(global[d], 0) \in Entry
      BY <2>2, NewEntryFacts
    <3> HIDE DEF TypeOK
    <3>2. /\ copy \in Entry
          /\ copy.expiry = NewEntry(global[d], 0).expiry
          /\ copy.lastRequest = NewEntry(global[d], 0).lastRequest
          /\ copy.suppressUntil = NewEntry(global[d], 0).suppressUntil
      BY <3>1, RecordFacts
    <3> QED
      BY <2>2, <3>2, NewEntryFacts
  <2>4. zone' = AddOrUpdate(neighbour, d, copy) /\ renewed' = renewed \union {d}
    BY <1>4 DEF ForwardInterZone
  <2> HIDE DEF neighbour, copy
  <2>5. /\ zone' \in [DOMAIN zone \union {d} -> Entry]
        /\ zone'[d] = copy
        /\ \A q \in DOMAIN zone : q # d => zone'[q] = neighbour[q]
    <3>1. DOMAIN neighbour = DOMAIN zone
      BY <2>1
    <3> QED
      BY <2>1, <2>3, <2>4, <3>1 DEF AddOrUpdate
  <2> QED
    BY <2>1, <2>2, <2>3, <2>4, <2>5 DEF Preserves
<1> QED
  BY <1>1, <1>3, <1>4

(***************************************************************************)
(* A maintenance pass keeps exactly the entries that have not expired, and *)
(* each of them is either stamped with a request or was not near expiry.   *)
(***************************************************************************)
LEMMA MaintenanceFacts ==
    ASSUME TypeOK, PerformMaintenance
    PROVE  /\ DOMAIN zone' \subseteq DOMAIN zone
           /\ zone' \in [DOMAIN zone' -> Entry]
           /\ \A p \in DOMAIN zone \ DOMAIN zone' : IsExpired(zone[p], now)
           /\ \A p \in DOMAIN zone' :
                 /\ ~IsExpired(zone[p], now)
                 /\ zone'[p].expiry = zone[p].expiry
                 /\ \/ /\ zone'[p].lastRequest = zone[p].lastRequest
                       /\ zone'[p].suppressUntil = zone[p].suppressUntil
                       /\ ~NearExpiry(zone[p])
                    \/ /\ zone'[p].lastRequest = now
                       /\ zone'[p].suppressUntil >= now + MinHold
                       /\ now >= zone[p].suppressUntil
           /\ sent' \in [Peers -> 0..1]
<1> DEFINE kept  == Purge(zone, now)
           asked == {p \in DOMAIN kept : RequestsSent(kept[p]) > 0}
<1> USE DEF TypeOK
<1>1. now \in Nat
  BY TtlmAssumption
<1>2. /\ DOMAIN kept = {p \in DOMAIN zone : ~IsExpired(zone[p], now)}
      /\ \A p \in DOMAIN kept : kept[p] = zone[p] /\ kept[p] \in Entry
  BY DEF Purge
<1>3. PICK hops \in [DOMAIN kept -> 0..Cardinality(asked)] :
          zone' = [p \in DOMAIN kept |->
                      [AfterBoth(kept[p]) EXCEPT !.txAttempts = @ + hops[p]]]
  BY DEF PerformMaintenance
<1>4. sent' = [p \in Peers |-> IF p \in asked THEN RequestsSent(kept[p]) ELSE 0]
  BY DEF PerformMaintenance
<1> HIDE DEF kept, TypeOK
<1>5. DOMAIN zone' = DOMAIN kept
  BY <1>3
<1>6. ASSUME NEW p \in DOMAIN kept
      PROVE  /\ zone'[p] \in Entry
             /\ zone'[p].expiry = AfterBoth(kept[p]).expiry
             /\ zone'[p].lastRequest = AfterBoth(kept[p]).lastRequest
             /\ zone'[p].suppressUntil = AfterBoth(kept[p]).suppressUntil
  <2> DEFINE f == AfterBoth(kept[p])
  <2>1. f \in Entry
    BY <1>1, <1>2, AfterBothFacts
  <2>2. f.txAttempts + hops[p] \in Nat
    <3>1. hops[p] \in 0..Cardinality(asked)
      BY <1>3
    <3>2. hops[p] \in Nat
      BY <3>1
    <3> QED
      BY <2>1, <3>2 DEF Entry
  <2>3. zone'[p] = [f EXCEPT !.txAttempts = f.txAttempts + hops[p]]
    BY <1>3
  <2> HIDE DEF f
  <2>4. /\ zone'[p] \in Entry
        /\ zone'[p].expiry = f.expiry
        /\ zone'[p].lastRequest = f.lastRequest
        /\ zone'[p].suppressUntil = f.suppressUntil
    BY <2>1, <2>2, <2>3 DEF Entry
  <2> QED
    BY <2>4 DEF f
<1>7. zone' \in [DOMAIN zone' -> Entry]
  <2>1. zone' = [p \in DOMAIN zone' |-> zone'[p]]
    BY <1>3
  <2> QED
    BY <1>5, <1>6, <2>1
<1>8. ASSUME NEW p \in DOMAIN zone'
      PROVE  /\ ~IsExpired(zone[p], now)
             /\ zone'[p].expiry = zone[p].expiry
             /\ \/ /\ zone'[p].lastRequest = zone[p].lastRequest
                   /\ zone'[p].suppressUntil = zone[p].suppressUntil
                   /\ ~NearExpiry(zone[p])
                \/ /\ zone'[p].lastRequest = now
                   /\ zone'[p].suppressUntil >= now + MinHold
                   /\ now >= zone[p].suppressUntil
  BY <1>1, <1>2, <1>5, <1>6, AfterBothFacts
<1>9. sent' \in [Peers -> 0..1]
  <2>1. \A p \in asked : RequestsSent(kept[p]) \in 0..1
    BY <1>1, <1>2, AfterBothFacts
  <2> QED
    BY <1>4, <2>1
<1> QED
  BY <1>2, <1>5, <1>7, <1>8, <1>9

-----------------------------------------------------------------------------
(***************************************************************************)
(* Every handler keeps the tables, the timer and the clock within their    *)
(* types.                                                                  *)
(***************************************************************************)
THEOREM TypeCorrect == Spec => []TypeOK
<1> USE TtlmAssumption DEF TypeOK
<1>1. Init => TypeOK
  BY DEF Init
<1>2. TypeOK /\ [Next]_vars => TypeOK'
  <2> SUFFICES ASSUME TypeOK, [Next]_vars PROVE TypeOK'
    OBVIOUS
  <2>1. ASSUME NEW p \in Peers, NEW lifetime \in Lifetimes, ProcessHello(p, lifetime)
        PROVE  TypeOK'
    <3>1. now + lifetime \in Nat
      OBVIOUS
    <3>2. NewEntry(now + lifetime, 1) \in Entry
      BY <3>1, NewEntryFacts
    <3> QED
      BY <2>1, <3>2 DEF ProcessHello, AddOrUpdate
  <2>2. ASSUME NEW p \in Peers, ProcessGlobalUpdate(p) PROVE TypeOK'
    <3>1. now + 3 * GlobalUpdateInterval \in Nat
      OBVIOUS
    <3> QED
      BY <2>2, <3>1 DEF ProcessGlobalUpdate, AddOrUpdate
  <2>3. ASSUME NEW d \in Peers, SendData(d) PROVE TypeOK'
    <3>1. /\ now' = now /\ global' = global /\ maint' = maint
          /\ lastMaint' = lastMaint /\ restarts' = restarts /\ sent' = sent
      BY <2>3 DEF SendData
    <3> QED
      BY <2>3, <3>1, SendDataFacts
  <2>4. CASE PerformMaintenance
    <3>1. /\ DOMAIN global' \subseteq DOMAIN global
          /\ global' \in [DOMAIN global' -> Nat]
      BY <2>4 DEF PerformMaintenance
    <3>2. /\ now' = now /\ now = maint /\ lastMaint' = now /\ restarts' = 0
          /\ renewed' = {} /\ maint' = now + MaintenanceInterval
      BY <2>4 DEF PerformMaintenance
    <3>3. sent' \in [Peers -> Nat]
      BY <2>4, MaintenanceFacts
    <3> QED
      BY <2>4, <3>1, <3>2, <3>3, MaintenanceFacts
  <2>5. CASE NotifyInterfaceDown
    BY <2>5 DEF NotifyInterfaceDown
  <2>6. CASE Tick
    BY <2>6 DEF Tick
  <2>7. CASE UNCHANGED vars
    BY <2>7 DEF vars
  <2> QED
    BY <2>1, <2>2, <2>3, <2>4, <2>5, <2>6, <2>7 DEF Next
<1> QED
  BY <1>1, <1>2, PTL DEF Spec

-----------------------------------------------------------------------------
(***************************************************************************)
(* One more interval for one more restart.                                 *)
(***************************************************************************)
LEMMA OneMoreInterval ==
    ASSUME NEW r \in Nat, NEW i \in Nat
    PROVE  /\ (r + 1) * i \in Nat
           /\ (r + 1 + 1) * i = (r + 1) * i + i
           /\ (0 + 1) * i = i
  OBVIOUS

(***************************************************************************)
(* The inductive invariant, one part at a time.  First: an entry that was  *)
(* stamped with a request is suppressed long enough, and no pass asks a    *)
(* peer twice.                                                             *)
(***************************************************************************)
LEMMA SuppressionInvariant == Spec => [](SuppressedByRequest /\ OneRequestPerPass)
<1> DEFINE Inv == SuppressedByRequest /\ OneRequestPerPass
<1> USE TtlmAssumption
<1>1. Init => Inv
  BY DEF Init, SuppressedByRequest, OneRequestPerPass
<1>2. TypeOK /\ Inv /\ [Next]_vars => Inv'
  <2> SUFFICES ASSUME TypeOK, Inv, [Next]_vars PROVE Inv'
    OBVIOUS
  <2> USE DEF SuppressedByRequest, OneRequestPerPass
  <2>1. ASSUME NEW p \in Peers, NEW lifetime \in Lifetimes, ProcessHello(p, lifetime)
        PROVE  Inv'
    BY <2>1, NewEntryFacts DEF ProcessHello, AddOrUpdate, NewEntry, TypeOK
  <2>2. ASSUME NEW p \in Peers, ProcessGlobalUpdate(p) PROVE Inv'
    BY <2>2 DEF ProcessGlobalUpdate
  <2>3. ASSUME NEW d \in Peers, SendData(d) PROVE Inv'
    <3>1. sent' = sent
      BY <2>3 DEF SendData
    <3>2. ASSUME NEW p \in DOMAIN zone'
          PROVE  IF zone'[p].lastRequest = 0 THEN zone'[p].suppressUntil = 0
                 ELSE zone'[p].suppressUntil >= zone'[p].lastRequest + MinHold
      BY <2>3, SendDataFacts DEF Preserves
    <3> QED
      BY <3>1, <3>2 DEF MinHold
  <2>4. CASE PerformMaintenance
    <3>1. now # 0
      BY <2>4 DEF PerformMaintenance, TypeOK
    <3>2. ASSUME NEW p \in DOMAIN zone'
          PROVE  IF zone'[p].lastRequest = 0 THEN zone'[p].suppressUntil = 0
                 ELSE zone'[p].suppressUntil >= zone'[p].lastRequest + MinHold
      BY <2>4, <3>1, MaintenanceFacts
    <3>3. \A p \in Peers : sent'[p] =< 1
      BY <2>4, MaintenanceFacts
    <3> QED
      BY <3>2, <3>3 DEF MinHold
  <2>5. CASE NotifyInterfaceDown
    BY <2>5 DEF NotifyInterfaceDown
  <2>6. CASE Tick
    BY <2>6 DEF Tick
  <2>7. CASE UNCHANGED vars
    BY <2>7 DEF vars
  <2> QED
    BY <2>1, <2>2, <2>3, <2>4, <2>5, <2>6, <2>7 DEF Next
<1> QED
  BY <1>1, <1>2, TypeCorrect, PTL DEF Spec

(***************************************************************************)
(* The maintenance timer is late by one interval per restart, no more.     *)
(***************************************************************************)
LEMMA TimerInvariant == Spec => []TimerOnTime
<1> USE TtlmAssumption DEF TimerOnTime, TypeOK
<1>1. Init => TimerOnTime
  BY OneMoreInterval DEF Init
<1>2. TypeOK /\ TimerOnTime /\ [Next]_vars => TimerOnTime'
  <2> SUFFICES ASSUME TypeOK, TimerOnTime, [Next]_vars PROVE TimerOnTime'
    OBVIOUS
  <2>1. ASSUME NEW p \in Peers, NEW lifetime \in Lifetimes, ProcessHello(p, lifetime)
        PROVE  TimerOnTime'
    BY <2>1 DEF ProcessHello
  <2>2. ASSUME NEW p \in Peers, ProcessGlobalUpdate(p) PROVE TimerOnTime'
    BY <2>2 DEF ProcessGlobalUpdate
  <2>3. ASSUME NEW d \in Peers, SendData(d) PROVE TimerOnTime'
    BY <2>3 DEF SendData
  <2>4. CASE PerformMaintenance
    <3>1. /\ now' = now /\ lastMaint' = now /\ restarts' = 0
          /\ maint' = now + MaintenanceInterval
      BY <2>4 DEF PerformMaintenance
    <3> QED
      BY <3>1, OneMoreInterval
  <2>5. CASE NotifyInterfaceDown
    <3>1. /\ maint' = now + MaintenanceInterval /\ restarts' = restarts + 1
          /\ now' = now /\ lastMaint' = lastMaint
      BY <2>5 DEF NotifyInterfaceDown
    <3>2. restarts \in Nat /\ MaintenanceInterval \in Nat
      OBVIOUS
    <3>3. /\ (restarts + 1) * MaintenanceInterval \in Nat
          /\ (restarts' + 1) * MaintenanceInterval
                = (restarts + 1) * MaintenanceInterval + MaintenanceInterval
      BY <3>1, <3>2, OneMoreInterval
    <3> QED
      BY <3>1, <3>3
  <2>6. CASE Tick
    BY <2>6 DEF Tick
  <2>7. CASE UNCHANGED vars
    BY <2>7 DEF vars
  <2> QED
    BY <2>1, <2>2, <2>3, <2>4, <2>5, <2>6, <2>7 DEF Next
<1> QED
  BY <1>1, <1>2, TypeCorrect, PTL DEF Spec

(***************************************************************************)
(* A pass leaves nothing behind that had expired by then, and what is put  *)
(* into the tables later expires later, a copied global entry included.    *)
(***************************************************************************)
LEMMA SweepInvariant == Spec => []SweptAtLastMaintenance
<1> USE TtlmAssumption DEF SweptAtLastMaintenance
<1>1. Init => SweptAtLastMaintenance
  BY DEF Init
<1>2. TypeOK /\ SweptAtLastMaintenance /\ [Next]_vars => SweptAtLastMaintenance'
  <2> SUFFICES ASSUME TypeOK, SweptAtLastMaintenance, [Next]_vars
               PROVE  SweptAtLastMaintenance'
    OBVIOUS
  <2>1. ASSUME NEW p \in Peers, NEW lifetime \in Lifetimes, ProcessHello(p, lifetime)
        PROVE  SweptAtLastMaintenance'
    BY <2>1 DEF ProcessHello, AddOrUpdate, NewEntry, TypeOK
  <2>2. ASSUME NEW p \in Peers, ProcessGlobalUpdate(p) PROVE SweptAtLastMaintenance'
    <3>1. now + 3 * GlobalUpdateInterval >= lastMaint /\ now + 3 * GlobalUpdateInterval # 0
      BY DEF TypeOK
    <3> QED
      BY <2>2, <3>1 DEF ProcessGlobalUpdate, AddOrUpdate
  <2>3. ASSUME NEW d \in Peers, SendData(d) PROVE SweptAtLastMaintenance'
    <3>1. now' = now /\ lastMaint' = lastMaint /\ global' = global
      BY <2>3 DEF SendData
    <3>2. \A p \in DOMAIN zone' : zone'[p].expiry >= lastMaint /\ zone'[p].expiry # 0
      BY <2>3, SendDataFacts DEF Preserves
    <3> QED
      BY <3>1, <3>2
  <2>4. CASE PerformMaintenance
    <3>1. /\ now' = now /\ lastMaint' = now /\ now \in Nat
          /\ \A p \in DOMAIN global' : /\ p \in DOMAIN global
                                       /\ global'[p] = global[p]
                                       /\ global[p] = 0 \/ now =< global[p]
      BY <2>4 DEF PerformMaintenance, TypeOK
    <3>2. ASSUME NEW p \in DOMAIN zone'
          PROVE  zone'[p].expiry >= now /\ zone'[p].expiry # 0
      <4>1. /\ p \in DOMAIN zone /\ zone'[p].expiry = zone[p].expiry
            /\ ~IsExpired(zone[p], now) /\ zone[p] \in Entry
        BY <2>4, MaintenanceFacts DEF TypeOK
      <4> QED
        BY <3>1, <4>1 DEF IsExpired, Entry
    <3> QED
      BY <3>1, <3>2 DEF TypeOK
  <2>5. CASE NotifyInterfaceDown
    BY <2>5 DEF NotifyInterfaceDown
  <2>6. CASE Tick
    BY <2>6 DEF Tick, TypeOK
  <2>7. CASE UNCHANGED vars
    BY <2>7 DEF vars
  <2> QED
    BY <2>1, <2>2, <2>3, <2>4, <2>5, <2>6, <2>7 DEF Next
<1> QED
  BY <1>1, <1>2, TypeCorrect, PTL DEF Spec

(***************************************************************************)
(* No pass leaves an entry unasked that runs out within the advance, and   *)
(* none appears later without having been renewed.                         *)
(***************************************************************************)
LEMMA AskedInvariant == Spec => []AskedWhenNearExpiry
<1> USE TtlmAssumption DEF AskedWhenNearExpiry
<1>1. Init => AskedWhenNearExpiry
  BY DEF Init
<1>2. /\ TypeOK /\ SweptAtLastMaintenance /\ SuppressedByRequest
      /\ AskedWhenNearExpiry /\ [Next]_vars
      => AskedWhenNearExpiry'
  <2> SUFFICES ASSUME TypeOK, SweptAtLastMaintenance, SuppressedByRequest,
                      AskedWhenNearExpiry, [Next]_vars
               PROVE  AskedWhenNearExpiry'
    OBVIOUS
  <2>1. ASSUME NEW p \in Peers, NEW lifetime \in Lifetimes, ProcessHello(p, lifetime)
        PROVE  AskedWhenNearExpiry'
    BY <2>1 DEF ProcessHello, AddOrUpdate
  <2>2. ASSUME NEW p \in Peers, ProcessGlobalUpdate(p) PROVE AskedWhenNearExpiry'
    BY <2>2 DEF ProcessGlobalUpdate
  <2>3. ASSUME NEW d \in Peers, SendData(d) PROVE AskedWhenNearExpiry'
    <3>1. lastMaint' = lastMaint
      BY <2>3 DEF SendData
    <3> QED
      BY <2>3, <3>1, SendDataFacts DEF Preserves
  <2>4. CASE PerformMaintenance
    <3> SUFFICES ASSUME NEW p \in DOMAIN zone', zone'[p].lastRequest = 0
                 PROVE  zone'[p].expiry > lastMaint' + PreExpiryAdvance
      OBVIOUS
    <3>1. lastMaint' = now /\ now \in Nat /\ now # 0
      BY <2>4 DEF PerformMaintenance, TypeOK
    <3>2. /\ p \in DOMAIN zone /\ zone[p] \in Entry
          /\ zone'[p].expiry = zone[p].expiry
          /\ zone[p].lastRequest = 0 /\ ~NearExpiry(zone[p])
          /\ ~IsExpired(zone[p], now)
      BY <2>4, <3>1, MaintenanceFacts DEF TypeOK
    <3>3. zone[p].suppressUntil = 0
      BY <3>2 DEF SuppressedByRequest
    <3>4. zone[p].expiry > now + PreExpiryAdvance
      BY <3>1, <3>2, <3>3 DEF NearExpiry, Entry, SweptAtLastMaintenance
    <3> QED
      BY <3>1, <3>2, <3>4
  <2>5. CASE NotifyInterfaceDown
    BY <2>5 DEF NotifyInterfaceDown
  <2>6. CASE Tick
    BY <2>6 DEF Tick
  <2>7. CASE UNCHANGED vars
    BY <2>7 DEF vars
  <2> QED
    BY <2>1, <2>2, <2>3, <2>4, <2>5, <2>6, <2>7 DEF Next
<1> QED
  BY <1>1, <1>2, TypeCorrect, SweepInvariant, SuppressionInvariant, PTL DEF Spec

-----------------------------------------------------------------------------
(***************************************************************************)
(* No entry of either table is used later than the intervals the timer was *)
(* due and delayed by past its expiry.                                     *)
(***************************************************************************)
THEOREM StalenessBounded == Spec => []StaleBound
<1>1. TypeOK /\ TimerOnTime /\ SweptAtLastMaintenance => StaleBound
  <2> SUFFICES ASSUME TypeOK, TimerOnTime, SweptAtLastMaintenance PROVE StaleBound
    OBVIOUS
  <2> DEFINE bound == (restarts + 1) * MaintenanceInterval
  <2>1. bound \in Nat /\ now \in Nat /\ lastMaint \in Nat /\ maint \in Nat
    BY TtlmAssumption, OneMoreInterval DEF TypeOK
  <2>2. now =< maint /\ maint =< lastMaint + bound
    BY DEF TimerOnTime
  <2> HIDE DEF bound
  <2>3. now =< lastMaint + bound
    BY <2>1, <2>2
  <2>4. ASSUME NEW p \in DOMAIN zone PROVE now =< zone[p].expiry + bound
    <3>1. zone[p].expiry \in Nat /\ zone[p].expiry >= lastMaint
      BY DEF TypeOK, Entry, SweptAtLastMaintenance
    <3> QED
      BY <2>1, <2>3, <3>1
  <2>5. ASSUME NEW p \in DOMAIN global PROVE now =< global[p] + bound
    <3>1. global[p] \in Nat /\ global[p] >= lastMaint
      BY DEF TypeOK, SweptAtLastMaintenance
    <3> QED
      BY <2>1, <2>3, <3>1
  <2> QED
    BY <2>4, <2>5 DEF StaleBound, bound
<1> QED
  BY <1>1, TypeCorrect, TimerInvariant, SweepInvariant, PTL

(***************************************************************************)
(* A pass never asks a peer twice.                                         *)
(***************************************************************************)
THEOREM NoDoubleRequest == Spec => []OneRequestPerPass
  BY SuppressionInvariant, PTL

(***************************************************************************)
(* When the advance is at least one maintenance interval, as with the      *)
(* default attributes, nothing is dropped from the zone table without its  *)
(* peer having been asked, but for entries that are very young or a timer  *)
(* that was restarted.                                                     *)
(***************************************************************************)
THEOREM RefreshPrecedesPurge ==
    ASSUME PreExpiryAdvance >= MaintenanceInterval
    PROVE  Spec => RefreshedBeforePurge
<1>1. /\ TypeOK /\ TimerOnTime /\ AskedWhenNearExpiry /\ [Next]_vars
      => [\A p \in DOMAIN zone \ DOMAIN zone' :
             zone[p].lastRequest # 0 \/ p \in renewed \/ restarts > 0]_vars
  <2> SUFFICES ASSUME TypeOK, TimerOnTime, AskedWhenNearExpiry, Next,
                      NEW p \in DOMAIN zone, p \notin DOMAIN zone',
                      zone[p].lastRequest = 0, p \notin renewed
               PROVE  restarts > 0
    BY DEF TypeOK
  <2>1. zone[p] \in Entry /\ restarts \in Nat /\ now \in Nat /\ lastMaint \in Nat
    BY TtlmAssumption DEF TypeOK
  <2>2. PerformMaintenance
    <3>1. ASSUME NEW q \in Peers, NEW l \in Lifetimes, ProcessHello(q, l)
          PROVE  p \in DOMAIN zone'
      BY <3>1 DEF ProcessHello, AddOrUpdate
    <3>2. ASSUME NEW d \in Peers, SendData(d) PROVE p \in DOMAIN zone'
      BY <3>2, SendDataFacts DEF Preserves
    <3> QED
      BY <3>1, <3>2 DEF Next, ProcessGlobalUpdate, NotifyInterfaceDown, Tick
  <2>3. now = maint /\ IsExpired(zone[p], now)
    BY <2>2, MaintenanceFacts DEF PerformMaintenance
  <2>4. zone[p].expiry > lastMaint + PreExpiryAdvance /\ now > zone[p].expiry
    BY <2>3 DEF AskedWhenNearExpiry, IsExpired
  <2>5. now > lastMaint + MaintenanceInterval
    BY <2>1, <2>4, TtlmAssumption DEF Entry
  <2>6. SUFFICES ASSUME restarts = 0 PROVE FALSE
    BY <2>1
  <2>7. now =< lastMaint + MaintenanceInterval
    BY <2>3, <2>6, OneMoreInterval, TtlmAssumption DEF TimerOnTime
  <2> QED
    BY <2>1, <2>5, <2>7, TtlmAssumption
<1> QED
  BY <1>1, TypeCorrect, TimerInvariant, AskedInvariant, PTL DEF Spec, RefreshedBeforePurge

(***************************************************************************)
(* Two requests for the same entry are the smaller hold apart.             *)
(***************************************************************************)
THEOREM RequestsSpaced == Spec => RequestSpacing
<1>1. /\ TypeOK /\ SuppressedByRequest /\ [Next]_vars
      => [\A p \in DOMAIN zone \intersect DOMAIN zone' :
             /\ zone'[p].lastRequest # zone[p].lastRequest
             /\ zone[p].lastRequest # 0
             /\ zone'[p].lastRequest # 0
             => now >= zone[p].lastRequest + MinHold]_vars
  <2> SUFFICES ASSUME TypeOK, SuppressedByRequest, Next,
                      NEW p \in DOMAIN zone, p \in DOMAIN zone',
                      zone'[p].lastRequest # zone[p].lastRequest,
                      zone[p].lastRequest # 0,
                      zone'[p].lastRequest # 0
               PROVE  now >= zone[p].lastRequest + MinHold
    OBVIOUS
  <2>1. PerformMaintenance
    <3>1. ASSUME NEW q \in Peers, NEW l \in Lifetimes, ProcessHello(q, l)
          PROVE  zone'[p].lastRequest \in {0, zone[p].lastRequest}
      BY <3>1 DEF ProcessHello, AddOrUpdate, NewEntry
    <3>2. ASSUME NEW d \in Peers, SendData(d)
          PROVE  zone'[p].lastRequest = zone[p].lastRequest
      BY <3>2, SendDataFacts DEF Preserves
    <3> QED
      BY <3>1, <3>2 DEF Next, ProcessGlobalUpdate, NotifyInterfaceDown, Tick
  <2>2. now >= zone[p].suppressUntil
    BY <2>1, MaintenanceFacts
  <2>3. zone[p].suppressUntil >= zone[p].lastRequest + MinHold
    BY DEF SuppressedByRequest
  <2>4. /\ zone[p] \in Entry /\ now \in Nat
        /\ MinHold \in Nat
    BY TtlmAssumption DEF TypeOK, MinHold
  <2> QED
    BY <2>2, <2>3, <2>4 DEF Entry
<1> QED
  BY <1>1, TypeCorrect, SuppressionInvariant, PTL DEF Spec, RequestSpacing

-----------------------------------------------------------------------------
(* What is under way.                                                      *)

(***************************************************************************)
(* A request goes to a peer, and arrives a delay from now.                 *)
(***************************************************************************)
LEMMA RequestFacts ==
    ASSUME NEW delay \in [Peers -> Delays], NEW m \in RequestsOf(delay), now \in Nat
    PROVE  /\ m \in Message
           /\ m.kind = "UNICAST_REQUEST"
           /\ \E d \in Delays : m.due = now + d
           /\ m = [kind |-> "UNICAST_REQUEST", peer |-> m.peer, nth |-> m.nth,
                   due |-> now + delay[m.peer]]
           /\ m.nth \in 1..2 /\ m.nth =< sent'[m.peer]
<1>1. PICK r \in Peers \X (1..2) :
          /\ r[2] =< sent'[r[1]]
          /\ m = [kind |-> "UNICAST_REQUEST", peer |-> r[1], nth |-> r[2],
                  due |-> now + delay[r[1]]]
  BY DEF RequestsOf
<1>2. r[1] \in Peers /\ r[2] \in 1..2 /\ delay[r[1]] \in Delays /\ delay[r[1]] \in Nat
  BY RefreshAssumption
<1>3. now + delay[r[1]] \in Nat
  BY <1>2
<1> QED
  BY <1>1, <1>2, <1>3 DEF Message

\* The clock is a number, and what is under way are messages.
NetTyped == now \in Nat /\ net \subseteq Message

(***************************************************************************)
(* Nothing but requests to peers and their answers is ever under way.      *)
(***************************************************************************)
LEMMA NetInvariant == RefreshSpec => []NetTyped
<1>1. RefreshInit => NetTyped
  BY DEF RefreshInit, Init, NetTyped
<1>2. NetTyped /\ [RefreshNext]_refreshVars => NetTyped'
  <2> SUFFICES ASSUME NetTyped, [RefreshNext]_refreshVars PROVE NetTyped'
    OBVIOUS
  <2> USE DEF NetTyped
  <2>1. CASE Maintain
    <3>1. PICK delay \in [Peers -> Delays] : net' = net \union RequestsOf(delay)
      BY <2>1 DEF Maintain
    <3>2. now' = now
      BY <2>1 DEF Maintain, PerformMaintenance
    <3> QED
      BY <3>1, <3>2, RequestFacts
  <2>2. ASSUME NEW m \in net, ProcessUnicastRequest(m) PROVE NetTyped'
    <3>1. PICK d \in Delays :
              net' = (net \ {m}) \union {[m EXCEPT !.kind = "HELLO", !.due = now + d]}
      BY <2>2 DEF ProcessUnicastRequest
    <3>2. now + d \in Nat
      BY RefreshAssumption
    <3>3. [m EXCEPT !.kind = "HELLO", !.due = now + d] \in Message
      BY <3>2 DEF Message
    <3> QED
      BY <2>2, <3>1, <3>3 DEF ProcessUnicastRequest, vars
  <2>3. ASSUME NEW m \in net, ReceiveAnswer(m) PROVE NetTyped'
    BY <2>3 DEF ReceiveAnswer, ProcessHello
  <2>4. ASSUME NEW m \in net, Lose(m) PROVE NetTyped'
    BY <2>4 DEF Lose, vars
  <2>5. ASSUME NEW p \in Peers, HearHello(p) \/ HearGlobalUpdate(p) \/ Forward(p)
        PROVE  NetTyped'
    BY <2>5 DEF HearHello, ProcessHello, HearGlobalUpdate, ProcessGlobalUpdate, Forward,
                SendData
  <2>6. CASE RestartTimer
    BY <2>6 DEF RestartTimer, NotifyInterfaceDown
  <2>7. CASE Wait
    BY <2>7 DEF Wait, Tick
  <2>8. CASE UNCHANGED refreshVars
    BY <2>8 DEF refreshVars
  <2> QED
    BY <2>1, <2>2, <2>3, <2>4, <2>5, <2>6, <2>7, <2>8 DEF RefreshNext
<1> QED
  BY <1>1, <1>2, PTL DEF RefreshSpec

(***************************************************************************)
(* Every step of the node with its peers is a step of one of the node's    *)
(* own handlers, or none of the node's business.                           *)
(***************************************************************************)
THEOREM RefreshImplementsTtlm == RefreshSpec => Spec
<1>1. RefreshInit => Init
  BY DEF RefreshInit
<1>2. NetTyped /\ [RefreshNext]_refreshVars => [Next]_vars
  <2> SUFFICES ASSUME NetTyped, [RefreshNext]_refreshVars PROVE [Next]_vars
    OBVIOUS
  <2>1. CASE Maintain
    BY <2>1 DEF Maintain, Next
  <2>2. ASSUME NEW m \in net, ProcessUnicastRequest(m) \/ Lose(m) PROVE UNCHANGED vars
    BY <2>2 DEF ProcessUnicastRequest, Lose
  <2>3. ASSUME NEW m \in net, ReceiveAnswer(m) PROVE Next
    <3>1. m.peer \in Peers
      BY DEF NetTyped, Message
    <3> QED
      BY <2>3, <3>1 DEF ReceiveAnswer, Next
  <2>4. ASSUME NEW p \in Peers, HearHello(p) \/ HearGlobalUpdate(p) \/ Forward(p) PROVE Next
    BY <2>4 DEF HearHello, HearGlobalUpdate, Forward, Next
  <2>5. CASE RestartTimer \/ Wait
    BY <2>5 DEF RestartTimer, Wait, Next
  <2>6. CASE UNCHANGED refreshVars
    BY <2>6 DEF refreshVars, vars
  <2> QED
    BY <2>1, <2>2, <2>3, <2>4, <2>5, <2>6 DEF RefreshNext
<1> QED
  BY <1>1, <1>2, NetInvariant, PTL DEF RefreshSpec, Spec

-----------------------------------------------------------------------------
(* Types.                                                                  *)

(***************************************************************************)
(* The histories count from 0 to the number of passes an advance reaches   *)
(* over, which that many intervals do not exceed.                          *)
(***************************************************************************)
LEMMA ChancesFacts ==
    /\ Chances \in Nat
    /\ Chances * MaintenanceInterval =< PreExpiryAdvance
    /\ \A n \in 0..Chances : CountUp(n) \in 0..Chances /\ CountUp(n) >= n
                             /\ CountUp(n) =< n + 1
                             /\ (CountUp(n) = n + 1 \/ CountUp(n) = Chances)
<1> DEFINE i == MaintenanceInterval
           a == PreExpiryAdvance
<1>1. i \in Nat /\ i > 0 /\ a \in Nat
  BY TtlmAssumption
<1>2. Chances = a \div i
  BY DEF Chances
<1> HIDE DEF i, a
<1>3. a \div i \in Nat /\ (a \div i) * i =< a
  BY <1>1
<1> QED
  BY <1>2, <1>3 DEF CountUp, i, a

(***************************************************************************)
(* What the steps do to the histories, and to which peers have an entry.   *)
(***************************************************************************)
LEMMA HistoriesTyped ==
    ASSUME TypeOK, TypeOK', NetTyped, RefreshTypeOK, [RefreshNext]_refreshVars
    PROVE  /\ passes' \in [Peers -> 0..Chances]
           /\ mishaps' \in [Peers -> 0..Chances]
           /\ \A p \in Peers \ DOMAIN zone' : passes'[p] = 0 /\ mishaps'[p] = 0
<1> USE ChancesFacts DEF RefreshTypeOK
<1>0. 0 \in 0..Chances
  OBVIOUS
<1>1. CASE Maintain
  BY <1>0, <1>1 DEF Maintain
<1>2. ASSUME NEW m \in net, ReceiveAnswer(m)
      PROVE  /\ passes' \in [Peers -> 0..Chances]
             /\ mishaps' \in [Peers -> 0..Chances]
             /\ \A p \in Peers \ DOMAIN zone' : passes'[p] = 0 /\ mishaps'[p] = 0
  BY <1>0, <1>2 DEF ReceiveAnswer, NewEntryOf, ProcessHello, AddOrUpdate
<1>3. ASSUME NEW q \in Peers, HearHello(q)
      PROVE  /\ passes' \in [Peers -> 0..Chances]
             /\ mishaps' \in [Peers -> 0..Chances]
             /\ \A p \in Peers \ DOMAIN zone' : passes'[p] = 0 /\ mishaps'[p] = 0
  BY <1>0, <1>3 DEF HearHello, NewEntryOf, ProcessHello, AddOrUpdate
<1>4. ASSUME NEW m \in net, Lose(m)
      PROVE  /\ passes' \in [Peers -> 0..Chances]
             /\ mishaps' \in [Peers -> 0..Chances]
             /\ \A p \in Peers \ DOMAIN zone' : passes'[p] = 0 /\ mishaps'[p] = 0
  BY <1>4 DEF Lose, vars
<1>5. ASSUME NEW q \in Peers, Forward(q)
      PROVE  /\ UNCHANGED <<passes, mishaps>>
             /\ DOMAIN zone \subseteq DOMAIN zone'
  BY <1>5, SendDataFacts DEF Forward, Preserves
<1>6. CASE RestartTimer
  BY <1>0, <1>6 DEF RestartTimer, NotifyInterfaceDown
<1>7. (\E m \in net : ProcessUnicastRequest(m)) \/ (\E q \in Peers : HearGlobalUpdate(q))
      \/ Wait \/ UNCHANGED refreshVars => UNCHANGED <<zone, passes, mishaps>>
  BY DEF ProcessUnicastRequest, HearGlobalUpdate, ProcessGlobalUpdate, Wait, Tick, vars,
         refreshVars
<1> QED
  BY <1>1, <1>2, <1>3, <1>4, <1>5, <1>6, <1>7 DEF RefreshNext

(***************************************************************************)
(* Tables, timer, messages and histories stay within their types.          *)
(***************************************************************************)
THEOREM RefreshTypeCorrect == RefreshSpec => []RefreshTypeOK
<1>1. RefreshInit /\ TypeOK => RefreshTypeOK
  <2>1. 0 \in 0..Chances
    BY ChancesFacts
  <2> QED
    BY <2>1 DEF RefreshInit, RefreshTypeOK
<1>2. TypeOK /\ TypeOK' /\ NetTyped' /\ NetTyped /\ RefreshTypeOK /\ [RefreshNext]_refreshVars
      => RefreshTypeOK'
  BY HistoriesTyped DEF RefreshTypeOK, NetTyped
<1>3. RefreshSpec => []TypeOK
  BY RefreshImplementsTtlm, TypeCorrect, PTL
<1> QED
  BY <1>1, <1>2, <1>3, NetInvariant, PTL DEF RefreshSpec

-----------------------------------------------------------------------------
\* A request and its answer take less than a maintenance interval.
AnswersInTime == \A d, e \in Delays : d + e < MaintenanceInterval

(***************************************************************************)
(* What makes OneInFlight inductive: nothing is under way any more when    *)
(* the next pass is due.                                                   *)
(***************************************************************************)
BeforeNextPass ==
    /\ maint =< now + MaintenanceInterval
    /\ \A m \in net :
          /\ m.due >= now
          /\ m.due < maint
          /\ m.kind = "UNICAST_REQUEST" => \A d \in Delays : m.due + d < maint

(***************************************************************************)
(* The requests of a pass arrive, and so do their answers, before the next *)
(* one, and there is one per peer.                                         *)
(***************************************************************************)
LEMMA PassStartsAfresh ==
    ASSUME AnswersInTime, NetTyped, TypeOK, BeforeNextPass, Maintain
    PROVE  /\ net = {}
           /\ \E delay \in [Peers -> Delays] : net' = RequestsOf(delay)
           /\ BeforeNextPass' /\ OneInFlight'
<1> USE TtlmAssumption, RefreshAssumption
<1>1. now = maint /\ maint' = now + MaintenanceInterval /\ now' = now /\ now \in Nat
  BY DEF Maintain, PerformMaintenance, NetTyped
<1>2. net = {}
  <2>1. \A m \in net : m.due \in Nat
    BY DEF NetTyped, Message
  <2> QED
    BY <1>1, <2>1 DEF BeforeNextPass
<1>3. PICK delay \in [Peers -> Delays] : net' = RequestsOf(delay)
  BY <1>2 DEF Maintain
<1>4. \A p \in Peers : sent'[p] =< 1
  <2>1. sent' \in [Peers -> 0..1]
    BY MaintenanceFacts DEF Maintain
  <2> QED
    BY <2>1
<1>5. ASSUME NEW m \in net'
      PROVE  /\ m.due >= now /\ m.due < now + MaintenanceInterval
             /\ \A d \in Delays : m.due + d < now + MaintenanceInterval
  <2>1. PICK d \in Delays : m.due = now + d
    BY <1>1, <1>3, RequestFacts
  <2>2. d \in Nat /\ d + d < MaintenanceInterval
    BY DEF AnswersInTime
  <2>3. \A e \in Delays : e \in Nat /\ d + e < MaintenanceInterval
    BY DEF AnswersInTime
  <2> QED
    BY <1>1, <2>1, <2>2, <2>3
<1>6. BeforeNextPass'
  BY <1>1, <1>5 DEF BeforeNextPass
<1>7. OneInFlight'
  <2> SUFFICES ASSUME NEW a \in net', NEW b \in net', a.peer = b.peer PROVE a = b
    BY DEF OneInFlight
  <2>1. \A m \in net' : /\ m = [kind |-> "UNICAST_REQUEST", peer |-> m.peer, nth |-> m.nth,
                                 due |-> now + delay[m.peer]]
                        /\ m.peer \in Peers /\ m.nth \in 1..2 /\ m.nth =< sent'[m.peer]
    BY <1>1, <1>3, RequestFacts DEF Message
  <2>2. \A m \in net' : m.nth = 1
    <3>1. sent' \in [Peers -> 0..1]
      BY MaintenanceFacts DEF Maintain
    <3> QED
      BY <2>1, <3>1
  <2> QED
    BY <2>1, <2>2
<1> QED
  BY <1>2, <1>3, <1>6, <1>7

(***************************************************************************)
(* When answers are back before the next pass, no more than one request or *)
(* answer is under way between the node and a peer, although a HELLO       *)
(* forgets all suppression.                                                *)
(***************************************************************************)
LEMMA InFlightInvariant ==
    ASSUME AnswersInTime PROVE RefreshSpec => [](BeforeNextPass /\ OneInFlight)
<1> USE TtlmAssumption, RefreshAssumption
<1>1. RefreshInit => BeforeNextPass /\ OneInFlight
  BY DEF RefreshInit, Init, BeforeNextPass, OneInFlight
<1>2. NetTyped /\ TypeOK /\ BeforeNextPass /\ OneInFlight /\ [RefreshNext]_refreshVars
      => BeforeNextPass' /\ OneInFlight'
  <2> SUFFICES ASSUME NetTyped, TypeOK, BeforeNextPass, OneInFlight, [RefreshNext]_refreshVars
               PROVE  BeforeNextPass' /\ OneInFlight'
    OBVIOUS
  <2>0. /\ now \in Nat /\ maint \in Nat
        /\ \A m \in net : m \in Message /\ m.due \in Nat
    BY DEF NetTyped, TypeOK, Message
  <2>1. CASE Maintain
    BY <2>1, PassStartsAfresh
  <2>2. ASSUME NEW m \in net, ProcessUnicastRequest(m) PROVE BeforeNextPass' /\ OneInFlight'
    <3>1. PICK d \in Delays :
              net' = (net \ {m}) \union {[m EXCEPT !.kind = "HELLO", !.due = now + d]}
      BY <2>2 DEF ProcessUnicastRequest
    <3> DEFINE answer == [m EXCEPT !.kind = "HELLO", !.due = now + d]
    <3>2. /\ answer.kind = "HELLO" /\ answer.due = now + d /\ answer.peer = m.peer
      BY <2>0 DEF Message
    <3>3. now' = now /\ maint' = maint /\ m.due = now /\ m.due + d < maint /\ d \in Nat
      BY <2>2 DEF ProcessUnicastRequest, vars, BeforeNextPass
    <3>4. net' = (net \ {m}) \union {answer}
      BY <3>1
    <3> HIDE DEF answer
    <3>5. BeforeNextPass'
      BY <2>0, <3>2, <3>3, <3>4 DEF BeforeNextPass
    <3>6. OneInFlight'
      BY <3>2, <3>4 DEF OneInFlight
    <3> QED
      BY <3>5, <3>6
  <2>3. ASSUME net' \subseteq net, now' = now, maint' = maint \/ maint' = now + MaintenanceInterval
        PROVE  BeforeNextPass' /\ OneInFlight'
    <3>1. maint' \in Nat /\ maint =< maint' /\ maint' =< now + MaintenanceInterval
      BY <2>0, <2>3 DEF BeforeNextPass
    <3>2. BeforeNextPass'
      <4> SUFFICES ASSUME NEW m \in net
                   PROVE  m.due < maint' /\ (m.kind = "UNICAST_REQUEST" =>
                                                \A d \in Delays : m.due + d < maint')
        BY <2>3, <3>1 DEF BeforeNextPass
      <4>1. \A d \in Delays : d \in Nat
        OBVIOUS
      <4> QED
        BY <2>0, <3>1, <4>1 DEF BeforeNextPass
    <3> QED
      BY <2>3, <3>2 DEF OneInFlight
  <2>4. ASSUME NEW m \in net, ReceiveAnswer(m) \/ Lose(m)
        PROVE  net' \subseteq net /\ now' = now /\ maint' = maint
    BY <2>4 DEF ReceiveAnswer, ProcessHello, Lose, vars
  <2>5. ASSUME NEW p \in Peers, HearHello(p) \/ HearGlobalUpdate(p) \/ Forward(p)
        PROVE  net' \subseteq net /\ now' = now /\ maint' = maint
    BY <2>5 DEF HearHello, ProcessHello, HearGlobalUpdate, ProcessGlobalUpdate, Forward,
                SendData
  <2>6. RestartTimer => net' \subseteq net /\ now' = now /\ maint' = now + MaintenanceInterval
    BY DEF RestartTimer, NotifyInterfaceDown
  <2>7. CASE Wait
    <3>1. now' = now + 1 /\ maint' = maint /\ net' = net /\ \A m \in net : m.due > now
      BY <2>7 DEF Wait, Tick
    <3> QED
      BY <2>0, <3>1 DEF BeforeNextPass, OneInFlight
  <2>8. UNCHANGED refreshVars => net' \subseteq net /\ now' = now /\ maint' = maint
    BY DEF refreshVars
  <2> QED
    BY <2>1, <2>2, <2>3, <2>4, <2>5, <2>6, <2>7, <2>8 DEF RefreshNext
<1> QED
  BY <1>1, <1>2, NetInvariant, RefreshImplementsTtlm, TypeCorrect, PTL DEF RefreshSpec

(***************************************************************************)
(* A request or its answer is under way to or from a peer, never more than *)
(* one.                                                                    *)
(***************************************************************************)
THEOREM NeverTwoInFlight == ASSUME AnswersInTime PROVE RefreshSpec => []OneInFlight
  BY InFlightInvariant, PTL

-----------------------------------------------------------------------------
(* How many losses refreshing makes up for.                                *)

\* The holds do not keep maintenance from asking when expiry is near: the smaller one and
\* a fifth of the advance end before the next pass.
HoldsAreShort ==
    /\ MinRequestHold =< MaintenanceInterval
    /\ PreExpiryAdvance \div 5 =< MaintenanceInterval

\* A request to p or its answer is still under way.
Pending(p) == IF \E m \in net : m.peer = p THEN 1 ELSE 0

\* Requests for p's entry that came to grief, or still may.
Grief(p) == mishaps[p] + Pending(p)

\* Of an entry with so much grief: every pass so far asked; or it lives through as many
\* passes from that of the timer on as there are chances left, each of which will ask.
ChancesLeft(grief, survived, expiry, timer) ==
    \/ grief >= survived
    \/ grief >= Chances
    \/ expiry >= timer + (Chances - grief - 1) * MaintenanceInterval

\* Its suppression is over by the next pass; or it is that of a request made before expiry
\* was near, which came to grief, or may, and it ends early in the advance.
HoldEnds(grief, expiry, until, timer) ==
    \/ until =< timer
    \/ /\ grief >= 1 \/ Chances = 0
       /\ expiry >= until + PreExpiryAdvance - MaintenanceInterval

\* What makes LossTolerance inductive.
MadeUpFor ==
    \A p \in DOMAIN zone :
        /\ ChancesLeft(Grief(p), passes[p], zone[p].expiry, maint)
        /\ HoldEnds(Grief(p), zone[p].expiry, zone[p].suppressUntil, maint)

(***************************************************************************)
(* More passes to live through take more time.                             *)
(***************************************************************************)
LEMMA MorePasses ==
    ASSUME NEW k \in Int, NEW i \in Nat
    PROVE  /\ k * i \in Int
           /\ (k - 1) * i = k * i - i
           /\ k >= 0 => k * i >= 0
           /\ \A j \in Int : k =< j => k * i =< j * i
<1>1. \A j \in Int : k =< j => j * i = k * i + (j - k) * i /\ (j - k) * i >= 0
  OBVIOUS
<1> QED
  BY <1>1

(***************************************************************************)
(* More grief leaves no less chances, a restart of the timer takes no more *)
(* than one, and when the grief is as much as it counts, so it stays.      *)
(***************************************************************************)
LEMMA GriefLeavesChances ==
    ASSUME NEW grief \in Nat, NEW more \in Nat, NEW survived \in 0..Chances,
           NEW expiry \in Nat, NEW until \in Nat, NEW timer \in Nat, NEW later \in Nat,
           ChancesLeft(grief, survived, expiry, timer),
           HoldEnds(grief, expiry, until, timer),
           \/ more >= Chances /\ later >= timer
           \/ more >= grief /\ later = timer
           \/ more >= grief + 1 /\ later >= timer /\ later =< timer + MaintenanceInterval
    PROVE  ChancesLeft(more, survived, expiry, later) /\ HoldEnds(more, expiry, until, later)
<1> DEFINE i == MaintenanceInterval
           owed == Chances - grief - 1
           left == Chances - more - 1
<1>1. i \in Nat /\ i > 0 /\ Chances \in Nat
  BY TtlmAssumption, ChancesFacts
<1>2. HoldEnds(more, expiry, until, later)
  BY <1>1 DEF HoldEnds
<1>3. ChancesLeft(more, survived, expiry, later)
  <2>1. CASE more >= Chances
    BY <2>1 DEF ChancesLeft
  <2>2. CASE more < Chances /\ more >= grief /\ grief >= survived
    <3>1. more >= survived
      BY <1>1, <2>2
    <3> QED
      BY <3>1 DEF ChancesLeft
  <2>3. CASE more < Chances /\ more >= grief /\ grief < survived
    <3>1. expiry >= timer + owed * i
      BY <1>1, <2>3 DEF ChancesLeft
    <3>2. /\ owed \in Int /\ left \in Int /\ left =< owed
          /\ more >= grief + 1 => left =< owed - 1
      BY <1>1, <2>3
    <3>3. \/ later = timer
          \/ left =< owed - 1 /\ later =< timer + i
      BY <1>1, <2>3, <3>2
    <3> HIDE DEF i, owed, left
    <3>4. owed * i \in Int /\ left * i \in Int /\ left * i =< owed * i
      BY <1>1, <3>2, MorePasses
    <3>5. left =< owed - 1 => left * i =< owed * i - i
      <4>1. left =< owed - 1 => left * i =< (owed - 1) * i
        BY <1>1, <3>2, MorePasses
      <4>2. (owed - 1) * i = owed * i - i
        BY <1>1, <3>2, MorePasses
      <4> QED
        BY <4>1, <4>2
    <3>6. expiry >= later + left * i
      BY <1>1, <3>1, <3>3, <3>4, <3>5
    <3> QED
      BY <3>6 DEF ChancesLeft, i, left
  <2>4. more >= Chances \/ (more < Chances /\ more >= grief)
    BY <1>1
  <2>5. grief >= survived \/ grief < survived
    BY <1>1
  <2> QED
    BY <2>1, <2>2, <2>3, <2>4, <2>5
<1> QED
  BY <1>2, <1>3

(***************************************************************************)
(* An entry is suppressed no longer than the smaller hold or a fifth of    *)
(* what is left of its life, whichever is more.                            *)
(***************************************************************************)
LEMMA WindowIsShort ==
    ASSUME NEW e \in Entry, now \in Nat, e.expiry >= now
    PROVE  /\ ComputeSuppressionWindow(e) \in Nat
           /\ \/ ComputeSuppressionWindow(e) =< MinRequestHold
              \/ ComputeSuppressionWindow(e) =< (e.expiry - now) \div 5
<1> DEFINE left == IF e.expiry > now THEN e.expiry - now ELSE 0
<1>1. left = e.expiry - now /\ left \in Nat
  BY DEF Entry
<1>2. left \div 5 \in Nat
  BY <1>1
<1>3. ComputeSuppressionWindow(e) = Clamp(left \div 5, MinRequestHold, MaxRequestHold)
  BY DEF ComputeSuppressionWindow
<1> HIDE DEF left
<1> QED
  BY <1>1, <1>2, <1>3, TtlmAssumption DEF Clamp

(***************************************************************************)
(* What a pass notes in an entry it asks for, and that it leaves any other *)
(* alone.                                                                  *)
(***************************************************************************)
LEMMA AskingSuppresses ==
    ASSUME NEW e \in Entry, now \in Nat
    PROVE  \/ /\ RequestsSent(e) = 0 /\ ~NearExpiry(e)
              /\ AfterBoth(e).suppressUntil = e.suppressUntil
           \/ /\ RequestsSent(e) = 1
              /\ AfterBoth(e).suppressUntil = now + ComputeSuppressionWindow(e)
<1>1. ASSUME NEW f \in Entry
      PROVE  Requested(f).suppressUntil = now + ComputeSuppressionWindow(f)
  BY DEF Requested, Entry
<1>2. CASE NearExpiry(e)
  <2>1. AfterFirst(e) = Requested(e)
    BY <1>2 DEF AfterFirst
  <2>2. /\ Requested(e) \in Entry
        /\ Requested(e).suppressUntil >= now + MinHold
    BY RequestedFacts
  <2>3. ~Unstable(AfterFirst(e))
    BY <2>1, <2>2, WindowBound DEF Unstable, Entry
  <2>4. AfterBoth(e) = Requested(e) /\ RequestsSent(e) = 1
    BY <1>2, <2>1, <2>3 DEF AfterBoth, RequestsSent
  <2> QED
    BY <1>1, <2>4
<1>3. CASE ~NearExpiry(e)
  <2>1. AfterFirst(e) = e
    BY <1>3 DEF AfterFirst
  <2>2. CASE Unstable(e)
    <3> DEFINE f == ResetFailureStatistics(e)
    <3>1. f \in Entry /\ f.expiry = e.expiry
      BY DEF ResetFailureStatistics, Entry
    <3>2. AfterBoth(e) = Requested(f) /\ RequestsSent(e) = 1
      BY <1>3, <2>1, <2>2 DEF AfterBoth, RequestsSent
    <3>3. ComputeSuppressionWindow(f) = ComputeSuppressionWindow(e)
      BY <3>1 DEF ComputeSuppressionWindow
    <3> HIDE DEF f
    <3> QED
      BY <1>1, <3>1, <3>2, <3>3
  <2>3. CASE ~Unstable(e)
    BY <1>3, <2>1, <2>3 DEF AfterBoth, RequestsSent
  <2> QED
    BY <2>2, <2>3
<1> QED
  BY <1>2, <1>3

(***************************************************************************)
(* The same of the entries that a pass leaves in the table.                *)
(***************************************************************************)
LEMMA PassFacts ==
    ASSUME TypeOK, PerformMaintenance, NEW p \in DOMAIN zone'
    PROVE  /\ p \in DOMAIN zone /\ ~IsExpired(zone[p], now)
           /\ zone'[p].expiry = zone[p].expiry
           /\ \/ /\ ~NearExpiry(zone[p])
                 /\ zone'[p].suppressUntil = zone[p].suppressUntil
              \/ /\ sent'[p] = 1
                 /\ zone'[p].suppressUntil = now + ComputeSuppressionWindow(zone[p])
<1> DEFINE kept  == Purge(zone, now)
           asked == {q \in DOMAIN kept : RequestsSent(kept[q]) > 0}
           f == AfterBoth(kept[p])
<1>1. now \in Nat /\ zone \in [DOMAIN zone -> Entry] /\ DOMAIN zone \subseteq Peers
  BY TtlmAssumption DEF TypeOK
<1>2. /\ DOMAIN kept = {q \in DOMAIN zone : ~IsExpired(zone[q], now)}
      /\ \A q \in DOMAIN kept : kept[q] = zone[q]
  BY DEF Purge
<1>3. PICK hops \in [DOMAIN kept -> 0..Cardinality(asked)] :
          zone' = [q \in DOMAIN kept |->
                      [AfterBoth(kept[q]) EXCEPT !.txAttempts = @ + hops[q]]]
  BY DEF PerformMaintenance
<1>4. sent' = [q \in Peers |-> IF q \in asked THEN RequestsSent(kept[q]) ELSE 0]
  BY DEF PerformMaintenance
<1>5. p \in DOMAIN kept
  BY <1>3
<1>6. p \in Peers /\ kept[p] = zone[p] /\ zone[p] \in Entry /\ ~IsExpired(zone[p], now)
      /\ p \in DOMAIN zone
  BY <1>1, <1>2, <1>5
<1>7. zone'[p] = [f EXCEPT !.txAttempts = f.txAttempts + hops[p]]
  BY <1>3, <1>5
<1>8. RequestsSent(zone[p]) = 1 => sent'[p] = 1
  BY <1>4, <1>5, <1>6
<1> HIDE DEF kept, asked
<1>9. f \in Entry /\ f.expiry = zone[p].expiry
  BY <1>1, <1>6, AfterBothFacts
<1>10. \/ RequestsSent(zone[p]) = 0 /\ ~NearExpiry(zone[p])
          /\ f.suppressUntil = zone[p].suppressUntil
       \/ RequestsSent(zone[p]) = 1
          /\ f.suppressUntil = now + ComputeSuppressionWindow(zone[p])
  BY <1>1, <1>6, AskingSuppresses
<1> HIDE DEF f
<1>11. zone'[p].expiry = f.expiry /\ zone'[p].suppressUntil = f.suppressUntil
  BY <1>7, <1>9 DEF Entry
<1> QED
  BY <1>6, <1>8, <1>9, <1>10, <1>11

(***************************************************************************)
(* An entry that a pass drops had all its chances.                         *)
(***************************************************************************)
LEMMA NoChanceWasLeft ==
    ASSUME NEW grief \in Nat, NEW survived \in 0..Chances, NEW expiry \in Nat, NEW t \in Nat,
           ChancesLeft(grief, survived, expiry, t), t > expiry
    PROVE  grief >= survived
<1> DEFINE i == MaintenanceInterval
           owed == Chances - grief - 1
<1>1. i \in Nat /\ Chances \in Nat
  BY TtlmAssumption, ChancesFacts
<1>2. CASE expiry >= t + owed * i /\ grief < Chances
  <2>1. owed \in Int /\ owed >= 0
    BY <1>1, <1>2
  <2>2. owed * i \in Int /\ owed * i >= 0
    BY <1>1, <2>1, MorePasses
  <2> HIDE DEF owed, i
  <2> QED
    BY <1>2, <2>2
<1> QED
  BY <1>1, <1>2 DEF ChancesLeft

(***************************************************************************)
(* A pass that asks, at time t, uses up one chance, which is pending.      *)
(***************************************************************************)
LEMMA AskingKeepsChances ==
    ASSUME HoldsAreShort,
           NEW grief \in Nat, NEW survived \in 0..Chances, NEW t \in Nat,
           NEW expiry \in Nat, expiry >= t, NEW window \in Nat,
           window =< MinRequestHold \/ window =< (expiry - t) \div 5,
           ChancesLeft(grief, survived, expiry, t)
    PROVE  /\ ChancesLeft(grief + 1, CountUp(survived), expiry, t + MaintenanceInterval)
           /\ HoldEnds(grief + 1, expiry, t + window, t + MaintenanceInterval)
<1> DEFINE i == MaintenanceInterval
           owed == Chances - grief - 1
           left == Chances - (grief + 1) - 1
<1>1. i \in Nat /\ i > 0 /\ Chances \in Nat /\ CountUp(survived) =< survived + 1
      /\ CountUp(survived) \in Nat
  BY TtlmAssumption, ChancesFacts
<1>2. ChancesLeft(grief + 1, CountUp(survived), expiry, t + i)
  <2>1. CASE grief >= survived \/ grief + 1 >= Chances
    BY <1>1, <2>1 DEF ChancesLeft
  <2>2. CASE expiry >= t + owed * i
    <3>1. owed \in Int /\ left = owed - 1
      BY <1>1
    <3> HIDE DEF owed, left, i
    <3>2. left * i = owed * i - i /\ owed * i \in Int
      BY <1>1, <3>1, MorePasses
    <3>3. expiry >= t + i + left * i
      BY <1>1, <2>2, <3>2
    <3> QED
      BY <3>3 DEF ChancesLeft, i, left
  <2> QED
    BY <1>1, <2>1, <2>2 DEF ChancesLeft
<1>3. HoldEnds(grief + 1, expiry, t + window, t + i)
  <2> DEFINE a == PreExpiryAdvance
             r == expiry - t
  <2>1. /\ a \in Nat /\ a \div 5 \in Nat /\ a \div 5 =< i /\ MinRequestHold =< i
        /\ r \in Nat /\ r \div 5 \in Nat /\ MinRequestHold \in Nat
    BY TtlmAssumption DEF HoldsAreShort
  <2>2. CASE window =< i
    BY <1>1, <2>2 DEF HoldEnds
  <2>3. CASE window > i
    <3>1. window =< r \div 5 /\ r \div 5 > i
      BY <1>1, <2>1, <2>3
    <3>2. r > a
      <4> SUFFICES ASSUME r =< a PROVE FALSE
        BY <2>1
      <4>1. r \div 5 =< a \div 5
        BY <2>1
      <4> QED
        BY <1>1, <2>1, <3>1, <4>1
    <3>3. r - (r \div 5) >= a - (a \div 5)
      BY <2>1, <3>2
    <3>4. r - window >= a - i
      BY <1>1, <2>1, <3>1, <3>3
    <3>5. expiry >= t + window + a - i
      BY <1>1, <2>1, <3>4
    <3> QED
      BY <3>5 DEF HoldEnds
  <2> QED
    BY <1>1, <2>2, <2>3
<1> QED
  BY <1>2, <1>3

(***************************************************************************)
(* A pass that does not ask leaves an entry with all chances; or its       *)
(* suppression has cost one request, and leaves it the others.             *)
(***************************************************************************)
LEMMA WaitingKeepsChances ==
    ASSUME NEW grief \in Nat, NEW survived \in 0..Chances, NEW t \in Nat,
           NEW expiry \in Nat, expiry >= t, NEW until \in Nat,
           HoldEnds(grief, expiry, until, t),
           expiry - t > PreExpiryAdvance \/ t < until
    PROVE  /\ ChancesLeft(grief, CountUp(survived), expiry, t + MaintenanceInterval)
           /\ HoldEnds(grief, expiry, until, t + MaintenanceInterval)
<1> DEFINE i == MaintenanceInterval
           left == Chances - grief - 1
           a == PreExpiryAdvance
           all == Chances * i
<1>1. i \in Nat /\ i > 0 /\ Chances \in Nat /\ a \in Nat
  <2>1. i \in Nat /\ i > 0 /\ a \in Nat
    BY TtlmAssumption
  <2> QED
    BY <2>1, ChancesFacts
<1>2. all =< a
  BY ChancesFacts
<1>3. HoldEnds(grief, expiry, until, t + i)
  BY <1>1 DEF HoldEnds
<1>4. all \in Int /\ (Chances - 1) * i = all - i /\ (Chances - 1 - 1) * i = all - i - i
  <2>1. Chances \in Int /\ Chances - 1 \in Int
    BY <1>1
  <2> HIDE DEF i
  <2>2. all \in Int /\ (Chances - 1) * i = all - i
    BY <1>1, <2>1, MorePasses
  <2>3. (Chances - 1 - 1) * i = (Chances - 1) * i - i
    BY <1>1, <2>1, MorePasses
  <2> QED
    BY <2>2, <2>3
<1> HIDE DEF i, a, all
<1>5. CASE expiry - t > a
  <2>1. left \in Int /\ Chances - 1 \in Int /\ left =< Chances - 1
    BY <1>1
  <2> HIDE DEF left
  <2>2. left * i =< (Chances - 1) * i /\ left * i \in Int
    BY <1>1, <2>1, MorePasses
  <2>3. expiry >= t + i + left * i
    BY <1>1, <1>2, <1>4, <1>5, <2>2
  <2> QED
    BY <1>3, <2>3 DEF ChancesLeft, i, left
<1>6. CASE t < until /\ Chances > 0
  <2>1. grief >= 1 /\ expiry >= until + a - i
    BY <1>6 DEF HoldEnds, a, i
  <2>2. left \in Int /\ Chances - 1 - 1 \in Int /\ left =< Chances - 1 - 1
    BY <1>1, <2>1
  <2> HIDE DEF left
  <2>3. left * i =< (Chances - 1 - 1) * i /\ left * i \in Int
    BY <1>1, <2>2, MorePasses
  <2>4. expiry >= t + i + left * i
    BY <1>1, <1>2, <1>4, <1>6, <2>1, <2>3
  <2> QED
    BY <1>3, <2>4 DEF ChancesLeft, i, left
<1>7. CASE Chances = 0
  BY <1>1, <1>3, <1>7 DEF ChancesLeft, i
<1> QED
  BY <1>1, <1>5, <1>6, <1>7 DEF a

\* What MadeUpFor says of the entry e of peer p.
Fine(grief, survived, e, timer) ==
    /\ ChancesLeft(grief, survived, e.expiry, timer)
    /\ HoldEnds(grief, e.expiry, e.suppressUntil, timer)

(***************************************************************************)
(* An entry just made has seen no pass.                                    *)
(***************************************************************************)
LEMMA NewEntryFine ==
    ASSUME NEW grief \in Nat, NEW e, e.suppressUntil = 0, maint' \in Nat
    PROVE  Fine(grief, 0, e, maint')
  BY DEF Fine, ChancesLeft, HoldEnds

(***************************************************************************)
(* A maintenance pass keeps chances for what it leaves in the table, and   *)
(* drops nothing before its chances are used up.                           *)
(***************************************************************************)
LEMMA PassKeepsChances ==
    ASSUME AnswersInTime, HoldsAreShort, NetTyped, TypeOK, RefreshTypeOK, SweptAtLastMaintenance,
           BeforeNextPass, MadeUpFor, Maintain
    PROVE  /\ \A p \in DOMAIN zone \ DOMAIN zone' : mishaps[p] >= passes[p]
           /\ MadeUpFor'
<1>1. /\ now = maint /\ maint' = now + MaintenanceInterval /\ now' = now /\ now \in Nat
      /\ PerformMaintenance
  BY DEF Maintain, PerformMaintenance, NetTyped
<1>2. ASSUME NEW p \in DOMAIN zone
      PROVE  /\ p \in Peers /\ zone[p] \in Entry /\ zone[p].expiry # 0
             /\ zone[p].expiry \in Nat /\ zone[p].suppressUntil \in Nat
             /\ passes[p] \in 0..Chances /\ mishaps[p] \in Nat
             /\ Grief(p) = mishaps[p]
             /\ ChancesLeft(mishaps[p], passes[p], zone[p].expiry, now)
             /\ HoldEnds(mishaps[p], zone[p].expiry, zone[p].suppressUntil, now)
  <2>1. p \in Peers /\ zone[p] \in Entry
    BY DEF TypeOK
  <2>2. zone[p].expiry # 0 /\ zone[p].expiry \in Nat /\ zone[p].suppressUntil \in Nat
    BY <2>1 DEF SweptAtLastMaintenance, Entry
  <2>3. passes[p] \in 0..Chances /\ mishaps[p] \in 0..Chances
    BY <2>1 DEF RefreshTypeOK
  <2>4. mishaps[p] \in Nat
    BY <2>3, ChancesFacts
  <2>5. net = {}
    BY PassStartsAfresh
  <2>6. Grief(p) = mishaps[p]
    BY <2>4, <2>5 DEF Grief, Pending
  <2>7. /\ ChancesLeft(Grief(p), passes[p], zone[p].expiry, maint)
        /\ HoldEnds(Grief(p), zone[p].expiry, zone[p].suppressUntil, maint)
    BY DEF MadeUpFor
  <2> QED
    BY <1>1, <2>1, <2>2, <2>3, <2>4, <2>6, <2>7
<1>3. ASSUME NEW p \in DOMAIN zone, p \notin DOMAIN zone'
      PROVE  mishaps[p] >= passes[p]
  <2>1. now > zone[p].expiry
    BY <1>1, <1>3, MaintenanceFacts DEF IsExpired
  <2> QED
    BY <1>1, <1>2, <2>1, NoChanceWasLeft
<1>4. ASSUME NEW p \in DOMAIN zone'
      PROVE  Fine(Grief(p)', passes'[p], zone'[p], maint')
  <2>1. /\ p \in DOMAIN zone /\ ~IsExpired(zone[p], now)
        /\ zone'[p].expiry = zone[p].expiry
        /\ \/ /\ ~NearExpiry(zone[p])
              /\ zone'[p].suppressUntil = zone[p].suppressUntil
           \/ /\ sent'[p] = 1
              /\ zone'[p].suppressUntil = now + ComputeSuppressionWindow(zone[p])
    BY <1>1, PassFacts
  <2> DEFINE expiry == zone[p].expiry
             until == zone[p].suppressUntil
             grief == mishaps[p]
             survived == passes[p]
  <2>2. /\ expiry \in Nat /\ expiry >= now /\ until \in Nat /\ expiry # 0
        /\ grief \in Nat /\ survived \in 0..Chances
        /\ ChancesLeft(grief, survived, expiry, now)
        /\ HoldEnds(grief, expiry, until, now)
    BY <1>1, <1>2, <2>1 DEF IsExpired
  <2>3. p \in Peers /\ mishaps'[p] = grief /\ passes'[p] = CountUp(survived)
    BY <1>2, <2>1 DEF Maintain
  <2>4. CASE /\ sent'[p] = 1
             /\ zone'[p].suppressUntil = now + ComputeSuppressionWindow(zone[p])
    <3>1. PICK delay \in [Peers -> Delays] : net' = RequestsOf(delay)
      BY PassStartsAfresh
    <3>2. \E m \in net' : m.peer = p
      <4>1. <<p, 1>> \in {q \in Peers \X (1..2) : q[2] =< sent'[q[1]]}
        BY <2>3, <2>4
      <4>2. [kind |-> "UNICAST_REQUEST", peer |-> p, nth |-> 1, due |-> now + delay[p]]
                \in RequestsOf(delay)
        BY <4>1 DEF RequestsOf
      <4> QED
        BY <3>1, <4>2
    <3>3. Grief(p)' = grief + 1
      BY <2>3, <3>2 DEF Grief, Pending
    <3> DEFINE window == ComputeSuppressionWindow(zone[p])
    <3>4. /\ window \in Nat
          /\ window =< MinRequestHold \/ window =< (expiry - now) \div 5
      BY <1>1, <1>2, <2>1, <2>2, WindowIsShort
    <3>5. zone'[p].suppressUntil = now + window /\ zone'[p].expiry = expiry
      BY <2>1, <2>4
    <3> HIDE DEF window, expiry, until, grief, survived
    <3>6. /\ ChancesLeft(grief + 1, CountUp(survived), expiry, now + MaintenanceInterval)
          /\ HoldEnds(grief + 1, expiry, now + window, now + MaintenanceInterval)
      BY <1>1, <2>2, <3>4, AskingKeepsChances
    <3> QED
      BY <1>1, <2>3, <3>3, <3>5, <3>6 DEF Fine
  <2>5. CASE ~NearExpiry(zone[p]) /\ zone'[p].suppressUntil = until
    <3>1. expiry - now > PreExpiryAdvance \/ now < until
      BY <1>1, <2>2, <2>5, TtlmAssumption DEF NearExpiry
    <3>2. zone'[p].suppressUntil = until /\ zone'[p].expiry = expiry
      BY <2>1, <2>5
    <3>3. Grief(p)' \in Nat /\ Grief(p)' >= grief
      BY <2>2, <2>3 DEF Grief, Pending
    <3> HIDE DEF expiry, until, grief, survived
    <3>4. /\ ChancesLeft(grief, CountUp(survived), expiry, now + MaintenanceInterval)
          /\ HoldEnds(grief, expiry, until, now + MaintenanceInterval)
      BY <1>1, <2>2, <3>1, WaitingKeepsChances
    <3>5. CountUp(survived) \in 0..Chances
      BY <2>2, ChancesFacts
    <3>6. now + MaintenanceInterval \in Nat
      BY <1>1, TtlmAssumption
    <3>7. /\ ChancesLeft(Grief(p)', CountUp(survived), expiry, now + MaintenanceInterval)
          /\ HoldEnds(Grief(p)', expiry, until, now + MaintenanceInterval)
      BY <2>2, <3>3, <3>4, <3>5, <3>6, GriefLeavesChances
    <3> QED
      BY <1>1, <2>3, <3>2, <3>7 DEF Fine
  <2> QED
    BY <2>1, <2>4, <2>5
<1> QED
  BY <1>3, <1>4 DEF MadeUpFor, Fine

(***************************************************************************)
(* So does every other step, which drops nothing at all.                   *)
(***************************************************************************)
LEMMA OtherStepsKeepChances ==
    ASSUME NetTyped, TypeOK, TypeOK', RefreshTypeOK, TimerOnTime, BeforeNextPass, MadeUpFor,
           [RefreshNext]_refreshVars, ~Maintain
    PROVE  /\ DOMAIN zone \subseteq DOMAIN zone'
           /\ MadeUpFor'
<1>1. ASSUME NEW p \in DOMAIN zone
      PROVE  /\ p \in Peers
             /\ zone[p].expiry \in Nat /\ zone[p].suppressUntil \in Nat
             /\ passes[p] \in 0..Chances /\ mishaps[p] \in 0..Chances /\ mishaps[p] \in Nat
             /\ Grief(p) \in Nat
             /\ ChancesLeft(Grief(p), passes[p], zone[p].expiry, maint)
             /\ HoldEnds(Grief(p), zone[p].expiry, zone[p].suppressUntil, maint)
  <2>1. p \in Peers /\ zone[p] \in Entry
    BY DEF TypeOK
  <2>2. passes[p] \in 0..Chances /\ mishaps[p] \in 0..Chances
    BY <2>1 DEF RefreshTypeOK
  <2>3. mishaps[p] \in Nat
    BY <2>2, ChancesFacts
  <2>4. Grief(p) \in Nat
    BY <2>3 DEF Grief, Pending
  <2> QED
    BY <2>1, <2>2, <2>3, <2>4 DEF MadeUpFor, Entry
<1>2. maint \in Nat /\ maint' \in Nat /\ now \in Nat /\ Chances \in Nat
  BY ChancesFacts DEF TypeOK, NetTyped
\* An entry that stays, with at least as much grief.
<1>3. ASSUME NEW p \in DOMAIN zone,
             zone'[p].expiry = zone[p].expiry, zone'[p].suppressUntil = zone[p].suppressUntil,
             passes'[p] = passes[p], Grief(p)' \in Nat,
             \/ Grief(p)' >= Chances /\ maint' >= maint
             \/ Grief(p)' >= Grief(p) /\ maint' = maint
             \/ /\ Grief(p)' >= Grief(p) + 1
                /\ maint' >= maint /\ maint' =< maint + MaintenanceInterval
      PROVE  Fine(Grief(p)', passes'[p], zone'[p], maint')
  <2> DEFINE grief == Grief(p)
             more == Grief(p)'
             expiry == zone[p].expiry
             until == zone[p].suppressUntil
             later == maint'
  <2>1. /\ grief \in Nat /\ more \in Nat /\ expiry \in Nat /\ until \in Nat
        /\ passes[p] \in 0..Chances /\ maint \in Nat /\ later \in Nat
        /\ ChancesLeft(grief, passes[p], expiry, maint)
        /\ HoldEnds(grief, expiry, until, maint)
    BY <1>1, <1>2, <1>3
  <2>2. \/ more >= Chances /\ later >= maint
        \/ more >= grief /\ later = maint
        \/ more >= grief + 1 /\ later >= maint /\ later =< maint + MaintenanceInterval
    BY <1>3
  <2> HIDE DEF grief, more, expiry, until, later
  <2>3. ChancesLeft(more, passes[p], expiry, later) /\ HoldEnds(more, expiry, until, later)
    BY <2>1, <2>2, GriefLeavesChances
  <2>4. passes'[p] = passes[p] /\ zone'[p].expiry = expiry /\ zone'[p].suppressUntil = until
    BY <1>3 DEF expiry, until
  <2> QED
    BY <2>3, <2>4 DEF Fine, more, later
\* An entry that is new, or replaced.
<1>4. ASSUME NEW p \in DOMAIN zone', zone'[p].suppressUntil = 0, passes'[p] = 0,
             mishaps'[p] \in Nat
      PROVE  Fine(Grief(p)', passes'[p], zone'[p], maint')
  <2>1. Grief(p)' \in Nat
    BY <1>4 DEF Grief, Pending
  <2> QED
    BY <1>2, <1>4, <2>1, NewEntryFine
<1> DEFINE Kept ==
               /\ DOMAIN zone \subseteq DOMAIN zone'
               /\ \A p \in DOMAIN zone' : Fine(Grief(p)', passes'[p], zone'[p], maint')
\* Steps that leave the table alone, and add to the grief of any peer if to anything.
<1>5. ASSUME zone' = zone, passes' = passes, maint' = maint,
             \A p \in DOMAIN zone : /\ mishaps'[p] \in Nat
                                   /\ \/ mishaps'[p] >= Chances
                                      \/ Grief(p)' >= Grief(p)
      PROVE  Kept
  <2> SUFFICES ASSUME NEW p \in DOMAIN zone
               PROVE  Fine(Grief(p)', passes'[p], zone'[p], maint')
    BY <1>5
  <2>1. Grief(p)' \in Nat /\ Grief(p)' >= mishaps'[p]
    BY <1>5 DEF Grief, Pending
  <2> QED
    BY <1>1, <1>2, <1>3, <1>5, <2>1
<1>6. ASSUME NEW m \in net, ProcessUnicastRequest(m) PROVE Kept
  <2>1. PICK d \in Delays :
            net' = (net \ {m}) \union {[m EXCEPT !.kind = "HELLO", !.due = now + d]}
    BY <1>6 DEF ProcessUnicastRequest
  <2> DEFINE answer == [m EXCEPT !.kind = "HELLO", !.due = now + d]
  <2>2. answer.peer = m.peer /\ net' = (net \ {m}) \union {answer}
    BY <2>1 DEF NetTyped, Message
  <2> HIDE DEF answer
  <2>3. \A p : (\E a \in net : a.peer = p) => (\E a \in net' : a.peer = p)
    BY <2>2
  <2>4. UNCHANGED <<zone, maint, passes, mishaps>>
    BY <1>6 DEF ProcessUnicastRequest, vars
  <2>5. \A p \in DOMAIN zone : Grief(p)' >= Grief(p)
    BY <1>1, <2>3, <2>4 DEF Grief, Pending
  <2> QED
    BY <1>1, <1>5, <2>4, <2>5
<1>7. ASSUME NEW m \in net, Lose(m) PROVE Kept
  <2>1. /\ net' = net \ {m} /\ UNCHANGED <<zone, maint, passes>>
        /\ mishaps' = [mishaps EXCEPT ![m.peer] =
                           IF m.peer \in DOMAIN zone THEN CountUp(@) ELSE @]
    BY <1>7 DEF Lose, vars
  <2>2. ASSUME NEW p \in DOMAIN zone
        PROVE  mishaps'[p] \in Nat /\ (mishaps'[p] >= Chances \/ Grief(p)' >= Grief(p))
    <3>1. p \in DOMAIN mishaps
      BY <1>1 DEF RefreshTypeOK
    <3>2. CASE m.peer = p
      <4>1. mishaps'[p] = CountUp(mishaps[p])
        BY <2>1, <3>1, <3>2
      <4>2. /\ CountUp(mishaps[p]) \in 0..Chances
            /\ CountUp(mishaps[p]) = mishaps[p] + 1 \/ CountUp(mishaps[p]) = Chances
        BY <1>1, ChancesFacts
      <4>3. mishaps'[p] \in Nat /\ (mishaps'[p] = mishaps[p] + 1 \/ mishaps'[p] = Chances)
        BY <1>2, <4>1, <4>2
      <4> QED
        BY <1>1, <1>2, <4>3 DEF Grief, Pending
    <3>3. CASE m.peer # p
      <4>1. mishaps'[p] = mishaps[p]
        BY <2>1, <3>1, <3>3
      <4>2. (\E a \in net : a.peer = p) => (\E a \in net' : a.peer = p)
        BY <2>1, <3>3
      <4> QED
        BY <1>1, <4>1, <4>2 DEF Grief, Pending
    <3> QED
      BY <3>2, <3>3
  <2> QED
    BY <1>5, <2>1, <2>2
<1>8. ASSUME NEW q \in Peers, NEW lifetime \in Lifetimes, ProcessHello(q, lifetime),
             NewEntryOf(q), \A a \in net : a.peer # q => a \in net'
      PROVE  Kept
  <2>1. /\ zone' = AddOrUpdate(zone, q, NewEntry(now + lifetime, 1)) /\ maint' = maint
        /\ passes' = [passes EXCEPT ![q] = 0] /\ mishaps' = [mishaps EXCEPT ![q] = 0]
    BY <1>8 DEF ProcessHello, NewEntryOf
  <2>2. /\ DOMAIN zone' = DOMAIN zone \union {q}
        /\ zone'[q] = NewEntry(now + lifetime, 1)
        /\ \A p \in DOMAIN zone \ {q} : zone'[p] = zone[p]
    BY <2>1 DEF AddOrUpdate
  <2>3. /\ passes'[q] = 0 /\ mishaps'[q] = 0
        /\ \A p \in Peers \ {q} : passes'[p] = passes[p] /\ mishaps'[p] = mishaps[p]
    BY <2>1 DEF RefreshTypeOK
  <2>4. NewEntry(now + lifetime, 1).suppressUntil = 0
    BY DEF NewEntry
  <2>5. ASSUME NEW p \in DOMAIN zone \ {q}
        PROVE  Fine(Grief(p)', passes'[p], zone'[p], maint')
    <3>1. (\E a \in net : a.peer = p) => (\E a \in net' : a.peer = p)
      BY <1>8
    <3>2. mishaps'[p] = mishaps[p] /\ passes'[p] = passes[p] /\ zone'[p] = zone[p]
      BY <1>1, <2>2, <2>3
    <3>3. Grief(p)' \in Nat /\ Grief(p)' >= Grief(p)
      BY <1>1, <3>1, <3>2 DEF Grief, Pending
    <3> QED
      BY <1>3, <2>1, <3>2, <3>3
  <2>6. Fine(Grief(q)', passes'[q], zone'[q], maint')
    BY <1>4, <2>2, <2>3, <2>4
  <2> QED
    BY <2>2, <2>5, <2>6
<1>9. ASSUME NEW m \in net, ReceiveAnswer(m) PROVE Kept
  <2>1. m.peer \in Peers
    BY DEF NetTyped, Message
  <2>2. PICK lifetime \in Lifetimes : ProcessHello(m.peer, lifetime)
    BY <1>9 DEF ReceiveAnswer
  <2>3. NewEntryOf(m.peer) /\ net' = net \ {m}
    BY <1>9 DEF ReceiveAnswer
  <2> QED
    BY <1>8, <2>1, <2>2, <2>3
<1>10. ASSUME NEW q \in Peers, HearHello(q) PROVE Kept
  BY <1>8, <1>10 DEF HearHello
<1>11. ASSUME NEW q \in Peers, Forward(q) PROVE Kept
  <2>1. /\ SendData(q) /\ UNCHANGED <<net, passes, mishaps>>
    BY <1>11 DEF Forward
  <2>2. maint' = maint
    BY <2>1 DEF SendData
  <2>3. /\ DOMAIN zone' \subseteq Peers
        /\ Preserves(zone', zone)
        /\ \A p \in DOMAIN zone' \ DOMAIN zone : zone'[p].suppressUntil = 0
    BY <2>1, SendDataFacts
  <2>4. ASSUME NEW p \in DOMAIN zone
        PROVE  Fine(Grief(p)', passes'[p], zone'[p], maint')
    <3>1. Grief(p)' = Grief(p)
      BY <2>1 DEF Grief, Pending
    <3>2. zone'[p].expiry = zone[p].expiry /\ zone'[p].suppressUntil = zone[p].suppressUntil
      BY <2>3 DEF Preserves
    <3> QED
      BY <1>1, <1>3, <2>1, <2>2, <3>1, <3>2
  <2>5. ASSUME NEW p \in DOMAIN zone' \ DOMAIN zone
        PROVE  Fine(Grief(p)', passes'[p], zone'[p], maint')
    <3>1. p \in Peers /\ passes'[p] = 0 /\ mishaps'[p] = 0
      BY <2>1, <2>3 DEF RefreshTypeOK
    <3> QED
      BY <1>4, <2>3, <3>1
  <2>6. DOMAIN zone \subseteq DOMAIN zone'
    BY <2>3 DEF Preserves
  <2> QED
    BY <2>4, <2>5, <2>6
<1>12. ASSUME RestartTimer PROVE Kept
  <2>1. /\ zone' = zone /\ net' = net /\ passes' = passes
        /\ maint' = now + MaintenanceInterval
        /\ mishaps' = [p \in Peers |-> IF p \in DOMAIN zone THEN CountUp(mishaps[p]) ELSE 0]
    BY <1>12 DEF RestartTimer, NotifyInterfaceDown
  <2>2. maint' >= maint /\ maint' =< maint + MaintenanceInterval
    <3>1. now =< maint /\ maint =< now + MaintenanceInterval
      BY DEF BeforeNextPass, TimerOnTime
    <3> QED
      BY <1>2, <2>1, <3>1, TtlmAssumption
  <2>3. ASSUME NEW p \in DOMAIN zone
        PROVE  Fine(Grief(p)', passes'[p], zone'[p], maint')
    <3>1. mishaps'[p] = CountUp(mishaps[p])
      BY <1>1, <2>1
    <3>2. /\ CountUp(mishaps[p]) \in 0..Chances
          /\ CountUp(mishaps[p]) = mishaps[p] + 1 \/ CountUp(mishaps[p]) = Chances
      BY <1>1, ChancesFacts
    <3>3. mishaps'[p] \in Nat /\ (mishaps'[p] = mishaps[p] + 1 \/ mishaps'[p] = Chances)
      BY <1>2, <3>1, <3>2
    <3>4. Grief(p)' \in Nat /\ (Grief(p)' = Grief(p) + 1 \/ Grief(p)' >= Chances)
      BY <1>1, <1>2, <2>1, <3>3 DEF Grief, Pending
    <3> QED
      BY <1>1, <1>2, <1>3, <2>1, <2>2, <3>4
  <2> QED
    BY <2>1, <2>3
<1>13. ASSUME UNCHANGED <<zone, maint, net, passes, mishaps>> PROVE Kept
  <2>1. \A p \in DOMAIN zone : Grief(p)' = Grief(p)
    BY <1>13 DEF Grief, Pending
  <2> QED
    BY <1>1, <1>5, <1>13, <2>1
<1>14. (\E q \in Peers : HearGlobalUpdate(q)) \/ Wait \/ UNCHANGED refreshVars
          => UNCHANGED <<zone, maint, net, passes, mishaps>>
  BY DEF HearGlobalUpdate, ProcessGlobalUpdate, Wait, Tick, refreshVars
<1>15. Kept
  <2> HIDE DEF Kept
  <2>1. \/ \E m \in net : ProcessUnicastRequest(m)
        \/ \E m \in net : ReceiveAnswer(m)
        \/ \E m \in net : Lose(m)
        \/ \E q \in Peers : HearHello(q)
        \/ \E q \in Peers : Forward(q)
        \/ RestartTimer
        \/ (\E q \in Peers : HearGlobalUpdate(q)) \/ Wait \/ UNCHANGED refreshVars
    BY DEF RefreshNext
  <2> QED
    BY <1>6, <1>7, <1>9, <1>10, <1>11, <1>12, <1>13, <1>14, <2>1
<1> QED
  BY <1>15 DEF MadeUpFor, Fine

(***************************************************************************)
(* A peer that answers is forgotten only after as many mishaps as the      *)
(* advance reaches over passes, or as its entry has seen passes at all,    *)
(* whatever else is lost, however the timer is restarted and whatever the  *)
(* data plane does to the entry.                                           *)
(***************************************************************************)
THEOREM LossesTolerated ==
    ASSUME AnswersInTime, HoldsAreShort
    PROVE  RefreshSpec => LossTolerance
<1> DEFINE Inv == /\ NetTyped /\ TypeOK /\ RefreshTypeOK /\ SweptAtLastMaintenance
                  /\ TimerOnTime /\ BeforeNextPass
<1>1. RefreshInit => MadeUpFor
  BY DEF RefreshInit, Init, MadeUpFor
<1>2. Inv /\ TypeOK' /\ MadeUpFor /\ [RefreshNext]_refreshVars
      => /\ MadeUpFor'
         /\ [\A p \in DOMAIN zone \ DOMAIN zone' : mishaps[p] >= passes[p]]_refreshVars
  BY PassKeepsChances, OtherStepsKeepChances
<1>3. RefreshSpec => []Inv
  BY NetInvariant, RefreshImplementsTtlm, TypeCorrect, RefreshTypeCorrect, SweepInvariant,
     TimerInvariant, InFlightInvariant, PTL
<1> QED
  BY <1>1, <1>2, <1>3, PTL DEF RefreshSpec, LossTolerance
=============================================================================
