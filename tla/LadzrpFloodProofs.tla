--------------------------- MODULE LadzrpFloodProofs ---------------------------
(***************************************************************************)
(* The two floods, proved for any number of nodes and interfaces, any      *)
(* topology, any delays within the bounds, any losses and any number of    *)
(* messages.  Only what a flood reaches supposes that nothing is lost.     *)
(***************************************************************************)
EXTENDS LadzrpFlood, WellFoundedInduction, TLAPS

-----------------------------------------------------------------------------
(* What the handlers put on the air.                                       *)

\* Frame g carries m from an interface of node n to one that hears it, and takes its time.
IsCopy(g, m, n) ==
    /\ g \in Frame
    /\ g.msg = m
    /\ <<g.from, g.to>> \in Hears /\ Owner[g.from] = n
    /\ g.due > now /\ g.due >= now + MinDelay /\ g.due =< now + MaxDelay

\* Whatever hears one of the interfaces in out is going to get a copy of m.
Aired(m, out) ==
    \A r \in Hears : r[1] \in out =>
        \E g \in net' : g.msg = m /\ g.to = r[2] /\ g.due =< now + MaxDelay

(***************************************************************************)
(* A TTL is a uint8_t above zero, and no flood begins with a larger one    *)
(* than a GLOBAL_UPDATE.                                                   *)
(***************************************************************************)
LEMMA TtlFacts ==
    /\ HelloTtl \in 1..255 /\ UpdateTtl \in 1..255 /\ HelloTtl =< UpdateTtl
    /\ \A m : InitialTtl(m) \in 1..255 /\ InitialTtl(m) =< UpdateTtl
<1> DEFINE doubled == (2 * ZoneRadiusMid) % 256
<1>1. doubled \in 0..255
  BY FloodAssumption
<1>2. UpdateTtl = IF doubled > ZoneRadiusHigh THEN doubled ELSE ZoneRadiusHigh
  BY DEF UpdateTtl
<1> HIDE DEF doubled
<1>3. UpdateTtl \in 1..255 /\ HelloTtl \in 1..255 /\ HelloTtl =< UpdateTtl
  BY <1>1, <1>2, FloodAssumption DEF HelloTtl
<1> QED
  BY <1>3 DEF InitialTtl

(***************************************************************************)
(* A frame takes its time, and no longer than the bound.                   *)
(***************************************************************************)
LEMMA DelayFacts ==
    /\ MinDelay \in Nat \ {0} /\ MaxDelay \in Nat
    /\ \A d \in Delays : d \in MinDelay..MaxDelay /\ d \in Nat /\ d =< MaxDelay
BY FloodAssumption

(***************************************************************************)
(* A broadcast yields copies of the message from the sender's interfaces.  *)
(***************************************************************************)
LEMMA SpreadFacts ==
    ASSUME now \in Nat, NEW n \in Nodes, NEW out \in SUBSET InterfacesOf(n),
           NEW delay \in DelayFor(out), NEW m \in Message,
           NEW via \in Ifaces \union {<<>>},
           NEW g \in Spread(out, m, via, delay)
    PROVE  IsCopy(g, m, n) /\ g.from \in out
<1>1. PICK r \in {h \in Hears : h[1] \in out} :
          g = [msg |-> m, from |-> r[1], to |-> r[2], due |-> now + delay[r], via |-> via]
  BY DEF Spread
<1>2. delay[r] \in MinDelay..MaxDelay /\ MinDelay \in Nat \ {0} /\ MaxDelay \in Nat
  <2>1. delay[r] \in Delays
    BY DEF DelayFor
  <2> QED
    BY <2>1, DelayFacts
<1>3. r[1] \in Ifaces /\ r[2] \in Ifaces /\ r = <<r[1], r[2]>> /\ Owner[r[1]] = n
  BY FloodAssumption DEF InterfacesOf
<1>4. /\ now + delay[r] \in Nat /\ now + delay[r] > now
      /\ now + delay[r] >= now + MinDelay /\ now + delay[r] =< now + MaxDelay
  BY <1>2
<1> QED
  BY <1>1, <1>2, <1>3, <1>4 DEF IsCopy, Frame

(***************************************************************************)
(* A broadcast leaves nothing out that hears it.                           *)
(***************************************************************************)
LEMMA SpreadReaches ==
    ASSUME now \in Nat, NEW out, NEW delay \in DelayFor(out), NEW m, NEW via,
           Spread(out, m, via, delay) \subseteq net'
    PROVE  Aired(m, out)
<1> SUFFICES ASSUME NEW r \in Hears, r[1] \in out
             PROVE  \E g \in net' : g.msg = m /\ g.to = r[2] /\ g.due =< now + MaxDelay
  BY DEF Aired
<1> DEFINE g == [msg |-> m, from |-> r[1], to |-> r[2], due |-> now + delay[r], via |-> via]
<1>1. g \in net'
  BY DEF Spread
<1>2. delay[r] \in Nat /\ delay[r] =< MaxDelay /\ MaxDelay \in Nat
  <2>1. delay[r] \in Delays
    BY DEF DelayFor
  <2> QED
    BY <2>1, DelayFacts
<1>3. g.msg = m /\ g.to = r[2] /\ g.due = now + delay[r]
  OBVIOUS
<1> HIDE DEF g
<1> QED
  BY <1>1, <1>2, <1>3

(***************************************************************************)
(* A node that originates a message gives it the next sequence number and  *)
(* the present time.                                                       *)
(***************************************************************************)
Originates(n, m) ==
    /\ m \in Message
    /\ n \in Nodes
    /\ sequence[n] < MaxMessages /\ lastSent[n] < now
    /\ m.key = <<n, sequence[n] + 1>>
    /\ sequence' = [sequence EXCEPT ![n] = @ + 1]
    /\ m.timestamp = now
    /\ m.ttl \in 1..InitialTtl(m)
    /\ m.kind = "HELLO" => m.hop = 1
    /\ \A g \in net' : g \in net \/ IsCopy(g, m, n)
    /\ net \subseteq net'
    /\ lastSent' = [lastSent EXCEPT ![n] = now]
    /\ \E b \in BOOLEAN :
          /\ sent' = sent \union {[msg |-> m, flood |-> b]}
          /\ b => m.ttl = InitialTtl(m) /\ Aired(m, InterfacesOf(n))
          /\ b \/ m.ttl = 1
    /\ UNCHANGED <<now, known, zone, global, accepted>>

(***************************************************************************)
(* That is what the three handlers that originate messages do.             *)
(***************************************************************************)
LEMMA OriginationFacts ==
    ASSUME TypeOK, NEW n \in Nodes,
           \/ SendHello(n)
           \/ \E r \in Hears : AnswerRequest(n, r)
           \/ MaybeSendGlobalUpdate(n)
    PROVE  \E m \in Message : Originates(n, m)
<1> USE TtlFacts
<1>1. now \in Nat /\ sequence[n] \in Nat /\ (MaySend(n) => lastSent[n] < now)
  BY FloodAssumption DEF TypeOK, MaySend
<1>2. InterfacesOf(n) \in SUBSET InterfacesOf(n)
  OBVIOUS
<1>3. CASE SendHello(n)
  <2>1. PICK k \in Key :
            LET m == [kind |-> "HELLO", key |-> k, ttl |-> HelloTtl, hop |-> 1,
                      timestamp |-> now]
            IN  /\ NewKey(n, k)
                /\ sent' = sent \union {[msg |-> m, flood |-> TRUE]}
                /\ \E delay \in DelayFor(InterfacesOf(n)) :
                      net' = net \union Spread(InterfacesOf(n), m, <<>>, delay)
    BY <1>3 DEF SendHello
  <2> DEFINE m == [kind |-> "HELLO", key |-> k, ttl |-> HelloTtl, hop |-> 1,
                   timestamp |-> now]
  <2>2. m \in Message /\ InitialTtl(m) = HelloTtl
    BY <1>1 DEF Message, InitialTtl
  <2>3. /\ m.key = k /\ m.timestamp = now /\ m.ttl = HelloTtl /\ m.hop = 1
    OBVIOUS
  <2>4. /\ NewKey(n, k)
        /\ sent' = sent \union {[msg |-> m, flood |-> TRUE]}
    BY <2>1
  <2>5. /\ \A g \in net' : g \in net \/ IsCopy(g, m, n)
        /\ net \subseteq net' /\ Aired(m, InterfacesOf(n))
    <3>1. PICK delay \in DelayFor(InterfacesOf(n)) :
              net' = net \union Spread(InterfacesOf(n), m, <<>>, delay)
      BY <2>1
    <3> HIDE DEF m
    <3> QED
      BY <1>1, <1>2, <2>2, <3>1, SpreadFacts, SpreadReaches
  <2>6. /\ lastSent[n] < now /\ lastSent' = [lastSent EXCEPT ![n] = now]
        /\ UNCHANGED <<now, known, zone, global, accepted>>
    BY <1>1, <1>3 DEF SendHello
  <2> HIDE DEF m
  <2>7. m.ttl \in 1..InitialTtl(m) /\ (m.kind = "HELLO" => m.hop = 1)
    BY <2>2, <2>3
  <2>8. \E b \in BOOLEAN :
            /\ sent' = sent \union {[msg |-> m, flood |-> b]}
            /\ b => m.ttl = InitialTtl(m) /\ Aired(m, InterfacesOf(n))
            /\ b \/ m.ttl = 1
    BY <2>2, <2>3, <2>4, <2>5
  <2>9. Originates(n, m)
    BY <2>2, <2>3, <2>4, <2>5, <2>6, <2>7, <2>8 DEF Originates, NewKey
  <2> QED
    BY <2>2, <2>9
<1>4. ASSUME NEW r \in Hears, AnswerRequest(n, r)
      PROVE  \E m \in Message : Originates(n, m)
  <2>1. PICK k \in Key, delay \in Delays :
            LET m == [kind |-> "HELLO", key |-> k, ttl |-> 1, hop |-> 1, timestamp |-> now]
            IN  /\ NewKey(n, k)
                /\ sent' = sent \union {[msg |-> m, flood |-> FALSE]}
                /\ net' = net \union {[msg |-> m, from |-> r[1], to |-> r[2],
                                       due |-> now + delay, via |-> <<>>]}
    BY <1>4 DEF AnswerRequest
  <2> DEFINE m == [kind |-> "HELLO", key |-> k, ttl |-> 1, hop |-> 1, timestamp |-> now]
             g == [msg |-> m, from |-> r[1], to |-> r[2], due |-> now + delay, via |-> <<>>]
  <2>2. m \in Message /\ InitialTtl(m) = HelloTtl
    BY <1>1 DEF Message, InitialTtl
  <2>3. /\ m.key = k /\ m.timestamp = now /\ m.ttl = 1 /\ m.hop = 1
    OBVIOUS
  <2>4. /\ NewKey(n, k)
        /\ sent' = sent \union {[msg |-> m, flood |-> FALSE]}
        /\ net' = net \union {g}
    BY <2>1
  <2>5. /\ lastSent[n] < now /\ lastSent' = [lastSent EXCEPT ![n] = now]
        /\ Owner[r[1]] = n
        /\ UNCHANGED <<now, known, zone, global, accepted>>
    BY <1>1, <1>4 DEF AnswerRequest
  <2> HIDE DEF m
  <2>6. IsCopy(g, m, n)
    <3>1. delay \in MinDelay..MaxDelay /\ MinDelay \in Nat \ {0} /\ MaxDelay \in Nat
      BY FloodAssumption
    <3>2. r[1] \in Ifaces /\ r[2] \in Ifaces /\ r = <<r[1], r[2]>>
      BY FloodAssumption
    <3>3. /\ now + delay \in Nat /\ now + delay > now
          /\ now + delay >= now + MinDelay /\ now + delay =< now + MaxDelay
      BY <1>1, <3>1
    <3> QED
      BY <2>2, <2>5, <3>1, <3>2, <3>3 DEF IsCopy, Frame
  <2> HIDE DEF g
  <2>7. m.ttl \in 1..InitialTtl(m) /\ (m.kind = "HELLO" => m.hop = 1)
    BY <2>2, <2>3
  <2>8. \E b \in BOOLEAN :
            /\ sent' = sent \union {[msg |-> m, flood |-> b]}
            /\ b => m.ttl = InitialTtl(m) /\ Aired(m, InterfacesOf(n))
            /\ b \/ m.ttl = 1
    BY <2>3, <2>4
  <2>9. Originates(n, m)
    BY <2>2, <2>3, <2>4, <2>5, <2>6, <2>7, <2>8 DEF Originates, NewKey
  <2> QED
    BY <2>2, <2>9
<1>5. CASE MaybeSendGlobalUpdate(n)
  <2>1. PICK k \in Key :
            LET m == [kind |-> "GLOBAL_UPDATE", key |-> k, ttl |-> UpdateTtl, hop |-> 0,
                      timestamp |-> now]
            IN  /\ NewKey(n, k)
                /\ sent' = sent \union {[msg |-> m, flood |-> TRUE]}
                /\ \E delay \in DelayFor(InterfacesOf(n)) :
                      net' = net \union Spread(InterfacesOf(n), m, <<>>, delay)
    BY <1>5 DEF MaybeSendGlobalUpdate
  <2> DEFINE m == [kind |-> "GLOBAL_UPDATE", key |-> k, ttl |-> UpdateTtl, hop |-> 0,
                   timestamp |-> now]
  <2>2. m \in Message /\ InitialTtl(m) = UpdateTtl
    BY <1>1 DEF Message, InitialTtl
  <2>3. /\ m.key = k /\ m.timestamp = now /\ m.ttl = UpdateTtl /\ m.kind # "HELLO"
    OBVIOUS
  <2>4. /\ NewKey(n, k)
        /\ sent' = sent \union {[msg |-> m, flood |-> TRUE]}
    BY <2>1
  <2>5. /\ \A g \in net' : g \in net \/ IsCopy(g, m, n)
        /\ net \subseteq net' /\ Aired(m, InterfacesOf(n))
    <3>1. PICK delay \in DelayFor(InterfacesOf(n)) :
              net' = net \union Spread(InterfacesOf(n), m, <<>>, delay)
      BY <2>1
    <3> HIDE DEF m
    <3> QED
      BY <1>1, <1>2, <2>2, <3>1, SpreadFacts, SpreadReaches
  <2>6. /\ lastSent[n] < now /\ lastSent' = [lastSent EXCEPT ![n] = now]
        /\ UNCHANGED <<now, known, zone, global, accepted>>
    BY <1>1, <1>5 DEF MaybeSendGlobalUpdate
  <2> HIDE DEF m
  <2>7. m.ttl \in 1..InitialTtl(m) /\ (m.kind = "HELLO" => m.hop = 1)
    BY <2>2, <2>3
  <2>8. \E b \in BOOLEAN :
            /\ sent' = sent \union {[msg |-> m, flood |-> b]}
            /\ b => m.ttl = InitialTtl(m) /\ Aired(m, InterfacesOf(n))
            /\ b \/ m.ttl = 1
    BY <2>2, <2>3, <2>4, <2>5
  <2>9. Originates(n, m)
    BY <2>2, <2>3, <2>4, <2>5, <2>6, <2>7, <2>8 DEF Originates, NewKey
  <2> QED
    BY <2>2, <2>9
<1> QED
  BY <1>3, <1>4, <1>5

(***************************************************************************)
(* What a relay sends on is a message with one hop less to go.             *)
(***************************************************************************)
LEMMA ForwardedFacts ==
    ASSUME NEW m \in Message, m.ttl > 1
    PROVE  /\ Forwarded(m) \in Message
           /\ Forwarded(m).key = m.key /\ Forwarded(m).kind = m.kind
           /\ Forwarded(m).timestamp = m.timestamp
           /\ Forwarded(m).ttl = m.ttl - 1
           /\ m.kind = "HELLO" => Forwarded(m).hop = m.hop + 1
<1> DEFINE hop == IF m.kind = "HELLO" THEN m.hop + 1 ELSE m.hop
<1>1. Forwarded(m) = [m EXCEPT !.ttl = m.ttl - 1, !.hop = hop]
  BY DEF Forwarded
<1>2. hop \in Nat /\ m.ttl - 1 \in 0..255 /\ (m.kind = "HELLO" => hop = m.hop + 1)
  BY DEF Message
<1> HIDE DEF hop
<1> QED
  BY <1>1, <1>2 DEF Message

(***************************************************************************)
(* Node n takes the message of frame f for new, and may relay it.          *)
(***************************************************************************)
Table(n, f, table) ==
    [table EXCEPT ![n] = AddOrUpdate(@, f.msg.key[1], [timestamp |-> f.msg.timestamp,
                                                       hop |-> f.msg.hop])]

TakesForNew(f, n) ==
    /\ n = Owner[f.to]
    /\ f.due = now
    /\ ~IsDuplicate(n, f.msg.key)
    /\ known' = Inserted(n, f.msg.key)
    /\ accepted' = TookForNew(n, f.msg.key)
    /\ zone' = zone \/ (f.msg.kind = "HELLO" /\ zone' = Table(n, f, zone))
    /\ global' = global \/ (f.msg.kind = "GLOBAL_UPDATE" /\ global' = Table(n, f, global))
    /\ \A g \in net' : \/ g \in net
                       \/ /\ f.msg.ttl > 1 /\ IsCopy(g, Forwarded(f.msg), n)
                          /\ g.from \in RelayInterfaces(f)
    /\ net \ {f} \subseteq net'
    /\ f.msg.ttl > 1 /\ (f.msg.kind = "HELLO" => n \in Placed) =>
           Aired(Forwarded(f.msg), RelayInterfaces(f))
    /\ UNCHANGED <<now, sequence, lastSent, sent>>

(***************************************************************************)
(* That is what RecvControl does with a message the node does not know.    *)
(***************************************************************************)
LEMMA ReceptionFacts ==
    ASSUME TypeOK, NEW f \in net,
           IgnoreHello(f) \/ ProcessHello(f) \/ ProcessGlobalUpdate(f)
    PROVE  TakesForNew(f, Owner[f.to])
<1> DEFINE n == Owner[f.to]
<1>1. /\ f.msg \in Message /\ f.to \in Ifaces /\ now \in Nat /\ n \in Nodes
  BY FloodAssumption DEF TypeOK, Frame
<1>2. ASSUME Relay(f)
      PROVE  /\ \A g \in net' :
                   \/ g \in net
                   \/ /\ f.msg.ttl > 1 /\ IsCopy(g, Forwarded(f.msg), n)
                      /\ g.from \in RelayInterfaces(f)
             /\ net \ {f} \subseteq net'
             /\ f.msg.ttl > 1 => Aired(Forwarded(f.msg), RelayInterfaces(f))
  <2>1. CASE f.msg.ttl =< 1 /\ net' = net \ {f}
    <3>1. f.msg.ttl \in Int
      BY <1>1 DEF Message
    <3> QED
      BY <2>1, <3>1
  <2>2. ASSUME f.msg.ttl > 1, NEW delay \in DelayFor(RelayInterfaces(f)),
               net' = (net \ {f})
                      \union Spread(RelayInterfaces(f), Forwarded(f.msg), f.to, delay)
        PROVE  /\ \A g \in net' :
                     \/ g \in net
                     \/ /\ f.msg.ttl > 1 /\ IsCopy(g, Forwarded(f.msg), n)
                        /\ g.from \in RelayInterfaces(f)
               /\ net \ {f} \subseteq net'
               /\ Aired(Forwarded(f.msg), RelayInterfaces(f))
    <3>1. RelayInterfaces(f) \in SUBSET InterfacesOf(n)
      BY DEF RelayInterfaces
    <3>2. Forwarded(f.msg) \in Message
      BY <1>1, <2>2, ForwardedFacts
    <3> HIDE DEF n
    <3> QED
      BY <1>1, <2>2, <3>1, <3>2, SpreadFacts, SpreadReaches
  <2> QED
    BY <1>2, <2>1, <2>2 DEF Relay
<1>3. CASE IgnoreHello(f)
  BY <1>3 DEF IgnoreHello, TakesForNew
<1>4. CASE ProcessHello(f)
  <2>1. Relay(f) /\ f.msg.kind = "HELLO" /\ zone' = Table(n, f, zone)
    BY <1>4 DEF ProcessHello, Table
  <2> QED
    BY <1>2, <1>4, <2>1 DEF ProcessHello, TakesForNew
<1>5. CASE ProcessGlobalUpdate(f)
  <2>1. Relay(f) /\ f.msg.kind = "GLOBAL_UPDATE" /\ global' = Table(n, f, global)
    BY <1>5 DEF ProcessGlobalUpdate, Table
  <2> QED
    BY <1>2, <1>5, <2>1 DEF ProcessGlobalUpdate, TakesForNew
<1> QED
  BY <1>3, <1>4, <1>5

\* A frame leaves the air without effect.
FramesVanish ==
    /\ net' \subseteq net
    /\ \A f \in net : f \in net' \/ Lossy \/ (f.due = now /\ IsDuplicate(Owner[f.to], f.msg.key))
    /\ UNCHANGED <<now, sequence, lastSent, known, zone, global, sent, accepted>>

(***************************************************************************)
(* The four kinds of steps, which the invariance proofs tell apart.        *)
(***************************************************************************)
LEMMA StepFacts ==
    ASSUME TypeOK, [Next]_vars
    PROVE  \/ \E n \in Nodes, m \in Message : Originates(n, m)
           \/ \E f \in net : TakesForNew(f, Owner[f.to])
           \/ FramesVanish
           \/ Tick
<1>1. ASSUME NEW n \in Nodes, SendHello(n)
      PROVE  \E m \in Message : Originates(n, m)
  BY <1>1, OriginationFacts
<1>2. ASSUME NEW n \in Nodes, NEW r \in Hears, AnswerRequest(n, r)
      PROVE  \E m \in Message : Originates(n, m)
  BY <1>2, OriginationFacts
<1>3. ASSUME NEW n \in Nodes, MaybeSendGlobalUpdate(n)
      PROVE  \E m \in Message : Originates(n, m)
  BY <1>3, OriginationFacts
<1>4. ASSUME NEW f \in net, RecvControl(f)
      PROVE  TakesForNew(f, Owner[f.to]) \/ FramesVanish
  <2>1. CASE DropDuplicate(f)
    BY <2>1 DEF DropDuplicate, FramesVanish
  <2> QED
    BY <1>4, <2>1, ReceptionFacts DEF RecvControl
<1>5. ASSUME NEW f \in net, Lose(f) PROVE FramesVanish
  BY <1>5 DEF Lose, FramesVanish
<1>6. CASE UNCHANGED vars
  BY <1>6 DEF vars, FramesVanish
<1> QED
  BY <1>1, <1>2, <1>3, <1>4, <1>5, <1>6, FloodAssumption DEF Next

-----------------------------------------------------------------------------
(***************************************************************************)
(* Every handler keeps tables, frames and histories within their types.    *)
(***************************************************************************)
THEOREM TypeCorrect == Spec => []TypeOK
<1> USE FloodAssumption
<1>1. Init => TypeOK
  BY DEF Init, TypeOK, IsTable
<1>2. TypeOK /\ [Next]_vars => TypeOK'
  <2> SUFFICES ASSUME TypeOK, [Next]_vars PROVE TypeOK'
    OBVIOUS
  <2>1. ASSUME NEW n \in Nodes, NEW m \in Message, Originates(n, m) PROVE TypeOK'
    <3>1. /\ now' = now /\ known' = known /\ zone' = zone /\ global' = global
          /\ accepted' = accepted
          /\ sequence' = [sequence EXCEPT ![n] = @ + 1] /\ sequence[n] < MaxMessages
          /\ lastSent' = [lastSent EXCEPT ![n] = now]
      BY <2>1 DEF Originates
    <3>2. net' \subseteq Frame
      BY <2>1 DEF Originates, IsCopy, TypeOK
    <3>3. sent' \subseteq [msg : Message, flood : BOOLEAN]
      <4>1. PICK b \in BOOLEAN : sent' = sent \union {[msg |-> m, flood |-> b]}
        BY <2>1 DEF Originates
      <4> QED
        BY <4>1 DEF TypeOK
    <3>4. sequence' \in [Nodes -> 0..MaxMessages] /\ lastSent' \in [Nodes -> -1..MaxTime]
      BY <3>1 DEF TypeOK
    <3> QED
      BY <3>1, <3>2, <3>3, <3>4 DEF TypeOK, IsTable
  <2>2. ASSUME NEW f \in net, TakesForNew(f, Owner[f.to]) PROVE TypeOK'
    <3> DEFINE n == Owner[f.to]
               k == f.msg.key
    <3>1. /\ f \in Frame /\ f.msg \in Message /\ f.to \in Ifaces
          /\ n \in Nodes /\ now \in 0..MaxTime
      BY DEF TypeOK, Frame
    <3>2. k \in Key /\ k[1] \in Nodes /\ f.msg.hop \in Nat /\ f.msg.timestamp \in Nat
      BY <3>1 DEF Message, Key
    <3>3. /\ now' = now /\ sequence' = sequence /\ lastSent' = lastSent /\ sent' = sent
          /\ known' = Inserted(n, k) /\ accepted' = TookForNew(n, k)
          /\ zone' = zone \/ zone' = Table(n, f, zone)
          /\ global' = global \/ global' = Table(n, f, global)
          /\ net' \subseteq Frame
      BY <2>2 DEF TakesForNew, IsCopy, TypeOK
    <3>4. known' \in [Nodes -> SUBSET [key : Key, expire : Nat]]
      BY <3>1, <3>2, <3>3 DEF Inserted, TypeOK
    <3>5. accepted' \in [Nodes -> SUBSET [key : Key, at : Nat]]
      BY <3>1, <3>2, <3>3 DEF TookForNew, TypeOK
    <3>6. ASSUME NEW table, DOMAIN table = Nodes, \A q \in Nodes : IsTable(table[q])
          PROVE  /\ DOMAIN Table(n, f, table) = Nodes
                 /\ \A q \in Nodes : IsTable(Table(n, f, table)[q])
      <4> DEFINE e == [timestamp |-> f.msg.timestamp, hop |-> f.msg.hop]
      <4>1. e \in Entry
        BY <3>2 DEF Entry
      <4>2. Table(n, f, table) = [table EXCEPT ![n] = AddOrUpdate(table[n], k[1], e)]
        BY DEF Table
      <4> HIDE DEF e, k, n
      <4>3. IsTable(AddOrUpdate(table[n], k[1], e))
        BY <3>1, <3>2, <3>6, <4>1 DEF IsTable, AddOrUpdate
      <4> QED
        BY <3>1, <3>6, <4>2, <4>3
    <3> HIDE DEF n, k
    <3>7. /\ DOMAIN zone' = Nodes /\ \A q \in Nodes : IsTable(zone'[q])
          /\ DOMAIN global' = Nodes /\ \A q \in Nodes : IsTable(global'[q])
      BY <3>3, <3>6 DEF TypeOK
    <3> QED
      BY <3>3, <3>4, <3>5, <3>7 DEF TypeOK, IsTable
  <2>3. CASE FramesVanish
    BY <2>3 DEF FramesVanish, TypeOK, IsTable
  <2>4. CASE Tick
    BY <2>4 DEF Tick, TypeOK, IsTable
  <2> QED
    BY <2>1, <2>2, <2>3, <2>4, StepFacts
<1> QED
  BY <1>1, <1>2, PTL DEF Spec

-----------------------------------------------------------------------------
(***************************************************************************)
(* One more hop for one delay more.                                        *)
(***************************************************************************)
LEMMA OneMoreDelay ==
    ASSUME NEW d \in Nat, NEW k \in Nat
    PROVE  /\ d * k \in Nat
           /\ d * (k + 1) = d * k + d
           /\ \A j \in Nat : k =< j => d * k =< d * j
<1>1. \A j \in Nat : k =< j => d * j = d * k + d * (j - k) /\ d * (j - k) \in Nat
  OBVIOUS
<1> QED
  BY <1>1

\* What FloodDies says of one frame.
Dies(f) ==
    /\ f.msg.ttl \in 1..InitialTtl(f.msg)
    /\ f.due =< f.msg.timestamp + MaxDelay * (InitialTtl(f.msg) - f.msg.ttl + 1)

(***************************************************************************)
(* A flood ends after as many delays as its TTL allows hops, over whatever *)
(* loops its copies travel.                                                *)
(***************************************************************************)
THEOREM FloodsDie == Spec => []FloodDies
<1> USE FloodAssumption
<1>1. Init => FloodDies
  BY DEF Init, FloodDies
<1>2. TypeOK /\ FloodDies /\ [Next]_vars => FloodDies'
  <2> SUFFICES ASSUME TypeOK, FloodDies, [Next]_vars PROVE FloodDies'
    OBVIOUS
  <2>0. \A f \in net : Dies(f)
    BY DEF FloodDies, Dies
  <2>1. ASSUME NEW n \in Nodes, NEW m \in Message, Originates(n, m), NEW g \in net'
        PROVE  Dies(g)
    <3>1. CASE g \in net
      BY <2>0, <3>1
    <3>2. CASE IsCopy(g, m, n)
      <4> DEFINE k == InitialTtl(m) - m.ttl + 1
      <4>1. m.ttl \in 1..InitialTtl(m) /\ m.timestamp = now /\ now \in Nat
        BY <2>1 DEF Originates, TypeOK
      <4>2. k \in Nat /\ 1 =< k
        BY <4>1, TtlFacts
      <4> HIDE DEF k
      <4>3. MaxDelay * 1 =< MaxDelay * k /\ MaxDelay * k \in Nat
        BY <4>2, OneMoreDelay
      <4>4. g.msg = m /\ g.due \in Nat /\ g.due =< now + MaxDelay
        BY <3>2 DEF IsCopy, Frame
      <4>5. g.due =< now + MaxDelay * k
        BY <4>1, <4>3, <4>4
      <4> QED
        BY <4>1, <4>4, <4>5 DEF Dies, k
    <3> QED
      BY <2>1, <3>1, <3>2 DEF Originates
  <2>2. ASSUME NEW f \in net, TakesForNew(f, Owner[f.to]), NEW g \in net'
        PROVE  Dies(g)
    <3>1. CASE g \in net
      BY <2>0, <3>1
    <3>2. CASE f.msg.ttl > 1 /\ IsCopy(g, Forwarded(f.msg), Owner[f.to])
      <4> DEFINE m == f.msg
                 k == InitialTtl(m) - m.ttl + 1
      <4>1. /\ f \in Frame /\ m \in Message /\ m.timestamp \in Nat /\ m.ttl \in Nat
            /\ f.due = now /\ now \in Nat
        <5>1. f \in Frame /\ now \in Nat /\ f.due = now
          BY <2>2 DEF TypeOK, TakesForNew
        <5>2. m \in Message
          BY <5>1 DEF Frame
        <5> HIDE DEF m
        <5>3. m.timestamp \in Nat /\ m.ttl \in Nat
          BY <5>2 DEF Message
        <5> QED
          BY <5>1, <5>2, <5>3
      <4>2. m.ttl \in 1..InitialTtl(m) /\ now =< m.timestamp + MaxDelay * k
        BY <2>0, <4>1 DEF Dies
      <4>3. /\ g.msg.ttl = m.ttl - 1 /\ g.msg.timestamp = m.timestamp
            /\ g.msg.kind = m.kind /\ g.due \in Nat /\ g.due =< now + MaxDelay
        BY <3>2, <4>1, ForwardedFacts DEF IsCopy, Frame
      <4>4. InitialTtl(g.msg) = InitialTtl(m)
        BY <4>3 DEF InitialTtl
      <4>5. k \in Nat /\ InitialTtl(g.msg) - g.msg.ttl + 1 = k + 1
        BY <4>1, <4>2, <4>3, <4>4, TtlFacts
      <4>6. g.msg.ttl \in 1..InitialTtl(g.msg)
        BY <3>2, <4>1, <4>2, <4>3, <4>4, TtlFacts
      <4> HIDE DEF k
      <4>7. MaxDelay * (k + 1) = MaxDelay * k + MaxDelay /\ MaxDelay * k \in Nat
        BY <4>5, OneMoreDelay
      <4>8. g.due =< g.msg.timestamp + MaxDelay * (k + 1)
        BY <4>1, <4>2, <4>3, <4>7
      <4> QED
        BY <4>5, <4>6, <4>8 DEF Dies
    <3> QED
      BY <2>2, <3>1, <3>2 DEF TakesForNew
  <2>3. ASSUME net' \subseteq net PROVE \A g \in net' : Dies(g)
    BY <2>0, <2>3
  <2>4. FramesVanish \/ Tick => net' \subseteq net
    BY DEF FramesVanish, Tick
  <2>5. \A g \in net' : Dies(g)
    BY <2>1, <2>2, <2>3, <2>4, <2>0, StepFacts
  <2> QED
    BY <2>5 DEF FloodDies, Dies
<1> QED
  BY <1>1, <1>2, TypeCorrect, PTL DEF Spec

-----------------------------------------------------------------------------
(***************************************************************************)
(* What makes OncePerNode and HopCountSound inductive.                     *)
(***************************************************************************)
\* Every key in circulation has been handed out.
KeysHandedOut ==
    /\ \A f \in net : f.msg.key[2] =< sequence[f.msg.key[1]]
    /\ \A n \in Nodes : \A a \in accepted[n] : a.key[2] =< sequence[a.key[1]]

\* All copies of a message bear the time it was sent, before any of them arrives and
\* before any node took one.
OneTimestamp ==
    \A f \in net :
        /\ f.due > f.msg.timestamp
        /\ \A g \in net : f.msg.key = g.msg.key => f.msg.timestamp = g.msg.timestamp
        /\ \A n \in Nodes : \A a \in accepted[n] :
              a.key = f.msg.key => a.at > f.msg.timestamp

\* The filter knows what a node took for as long as its lifetime says.
Remembered ==
    \A n \in Nodes : \A a \in accepted[n] :
        now =< a.at + Lifetime =>
            \E r \in known[n] : r.key = a.key /\ r.expire = a.at + Lifetime

\* A HELLO under way has made the hops it counts.
HopsCounted ==
    \A f \in net : f.msg.kind = "HELLO" =>
        /\ f.msg.hop + f.msg.ttl =< HelloTtl + 1
        /\ Owner[f.to] \in WithinHops(f.msg.hop, f.msg.key[1])

(***************************************************************************)
(* A node takes a message for new only after it was sent, and every copy   *)
(* of a message bears the same time.                                       *)
(***************************************************************************)
LEMMA TimestampInvariant == Spec => [](KeysHandedOut /\ OneTimestamp)
<1> DEFINE Inv == KeysHandedOut /\ OneTimestamp
<1>1. Init => Inv
  BY DEF Init, KeysHandedOut, OneTimestamp
<1>2. TypeOK /\ Inv /\ [Next]_vars => Inv'
  <2> SUFFICES ASSUME TypeOK, Inv, [Next]_vars PROVE Inv'
    OBVIOUS
  <2> USE DEF KeysHandedOut, OneTimestamp
  <2>0. /\ sequence \in [Nodes -> Int]
        /\ now \in Nat
        /\ \A f \in net : /\ f \in Frame /\ f.msg \in Message /\ f.msg.key[1] \in Nodes
                            /\ f.msg.key[2] \in Int
                            /\ f.due \in Int /\ f.msg.timestamp \in Int
        /\ \A n \in Nodes : \A a \in accepted[n] : /\ a.key[1] \in Nodes /\ a.key[2] \in Int
                                                     /\ a.at \in Int
    <3>1. \A k \in Key : k[1] \in Nodes /\ k[2] \in Int
      BY FloodAssumption DEF Key
    <3>2. /\ \A f \in net : f \in Frame
          /\ \A n \in Nodes : \A a \in accepted[n] : a \in [key : Key, at : Nat]
          /\ sequence \in [Nodes -> 0..MaxMessages] /\ now \in 0..MaxTime
      BY DEF TypeOK
    <3> QED
      BY <3>1, <3>2, FloodAssumption DEF Frame, Message
  <2>1. ASSUME NEW n \in Nodes, NEW m \in Message, Originates(n, m) PROVE Inv'
    <3>1. /\ m.key = <<n, sequence[n] + 1>> /\ m.timestamp = now
          /\ sequence' = [sequence EXCEPT ![n] = @ + 1] /\ accepted' = accepted
          /\ \A g \in net' : g \in net \/ (g.msg = m /\ g.due > now)
      BY <2>1 DEF Originates, IsCopy
    <3>2. /\ \A f \in net : f.msg.key # m.key
          /\ \A q \in Nodes : \A a \in accepted[q] : a.key # m.key
      BY <2>0, <3>1
    <3>3. \A q \in Nodes : sequence[q] =< sequence'[q] /\ sequence'[q] \in Int
      BY <2>0, <3>1
    <3>4. m.key[1] = n /\ m.key[2] = sequence'[n]
      BY <2>0, <3>1
    <3>5. KeysHandedOut'
      <4>1. \A f \in net' : f.msg.key[2] =< sequence'[f.msg.key[1]]
        BY <2>0, <3>1, <3>3, <3>4
      <4>2. \A q \in Nodes : \A a \in accepted'[q] : a.key[2] =< sequence'[a.key[1]]
        BY <2>0, <3>1, <3>3
      <4> QED
        BY <4>1, <4>2
    <3>6. OneTimestamp'
      BY <3>1, <3>2
    <3> QED
      BY <3>5, <3>6
  <2>2. ASSUME NEW f \in net, TakesForNew(f, Owner[f.to]) PROVE Inv'
    <3> DEFINE n == Owner[f.to]
    <3>1. /\ f.due = now /\ sequence' = sequence
          /\ accepted' = [accepted EXCEPT ![n] = @ \union {[key |-> f.msg.key, at |-> now]}]
          /\ \A g \in net' : \/ g \in net
                               \/ /\ g.msg.key = f.msg.key
                                  /\ g.msg.timestamp = f.msg.timestamp
                                  /\ g.due > now /\ g.due \in Int
      <4>1. \A g \in net' : \/ g \in net
                             \/ /\ g.msg = Forwarded(f.msg) /\ f.msg.ttl > 1
                                /\ g.due > now /\ g.due \in Int
        <5>1. \A g \in Frame : g.due \in Int
          BY DEF Frame
        <5> QED
          BY <2>2, <5>1 DEF TakesForNew, IsCopy
      <4>2. f.msg.ttl > 1 => /\ Forwarded(f.msg).key = f.msg.key
                             /\ Forwarded(f.msg).timestamp = f.msg.timestamp
        BY <2>0, ForwardedFacts
      <4> QED
        BY <2>2, <4>1, <4>2 DEF TakesForNew, TookForNew
    <3>2. \A q \in Nodes : \A a \in accepted'[q] :
              a \in accepted[q] \/ (a.key = f.msg.key /\ a.at = now)
      BY <3>1 DEF TypeOK
    <3>3. now > f.msg.timestamp
      BY <3>1
    <3> HIDE DEF n
    <3>4. KeysHandedOut'
      BY <3>1, <3>2
    <3>5. ASSUME NEW g \in net' PROVE g.due > g.msg.timestamp
      BY <2>0, <3>1, <3>3, <3>5
    <3>6. ASSUME NEW g \in net', NEW h \in net', g.msg.key = h.msg.key
          PROVE  g.msg.timestamp = h.msg.timestamp
      BY <3>1, <3>6
    <3>7. ASSUME NEW g \in net', NEW q \in Nodes, NEW a \in accepted'[q], a.key = g.msg.key
          PROVE  a.at > g.msg.timestamp
      BY <3>1, <3>2, <3>3, <3>7
    <3> QED
      BY <3>4, <3>5, <3>6, <3>7
  <2>3. CASE FramesVanish
    BY <2>3 DEF FramesVanish
  <2>4. CASE Tick
    BY <2>4 DEF Tick
  <2> QED
    BY <2>1, <2>2, <2>3, <2>4, StepFacts
<1> QED
  BY <1>1, <1>2, TypeCorrect, PTL DEF Spec

(***************************************************************************)
(* What a node took for new its filter knows until its lifetime is over.   *)
(***************************************************************************)
LEMMA FilterRemembers == Spec => []Remembered
<1> USE FloodAssumption
<1>1. Init => Remembered
  BY DEF Init, Remembered
<1>2. TypeOK /\ Remembered /\ [Next]_vars => Remembered'
  <2> SUFFICES ASSUME TypeOK, Remembered, [Next]_vars PROVE Remembered'
    OBVIOUS
  <2> USE DEF Remembered
  <2>1. ASSUME NEW n \in Nodes, NEW m \in Message, Originates(n, m) PROVE Remembered'
    BY <2>1 DEF Originates
  <2>2. ASSUME NEW f \in net, TakesForNew(f, Owner[f.to]) PROVE Remembered'
    <3> DEFINE n == Owner[f.to]
               k == f.msg.key
    <3>1. /\ now' = now
          /\ known' = [known EXCEPT ![n] = @ \union {[key |-> k, expire |-> now + Lifetime]}]
          /\ accepted' = [accepted EXCEPT ![n] = @ \union {[key |-> k, at |-> now]}]
      BY <2>2 DEF TakesForNew, Inserted, TookForNew
    <3> HIDE DEF k, n
    <3> SUFFICES ASSUME NEW q \in Nodes, NEW a \in accepted'[q], now =< a.at + Lifetime
                 PROVE  \E r \in known'[q] : r.key = a.key /\ r.expire = a.at + Lifetime
      BY <3>1
    <3>2. \A r \in known[q] : r \in known'[q]
      BY <3>1 DEF TypeOK
    <3>3. CASE a \in accepted[q]
      BY <3>2, <3>3
    <3>4. CASE q = n /\ a = [key |-> k, at |-> now]
      <4> DEFINE r == [key |-> k, expire |-> now + Lifetime]
      <4>1. r \in known'[q]
        BY <3>1, <3>4 DEF TypeOK
      <4>2. r.key = k /\ r.expire = now + Lifetime
        OBVIOUS
      <4>3. a.key = k /\ a.at = now
        BY <3>4
      <4> HIDE DEF r
      <4> QED
        BY <4>1, <4>2, <4>3
    <3> QED
      BY <3>1, <3>3, <3>4 DEF TypeOK
  <2>3. CASE FramesVanish
    BY <2>3 DEF FramesVanish
  <2>4. CASE Tick
    <3>1. /\ now' = now + 1 /\ accepted' = accepted
          /\ known' = [n \in Nodes |-> {r \in known[n] : r.expire >= now + 1}]
      BY <2>4 DEF Tick
    <3>2. /\ now \in Int
          /\ \A n \in Nodes : \A a \in accepted[n] : a.at \in Int
      BY DEF TypeOK
    <3> QED
      BY <3>1, <3>2
  <2> QED
    BY <2>1, <2>2, <2>3, <2>4, StepFacts
<1> QED
  BY <1>1, <1>2, TypeCorrect, PTL DEF Spec

\* The ID cache's lifetime covers every flood.  A message is not taken before the instant
\* after it was sent, hence the one.
LifetimeCoversFloods == Lifetime + 1 >= MaxDelay * UpdateTtl

(***************************************************************************)
(* A copy that arrives after the node took the message finds it known.     *)
(***************************************************************************)
LEMMA LateCopyIsKnown ==
    ASSUME LifetimeCoversFloods, TypeOK, OneTimestamp, FloodDies, Remembered,
           NEW f \in net, f.due = now,
           NEW n \in Nodes, NEW a \in accepted[n], a.key = f.msg.key
    PROVE  IsDuplicate(n, f.msg.key)
<1> USE FloodAssumption
<1> DEFINE m == f.msg
           k == InitialTtl(m) - m.ttl + 1
<1>1. m.ttl \in 1..InitialTtl(m) /\ now =< m.timestamp + MaxDelay * k
  BY DEF FloodDies
<1>2. k \in Nat /\ UpdateTtl \in Nat /\ k =< UpdateTtl
  <2> DEFINE initial == InitialTtl(m)
             ttl == m.ttl
  <2>1. initial \in 1..255 /\ initial =< UpdateTtl /\ UpdateTtl \in 1..255
    BY TtlFacts
  <2>2. ttl \in 1..initial /\ k = initial - ttl + 1
    BY <1>1
  <2> HIDE DEF initial, ttl, k, m
  <2> QED
    BY <2>1, <2>2
<1>3. a.at > m.timestamp
  BY DEF OneTimestamp
<1>4. now \in Int /\ m.timestamp \in Int /\ a.at \in Int
  <2>1. m \in Message /\ now \in Int /\ a \in [key : Key, at : Nat]
    BY DEF TypeOK, Frame
  <2> HIDE DEF m
  <2> QED
    BY <2>1 DEF Message
<1> HIDE DEF k
<1>5. MaxDelay * k =< MaxDelay * UpdateTtl /\ MaxDelay * k \in Nat
      /\ MaxDelay * UpdateTtl \in Nat
  BY <1>2, OneMoreDelay
<1>6. now =< a.at + Lifetime
  <2> DEFINE reach == MaxDelay * k
             most == MaxDelay * UpdateTtl
  <2>1. reach \in Nat /\ most \in Nat /\ reach =< most /\ most =< Lifetime + 1
    BY <1>5 DEF LifetimeCoversFloods
  <2>2. now =< m.timestamp + reach
    BY <1>1
  <2> HIDE DEF reach, most, m
  <2> QED
    BY <1>3, <1>4, <2>1, <2>2
<1> QED
  BY <1>6 DEF Remembered, IsDuplicate

(***************************************************************************)
(* No node takes a message for new twice, in any network, over whatever    *)
(* loops and delays the copies arrive, if the ID cache's lifetime is that  *)
(* of a flood.                                                             *)
(***************************************************************************)
THEOREM TakenOnce == ASSUME LifetimeCoversFloods PROVE Spec => []OncePerNode
<1>1. Init => OncePerNode
  BY DEF Init, OncePerNode
<1>2. TypeOK /\ OneTimestamp /\ FloodDies /\ Remembered /\ OncePerNode /\ [Next]_vars
      => OncePerNode'
  <2> SUFFICES ASSUME TypeOK, OneTimestamp, FloodDies, Remembered, OncePerNode, [Next]_vars
               PROVE  OncePerNode'
    OBVIOUS
  <2>1. ASSUME NEW f \in net, TakesForNew(f, Owner[f.to]) PROVE OncePerNode'
    <3> DEFINE n == Owner[f.to]
               e == [key |-> f.msg.key, at |-> now]
    <3>1. /\ f.due = now /\ ~IsDuplicate(n, f.msg.key)
          /\ accepted' = [accepted EXCEPT ![n] = @ \union {e}]
      BY <2>1 DEF TakesForNew, TookForNew
    <3>2. n \in Nodes
      BY FloodAssumption DEF TypeOK, Frame
    <3>3. \A a \in accepted[n] : a.key # f.msg.key
      BY <3>1, <3>2, LateCopyIsKnown
    <3>4. e.key = f.msg.key
      OBVIOUS
    <3> HIDE DEF n, e
    <3>5. \A q \in Nodes : \A a \in accepted'[q] : a \in accepted[q] \/ (q = n /\ a = e)
      BY <3>1 DEF TypeOK
    <3> QED
      BY <3>3, <3>4, <3>5 DEF OncePerNode
  <2>2. (\E n \in Nodes, m \in Message : Originates(n, m)) \/ FramesVanish \/ Tick
        => accepted' = accepted
    BY DEF Originates, FramesVanish, Tick
  <2>3. accepted' = accepted => OncePerNode'
    BY DEF OncePerNode
  <2> QED
    BY <2>1, <2>2, <2>3, StepFacts
<1> QED
  BY <1>1, <1>2, TypeCorrect, TimestampInvariant, FloodsDie, FilterRemembers, PTL DEF Spec

-----------------------------------------------------------------------------
(***************************************************************************)
(* Reachability, by way of the paths there are: what WithinHops recurs on  *)
(* is satisfied by the sets of nodes that paths of so many steps lead to,  *)
(* where a step stays or goes over a link.                                 *)
(***************************************************************************)
Step(p, q) == p = q \/ \E r \in Hears : Owner[r[1]] = p /\ Owner[r[2]] = q

Paths(h, o, n) ==
    {path \in [0..h -> Nodes] :
        path[0] = o /\ path[h] = n /\ \A i \in 0..h - 1 : Step(path[i], path[i + 1])}

AtPathsEnd(o) == [h \in Nat |-> {n \in Nodes : Paths(h, o, n) # {}}]

(***************************************************************************)
(* A path of no steps leads to the node itself.                            *)
(***************************************************************************)
LEMMA NoStep ==
    ASSUME NEW o \in Nodes
    PROVE  AtPathsEnd(o)[0] = {o}
<1>1. [i \in 0..0 |-> o] \in Paths(0, o, o)
  BY DEF Paths
<1>2. \A n \in Nodes : Paths(0, o, n) # {} => n = o
  BY DEF Paths
<1>3. AtPathsEnd(o)[0] = {n \in Nodes : Paths(0, o, n) # {}}
  BY DEF AtPathsEnd
<1> QED
  BY <1>1, <1>2, <1>3

(***************************************************************************)
(* The paths of one more step lead to the nodes around those before.       *)
(***************************************************************************)
LEMMA OneMoreStep ==
    ASSUME NEW h \in Nat, NEW o \in Nodes
    PROVE  AtPathsEnd(o)[h + 1] = Around(AtPathsEnd(o)[h])
<1> DEFINE near == AtPathsEnd(o)[h]
           far == AtPathsEnd(o)[h + 1]
<1>1. /\ near = {n \in Nodes : Paths(h, o, n) # {}}
      /\ far = {n \in Nodes : Paths(h + 1, o, n) # {}}
  BY DEF AtPathsEnd
<1> HIDE DEF near, far
<1>2. ASSUME NEW n \in far
      PROVE  \E p \in near : Step(p, n)
  <2>1. PICK path \in Paths(h + 1, o, n) : TRUE
    BY <1>1
  <2> DEFINE start == [i \in 0..h |-> path[i]]
             p == path[h]
  <2>2. /\ path \in [0..h + 1 -> Nodes] /\ path[0] = o /\ path[h + 1] = n
        /\ \A i \in 0..h : Step(path[i], path[i + 1])
    BY <2>1 DEF Paths
  <2>3. start \in Paths(h, o, p)
    BY <2>2 DEF Paths
  <2>4. p \in Nodes /\ Step(p, n)
    BY <2>2
  <2> QED
    BY <1>1, <2>3, <2>4
<1>3. ASSUME NEW p \in near, NEW n \in Nodes, Step(p, n)
      PROVE  n \in far
  <2>1. PICK path \in Paths(h, o, p) : TRUE
    BY <1>1
  <2> DEFINE longer == [i \in 0..h + 1 |-> IF i = h + 1 THEN n ELSE path[i]]
  <2>2. /\ path \in [0..h -> Nodes] /\ path[0] = o /\ path[h] = p
        /\ \A i \in 0..h - 1 : Step(path[i], path[i + 1])
    BY <2>1 DEF Paths
  <2>3. /\ longer \in [0..h + 1 -> Nodes] /\ longer[0] = o /\ longer[h + 1] = n
        /\ longer[h] = p
    BY <2>2
  <2>4. ASSUME NEW i \in 0..h PROVE Step(longer[i], longer[i + 1])
    <3>1. CASE i = h
      BY <1>3, <2>3, <3>1
    <3>2. CASE i # h
      <4>1. i \in 0..h - 1 /\ longer[i] = path[i] /\ longer[i + 1] = path[i + 1]
        BY <3>2
      <4> QED
        BY <2>2, <4>1
    <3> QED
      BY <3>1, <3>2
  <2> HIDE DEF longer
  <2>5. longer \in Paths(h + 1, o, n)
    BY <2>3, <2>4 DEF Paths
  <2> QED
    BY <1>1, <2>5
<1>4. \A p \in near : \A r \in Hears : Owner[r[1]] = p => Owner[r[2]] \in Nodes
  BY FloodAssumption
<1>5. ASSUME NEW n
      PROVE  n \in far <=> n \in near \/ \E r \in Hears : Owner[r[1]] \in near /\ Owner[r[2]] = n
  <2>1. CASE n \in far
    <3>1. n \in Nodes /\ Paths(h + 1, o, n) # {}
      BY <1>1, <2>1
    <3>2. PICK p \in near : Step(p, n)
      BY <1>1, <1>2, <3>1
    <3> QED
      BY <2>1, <3>2 DEF Step
  <2>2. CASE n \in near
    BY <1>1, <1>3, <2>2 DEF Step
  <2>3. ASSUME NEW r \in Hears, Owner[r[1]] \in near, Owner[r[2]] = n PROVE n \in far
    <3> DEFINE p == Owner[r[1]]
    <3>1. p \in near /\ n \in Nodes /\ Step(p, n)
      BY <1>4, <2>3 DEF Step
    <3> HIDE DEF p
    <3> QED
      BY <1>3, <3>1
  <2> QED
    BY <2>1, <2>2, <2>3
<1>6. far = Around(near)
  BY <1>5 DEF Around
<1> QED
  BY <1>6 DEF near, far

(***************************************************************************)
(* Hence WithinHops is what its definition says.                           *)
(***************************************************************************)
LEMMA WithinHopsDef ==
    ASSUME NEW o \in Nodes
    PROVE  /\ WithinHops(0, o) = {o}
           /\ \A h \in Nat : WithinHops(h + 1, o) = Around(WithinHops(h, o))
<1> DEFINE IsReached(g) == g = [k \in Nat |-> IF k = 0 THEN {o} ELSE Around(g[k - 1])]
           reached == CHOOSE g : IsReached(g)
<1>1. IsReached(AtPathsEnd(o))
  <2>1. ASSUME NEW k \in Nat
        PROVE  AtPathsEnd(o)[k] = IF k = 0 THEN {o} ELSE Around(AtPathsEnd(o)[k - 1])
    <3>1. CASE k = 0
      BY <3>1, NoStep
    <3>2. CASE k # 0
      <4>1. k - 1 \in Nat /\ (k - 1) + 1 = k
        BY <3>2
      <4>2. AtPathsEnd(o)[(k - 1) + 1] = Around(AtPathsEnd(o)[k - 1])
        BY <4>1, OneMoreStep
      <4> QED
        BY <3>2, <4>1, <4>2
    <3> QED
      BY <3>1, <3>2
  <2>2. AtPathsEnd(o) = [k \in Nat |-> AtPathsEnd(o)[k]]
    BY DEF AtPathsEnd
  <2> QED
    BY <2>1, <2>2
<1>2. IsReached(reached)
  BY <1>1
<1>3. \A h : WithinHops(h, o) = reached[h]
  BY DEF WithinHops
<1> HIDE DEF reached
<1>4. reached[0] = {o} /\ \A h \in Nat : reached[h + 1] = Around(reached[h])
  BY <1>2
<1> QED
  BY <1>3, <1>4

(***************************************************************************)
(* A link leads at most one hop further from node o.                       *)
(***************************************************************************)
LEMMA OneMoreHop ==
    ASSUME NEW o \in Nodes, NEW h \in Nat, NEW r \in Hears, Owner[r[1]] \in WithinHops(h, o)
    PROVE  Owner[r[2]] \in WithinHops(h + 1, o)
<1> DEFINE near == WithinHops(h, o)
<1>1. WithinHops(h + 1, o) = Around(near) /\ Owner[r[1]] \in near
  BY WithinHopsDef
<1> HIDE DEF near
<1> QED
  BY <1>1 DEF Around

\* What HopsCounted says of one frame.
Counts(f) ==
    f.msg.kind = "HELLO" =>
        /\ f.msg.hop + f.msg.ttl =< HelloTtl + 1
        /\ Owner[f.to] \in WithinHops(f.msg.hop, f.msg.key[1])

(***************************************************************************)
(* A HELLO under way has made the hops it counts, and those it counts and  *)
(* those its TTL leaves it are together the zone's radius.                 *)
(***************************************************************************)
LEMMA HopsAreCounted == Spec => []HopsCounted
<1> USE FloodAssumption
<1>1. Init => HopsCounted
  BY DEF Init, HopsCounted
<1>2. TypeOK /\ FloodDies /\ HopsCounted /\ [Next]_vars => HopsCounted'
  <2> SUFFICES ASSUME TypeOK, FloodDies, HopsCounted, [Next]_vars PROVE HopsCounted'
    OBVIOUS
  <2>0. \A f \in net : Counts(f)
    BY DEF HopsCounted, Counts
  <2>1. ASSUME NEW n \in Nodes, NEW m \in Message, Originates(n, m), NEW g \in net'
        PROVE  Counts(g)
    <3>1. CASE g \in net
      BY <2>0, <3>1
    <3>2. CASE IsCopy(g, m, n) /\ m.kind = "HELLO"
      <4> DEFINE r == <<g.from, g.to>>
      <4>1. g.msg = m /\ r \in Hears /\ Owner[r[1]] = n /\ r[2] = g.to
        BY <3>2 DEF IsCopy
      <4>2. /\ m.hop = 1 /\ m.ttl \in 1..InitialTtl(m) /\ InitialTtl(m) = HelloTtl
            /\ m.key[1] = n /\ HelloTtl \in 1..255
        BY <2>1, <3>2, TtlFacts DEF Originates, InitialTtl
      <4> HIDE DEF r
      <4>3. Owner[r[2]] \in WithinHops(0 + 1, n)
        BY <4>1, WithinHopsDef, OneMoreHop
      <4>4. m.hop + m.ttl =< HelloTtl + 1
        BY <4>2
      <4> QED
        BY <4>1, <4>2, <4>3, <4>4 DEF Counts
    <3>3. CASE IsCopy(g, m, n) /\ m.kind # "HELLO"
      BY <3>3 DEF IsCopy, Counts
    <3> QED
      BY <2>1, <3>1, <3>2, <3>3 DEF Originates
  <2>2. ASSUME NEW f \in net, TakesForNew(f, Owner[f.to]), NEW g \in net'
        PROVE  Counts(g)
    <3>1. CASE g \in net
      BY <2>0, <3>1
    <3>2. CASE f.msg.ttl > 1 /\ IsCopy(g, Forwarded(f.msg), Owner[f.to])
      <4> DEFINE m == f.msg
                 r == <<g.from, g.to>>
      <4>1. m \in Message /\ m.ttl > 1
        BY <3>2 DEF TypeOK, Frame
      <4>2. g.msg = Forwarded(m) /\ r \in Hears /\ Owner[r[1]] = Owner[f.to] /\ r[2] = g.to
        BY <3>2 DEF IsCopy
      <4>3. Counts(f)
        BY <2>0
      <4> HIDE DEF m, r
      <4>4. m.hop \in Nat /\ m.ttl \in Nat /\ m.key[1] \in Nodes
        BY <4>1 DEF Message, Key
      <4>5. CASE m.kind = "HELLO"
        <5>1. /\ g.msg.ttl = m.ttl - 1 /\ g.msg.hop = m.hop + 1 /\ g.msg.key = m.key
          BY <4>1, <4>2, <4>5, ForwardedFacts
        <5>2. /\ m.hop + m.ttl =< HelloTtl + 1
              /\ Owner[f.to] \in WithinHops(m.hop, m.key[1])
          BY <4>3, <4>5 DEF Counts, m
        <5>3. Owner[g.to] \in WithinHops(m.hop + 1, m.key[1])
          BY <4>2, <4>4, <5>2, OneMoreHop
        <5>4. g.msg.hop + g.msg.ttl =< HelloTtl + 1
          BY <4>4, <5>1, <5>2, TtlFacts
        <5> QED
          BY <5>1, <5>3, <5>4 DEF Counts
      <4>6. CASE m.kind # "HELLO"
        BY <4>1, <4>2, <4>6, ForwardedFacts DEF Counts
      <4> QED
        BY <4>5, <4>6
    <3> QED
      BY <2>2, <3>1, <3>2 DEF TakesForNew
  <2>3. FramesVanish \/ Tick => net' \subseteq net
    BY DEF FramesVanish, Tick
  <2>4. \A g \in net' : Counts(g)
    BY <2>0, <2>1, <2>2, <2>3, StepFacts
  <2> QED
    BY <2>4 DEF HopsCounted, Counts
<1> QED
  BY <1>1, <1>2, TypeCorrect, FloodsDie, PTL DEF Spec

(***************************************************************************)
(* In any network the hop count of a zone entry is that of a way there is  *)
(* and no larger than the radius of the zone.                              *)
(***************************************************************************)
THEOREM HopCountsSound == Spec => []HopCountSound
<1> USE FloodAssumption
<1>1. Init => HopCountSound
  BY DEF Init, HopCountSound
<1>2. TypeOK /\ FloodDies /\ HopsCounted /\ HopCountSound /\ [Next]_vars => HopCountSound'
  <2> SUFFICES ASSUME TypeOK, FloodDies, HopsCounted, HopCountSound, [Next]_vars
               PROVE  HopCountSound'
    OBVIOUS
  <2> DEFINE Sound(table) ==
                 \A q \in Nodes : \A o \in DOMAIN table[q] :
                     /\ table[q][o].hop =< ZoneRadiusHigh
                     /\ q \in WithinHops(table[q][o].hop, o)
  <2>1. Sound(zone)
    BY DEF HopCountSound
  <2>2. ASSUME NEW f \in net, f.msg.kind = "HELLO", zone' = Table(Owner[f.to], f, zone)
        PROVE  Sound(zone')
    <3> DEFINE n == Owner[f.to]
               m == f.msg
               e == [timestamp |-> m.timestamp, hop |-> m.hop]
    <3>1. m \in Message /\ n \in Nodes
      BY DEF TypeOK, Frame
    <3>2. m.ttl >= 1 /\ m.ttl \in Int
      <4>1. m.ttl \in 1..InitialTtl(m) /\ InitialTtl(m) \in 1..255
        BY TtlFacts DEF FloodDies
      <4> HIDE DEF m
      <4> QED
        BY <4>1
    <3>3. m.hop + m.ttl =< HelloTtl + 1 /\ n \in WithinHops(m.hop, m.key[1])
      BY <2>2 DEF HopsCounted
    <3>4. /\ e.hop = m.hop
          /\ zone' = [zone EXCEPT ![n] = AddOrUpdate(zone[n], m.key[1], e)]
      BY <2>2 DEF Table
    <3> HIDE DEF n, m, e
    <3>5. m.hop =< ZoneRadiusHigh
      BY <3>1, <3>2, <3>3 DEF HelloTtl, Message
    <3>6. \A q \in Nodes : \A o \in DOMAIN zone'[q] :
              \/ o \in DOMAIN zone[q] /\ zone'[q][o] = zone[q][o]
              \/ q = n /\ o = m.key[1] /\ zone'[q][o] = e
      BY <3>1, <3>4 DEF AddOrUpdate, TypeOK
    <3> QED
      BY <2>1, <3>3, <3>4, <3>5, <3>6
  <2>3. zone' = zone \/ \E f \in net : f.msg.kind = "HELLO" /\ zone' = Table(Owner[f.to], f, zone)
    BY StepFacts DEF Originates, TakesForNew, FramesVanish, Tick
  <2>4. Sound(zone')
    BY <2>1, <2>2, <2>3
  <2> QED
    BY <2>4 DEF HopCountSound
<1> QED
  BY <1>1, <1>2, TypeCorrect, FloodsDie, HopsAreCounted, PTL DEF Spec

-----------------------------------------------------------------------------
\* Frame f bears what the message was sent with, and has been under way for the least
\* delay per hop it made.
CopyOf(f, s) ==
    /\ s.msg.kind = f.msg.kind /\ s.msg.timestamp = f.msg.timestamp
    /\ s.flood => f.due >= f.msg.timestamp + MinDelay * (InitialTtl(f.msg) - f.msg.ttl + 1)

\* A frame is sent by the originator of its message or by a node that took it, and what the
\* filter knows has been taken.
Circulating ==
    /\ \A s \in sent : s.msg.key[2] =< sequence[s.msg.key[1]] /\ s.msg.timestamp =< now
    /\ \A n \in Nodes :
          /\ \A a \in accepted[n] : a.at =< now
          /\ \A r \in known[n] : Took(n, r)
    /\ \A f \in net :
          /\ <<f.from, f.to>> \in Hears /\ f.due >= now
          /\ Owner[f.from] = f.msg.key[1] \/ Took(Owner[f.from], f.msg)
          /\ \A s \in sent : s.msg.key = f.msg.key => CopyOf(f, s)

(***************************************************************************)
(* What the parts of a state are.                                          *)
(***************************************************************************)
LEMMA Typing ==
    ASSUME TypeOK
    PROVE  /\ now \in Nat /\ sequence \in [Nodes -> Int]
           /\ \A m \in Message : /\ m.key[1] \in Nodes /\ m.key[2] \in Int
                                  /\ m.timestamp \in Nat /\ m.ttl \in Nat
           /\ \A f \in net : /\ f.msg \in Message /\ f.due \in Nat
                              /\ Owner[f.from] \in Nodes /\ Owner[f.to] \in Nodes
           /\ \A s \in sent : s.msg \in Message
           /\ \A n \in Nodes : \A a \in accepted[n] : a.at \in Nat
<1>1. \A k \in Key : k[1] \in Nodes /\ k[2] \in Int
  BY FloodAssumption DEF Key
<1>2. \A m \in Message : m.key \in Key /\ m.timestamp \in Nat /\ m.ttl \in Nat
  BY DEF Message
<1>3. \A f \in net : f \in Frame
  BY DEF TypeOK
<1>4. \A f \in Frame : /\ f.msg \in Message /\ f.due \in Nat
                        /\ Owner[f.from] \in Nodes /\ Owner[f.to] \in Nodes
  BY FloodAssumption DEF Frame
<1>5. /\ now \in Nat /\ sequence \in [Nodes -> Int]
      /\ \A s \in sent : s.msg \in Message
      /\ \A n \in Nodes : \A a \in accepted[n] : a.at \in Nat
  BY FloodAssumption DEF TypeOK
<1> QED
  BY <1>1, <1>2, <1>3, <1>4, <1>5

(***************************************************************************)
(* Copies travel no faster than the least delay, and only from nodes       *)
(* that have the message.                                                  *)
(***************************************************************************)
LEMMA Circulation == Spec => []Circulating
<1> USE FloodAssumption
<1>1. Init => Circulating
  BY DEF Init, Circulating
<1>2. TypeOK /\ KeysHandedOut /\ FloodDies /\ Circulating /\ [Next]_vars => Circulating'
  <2> SUFFICES ASSUME TypeOK, KeysHandedOut, FloodDies, Circulating, [Next]_vars
               PROVE  Circulating'
    OBVIOUS
  <2>1. ASSUME NEW n \in Nodes, NEW m \in Message, Originates(n, m) PROVE Circulating'
    <3>1. PICK b \in BOOLEAN :
              /\ sent' = sent \union {[msg |-> m, flood |-> b]}
              /\ b => m.ttl = InitialTtl(m)
      BY <2>1 DEF Originates
    <3>2. /\ now' = now /\ known' = known /\ accepted' = accepted
          /\ m.key = <<n, sequence[n] + 1>> /\ m.timestamp = now
          /\ sequence' = [sequence EXCEPT ![n] = @ + 1]
          /\ \A g \in net' : g \in net \/ IsCopy(g, m, n)
      BY <2>1 DEF Originates
    <3>3. /\ \A s \in sent : s.msg.key # m.key
          /\ \A f \in net : f.msg.key # m.key
      BY <3>2, Typing DEF Circulating, KeysHandedOut
    <3>4. \A s \in sent' : s \in sent \/ (s.msg = m /\ s.flood = b)
      BY <3>1
    <3>5. m.key[1] = n /\ m.key[2] = sequence'[n]
      BY <3>2, Typing
    <3>6. \A q \in Nodes : sequence[q] =< sequence'[q] /\ sequence'[q] \in Int
      BY <3>2, Typing
    <3>7. \A s \in sent' : s.msg.key[2] =< sequence'[s.msg.key[1]] /\ s.msg.timestamp =< now'
      BY <3>2, <3>4, <3>5, <3>6, Typing DEF Circulating
    <3>8. ASSUME NEW g \in net'
          PROVE  /\ <<g.from, g.to>> \in Hears /\ g.due >= now'
                 /\ Owner[g.from] = g.msg.key[1] \/ Took(Owner[g.from], g.msg)'
                 /\ \A s \in sent' : s.msg.key = g.msg.key => CopyOf(g, s)
      <4>1. CASE g \in net
        BY <3>2, <3>3, <3>4, <4>1 DEF Circulating, Took
      <4>2. CASE IsCopy(g, m, n)
        <5>1. /\ g.msg = m /\ <<g.from, g.to>> \in Hears /\ Owner[g.from] = n
              /\ g.due > now /\ g.due >= now + MinDelay /\ g.due \in Nat
          BY <4>2 DEF IsCopy, Frame
        <5>2. \A s \in sent' : s.msg.key = m.key => s.msg = m /\ s.flood = b
          BY <3>3, <3>4
        <5>3. b => InitialTtl(m) - m.ttl + 1 = 1
          BY <3>1, TtlFacts
        <5>4. b => g.due >= m.timestamp + MinDelay * (InitialTtl(m) - m.ttl + 1)
          BY <3>2, <5>1, <5>3, Typing
        <5> QED
          BY <3>2, <3>5, <5>1, <5>2, <5>4, Typing DEF CopyOf
      <4> QED
        BY <3>2, <4>1, <4>2
    <3> QED
      BY <3>2, <3>7, <3>8 DEF Circulating, Took
  <2>2. ASSUME NEW f \in net, TakesForNew(f, Owner[f.to]) PROVE Circulating'
    <3> DEFINE n == Owner[f.to]
               m == f.msg
               e == [key |-> m.key, at |-> now]
    <3>1. /\ f.due = now /\ now' = now /\ sequence' = sequence /\ sent' = sent
          /\ accepted' = [accepted EXCEPT ![n] = @ \union {e}]
          /\ known' = [known EXCEPT ![n] = @ \union {[key |-> m.key, expire |-> now + Lifetime]}]
          /\ \A g \in net' : g \in net \/ (m.ttl > 1 /\ IsCopy(g, Forwarded(m), n))
      BY <2>2 DEF TakesForNew, TookForNew, Inserted
    <3>2. m \in Message /\ n \in Nodes /\ m.ttl \in Nat /\ m.timestamp \in Nat /\ now \in Nat
      BY Typing
    <3>3. e.key = m.key /\ e.at = now
      OBVIOUS
    <3>4. \A s \in sent : s.msg.key = m.key => CopyOf(f, s)
      BY DEF Circulating, CopyOf
    <3>5. m.ttl \in 1..InitialTtl(m)
      BY DEF FloodDies
    <3> HIDE DEF n, m, e
    <3>6. e \in accepted'[n] /\ \A q \in Nodes : \A a \in accepted[q] : a \in accepted'[q]
      BY <3>1, <3>2 DEF TypeOK
    <3>7. \A q \in Nodes : \A a \in accepted'[q] : a \in accepted[q] \/ a = e
      BY <3>1, <3>2 DEF TypeOK
    <3>8. \A q \in Nodes : \A r \in known'[q] : r \in known[q] \/ (q = n /\ r.key = m.key)
      BY <3>1, <3>2 DEF TypeOK
    <3>9. \A q \in Nodes : \A k : Took(q, k) => Took(q, k)'
      BY <3>6 DEF Took
    <3>10. Took(n, m)'
      BY <3>3, <3>6 DEF Took
    <3>11. ASSUME NEW g \in net'
           PROVE  /\ <<g.from, g.to>> \in Hears /\ g.due >= now'
                  /\ Owner[g.from] = g.msg.key[1] \/ Took(Owner[g.from], g.msg)'
                  /\ \A s \in sent' : s.msg.key = g.msg.key => CopyOf(g, s)
      <4>1. CASE g \in net
        BY <3>1, <3>9, <4>1, Typing DEF Circulating
      <4>2. CASE m.ttl > 1 /\ IsCopy(g, Forwarded(m), n)
        <5> DEFINE k == InitialTtl(m) - m.ttl + 1
        <5>1. /\ g.msg.key = m.key /\ g.msg.kind = m.kind /\ g.msg.timestamp = m.timestamp
              /\ g.msg.ttl = m.ttl - 1
              /\ <<g.from, g.to>> \in Hears /\ Owner[g.from] = n
              /\ g.due > now /\ g.due >= now + MinDelay /\ g.due \in Nat
          BY <3>2, <4>2, ForwardedFacts DEF IsCopy, Frame
        <5>2. InitialTtl(g.msg) = InitialTtl(m)
          BY <5>1 DEF InitialTtl
        <5>3. k \in Nat /\ InitialTtl(g.msg) - g.msg.ttl + 1 = k + 1
          BY <3>2, <3>5, <5>1, <5>2, TtlFacts
        <5>4. ASSUME NEW s \in sent, s.msg.key = g.msg.key PROVE CopyOf(g, s)
          <6>1. s.msg.kind = m.kind /\ s.msg.timestamp = m.timestamp
                /\ (s.flood => now >= m.timestamp + MinDelay * k)
            BY <3>1, <3>4, <5>1, <5>4 DEF CopyOf, m
          <6> HIDE DEF k
          <6>2. MinDelay * (k + 1) = MinDelay * k + MinDelay /\ MinDelay * k \in Nat
            BY <5>3, OneMoreDelay
          <6>3. s.flood => g.due >= g.msg.timestamp + MinDelay * (k + 1)
            BY <3>2, <5>1, <6>1, <6>2
          <6> QED
            BY <5>1, <5>3, <6>1, <6>3 DEF CopyOf
        <5> QED
          BY <3>1, <3>10, <5>1, <5>4, <3>2 DEF Took
      <4> QED
        BY <3>1, <4>1, <4>2
    <3> QED
      BY <3>1, <3>2, <3>3, <3>7, <3>8, <3>9, <3>10, <3>11 DEF Circulating, Took
  <2>3. CASE FramesVanish
    BY <2>3 DEF FramesVanish, Circulating, Took
  <2>4. CASE Tick
    <3>1. /\ now' = now + 1 /\ sequence' = sequence /\ sent' = sent /\ net' = net
          /\ accepted' = accepted /\ \A f \in net : f.due > now
          /\ \A n \in Nodes : known'[n] \subseteq known[n]
      BY <2>4 DEF Tick
    <3> QED
      BY <3>1, Typing DEF Circulating, Took
  <2> QED
    BY <2>1, <2>2, <2>3, <2>4, StepFacts
<1> QED
  BY <1>1, <1>2, TypeCorrect, TimestampInvariant, FloodsDie, PTL DEF Spec

\* The floods that leave nobody out: no relay skips an interface that a node without the
\* message hears, or drops a HELLO unprocessed.
Covering(s) == s.flood /\ (s.msg.kind = "HELLO" => NoHiddenNodes /\ Placed = Nodes)

\* When the first copy of m may have used its TTL up.
Spent(m) == m.timestamp + MinDelay * InitialTtl(m)

\* Node n has had m since t.
OriginatedAt(m, n, t) == n = m.key[1] /\ t = m.timestamp

HasSince(m, n, t) ==
    \/ OriginatedAt(m, n, t)
    \/ \E a \in accepted[n] : a.key = m.key /\ a.at = t

\* Node n has m, or is going to have it, by t.
Reaches(m, n, t) ==
    \/ m.kind = "HELLO" /\ n = m.key[1]
    \/ \E a \in accepted[n] : a.key = m.key /\ a.at =< t
    \/ \E f \in net : f.msg.key = m.key /\ Owner[f.to] = n /\ f.due =< t

\* Node n has passed m on to all that hear it, if it has m: the originator always, a relay
\* where it leaves nobody out.
Passes(s, n, t) ==
    OriginatedAt(s.msg, n, t) \/ (Covering(s) /\ HasSince(s.msg, n, t) /\ t < Spent(s.msg))

PassedOn ==
    \A s \in sent : s.flood =>
        \A r \in Hears, t \in Nat :
            Passes(s, Owner[r[1]], t) => Reaches(s.msg, Owner[r[2]], t + MaxDelay)

(***************************************************************************)
(* A copy that leaves the air leaves its message with the node it is for.  *)
(***************************************************************************)
LEMMA ReachesStays ==
    ASSUME ~Lossy, TypeOK, Circulating, [Next]_vars,
           NEW m \in Message, NEW n \in Nodes, NEW t \in Nat, Reaches(m, n, t)
    PROVE  Reaches(m, n, t)'
<1>1. \A q \in Nodes : accepted[q] \subseteq accepted'[q]
  BY StepFacts DEF Originates, TakesForNew, TookForNew, FramesVanish, Tick, TypeOK
<1>2. CASE \E a \in accepted[n] : a.key = m.key /\ a.at =< t
  BY <1>1, <1>2 DEF Reaches
<1>3. ASSUME NEW f \in net, f.msg.key = m.key, Owner[f.to] = n, f.due =< t, f \notin net'
      PROVE  \E a \in accepted'[n] : a.key = m.key /\ a.at =< t
  <2>1. ASSUME NEW g \in net, TakesForNew(g, Owner[g.to])
        PROVE  \E a \in accepted'[n] : a.key = m.key /\ a.at =< t
    <3> DEFINE e == [key |-> f.msg.key, at |-> now]
    <3>1. g = f /\ f.due = now /\ accepted' = TookForNew(n, f.msg.key)
      BY <1>3, <2>1 DEF TakesForNew
    <3>2. e \in accepted'[n]
      BY <3>1 DEF TookForNew, TypeOK
    <3>3. e.key = f.msg.key /\ e.at = now
      OBVIOUS
    <3> HIDE DEF e
    <3> QED
      BY <1>3, <3>1, <3>2, <3>3
  <2>2. CASE FramesVanish
    <3>1. f.due = now /\ IsDuplicate(n, f.msg.key)
      BY <1>3, <2>2 DEF FramesVanish
    <3>2. \E a \in accepted[n] : a.key = f.msg.key /\ a.at =< now
      BY <3>1 DEF IsDuplicate, Circulating, Took
    <3> QED
      BY <1>1, <1>3, <3>1, <3>2, Typing
  <2> QED
    BY <1>3, <2>1, <2>2, StepFacts DEF Originates, Tick
<1> QED
  BY <1>2, <1>3 DEF Reaches

(***************************************************************************)
(* A relay passes the message it takes on to all that hear it: those it    *)
(* skips have the message already.                                         *)
(***************************************************************************)
LEMMA RelayPassesOn ==
    ASSUME ~Lossy, TypeOK, FloodDies, Circulating, PassedOn, [Next]_vars,
           NEW f \in net, TakesForNew(f, Owner[f.to]),
           NEW s \in sent, Covering(s), s.msg.key = f.msg.key, now < Spent(s.msg),
           NEW r \in Hears, Owner[r[1]] = Owner[f.to]
    PROVE  Reaches(s.msg, Owner[r[2]], now + MaxDelay)'
<1> USE FloodAssumption
<1> DEFINE m == s.msg
           n == Owner[f.to]
           q == Owner[r[2]]
           p == Owner[f.from]
<1>1. /\ m \in Message /\ n \in Nodes /\ p \in Nodes /\ q \in Nodes
      /\ now \in Nat /\ m.timestamp \in Nat /\ m.key[1] \in Nodes
      /\ r[1] \in Ifaces /\ r[2] \in Ifaces /\ f.msg.ttl \in Nat /\ MaxDelay \in Nat /\ MinDelay \in Nat
  BY Typing
<1>2. /\ m.kind = f.msg.kind /\ m.timestamp = f.msg.timestamp /\ f.due = now
      /\ f.due >= m.timestamp + MinDelay * (InitialTtl(f.msg) - f.msg.ttl + 1)
  BY DEF Circulating, CopyOf, Covering, TakesForNew
<1>3. f.msg.ttl > 1
  <2>1. InitialTtl(f.msg) = InitialTtl(m) /\ f.msg.ttl \in 1..InitialTtl(f.msg)
    BY <1>2 DEF InitialTtl, FloodDies
  <2>2. ASSUME f.msg.ttl = 1 PROVE FALSE
    <3>1. InitialTtl(f.msg) - f.msg.ttl + 1 = InitialTtl(m)
      BY <2>1, <2>2, TtlFacts
    <3> QED
      BY <1>1, <1>2, <3>1, TtlFacts DEF Spent
  <2> QED
    BY <2>1, <2>2, TtlFacts
<1>4. Aired(Forwarded(f.msg), RelayInterfaces(f)) /\ Forwarded(f.msg).key = f.msg.key
  <2>1. f.msg \in Message
    BY Typing
  <2> QED
    BY <1>1, <1>2, <1>3, <2>1, ForwardedFacts DEF TakesForNew, Covering
<1>5. CASE r[1] \in RelayInterfaces(f)
  <2>1. PICK g \in net' : /\ g.msg.key = f.msg.key /\ g.to = r[2]
                          /\ g.due =< now + MaxDelay
    BY <1>4, <1>5 DEF Aired
  <2> QED
    BY <2>1 DEF Reaches, TakesForNew
<1>6. <<f.from, f.to>> \in Hears /\ (p = m.key[1] \/ \E a \in accepted[p] : a.key = m.key)
  BY DEF Circulating, Took
<1>7. /\ m.timestamp =< now
      /\ \A a \in accepted[p] : a.at \in Nat /\ a.at =< now
  BY <1>1, Typing DEF Circulating
<1>8. now' = now
  BY DEF TakesForNew
<1>9. ASSUME <<f.from, r[2]>> \in Hears
      PROVE  Reaches(m, q, now + MaxDelay)'
  <2> DEFINE c == <<f.from, r[2]>>
  <2>1. PICK t \in Nat : HasSince(m, p, t) /\ t =< now
    BY <1>1, <1>6, <1>7 DEF HasSince, OriginatedAt
  <2>2. c \in Hears /\ Owner[c[1]] = p /\ Owner[c[2]] = q
    BY <1>9
  <2>3. t < Spent(m) /\ s.flood
    BY <1>1, <2>1, TtlFacts DEF Spent, Covering
  <2> HIDE DEF c
  <2>4. Reaches(m, q, t + MaxDelay)
    BY <2>1, <2>2, <2>3 DEF PassedOn, Passes
  <2>5. Reaches(m, q, now + MaxDelay)
    BY <1>1, <2>1, <2>4, Typing DEF Reaches
  <2> QED
    BY <1>1, <1>8, <2>5, ReachesStays
<1>10. r = <<r[1], r[2]>>
  BY <1>1
<1>11. CASE m.kind = "HELLO" /\ r[1] = f.to
  <2>1. q = p \/ <<f.from, r[2]>> \in Hears
    <3> DEFINE b == <<f.from, f.to>>
    <3>1. b \in Hears /\ b[2] = r[1] /\ Owner[b[1]] = p /\ b[1] = f.from
      BY <1>6, <1>11
    <3> HIDE DEF b
    <3> QED
      BY <1>11, <3>1 DEF NoHiddenNodes, Covering
  <2>2. CASE q = p
    <3>1. Reaches(m, q, now + MaxDelay)
      BY <1>1, <1>6, <1>7, <1>11, <2>2 DEF Reaches
    <3> QED
      BY <1>1, <1>8, <3>1, ReachesStays
  <2> QED
    BY <1>8, <1>9, <2>1, <2>2
<1>12. CASE r[1] = f.from
  BY <1>8, <1>9, <1>10, <1>12
<1> QED
  BY <1>1, <1>2, <1>5, <1>11, <1>12 DEF RelayInterfaces, InterfacesOf

(***************************************************************************)
(* Where nothing is lost, what a node has is under way to all that hear    *)
(* it, as long as its TTL allows another hop for sure.                     *)
(***************************************************************************)
LEMMA EverythingPassedOn == ASSUME ~Lossy PROVE Spec => []PassedOn
<1> USE FloodAssumption
<1>1. Init => PassedOn
  BY DEF Init, PassedOn
<1>2. TypeOK /\ KeysHandedOut /\ FloodDies /\ Circulating /\ PassedOn /\ [Next]_vars
      => PassedOn'
  <2> SUFFICES ASSUME TypeOK, KeysHandedOut, FloodDies, Circulating, PassedOn, [Next]_vars,
                      NEW s \in sent', s.flood, NEW r \in Hears, NEW t \in Nat,
                      Passes(s, Owner[r[1]], t)'
               PROVE  Reaches(s.msg, Owner[r[2]], t + MaxDelay)'
    BY DEF PassedOn
  <2> DEFINE n == Owner[r[1]]
  <2>1. n \in Nodes /\ Owner[r[2]] \in Nodes /\ r[1] \in InterfacesOf(n) /\ t + MaxDelay \in Nat
    BY DEF InterfacesOf
  <2>2. ASSUME s \in sent, Passes(s, n, t)
        PROVE  Reaches(s.msg, Owner[r[2]], t + MaxDelay)'
    <3>1. Reaches(s.msg, Owner[r[2]], t + MaxDelay)
      BY <2>2 DEF PassedOn
    <3>2. s.msg \in Message
      BY <2>2, Typing
    <3> QED
      BY <2>1, <3>1, <3>2, ReachesStays
  <2>3. ASSUME NEW q \in Nodes, NEW m \in Message, Originates(q, m)
        PROVE  Reaches(s.msg, Owner[r[2]], t + MaxDelay)'
    <3>1. PICK b \in BOOLEAN : /\ sent' = sent \union {[msg |-> m, flood |-> b]}
                               /\ b => Aired(m, InterfacesOf(q))
      BY <2>3 DEF Originates
    <3>2. /\ accepted' = accepted /\ m.timestamp = now
          /\ m.key = <<q, sequence[q] + 1>>
      BY <2>3 DEF Originates
    <3>3. CASE s \in sent
      BY <2>2, <3>2, <3>3 DEF Passes, HasSince, Covering, OriginatedAt
    <3>4. CASE s.msg = m /\ s.flood = b
      <4>1. \A a \in accepted[n] : a.key # m.key
        BY <2>1, <3>2, Typing DEF KeysHandedOut
      <4>2. n = q /\ t = now
        BY <3>2, <3>4, <4>1 DEF Passes, HasSince, OriginatedAt
      <4>3. PICK g \in net' : g.msg = m /\ g.to = r[2] /\ g.due =< now + MaxDelay
        BY <2>1, <3>1, <3>4, <4>2 DEF Aired, Covering
      <4> QED
        BY <3>4, <4>2, <4>3 DEF Reaches
    <3>5. \A x \in sent' : x \in sent \/ (x.msg = m /\ x.flood = b)
      BY <3>1
    <3> QED
      BY <3>3, <3>4, <3>5
  <2>4. ASSUME NEW f \in net, TakesForNew(f, Owner[f.to])
        PROVE  Reaches(s.msg, Owner[r[2]], t + MaxDelay)'
    <3> DEFINE e == [key |-> f.msg.key, at |-> now]
    <3>1. s \in sent /\ accepted' = [accepted EXCEPT ![Owner[f.to]] = @ \union {e}]
      BY <2>4 DEF TakesForNew, TookForNew
    <3>2. e.key = f.msg.key /\ e.at = now
      OBVIOUS
    <3> HIDE DEF e
    <3>3. \/ Passes(s, n, t)
          \/ /\ n = Owner[f.to] /\ s.msg.key = f.msg.key /\ t = now
             /\ Covering(s) /\ t < Spent(s.msg)
      BY <2>1, <3>1, <3>2 DEF Passes, Covering, HasSince, OriginatedAt, TypeOK
    <3>4. CASE /\ n = Owner[f.to] /\ s.msg.key = f.msg.key /\ t = now
               /\ Covering(s) /\ t < Spent(s.msg)
      <4>1. now' = now
        BY <2>4 DEF TakesForNew
      <4>2. Reaches(s.msg, Owner[r[2]], now + MaxDelay)'
        BY <2>4, <3>1, <3>4, RelayPassesOn
      <4> QED
        BY <3>4, <4>1, <4>2
    <3> QED
      BY <2>2, <3>1, <3>3, <3>4
  <2>5. FramesVanish \/ Tick => sent' = sent /\ accepted' = accepted
    BY DEF FramesVanish, Tick
  <2>6. sent' = sent /\ accepted' = accepted => s \in sent /\ Passes(s, n, t)
    BY DEF Passes, Covering, HasSince, OriginatedAt
  <2> QED
    BY <2>2, <2>3, <2>4, <2>5, <2>6, StepFacts
<1> QED
  BY <1>1, <1>2, TypeCorrect, TimestampInvariant, FloodsDie, Circulation, PTL DEF Spec

(***************************************************************************)
(* A set of numbers that is not empty has a first member.                  *)
(***************************************************************************)
LEMMA FirstNumber ==
    ASSUME NEW S \in SUBSET Nat, S # {}
    PROVE  \E k \in S : k = 0 \/ (k - 1 \in Nat /\ k - 1 \notin S)
<1> DEFINE R == OpToRel(<, Nat)
<1>1. \A x, y \in Nat : x < y => <<x, y>> \in R
  BY DEF OpToRel
<1>2. IsWellFoundedOn(R, Nat)
  BY NatLessThanWellFounded
<1> HIDE DEF R
<1>3. PICK k \in S : \A j \in S : ~(<<j, k>> \in R)
  BY <1>2, WFMin
<1>4. k \in Nat /\ (k # 0 => k - 1 \in Nat /\ k - 1 < k)
  OBVIOUS
<1> QED
  BY <1>1, <1>3, <1>4

(***************************************************************************)
(* By the time a copy takes over h hops every node so near has the         *)
(* message, unless a copy that is due by then is still under way.          *)
(***************************************************************************)
LEMMA NearNodesHaveIt ==
    ASSUME TypeOK, PassedOn, NEW s \in sent, s.flood,
           NEW h \in Reach(InitialTtl(s.msg)), h =< 1 \/ Covering(s),
           \A f \in net : f.msg.key = s.msg.key => f.due > s.msg.timestamp + MaxDelay * h,
           NEW n \in WithinHops(h, s.msg.key[1]), n # s.msg.key[1]
    PROVE  \E a \in accepted[n] :
               a.key = s.msg.key /\ a.at =< s.msg.timestamp + MaxDelay * h
<1> USE FloodAssumption
<1> DEFINE m == s.msg
           o == m.key[1]
           By(k) == m.timestamp + MaxDelay * k
           Have(k) == \A q \in WithinHops(k, o) : q # o =>
                          q \in Nodes /\ \E a \in accepted[q] : a.key = m.key /\ a.at =< By(k)
           Fails == {k \in 0..h : ~Have(k)}
<1>1. /\ m \in Message /\ o \in Nodes /\ m.timestamp \in Nat
      /\ MaxDelay \in Nat /\ MaxDelay >= 1 /\ MinDelay \in Nat
      /\ h \in Nat /\ h =< InitialTtl(m) /\ InitialTtl(m) \in Nat
      /\ MaxDelay * (h - 1) < MinDelay * InitialTtl(m)
  BY Typing, TtlFacts DEF Reach
<1>2. \A j, k \in Nat : j =< k => By(j) \in Nat /\ By(j) =< By(k)
  BY <1>1, OneMoreDelay
<1>3. \A k \in Nat : By(k + 1) = By(k) + MaxDelay
  BY <1>1, OneMoreDelay
<1>4. \A q \in Nodes : \A a \in accepted[q] : a.at \in Nat
  BY Typing
<1>5. \A f \in net : f.msg.key = m.key => f.due > By(h) /\ f.due \in Nat
  BY Typing
<1>6. WithinHops(0, o) = {o} /\ \A k \in Nat : WithinHops(k + 1, o) = Around(WithinHops(k, o))
  BY <1>1, WithinHopsDef
<1>7. \A r \in Hears, t \in Nat :
          Passes(s, Owner[r[1]], t) => Reaches(m, Owner[r[2]], t + MaxDelay)
  BY DEF PassedOn
<1> HIDE DEF By, m, o
<1>8. ASSUME NEW k \in 1..h, Have(k - 1) PROVE Have(k)
  <2>1. k - 1 \in Nat /\ (k - 1) + 1 = k /\ k \in Nat /\ k =< h
    BY <1>1
  <2>2. By(k) = By(k - 1) + MaxDelay /\ By(k - 1) \in Nat /\ By(k) \in Nat
        /\ By(k - 1) < Spent(m) /\ By(k) =< By(h) /\ By(h) \in Nat /\ Spent(m) \in Nat
    <3>1. By(k - 1) =< By(h - 1) /\ h - 1 \in Nat
      BY <1>1, <1>2, <2>1
    <3>2. By(h - 1) < Spent(m) /\ By(h - 1) \in Nat /\ Spent(m) \in Nat
      <4>1. MinDelay * InitialTtl(m) \in Nat /\ MaxDelay * (h - 1) \in Nat
        BY <1>1, <3>1, OneMoreDelay
      <4> QED
        BY <1>1, <4>1 DEF By, Spent
    <3> QED
      BY <1>1, <1>2, <1>3, <2>1, <3>1, <3>2
  <2> SUFFICES ASSUME NEW q \in WithinHops(k, o), q # o
               PROVE  q \in Nodes /\ \E a \in accepted[q] : a.key = m.key /\ a.at =< By(k)
    OBVIOUS
  <2>3. q \in Around(WithinHops(k - 1, o))
    BY <1>6, <2>1
  <2>4. CASE q \in WithinHops(k - 1, o)
    BY <1>4, <1>8, <2>2, <2>4
  <2>5. ASSUME NEW r \in Hears, Owner[r[1]] \in WithinHops(k - 1, o), q = Owner[r[2]]
        PROVE  q \in Nodes /\ \E a \in accepted[q] : a.key = m.key /\ a.at =< By(k)
    <3>1. PICK t \in Nat : Passes(s, Owner[r[1]], t) /\ t =< By(k - 1)
      <4>1. Owner[r[1]] \in Nodes
        OBVIOUS
      <4>2. CASE Owner[r[1]] = o
        <5>1. m.timestamp \in Nat /\ m.timestamp =< By(k - 1)
          BY <1>1, <1>2, <2>1 DEF By
        <5> QED
          BY <4>2, <5>1 DEF Passes, OriginatedAt, o, m
      <4>3. CASE Owner[r[1]] # o
        <5>1. PICK a \in accepted[Owner[r[1]]] : a.key = m.key /\ a.at =< By(k - 1)
          BY <1>8, <2>5, <4>3
        <5>2. a.at \in Nat /\ a.at < Spent(m) /\ HasSince(m, Owner[r[1]], a.at)
          BY <1>4, <2>2, <4>1, <5>1 DEF HasSince
        <5>3. Covering(s)
          <6>1. k # 1
            BY <1>6, <2>5, <4>3
          <6> QED
            BY <1>1, <2>1, <6>1
        <5> QED
          BY <5>1, <5>2, <5>3 DEF Passes, m
      <4> QED
        BY <4>2, <4>3
    <3>2. Reaches(m, q, t + MaxDelay) /\ t + MaxDelay =< By(k)
      BY <1>1, <1>7, <2>2, <2>5, <3>1
    <3>3. q \in Nodes
      BY <2>5
    <3> QED
      BY <1>1, <1>4, <1>5, <2>2, <3>2, <3>3 DEF Reaches, o
  <2> QED
    BY <2>3, <2>4, <2>5 DEF Around
<1>9. Have(0)
  BY <1>6
<1> HIDE DEF Have
<1>10. Fails = {}
  <2> SUFFICES ASSUME Fails # {} PROVE FALSE
    OBVIOUS
  <2>1. Fails \in SUBSET Nat
    BY <1>1
  <2>2. PICK k \in Fails : k = 0 \/ (k - 1 \in Nat /\ k - 1 \notin Fails)
    <3> HIDE DEF Fails
    <3> QED
      BY <2>1, FirstNumber
  <2> QED
    BY <1>1, <1>8, <1>9, <2>2
<1> QED
  BY <1>1, <1>10 DEF Have, By, m, o

(***************************************************************************)
(* Where nothing is lost, whatever the delays and the way the copies come  *)
(* first, a HELLO reaches the direct neighbours of its originator in any   *)
(* network, and every node within its reach where no relay hides a node.   *)
(***************************************************************************)
THEOREM HellosCoverTheirReach == ASSUME ~Lossy PROVE Spec => []HellosCover
<1>1. TypeOK /\ PassedOn => HellosCover
  <2> SUFFICES ASSUME TypeOK, PassedOn, NEW s \in sent, s.flood, s.msg.kind = "HELLO",
                      Over(s.msg),
                      NEW h \in Reach(HelloTtl),
                      h =< 1 \/ (NoHiddenNodes /\ Placed = Nodes),
                      NEW n \in WithinHops(h, s.msg.key[1]) \ {s.msg.key[1]}
               PROVE  Took(n, s.msg)
    BY DEF HellosCover
  <2>1. (h =< 1 \/ Covering(s)) /\ InitialTtl(s.msg) = HelloTtl
    BY DEF Covering, InitialTtl
  <2>2. \A f \in net : f.msg.key # s.msg.key
    BY DEF Over
  <2> QED
    BY <2>1, <2>2, NearNodesHaveIt DEF Took
<1> QED
  BY <1>1, TypeCorrect, EverythingPassedOn, PTL

(***************************************************************************)
(* Where nothing is lost, whatever hears whatever, whatever the delays and *)
(* the way the copies come first, a GLOBAL_UPDATE covers its reach.        *)
(***************************************************************************)
THEOREM UpdatesCoverTheirReach == ASSUME ~Lossy PROVE Spec => []UpdatesCover
<1>1. TypeOK /\ PassedOn => UpdatesCover
  <2> SUFFICES ASSUME TypeOK, PassedOn, NEW s \in sent, s.flood, s.msg.kind = "GLOBAL_UPDATE",
                      Over(s.msg),
                      NEW h \in Reach(UpdateTtl),
                      NEW n \in WithinHops(h, s.msg.key[1]) \ {s.msg.key[1]}
               PROVE  Took(n, s.msg)
    BY DEF UpdatesCover
  <2>1. Covering(s) /\ InitialTtl(s.msg) = UpdateTtl
    BY DEF Covering, InitialTtl
  <2>2. \A f \in net : f.msg.key # s.msg.key
    BY DEF Over
  <2> QED
    BY <2>1, <2>2, NearNodesHaveIt DEF Took
<1> QED
  BY <1>1, TypeCorrect, EverythingPassedOn, PTL

-----------------------------------------------------------------------------
\* A frame, and with it the entry it makes, is at least one delay younger than its message.
Aged(table) ==
    \A n \in Nodes : \A o \in DOMAIN table[n] : table[n][o].timestamp + MinDelay =< now

Ages ==
    /\ \A f \in net : f.due >= f.msg.timestamp + MinDelay
    /\ Aged(zone) /\ Aged(global)

(***************************************************************************)
(* What taking a frame in changes in a table.                              *)
(***************************************************************************)
LEMMA TableFacts ==
    ASSUME NEW f, NEW n, NEW table, NEW q, q \in DOMAIN table,
           NEW o \in DOMAIN Table(n, f, table)[q]
    PROVE  \/ o \in DOMAIN table[q] /\ Table(n, f, table)[q][o] = table[q][o]
           \/ Table(n, f, table)[q][o].timestamp = f.msg.timestamp
<1> DEFINE e == [timestamp |-> f.msg.timestamp, hop |-> f.msg.hop]
<1>1. e.timestamp = f.msg.timestamp
  OBVIOUS
<1>2. Table(n, f, table) = [table EXCEPT ![n] = AddOrUpdate(table[n], f.msg.key[1], e)]
  BY DEF Table
<1> HIDE DEF e
<1> QED
  BY <1>1, <1>2 DEF AddOrUpdate

(***************************************************************************)
(* No entry is younger than a message can travel.                          *)
(***************************************************************************)
LEMMA EntriesAge == Spec => []Ages
<1> USE FloodAssumption
<1>1. Init => Ages
  BY DEF Init, Ages, Aged
<1>2. TypeOK /\ Ages /\ [Next]_vars => Ages'
  <2> SUFFICES ASSUME TypeOK, Ages, [Next]_vars PROVE Ages'
    OBVIOUS
  <2>1. ASSUME NEW n \in Nodes, NEW m \in Message, Originates(n, m) PROVE Ages'
    BY <2>1, Typing DEF Originates, IsCopy, Ages, Aged
  <2>2. ASSUME NEW f \in net, TakesForNew(f, Owner[f.to]) PROVE Ages'
    <3> DEFINE n == Owner[f.to]
    <3>1. /\ now' = now /\ f.due = now
          /\ zone' = zone \/ zone' = Table(n, f, zone)
          /\ global' = global \/ global' = Table(n, f, global)
          /\ \A g \in net' : \/ g \in net
                             \/ f.msg.ttl > 1 /\ IsCopy(g, Forwarded(f.msg), n)
      BY <2>2 DEF TakesForNew
    <3> HIDE DEF n
    <3>2. f.msg.timestamp + MinDelay =< now /\ f.msg \in Message /\ f.msg.timestamp \in Nat
      BY <3>1, Typing DEF Ages
    <3>3. ASSUME NEW g \in net' PROVE g.due >= g.msg.timestamp + MinDelay
      <4>1. CASE g \in net
        BY <4>1 DEF Ages
      <4>2. CASE f.msg.ttl > 1 /\ IsCopy(g, Forwarded(f.msg), n)
        <5>1. g.msg.timestamp = f.msg.timestamp /\ g.due > now /\ g.due \in Nat
          BY <3>2, <4>2, ForwardedFacts DEF IsCopy, Frame
        <5> QED
          BY <3>2, <5>1, Typing
      <4> QED
        BY <3>1, <4>1, <4>2
    <3>4. ASSUME NEW table, DOMAIN table = Nodes, Aged(table)
          PROVE  Aged(Table(n, f, table))
      <4>1. DOMAIN Table(n, f, table) = Nodes
        BY <3>4 DEF Table
      <4> SUFFICES ASSUME NEW q \in Nodes, NEW o \in DOMAIN Table(n, f, table)[q]
                   PROVE  Table(n, f, table)[q][o].timestamp + MinDelay =< now
        BY DEF Aged
      <4> QED
        BY <3>2, <3>4, TableFacts DEF Aged
    <3>5. DOMAIN zone = Nodes /\ DOMAIN global = Nodes /\ Aged(zone) /\ Aged(global)
      BY DEF TypeOK, Ages
    <3>6. Aged(zone)' /\ Aged(global)'
      BY <3>1, <3>4, <3>5 DEF Aged
    <3> QED
      BY <3>3, <3>6 DEF Ages
  <2>3. CASE FramesVanish
    BY <2>3 DEF FramesVanish, Ages, Aged
  <2>4. CASE Tick
    <3>1. /\ now' = now + 1 /\ zone' = zone /\ global' = global /\ net' = net
      BY <2>4 DEF Tick
    <3>2. \A n \in Nodes : /\ \A o \in DOMAIN zone[n] : zone[n][o].timestamp \in Nat
                           /\ \A o \in DOMAIN global[n] : global[n][o].timestamp \in Nat
      BY DEF TypeOK, IsTable, Entry
    <3> QED
      BY <3>1, <3>2, Typing DEF Ages, Aged
  <2> QED
    BY <2>1, <2>2, <2>3, <2>4, StepFacts
<1> QED
  BY <1>1, <1>2, TypeCorrect, PTL DEF Spec

(***************************************************************************)
(* In any network, with any delays and losses, an entry never gives way to *)
(* that of a message sent more than a flood's life before its own.         *)
(***************************************************************************)
THEOREM FloodsKeepTheirOrder == Spec => OrderKeptBetweenFloods
<1> USE FloodAssumption
<1> DEFINE Kept(T, table, next) ==
               \A n \in Nodes : FallsBackAtMost(MaxDelay * T - MinDelay, table[n], next[n])
<1>1. TypeOK /\ FloodDies /\ Ages /\ [Next]_vars
      => Kept(HelloTtl, zone, zone') /\ Kept(UpdateTtl, global, global')
  <2> SUFFICES ASSUME TypeOK, FloodDies, Ages, [Next]_vars
               PROVE  Kept(HelloTtl, zone, zone') /\ Kept(UpdateTtl, global, global')
    OBVIOUS
  <2>1. /\ MaxDelay * HelloTtl \in Nat /\ MaxDelay * HelloTtl >= MinDelay
        /\ MaxDelay * UpdateTtl \in Nat /\ MaxDelay * UpdateTtl >= MinDelay
    <3>1. \A T \in 1..255 : MaxDelay * T \in Nat /\ MaxDelay * 1 =< MaxDelay * T
      BY OneMoreDelay
    <3>2. MaxDelay * 1 = MaxDelay
      OBVIOUS
    <3>3. \A T \in 1..255 : MaxDelay * T \in Nat /\ MaxDelay * T >= MinDelay
      BY <3>1, <3>2
    <3> QED
      BY <3>3, TtlFacts
  <2>2. /\ \A n \in Nodes : \A o \in DOMAIN zone[n] :
               zone[n][o].timestamp \in Nat /\ zone[n][o].timestamp + MinDelay =< now
        /\ \A n \in Nodes : \A o \in DOMAIN global[n] :
               global[n][o].timestamp \in Nat /\ global[n][o].timestamp + MinDelay =< now
    BY DEF TypeOK, IsTable, Entry, Ages, Aged
  <2>3. /\ zone' = zone => Kept(HelloTtl, zone, zone')
        /\ global' = global => Kept(UpdateTtl, global, global')
    BY <2>1, <2>2 DEF FallsBackAtMost
  <2>4. ASSUME NEW f \in net, TakesForNew(f, Owner[f.to])
        PROVE  Kept(HelloTtl, zone, zone') /\ Kept(UpdateTtl, global, global')
    <3> DEFINE n == Owner[f.to]
               T == InitialTtl(f.msg)
    <3>1. /\ n \in Nodes /\ f.due = now /\ now \in Nat /\ f.msg.timestamp \in Nat
          /\ zone' = zone \/ (f.msg.kind = "HELLO" /\ zone' = Table(n, f, zone))
          /\ global' = global \/ (f.msg.kind = "GLOBAL_UPDATE" /\ global' = Table(n, f, global))
      BY <2>4, Typing DEF TakesForNew
    <3>2. now =< f.msg.timestamp + MaxDelay * T /\ MaxDelay * T \in Nat
      <4>1. /\ f.msg.ttl \in 1..T /\ T \in 1..255
            /\ now =< f.msg.timestamp + MaxDelay * (T - f.msg.ttl + 1)
        BY <3>1, TtlFacts DEF FloodDies
      <4> HIDE DEF T
      <4>2. T - f.msg.ttl + 1 \in Nat /\ T - f.msg.ttl + 1 =< T /\ T \in Nat
        BY <4>1
      <4>3. /\ MaxDelay * (T - f.msg.ttl + 1) =< MaxDelay * T
            /\ MaxDelay * (T - f.msg.ttl + 1) \in Nat /\ MaxDelay * T \in Nat
        BY <4>2, OneMoreDelay
      <4> QED
        BY <3>1, <4>1, <4>3
    <3>3. /\ f.msg.kind = "HELLO" => T = HelloTtl
          /\ f.msg.kind = "GLOBAL_UPDATE" => T = UpdateTtl
          /\ T = HelloTtl \/ T = UpdateTtl
      BY DEF InitialTtl
    <3> HIDE DEF T, n
    <3>4. ASSUME NEW table, NEW U, T = U, DOMAIN table = Nodes,
                 \A q \in Nodes : \A o \in DOMAIN table[q] :
                     table[q][o].timestamp \in Nat /\ table[q][o].timestamp + MinDelay =< now
          PROVE  Kept(U, table, Table(n, f, table))
      <4> SUFFICES ASSUME NEW q \in Nodes, NEW o \in DOMAIN table[q]
                   PROVE  Table(n, f, table)[q][o].timestamp
                              >= table[q][o].timestamp - (MaxDelay * U - MinDelay)
        BY DEF FallsBackAtMost
      <4>1. o \in DOMAIN Table(n, f, table)[q]
        BY <3>4 DEF Table, AddOrUpdate
      <4>2. \/ Table(n, f, table)[q][o] = table[q][o]
            \/ Table(n, f, table)[q][o].timestamp = f.msg.timestamp
        BY <3>4, <4>1, TableFacts
      <4>3. MaxDelay * U - MinDelay >= 0
        BY <2>1, <3>2, <3>3, <3>4
      <4> QED
        BY <3>1, <3>2, <3>4, <4>2, <4>3
    <3> QED
      BY <2>2, <2>3, <3>1, <3>3, <3>4 DEF TypeOK
  <2>5. ~(\E f \in net : TakesForNew(f, Owner[f.to])) => zone' = zone /\ global' = global
    BY StepFacts DEF Originates, FramesVanish, Tick
  <2> QED
    BY <2>3, <2>4, <2>5
<1>2. TypeOK /\ FloodDies /\ Ages /\ [Next]_vars
      => [\A n \in Nodes :
             /\ FallsBackAtMost(MaxDelay * HelloTtl - MinDelay, zone[n], zone'[n])
             /\ FallsBackAtMost(MaxDelay * UpdateTtl - MinDelay, global[n], global'[n])]_vars
  BY <1>1
<1> QED
  BY <1>2, TypeCorrect, FloodsDie, EntriesAge, PTL DEF Spec, OrderKeptBetweenFloods
=============================================================================
