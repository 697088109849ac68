----------------------------- MODULE LadzrpFlood -----------------------------
(***************************************************************************)
(* How HELLO and GLOBAL_UPDATE messages spread: SendHello, ProcessHello,   *)
(* MaybeSendGlobalUpdate, ProcessGlobalUpdate and RecvControl of           *)
(* src/model/ladzrp-routing-protocol.cc, at nodes with any number of       *)
(* interfaces.                                                             *)
(*                                                                         *)
(* Each node's duplicate filter is the one of LadzrpDupFilter, which the   *)
(* ID cache implements.  Expiry of table entries is LadzrpTtlm's concern.  *)
(* The links are the simulator's: a broadcast reaches the interfaces that  *)
(* hear it after a delay of their own each, or is lost.                    *)
(***************************************************************************)
EXTENDS Integers, FiniteSets

CONSTANTS Nodes,            \* a node stands for its m_mainAddress
          Ifaces,           \* local addresses of the interfaces with a socket
          Owner,            \* the node of each interface
          Hears,            \* <<i, j>> when a broadcast of i arrives at j
          Placed,           \* the nodes that have a mobility model
          Originators,      \* bound on the nodes that originate messages
          Pause,            \* bound on how often a node does
          ZoneRadiusMid,    \* m_zoneRadiusMid
          ZoneRadiusHigh,   \* m_zoneRadiusHigh
          Lifetime,         \* the lifetime given to m_idCache
          MinDelay,         \* the least time a frame is under way
          MaxDelay,         \* bound on how long a frame is under way
          Delays,           \* how long a frame may be under way
          Lossy,            \* whether frames get lost
          MaxMessages,      \* bound on the messages originated
          MaxTime           \* bound on the clock

ASSUME FloodAssumption ==
    /\ Owner \in [Ifaces -> Nodes]
    /\ Hears \subseteq Ifaces \X Ifaces
    /\ Placed \subseteq Nodes /\ Originators \subseteq Nodes /\ Pause \in Nat \ {0}
    /\ ZoneRadiusMid \in 0..255 /\ ZoneRadiusHigh \in 1..255
    /\ Lifetime \in Nat
    /\ MaxDelay \in Nat /\ MinDelay \in 1..MaxDelay /\ Delays \subseteq MinDelay..MaxDelay
    /\ Lossy \in BOOLEAN /\ MaxMessages \in Nat /\ MaxTime \in Nat

VARIABLES now,          \* Simulator::Now ()
          sequence,     \* m_sequenceNumber of each node
          lastSent,     \* when each node originated its last message
          known,        \* the (originator, sequence number) pairs each node knows
          zone,         \* each node's zone table: originator -> entry
          global,       \* each node's global table: originator -> entry
          net,          \* frames under way
          sent,         \* history: the messages originated
          accepted      \* history: the messages each node took for new

vars == <<now, sequence, lastSent, known, zone, global, net, sent, accepted>>

\* The TTL of a HELLO, and of a GLOBAL_UPDATE; the doubled radius is a uint8_t.
HelloTtl == ZoneRadiusHigh

UpdateTtl ==
    LET doubled == (2 * ZoneRadiusMid) % 256
    IN  IF doubled > ZoneRadiusHigh THEN doubled ELSE ZoneRadiusHigh

InitialTtl(m) == IF m.kind = "HELLO" THEN HelloTtl ELSE UpdateTtl

Key == Nodes \X (1..MaxMessages)

Message == [kind : {"HELLO", "GLOBAL_UPDATE"}, key : Key, ttl : 0..255,
            hop : Nat,          \* GetHopCount; a GLOBAL_UPDATE has none
            timestamp : Nat]

Frame == [msg : Message, from : Ifaces, to : Ifaces, due : Nat,
          via : Ifaces \union {<<>>}]   \* history: where the relay received it

Entry == [timestamp : Nat, hop : Nat]

IsTable(table) == DOMAIN table \subseteq Nodes /\ table \in [DOMAIN table -> Entry]

TypeOK ==
    /\ now \in 0..MaxTime
    /\ sequence \in [Nodes -> 0..MaxMessages]
    /\ lastSent \in [Nodes -> -1..MaxTime]
    /\ known \in [Nodes -> SUBSET [key : Key, expire : Nat]]
    /\ DOMAIN zone = Nodes /\ \A n \in Nodes : IsTable(zone[n])
    /\ DOMAIN global = Nodes /\ \A n \in Nodes : IsTable(global[n])
    /\ net \subseteq Frame
    /\ sent \subseteq [msg : Message, flood : BOOLEAN]
    /\ accepted \in [Nodes -> SUBSET [key : Key, at : Nat]]

Init ==
    /\ now = 0
    /\ sequence = [n \in Nodes |-> 0]
    /\ lastSent = [n \in Nodes |-> -1]
    /\ known = [n \in Nodes |-> {}]
    /\ zone = [n \in Nodes |-> [o \in {} |-> 0]]
    /\ global = [n \in Nodes |-> [o \in {} |-> 0]]
    /\ net = {}
    /\ sent = {}
    /\ accepted = [n \in Nodes |-> {}]

-----------------------------------------------------------------------------
InterfacesOf(n) == {i \in Ifaces : Owner[i] = n}

\* Frames that carry m from the interfaces in out to whatever hears them.
Spread(out, m, via, delay) ==
    {[msg |-> m, from |-> r[1], to |-> r[2], due |-> now + delay[r], via |-> via] :
        r \in {h \in Hears : h[1] \in out}}

DelayFor(out) == [{h \in Hears : h[1] \in out} -> Delays]

\* ++m_sequenceNumber, as long as the model allows another message.
NewKey(n, k) ==
    /\ sequence[n] < MaxMessages
    /\ Cardinality(sent) < MaxMessages
    /\ sequence' = [sequence EXCEPT ![n] = @ + 1]
    /\ k = <<n, sequence[n] + 1>>

\* The simulator runs what is due at the same instant in the order it was scheduled,
\* which is left free here; so that two messages of a node keep their order, they are
\* sent at different instants.
MaySend(n) == lastSent[n] < 0 \/ lastSent[n] + Pause =< now

\* The periodic HELLO goes out on every interface.
SendHello(n) ==
    /\ n \in Placed
    /\ MaySend(n)
    /\ lastSent' = [lastSent EXCEPT ![n] = now]
    /\ \E k \in Key :
          LET m == [kind |-> "HELLO", key |-> k, ttl |-> HelloTtl, hop |-> 1,
                    timestamp |-> now]
          IN  /\ NewKey(n, k)
              /\ sent' = sent \union {[msg |-> m, flood |-> TRUE]}
              /\ \E delay \in DelayFor(InterfacesOf(n)) :
                    net' = net \union Spread(InterfacesOf(n), m, <<>>, delay)
    /\ UNCHANGED <<now, known, zone, global, accepted>>

\* A UNICAST_REQUEST is answered by a HELLO to the requester alone, which is not to
\* spread.  (An answer to a requester beyond a hop would be forwarded as data is.)
AnswerRequest(n, r) ==
    /\ n \in Placed
    /\ Owner[r[1]] = n
    /\ MaySend(n)
    /\ lastSent' = [lastSent EXCEPT ![n] = now]
    /\ \E k \in Key, delay \in Delays :
          LET m == [kind |-> "HELLO", key |-> k, ttl |-> 1, hop |-> 1, timestamp |-> now]
          IN  /\ NewKey(n, k)
              /\ sent' = sent \union {[msg |-> m, flood |-> FALSE]}
              /\ net' = net \union {[msg |-> m, from |-> r[1], to |-> r[2],
                                     due |-> now + delay, via |-> <<>>]}
    /\ UNCHANGED <<now, known, zone, global, accepted>>

\* A threshold of dead reckoning is passed: the GLOBAL_UPDATE goes out likewise.
MaybeSendGlobalUpdate(n) ==
    /\ n \in Placed
    /\ MaySend(n)
    /\ lastSent' = [lastSent EXCEPT ![n] = now]
    /\ \E k \in Key :
          LET m == [kind |-> "GLOBAL_UPDATE", key |-> k, ttl |-> UpdateTtl, hop |-> 0,
                    timestamp |-> now]
          IN  /\ NewKey(n, k)
              /\ sent' = sent \union {[msg |-> m, flood |-> TRUE]}
              /\ \E delay \in DelayFor(InterfacesOf(n)) :
                    net' = net \union Spread(InterfacesOf(n), m, <<>>, delay)
    /\ UNCHANGED <<now, known, zone, global, accepted>>

-----------------------------------------------------------------------------
\* The ID cache is not asked.
IsDuplicate_Mutant(n, k) == FALSE

\* IsDuplicate, and what it inserts for a pair that is new.
IsDuplicate(n, k) == \E r \in known[n] : r.key = k

Inserted(n, k) == [known EXCEPT ![n] = @ \union {[key |-> k, expire |-> now + Lifetime]}]

TookForNew(n, k) == [accepted EXCEPT ![n] = @ \union {[key |-> k, at |-> now]}]

\* AddOrUpdateZone and AddOrUpdateGlobal replace the entry of the originator.
AddOrUpdate(table, o, e) == [q \in DOMAIN table \union {o} |-> IF q = o THEN e ELSE table[q]]

\* A relay forgets to count itself, or to lower the TTL.
SameHop_Mutant(m) == [m EXCEPT !.ttl = @ - 1]
SameTtl_Mutant(m) == [m EXCEPT !.hop = IF m.kind = "HELLO" THEN @ + 1 ELSE @]

\* What a relay sends on of message m.
Forwarded(m) == [m EXCEPT !.ttl = @ - 1,
                          !.hop = IF m.kind = "HELLO" THEN @ + 1 ELSE @]

\* A message is sent back where it came in, and nowhere else.
BackOnly_Mutant(f) == {f.to}

\* A HELLO is not sent on where it came in.  A GLOBAL_UPDATE is compared by the
\* address of the neighbour it came from, which no interface of the relay has.
RelayInterfaces(f) ==
    {i \in InterfacesOf(Owner[f.to]) :
        i # (IF f.msg.kind = "HELLO" THEN f.to ELSE f.from)}

\* The TTL is lowered, and never looked at.
RelayAlways_Mutant(f) ==
    \E delay \in DelayFor(RelayInterfaces(f)) :
        net' = (net \ {f})
               \union Spread(RelayInterfaces(f), Forwarded(f.msg), f.to, delay)

\* A message is kept back a hop early.
RelayShort_Mutant(f) ==
    \/ /\ f.msg.ttl =< 2
       /\ net' = net \ {f}
    \/ /\ f.msg.ttl > 2
       /\ \E delay \in DelayFor(RelayInterfaces(f)) :
             net' = (net \ {f})
                    \union Spread(RelayInterfaces(f), Forwarded(f.msg), f.to, delay)

\* A message is sent on unless its TTL is used up.
Relay(f) ==
    \/ /\ f.msg.ttl =< 1
       /\ net' = net \ {f}
    \/ /\ f.msg.ttl > 1
       /\ \E delay \in DelayFor(RelayInterfaces(f)) :
             net' = (net \ {f})
                    \union Spread(RelayInterfaces(f), Forwarded(f.msg), f.to, delay)

\* RecvControl drops a pair the node knows.
DropDuplicate(f) ==
    /\ f.due = now
    /\ IsDuplicate(Owner[f.to], f.msg.key)
    /\ net' = net \ {f}
    /\ UNCHANGED <<now, sequence, lastSent, known, zone, global, sent, accepted>>

\* A node without a mobility model remembers a HELLO, and does no more with it.
IgnoreHello(f) ==
    LET n == Owner[f.to]
    IN  /\ f.due = now
        /\ f.msg.kind = "HELLO"
        /\ ~IsDuplicate(n, f.msg.key)
        /\ n \notin Placed
        /\ known' = Inserted(n, f.msg.key)
        /\ accepted' = TookForNew(n, f.msg.key)
        /\ net' = net \ {f}
        /\ UNCHANGED <<now, sequence, lastSent, zone, global, sent>>

ProcessHello(f) ==
    LET n == Owner[f.to]
        o == f.msg.key[1]
    IN  /\ f.due = now
        /\ f.msg.kind = "HELLO"
        /\ ~IsDuplicate(n, f.msg.key)
        /\ n \in Placed
        /\ known' = Inserted(n, f.msg.key)
        /\ accepted' = TookForNew(n, f.msg.key)
        /\ zone' = [zone EXCEPT ![n] = AddOrUpdate(@, o, [timestamp |-> f.msg.timestamp,
                                                         hop |-> f.msg.hop])]
        /\ Relay(f)
        /\ UNCHANGED <<now, sequence, lastSent, global, sent>>

ProcessGlobalUpdate(f) ==
    LET n == Owner[f.to]
        o == f.msg.key[1]
    IN  /\ f.due = now
        /\ f.msg.kind = "GLOBAL_UPDATE"
        /\ ~IsDuplicate(n, f.msg.key)
        /\ known' = Inserted(n, f.msg.key)
        /\ accepted' = TookForNew(n, f.msg.key)
        /\ global' = [global EXCEPT ![n] = AddOrUpdate(@, o, [timestamp |-> f.msg.timestamp,
                                                             hop |-> f.msg.hop])]
        /\ Relay(f)
        /\ UNCHANGED <<now, sequence, lastSent, zone, sent>>

Lose(f) ==
    /\ Lossy
    /\ net' = net \ {f}
    /\ UNCHANGED <<now, sequence, lastSent, known, zone, global, sent, accepted>>

\* A frame is received the instant it is due; pairs the filter has known for their
\* lifetime are forgotten.
Tick ==
    /\ now < MaxTime
    /\ \A f \in net : f.due > now
    /\ now' = now + 1
    /\ known' = [n \in Nodes |-> {r \in known[n] : r.expire >= now + 1}]
    /\ UNCHANGED <<sequence, lastSent, zone, global, net, sent, accepted>>

RecvControl(f) ==
    DropDuplicate(f) \/ IgnoreHello(f) \/ ProcessHello(f) \/ ProcessGlobalUpdate(f)

Next ==
    \/ \E n \in Originators : SendHello(n)
    \/ \E n \in Originators, r \in Hears : AnswerRequest(n, r)
    \/ \E n \in Originators : MaybeSendGlobalUpdate(n)
    \/ \E f \in net : RecvControl(f)
    \/ \E f \in net : Lose(f)
    \/ Tick

Spec == Init /\ [][Next]_vars

-----------------------------------------------------------------------------
\* The nodes a chain of at most h links connects to node o.
Around(near) == near \union {Owner[r[2]] : r \in {q \in Hears : Owner[q[1]] \in near}}

WithinHops(h, o) ==
    LET reached[k \in Nat] == IF k = 0 THEN {o} ELSE Around(reached[k - 1])
    IN  reached[h]

(***************************************************************************)
(* No node takes a message for new twice, over whatever loops and delays   *)
(* its copies arrive: the ID cache remembers a message for as long as any  *)
(* copy can be under way (ladzrp-routing-protocol.cc:327, 466).            *)
(***************************************************************************)
OncePerNode ==
    \A n \in Nodes : \A a, b \in accepted[n] : a.key = b.key => a = b

(***************************************************************************)
(* The hop count of a zone entry is that of a way that exists, so it never *)
(* makes the originator out to be nearer than it is, and a HELLO stays     *)
(* inside the zone of its originator.                                      *)
(***************************************************************************)
HopCountSound ==
    \A n \in Nodes : \A o \in DOMAIN zone[n] :
        zone[n][o].hop =< ZoneRadiusHigh /\ n \in WithinHops(zone[n][o].hop, o)

(***************************************************************************)
(* A flood is over after as many delays as its TTL allows hops: this is    *)
(* how long the ID cache has to remember a message.                        *)
(***************************************************************************)
FloodDies ==
    \A f \in net :
        /\ f.msg.ttl \in 1..InitialTtl(f.msg)
        /\ f.due =< f.msg.timestamp + MaxDelay * (InitialTtl(f.msg) - f.msg.ttl + 1)

Over(m) == \A f \in net : f.msg.key # m.key

Took(n, m) == \E a \in accepted[n] : a.key = m.key

(***************************************************************************)
(* "The regular HELLO covers the whole zone" (ladzrp-routing-protocol.cc:  *)
(* 302): when its flood is over, every node within the zone's radius of    *)
(* the originator has taken a HELLO in.                                    *)
(***************************************************************************)
HellosCoverZone ==
    \A s \in sent : s.flood /\ s.msg.kind = "HELLO" /\ Over(s.msg) =>
        \A n \in WithinHops(HelloTtl, s.msg.key[1]) \ {s.msg.key[1]} : Took(n, s.msg)

\* How far a flood carries a message in spite of copies that come a longer way first,
\* with less TTL: the slowest copy over all but the last of so many hops is still faster
\* than any copy that has used its TTL up.
Reach(ttl) == {h \in 0..ttl : MaxDelay * (h - 1) < MinDelay * ttl}

\* Whatever hears the interface where a relay received a message heard the sender, too.
NoHiddenNodes ==
    \A a, b \in Hears :
        a[2] = b[1] => Owner[b[2]] = Owner[a[1]] \/ <<a[1], b[2]>> \in Hears

(***************************************************************************)
(* What a HELLO covers of the zone when no frame is lost, whatever way its *)
(* copies come first (cc:370, 393): the direct neighbours in any network,  *)
(* and every node within its reach where relays, which skip the receiving  *)
(* interface, hide nobody and process HELLOs.                              *)
(***************************************************************************)
HellosCover ==
    \A s \in sent : s.flood /\ s.msg.kind = "HELLO" /\ Over(s.msg) =>
        \A h \in Reach(HelloTtl) : h =< 1 \/ (NoHiddenNodes /\ Placed = Nodes) =>
            \A n \in WithinHops(h, s.msg.key[1]) \ {s.msg.key[1]} : Took(n, s.msg)

(***************************************************************************)
(* A GLOBAL_UPDATE, which is sent back where it came from as well, covers  *)
(* every node within its own reach in any network that loses nothing.      *)
(***************************************************************************)
UpdatesCover ==
    \A s \in sent : s.flood /\ s.msg.kind = "GLOBAL_UPDATE" /\ Over(s.msg) =>
        \A h \in Reach(UpdateTtl) :
            \A n \in WithinHops(h, s.msg.key[1]) \ {s.msg.key[1]} : Took(n, s.msg)

\* An entry a table had is replaced, if at all, by one of a message that was sent at
\* most so much earlier.
FallsBackAtMost(time, before, after) ==
    \A o \in DOMAIN before : after[o].timestamp >= before[o].timestamp - time

(***************************************************************************)
(* No handler compares timestamps (cc:353-368, 471-478), so a message that *)
(* comes late replaces the entry of a newer one.  But never of one sent    *)
(* later than it by more than a copy of it can be under way: messages that *)
(* are a flood's life apart keep their order in every table.               *)
(***************************************************************************)
OrderKeptBetweenFloods ==
    [][\A n \in Nodes :
          /\ FallsBackAtMost(MaxDelay * HelloTtl - MinDelay, zone[n], zone'[n])
          /\ FallsBackAtMost(MaxDelay * UpdateTtl - MinDelay, global[n], global'[n])]_vars
=============================================================================
