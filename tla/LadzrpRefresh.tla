---------------------------- MODULE LadzrpRefresh ----------------------------
(***************************************************************************)
(* Maintenance together with the peers it asks: SendUnicastRequest puts a  *)
(* UNICAST_REQUEST on the way, ProcessUnicastRequest answers it with a     *)
(* HELLO to the requester alone, and ProcessHello renews the entry         *)
(* (src/model/ladzrp-routing-protocol.cc).  Either message takes a while   *)
(* or is lost; nothing repeats one but the next maintenance pass.          *)
(*                                                                         *)
(* The requester is the node of LadzrpTtlm; of a peer only its answers     *)
(* matter.  That the request is itself routed by the requester's tables is *)
(* part of PerformMaintenance there, and a request routed nowhere is one   *)
(* that is lost.                                                           *)
(***************************************************************************)
EXTENDS LadzrpTtlm

CONSTANT Delays         \* how long a message may be under way

ASSUME RefreshAssumption == Delays \subseteq Nat

VARIABLES net,          \* requests and answers under way
          passes,       \* history: passes each entry survived since it was made
          mishaps       \* history: messages lost since then, and restarts of the timer

refreshVars == <<now, zone, global, maint, lastMaint, restarts, renewed, sent,
                 net, passes, mishaps>>

Message == [kind : {"UNICAST_REQUEST", "HELLO"}, peer : Peers, nth : Nat, due : Nat]

\* How many passes an advance reaches over; the histories count no further.
Chances == PreExpiryAdvance \div MaintenanceInterval

CountUp(n) == IF n < Chances THEN n + 1 ELSE n

RefreshTypeOK ==
    /\ TypeOK
    /\ net \subseteq Message
    /\ passes \in [Peers -> 0..Chances]
    /\ mishaps \in [Peers -> 0..Chances]
    /\ \A p \in Peers \ DOMAIN zone : passes[p] = 0 /\ mishaps[p] = 0

RefreshInit ==
    /\ Init
    /\ net = {}
    /\ passes = [p \in Peers |-> 0]
    /\ mishaps = [p \in Peers |-> 0]

-----------------------------------------------------------------------------
\* What the SendUnicastRequest calls of a pass put on the way.
RequestsOf(delay) ==
    {[kind |-> "UNICAST_REQUEST", peer |-> r[1], nth |-> r[2], due |-> now + delay[r[1]]] :
        r \in {q \in Peers \X (1..2) : q[2] =< sent'[q[1]]}}

\* A pass of maintenance, and the requests it sends.
Maintain ==
    /\ PerformMaintenance
    /\ \E delay \in [Peers -> Delays] : net' = net \union RequestsOf(delay)
    /\ passes' = [p \in Peers |-> IF p \in DOMAIN zone' THEN CountUp(passes[p]) ELSE 0]
    /\ mishaps' = [p \in Peers |-> IF p \in DOMAIN zone' THEN mishaps[p] ELSE 0]

\* The peer has no more to do with a request than to send a HELLO back.
ProcessUnicastRequest(m) ==
    /\ m.kind = "UNICAST_REQUEST"
    /\ m.due = now
    /\ \E d \in Delays :
          net' = (net \ {m}) \union {[m EXCEPT !.kind = "HELLO", !.due = now + d]}
    /\ UNCHANGED vars
    /\ UNCHANGED <<passes, mishaps>>

NewEntryOf(p) ==
    /\ passes' = [passes EXCEPT ![p] = 0]
    /\ mishaps' = [mishaps EXCEPT ![p] = 0]

ReceiveAnswer(m) ==
    /\ m.kind = "HELLO"
    /\ m.due = now
    /\ \E lifetime \in Lifetimes : ProcessHello(m.peer, lifetime)
    /\ net' = net \ {m}
    /\ NewEntryOf(m.peer)

\* A HELLO that was not asked for.
HearHello(p) ==
    /\ \E lifetime \in Lifetimes : ProcessHello(p, lifetime)
    /\ NewEntryOf(p)
    /\ UNCHANGED net

HearGlobalUpdate(p) ==
    /\ ProcessGlobalUpdate(p)
    /\ UNCHANGED <<net, passes, mishaps>>

\* Forwarding may make an entry, whose histories are at 0 before.
Forward(d) ==
    /\ SendData(d)
    /\ UNCHANGED <<net, passes, mishaps>>

Lose(m) ==
    /\ net' = net \ {m}
    /\ mishaps' = [mishaps EXCEPT ![m.peer] = IF m.peer \in DOMAIN zone THEN CountUp(@) ELSE @]
    /\ UNCHANGED vars
    /\ UNCHANGED passes

\* The timer starts over; what is under way arrives all the same.
RestartTimer ==
    /\ NotifyInterfaceDown
    /\ mishaps' = [p \in Peers |-> IF p \in DOMAIN zone THEN CountUp(mishaps[p]) ELSE 0]
    /\ UNCHANGED <<net, passes>>

\* Time passes when no message is due either.
Wait ==
    /\ Tick
    /\ \A m \in net : m.due > now
    /\ UNCHANGED <<net, passes, mishaps>>

RefreshNext ==
    \/ Maintain
    \/ \E m \in net : ProcessUnicastRequest(m)
    \/ \E m \in net : ReceiveAnswer(m)
    \/ \E m \in net : Lose(m)
    \/ \E p \in Peers : HearHello(p)
    \/ \E p \in Peers : HearGlobalUpdate(p)
    \/ \E p \in Peers : Forward(p)
    \/ RestartTimer
    \/ Wait

RefreshSpec == RefreshInit /\ [][RefreshNext]_refreshVars

-----------------------------------------------------------------------------
(***************************************************************************)
(* What refreshing ahead of expiry buys (PerformMaintenance,               *)
(* ladzrp-routing-protocol.cc:525-534): a peer that answers is forgotten   *)
(* only if messages were lost or the timer was restarted as often as       *)
(* PreExpiryAdvance reaches over maintenance passes, or as often as the    *)
(* entry has seen passes at all.  It takes answers that come before the    *)
(* next pass, and a suppression that does not outlast an interval when     *)
(* expiry is near.                                                         *)
(***************************************************************************)
LossTolerance ==
    [][\A p \in DOMAIN zone \ DOMAIN zone' : mishaps[p] >= passes[p]]_refreshVars

(***************************************************************************)
(* A HELLO forgets the suppression of the entry it replaces                *)
(* (ladzrp-routing-protocol.cc:348), so that nothing but the rhythm of     *)
(* maintenance keeps requests apart.  It does: a request or its answer is  *)
(* under way to or from a peer, never more than one.                       *)
(***************************************************************************)
OneInFlight == \A a, b \in net : a.peer = b.peer => a = b
=============================================================================
