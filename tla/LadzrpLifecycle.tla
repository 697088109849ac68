--------------------------- MODULE LadzrpLifecycle ---------------------------
(***************************************************************************)
(* Sockets and timers of a node over its lifetime: Start, Stop, SetIpv4,   *)
(* the Notify handlers, the rescheduling of the three timers and DoDispose *)
(* in src/model/ladzrp-routing-protocol.cc.                                *)
(*                                                                         *)
(* The IPv4 stack is the simulator's: it gives an interface an address,    *)
(* takes it away, and brings interfaces up and down, and tells the routing *)
(* protocol afterwards, once there is one.                                 *)
(***************************************************************************)
EXTENDS Integers, FiniteSets

CONSTANT Ifaces         \* the interfaces, in the order of their indices

ASSUME LifecycleAssumption == Ifaces \subseteq Nat /\ IsFiniteSet(Ifaces)

None == -1

VARIABLES addressed,    \* external: the interfaces whose first address is set
          mobility,     \* external: whether there is a mobility model yet
          stage,        \* m_ipv4: not given yet, given, or reset by DoDispose
          timers,       \* the events that are running
          sockets,      \* m_socketAddresses: the interfaces with a bound socket
          mainAddress,  \* m_mainAddress, by its interface
          fatal         \* whether a Bind failed

vars == <<addressed, mobility, stage, timers, sockets, mainAddress, fatal>>

Timers == {"hello", "global", "maintenance"}

TypeOK ==
    /\ addressed \subseteq Ifaces
    /\ mobility \in BOOLEAN
    /\ stage \in {"new", "attached", "disposed"}
    /\ timers \subseteq Timers
    /\ sockets \subseteq Ifaces
    /\ mainAddress \in Ifaces \union {None}
    /\ fatal \in BOOLEAN

Init ==
    /\ addressed \in SUBSET Ifaces
    /\ mobility \in BOOLEAN
    /\ stage = "new"
    /\ timers = {}
    /\ sockets = {}
    /\ mainAddress = None
    /\ fatal = FALSE

-----------------------------------------------------------------------------
Lowest(S) == {i \in S : \A j \in S : i =< j}

\* The loop runs one interface too far.
StartPastEnd_Mutant(open, running) ==
    \/ /\ running # {}
       /\ sockets' = open /\ timers' = running
       /\ UNCHANGED <<mainAddress, fatal>>
    \/ /\ running = {}
       /\ fatal' = (open \intersect addressed' # {})
       /\ sockets' = open \union addressed' \union {Cardinality(Ifaces)}
       /\ mainAddress' \in IF addressed' = {} THEN {None} ELSE Lowest(addressed')
       /\ timers' = Timers

\* Only the HELLO timer is asked whether the protocol runs.
StartFresh_Mutant(open, running) ==
    \/ /\ "hello" \in running
       /\ sockets' = open /\ timers' = running
       /\ UNCHANGED <<mainAddress, fatal>>
    \/ /\ "hello" \notin running
       /\ fatal' = (open \intersect addressed' # {})
       /\ sockets' = open \union addressed'
       /\ mainAddress' \in IF addressed' = {} THEN {None} ELSE Lowest(addressed')
       /\ timers' = Timers

\* A main address once chosen is kept.
KeepMain_Mutant(open, running) ==
    \/ /\ running # {}
       /\ sockets' = open /\ timers' = running
       /\ UNCHANGED <<mainAddress, fatal>>
    \/ /\ running = {}
       /\ fatal' = (open \intersect addressed' # {})
       /\ sockets' = open \union addressed'
       /\ mainAddress' \in IF mainAddress # None THEN {mainAddress}
                           ELSE IF addressed' = {} THEN {None} ELSE Lowest(addressed')
       /\ timers' = Timers

\* Start leaves all as it is as long as any event is running: open are the sockets
\* and running the events before.
Start(open, running) ==
    \/ /\ running # {}
       /\ sockets' = open /\ timers' = running
       /\ UNCHANGED <<mainAddress, fatal>>
    \/ /\ running = {}
       /\ fatal' = (open \intersect addressed' # {})
       /\ sockets' = open \union addressed'
       /\ mainAddress' \in IF addressed' = {} THEN {None} ELSE Lowest(addressed')
       /\ timers' = Timers

SetIpv4 ==
    /\ stage = "new"
    /\ stage' = "attached"
    /\ UNCHANGED <<addressed, mobility>>
    /\ Start(sockets, timers)

\* Before SetIpv4 the stack has no routing protocol to tell.
Configure(change) ==
    /\ stage = "new"
    /\ addressed' = change
    /\ UNCHANGED <<mobility, stage, timers, sockets, mainAddress, fatal>>

NotifyAddAddress(i) ==
    /\ stage = "attached"
    /\ addressed' = addressed \union {i}
    /\ UNCHANGED <<mobility, stage>>
    /\ Start(sockets, timers)

NotifyRemoveAddress(i) ==
    /\ stage = "attached"
    /\ addressed' = addressed \ {i}
    /\ UNCHANGED <<mobility, stage>>
    /\ Start(sockets, timers)

\* An interface without an address is not started for.
NotifyInterfaceUp(i) ==
    /\ stage = "attached"
    /\ i \in addressed
    /\ UNCHANGED <<addressed, mobility, stage>>
    /\ Start(sockets, timers)

\* Stop, which closes the sockets and cancels the events, and Start.
NotifyInterfaceDown(i) ==
    /\ stage = "attached"
    /\ UNCHANGED <<addressed, mobility, stage>>
    /\ Start({}, {})

\* Without a mobility model the HELLO and the global timer are not set again.
SendHello ==
    /\ "hello" \in timers
    /\ timers' = IF mobility THEN timers ELSE timers \ {"hello"}
    /\ UNCHANGED <<addressed, mobility, stage, sockets, mainAddress, fatal>>

MaybeSendGlobalUpdate ==
    /\ "global" \in timers
    /\ timers' = IF mobility THEN timers ELSE timers \ {"global"}
    /\ UNCHANGED <<addressed, mobility, stage, sockets, mainAddress, fatal>>

\* Maintenance that gives up, too, when there is nothing to tell a position from.
GiveUpMaintenance_Mutant ==
    /\ "maintenance" \in timers
    /\ timers' = IF mobility THEN timers ELSE timers \ {"maintenance"}
    /\ UNCHANGED <<addressed, mobility, stage, sockets, mainAddress, fatal>>

\* Maintenance always schedules itself again.
PerformMaintenance ==
    /\ "maintenance" \in timers
    /\ UNCHANGED vars

\* DoDispose calls Stop and lets go of the IPv4 stack; the destructor stops again.
DoDispose ==
    /\ stage' = "disposed"
    /\ timers' = {} /\ sockets' = {}
    /\ UNCHANGED <<addressed, mobility, mainAddress, fatal>>

AggregateMobility ==
    /\ mobility' = TRUE
    /\ UNCHANGED <<addressed, stage, timers, sockets, mainAddress, fatal>>

Next ==
    \/ SetIpv4
    \/ \E change \in SUBSET Ifaces : Configure(change)
    \/ \E i \in Ifaces : NotifyAddAddress(i)
    \/ \E i \in Ifaces : NotifyRemoveAddress(i)
    \/ \E i \in Ifaces : NotifyInterfaceUp(i)
    \/ \E i \in Ifaces : NotifyInterfaceDown(i)
    \/ SendHello
    \/ MaybeSendGlobalUpdate
    \/ PerformMaintenance
    \/ DoDispose
    \/ AggregateMobility

Spec == Init /\ [][Next]_vars

-----------------------------------------------------------------------------
(***************************************************************************)
(* Start never binds an address a second time, which would end the         *)
(* simulation (ladzrp-routing-protocol.cc:172-175): it closes no socket    *)
(* itself, and relies on some event running while sockets are open.        *)
(***************************************************************************)
NeverFatal == ~fatal

(***************************************************************************)
(* What it relies on: while the protocol is attached, maintenance is       *)
(* always scheduled, even when the other timers have died out, so tables   *)
(* are purged for as long as packets are routed by them.                   *)
(***************************************************************************)
MaintenanceGoesOn == stage = "attached" => "maintenance" \in timers

(***************************************************************************)
(* After DoDispose no event is left that would use the IPv4 stack, and no  *)
(* socket that would call back.                                            *)
(***************************************************************************)
QuietWhenDisposed == stage = "disposed" => timers = {} /\ sockets = {}

(***************************************************************************)
(* Whatever addresses come and go, the main address, which routes and      *)
(* HELLOs carry, is that of a bound socket, so that answers to it are      *)
(* heard; it is not always an address the node still has                   *)
(* (ladzrp-routing-protocol.cc:176-184, 201-222, 255-259).                 *)
(***************************************************************************)
MainAddressBound == sockets # {} => mainAddress \in sockets

\* Sockets are open only while attached; IInv is inductive.
IInv ==
    /\ NeverFatal /\ MaintenanceGoesOn /\ QuietWhenDisposed /\ MainAddressBound
    /\ stage = "new" => timers = {} /\ sockets = {}

=============================================================================
