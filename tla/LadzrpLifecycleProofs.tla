------------------------ MODULE LadzrpLifecycleProofs ------------------------
(***************************************************************************)
(* Sockets and timers, proved for any number of interfaces, whatever the   *)
(* stack does with their addresses and in whatever order.                  *)
(***************************************************************************)
EXTENDS LadzrpLifecycle, TLAPS

(***************************************************************************)
(* Start with the sockets and events of IInv leaves maintenance scheduled, *)
(* fails no Bind, and has a socket for the main address.                   *)
(***************************************************************************)
LEMMA StartIsSafe ==
    ASSUME NeverFatal, NEW open, NEW running, Start(open, running),
           "maintenance" \in running \/ (running = {} /\ open = {}),
           open # {} => mainAddress \in open
    PROVE  NeverFatal' /\ "maintenance" \in timers' /\ MainAddressBound'
<1>1. CASE running # {}
  BY <1>1 DEF Start, NeverFatal, MainAddressBound
<1>2. CASE running = {} /\ open = {}
  BY <1>2 DEF Start, NeverFatal, MainAddressBound, Timers, Lowest
<1> QED
  BY <1>1, <1>2

(***************************************************************************)
(* No Bind ever fails, maintenance goes on while the protocol is attached, *)
(* the main address has a socket, and nothing is left after DoDispose.     *)
(***************************************************************************)
THEOREM LifecycleInvariant == Spec => []IInv
<1> USE DEF IInv, MaintenanceGoesOn, QuietWhenDisposed, MainAddressBound
<1>1. Init => IInv
  BY DEF Init, NeverFatal
<1>2. IInv /\ [Next]_vars => IInv'
  <2> SUFFICES ASSUME IInv, [Next]_vars PROVE IInv'
    OBVIOUS
  <2>1. CASE SetIpv4
    BY <2>1, StartIsSafe DEF SetIpv4
  <2>2. ASSUME NEW change \in SUBSET Ifaces, Configure(change) PROVE IInv'
    BY <2>2 DEF Configure, NeverFatal
  <2>3. ASSUME NEW i \in Ifaces, NotifyAddAddress(i) PROVE IInv'
    BY <2>3, StartIsSafe DEF NotifyAddAddress
  <2>4. ASSUME NEW i \in Ifaces, NotifyRemoveAddress(i) PROVE IInv'
    BY <2>4, StartIsSafe DEF NotifyRemoveAddress
  <2>5. ASSUME NEW i \in Ifaces, NotifyInterfaceUp(i) PROVE IInv'
    BY <2>5, StartIsSafe DEF NotifyInterfaceUp
  <2>6. ASSUME NEW i \in Ifaces, NotifyInterfaceDown(i) PROVE IInv'
    BY <2>6, StartIsSafe DEF NotifyInterfaceDown
  <2>7. CASE SendHello
    BY <2>7 DEF SendHello, NeverFatal
  <2>8. CASE MaybeSendGlobalUpdate
    BY <2>8 DEF MaybeSendGlobalUpdate, NeverFatal
  <2>9. CASE PerformMaintenance
    BY <2>9 DEF PerformMaintenance, vars, NeverFatal
  <2>10. CASE DoDispose
    BY <2>10 DEF DoDispose, NeverFatal
  <2>11. CASE AggregateMobility
    BY <2>11 DEF AggregateMobility, NeverFatal
  <2>12. CASE UNCHANGED vars
    BY <2>12 DEF vars, NeverFatal
  <2> QED
    BY <2>1, <2>2, <2>3, <2>4, <2>5, <2>6, <2>7, <2>8, <2>9, <2>10, <2>11, <2>12
       DEF Next
<1> QED
  BY <1>1, <1>2, PTL DEF Spec

(***************************************************************************)
(* Hence an address is never bound twice.                                  *)
(***************************************************************************)
THEOREM NoBindFails == Spec => []NeverFatal
<1>1. IInv => NeverFatal
  BY DEF IInv
<1> QED
  BY <1>1, LifecycleInvariant, PTL

(***************************************************************************)
(* Hence maintenance is scheduled for as long as the protocol is attached, *)
(* whatever becomes of the other timers.                                   *)
(***************************************************************************)
THEOREM MaintenanceNeverStops == Spec => []MaintenanceGoesOn
<1>1. IInv => MaintenanceGoesOn
  BY DEF IInv
<1> QED
  BY <1>1, LifecycleInvariant, PTL

(***************************************************************************)
(* And the main address always has its socket, although it may be one that *)
(* the node no longer has.                                                 *)
(***************************************************************************)
THEOREM MainAddressHasSocket == Spec => []MainAddressBound
<1>1. IInv => MainAddressBound
  BY DEF IInv
<1> QED
  BY <1>1, LifecycleInvariant, PTL

(***************************************************************************)
(* Start keeps to the interfaces and timers there are, fatal or not.       *)
(***************************************************************************)
LEMMA StartKeepsTypes ==
    ASSUME addressed' \subseteq Ifaces, mainAddress \in Ifaces \union {None}, fatal \in BOOLEAN,
           NEW open \in SUBSET Ifaces, NEW running \in SUBSET Timers, Start(open, running)
    PROVE  /\ timers' \subseteq Timers /\ sockets' \subseteq Ifaces
           /\ mainAddress' \in Ifaces \union {None} /\ fatal' \in BOOLEAN
<1>1. CASE running # {}
  BY <1>1 DEF Start
<1>2. CASE running = {}
  BY <1>2 DEF Start, Lowest
<1> QED
  BY <1>1, <1>2

(***************************************************************************)
(* Sockets are bound, and the main address chosen, on interfaces of the    *)
(* node only, and no event runs that the protocol does not know.           *)
(***************************************************************************)
THEOREM TypeCorrect == Spec => []TypeOK
<1> USE DEF TypeOK
<1>1. Init => TypeOK
  BY DEF Init
<1>2. TypeOK /\ [Next]_vars => TypeOK'
  <2> SUFFICES ASSUME TypeOK, [Next]_vars PROVE TypeOK'
    OBVIOUS
  <2>1. CASE SetIpv4
    BY <2>1, StartKeepsTypes DEF SetIpv4
  <2>2. ASSUME NEW change \in SUBSET Ifaces, Configure(change) PROVE TypeOK'
    BY <2>2 DEF Configure
  <2>3. ASSUME NEW i \in Ifaces, NotifyAddAddress(i) PROVE TypeOK'
    BY <2>3, StartKeepsTypes DEF NotifyAddAddress
  <2>4. ASSUME NEW i \in Ifaces, NotifyRemoveAddress(i) PROVE TypeOK'
    BY <2>4, StartKeepsTypes DEF NotifyRemoveAddress
  <2>5. ASSUME NEW i \in Ifaces, NotifyInterfaceUp(i) PROVE TypeOK'
    BY <2>5, StartKeepsTypes DEF NotifyInterfaceUp
  <2>6. ASSUME NEW i \in Ifaces, NotifyInterfaceDown(i) PROVE TypeOK'
    BY <2>6, StartKeepsTypes DEF NotifyInterfaceDown
  <2>7. CASE SendHello
    BY <2>7 DEF SendHello
  <2>8. CASE MaybeSendGlobalUpdate
    BY <2>8 DEF MaybeSendGlobalUpdate
  <2>9. CASE PerformMaintenance
    BY <2>9 DEF PerformMaintenance, vars
  <2>10. CASE DoDispose
    BY <2>10 DEF DoDispose
  <2>11. CASE AggregateMobility
    BY <2>11 DEF AggregateMobility
  <2>12. CASE UNCHANGED vars
    BY <2>12 DEF vars
  <2> QED
    BY <2>1, <2>2, <2>3, <2>4, <2>5, <2>6, <2>7, <2>8, <2>9, <2>10, <2>11, <2>12
       DEF Next
<1> QED
  BY <1>1, <1>2, PTL DEF Spec
=============================================================================
