------------------------------ MODULE MCRefresh ------------------------------
(* Three instants to a maintenance interval.  A request and its answer take *)
(* two of them, and the advance reaches over two passes, so that one loss   *)
(* has to be made up for.  The longest hold would outlast an interval.      *)
EXTENDS LadzrpRefresh

CONSTANT peer
MCPeers == {peer}

ASSUME AnswersInTime ==
    /\ \A d, e \in Delays : d + e < MaintenanceInterval
    /\ MinRequestHold =< MaintenanceInterval
    /\ PreExpiryAdvance \div 5 =< MaintenanceInterval
=============================================================================
