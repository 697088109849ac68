----------------------------- MODULE MCMpfStatic -----------------------------
(* Five nodes at rest in a network without local minima: every node hears   *)
(* one that is nearer to any destination.  All HELLOs of neighbours have    *)
(* arrived, and GLOBAL_UPDATEs at some of the nodes; no frame is lost.      *)
EXTENDS LadzrpMpf

At(x, y) == [x |-> x, y |-> y]

MCNodes == 1..5

\* A chain, two ways round, a cluster, and, seen from the first node, angles to the
\* last one that tie from one to the next but not from the first to the third.
MCLayouts == { <<At(0, 0), At(2, 0), At(4, 0), At(6, 0), At(8, 0)>>,
               <<At(0, 0), At(2, 1), At(2, -1), At(4, 0), At(6, 0)>>,
               <<At(4, 1), At(0, 0), At(2, 1), At(2, 0), At(1, 1)>>,
               <<At(0, 0), At(1, 0), At(4, -1), At(3, 1), At(3, 0)>> }
MCRange2 == 5
NoError == {At(0, 0)}

ASSUME NoLocalMinimum ==
    \A layout \in MCLayouts : \A n \in MCNodes : \A d \in MCNodes \ {n} :
        \E m \in MCNodes \ {n} :
            /\ Distance2(layout[n], layout[m]) =< MCRange2
            /\ Distance2(layout[m], layout[d]) < Distance2(layout[n], layout[d])

StaticInit ==
    /\ pos \in Layouts
    /\ zone = [n \in Nodes |-> [m \in {k \in Nodes : Linked(n, k)} |-> pos[m]]]
    /\ \E informed \in SUBSET Nodes :
           global = [n \in Nodes |->
                        [m \in (IF n \in informed THEN Nodes \ {n} ELSE {}) |-> pos[m]]]
    /\ net = {}
    /\ packets = 0
    /\ delivered = {}
    /\ tableEvents = 0

StaticNext ==
    \/ \E n, d \in Nodes : ~Unknown(n, d) /\ RouteOutput(n, d)
    \/ \E f \in net : RouteInput(f)

\* A received frame is handed to RouteInput at once.
StaticSpec == StaticInit /\ [][StaticNext]_vars /\ WF_vars(\E f \in net : RouteInput(f))

(***************************************************************************)
(* The first packet a node sends to a destination of either of its tables  *)
(* arrives, through whatever mixture of greedy and backup hops.            *)
(***************************************************************************)
FirstPacketArrives == packets = 1 ~> delivered = {1}
=============================================================================
