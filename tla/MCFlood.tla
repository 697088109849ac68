------------------------------- MODULE MCFlood -------------------------------
(* Networks of wires, with one interface at either end of each, and of radio, *)
(* with one interface per node.                                               *)
EXTENDS LadzrpFlood

MCNodes == 1..4

\* A triangle, and a fourth node at the end of a tail: it takes loops for the
\* copies of a message to meet, and a node out of the reach of two hops.
Wires == {<<1, 2>>, <<2, 3>>, <<3, 1>>, <<3, 4>>}
Ends == Wires \union {<<w[2], w[1]>> : w \in Wires}
EndOwner == [i \in Ends |-> i[1]]
EndHears == {<<i, <<i[2], i[1]>>>> : i \in Ends}
AllButTheSecond == {1, 3, 4}
TheFirst == {1}

\* A chain of radio nodes, which hear the next one on either side.
Radios == {<<n, n>> : n \in MCNodes}
RadioOwner == [i \in Radios |-> i[1]]
RadioHears == {r \in Radios \X Radios : r[1][1] - r[2][1] \in {-1, 1}}
=============================================================================
