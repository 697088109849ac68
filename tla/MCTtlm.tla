------------------------------- MODULE MCTtlm -------------------------------
(* One instant stands for half a second: maintenance every second instant,  *)
(* and an advance of one maintenance interval, as with the default          *)
(* attributes.  The request hold outlasts the interval, so that suppression *)
(* reaches from one pass into the next, and is shorter than two intervals,  *)
(* so that a restarted timer can end it.                                    *)
EXTENDS LadzrpTtlm, TLC

CONSTANTS peer1, peer2
MCPeers == {peer1, peer2}

\* Nothing tells the peers apart.
PeerSymmetry == Permutations(MCPeers)
=============================================================================
