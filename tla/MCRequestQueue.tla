---------------------------- MODULE MCRequestQueue ----------------------------
(* Two packets, each to two destinations, through a queue of two entries.    *)
EXTENDS LadzrpRequestQueue

MCUids == 1..2
MCDsts == {"a", "b"}
=============================================================================
