----------------------------- MODULE MCLifecycle -----------------------------
(* Three interfaces, of which any may have an address before the protocol is  *)
(* attached.                                                                  *)
EXTENDS LadzrpLifecycle

MCIfaces == 0..2
=============================================================================
