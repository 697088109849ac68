------------------------------ MODULE MCIdCache ------------------------------
(* Two sources with two sequence numbers would behave as four unrelated     *)
(* pairs; two pairs already give every interplay of a pair with another.    *)
EXTENDS LadzrpIdCache

CONSTANTS hello1, hello2
MCKey == {hello1, hello2}
=============================================================================
