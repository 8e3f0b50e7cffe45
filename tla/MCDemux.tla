------------------------------ MODULE MCDemux ------------------------------
(* Instances of Demux for TLC: the tags wrap around among the calls.       *)
EXTENDS Demux

CONSTANTS c1, c2, c3
=============================================================================
