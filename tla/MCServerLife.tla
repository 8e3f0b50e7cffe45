---------------------------- MODULE MCServerLife ----------------------------
(* Instances of ServerLife for TLC: one server, the end of a clerk and the  *)
(* end of a peer.                                                          *)
EXTENDS ServerLife

CONSTANTS c1, c2, clerk, peer, s1

MCTarget == [e \in EndName |-> s1]
=============================================================================
