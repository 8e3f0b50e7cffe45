------------------------------ MODULE MCLabRpc ------------------------------
(* Instances of LabRpc for TLC.                                            *)
EXTENDS LabRpc

CONSTANTS c1, e1, s1
=============================================================================
