------------------------------ MODULE MCRaftOne ------------------------------
(* RaftOne for TLC: servers are interchangeable, and so are commands.       *)
EXTENDS RaftOne, TLC

Interchangeable == Permutations(Srv) \cup Permutations(Cmd)

=============================================================================
