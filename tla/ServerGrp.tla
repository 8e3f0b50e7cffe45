------------------------------ MODULE ServerGrp ------------------------------
(***************************************************************************)
(* Which servers of a group can reach which (tester1/group.go, srv.go): the  *)
(* fault injection that the Raft and key/value tests rest on.  Every server  *)
(* has an end to every server of the group, itself included, and the tester  *)
(* enables and disables them.  A Partition or a ConnectAll is a loop over    *)
(* the servers, one server per step; the requests of the servers go on       *)
(* meanwhile.                                                                *)
(***************************************************************************)
EXTENDS Naturals, FiniteSets

CONSTANT N      \* number of servers: 3, 5 or 7 in the tests

ASSUME NAssumption == N \in Nat /\ N >= 3 /\ N % 2 = 1

Srv == 0..N-1

VARIABLES
  connected,   \* ServerGrp.connected: "whether each server is on the net"
  enabled,     \* is the current end of the first server to the second enabled?
  up,          \* is the server running?
  job,         \* the loop the tester is in
  todo,        \* the servers that loop has still to visit
  p1, p2,      \* the arguments of the last Partition
  leader,      \* the leader it was made around with MakePartition, or N
  cut          \* "none": nothing since the last ConnectAll cut the group in two;
               \* "exact": the last Partition is all that has happened since

vars == <<connected, enabled, up, job, todo, p1, p2, leader, cut>>

TypeOK ==
  /\ connected \in [Srv -> BOOLEAN]
  /\ enabled \in [Srv -> [Srv -> BOOLEAN]]
  /\ up \in [Srv -> BOOLEAN]
  /\ job \in {"none", "connect", "partition"}
  /\ todo \subseteq Srv
  /\ p1 \subseteq Srv /\ p2 \subseteq Srv
  /\ leader \in 0..N
  /\ cut \in {"none", "exact", "mixed"}

-----------------------------------------------------------------------------
\* Mutant: also to servers that are off the net.
Linked_All(con, on, i, to) ==
  [a \in Srv |-> [b \in Srv |->
     IF \/ a = i /\ b \in to
        \/ b = i /\ a \in to
     THEN TRUE ELSE on[a][b]]]

\* Mutant: only the outgoing ends.
Linked_OneWay(con, on, i, to) ==
  [a \in Srv |-> [b \in Srv |->
     IF \/ a = i /\ b \in to /\ con[b]
     THEN TRUE ELSE on[a][b]]]

\* sg.connect(i, to): the ends in both directions between i and the servers of
\* to that are on the net.
Linked(con, on, i, to) ==
  [a \in Srv |-> [b \in Srv |->
     IF \/ a = i /\ b \in to /\ con[b]
        \/ b = i /\ a \in to /\ con[a]
     THEN TRUE ELSE on[a][b]]]

\* sg.disconnect(i, from)
Unlinked(on, i, from) ==
  [a \in Srv |-> [b \in Srv |->
     IF (a = i /\ b \in from) \/ (b = i /\ a \in from) THEN FALSE ELSE on[a][b]]]

connect(i, to) ==
  /\ connected' = [connected EXCEPT ![i] = TRUE]
  /\ enabled' = Linked(connected', enabled, i, to)

disconnect(i, from) ==
  /\ connected' = [connected EXCEPT ![i] = FALSE]
  /\ enabled' = Unlinked(enabled, i, from)

\* Mutant: the other side is not disconnected.
Reconnect_Only(i, from, to) ==
  /\ connected' = [connected EXCEPT ![i] = TRUE]
  /\ enabled' = Linked(connected', enabled, i, to)

\* Both, one after the other, as the loop of Partition does for each server.
Reconnect(i, from, to) ==
  /\ connected' = [connected EXCEPT ![i] = TRUE]
  /\ enabled' = Linked(connected', Unlinked(enabled, i, from), i, to)

\* makeSrvGrp: ends start disabled, and no server is running.
Init ==
  /\ connected = [i \in Srv |-> FALSE]
  /\ enabled = [i \in Srv |-> [j \in Srv |-> FALSE]]
  /\ up = [i \in Srv |-> FALSE]
  /\ job = "none" /\ todo = {}
  /\ p1 = {} /\ p2 = {} /\ leader = N
  /\ cut = "none"

Disturb == cut' = IF cut = "none" THEN "none" ELSE "mixed"

\* startServer gives the server a fresh set of ends.
StartServer(i) ==
  /\ job = "none" /\ ~ up[i]
  /\ up' = [up EXCEPT ![i] = TRUE]
  /\ enabled' = [enabled EXCEPT ![i] = [j \in Srv |-> FALSE]]
  /\ Disturb
  /\ UNCHANGED <<connected, job, todo, p1, p2, leader>>

ShutdownServer(i) ==
  /\ job = "none" /\ up[i]
  /\ disconnect(i, Srv)
  /\ up' = [up EXCEPT ![i] = FALSE]
  /\ Disturb
  /\ UNCHANGED <<job, todo, p1, p2, leader>>

ConnectOne(i) ==
  /\ job = "none" /\ up[i]
  /\ connect(i, Srv)
  /\ Disturb
  /\ UNCHANGED <<up, job, todo, p1, p2, leader>>

DisconnectAll(i) ==
  /\ job = "none" /\ up[i]
  /\ disconnect(i, Srv)
  /\ Disturb
  /\ UNCHANGED <<up, job, todo, p1, p2, leader>>

\* ConnectAll and Partition are called with every server running.
ConnectAll ==
  /\ job = "none" /\ \A i \in Srv : up[i]
  /\ job' = "connect" /\ todo' = Srv
  /\ UNCHANGED <<connected, enabled, up, p1, p2, leader, cut>>

Partition(a, b, l) ==
  /\ job = "none" /\ \A i \in Srv : up[i]
  /\ job' = "partition" /\ todo' = Srv
  /\ p1' = a /\ p2' = b /\ leader' = l
  /\ cut' = "mixed"
  /\ UNCHANGED <<connected, enabled, up>>

\* One iteration.  The code visits the servers in the order of its lists; any
\* order is allowed here.
ConnectNext(i) ==
  /\ job = "connect" /\ i \in todo
  /\ connect(i, Srv)
  /\ todo' = todo \ {i}
  /\ UNCHANGED <<up, job, p1, p2, leader, cut>>

PartitionNext(i) ==
  /\ job = "partition" /\ i \in todo
  /\ IF i \in p1 THEN Reconnect(i, p2, p1) ELSE Reconnect(i, p1, p2)
  /\ todo' = todo \ {i}
  /\ UNCHANGED <<up, job, p1, p2, leader, cut>>

LoopDone ==
  /\ job # "none" /\ todo = {}
  /\ cut' = IF job = "connect" THEN "none" ELSE "exact"
  /\ job' = "none"
  /\ UNCHANGED <<connected, enabled, up, todo, p1, p2, leader>>

\* MakePartition(l): the k'th server other than l, and the two lists.
Other(l, k) == IF k < l THEN k ELSE k + 1
\* Mutant: one server short.
Majority_Short(l) == {Other(l, k) : k \in 0..(N \div 2 - 1)}

Majority(l) == {Other(l, k) : k \in 0..(N \div 2)}
Minority(l) == {Other(l, k) : k \in (N \div 2 + 1)..(N - 2)} \cup {l}

\* kvtest1's Partitioner puts each server on a random side.
Partitioner == \E a \in SUBSET Srv : Partition(a, Srv \ a, N)

Next ==
  \/ \E i \in Srv :
       \/ StartServer(i) \/ ShutdownServer(i) \/ ConnectOne(i) \/ DisconnectAll(i)
       \/ ConnectNext(i) \/ PartitionNext(i)
  \/ ConnectAll
  \/ Partitioner
  \/ \E l \in Srv : Partition(Majority(l), Minority(l), l)
  \/ LoopDone

Spec == Init /\ [][Next]_vars

-----------------------------------------------------------------------------
(* Properties.                                                             *)

\* A server that is off the net stays unreachable and mute, whatever is done
\* to the others meanwhile: the tests count on a disconnected leader.
OffNet ==
  \A i \in Srv : ~ connected[i] => \A j \in Srv : ~ enabled[i][j] /\ ~ enabled[j][i]

\* While no partition has cut the group since the last ConnectAll, two servers
\* on the net reach each other, in both directions, restarts included: a restart
\* replaces the ends of a server.
OnNet ==
  (job = "none" /\ cut = "none") =>
    \A i, j \in Srv : connected[i] /\ connected[j] => enabled[i][j]

\* After Partition, two servers reach each other exactly if they are on the same
\* side, whatever servers were off the net or on which side before.
PartitionExact ==
  (job = "none" /\ cut = "exact") =>
    \A i, j \in Srv : enabled[i][j] <=> (i \in p1 <=> j \in p1)

\* MakePartition, "put current leader in minority": the leader reaches less than
\* half of the group, and the servers it does not reach are a majority that
\* reach each other.
LeaderInMinority ==
  (job = "none" /\ cut = "exact" /\ leader # N) =>
    LET away == {i \in Srv : ~ enabled[leader][i]} IN
    /\ 2 * Cardinality(away) > N
    /\ \A i, j \in away : enabled[i][j]

=============================================================================
