--------------------------- MODULE ServerGrpProofs ---------------------------
(* Who can reach whom, for a group of any odd size.                         *)
EXTENDS ServerGrp, FiniteSetTheorems, TLAPS

\* The matrix of ends between the servers.
Ends == [Srv -> [Srv -> BOOLEAN]]

\* What sg.connect and sg.disconnect do to each end.
LEMMA LinkedType ==
  ASSUME NEW con \in [Srv -> BOOLEAN], NEW on \in Ends, NEW i \in Srv, NEW to
  PROVE  /\ Linked(con, on, i, to) \in Ends
         /\ \A a, b \in Srv : Linked(con, on, i, to)[a][b] <=>
              \/ a = i /\ b \in to /\ con[b]
              \/ b = i /\ a \in to /\ con[a]
              \/ on[a][b]
<1>1. \A a, b \in Srv : on[a][b] \in BOOLEAN
  BY Zenon DEF Ends
<1> QED BY <1>1, Zenon DEF Linked, Ends

\* And sg.disconnect.
LEMMA UnlinkedType ==
  ASSUME NEW on \in Ends, NEW i \in Srv, NEW from
  PROVE  /\ Unlinked(on, i, from) \in Ends
         /\ \A a, b \in Srv : Unlinked(on, i, from)[a][b] <=>
              ~ (a = i /\ b \in from) /\ ~ (b = i /\ a \in from) /\ on[a][b]
<1>1. \A a, b \in Srv : on[a][b] \in BOOLEAN
  BY Zenon DEF Ends
<1> QED BY <1>1, Zenon DEF Unlinked, Ends

\* The two lists of MakePartition are a split of the group.
LEMMA HalvesSplit == \A l \in Srv : Minority(l) = Srv \ Majority(l) /\ Majority(l) \subseteq Srv
<1> SUFFICES ASSUME NEW l \in Srv
             PROVE  Minority(l) = Srv \ Majority(l) /\ Majority(l) \subseteq Srv
  OBVIOUS
<1> DEFINE h == N \div 2
<1>1. h \in Nat /\ N = 2 * h + 1 /\ h >= 1
  BY NAssumption
<1>2. Majority(l) = {Other(l, k) : k \in 0..h} /\ Majority(l) \subseteq Srv
  BY <1>1, NAssumption DEF Majority, Other, Srv
<1>3. Minority(l) = {Other(l, k) : k \in (h + 1)..(N - 2)} \cup {l}
  BY Zenon DEF Minority
<1>4. ASSUME NEW x \in Minority(l) PROVE x \in Srv /\ x \notin Majority(l)
  BY <1>1, <1>2, <1>3, NAssumption DEF Other, Srv
<1>5. ASSUME NEW x \in Srv, x \notin Majority(l) PROVE x \in Minority(l)
  <2>1. CASE x = l
    BY <2>1, <1>3, Zenon
  <2>2. CASE x < l
    <3>1. x = Other(l, x) /\ x \in 0..(N - 2)
      BY <2>2, NAssumption DEF Other, Srv
    <3>2. x \notin 0..h
      BY <3>1, <1>2, <1>5, Zenon
    <3>3. x \in (h + 1)..(N - 2)
      BY <3>1, <3>2, <1>1, NAssumption
    <3> QED BY <3>1, <3>3, <1>3, Zenon
  <2>3. CASE x > l
    <3>1. x = Other(l, x - 1) /\ x - 1 \in 0..(N - 2)
      BY <2>3, NAssumption DEF Other, Srv
    <3>2. x - 1 \notin 0..h
      BY <3>1, <1>2, <1>5, Zenon
    <3>3. x - 1 \in (h + 1)..(N - 2)
      BY <3>1, <3>2, <1>1, NAssumption
    <3> QED BY <3>1, <3>3, <1>3, Zenon
  <2> QED BY <2>1, <2>2, <2>3, NAssumption DEF Srv
<1> QED BY <1>2, <1>4, <1>5, Zenon

-----------------------------------------------------------------------------
(* The invariant: what the loops of ConnectAll and Partition have           *)
(* established for the servers they have visited.                           *)

\* The loop of ConnectAll or Partition has been at server i.
Visited(i) == i \in Srv \ todo

\* A server on the net runs; the loops run over a group that is up.
UpInv ==
  /\ \A i \in Srv : connected[i] => up[i]
  /\ job # "none" => \A i \in Srv : up[i]

\* ConnectAll: the servers visited reach each other.
ConnectInv ==
  job = "connect" =>
    /\ \A i \in Srv : Visited(i) => connected[i]
    /\ \A i, j \in Srv : Visited(i) /\ Visited(j) => enabled[i][j]

\* Partition: the servers visited reach those visited on their side, and nobody
\* visited has an end to or from the other side.
PartitionInv ==
  job = "partition" =>
    /\ p1 \subseteq Srv /\ p2 = Srv \ p1 /\ cut = "mixed"
    /\ \A i \in Srv : Visited(i) => connected[i]
    /\ \A i, j \in Srv : (i \in p1 <=> j \in p1) /\ Visited(i) /\ Visited(j) => enabled[i][j]
    /\ \A i, j \in Srv : ~ (i \in p1 <=> j \in p1) /\ (Visited(i) \/ Visited(j))
         => ~ enabled[i][j]

\* The inductive invariant: the loops, and the three properties themselves.
GInv == TypeOK /\ UpInv /\ ConnectInv /\ PartitionInv /\ OffNet /\ OnNet /\ PartitionExact

\* A group whose servers have just been started satisfies the invariant.
LEMMA GInit == Init => GInv
<1> SUFFICES ASSUME Init PROVE GInv
  OBVIOUS
<1>1. TypeOK
  BY NAssumption DEF Init, TypeOK, Srv
<1>2. \A i \in Srv : ~ connected[i] /\ ~ up[i] /\ \A j \in Srv : ~ enabled[i][j]
  BY Zenon DEF Init
<1> QED BY <1>1, <1>2, Zenon
           DEF Init, GInv, UpInv, ConnectInv, PartitionInv, OffNet, OnNet,
           PartitionExact

\* sg.connect(i, Srv): i is on the net, and linked with all that are.
LEMMA ConnectAllEffect ==
  ASSUME TypeOK, NEW i \in Srv, connect(i, Srv)
  PROVE  /\ connected' \in [Srv -> BOOLEAN] /\ enabled' \in Ends
         /\ connected'[i] /\ \A j \in Srv : j # i => (connected'[j] <=> connected[j])
         /\ \A a, b \in Srv : enabled'[a][b] <=>
              \/ a = i /\ connected'[b]
              \/ b = i /\ connected'[a]
              \/ enabled[a][b]
<1>1. connected' \in [Srv -> BOOLEAN] /\ connected'[i]
      /\ \A j \in Srv : j # i => connected'[j] = connected[j]
  BY Zenon DEF connect, TypeOK
<1>2. enabled \in Ends
  BY Zenon DEF TypeOK, Ends
<1>3. /\ Linked(connected', enabled, i, Srv) \in Ends
      /\ \A a, b \in Srv : Linked(connected', enabled, i, Srv)[a][b] <=>
           \/ a = i /\ b \in Srv /\ connected'[b]
           \/ b = i /\ a \in Srv /\ connected'[a]
           \/ enabled[a][b]
  BY <1>1, <1>2, LinkedType
<1>4. enabled' = Linked(connected', enabled, i, Srv)
  BY Zenon DEF connect
<1> QED BY <1>1, <1>3, <1>4, Zenon

\* sg.disconnect(i, Srv): i is off the net and linked with nobody.
LEMMA DisconnectAllEffect ==
  ASSUME TypeOK, NEW i \in Srv, disconnect(i, Srv)
  PROVE  /\ connected' \in [Srv -> BOOLEAN] /\ enabled' \in Ends
         /\ ~ connected'[i] /\ \A j \in Srv : j # i => (connected'[j] <=> connected[j])
         /\ \A a, b \in Srv : enabled'[a][b] <=> a # i /\ b # i /\ enabled[a][b]
<1>1. connected' \in [Srv -> BOOLEAN] /\ ~ connected'[i]
      /\ \A j \in Srv : j # i => connected'[j] = connected[j]
  BY Zenon DEF disconnect, TypeOK
<1>2. enabled \in Ends
  BY Zenon DEF TypeOK, Ends
<1>3. /\ Unlinked(enabled, i, Srv) \in Ends
      /\ \A a, b \in Srv : Unlinked(enabled, i, Srv)[a][b] <=>
           ~ (a = i /\ b \in Srv) /\ ~ (b = i /\ a \in Srv) /\ enabled[a][b]
  BY <1>2, UnlinkedType, Zenon
<1>4. enabled' = Unlinked(enabled, i, Srv)
  BY Zenon DEF disconnect
<1> QED BY <1>1, <1>3, <1>4, Zenon

\* An iteration of Partition: i is cut off from one list and linked with the other.
LEMMA ReconnectEffect ==
  ASSUME TypeOK, NEW i \in Srv, NEW from, NEW to, Reconnect(i, from, to)
  PROVE  /\ connected' \in [Srv -> BOOLEAN] /\ enabled' \in Ends
         /\ connected'[i] /\ \A j \in Srv : j # i => (connected'[j] <=> connected[j])
         /\ \A a, b \in Srv : enabled'[a][b] <=>
              \/ a = i /\ b \in to /\ connected'[b]
              \/ b = i /\ a \in to /\ connected'[a]
              \/ ~ (a = i /\ b \in from) /\ ~ (b = i /\ a \in from) /\ enabled[a][b]
<1>1. connected' \in [Srv -> BOOLEAN] /\ connected'[i]
      /\ \A j \in Srv : j # i => connected'[j] = connected[j]
  BY Zenon DEF Reconnect, TypeOK
<1>2. enabled \in Ends
  BY Zenon DEF TypeOK, Ends
<1> DEFINE off == Unlinked(enabled, i, from)
<1>3. /\ off \in Ends
      /\ \A a, b \in Srv : off[a][b] <=>
           ~ (a = i /\ b \in from) /\ ~ (b = i /\ a \in from) /\ enabled[a][b]
  BY <1>2, UnlinkedType, Zenon
<1>4. enabled' = Linked(connected', off, i, to)
  BY Zenon DEF Reconnect
<1> HIDE DEF off
<1>5. /\ Linked(connected', off, i, to) \in Ends
      /\ \A a, b \in Srv : Linked(connected', off, i, to)[a][b] <=>
           \/ a = i /\ b \in to /\ connected'[b]
           \/ b = i /\ a \in to /\ connected'[a]
           \/ off[a][b]
  BY <1>1, <1>3, LinkedType
<1> QED BY <1>1, <1>3, <1>4, <1>5, Zenon

\* Each operation on a group, and each iteration of its loops, preserves it.
LEMMA GInductive == GInv /\ [Next]_vars => GInv'
<1> SUFFICES ASSUME GInv, [Next]_vars PROVE GInv'
  OBVIOUS
<1> USE DEF GInv, UpInv, ConnectInv, PartitionInv, OffNet, OnNet, PartitionExact, Visited
<1>t. TypeOK
  OBVIOUS
<1>1. ASSUME NEW i \in Srv, StartServer(i) PROVE GInv'
  <2>1. /\ job = "none" /\ ~ up[i] /\ UNCHANGED <<connected, job, todo, p1, p2, leader>>
        /\ cut' \in {"none", "mixed"} /\ (cut' = "none" <=> cut = "none")
    BY <1>1, <1>t, Zenon DEF StartServer, Disturb, TypeOK
  <2>2. up' \in [Srv -> BOOLEAN] /\ \A j \in Srv : j # i => up'[j] = up[j]
    BY <1>1, <1>t, Zenon DEF StartServer, TypeOK
  <2>3. /\ enabled' \in Ends
        /\ \A a, b \in Srv : enabled'[a][b] <=> a # i /\ enabled[a][b]
    BY <1>1, <1>t, Zenon DEF StartServer, TypeOK, Ends
  <2>4. TypeOK'
    BY <1>t, <2>1, <2>2, <2>3, Zenon DEF TypeOK, Ends
  <2>5. \A j \in Srv : connected'[j] => j # i
    BY <2>1, Zenon
  <2> QED BY <2>1, <2>2, <2>3, <2>4, <2>5, Zenon
<1>2. ASSUME NEW i \in Srv, ShutdownServer(i) \/ DisconnectAll(i) PROVE GInv'
  <2>1. /\ job = "none" /\ disconnect(i, Srv) /\ UNCHANGED <<job, todo, p1, p2, leader>>
        /\ cut' \in {"none", "mixed"} /\ (cut' = "none" <=> cut = "none")
    BY <1>2, <1>t, Zenon DEF ShutdownServer, DisconnectAll, Disturb, TypeOK
  <2>2. up' \in [Srv -> BOOLEAN] /\ \A j \in Srv : j # i => up'[j] = up[j]
    <3>1. CASE ShutdownServer(i)
      BY <3>1, <1>t DEF ShutdownServer, TypeOK
    <3>2. CASE DisconnectAll(i)
      BY <3>2, <1>t, Zenon DEF DisconnectAll, TypeOK
    <3> QED BY <1>2, <3>1, <3>2, Zenon
  <2>3. /\ connected' \in [Srv -> BOOLEAN] /\ enabled' \in Ends
        /\ ~ connected'[i] /\ \A j \in Srv : j # i => (connected'[j] <=> connected[j])
        /\ \A a, b \in Srv : enabled'[a][b] <=> a # i /\ b # i /\ enabled[a][b]
    BY <1>t, <2>1, DisconnectAllEffect, Zenon
  <2>4. TypeOK'
    BY <1>t, <2>1, <2>2, <2>3, Zenon DEF TypeOK, Ends
  <2> QED BY <2>1, <2>2, <2>3, <2>4
<1>3. ASSUME NEW i \in Srv, ConnectOne(i) PROVE GInv'
  <2>1. /\ job = "none" /\ connect(i, Srv) /\ UNCHANGED <<up, job, todo, p1, p2, leader>>
        /\ up[i] /\ cut' \in {"none", "mixed"} /\ (cut' = "none" <=> cut = "none")
    BY <1>3, <1>t, Zenon DEF ConnectOne, Disturb, TypeOK
  <2>3. /\ connected' \in [Srv -> BOOLEAN] /\ enabled' \in Ends
        /\ connected'[i] /\ \A j \in Srv : j # i => (connected'[j] <=> connected[j])
        /\ \A a, b \in Srv : enabled'[a][b] <=>
             \/ a = i /\ connected'[b]
             \/ b = i /\ connected'[a]
             \/ enabled[a][b]
    BY <1>t, <2>1, ConnectAllEffect, Zenon
  <2>4. TypeOK'
    BY <1>t, <2>1, <2>3, Zenon DEF TypeOK, Ends
  <2> QED BY <2>1, <2>3, <2>4, Zenon
<1>4. ASSUME NEW i \in Srv, ConnectNext(i) PROVE GInv'
  <2>1. /\ job = "connect" /\ connect(i, Srv) /\ i \in todo /\ todo' = todo \ {i}
        /\ UNCHANGED <<up, job, p1, p2, leader, cut>>
    BY <1>4, Zenon DEF ConnectNext
  <2>3. /\ connected' \in [Srv -> BOOLEAN] /\ enabled' \in Ends
        /\ connected'[i] /\ \A j \in Srv : j # i => (connected'[j] <=> connected[j])
        /\ \A a, b \in Srv : enabled'[a][b] <=>
             \/ a = i /\ connected'[b]
             \/ b = i /\ connected'[a]
             \/ enabled[a][b]
    BY <1>t, <2>1, ConnectAllEffect, Zenon
  <2>4. TypeOK'
    BY <1>t, <2>1, <2>3, Zenon DEF TypeOK, Ends
  <2>5. \A j \in Srv : j \notin todo' => connected'[j]
    BY <2>1, <2>3, Zenon
  <2> QED BY <2>1, <2>3, <2>4, <2>5, Zenon
<1>5. ASSUME NEW i \in Srv, PartitionNext(i) PROVE GInv'
  <2> DEFINE same == IF i \in p1 THEN p1 ELSE p2
             other == IF i \in p1 THEN p2 ELSE p1
  <2>1. /\ job = "partition" /\ Reconnect(i, other, same) /\ i \in todo /\ todo' = todo \ {i}
        /\ UNCHANGED <<up, job, p1, p2, leader, cut>>
    BY <1>5, Zenon DEF PartitionNext
  <2>2. \A j \in Srv : (j \in same <=> (i \in p1 <=> j \in p1))
                       /\ (j \in other <=> ~ (i \in p1 <=> j \in p1))
    BY <2>1, Zenon
  <2> HIDE DEF same, other
  <2>3. /\ connected' \in [Srv -> BOOLEAN] /\ enabled' \in Ends
        /\ connected'[i] /\ \A j \in Srv : j # i => (connected'[j] <=> connected[j])
        /\ \A a, b \in Srv : enabled'[a][b] <=>
             \/ a = i /\ b \in same /\ connected'[b]
             \/ b = i /\ a \in same /\ connected'[a]
             \/ ~ (a = i /\ b \in other) /\ ~ (b = i /\ a \in other) /\ enabled[a][b]
    BY <1>t, <2>1, ReconnectEffect, Zenon
  <2>4. TypeOK'
    BY <1>t, <2>1, <2>3, Zenon DEF TypeOK, Ends
  <2>5. \A j \in Srv : j \notin todo' => connected'[j]
    BY <2>1, <2>3, Zenon
  <2>6. PartitionInv'
    BY <2>1, <2>2, <2>3, <2>5
  <2>7. OffNet'
    BY <2>1, <2>2, <2>3, Zenon
  <2> QED BY <2>1, <2>3, <2>4, <2>5, <2>6, <2>7, Zenon
<1>6. CASE ConnectAll
  <2>1. TypeOK'
    BY <1>6, <1>t, Zenon DEF ConnectAll, TypeOK
  <2> QED BY <1>6, <2>1, Zenon DEF ConnectAll
<1>7. ASSUME NEW a \in SUBSET Srv, NEW l \in 0..N, Partition(a, Srv \ a, l) PROVE GInv'
  <2>1. TypeOK'
    BY <1>7, <1>t, Zenon DEF Partition, TypeOK
  <2> QED BY <1>7, <2>1, Zenon DEF Partition
<1>8. CASE LoopDone
  <2>1. TypeOK'
    BY <1>8, <1>t, Zenon DEF LoopDone, TypeOK
  <2> QED BY <1>8, <2>1, Zenon DEF LoopDone, TypeOK
<1>9. CASE UNCHANGED vars
  BY <1>9, Zenon DEF vars, TypeOK
<1>10. ASSUME NEW l \in Srv, Partition(Majority(l), Minority(l), l) PROVE GInv'
  <2>1. Majority(l) \in SUBSET Srv /\ Minority(l) = Srv \ Majority(l) /\ l \in 0..N
    BY HalvesSplit, NAssumption DEF Srv
  <2>2. Partition(Majority(l), Srv \ Majority(l), l)
    BY <2>1, <1>10, Zenon
  <2> HIDE DEF GInv
  <2> QED BY <2>1, <2>2, <1>7, Zenon
<1>11. CASE Partitioner
  <2>1. N \in 0..N
    BY NAssumption
  <2> QED BY <2>1, <1>7, <1>11, Zenon DEF Partitioner
<1> QED BY <1>1, <1>2, <1>3, <1>4, <1>5, <1>6, <1>8, <1>9, <1>10, <1>11, Zenon DEF Next

-----------------------------------------------------------------------------
\* A server that is off the net stays unreachable and mute while others are
\* started, shut down, connected and partitioned (OffNet).
THEOREM OffNetTheorem == Spec => []OffNet
<1>1. GInv => OffNet
  BY Zenon DEF GInv
<1> QED BY <1>1, GInit, GInductive, PTL DEF Spec

\* Without a partition since the last ConnectAll, all servers on the net reach
\* each other, whatever was restarted (OnNet).
THEOREM OnNetTheorem == Spec => []OnNet
<1>1. GInv => OnNet
  BY Zenon DEF GInv
<1> QED BY <1>1, GInit, GInductive, PTL DEF Spec

\* Partition leaves exactly the two sides that it was given, from any earlier
\* state of the ends (PartitionExact).
THEOREM PartitionExactTheorem == Spec => []PartitionExact
<1>1. GInv => PartitionExact
  BY Zenon DEF GInv
<1> QED BY <1>1, GInit, GInductive, PTL DEF Spec

-----------------------------------------------------------------------------
\* MakePartition's first list is a majority without the leader: its servers are
\* numbered by 0..N \div 2.
LEMMA MajoritySize ==
  ASSUME NEW l \in Srv
  PROVE  2 * Cardinality(Majority(l)) > N /\ l \notin Majority(l)
<1> DEFINE h == N \div 2
           I == 0..h
           other == [k \in I |-> Other(l, k)]
<1>1. h \in Nat /\ N = 2 * h + 1
  BY NAssumption
<1>2. IsFiniteSet(I) /\ Cardinality(I) = h + 1
  BY <1>1, FS_Interval
<1>3. other \in Bijection(I, Majority(l))
  <2>1. \A k \in I : other[k] = Other(l, k)
    BY Zenon
  <2>2. Majority(l) = {Other(l, k) : k \in I}
    BY Zenon DEF Majority
  <2>3. \A j, k \in I : Other(l, j) = Other(l, k) => j = k
    BY <1>1 DEF Other, Srv
  <2> HIDE DEF I
  <2>4. other \in [I -> Majority(l)]
    BY <2>2, Zenon
  <2>5. \A j, k \in I : other[j] = other[k] => j = k
    BY <2>1, <2>3, Zenon
  <2>6. \A m \in Majority(l) : \E k \in I : other[k] = m
    BY <2>1, <2>2, Zenon
  <2> HIDE DEF other
  <2>7. other \in Injection(I, Majority(l))
    BY <2>4, <2>5, Zenon DEF Injection, IsInjective
  <2>8. other \in Surjection(I, Majority(l))
    BY <2>4, <2>6, Zenon DEF Surjection
  <2> QED BY <2>7, <2>8, Zenon DEF Bijection
<1>4. Cardinality(Majority(l)) = h + 1
  <2> HIDE DEF other, I, h
  <2>1. ExistsBijection(I, Majority(l))
    BY <1>3, Zenon DEF ExistsBijection
  <2> QED BY <1>2, <2>1, FS_Bijection, Zenon
<1>5. l \notin Majority(l)
  BY <1>1 DEF Majority, Other, Srv
<1> QED BY <1>1, <1>4, <1>5

\* The arguments of the last Partition, when MakePartition chose them.
LeaderInv == leader # N => leader \in Srv /\ p1 = Majority(leader)

\* Only Partition changes its arguments.
LEMMA LeaderInductive == LeaderInv /\ [Next]_vars => LeaderInv'
<1> SUFFICES ASSUME LeaderInv, [Next]_vars PROVE LeaderInv'
  OBVIOUS
<1> USE DEF LeaderInv
<1>1. ASSUME NEW i \in Srv,
             \/ StartServer(i) \/ ShutdownServer(i) \/ ConnectOne(i)
             \/ DisconnectAll(i) \/ ConnectNext(i) \/ PartitionNext(i)
      PROVE  LeaderInv'
  BY <1>1, Zenon DEF StartServer, ShutdownServer, ConnectOne, DisconnectAll,
     ConnectNext, PartitionNext, Majority, Other
<1>2. CASE ConnectAll \/ LoopDone \/ UNCHANGED vars
  BY <1>2, Zenon DEF ConnectAll, LoopDone, vars, Majority, Other
<1>3. CASE Partitioner
  BY <1>3, Zenon DEF Partitioner, Partition
<1>4. ASSUME NEW l \in Srv, Partition(Majority(l), Minority(l), l) PROVE LeaderInv'
  BY <1>4, Zenon DEF Partition, Majority, Other
<1> QED BY <1>1, <1>2, <1>3, <1>4, Zenon DEF Next

\* MakePartition leaves the leader with less than half of the group, and a
\* majority that it cannot reach together (LeaderInMinority).
THEOREM LeaderInMinorityTheorem == Spec => []LeaderInMinority
<1>1. Init => LeaderInv
  BY Zenon DEF Init, LeaderInv
<1>2. PartitionExact /\ LeaderInv => LeaderInMinority
  <2> SUFFICES ASSUME PartitionExact, LeaderInv,
                      job = "none", cut = "exact", leader # N
               PROVE  LET away == {i \in Srv : ~ enabled[leader][i]} IN
                      /\ 2 * Cardinality(away) > N
                      /\ \A i, j \in away : enabled[i][j]
    BY Zenon DEF LeaderInMinority
  <2> DEFINE away == {i \in Srv : ~ enabled[leader][i]}
  <2>1. /\ leader \in Srv /\ p1 = Majority(leader)
        /\ 2 * Cardinality(Majority(leader)) > N /\ leader \notin p1
    BY MajoritySize, Zenon DEF LeaderInv
  <2>2. \A i, j \in Srv : enabled[i][j] <=> (i \in p1 <=> j \in p1)
    BY Zenon DEF PartitionExact
  <2>3. p1 \subseteq Srv
    BY <2>1, HalvesSplit, Zenon
  <2>4. away = p1
    BY <2>1, <2>2, <2>3, Zenon
  <2>5. \A i, j \in away : enabled[i][j]
    BY <2>2, <2>3, <2>4, Zenon
  <2> QED BY <2>1, <2>4, <2>5, Zenon
<1> QED BY <1>1, <1>2, LeaderInductive, PartitionExactTheorem, PTL DEF Spec

=============================================================================
