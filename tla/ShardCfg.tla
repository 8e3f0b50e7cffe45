------------------------------ MODULE ShardCfg ------------------------------
(***************************************************************************)
(* The assignment of shards to groups (shardkv1/shardcfg): a configuration  *)
(* that groups join and leave, with Rebalance as the loop it is in the      *)
(* code, one assignment of a shard per step.  Groups is the set of group    *)
(* identifiers; the servers of a group play no part in the assignment.      *)
(***************************************************************************)
EXTENDS Naturals, FiniteSets

CONSTANTS
  NShards,    \* number of shards: 12 in the code
  Gid,        \* identifiers of groups; 0 stands for no group
  MaxNum      \* bound on the configuration number

ASSUME NShardsAssumption == NShards \in Nat \ {0}
ASSUME GidAssumption == Gid \subseteq Nat \ {0} /\ IsFiniteSet(Gid)
ASSUME MaxNumAssumption == MaxNum \in Nat

Shard == 0..NShards-1

VARIABLES
  Num, Shards, Groups,   \* the ShardConfig
  pc,       \* "idle", or the loop of Rebalance that runs
  next,     \* the shard the first loop looks at
  before,   \* the assignment when the running or last operation began
  joined    \* the groups that operation added

vars == <<Num, Shards, Groups, pc, next, before, joined>>

TypeOK ==
  /\ Num \in 0..MaxNum
  /\ Shards \in [Shard -> Gid \cup {0}]
  /\ Groups \subseteq Gid
  /\ pc \in {"idle", "assign", "move"}
  /\ next \in 0..NShards
  /\ before \in [Shard -> Gid \cup {0}]
  /\ joined \subseteq Gid

-----------------------------------------------------------------------------
count(g) == Cardinality({s \in Shard : Shards[s] = g})

\* analyze: the most and the least loaded group, and among equals the one with
\* the smallest identifier.
IsMost(g) ==
  \A h \in Groups : count(g) > count(h) \/ (count(g) = count(h) /\ g <= h)

IsLeast(g) ==
  \A h \in Groups : count(g) < count(h) \/ (count(g) = count(h) /\ g <= h)

MakeShardConfig ==
  /\ Num = 0
  /\ Shards = [s \in Shard |-> 0]
  /\ Groups = {}
  /\ pc = "idle" /\ next = 0
  /\ before = Shards /\ joined = {}

\* Mutant: both Join and Rebalance count the configuration.
JoinBalance_Twice(gids) ==
  /\ pc = "idle" /\ Num < MaxNum
  /\ gids # {} /\ gids \cap Groups = {}
  /\ Groups' = Groups \cup gids
  /\ Num' = Num + 2
  /\ pc' = "assign" /\ next' = 0
  /\ before' = Shards /\ joined' = gids
  /\ UNCHANGED Shards

\* Join and Leave up to the call of Rebalance.  They return false for a group
\* that is already there, or not there; their callers then end the test
\* (shardkv1/test.go:135-137 and 159-161).
JoinBalance(gids) ==
  /\ pc = "idle" /\ Num < MaxNum
  /\ gids # {} /\ gids \cap Groups = {}
  /\ Groups' = Groups \cup gids
  /\ Num' = Num + 1
  /\ pc' = "assign" /\ next' = 0
  /\ before' = Shards /\ joined' = gids
  /\ UNCHANGED Shards

LeaveBalance(gids) ==
  /\ pc = "idle" /\ Num < MaxNum
  /\ gids # {} /\ gids \subseteq Groups
  /\ Groups' = Groups \ gids
  /\ Num' = Num + 1
  /\ pc' = "assign" /\ next' = 0
  /\ before' = Shards /\ joined' = {}
  /\ UNCHANGED Shards

\* Rebalance: without groups, un-assign all shards.
Unassign ==
  /\ pc = "assign" /\ Groups = {}
  /\ Shards' = [s \in Shard |-> 0]
  /\ pc' = "idle"
  /\ UNCHANGED <<Num, Groups, next, before, joined>>

\* Mutant: the most loaded group gets the shard.
Assign_Most ==
  /\ pc = "assign" /\ Groups # {} /\ next < NShards
  /\ next' = next + 1
  /\ \/ Shards[next] \in Groups /\ UNCHANGED Shards
     \/ /\ Shards[next] \notin Groups
        /\ \E lg \in Groups : IsMost(lg) /\ Shards' = [Shards EXCEPT ![next] = lg]
  /\ UNCHANGED <<Num, Groups, pc, before, joined>>

\* The first loop: a shard without a group goes to the least loaded one.
Assign ==
  /\ pc = "assign" /\ Groups # {} /\ next < NShards
  /\ next' = next + 1
  /\ \/ Shards[next] \in Groups /\ UNCHANGED Shards
     \/ /\ Shards[next] \notin Groups
        /\ \E lg \in Groups : IsLeast(lg) /\ Shards' = [Shards EXCEPT ![next] = lg]
  /\ UNCHANGED <<Num, Groups, pc, before, joined>>

\* Mutant: the loop stops one shard early.
AssignDone_Early ==
  /\ pc = "assign" /\ Groups # {} /\ next = NShards - 1
  /\ pc' = "move"
  /\ UNCHANGED <<Num, Shards, Groups, next, before, joined>>

AssignDone ==
  /\ pc = "assign" /\ Groups # {} /\ next = NShards
  /\ pc' = "move"
  /\ UNCHANGED <<Num, Shards, Groups, next, before, joined>>

\* Mutant: a difference of one is evened out.
Move_Forever ==
  /\ pc = "move"
  /\ \E mg, lg \in Groups :
       /\ IsMost(mg) /\ IsLeast(lg)
       /\ count(mg) >= count(lg) + 1
       /\ \E s \in Shard :
            /\ Shards[s] = mg /\ \A r \in Shard : Shards[r] = mg => s <= r
            /\ Shards' = [Shards EXCEPT ![s] = lg]
  /\ UNCHANGED <<Num, Groups, pc, next, before, joined>>

\* The second loop: the first shard of the most loaded group goes to the least
\* loaded one, until they differ by less than two.
Move ==
  /\ pc = "move"
  /\ \E mg, lg \in Groups :
       /\ IsMost(mg) /\ IsLeast(lg)
       /\ count(mg) >= count(lg) + 2
       /\ \E s \in Shard :
            /\ Shards[s] = mg /\ \A r \in Shard : Shards[r] = mg => s <= r
            /\ Shards' = [Shards EXCEPT ![s] = lg]
  /\ UNCHANGED <<Num, Groups, pc, next, before, joined>>

\* Mutant: a difference of two is accepted.
MoveDone_Early ==
  /\ pc = "move"
  /\ \E mg, lg \in Groups :
       IsMost(mg) /\ IsLeast(lg) /\ count(mg) < count(lg) + 3
  /\ pc' = "idle"
  /\ UNCHANGED <<Num, Shards, Groups, next, before, joined>>

MoveDone ==
  /\ pc = "move"
  /\ \E mg, lg \in Groups :
       IsMost(mg) /\ IsLeast(lg) /\ count(mg) < count(lg) + 2
  /\ pc' = "idle"
  /\ UNCHANGED <<Num, Shards, Groups, next, before, joined>>

Rebalance == Unassign \/ Assign \/ AssignDone \/ Move \/ MoveDone

Next ==
  \/ \E gids \in SUBSET Gid : JoinBalance(gids) \/ LeaveBalance(gids)
  \/ Rebalance

Spec == MakeShardConfig /\ [][Next]_vars
FairSpec == Spec /\ WF_vars(Rebalance)

-----------------------------------------------------------------------------
(* Properties.                                                             *)

\* What the first loop has established so far: AllAssigned made inductive.
AssignInv ==
  /\ pc = "assign" => \A s \in Shard : s < next => Shards[s] \in Groups \/ Groups = {}
  /\ pc = "move" => Groups # {} /\ \A s \in Shard : Shards[s] \in Groups

\* CheckConfig, "any un-allocated shards?": between operations every shard
\* belongs to a group of the configuration, or to none if there is no group.
AllAssigned ==
  pc = "idle" =>
    \A s \in Shard : IF Groups = {} THEN Shards[s] = 0 ELSE Shards[s] \in Groups

\* CheckConfig, "more or less balanced sharding?": whatever groups came and
\* went, no group has two shards more than another.
Balanced ==
  pc = "idle" => \A g, h \in Groups : count(g) <= count(h) + 1

\* IsMember looks for a group among the shards' owners, and joinGroups and
\* leaveGroups (shardkv1/test.go:146,168) take that for membership.  It is
\* right as long as there are no more groups than shards.
IsMember(g) == \E s \in Shard : Shards[s] = g
MembersOwnShards ==
  (pc = "idle" /\ Cardinality(Groups) <= NShards) =>
    \A g \in Gid : IsMember(g) <=> g \in Groups

\* Rebalance moves no shard without need: a shard whose group stays is moved,
\* if at all, to a group that just joined.
OnlyNeededMoves ==
  \A s \in Shard :
    before[s] \in Groups /\ Shards[s] # before[s] => Shards[s] \in joined

\* The loop ends: Rebalance cannot hand the same shards back and forth.
RebalanceEnds == pc # "idle" ~> pc = "idle"

=============================================================================
