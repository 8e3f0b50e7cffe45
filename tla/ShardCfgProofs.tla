--------------------------- MODULE ShardCfgProofs ---------------------------
(* What Rebalance promises, for any number of shards and any groups.        *)
EXTENDS ShardCfg, FiniteSetTheorems, TLAPS

USE NShardsAssumption, GidAssumption, MaxNumAssumption DEF Shard

\* The counts of analyze are natural numbers: the shards are finite.
LEMMA CountType == \A g : count(g) \in Nat
<1> SUFFICES ASSUME NEW g PROVE Cardinality({s \in Shard : Shards[s] = g}) \in Nat
  BY Zenon DEF count
<1>1. IsFiniteSet(Shard)
  BY FS_Interval
<1>2. IsFiniteSet({s \in Shard : Shards[s] = g})
  BY <1>1, FS_Subset, Zenon
<1> QED BY <1>2, FS_CardinalityType, Zenon

\* Each step of Join, Leave and Rebalance keeps the types.
LEMMA TypeInductive == TypeOK /\ [Next]_vars => TypeOK'
<1> SUFFICES ASSUME TypeOK, [Next]_vars PROVE TypeOK'
  OBVIOUS
<1> USE DEF TypeOK
<1>1. ASSUME NEW gids \in SUBSET Gid, JoinBalance(gids) PROVE TypeOK'
  BY <1>1 DEF JoinBalance
<1>2. ASSUME NEW gids \in SUBSET Gid, LeaveBalance(gids) PROVE TypeOK'
  BY <1>2 DEF LeaveBalance
<1>3. CASE Unassign
  BY <1>3, Zenon DEF Unassign
<1>4. CASE Assign
  BY <1>4 DEF Assign
<1>5. CASE AssignDone \/ MoveDone
  BY <1>5, Zenon DEF AssignDone, MoveDone
<1>6. CASE Move
  BY <1>6, Zenon DEF Move
<1>7. CASE UNCHANGED vars
  BY <1>7, Zenon DEF vars
<1> QED BY <1>1, <1>2, <1>3, <1>4, <1>5, <1>6, <1>7, Zenon DEF Next, Rebalance

-----------------------------------------------------------------------------
\* The strengthening of AllAssigned: the first loop has given a group to every
\* shard before next, and the second only moves shards between groups.
AssignedInv == AssignInv /\ AllAssigned

\* Each step preserves what the first loop has established.
LEMMA AssignedInductive ==
  TypeOK /\ AssignedInv /\ [Next]_vars => AssignedInv'
<1> SUFFICES ASSUME TypeOK, AssignedInv, [Next]_vars PROVE AssignedInv'
  OBVIOUS
<1> USE DEF TypeOK, AssignedInv, AssignInv, AllAssigned
<1>1. ASSUME NEW gids \in SUBSET Gid, JoinBalance(gids) \/ LeaveBalance(gids)
      PROVE  AssignedInv'
  BY <1>1 DEF JoinBalance, LeaveBalance
<1>2. CASE Unassign
  BY <1>2, Zenon DEF Unassign
<1>3. CASE Assign
  <2>1. /\ pc = "assign" /\ pc' = "assign" /\ Groups # {} /\ Groups' = Groups
        /\ next \in Shard /\ next' = next + 1
        /\ Shards'[next] \in Groups
        /\ \A s \in Shard : s # next => Shards'[s] = Shards[s]
    BY <1>3 DEF Assign
  <2>2. ASSUME NEW s \in Shard, s < next' PROVE Shards'[s] \in Groups'
    <3>1. CASE s = next
      BY <2>1, <3>1, Zenon
    <3>2. CASE s # next
      <4>1. s < next
        BY <2>1, <2>2, <3>2
      <4> QED BY <2>1, <3>2, <4>1, Zenon
    <3> QED BY <3>1, <3>2, Zenon
  <2> QED BY <2>1, <2>2, Zenon
<1>4. CASE AssignDone
  <2>1. \A s \in Shard : s < next
    BY <1>4 DEF AssignDone
  <2> QED BY <1>4, <2>1, Zenon DEF AssignDone
<1>5. CASE Move
  BY <1>5, Zenon DEF Move
<1>6. CASE MoveDone
  BY <1>6, Zenon DEF MoveDone
<1>7. CASE UNCHANGED vars
  BY <1>7, Zenon DEF vars
<1> QED BY <1>1, <1>2, <1>3, <1>4, <1>5, <1>6, <1>7, Zenon DEF Next, Rebalance

\* The variables of a configuration keep their types.
THEOREM TypeCorrect == Spec => []TypeOK
<1>1. MakeShardConfig => TypeOK
  BY DEF MakeShardConfig, TypeOK
<1> QED BY <1>1, TypeInductive, PTL DEF Spec

\* Between operations no shard is without a group, whatever groups joined and
\* left (CheckConfig, "any un-allocated shards?").
THEOREM AllAssignedTheorem == Spec => []AllAssigned
<1>1. MakeShardConfig => AssignedInv
  BY Zenon DEF MakeShardConfig, AssignedInv, AssignInv, AllAssigned
<1>2. AssignedInv => AllAssigned
  BY Zenon DEF AssignedInv
<1> QED BY <1>1, <1>2, TypeCorrect, AssignedInductive, PTL DEF Spec

-----------------------------------------------------------------------------
\* The test that ends the second loop is enough for balance: it compares one
\* most loaded group with one least loaded one.
LEMMA MoveDoneBalances == MoveDone => Balanced'
<1> SUFFICES ASSUME MoveDone, NEW g \in Groups, NEW h \in Groups
             PROVE  count(g) <= count(h) + 1
  BY Zenon DEF MoveDone, Balanced, count
<1>1. PICK mg \in Groups, lg \in Groups :
        IsMost(mg) /\ IsLeast(lg) /\ count(mg) < count(lg) + 2
  BY Zenon DEF MoveDone
<1>2. count(g) <= count(mg) /\ count(lg) <= count(h)
  BY <1>1, CountType DEF IsMost, IsLeast
<1> QED BY <1>1, <1>2, CountType

\* Between operations no group has two shards more than another (CheckConfig,
\* "more or less balanced sharding?").
THEOREM BalancedTheorem == Spec => []Balanced
<1>1. MakeShardConfig => Balanced
  BY Zenon DEF MakeShardConfig, Balanced
<1>2. Balanced /\ [Next]_vars => Balanced'
  <2> SUFFICES ASSUME Balanced, [Next]_vars PROVE Balanced'
    OBVIOUS
  <2>1. CASE MoveDone
    BY <2>1, MoveDoneBalances, Zenon
  <2>2. CASE Unassign
    BY <2>2, Zenon DEF Unassign, Balanced
  <2>3. ASSUME NEW gids \in SUBSET Gid, JoinBalance(gids) \/ LeaveBalance(gids)
        PROVE  Balanced'
    BY <2>3, Zenon DEF JoinBalance, LeaveBalance, Balanced
  <2>4. CASE Assign \/ AssignDone \/ Move
    BY <2>4, Zenon DEF Assign, AssignDone, Move, Balanced
  <2>5. CASE UNCHANGED vars
    BY <2>5 DEF vars, Balanced, count
  <2> QED BY <2>1, <2>2, <2>3, <2>4, <2>5, Zenon DEF Next, Rebalance
<1> QED BY <1>1, <1>2, PTL DEF Spec
-----------------------------------------------------------------------------
\* How many shards an assignment gives to a group: what analyze counts, of any
\* assignment.
Owned(f, g) == Cardinality({s \in Shard : f[s] = g})

\* Assignment e differs from f in one shard: s, which goes to group lg.
Moves(f, e, s, lg) ==
  /\ s \in Shard /\ f[s] # lg /\ e[s] = lg
  /\ \A r \in Shard : r # s => e[r] = f[r]

\* What moving one shard does to the number of shards of each group.
LEMMA OwnedMoves ==
  ASSUME NEW f, NEW e, NEW s, NEW lg, Moves(f, e, s, lg)
  PROVE  /\ Owned(e, lg) = Owned(f, lg) + 1
         /\ Owned(e, f[s]) = Owned(f, f[s]) - 1
         /\ \A g : g # lg /\ g # f[s] => Owned(e, g) = Owned(f, g)
<1> DEFINE Own(g) == {r \in Shard : f[r] = g}
           New(g) == {r \in Shard : e[r] = g}
<1> HIDE DEF Shard
<1>1. \A r \in Shard : e[r] = IF r = s THEN lg ELSE f[r]
  BY Zenon DEF Moves
<1>2. \A g : IsFiniteSet(Own(g))
  <2>1. IsFiniteSet(Shard)
    BY FS_Interval DEF Shard
  <2> QED BY <2>1, FS_Subset, Zenon
<1>3. New(lg) = Own(lg) \cup {s} /\ s \notin Own(lg)
  BY <1>1, Zenon DEF Moves
<1>4. New(f[s]) = Own(f[s]) \ {s} /\ s \in Own(f[s])
  <2>1. \A r \in Shard : e[r] = f[s] <=> f[r] = f[s] /\ r # s
    BY <1>1, Zenon DEF Moves
  <2> QED BY <2>1, Zenon DEF Moves
<1>5. ASSUME NEW g, g # lg, g # f[s] PROVE New(g) = Own(g)
  BY <1>1, <1>5, Zenon
<1>6. Cardinality(New(lg)) = Cardinality(Own(lg)) + 1
  <2> HIDE DEF Own, New
  <2>1. Cardinality(Own(lg) \cup {s}) = Cardinality(Own(lg)) + 1
    BY <1>2, <1>3, FS_AddElement, Zenon
  <2> QED BY <1>3, <2>1, Zenon
<1>7. Cardinality(New(f[s])) = Cardinality(Own(f[s])) - 1
  <2> HIDE DEF Own, New
  <2>1. Cardinality(Own(f[s]) \ {s}) = Cardinality(Own(f[s])) - 1
    BY <1>2, <1>4, FS_RemoveElement, Zenon
  <2> QED BY <1>4, <2>1, Zenon
<1>8. \A g : Owned(f, g) = Cardinality(Own(g)) /\ Owned(e, g) = Cardinality(New(g))
  BY Zenon DEF Owned
<1> HIDE DEF Own, New
<1> QED BY <1>5, <1>6, <1>7, <1>8, Zenon

\* The same of a step that moves one shard.
LEMMA CountMoves ==
  ASSUME NEW s, NEW lg, Moves(Shards, Shards', s, lg)
  PROVE  /\ count(lg)' = count(lg) + 1
         /\ \A g : g = Shards[s] => count(g)' = count(g) - 1
         /\ \A g : g # lg /\ g # Shards[s] => count(g)' = count(g)
<1>1. \A g : count(g) = Owned(Shards, g) /\ count(g)' = Owned(Shards', g)
  BY Zenon DEF count, Owned
<1>2. /\ Owned(Shards', lg) = Owned(Shards, lg) + 1
      /\ Owned(Shards', Shards[s]) = Owned(Shards, Shards[s]) - 1
      /\ \A g : g # lg /\ g # Shards[s] => Owned(Shards', g) = Owned(Shards, g)
  BY OwnedMoves
<1> QED BY <1>1, <1>2, Zenon

\* The strengthening of OnlyNeededMoves: the first loop has not yet touched the
\* shards from next on, and while Rebalance runs only a group that just joined
\* can be two shards behind another.
MoveInv ==
  /\ pc = "assign" => \A s \in Shard : s >= next => Shards[s] = before[s]
  /\ pc # "idle" =>
       \A g \in Groups \ joined, h \in Groups : count(h) <= count(g) + 1

\* What Join and Leave start from: the groups that stay are balanced, those that
\* join own nothing.
LEMMA StartsBalanced ==
  ASSUME TypeOK, AllAssigned, Balanced, NEW gids \in SUBSET Gid,
         JoinBalance(gids) \/ LeaveBalance(gids)
  PROVE  MoveInv' /\ OnlyNeededMoves'
<1>1. \A g : count(g)' = count(g)
  BY Zenon DEF JoinBalance, LeaveBalance, count
<1>2. before' = Shards /\ Shards' = Shards
  BY Zenon DEF JoinBalance, LeaveBalance
<1>3. ASSUME NEW g \in Groups' \ joined', NEW h \in Groups'
      PROVE  count(h) <= count(g) + 1
  <2>1. g \in Groups
    BY <1>3, Zenon DEF JoinBalance, LeaveBalance
  <2>2. CASE h \in Groups
    BY <2>1, <2>2, Zenon DEF Balanced, JoinBalance, LeaveBalance
  <2>3. CASE h \notin Groups
    <3>1. pc = "idle" /\ h \in Gid
      BY <2>3, Zenon DEF JoinBalance, LeaveBalance, TypeOK
    <3>2. h # 0
      BY <3>1, GidAssumption
    <3>3. {s \in Shard : Shards[s] = h} = {}
      BY <2>3, <3>1, <3>2, Zenon DEF AllAssigned
    <3>4. count(h) = 0
      BY <3>3, FS_EmptySet, Zenon DEF count
    <3> QED BY <3>4, CountType
  <2> QED BY <2>2, <2>3, Zenon
<1>4. OnlyNeededMoves'
  BY <1>2, Zenon DEF OnlyNeededMoves
<1> QED BY <1>1, <1>2, <1>3, <1>4, Zenon DEF MoveInv

\* The first loop gives shards without a group away and keeps the others.
LEMMA AssignKeeps ==
  ASSUME TypeOK, MoveInv, OnlyNeededMoves, Assign
  PROVE  MoveInv' /\ OnlyNeededMoves'
<1>1. /\ pc = "assign" /\ pc' = pc /\ Groups' = Groups /\ joined' = joined
      /\ before' = before /\ next \in Shard /\ next' = next + 1
  BY NShardsAssumption DEF Assign, TypeOK, Shard
<1>2. \A s \in Shard : s >= next' => s >= next /\ s # next
  BY <1>1 DEF Shard
<1>3. CASE Shards[next] \in Groups /\ UNCHANGED Shards
  <2>1. \A g : count(g)' = count(g)
    BY <1>3, Zenon DEF count
  <2> QED BY <1>1, <1>2, <1>3, <2>1, Zenon DEF MoveInv, OnlyNeededMoves
<1>4. ASSUME Shards[next] \notin Groups, NEW lg \in Groups, IsLeast(lg),
             Shards' = [Shards EXCEPT ![next] = lg]
      PROVE  MoveInv' /\ OnlyNeededMoves'
  <2>1. \A s \in Shard : s # next => Shards'[s] = Shards[s]
    BY <1>4, Zenon DEF TypeOK
  <2>2. before[next] = Shards[next]
    BY <1>1 DEF MoveInv, Shard
  <2>3. OnlyNeededMoves'
    <3> SUFFICES ASSUME NEW s \in Shard, before[s] \in Groups, Shards'[s] # before[s]
                 PROVE  Shards'[s] \in joined
      BY <1>1, Zenon DEF OnlyNeededMoves
    <3>1. s # next
      BY <1>4, <2>2, Zenon
    <3> QED BY <2>1, <3>1, Zenon DEF OnlyNeededMoves
  <2>4. /\ count(lg)' = count(lg) + 1
        /\ \A g \in Groups : g # lg => count(g)' = count(g)
    <3>1. Shards[next] # lg
      BY <1>4, Zenon
    <3>2. /\ count(lg)' = count(lg) + 1
          /\ \A g : g # lg /\ g # Shards[next] => count(g)' = count(g)
      <4>1. Moves(Shards, Shards', next, lg)
        BY <1>1, <1>4, <3>1, Zenon DEF TypeOK, Moves
      <4> QED BY <4>1, CountMoves, Zenon
    <3> QED BY <1>4, <3>2, Zenon
  <2>5. ASSUME NEW g \in Groups \ joined, NEW h \in Groups
        PROVE  count(h)' <= count(g)' + 1
    <3>1. count(h) <= count(g) + 1 /\ count(lg) <= count(g)
      BY <1>1, <1>4, CountType DEF MoveInv, IsLeast
    <3> QED BY <1>4, <2>4, <3>1, CountType
  <2> QED BY <1>1, <1>2, <2>1, <2>3, <2>5, Zenon DEF MoveInv
<1> QED BY <1>3, <1>4, Zenon DEF Assign

\* The second loop moves shards only to groups that just joined.
LEMMA MoveKeeps ==
  ASSUME TypeOK, MoveInv, OnlyNeededMoves, Move
  PROVE  MoveInv' /\ OnlyNeededMoves'
<1>1. /\ pc = "move" /\ pc' = pc /\ Groups' = Groups /\ joined' = joined
      /\ before' = before
  BY Zenon DEF Move
<1>2. PICK mg \in Groups, lg \in Groups, s \in Shard :
        /\ IsMost(mg) /\ count(mg) >= count(lg) + 2
        /\ Shards[s] = mg /\ Shards' = [Shards EXCEPT ![s] = lg]
  BY Zenon DEF Move
<1>3. mg # lg
  BY <1>2, CountType
<1>4. lg \in joined
  <2> SUFFICES ASSUME lg \notin joined PROVE FALSE
    OBVIOUS
  <2>1. count(mg) <= count(lg) + 1
    BY <1>1, <1>2, Zenon DEF MoveInv
  <2> QED BY <1>2, <2>1, CountType
<1>5. /\ count(lg)' = count(lg) + 1 /\ count(mg)' = count(mg) - 1
      /\ \A g : g # lg /\ g # mg => count(g)' = count(g)
  <2>1. Moves(Shards, Shards', s, lg)
    BY <1>2, <1>3, Zenon DEF TypeOK, Moves
  <2>2. /\ count(lg)' = count(lg) + 1
        /\ \A g : g = Shards[s] => count(g)' = count(g) - 1
        /\ \A g : g # lg /\ g # Shards[s] => count(g)' = count(g)
    BY <2>1, CountMoves, Zenon
  <2> QED BY <1>2, <2>2, Zenon
<1>6. ASSUME NEW g \in Groups \ joined, NEW h \in Groups
      PROVE  count(h)' <= count(g)' + 1
  <2>1. /\ count(h) <= count(g) + 1 /\ count(mg) <= count(g) + 1
        /\ count(h) <= count(mg) /\ g # lg
    BY <1>1, <1>2, <1>4, CountType DEF MoveInv, IsMost
  <2> QED BY <1>2, <1>5, <2>1, CountType
<1>7. \A r \in Shard : Shards'[r] = IF r = s THEN lg ELSE Shards[r]
  BY <1>2, Zenon DEF TypeOK
<1>8. OnlyNeededMoves'
  BY <1>1, <1>4, <1>7, Zenon DEF OnlyNeededMoves
<1> QED BY <1>1, <1>6, <1>8, Zenon DEF MoveInv

\* Rebalance moves no shard without need: a shard whose group stays is moved, if
\* at all, to a group that just joined.
THEOREM OnlyNeededMovesTheorem == Spec => []OnlyNeededMoves
<1>1. MakeShardConfig => MoveInv /\ OnlyNeededMoves
  BY Zenon DEF MakeShardConfig, MoveInv, OnlyNeededMoves
<1>2. TypeOK /\ AllAssigned /\ Balanced /\ MoveInv /\ OnlyNeededMoves /\ [Next]_vars
        => MoveInv' /\ OnlyNeededMoves'
  <2> SUFFICES ASSUME TypeOK, AllAssigned, Balanced, MoveInv, OnlyNeededMoves,
                      [Next]_vars
               PROVE  MoveInv' /\ OnlyNeededMoves'
    OBVIOUS
  <2>1. ASSUME NEW gids \in SUBSET Gid, JoinBalance(gids) \/ LeaveBalance(gids)
        PROVE  MoveInv' /\ OnlyNeededMoves'
    BY <2>1, StartsBalanced, Zenon
  <2>2. CASE Unassign
    BY <2>2, Zenon DEF Unassign, MoveInv, OnlyNeededMoves
  <2>3. CASE Assign
    BY <2>3, AssignKeeps, Zenon
  <2>4. CASE AssignDone \/ MoveDone \/ UNCHANGED vars
    <3>1. \A g : count(g)' = count(g)
      BY <2>4, Zenon DEF AssignDone, MoveDone, vars, count
    <3> QED BY <2>4, <3>1, Zenon
            DEF AssignDone, MoveDone, vars, MoveInv, OnlyNeededMoves
  <2>5. CASE Move
    BY <2>5, MoveKeeps, Zenon
  <2> QED BY <2>1, <2>2, <2>3, <2>4, <2>5, Zenon DEF Next, Rebalance
<1> QED
  BY <1>1, <1>2, TypeCorrect, AllAssignedTheorem, BalancedTheorem, PTL DEF Spec

-----------------------------------------------------------------------------
\* With no more groups than shards a balanced assignment leaves no group without
\* a shard: were there one, no group would own two, and the shards would be
\* spread over fewer groups than there are shards.
LEMMA BalancedOwns ==
  ASSUME TypeOK, AllAssigned, Balanced, pc = "idle",
         Cardinality(Groups) <= NShards, NEW g \in Groups
  PROVE  IsMember(g)
<1> SUFFICES ASSUME ~IsMember(g) PROVE FALSE
  OBVIOUS
<1>1. {s \in Shard : Shards[s] = g} = {}
  BY Zenon DEF IsMember
<1>2. count(g) = 0
  BY <1>1, FS_EmptySet, Zenon DEF count
<1>3. IsFiniteSet(Groups) /\ Cardinality(Groups) \in Nat
  BY GidAssumption, FS_Subset, FS_CardinalityType, Zenon DEF TypeOK
<1>4. /\ IsFiniteSet(Groups \ {g})
      /\ Cardinality(Groups \ {g}) = Cardinality(Groups) - 1
  BY <1>3, FS_RemoveElement, Zenon
<1>5. IsFiniteSet(Shard) /\ Cardinality(Shard) = NShards
  BY NShardsAssumption, FS_Interval DEF Shard
<1>6. Cardinality(Groups \ {g}) < Cardinality(Shard)
  BY <1>3, <1>4, <1>5, NShardsAssumption
<1>7. Shards \in [Shard -> Groups \ {g}]
  <2>1. \A s \in Shard : Shards[s] \in Groups \ {g}
    BY Zenon DEF AllAssigned, IsMember
  <2> QED BY <2>1, Zenon DEF TypeOK
<1>8. PICK x \in Shard, y \in Shard : x # y /\ Shards[x] = Shards[y]
  BY <1>4, <1>5, <1>6, <1>7, FS_PigeonHole
<1> DEFINE h == Shards[x]
           Own == {s \in Shard : Shards[s] = h}
<1>9. h \in Groups
  BY <1>7, Zenon
<1>10. IsFiniteSet(Own) /\ {x, y} \subseteq Own
  BY <1>5, <1>8, FS_Subset, Zenon
<1>11. Cardinality({x, y}) = 2
  <2>1. IsFiniteSet({x}) /\ Cardinality({x}) = 1
    BY FS_Singleton, Zenon
  <2>2. {x, y} = {x} \cup {y} /\ y \notin {x}
    BY <1>8, Zenon
  <2>3. Cardinality({x, y}) = Cardinality({x}) + 1
    BY <2>1, <2>2, FS_AddElement, Zenon
  <2> QED BY <2>1, <2>3
<1>12. count(h) >= 2
  <2>1. Cardinality({x, y}) <= Cardinality(Own)
    BY <1>10, FS_Subset, Zenon
  <2>2. count(h) = Cardinality(Own)
    BY Zenon DEF count
  <2> QED BY <1>11, <2>1, <2>2, CountType
<1>13. count(h) <= count(g) + 1
  BY <1>9, Zenon DEF Balanced
<1> QED BY <1>2, <1>12, <1>13, CountType

\* IsMember answers for membership between operations, as long as there are no
\* more groups than shards.
THEOREM MembersOwnShardsTheorem == Spec => []MembersOwnShards
<1>1. TypeOK /\ AllAssigned /\ Balanced => MembersOwnShards
  <2> SUFFICES ASSUME TypeOK, AllAssigned, Balanced, pc = "idle",
                      Cardinality(Groups) <= NShards, NEW g \in Gid
               PROVE  IsMember(g) <=> g \in Groups
    BY Zenon DEF MembersOwnShards
  <2>1. ASSUME g \in Groups PROVE IsMember(g)
    BY <2>1, BalancedOwns, Zenon
  <2>2. ASSUME IsMember(g) PROVE g \in Groups
    <3>1. g # 0
      BY GidAssumption
    <3> QED BY <2>2, <3>1, Zenon DEF AllAssigned, IsMember
  <2> QED BY <2>1, <2>2, Zenon
<1> QED BY <1>1, TypeCorrect, AllAssignedTheorem, BalancedTheorem, PTL
=============================================================================
