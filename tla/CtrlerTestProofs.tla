-------------------------- MODULE CtrlerTestProofs --------------------------
(* The tests of competing controllers, for any number of goroutines and     *)
(* groups.                                                                  *)
EXTENDS CtrlerTest, TLAPS

\* A goroutine is between two visits of the top of its loop.
Working == {"recover", "make", "query", "post", "move", "check", "exit"}
\* partitionCtrler makes a group leave.
Leaving == {"query", "post", "move", "check", "exit"}
\* partitionCtrler has cut the old controller off, and not connected it again.
Busy == {"cut", "init", "recover", "verify", "query", "post", "move", "check", "exit", "heal"}

\* A configuration, whatever the bounds.
AnyConfig == [num : Nat, members : SUBSET Nat]

\* As much of TypeOK as the argument needs: the bounds play no part in it.
Shape ==
  /\ test \in {"partition", "concur"}
  /\ cfg \in AnyConfig /\ nxt \in AnyConfig /\ ngid \in Nat
  /\ pc \in [Ctrler -> Pc] /\ op \in [Ctrler -> {"join", "leave"}]
  /\ gid \in [Ctrler -> Nat] /\ want \in [Ctrler -> AnyConfig]

\* The configurations: a change leads to the next number.
Conf ==
  /\ cfg.num >= 1
  /\ nxt = None \/ nxt.num = cfg.num + 1
  /\ \A g \in cfg.members \cup nxt.members : g <= ngid

\* What a controller is about to post: a change of the current configuration, or
\* of one that is not current any more.
Want(p) ==
  /\ pc[p] \in {"post", "move"} => want[p].num >= 1
  /\ pc[p] = "post" =>
       /\ want[p].num <= cfg.num + 1
       /\ want[p].num = cfg.num + 1 =>
            want[p].members = IF op[p] = "join" THEN cfg.members \cup {gid[p]}
                              ELSE cfg.members \ {gid[p]}

\* Two goroutines never work on the same group.
Gids ==
  /\ \A w \in Worker : gid[w] <= ngid
  /\ \A v, w \in Worker : v # w /\ pc[v] \in Working /\ pc[w] \in Working => gid[v] # gid[w]

\* A group that joins is new, and nobody else makes it leave.
Join(p) ==
  /\ pc[p] \in {"recover", "make"} => op[p] = "join"
  /\ op[p] = "join" =>
       /\ pc[p] \in {"recover", "make", "query", "post"} =>
            gid[p] \notin cfg.members \cup nxt.members
       /\ pc[p] \in {"query", "post"} => gid[p] \in groups
       /\ pc[p] \in {"move", "check"} /\ p \in linked /\ gid[p] \in cfg.members =>
            nxt = None \/ gid[p] \in nxt.members

\* A group that leaves is there to begin with, and does not come back.
Leave(p) ==
  /\ op[p] = "leave" /\ pc[p] \in {"query", "post", "move", "check", "exit"} =>
       (gid[p] \in nxt.members => gid[p] \in cfg.members)
  /\ op[p] = "leave" /\ pc[p] = "query" =>
       gid[p] \in cfg.members /\ (nxt = None \/ gid[p] \in nxt.members)
  /\ pc[p] = "exit" => op[p] = "leave" /\ gid[p] \notin cfg.members

\* The group is there exactly when the test believes that it joined.
Right(c) == ngid \in c.members <=> state = "join"

\* A controller whose goroutine can do nothing until it is connected again.
Held(w) == pc[w] = "returned" \/ (pc[w] \in {"move", "check"} /\ w \notin linked)

\* partitionCtrler before it cuts the controller off.
Old ==
  /\ leader \in Worker /\ pc[leader] # "returned" /\ ~ missed
  /\ \A w \in Worker :
       /\ pc[w] \in Working \cup {"loop", "returned"}
       /\ pc[w] # "returned" => leader = w
       /\ pc[w] \in Working => gid[w] = ngid /\ state = op[w] /\ pc[w] # "recover"
       /\ pc[w] = "loop" => state = "leave" \/ cfg.num <= 1
       /\ pc[w] = "post" => want[w].num = cfg.num + 1
       /\ pc[w] = "move" => nxt = want[w] /\ Right(nxt)
       /\ pc[w] = "check" => cfg.num > 1 /\ Right(cfg)
  /\ nxt # None => pc[leader] = "move"

\* And from then on: the new controller finds the change that the old one was in
\* the middle of, under way or complete; or there was none, and the test fails
\* before it makes a group leave.
Outcome ==
  IF missed THEN nxt = None /\ (ngid \notin cfg.members \/ state = "leave" \/ cfg.num <= 1)
  ELSE /\ \A w \in Worker : Held(w)
       /\ IF nxt = None THEN cfg.num > 1 /\ Right(cfg) ELSE Right(nxt)

\* The test makes a group leave that the old controller had join.
Own ==
  /\ leader = Main /\ op[Main] = "leave"
  /\ \A w \in Worker : Held(w)
  /\ IF pc[Main] = "move" THEN nxt = want[Main] ELSE nxt = None

\* partitionCtrler: one old controller, then the new one.
Part ==
  /\ pc[Main] # "make"
  /\ \A v, w \in Worker : pc[v] # "returned" /\ pc[w] # "returned" => v = w
  /\ pc[Main] \in {"sleep", "down"} => Old
  /\ pc[Main] \in {"cut", "init", "recover", "verify"} => Outcome
  /\ pc[Main] \in Leaving => Own
  /\ pc[Main] = "recover" => leader = Main
  /\ pc[Main] \in {"verify", "heal"} => leader = Main /\ nxt = None
  /\ pc[Main] \in Busy => \A w \in Worker : pc[w] = "returned" \/ w \notin linked

\* The two tests.
Mode ==
  /\ test = "concur" => pc[Main] \in {"sleep", "get", "done"}
  /\ test = "partition" => Part

\* What both tests have in common.
Rest ==
  /\ Shape /\ Conf /\ Gids /\ GroupsAlive /\ CorrectCtrlerPasses
  /\ \A p \in Ctrler : Want(p) /\ Leave(p)
  /\ \A w \in Worker : Join(w)

\* The inductive invariant.
TInv == Rest /\ Mode

\* The test itself also runs a controller.
LEMMA Names == Main \in Ctrler /\ Main \notin Worker /\ Worker \subseteq Ctrler
               /\ Ctrler = Worker \cup {Main}
BY WorkerAssumption, Zenon DEF Ctrler

\* The invariant holds when a test begins.
LEMMA TInit == Init => TInv
<1> SUFFICES ASSUME Init PROVE TInv
  OBVIOUS
<1>1. Shape /\ Conf /\ CorrectCtrlerPasses /\ GroupsAlive
  BY Names DEF Init, Shape, Conf, AnyConfig, None, Pc, GroupsAlive, CorrectCtrlerPasses
<1>2. \A w \in Worker : pc[w] \in {"loop", "returned"} /\ gid[w] = 1
  BY Names, Zenon DEF Init
<1>3. pc[Main] = "sleep"
  BY Names, Zenon DEF Init
<1>4. Gids
  BY <1>2 DEF Gids, Working, Init
<1>5. \A p \in Ctrler : Want(p) /\ Leave(p)
  BY <1>2, <1>3, Names, Zenon DEF Want, Leave
<1>6. \A w \in Worker : Join(w)
  BY <1>2, Zenon DEF Join
<1>7. Mode
  <2>1. test = "partition" => \A w \in Worker : pc[w] # "returned" <=> leader = w
    BY Names, Zenon DEF Init
  <2>2. test = "partition" => Old
    BY <1>2, <2>1 DEF Old, Working, Init, None
  <2> QED BY <1>2, <1>3, <2>1, <2>2, Zenon DEF Mode, Part, Busy, Leaving
<1> QED BY <1>1, <1>4, <1>5, <1>6, <1>7, Zenon DEF TInv, Rest

\* Who works on the group of p is cut off, while p makes the group leave.  (The test
\* does nothing with a group while it recovers.)
Able(p) ==
  \A q \in Ctrler \ {p} : pc[q] \in Working /\ ~ (q = Main /\ pc[q] = "recover") =>
    gid[q] # gid[p] \/ (op[p] = "leave" /\ pc[q] \in {"move", "check"} /\ q \notin linked)

\* While the test runs its own controller, the others are cut off or done.
LEMMA MainBusy ==
  ASSUME TInv, pc[Main] \in Leaving
  PROVE  test = "partition" /\ Own
BY Zenon DEF TInv, Rest, Shape, Mode, Part, Leaving

\* While a goroutine can take a step, the test does not make a group leave.
LEMMA MainIdle ==
  ASSUME TInv, NEW w \in Worker, ~ Held(w)
  PROVE  pc[Main] \notin Leaving
BY MainBusy, Zenon DEF Own

\* A change of a configuration that is not current any more.
LEMMA WantOld ==
  ASSUME NEW q, Want(q), cfg.num \in Nat, want[q].num \in Nat, cfg'.num = cfg.num + 1,
         pc'[q] = pc[q], want'[q] = want[q]
  PROVE  Want(q)'
<1>1. pc[q] = "post" => want[q].num <= cfg.num + 1
  BY Zenon DEF Want
<1>2. pc[q] = "post" => want[q].num <= cfg'.num + 1 /\ want[q].num # cfg'.num + 1
  BY <1>1
<1>3. pc[q] \in {"post", "move"} => want[q].num >= 1
  BY Zenon DEF Want
<1> QED BY <1>2, <1>3, Zenon DEF Want

\* A worker with a step to take shares its group with nobody.
LEMMA AbleWorker ==
  ASSUME TInv, NEW w \in Worker, pc[w] \in Working, ~ Held(w)
  PROVE  Able(w)
<1>1. pc[Main] \in Working => pc[Main] = "recover"
  <2>1. pc[Main] # "make"
    BY Zenon DEF TInv, Rest, Shape, Mode, Part
  <2> QED BY <2>1, MainIdle, Zenon DEF Working, Leaving
<1> QED BY <1>1, Names, Zenon DEF Able, TInv, Rest, Gids

\* The test shares its group only with controllers that are cut off.
LEMMA AbleMain ==
  ASSUME TInv, pc[Main] \in Leaving
  PROVE  Able(Main)
<1>1. op[Main] = "leave" /\ \A w \in Worker : Held(w)
  BY MainBusy, Zenon DEF Own
<1> QED BY <1>1, Names, Zenon DEF Able, Working, Held

\* The top of the loop of a goroutine.
LEMMA LoopStep ==
  ASSUME TInv, NEW w \in Worker, Loop(w)
  PROVE  Rest'
<1> USE Names DEF TInv, Rest
<1>1. Shape'
  BY DEF Loop, Elect, Goto, ctl, Shape, Pc
<1>2. Conf' /\ GroupsAlive' /\ CorrectCtrlerPasses'
  BY DEF Loop, Elect, ctl, Shape, Conf, AnyConfig, GroupsAlive, CorrectCtrlerPasses
<1>3. Gids'
  BY DEF Loop, Elect, Goto, Shape, Gids
<1>4. \A q \in Ctrler : Want(q)'
  <2>1. ASSUME NEW q \in Ctrler, q # w PROVE Want(q)'
    BY <2>1, Zenon DEF Loop, Elect, Goto, ctl, Shape, Want
  <2>2. Want(w)'
    BY Zenon DEF Loop, Elect, Goto, Shape, Want
  <2> QED BY <2>1, <2>2, Zenon
<1>5. \A q \in Ctrler : Leave(q)'
  BY DEF Loop, Elect, Goto, ctl, Shape, Leave
<1>6. \A v \in Worker : Join(v)'
  <2>1. ASSUME NEW q \in Worker, q # w PROVE Join(q)'
    BY <2>1, Zenon DEF Loop, Elect, Goto, ctl, Shape, Join
  <2>2. Join(w)'
    BY DEF Loop, Elect, Goto, ctl, Shape, Join, Conf
  <2> QED BY <2>1, <2>2, Zenon
<1> QED BY <1>1, <1>2, <1>3, <1>4, <1>5, <1>6, Zenon

\* The stop signal of concurCtrler.
LEMMA StopStep ==
  ASSUME TInv, NEW w \in Worker, Stop(w)
  PROVE  Rest'
<1> USE Names DEF TInv, Rest
<1>1. Shape'
  BY Zenon DEF Stop, ctl, Shape, Pc
<1>2. Conf' /\ GroupsAlive' /\ CorrectCtrlerPasses'
  BY Zenon DEF Stop, ctl, Conf, GroupsAlive, CorrectCtrlerPasses
<1>3. Gids'
  BY DEF Stop, Shape, Gids, Working
<1>4. \A q \in Ctrler : Want(q)' /\ Leave(q)'
  <2>1. \A q \in Ctrler : Want(q)'
    BY Zenon DEF Stop, ctl, Shape, Want
  <2>2. \A q \in Ctrler : Leave(q)'
    BY DEF Stop, ctl, Shape, Leave
  <2> QED BY <2>1, <2>2, Zenon
<1>5. \A v \in Worker : Join(v)'
  BY Zenon DEF Stop, ctl, Shape, Join
<1> QED BY <1>1, <1>2, <1>3, <1>4, <1>5, Zenon

\* MakeGroupStart of a new group.
LEMMA MakeStep ==
  ASSUME TInv, NEW w \in Worker, MakeGroup(w)
  PROVE  Rest'
<1> USE Names DEF TInv, Rest
<1>1. Shape'
  BY Zenon DEF MakeGroup, Goto, ctl, Shape, Pc
<1>2. Conf' /\ GroupsAlive' /\ CorrectCtrlerPasses'
  BY Zenon DEF MakeGroup, ctl, Conf, GroupsAlive, CorrectCtrlerPasses
<1>3. Gids'
  BY DEF MakeGroup, Goto, Gids, Working
<1>4. \A q \in Ctrler : Want(q)'
  BY Zenon DEF MakeGroup, Goto, ctl, Shape, Want
<1>5. \A q \in Ctrler : Leave(q)'
  <2>1. ASSUME NEW q \in Ctrler, q # w PROVE Leave(q)'
    BY <2>1 DEF MakeGroup, Goto, ctl, Leave
  <2>2. Leave(w)'
    BY DEF MakeGroup, Goto, Leave, Join
  <2> QED BY <2>1, <2>2, Zenon
<1>6. \A v \in Worker : Join(v)'
  BY DEF MakeGroup, Goto, ctl, Join
<1> QED BY <1>1, <1>2, <1>3, <1>4, <1>5, <1>6, Zenon

\* After the change of a join: did the group get in?
LEMMA CheckJoinStep ==
  ASSUME TInv, NEW w \in Worker, CheckJoin(w)
  PROVE  Rest'
<1> USE Names DEF TInv, Rest
<1>1. Shape'
  BY Zenon DEF CheckJoin, Goto, AfterFailure, ctl, Shape, Pc
<1>2. Conf' /\ GroupsAlive' /\ CorrectCtrlerPasses'
  BY Zenon DEF CheckJoin, ctl, Conf, GroupsAlive, CorrectCtrlerPasses
<1>3. Gids'
  BY DEF CheckJoin, Goto, Shape, Gids, Working
<1>4. \A q \in Ctrler : Want(q)'
  <2>1. ASSUME NEW q \in Ctrler, q # w PROVE Want(q)'
    BY <2>1, Zenon DEF CheckJoin, Goto, ctl, Shape, Want
  <2>2. Want(w)'
    BY Zenon DEF CheckJoin, Goto, AfterFailure, Shape, Want
  <2> QED BY <2>1, <2>2, Zenon
<1>5. \A q \in Ctrler : Leave(q)'
  <2>1. ASSUME NEW q \in Ctrler, q # w PROVE Leave(q)'
    BY <2>1, Zenon DEF CheckJoin, Goto, ctl, Shape, Leave
  <2>2. Leave(w)'
    BY Zenon DEF CheckJoin, Goto, AfterFailure, ctl, Shape, Leave, Join
  <2> QED BY <2>1, <2>2, Zenon
<1>6. \A v \in Worker : Join(v)'
  BY DEF CheckJoin, Goto, AfterFailure, ctl, Shape, Join
<1> QED BY <1>1, <1>2, <1>3, <1>4, <1>5, <1>6, Zenon

\* A controller is done with a change, its own or one it found, or with none.
Finish(p, to) ==
  /\ UNCHANGED <<test, groups, ngid, op, gid, want, linked, fatal, missed>>
  /\ pc' = [pc EXCEPT ![p] = to]
  /\ UNCHANGED <<cfg, nxt>> \/ (nxt # None /\ cfg' = nxt /\ nxt' = None)

\* A change becomes the current configuration.
LEMMA FinishStep ==
  ASSUME TInv, NEW p \in Ctrler, NEW to \in {"make", "check", "verify"}, Finish(p, to),
         \/ pc[p] = "recover" /\ to = IF p = Main THEN "verify" ELSE "make"
         \/ pc[p] = "move" /\ to = "check"
  PROVE  Rest'
<1> USE Names DEF TInv, Rest
<1>n. cfg' = cfg \/ cfg'.num = cfg.num + 1
  BY Zenon DEF Finish, Conf
<1>1. Shape'
  BY DEF Finish, Shape, AnyConfig, None, Pc
<1>2. Conf' /\ GroupsAlive' /\ CorrectCtrlerPasses'
  BY DEF Finish, Shape, Conf, AnyConfig, None, GroupsAlive, CorrectCtrlerPasses
<1>3. Gids'
  BY DEF Finish, Gids, Working
<1>4. \A q \in Ctrler : Want(q)'
  <2>1. ASSUME NEW q \in Ctrler, q # p, cfg' = cfg PROVE Want(q)'
    BY <2>1, Zenon DEF Finish, Shape, Want
  <2>2. ASSUME NEW q \in Ctrler, q # p, cfg'.num = cfg.num + 1 PROVE Want(q)'
    <3>1. cfg.num \in Nat /\ want[q].num \in Nat
      BY Zenon DEF Shape, AnyConfig
    <3>2. pc'[q] = pc[q] /\ want'[q] = want[q]
      BY <2>2, Zenon DEF Finish, Shape
    <3> QED BY <2>2, <3>1, <3>2, WantOld, Zenon
  <2>3. Want(p)'
    BY Zenon DEF Finish, Shape, Want
  <2> QED BY <1>n, <2>1, <2>2, <2>3, Zenon
<1>5. \A q \in Ctrler : Leave(q)'
  BY DEF Finish, Leave, None
<1>6. \A v \in Worker : Join(v)'
  BY DEF Finish, Join, None
<1> QED BY <1>1, <1>2, <1>3, <1>4, <1>5, <1>6, Zenon

\* A controller reads the configuration and plans its change.
LEMMA QueryStep ==
  ASSUME TInv, NEW p \in Ctrler, p = Main => op[p] = "leave", Query(p)
  PROVE  Rest'
<1> USE Names DEF TInv, Rest
<1>1. Shape'
  BY DEF Query, Goto, ctl, Shape, AnyConfig, Pc
<1>2. Conf' /\ GroupsAlive' /\ CorrectCtrlerPasses'
  BY Zenon DEF Query, ctl, Shape, Conf, GroupsAlive, Leave, Join, CorrectCtrlerPasses
<1>3. Gids'
  BY DEF Query, Goto, Shape, Gids, Working
<1>4. \A q \in Ctrler : Want(q)'
  <2>1. ASSUME NEW q \in Ctrler, q # p PROVE Want(q)'
    BY <2>1, Zenon DEF Query, Goto, ctl, Shape, Want
  <2> DEFINE m == IF op[p] = "join" THEN cfg.members \cup {gid[p]} ELSE cfg.members \ {gid[p]}
  <2>2. /\ UNCHANGED <<cfg, op, gid>>
        /\ \/ pc' = [pc EXCEPT ![p] = "returned"]
           \/ /\ want' = [want EXCEPT ![p] = [num |-> cfg.num + 1, members |-> m]]
              /\ pc' = [pc EXCEPT ![p] = "post"]
    BY Zenon DEF Query, Goto, ctl
  <2>3. Want(p)'
    <3>1. CASE pc' = [pc EXCEPT ![p] = "returned"]
      BY <3>1, Zenon DEF Want, Shape
    <3>2. CASE want' = [want EXCEPT ![p] = [num |-> cfg.num + 1, members |-> m]]
      <4>1. want'[p] = [num |-> cfg.num + 1, members |-> m]
        BY <3>2, Zenon DEF Shape
      <4>2. want'[p].num = cfg.num + 1 /\ want'[p].members = m
        BY <4>1
      <4>3. cfg.num \in Nat
        BY Zenon DEF Shape, AnyConfig
      <4>4. m = m'
        BY <2>2, Zenon
      <4> HIDE DEF m
      <4>5. want'[p].num >= 1 /\ want'[p].num <= cfg'.num + 1
        BY <2>2, <4>2, <4>3
      <4> QED BY <2>2, <4>2, <4>4, <4>5, Zenon DEF m, Want
    <3> QED BY <2>2, <3>1, <3>2, Zenon
  <2> QED BY <2>1, <2>3, Zenon
<1>5. \A q \in Ctrler : Leave(q)'
  <2>1. ASSUME NEW q \in Ctrler, q # p PROVE Leave(q)'
    BY <2>1 DEF Query, Goto, ctl, Shape, Leave
  <2>2. Leave(p)'
    BY Zenon DEF Query, Goto, ctl, Shape, Leave
  <2> QED BY <2>1, <2>2, Zenon
<1>6. \A v \in Worker : Join(v)'
  <2>1. ASSUME NEW q \in Worker, q # p PROVE Join(q)'
    BY <2>1, Zenon DEF Query, Goto, ctl, Shape, Join
  <2>2. ASSUME p \in Worker PROVE Join(p)'
    BY <2>2, Zenon DEF Query, Goto, ctl, Shape, Join
  <2> QED BY <2>1, <2>2, Zenon
<1> QED BY <1>1, <1>2, <1>3, <1>4, <1>5, <1>6, Zenon

\* A controller posts its change, or finds the configuration replaced.
LEMMA PostStep ==
  ASSUME TInv, NEW p \in Ctrler, p = Main => op[p] = "leave", Able(p), Post(p)
  PROVE  Rest'
<1> USE Names DEF TInv, Rest
<1>a. Want(p) /\ Shape
  OBVIOUS
<1>n. \/ nxt' = nxt /\ pc' = [pc EXCEPT ![p] = "check"]
      \/ /\ nxt = None /\ nxt' \in AnyConfig /\ nxt'.num = cfg.num + 1
         /\ nxt'.members = IF op[p] = "join" THEN cfg.members \cup {gid[p]}
                           ELSE cfg.members \ {gid[p]}
         /\ pc' = [pc EXCEPT ![p] = "move"]
  <2> HIDE DEF TInv, Rest
  <2> QED BY <1>a DEF Post, Goto, Want, Shape
<1>m. op[p] = "join" => gid[p] \in groups /\ gid[p] <= ngid /\ gid[p] \notin cfg.members
  BY Zenon DEF Post, Join, Gids
<1>f. pc[p] = "post" /\ UNCHANGED <<test, cfg, linked, groups, ngid, op, gid, want, fatal>>
  BY Zenon DEF Post
<1>1. Shape'
  BY DEF Post, Goto, Shape, Pc
<1>2. CorrectCtrlerPasses'
  BY Zenon DEF Post, Goto, CorrectCtrlerPasses
<1>3. Conf'
  BY <1>n, <1>m, <1>f, Zenon DEF Conf
<1>4. GroupsAlive'
  BY <1>n, <1>m, <1>f, Zenon DEF GroupsAlive
<1>5. Gids'
  BY DEF Post, Goto, Shape, Gids, Working
<1>6. \A q \in Ctrler : Want(q)'
  BY ZenonT(30) DEF Post, Goto, Shape, Want
<1>7. \A q \in Ctrler : Leave(q)'
  <2>1. ASSUME NEW q \in Ctrler, q # p PROVE Leave(q)'
    BY <2>1, <1>n, <1>f DEF Shape, Leave, Able, Working
  <2>2. Leave(p)'
    BY <1>n, <1>f, Zenon DEF Shape, Leave
  <2> QED BY <2>1, <2>2, Zenon
<1>8. \A v \in Worker : Join(v)'
  <2>1. ASSUME NEW q \in Worker, q # p PROVE Join(q)'
    BY <2>1, <1>n, <1>f DEF Shape, Join, Able, Working
  <2>2. ASSUME p \in Worker PROVE Join(p)'
    BY <2>2, <1>n, <1>m, <1>f, Zenon DEF Shape, Join
  <2> QED BY <2>1, <2>2, Zenon
<1> QED BY <1>1, <1>2, <1>3, <1>4, <1>5, <1>6, <1>7, <1>8, Zenon

\* After the change of a leave: is the group gone?
LEMMA CheckLeaveStep ==
  ASSUME TInv, NEW p \in Ctrler, CheckLeave(p)
  PROVE  Rest'
<1> USE Names DEF TInv, Rest
<1>1. Shape'
  BY Zenon DEF CheckLeave, Goto, AfterLeave, ctl, Shape, Pc
<1>2. Conf' /\ GroupsAlive' /\ CorrectCtrlerPasses'
  BY Zenon DEF CheckLeave, ctl, Conf, GroupsAlive, CorrectCtrlerPasses
<1>3. Gids'
  BY DEF CheckLeave, Goto, Gids, Working
<1>4. \A q \in Ctrler : Want(q)' /\ Leave(q)'
  BY ZenonT(30) DEF CheckLeave, Goto, AfterLeave, ctl, Shape, Want, Leave, None
<1>5. \A v \in Worker : Join(v)'
  BY DEF CheckLeave, Goto, AfterLeave, ctl, Join
<1> QED BY <1>1, <1>2, <1>3, <1>4, <1>5, Zenon

\* ExitGroup: the servers of the group are shut down for good.
LEMMA ExitStep ==
  ASSUME TInv, NEW p \in Ctrler, Able(p), ExitGroup(p)
  PROVE  Rest'
<1> USE Names DEF TInv, Rest
<1>1. Shape'
  BY Zenon DEF ExitGroup, Goto, AfterLeave, ctl, Shape, Pc
<1>2. Conf' /\ GroupsAlive' /\ CorrectCtrlerPasses'
  BY Zenon DEF ExitGroup, ctl, Conf, GroupsAlive, Leave, CorrectCtrlerPasses
<1>3. Gids'
  BY DEF ExitGroup, Goto, Gids, Working
<1>4. \A q \in Ctrler : Want(q)' /\ Leave(q)'
  BY DEF ExitGroup, Goto, AfterLeave, ctl, Shape, Want, Leave
<1>5. \A v \in Worker : Join(v)'
  <2>1. ASSUME NEW q \in Worker, q # p PROVE Join(q)'
    BY <2>1 DEF ExitGroup, Goto, ctl, Join, Able, Working
  <2>2. ASSUME p \in Worker PROVE Join(p)'
    BY <2>2 DEF ExitGroup, Goto, AfterLeave, Join
  <2> QED BY <2>1, <2>2, Zenon
<1> QED BY <1>1, <1>2, <1>3, <1>4, <1>5, Zenon

\* The test shuts servers down.
LEMMA ShutdownStep ==
  ASSUME TInv, Shutdown
  PROVE  Rest'
<1> USE Names DEF TInv, Rest
<1>1. Shape'
  BY Zenon DEF Shutdown, MainStep, Goto, ctl, Shape, Pc
<1>2. Conf' /\ GroupsAlive' /\ CorrectCtrlerPasses'
  BY Zenon DEF Shutdown, ctl, Conf, GroupsAlive, CorrectCtrlerPasses
<1>3. Gids'
  BY DEF Shutdown, MainStep, Goto, Gids
<1>4. \A q \in Ctrler : Want(q)' /\ Leave(q)'
  BY ZenonT(30) DEF Shutdown, MainStep, Goto, ctl, Shape, Want, Leave
<1>5. \A v \in Worker : Join(v)'
  BY DEF Shutdown, MainStep, Goto, ctl, Join
<1> QED BY <1>1, <1>2, <1>3, <1>4, <1>5, Zenon

\* The test cuts the old controller off.
LEMMA DisconnectStep ==
  ASSUME TInv, DisconnectAll
  PROVE  Rest'
<1> USE Names DEF TInv, Rest
<1>1. Shape'
  BY Zenon DEF DisconnectAll, MainStep, Goto, ctl, Shape, Pc
<1>2. Conf' /\ GroupsAlive'
  BY Zenon DEF DisconnectAll, ctl, Conf, GroupsAlive
<1>f. ~ fatal' \* nothing fails the test before the controller is cut off
  BY Zenon DEF DisconnectAll, MainStep, Mode, Part, Old, CorrectCtrlerPasses
<1>3. Gids'
  BY DEF DisconnectAll, MainStep, Goto, Gids
<1>4. \A q \in Ctrler : Want(q)' /\ Leave(q)'
  BY DEF DisconnectAll, MainStep, Goto, ctl, Want, Leave
<1>5. \A v \in Worker : Join(v)'
  BY DEF DisconnectAll, MainStep, Goto, ctl, Join
<1> QED BY <1>1, <1>2, <1>f, <1>3, <1>4, <1>5, Zenon DEF CorrectCtrlerPasses

\* The test starts the servers again.
LEMMA StartServersStep ==
  ASSUME TInv, StartServers
  PROVE  Rest'
<1> USE Names DEF TInv, Rest
<1>1. Shape'
  BY Zenon DEF StartServers, MainStep, Goto, ctl, Shape, Pc
<1>2. Conf' /\ GroupsAlive' /\ CorrectCtrlerPasses'
  BY Zenon DEF StartServers, ctl, Conf, GroupsAlive, CorrectCtrlerPasses
<1>3. Gids'
  BY DEF StartServers, MainStep, Goto, Gids
<1>4. \A q \in Ctrler : Want(q)' /\ Leave(q)'
  BY DEF StartServers, MainStep, Goto, ctl, Want, Leave
<1>5. \A v \in Worker : Join(v)'
  BY DEF StartServers, MainStep, Goto, ctl, Join
<1> QED BY <1>1, <1>2, <1>3, <1>4, <1>5, Zenon

\* A new controller takes over.
LEMMA InitControllerStep ==
  ASSUME TInv, InitController
  PROVE  Rest'
<1> USE Names DEF TInv, Rest
<1>1. Shape'
  BY Zenon DEF InitController, Elect, Goto, Shape, Pc
<1>2. Conf' /\ GroupsAlive' /\ CorrectCtrlerPasses'
  BY Zenon DEF InitController, Elect, Conf, GroupsAlive, CorrectCtrlerPasses
<1>3. Gids'
  BY DEF InitController, Elect, Goto, Gids
<1>4. \A q \in Ctrler : Want(q)' /\ Leave(q)'
  BY Zenon DEF InitController, Elect, Goto, Shape, Want, Leave
<1>5. \A v \in Worker : Join(v)'
  BY DEF InitController, Elect, Goto, Join
<1> QED BY <1>1, <1>2, <1>3, <1>4, <1>5, Zenon

\* The test reads its keys.
LEMMA GetStep ==
  ASSUME TInv, Get
  PROVE  Rest'
<1> USE Names DEF TInv, Rest
<1>1. Shape'
  BY Zenon DEF Get, Goto, ctl, Shape, Pc
<1>2. Conf' /\ GroupsAlive' /\ CorrectCtrlerPasses'
  BY Zenon DEF Get, ctl, Conf, GroupsAlive, CorrectCtrlerPasses
<1>3. Gids'
  BY DEF Get, Goto, Gids
<1>4. \A q \in Ctrler : Want(q)' /\ Leave(q)'
  BY DEF Get, Goto, ctl, Want, Leave
<1>5. \A v \in Worker : Join(v)'
  BY DEF Get, Goto, ctl, Join
<1> QED BY <1>1, <1>2, <1>3, <1>4, <1>5, Zenon

\* The test compares the configuration with what it expects.
LEMMA VerifyStep ==
  ASSUME TInv, Verify
  PROVE  Rest'
<1> USE Names DEF TInv, Rest
<1>n. Outcome /\ nxt = None
  BY Zenon DEF Verify, Mode, Part
<1>1. Shape'
  BY Zenon DEF Verify, Goto, ctl, Shape, Pc
<1>2. Conf' /\ GroupsAlive'
  BY Zenon DEF Verify, ctl, Conf, GroupsAlive
<1>3. CorrectCtrlerPasses'
  <2>1. ~ missed => ~ (cfg.num <= 1) /\ ((ngid \in cfg.members) = (state = "join"))
    BY <1>n DEF Outcome, Right, Shape, AnyConfig
  <2> QED BY <2>1, Zenon DEF Verify, CorrectCtrlerPasses
<1>4. Gids'
  BY DEF Verify, Goto, Gids
<1>5. \A q \in Ctrler : Want(q)'
  BY Zenon DEF Verify, Goto, ctl, Shape, Want
<1>6. \A q \in Ctrler : Leave(q)'
  <2>1. ASSUME NEW q \in Ctrler, q # Main PROVE Leave(q)'
    BY <2>1 DEF Verify, Goto, ctl, Leave
  <2>2. Leave(Main)'
    BY <1>n, Zenon DEF Verify, Goto, ctl, Shape, Leave
  <2> QED BY <2>1, <2>2, Zenon
<1>7. \A v \in Worker : Join(v)'
  BY DEF Verify, Goto, ctl, Join
<1> QED BY <1>1, <1>2, <1>3, <1>4, <1>5, <1>6, <1>7, Zenon

\* The old controller is connected again.
LEMMA HealStep ==
  ASSUME TInv, Heal
  PROVE  Rest'
<1> USE Names DEF TInv, Rest
<1>n. nxt = None
  BY Zenon DEF Heal, MainStep, Mode, Part
<1>1. Shape'
  BY Zenon DEF Heal, MainStep, Goto, ctl, Shape, Pc
<1>2. Conf' /\ GroupsAlive' /\ CorrectCtrlerPasses'
  BY Zenon DEF Heal, ctl, Conf, GroupsAlive, CorrectCtrlerPasses
<1>3. Gids'
  BY DEF Heal, MainStep, Goto, Gids
<1>4. \A q \in Ctrler : Want(q)' /\ Leave(q)'
  BY DEF Heal, MainStep, Goto, ctl, Want, Leave
<1>5. \A v \in Worker : Join(v)'
  BY <1>n DEF Heal, MainStep, Goto, ctl, Join
<1> QED BY <1>1, <1>2, <1>3, <1>4, <1>5, Zenon

\* A step that a goroutine takes while the old controller is connected.
LEMMA OldStep ==
  ASSUME TInv, NEW w \in Worker, WorkerStep(w), test = "partition", Old
  PROVE  Old'
<1> USE Names
<1>a. Shape /\ Conf /\ Want(w) /\ Join(w) /\ Leave(w)
  BY Zenon DEF TInv, Rest
<1>b. pc[w] # "returned" /\ leader = w /\ \A v \in Worker \ {w} : pc[v] = "returned"
  <2>1. pc[w] # "returned"
    BY Zenon
       DEF WorkerStep, Loop, Stop, Recover, MakeGroup, Query, Post, Move, CheckJoin,
           CheckLeave, ExitGroup
  <2> QED BY <2>1, Zenon DEF Old
<1>c. ASSUME UNCHANGED <<leader, missed>>, NEW s, pc' = [pc EXCEPT ![w] = s],
             s \in Working \cup {"loop"},
             s \in Working => gid'[w] = ngid' /\ state' = op'[w] /\ s # "recover",
             s = "loop" => state' = "leave",
             s = "post" => want'[w].num = cfg'.num + 1,
             s = "move" => nxt' = want'[w] /\ Right(nxt)',
             s = "check" => cfg'.num > 1 /\ Right(cfg)',
             nxt' # None => s = "move"
      PROVE  Old'
  <2>1. pc'[w] = s /\ \A v \in Worker \ {w} : pc'[v] = "returned"
    BY <1>a, <1>b, <1>c, Zenon DEF Shape
  <2> QED BY <1>b, <1>c, <2>1, Zenon DEF Old, Working
<1>1. CASE Loop(w)
  <2>1. gid'[w] = ngid' /\ state' = op'[w]
    BY <1>a, <1>1, Zenon DEF Loop, Shape
  <2>2. nxt = None
    BY <1>1, <1>b, Zenon DEF Old, Loop
  <2> QED BY <1>1, <1>c, <2>1, <2>2, Zenon DEF Loop, Goto, ctl, Working
<1>2. CASE Stop(w)
  BY <1>2, Zenon DEF Stop
<1>3. CASE Recover(w, "make")
  BY <1>3, Zenon DEF Recover, Old, Working
<1>4. CASE MakeGroup(w)
  <2>1. nxt = None /\ gid[w] = ngid /\ state = op[w]
    BY <1>4, <1>b, Zenon DEF Old, MakeGroup, Working
  <2> QED BY <1>4, <1>c, <2>1, Zenon DEF MakeGroup, Goto, ctl, Working
<1>5. CASE Query(w)
  <2>1. nxt = None /\ gid[w] = ngid /\ state = op[w]
    BY <1>5, <1>b, Zenon DEF Old, Query, Working
  <2>2. pc[w] = "query" /\ UNCHANGED <<ctl, ngid, op, gid, state, missed>>
    BY <1>5, Zenon DEF Query
  <2>3. (gid[w] \in cfg.members) # (op[w] = "join")
    BY <1>a, <2>2, Zenon DEF Join, Leave, Shape
  <2>4. /\ pc' = [pc EXCEPT ![w] = "post"]
        /\ \E m : want' = [want EXCEPT ![w] = [num |-> cfg.num + 1, members |-> m]]
    BY <1>5, <2>3, Zenon DEF Query, Goto
  <2>5. want'[w].num = cfg.num + 1
    BY <1>a, <2>4 DEF Shape
  <2> QED BY <1>c, <2>1, <2>2, <2>4, <2>5, Zenon DEF ctl, Working
<1>6. CASE Post(w)
  <2>1. /\ nxt = None /\ gid[w] = ngid /\ state = op[w] /\ want[w].num = cfg.num + 1
        /\ UNCHANGED <<cfg, leader, ngid, op, gid, want, state, missed>>
    BY <1>6, <1>b, Zenon DEF Old, Post, Working
  <2>2. pc' = [pc EXCEPT ![w] = "move"] /\ nxt' = want[w]
    BY <1>6, <1>b, <2>1, Zenon DEF Post, Goto
  <2>3. ngid \in want[w].members <=> op[w] = "join"
    BY <1>a, <1>6, <2>1, Zenon DEF Want, Shape, Post
  <2> QED BY <1>c, <2>1, <2>2, <2>3, Zenon DEF Right, Working
<1>7. CASE Move(w)
  <2>1. /\ gid[w] = ngid /\ state = op[w] /\ nxt = want[w] /\ Right(nxt)
        /\ UNCHANGED <<leader, ngid, op, gid, want, state, missed>>
    BY <1>7, <1>b, Zenon DEF Old, Move, Working
  <2>2. pc' = [pc EXCEPT ![w] = "check"] /\ cfg' = nxt /\ nxt' = None
    BY <1>7, <1>b, Zenon DEF Move, Goto
  <2>3. nxt # None
    BY <1>a, <1>7, <2>1 DEF Want, Move, None
  <2>4. cfg'.num > 1
    BY <1>a, <2>2, <2>3 DEF Conf, Shape, AnyConfig
  <2> QED BY <1>c, <2>1, <2>2, <2>4, Zenon DEF Right, Working
<1>8. CASE CheckJoin(w)
  <2>1. nxt = None /\ gid[w] = ngid /\ state = "join" /\ ngid \in cfg.members
    BY <1>8, <1>b, Zenon DEF Old, CheckJoin, Working, Right
  <2>2. pc' = [pc EXCEPT ![w] = "query"] /\ op'[w] = "leave" /\ state' = "leave"
        /\ UNCHANGED <<ctl, ngid, gid, missed>>
    BY <1>a, <1>8, <2>1, Zenon DEF CheckJoin, Goto, Shape
  <2> QED BY <1>c, <2>1, <2>2, Zenon DEF ctl, Working
<1>9. CASE CheckLeave(w)
  <2>1. nxt = None /\ gid[w] = ngid /\ state = op[w] /\ op[w] = "leave"
        /\ UNCHANGED <<ctl, ngid, gid, op, state, missed>>
    BY <1>9, <1>b, Zenon DEF Old, CheckLeave, Working
  <2>2. \E s \in {"loop", "exit"} : pc' = [pc EXCEPT ![w] = s]
    BY <1>9, Zenon DEF CheckLeave, Goto, AfterLeave
  <2> QED BY <1>c, <2>1, <2>2, Zenon DEF ctl, Working
<1>10. CASE ExitGroup(w)
  <2>1. nxt = None /\ gid[w] = ngid /\ state = op[w] /\ op[w] = "leave"
        /\ UNCHANGED <<ctl, ngid, gid, op, state, missed>>
    BY <1>a, <1>10, <1>b, Zenon DEF Old, ExitGroup, Working, Leave
  <2>2. pc' = [pc EXCEPT ![w] = "loop"]
    BY <1>10, Zenon DEF ExitGroup, Goto, AfterLeave
  <2> QED BY <1>c, <2>1, <2>2, Zenon DEF ctl
<1> QED BY <1>1, <1>2, <1>3, <1>4, <1>5, <1>6, <1>7, <1>8, <1>9, <1>10, Zenon
           DEF WorkerStep

\* The steps of the goroutines.
LEMMA ModeWorker ==
  ASSUME TInv, NEW w \in Worker, WorkerStep(w)
  PROVE  Mode'
<1> USE Names
<1>a. Shape /\ Conf /\ Mode
  BY Zenon DEF TInv, Rest
<1>b. pc[w] # "returned" /\ test' = test /\ missed' = missed /\ linked' = linked
      /\ \A v \in Worker \ {w} : pc'[v] = pc[v]
  BY <1>a, Zenon
     DEF WorkerStep, Loop, Stop, Recover, MakeGroup, Query, Post, Move, CheckJoin,
         CheckLeave, ExitGroup, Goto, Elect, Shape
<1>c. test = "partition" => pc'[Main] = pc[Main]
  BY <1>a, Zenon
     DEF WorkerStep, Loop, Stop, Recover, MakeGroup, Query, Post, Move, CheckJoin,
         CheckLeave, ExitGroup, Goto, Elect, Shape
<1>1. CASE test = "concur"
  <2>1. pc'[Main] \in {pc[Main], "get"}
    BY <1>a, Zenon
       DEF WorkerStep, Loop, Stop, Recover, MakeGroup, Query, Post, Move, CheckJoin,
           CheckLeave, ExitGroup, Goto, Elect, Shape
  <2> QED BY <1>a, <1>b, <1>1, <2>1, Zenon DEF Mode
<1>2. CASE test = "partition"
  <2>a. Part
    BY <1>2, <1>a, Zenon DEF Mode
  <2>1. ~ Held(w)
    BY <1>b, Zenon
       DEF Held, WorkerStep, Loop, Stop, Recover, MakeGroup, Query, Post, Move, CheckJoin,
           CheckLeave, ExitGroup
  <2>2. pc[Main] \notin Leaving
    BY <2>1, MainIdle, Zenon
  <2>3. pc[Main] \in {"sleep", "down"} => Old'
    BY <1>2, <2>a, OldStep, Zenon DEF Part
  <2>4. CASE pc[Main] \in {"cut", "init", "recover", "verify", "heal"}
    <3>1. w \notin linked
      BY <1>b, <2>a, <2>4, Zenon DEF Part, Busy
    <3>2. Loop(w) \/ MakeGroup(w) \/ ExitGroup(w)
      BY <1>2, <3>1, Zenon
         DEF WorkerStep, Stop, Recover, Query, Post, Move, CheckJoin, CheckLeave, Shape
    <3>3. UNCHANGED <<cfg, nxt, leader>>
      BY <1>2, <3>2, Zenon DEF Loop, MakeGroup, ExitGroup, ctl
    <3>4. \/ UNCHANGED <<ngid, state>>
          \/ ngid' = ngid + 1
      BY <3>2, Zenon DEF Loop, MakeGroup, ExitGroup
    <3>5. ngid' = ngid + 1 => ngid' \notin cfg.members
      BY <1>a DEF Conf, Shape, AnyConfig
    <3>6. Outcome => Outcome'
      BY <1>b, <2>1, <3>3, <3>4, <3>5, Zenon DEF Outcome
    <3> QED BY <1>b, <1>c, <1>2, <2>a, <2>4, <3>1, <3>3, <3>6, Zenon
               DEF Mode, Part, Busy, Leaving
  <2>5. CASE pc[Main] \notin {"cut", "init", "recover", "verify", "heal"}
    BY <1>b, <1>c, <1>2, <2>a, <2>2, <2>3, <2>5, Zenon DEF Mode, Part, Busy, Leaving
  <2> QED BY <2>4, <2>5
<1> QED BY <1>a, <1>1, <1>2, Zenon DEF Shape

\* The test cuts the controller off in the middle of a change, or misses it.
LEMMA CutOutcome ==
  ASSUME TInv, DisconnectAll
  PROVE  /\ Outcome'
         /\ \A w \in Worker : pc'[w] = pc[w] /\ (pc[w] = "returned" \/ w \notin linked')
<1> USE Names
<1>a. Shape /\ Mode /\ Old /\ \A w \in Worker : Want(w) /\ Join(w) /\ Leave(w)
  BY Zenon DEF TInv, Rest, Mode, Part, DisconnectAll, MainStep
<1>1. /\ UNCHANGED <<cfg, nxt, leader, ngid, state>>
      /\ linked' = linked \ {leader}
      /\ missed' = (pc[leader] \notin {"move", "check"})
      /\ \A w \in Worker : pc'[w] = pc[w]
  BY <1>a, Zenon DEF DisconnectAll, MainStep, Goto, ctl, Shape
<1>2. PICK l \in Worker : l = leader
  BY <1>a, Zenon DEF Old
<1>3. \A w \in Worker : pc[w] = "returned" \/ w = l
  BY <1>a, <1>2, Zenon DEF Old
<1>4. CASE pc[l] \in {"move", "check"}
  <2>1. ~ missed' /\ (\A w \in Worker : Held(w)')
    BY <1>1, <1>2, <1>3, <1>4, Zenon DEF Held
  <2>2. pc[l] = "move" => nxt = want[l] /\ want[l].num >= 1
    BY <1>a, Zenon DEF Old, Want
  <2>3. pc[l] = "move" => nxt # None
    BY <2>2 DEF None
  <2>4. pc[l] = "check" => nxt = None /\ cfg.num > 1 /\ Right(cfg)
    BY <1>a, <1>2, Zenon DEF Old
  <2>5. pc[l] = "move" => Right(nxt)
    BY <1>a, Zenon DEF Old
  <2> QED BY <1>1, <1>2, <1>3, <1>4, <2>1, <2>3, <2>4, <2>5, Zenon DEF Outcome, Right
<1>5. CASE pc[l] \notin {"move", "check"}
  <2>1. missed' /\ nxt = None
    BY <1>a, <1>1, <1>2, <1>5, Zenon DEF Old
  <2>2. ngid \notin cfg.members \/ state = "leave" \/ cfg.num <= 1
    <3>1. pc[l] \in {"loop", "make", "query", "post", "exit"}
      BY <1>a, <1>2, <1>5, Zenon DEF Shape, Old, Working
    <3>2. CASE pc[l] = "loop"
      BY <1>a, <3>2, Zenon DEF Old
    <3>3. CASE pc[l] \in {"make", "query", "post", "exit"}
      <4>1. gid[l] = ngid /\ state = op[l]
        BY <1>a, <3>3, Zenon DEF Old, Working
      <4>2. op[l] = "leave" \/ gid[l] \notin cfg.members
        BY <1>a, <3>3, Zenon DEF Join, Leave, Shape
      <4> QED BY <4>1, <4>2, Zenon
    <3> QED BY <1>a, <3>1, <3>2, <3>3, Zenon
  <2> QED BY <1>1, <1>2, <1>3, <2>1, <2>2, Zenon DEF Outcome
<1> QED BY <1>4, <1>5, Zenon

\* The steps of the test.
LEMMA ModeMain ==
  ASSUME TInv, MainAction
  PROVE  Mode'
<1> USE Names
<1>a. Shape /\ Conf /\ Mode
  BY Zenon DEF TInv, Rest
<1>b. ASSUME test = "partition", NEW s, pc' = [pc EXCEPT ![Main] = s],
             UNCHANGED <<test, ngid, state, missed, linked>>
      PROVE  /\ pc'[Main] = s /\ Part
             /\ \A v \in Worker : pc'[v] = pc[v] /\ (Held(v)' <=> Held(v))
  BY <1>a, <1>b, Zenon DEF Shape, Mode, Held
<1>c. ASSUME test = "partition", UNCHANGED <<test, cfg, nxt, ngid, state, missed, linked>>,
             Outcome, \A v \in Worker : Held(v)' <=> Held(v)
      PROVE  Outcome'
  BY <1>c, Zenon DEF Outcome, Right
<1>1. CASE Shutdown
  <2>1. test = "partition" /\ pc[Main] = "sleep" /\ pc' = [pc EXCEPT ![Main] = "down"]
        /\ UNCHANGED <<test, ctl, ngid, op, gid, want, state, missed, linked>>
    BY <1>1, Zenon DEF Shutdown, MainStep, Goto
  <2>2. Old /\ leader \in Worker
    BY <1>b, <2>1, Zenon DEF Part, Old
  <2>3. Old'
    BY <1>b, <2>1, <2>2, Zenon DEF Old, Right, ctl
  <2> QED BY <1>b, <2>1, <2>3, Zenon DEF Mode, Part, Busy, Leaving
<1>2. CASE DisconnectAll
  <2>1. test = "partition" /\ test' = test /\ Part /\ pc'[Main] = "cut"
    BY <1>a, <1>2, Zenon DEF DisconnectAll, MainStep, Goto, Shape, Mode
  <2> QED BY <1>2, <2>1, CutOutcome, Zenon DEF Mode, Part, Busy, Leaving
<1>3. CASE StartServers
  <2>1. test = "partition" /\ pc[Main] = "cut" /\ pc' = [pc EXCEPT ![Main] = "init"]
        /\ UNCHANGED <<test, cfg, nxt, ngid, state, missed, linked>>
    BY <1>3, Zenon DEF StartServers, MainStep, Goto, ctl
  <2>2. Outcome'
    BY <1>b, <1>c, <2>1, Zenon DEF Part
  <2> QED BY <1>b, <2>1, <2>2, Zenon DEF Mode, Part, Busy, Leaving
<1>4. CASE InitController
  <2>1. test = "partition" /\ pc[Main] = "init" /\ pc' = [pc EXCEPT ![Main] = "recover"]
        /\ UNCHANGED <<test, cfg, nxt, ngid, state, missed, linked>> /\ leader' = Main
    BY <1>4, Zenon DEF InitController, Elect, Goto
  <2>2. Outcome'
    BY <1>b, <1>c, <2>1, Zenon DEF Part
  <2> QED BY <1>b, <2>1, <2>2, Zenon DEF Mode, Part, Busy, Leaving
<1>5. CASE Recover(Main, "verify")
  <2>1. pc[Main] = "recover" /\ pc' = [pc EXCEPT ![Main] = "verify"]
        /\ UNCHANGED <<test, leader, ngid, state, missed, linked>>
    BY <1>5, Zenon DEF Recover, Goto
  <2>2. test = "partition"
    BY <1>a, <2>1, Zenon DEF Mode, Shape
  <2>3. Outcome /\ leader = Main
    BY <1>b, <2>1, <2>2, Zenon DEF Part
  <2>4. \/ nxt = None /\ UNCHANGED <<cfg, nxt>>
        \/ nxt # None /\ cfg' = nxt /\ nxt' = None
    BY <1>5, <2>3, Zenon DEF Recover
  <2>5. CASE nxt = None /\ UNCHANGED <<cfg, nxt>>
    BY <1>b, <1>c, <2>1, <2>2, <2>3, <2>5, Zenon DEF Mode, Part, Busy, Leaving
  <2>6. CASE nxt # None /\ cfg' = nxt /\ nxt' = None
    <3>1. cfg'.num > 1
      BY <1>a, <2>6 DEF Conf, Shape, AnyConfig
    <3>2. Outcome'
      BY <1>b, <2>1, <2>2, <2>3, <2>6, <3>1, Zenon DEF Outcome, Right
    <3>3. pc'[Main] = "verify" /\ Part /\ \A v \in Worker : pc'[v] = pc[v]
      BY <1>b, <2>1, <2>2, Zenon
    <3> QED BY <2>1, <2>2, <2>3, <2>6, <3>2, <3>3, Zenon DEF Mode, Part, Busy, Leaving
  <2> QED BY <2>4, <2>5, <2>6
<1>6. CASE Verify
  <2>1. test = "partition" /\ pc[Main] = "verify" /\ op'[Main] = "leave"
        /\ UNCHANGED <<test, cfg, nxt, leader, ngid, state, missed, linked>>
    BY <1>a, <1>6, Zenon DEF Verify, ctl, Shape
  <2>2. Part /\ Outcome /\ leader = Main /\ nxt = None
    BY <1>a, <2>1, Zenon DEF Mode, Part
  <2>3. \E s \in {"done", "heal", "query"} :
          /\ pc' = [pc EXCEPT ![Main] = s]
          /\ s = "query" => ~ (cfg.num <= 1) /\ ngid \in cfg.members /\ state = "join"
    BY <1>6, Zenon DEF Verify, Goto
  <2>4. PICK s \in {"done", "heal", "query"} :
          /\ pc' = [pc EXCEPT ![Main] = s]
          /\ s = "query" => ~ (cfg.num <= 1) /\ ngid \in cfg.members /\ state = "join"
    BY <2>3, Zenon
  <2>5. s = "query" => \A w \in Worker : Held(w)
    BY <2>2, <2>4, Zenon DEF Outcome
  <2>6. s = "query" => Own'
    BY <1>b, <2>1, <2>2, <2>4, <2>5, Zenon DEF Own
  <2> QED BY <1>b, <2>1, <2>2, <2>4, <2>6, Zenon DEF Mode, Part, Busy, Leaving
<1>7. CASE Heal
  BY <1>a, <1>7, Zenon DEF Heal, MainStep, Goto, Shape, Mode, Part, Busy, Leaving
<1>8. CASE Get
  BY <1>a, <1>8, Zenon DEF Get, Goto, Shape, Mode, Part, Busy, Leaving
<1>9. CASE pc[Main] \in Leaving
  <2>1. test = "partition" /\ Own
    BY <1>9, MainBusy, Zenon
  <2>2. Query(Main) \/ Post(Main) \/ Move(Main) \/ CheckLeave(Main) \/ ExitGroup(Main)
    BY <1>9, Zenon
       DEF MainAction, MainStep, Shutdown, DisconnectAll, StartServers, InitController,
           Recover, Verify, Heal, Get, Leaving
  <2>3. UNCHANGED <<test, leader, ngid, op, state, missed, linked>>
    BY <2>2, Zenon DEF Query, Post, Move, CheckLeave, ExitGroup, ctl
  <2>4. \E s \in Leaving \cup {"heal", "returned"} :
          /\ pc' = [pc EXCEPT ![Main] = s]
          /\ IF s = "move" THEN nxt' = want'[Main] ELSE nxt' = None
    BY <2>1, <2>2, Zenon
       DEF Query, Post, Move, CheckLeave, ExitGroup, AfterLeave, Goto, ctl, Own, Leaving
  <2>5. PICK s \in Leaving \cup {"heal", "returned"} :
          /\ pc' = [pc EXCEPT ![Main] = s]
          /\ IF s = "move" THEN nxt' = want'[Main] ELSE nxt' = None
    BY <2>4, Zenon
  <2>6. Own' /\ leader' = Main
    BY <1>b, <2>1, <2>3, <2>5, Zenon DEF Own
  <2> QED BY <1>b, <1>9, <2>1, <2>3, <2>5, <2>6, Zenon DEF Mode, Part, Busy, Leaving
<1> QED BY <1>1, <1>2, <1>3, <1>4, <1>5, <1>6, <1>7, <1>8, <1>9, Zenon
        DEF MainAction, Query, Post, Move, CheckLeave, ExitGroup, Leaving

\* Moving the shards ends in a new current configuration.
LEMMA MoveFinishes ==
  ASSUME TInv, NEW p \in Ctrler, Move(p)
  PROVE  Finish(p, "check") /\ pc[p] = "move"
<1>1. want[p].num >= 1
  BY ZenonT(30) DEF TInv, Rest, Want, Move
<1>2. ~ (0 >= 1) /\ None.num = 0
  BY DEF None
<1>3. want[p] # None
  BY <1>1, <1>2, Zenon
<1> QED BY <1>3, Zenon DEF Move, Finish, Goto

\* Each step of a goroutine preserves the invariant.
LEMMA WorkerSteps == ASSUME TInv, NEW w \in Worker, WorkerStep(w) PROVE TInv'
<1>1. Rest'
  <2> USE Names
  <2>1. CASE pc[w] \in Working /\ ~ Held(w)
    <3>1. Able(w)
      BY <2>1, AbleWorker, Zenon
    <3>2. ASSUME Recover(w, "make") PROVE Finish(w, "make") /\ pc[w] = "recover"
      BY <3>2, Zenon DEF Recover, Finish, Goto
    <3>3. Move(w) => Finish(w, "check") /\ pc[w] = "move"
      BY MoveFinishes, Zenon
    <3> QED BY <3>1, <3>2, <3>3, LoopStep, StopStep, MakeStep, CheckJoinStep, FinishStep,
               QueryStep, PostStep, CheckLeaveStep, ExitStep, Zenon
            DEF WorkerStep
  <2>2. CASE Loop(w) \/ Stop(w)
    BY <2>2, LoopStep, StopStep, Zenon
  <2> QED BY <2>1, <2>2, Zenon
             DEF WorkerStep, Working, Held, Recover, MakeGroup, Query, Post, Move, CheckJoin,
                 CheckLeave, ExitGroup
<1>2. Mode'
  BY ModeWorker, Zenon
<1> QED BY <1>1, <1>2, Zenon DEF TInv

\* Each step of the test preserves the invariant.
LEMMA MainSteps == ASSUME TInv, MainAction PROVE TInv'
<1>1. Rest'
  <2> USE Names
  <2>1. CASE pc[Main] \in Leaving
    <3>1. Able(Main) /\ op[Main] = "leave"
      BY <2>1, AbleMain, MainBusy, Zenon DEF Own
    <3>2. Move(Main) => Finish(Main, "check") /\ pc[Main] = "move"
      BY MoveFinishes, Zenon
    <3>3. Query(Main) \/ Post(Main) \/ Move(Main) \/ CheckLeave(Main) \/ ExitGroup(Main)
      BY <2>1, Zenon
         DEF MainAction, MainStep, Shutdown, DisconnectAll, StartServers, InitController,
             Recover, Verify, Heal, Get, Leaving
    <3> QED BY <3>1, <3>2, <3>3, FinishStep, QueryStep, PostStep, CheckLeaveStep,
               ExitStep, Zenon
  <2>2. CASE Recover(Main, "verify")
    <3>1. Finish(Main, "verify") /\ pc[Main] = "recover"
      BY <2>2, Zenon DEF Recover, Finish, Goto
    <3> QED BY <3>1, FinishStep, Zenon
  <2>3. CASE Query(Main) \/ Post(Main) \/ Move(Main) \/ CheckLeave(Main) \/ ExitGroup(Main)
    <3>1. pc[Main] \in Leaving
      BY <2>3, Zenon DEF Query, Post, Move, CheckLeave, ExitGroup, Leaving
    <3> QED BY <3>1, <2>1, Zenon
  <2>4. CASE Shutdown \/ DisconnectAll \/ StartServers \/ InitController
    BY <2>4, ShutdownStep, DisconnectStep, StartServersStep, InitControllerStep, Zenon
  <2>5. CASE Verify \/ Heal \/ Get
    BY <2>5, VerifyStep, HealStep, GetStep, Zenon
  <2> QED BY <2>2, <2>3, <2>4, <2>5, Zenon DEF MainAction
<1>2. Mode'
  BY ModeMain, Zenon
<1> QED BY <1>1, <1>2, Zenon DEF TInv

\* Each step preserves the invariant.
LEMMA TInductive == TInv /\ [Next]_vars => TInv'
<1> SUFFICES ASSUME TInv, [Next]_vars PROVE TInv'
  OBVIOUS
<1>1. CASE UNCHANGED vars
  <2> USE DEF vars, ctl, local
  <2>1. Shape' /\ Conf' /\ Gids' /\ GroupsAlive' /\ CorrectCtrlerPasses'
    BY <1>1, ZenonT(30)
       DEF TInv, Rest, Shape, Conf, Gids, GroupsAlive, CorrectCtrlerPasses
  <2>2. \A p \in Ctrler : Want(p)' /\ Leave(p)'
    BY <1>1, Zenon DEF TInv, Rest, Want, Leave
  <2>3. \A w \in Worker : Join(w)'
    BY <1>1, Zenon DEF TInv, Rest, Join
  <2>4. Mode'
    BY <1>1, ZenonT(30) DEF TInv, Mode, Part, Old, Outcome, Own, Held, Right
  <2> QED BY <2>1, <2>2, <2>3, <2>4, Zenon DEF TInv, Rest
<1> QED BY <1>1, WorkerSteps, MainSteps, Zenon DEF Next

\* The invariant holds in every state.
LEMMA TInvAlways == Spec => []TInv
BY TInit, TInductive, PTL DEF Spec

\* leaveGroups and concurCtrler: however many goroutines compete, and wherever
\* their controllers are cut off or superseded, no group is shut down that a
\* configuration, current or under way, still lists.
THEOREM GroupsAliveTheorem == Spec => []GroupsAlive
<1>1. TInv => GroupsAlive
  BY Zenon DEF TInv, Rest
<1> QED BY <1>1, TInvAlways, PTL

\* partitionCtrler and concurCtrler: a controller that keeps its contract fails a test
\* only if partitionCtrler's sleep was too short for it to be in the middle of a
\* change when it is cut off.
THEOREM CorrectCtrlerPassesTheorem == Spec => []CorrectCtrlerPasses
<1>1. TInv => CorrectCtrlerPasses
  BY Zenon DEF TInv, Rest
<1> QED BY <1>1, TInvAlways, PTL

=============================================================================
