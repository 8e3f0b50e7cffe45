----------------------------- MODULE CtrlerTest -----------------------------
(***************************************************************************)
(* The tests of shard controllers that take over from each other             *)
(* (shardkv1/test.go): partitionCtrler cuts a controller off, it hopes in    *)
(* the middle of a join or leave, and lets another one finish; concurCtrler  *)
(* lets several controllers compete.  The controllers are run by goroutines that  *)
(* make groups, have them join, have them leave and shut them down.          *)
(* The controller is not part of the repository: it appears as the           *)
(* environment, with the contract of the comments in shardctrler.go.         *)
(***************************************************************************)
EXTENDS Naturals, FiniteSets

CONSTANTS
  Worker,     \* the goroutines that run controllers
  Main,       \* the goroutine of the test
  MaxGid      \* bound on the groups made; group 1 is there from the start

ASSUME WorkerAssumption == Main \notin Worker /\ IsFiniteSet(Worker) /\ Worker # {}
ASSUME MaxGidAssumption == MaxGid \in Nat \ {0}

Ctrler == Worker \cup {Main}
Gid == 1..MaxGid
None == [num |-> 0, members |-> {}]

VARIABLES
  test,      \* "partition" (partitionCtrler) or "concur" (concurCtrler)
  cfg,       \* the current configuration
  nxt,       \* the one a controller is changing to, or None
  leader,    \* the controller that InitController elected last
  linked,    \* controllers whose client is connected
  gidUp,     \* do the servers of group 1 run?
  groups,    \* the groups whose servers were started and not shut down for good
  ngid,      \* Test.ngid: the last identifier given out
  pc, op, gid, want,   \* per controller: what its goroutine does with it
  state,     \* partitionCtrler's state, JOIN or LEAVE
  signals,   \* stop signals that concurCtrler sent
  fatal,     \* did the test fail?
  missed     \* history: was the controller cut off with no change under way?

ctl == <<cfg, nxt, leader>>
local == <<pc, op, gid, want>>
vars == <<test, ctl, linked, gidUp, groups, ngid, local, state, signals, fatal, missed>>

Config == [num : Nat, members : SUBSET Gid]
Pc == {"loop", "recover", "make", "query", "post", "move", "check", "exit", "returned",
       "sleep", "down", "cut", "init", "verify", "heal", "get", "done"}

TypeOK ==
  /\ test \in {"partition", "concur"}
  /\ cfg \in Config /\ nxt \in Config /\ leader \in Ctrler
  /\ linked \subseteq Ctrler /\ gidUp \in BOOLEAN
  /\ groups \subseteq Gid /\ ngid \in Gid
  /\ pc \in [Ctrler -> Pc] /\ op \in [Ctrler -> {"join", "leave"}]
  /\ gid \in [Ctrler -> Gid] /\ want \in [Ctrler -> Config]
  /\ state \in {"join", "leave"}
  /\ signals \in 0..Cardinality(Worker) /\ fatal \in BOOLEAN /\ missed \in BOOLEAN

\* setupKVService; partitionCtrler's controller is initialized before its
\* goroutine starts, and is the only one.
Init ==
  /\ test \in {"partition", "concur"}
  /\ cfg = [num |-> 1, members |-> {1}] /\ nxt = None
  /\ linked = Ctrler /\ gidUp = TRUE
  /\ groups = {1} /\ ngid = 1
  /\ leader \in Worker
  /\ pc = [p \in Ctrler |->
             CASE p = Main -> "sleep"
               [] p # Main /\ test = "partition" /\ p # leader -> "returned"
               [] OTHER -> "loop"]
  /\ op = [p \in Ctrler |-> "join"] /\ gid = [p \in Ctrler |-> 1]
  /\ want = [p \in Ctrler |-> None]
  /\ state = "join" /\ signals = 0 /\ fatal = FALSE /\ missed = FALSE

Goto(p, to) == pc' = [pc EXCEPT ![p] = to]

-----------------------------------------------------------------------------
(* The environment: the controller's methods, called by p's goroutine.     *)

\* InitController: p supersedes the others.
Elect(p, to) ==
  /\ leader' = p
  /\ Goto(p, to)
  /\ UNCHANGED <<cfg, nxt>>

\* The rest of InitController: p finishes the change it finds under way.
Recover(p, to) ==
  /\ pc[p] = "recover" /\ p \in linked
  /\ \/ /\ nxt = None \/ leader # p
        /\ UNCHANGED <<cfg, nxt>>
     \/ /\ nxt # None /\ leader = p /\ gidUp
        /\ cfg' = nxt /\ nxt' = None
  /\ Goto(p, to)
  /\ UNCHANGED <<test, leader, linked, gidUp, groups, ngid, op, gid, want, state,
                 signals, fatal, missed>>

\* ChangeConfigTo, first part: the new configuration is recorded, unless p has
\* been superseded.
Post(p) ==
  /\ pc[p] = "post" /\ p \in linked
  /\ IF leader = p /\ nxt = None /\ want[p].num = cfg.num + 1
     THEN nxt' = want[p] /\ Goto(p, "move")
     ELSE Goto(p, "check") /\ UNCHANGED nxt
  /\ UNCHANGED <<test, cfg, leader, linked, gidUp, groups, ngid, op, gid, want, state,
                 signals, fatal, missed>>

\* Second part: the shards move, which involves group 1, and the new
\* configuration becomes the current one.  A superseded controller stops.
Move(p) ==
  /\ pc[p] = "move" /\ p \in linked
  /\ \/ /\ leader = p /\ nxt = want[p] /\ gidUp
        /\ cfg' = nxt /\ nxt' = None
     \/ leader # p /\ UNCHANGED <<cfg, nxt>>
  /\ Goto(p, "check")
  /\ UNCHANGED <<test, leader, linked, gidUp, groups, ngid, op, gid, want, state,
                 signals, fatal, missed>>

-----------------------------------------------------------------------------
(* joinGroups and leaveGroups for one group.                               *)

\* MakeGroupStart.
MakeGroup(p) ==
  /\ pc[p] = "make"
  /\ groups' = groups \cup {gid[p]}
  /\ Goto(p, "query")
  /\ UNCHANGED <<test, ctl, linked, gidUp, ngid, op, gid, want, state,
                 signals, fatal, missed>>

\* join and leave up to ChangeConfigTo: the configuration Query returns is
\* changed; JoinBalance and LeaveBalance fail if the group is there or not.
Query(p) ==
  LET wrong == (gid[p] \in cfg.members) = (op[p] = "join")
      members == IF op[p] = "join" THEN cfg.members \cup {gid[p]}
                 ELSE cfg.members \ {gid[p]} IN
  /\ pc[p] = "query" /\ p \in linked
  /\ IF wrong THEN fatal' = TRUE /\ Goto(p, "returned") /\ UNCHANGED want
     ELSE /\ want' = [want EXCEPT ![p] = [num |-> cfg.num + 1, members |-> members]]
          /\ Goto(p, "post")
          /\ UNCHANGED fatal
  /\ UNCHANGED <<test, ctl, linked, gidUp, groups, ngid, op, gid, state, signals, missed>>

\* Where a goroutine goes on after leaveGroups, and after a join that failed.
AfterLeave(p) == IF p = Main THEN "heal" ELSE "loop"
AfterFailure == IF test = "partition" THEN "returned" ELSE "loop"

\* checkMember after a join.  (The check in joinGroups has no effect: both
\* callers check again.)  The group is asked to leave.
CheckJoin(p) ==
  /\ pc[p] = "check" /\ op[p] = "join" /\ p \in linked
  /\ IF gid[p] \in cfg.members
     THEN /\ op' = [op EXCEPT ![p] = "leave"] /\ state' = "leave"
          /\ Goto(p, "query")
     ELSE Goto(p, AfterFailure) /\ UNCHANGED <<op, state>>
  /\ UNCHANGED <<test, ctl, linked, gidUp, groups, ngid, gid, want, signals, fatal, missed>>

\* Mutant: leaveGroups does not check that the group has left.
CheckLeave_Not(p) ==
  /\ pc[p] = "check" /\ op[p] = "leave" /\ p \in linked
  /\ Goto(p, "exit")
  /\ UNCHANGED <<test, ctl, linked, gidUp, groups, ngid, op, gid, want, state,
                 signals, fatal, missed>>

\* checkMember after a leave: a group that has not left goes on.
CheckLeave(p) ==
  /\ pc[p] = "check" /\ op[p] = "leave" /\ p \in linked
  /\ Goto(p, IF gid[p] \in cfg.members THEN AfterLeave(p) ELSE "exit")
  /\ UNCHANGED <<test, ctl, linked, gidUp, groups, ngid, op, gid, want, state,
                 signals, fatal, missed>>

ExitGroup(p) ==
  /\ pc[p] = "exit"
  /\ groups' = groups \ {gid[p]}
  /\ Goto(p, AfterLeave(p))
  /\ UNCHANGED <<test, ctl, linked, gidUp, ngid, op, gid, want, state,
                 signals, fatal, missed>>

-----------------------------------------------------------------------------
(* A goroutine that runs controllers.                                      *)

\* The top of the loop; concurCtrler makes a controller for each iteration.
Loop(w) ==
  /\ pc[w] = "loop" /\ ngid < MaxGid
  /\ ngid' = ngid + 1
  /\ gid' = [gid EXCEPT ![w] = ngid + 1]
  /\ op' = [op EXCEPT ![w] = "join"] /\ state' = "join"
  /\ IF test = "concur" THEN Elect(w, "recover") ELSE Goto(w, "make") /\ UNCHANGED ctl
  /\ UNCHANGED <<test, linked, gidUp, groups, want, signals, fatal, missed>>

\* The test's `ch <- struct{}{}' meets the select at the top of the loop.
Stop(w) ==
  /\ test = "concur" /\ pc[Main] = "sleep" /\ pc[w] = "loop"
  /\ signals' = signals + 1
  /\ pc' = [pc EXCEPT ![w] = "returned",
                      ![Main] = IF signals' = Cardinality(Worker) THEN "get" ELSE @]
  /\ UNCHANGED <<test, ctl, linked, gidUp, groups, ngid, op, gid, want, state,
                 fatal, missed>>

WorkerStep(w) ==
  \/ Loop(w) \/ Stop(w) \/ Recover(w, "make")
  \/ MakeGroup(w) \/ Query(w) \/ Post(w) \/ Move(w) \/ CheckJoin(w) \/ CheckLeave(w)
  \/ ExitGroup(w)

-----------------------------------------------------------------------------
(* The test: partitionCtrler.                                              *)

MainStep(from, to) == test = "partition" /\ pc[Main] = from /\ Goto(Main, to)

\* Group 1 is shut down for a while.
Shutdown ==
  /\ MainStep("sleep", "down")
  /\ gidUp' = FALSE
  /\ UNCHANGED <<test, ctl, linked, groups, ngid, op, gid, want, state,
                 signals, fatal, missed>>

\* The old controller is cut off, wherever it is: the test sleeps "to get sck
\* stuck in join or leave", which makes it likely that a change is under way, or
\* that its goroutine is about to ask whether it was made.
DisconnectAll ==
  /\ MainStep("down", "cut")
  /\ linked' = linked \ {leader}
  /\ missed' = (pc[leader] \notin {"move", "check"})
  /\ UNCHANGED <<test, ctl, gidUp, groups, ngid, op, gid, want, state, signals, fatal>>

\* Mutant: the servers are not started again.
StartServers_Not ==
  /\ MainStep("cut", "init")
  /\ UNCHANGED <<test, ctl, linked, gidUp, groups, ngid, op, gid, want, state,
                 signals, fatal, missed>>

StartServers ==
  /\ MainStep("cut", "init")
  /\ gidUp' = TRUE
  /\ UNCHANGED <<test, ctl, linked, groups, ngid, op, gid, want, state,
                 signals, fatal, missed>>

InitController ==
  /\ test = "partition" /\ pc[Main] = "init"
  /\ Elect(Main, "recover")
  /\ UNCHANGED <<test, linked, gidUp, groups, ngid, op, gid, want, state,
                 signals, fatal, missed>>

\* Mutant: the old controller is reconnected before the group leaves.
Verify_Heal ==
  LET present == ngid \in cfg.members IN
  /\ test = "partition" /\ pc[Main] = "verify"
  /\ fatal' = (fatal \/ cfg.num <= 1 \/ present # (state = "join"))
  /\ linked' = Ctrler
  /\ op' = [op EXCEPT ![Main] = "leave"] /\ gid' = [gid EXCEPT ![Main] = ngid]
  /\ Goto(Main, CASE fatal' -> "done" [] ~ fatal' /\ present -> "query" [] OTHER -> "heal")
  /\ UNCHANGED <<test, ctl, gidUp, groups, ngid, want, state, signals, missed>>

\* The new controller's configuration must be a later one (the first had number
\* 1), and the interrupted join or leave must be complete.  A group that joined
\* is asked to leave.
Verify ==
  LET present == ngid \in cfg.members IN
  /\ test = "partition" /\ pc[Main] = "verify"
  /\ fatal' = (fatal \/ cfg.num <= 1 \/ present # (state = "join"))
  /\ op' = [op EXCEPT ![Main] = "leave"] /\ gid' = [gid EXCEPT ![Main] = ngid]
  /\ Goto(Main, CASE fatal' -> "done" [] ~ fatal' /\ present -> "query" [] OTHER -> "heal")
  /\ UNCHANGED <<test, ctl, linked, gidUp, groups, ngid, want, state, signals, missed>>

\* With ts.partition, the old controller is reconnected.
Heal ==
  /\ MainStep("heal", "get")
  /\ linked' \in {linked, Ctrler}
  /\ UNCHANGED <<test, ctl, gidUp, groups, ngid, op, gid, want, state,
                 signals, fatal, missed>>

\* CheckGet reads from the members' servers; partitionCtrler ends by deleting the
\* clients of its two controllers.
Get ==
  /\ pc[Main] = "get" /\ gidUp /\ cfg.members \subseteq groups
  /\ Goto(Main, "done")
  /\ linked' = IF test = "partition" THEN {} ELSE linked
  /\ UNCHANGED <<test, ctl, gidUp, groups, ngid, op, gid, want, state,
                 signals, fatal, missed>>

MainAction ==
  \/ Shutdown \/ DisconnectAll \/ StartServers \/ InitController \/ Recover(Main, "verify")
  \/ Verify \/ Heal \/ Get
  \/ Query(Main) \/ Post(Main) \/ Move(Main) \/ CheckLeave(Main) \/ ExitGroup(Main)

Next == MainAction \/ \E w \in Worker : WorkerStep(w)

Spec == Init /\ [][Next]_vars

\* Goroutines run, and the controller's methods return when the servers they need
\* can be reached.
FairSpec ==
  /\ Spec
  /\ WF_vars(MainAction)
  /\ \A w \in Worker : WF_vars(WorkerStep(w)) /\ SF_vars(Stop(w))

-----------------------------------------------------------------------------
(* Properties.                                                             *)

\* A controller that keeps its contract fails the test only if it was cut off with
\* no change under way: partitionCtrler's sleep was too short, and the test expects
\* a change of the new controller that nobody began.  Otherwise the configuration
\* is as expected wherever in its change a controller is cut off or superseded,
\* and no goroutine asks a group to leave that another had leave.
CorrectCtrlerPasses == fatal => missed

\* No configuration, current or under way, lists a group whose servers were shut
\* down for good: its shards would be lost and every Get of them would hang.
GroupsAlive == cfg.members \cup nxt.members \subseteq groups

\* The test ends: the stop signals find every goroutine, the new controller gets
\* through, and the keys can be read.
CtrlerTestEnds == <>(pc[Main] = "done")

=============================================================================
