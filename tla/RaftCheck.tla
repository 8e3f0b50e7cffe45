------------------------------ MODULE RaftCheck ------------------------------
(***************************************************************************)
(* How the Raft tests learn what each Raft peer applied, and judge it        *)
(* (raft1/server.go, proxy.go, test.go).  In the process of each server an   *)
(* applier reads the peer's apply channel and reports every command with a   *)
(* CheckLogs RPC, every snapshot with IngestLog, and what looks wrong with   *)
(* ApplyErr; the tester keeps a copy of each server's log and compares.      *)
(* Servers are shut down and restarted in the middle of all this.            *)
(* The Raft peer under test is not part of the repository: it appears as the *)
(* environment, with the contract of raftapi, which it may be made to break. *)
(***************************************************************************)
EXTENDS Naturals

CONSTANTS
  Srv,         \* the servers
  Cmd,         \* commands
  None,        \* no command, or no request
  MaxIndex,    \* bound on the length of the log
  MaxKill,     \* bound on the number of shutdowns
  Interval     \* SnapShotInterval

ASSUME BoundsAssumption == MaxIndex \in Nat /\ MaxKill \in Nat /\ Interval \in Nat \ {0}

Index == 1..MaxIndex
Log == [Index -> Cmd \cup {None}]
EmptyLog == [k \in Index |-> None]

\* A snapshot, decoded: its last index and the commands up to it.
Snap == [index : 0..MaxIndex, log : Log]
NoSnap == [index |-> 0, log |-> EmptyLog]

VARIABLES
  snapshot,     \* Test.snapshot: are snapshots on (applierSnap), or not (applier)?
  faulty,       \* may the peers apply different commands at the same index?
  committed,    \* the log the peers agree on
  commitIndex,  \* and how far it goes
  up, open,     \* does the server run, and is its connection to the tester open?
  copied,       \* does the tester have the Persister of the server it shuts down?
  life,         \* which of the server's processes runs
  next,         \* the next index the peer sends up
  persisted,    \* the snapshot in the server's Persister
  saved,        \* the one in the tester's copy of the Persister
  lastApplied, log,   \* rfsrv
  req,          \* the request the server's applier waits for, or None
  answer,       \* the tester's answer to it: "none" yet, "ok" or "bad"
  orphans,      \* requests whose server gave up on them, not yet handled
  logs,         \* the tester's copy of each server's committed entries
  applyErr,     \* was an error recorded for the server?
  late,         \* history: the kinds of requests of a process of the server that
                \* were handled when the next one ran
  kills

raftVars == <<committed, commitIndex>>
procVars == <<up, open, copied, life, saved>>
srvVars == <<procVars, next, persisted, lastApplied, log>>
rpcVars == <<req, answer, orphans>>
testVars == <<logs, applyErr, late>>
mode == <<snapshot, faulty>>
vars == <<mode, raftVars, srvVars, rpcVars, testVars, kills>>

\* With IngestLog, index is that of the snapshot, or 0 when ingestSnap refused it.
Kind == {"CheckLogs", "IngestLog", "ApplyErr"}
Request ==
  [kind : Kind, from : Srv, life : 0..MaxKill, index : 0..MaxIndex,
   cmd : Cmd \cup {None}, log : Log, sent : BOOLEAN]

ASSUME NoneAssumption == None \notin Cmd /\ None \notin Request

TypeOK ==
  /\ snapshot \in BOOLEAN /\ faulty \in BOOLEAN
  /\ committed \in Log /\ commitIndex \in 0..MaxIndex
  /\ \A k \in Index : committed[k] \in Cmd <=> k <= commitIndex
  /\ up \in [Srv -> BOOLEAN] /\ open \in [Srv -> BOOLEAN]
  /\ copied \in [Srv -> BOOLEAN] /\ life \in [Srv -> 0..MaxKill]
  /\ next \in [Srv -> 1..(MaxIndex + 1)]
  /\ persisted \in [Srv -> Snap] /\ saved \in [Srv -> Snap]
  /\ lastApplied \in [Srv -> 0..MaxIndex]
  /\ log \in [Srv -> Log]
  /\ req \in [Srv -> Request \cup {None}]
  /\ answer \in [Srv -> {"none", "ok", "bad"}]
  /\ orphans \subseteq Request
  /\ logs \in [Srv -> Log]
  /\ applyErr \in [Srv -> BOOLEAN] /\ late \in [Srv -> SUBSET Kind]
  /\ kills \in 0..MaxKill

\* A test is made with or without snapshots.  The wrong Raft is run without
\* shutdowns: see DisagreementCaught.
Init ==
  /\ snapshot \in BOOLEAN /\ faulty \in BOOLEAN
  /\ committed = EmptyLog /\ commitIndex = 0
  /\ up = [i \in Srv |-> TRUE] /\ open = [i \in Srv |-> TRUE]
  /\ copied = [i \in Srv |-> FALSE] /\ life = [i \in Srv |-> 0]
  /\ next = [i \in Srv |-> 1]
  /\ persisted = [i \in Srv |-> NoSnap] /\ saved = [i \in Srv |-> NoSnap]
  /\ lastApplied = [i \in Srv |-> 0]
  /\ log = [i \in Srv |-> EmptyLog]
  /\ req = [i \in Srv |-> None]
  /\ answer = [i \in Srv |-> "none"]
  /\ orphans = {}
  /\ logs = [i \in Srv |-> EmptyLog]
  /\ applyErr = [i \in Srv |-> FALSE] /\ late = [i \in Srv |-> {}]
  /\ kills = 0

-----------------------------------------------------------------------------
(* The environment: Raft.                                                  *)

Commit(cmd) ==
  /\ commitIndex < MaxIndex
  /\ commitIndex' = commitIndex + 1
  /\ committed' = [committed EXCEPT ![commitIndex + 1] = cmd]
  /\ UNCHANGED <<srvVars, rpcVars, testVars, kills>>

\* The first n entries of a log, and of the one committed.
Upto(l, n) == [k \in Index |-> IF k <= n THEN l[k] ELSE None]
Prefix(n) == Upto(committed, n)

\* A request over the connection to the tester; with the connection closed it
\* fails and is never handled.
Call(i, kind, k, cmd, l) ==
  /\ req' = [req EXCEPT ![i] = [kind |-> kind, from |-> i, life |-> life[i], index |-> k,
                                cmd |-> cmd, log |-> l, sent |-> open[i]]]
  /\ answer' = [answer EXCEPT ![i] = "none"]

-----------------------------------------------------------------------------
(* The applier of a server.                                                *)

\* applierSnap remembers the command and, at the interval, hands Raft a snapshot
\* of what it remembers.
Remember(i, k, cmd) ==
  LET l == [log[i] EXCEPT ![k] = cmd] IN
  /\ log' = [log EXCEPT ![i] = l]
  /\ lastApplied' = [lastApplied EXCEPT ![i] = k]
  /\ persisted' = IF (k + 1) % Interval = 0
                  THEN [persisted EXCEPT ![i] = [index |-> k, log |-> Upto(l, k)]]
                  ELSE persisted

\* A command from the apply channel.  applierSnap checks the order itself
\* before it asks the tester; a command out of order is still taken.
ApplyCommand(i) ==
  /\ up[i] /\ req[i] = None /\ next[i] <= commitIndex
  /\ \E cmd \in IF faulty THEN Cmd ELSE {committed[next[i]]} :
       IF snapshot /\ next[i] # lastApplied[i] + 1
       THEN /\ Remember(i, next[i], cmd)
            /\ Call(i, "ApplyErr", next[i], cmd, EmptyLog)
       ELSE /\ Call(i, "CheckLogs", next[i], cmd, EmptyLog)
            /\ UNCHANGED <<log, lastApplied, persisted>>
  /\ next' = [next EXCEPT ![i] = @ + 1]
  /\ UNCHANGED <<raftVars, procVars, orphans, testVars, kills>>

\* Mutant: lastApplied is not moved up.
ingestSnap_Stale(i, s, ok) ==
  /\ log' = IF ok THEN [log EXCEPT ![i] = s.log] ELSE log
  /\ UNCHANGED lastApplied

\* ingestSnap takes what the snapshot holds or, when the peer names another index
\* or sends no snapshot up (~ ok), nothing.
ingestSnap(i, s, ok) ==
  /\ log' = IF ok THEN [log EXCEPT ![i] = s.log] ELSE log
  /\ lastApplied' = IF ok THEN [lastApplied EXCEPT ![i] = s.index] ELSE lastApplied

\* The peer got another peer's snapshot: it persists it and sends it up, and a
\* wrong one may send up something else; ingestSnap and IngestLog.
ApplySnapshot(i) ==
  /\ snapshot /\ up[i] /\ req[i] = None
  /\ \E j \in Srv \ {i}, ok \in IF faulty THEN BOOLEAN ELSE {TRUE} :
       LET s == persisted[j] IN
       /\ up[j] /\ s.index >= next[i]
       /\ persisted' = [persisted EXCEPT ![i] = s]
       /\ next' = [next EXCEPT ![i] = s.index + 1]
       /\ ingestSnap(i, s, ok)
       /\ Call(i, "IngestLog", IF ok THEN s.index ELSE 0, None, IF ok THEN s.log ELSE log[i])
  /\ UNCHANGED <<raftVars, procVars, orphans, testVars, kills>>

\* The applier goes on to the next message.
Done(i) ==
  /\ req' = [req EXCEPT ![i] = None]
  /\ answer' = [answer EXCEPT ![i] = "none"]

\* Mutant: a command that was not reported is not remembered.
FinishCommand_Skip(i, err) ==
  LET k == req[i].index IN
  /\ IF snapshot THEN Remember(i, k, IF err THEN log[i][k] ELSE req[i].cmd)
     ELSE UNCHANGED <<log, lastApplied, persisted>>
  /\ IF err THEN Call(i, "ApplyErr", k, None, EmptyLog) ELSE Done(i)

\* The rest of an iteration, once CheckLogs has returned: remember the command,
\* take a snapshot, report an error.  ErrRPC leaves prevok false, which applier
\* takes for an error, and applierSnap for ErrRPC.
FinishCommand(i, err) ==
  LET k == req[i].index IN
  /\ IF snapshot THEN Remember(i, k, req[i].cmd)
     ELSE UNCHANGED <<log, lastApplied, persisted>>
  /\ IF err THEN Call(i, "ApplyErr", k, None, EmptyLog) ELSE Done(i)

\* Once IngestLog has returned, an error of ingestSnap is reported.
FinishSnapshot(i) ==
  /\ IF req[i].index = 0 THEN Call(i, "ApplyErr", 0, None, EmptyLog) ELSE Done(i)
  /\ UNCHANGED <<log, lastApplied, persisted>>

Finish(i, err) ==
  /\ CASE req[i].kind = "CheckLogs" -> FinishCommand(i, err)
       [] req[i].kind = "IngestLog" -> FinishSnapshot(i)
       [] req[i].kind = "ApplyErr" -> Done(i) /\ UNCHANGED <<log, lastApplied, persisted>>
  /\ UNCHANGED <<raftVars, procVars, next, testVars, kills>>

Returns(i) ==
  /\ up[i] /\ req[i] # None /\ answer[i] # "none"
  /\ Finish(i, answer[i] = "bad")
  /\ UNCHANGED orphans

\* The connection is closed: ErrRPC.  The tester may have started to handle the
\* request already, and may finish it later.
Abandoned(i) ==
  IF req[i] # None /\ req[i].sent /\ answer[i] = "none"
  THEN orphans' \in {orphans, orphans \cup {req[i]}}
  ELSE UNCHANGED orphans

Fails(i) ==
  /\ up[i] /\ req[i] # None /\ ~ open[i]
  /\ Abandoned(i)
  /\ Finish(i, TRUE)

-----------------------------------------------------------------------------
(* The tester.                                                             *)

\* CheckLogs's second test: the copy of the server's log has nothing before the
\* command.
NoPrev(r) == r.index > 1 /\ logs[r.from][r.index - 1] = None

\* Mutant: a command is compared with the same server's only.
Verdict_Own(r) ==
  IF r.kind = "CheckLogs" /\ (logs[r.from][r.index] \notin {None, r.cmd} \/ NoPrev(r))
  THEN "bad" ELSE "ok"

\* The reply to a request; only CheckLogs has something to object to: a server,
\* i included, with another command at the index, or nothing before it.
Verdict(r) ==
  IF /\ r.kind = "CheckLogs"
     /\ \/ \E j \in Srv : logs[j][r.index] \notin {None, r.cmd}
        \/ NoPrev(r)
  THEN "bad" ELSE "ok"

CheckLogs(r) ==
  /\ logs' = [logs EXCEPT ![r.from][r.index] = r.cmd]
  /\ UNCHANGED applyErr

\* Mutant: only the last entry of the snapshot is copied.
IngestLog_Last(r) ==
  /\ logs' = [logs EXCEPT ![r.from] = [k \in Index |-> IF k = r.index THEN r.log[k] ELSE None]]
  /\ UNCHANGED applyErr

IngestLog(r) ==
  /\ logs' = [logs EXCEPT ![r.from] = r.log]
  /\ UNCHANGED applyErr

ApplyErr(r) ==
  /\ applyErr' = [applyErr EXCEPT ![r.from] = TRUE]
  /\ UNCHANGED logs

Handle(r) ==
  CASE r.kind = "CheckLogs" -> CheckLogs(r)
    [] r.kind = "IngestLog" -> IngestLog(r)
    [] r.kind = "ApplyErr" -> ApplyErr(r)

HandleRequest(i) ==
  /\ req[i] # None /\ req[i].sent /\ answer[i] = "none"
  /\ Handle(req[i])
  /\ answer' = [answer EXCEPT ![i] = Verdict(req[i])]
  /\ UNCHANGED <<raftVars, srvVars, req, orphans, late, kills>>

\* Nobody waits for the reply.  The server may run again, as another process.
HandleOrphan(r) ==
  /\ Handle(r)
  /\ orphans' = orphans \ {r}
  /\ late' = IF r.life = life[r.from] THEN late
             ELSE [late EXCEPT ![r.from] = @ \cup {r.kind}]
  /\ UNCHANGED <<raftVars, srvVars, req, answer, kills>>

\* ts.kill asks for the Persister, and CheckpointPersister closes the connection
\* first;
CloseConn(i) ==
  /\ up[i] /\ open[i] /\ kills < MaxKill /\ ~ faulty
  /\ open' = [open EXCEPT ![i] = FALSE]
  /\ kills' = kills + 1
  /\ UNCHANGED <<raftVars, up, copied, life, saved, next, persisted, lastApplied, log,
                 rpcVars, testVars>>

\* then it copies the Persister.  The server goes on, until it is killed.
Checkpoint(i) ==
  /\ up[i] /\ ~ open[i] /\ ~ copied[i]
  /\ copied' = [copied EXCEPT ![i] = TRUE]
  /\ saved' = [saved EXCEPT ![i] = persisted[i]]
  /\ UNCHANGED <<raftVars, up, open, life, next, persisted, lastApplied, log, rpcVars,
                 testVars, kills>>

Kill(i) ==
  /\ up[i] /\ copied[i]
  /\ up' = [up EXCEPT ![i] = FALSE]
  /\ Abandoned(i)
  /\ Done(i)
  /\ UNCHANGED <<raftVars, open, copied, life, saved, next, persisted, lastApplied, log,
                 testVars, kills>>

\* ts.restart and newRfsrv: another process, named after the shutdowns so far; a
\* saved snapshot is ingested first.
Restart(i) ==
  LET s == saved[i] IN
  /\ ~ up[i]
  /\ up' = [up EXCEPT ![i] = TRUE] /\ open' = [open EXCEPT ![i] = TRUE]
  /\ copied' = [copied EXCEPT ![i] = FALSE] /\ life' = [life EXCEPT ![i] = kills]
  /\ next' = [next EXCEPT ![i] = s.index + 1]
  /\ persisted' = [persisted EXCEPT ![i] = s]
  /\ log' = [log EXCEPT ![i] = s.log]
  /\ lastApplied' = [lastApplied EXCEPT ![i] = s.index]
  /\ req' = [req EXCEPT ![i] =
               IF s.index = 0 THEN None
               ELSE [kind |-> "IngestLog", from |-> i, life |-> kills, index |-> s.index,
                     cmd |-> None, log |-> s.log, sent |-> TRUE]]
  /\ UNCHANGED <<raftVars, saved, answer, orphans, testVars, kills>>

-----------------------------------------------------------------------------
Next ==
  /\ \/ \E cmd \in Cmd : Commit(cmd)
     \/ \E i \in Srv :
          \/ ApplyCommand(i) \/ ApplySnapshot(i) \/ Returns(i) \/ Fails(i)
          \/ HandleRequest(i)
          \/ CloseConn(i) \/ Checkpoint(i) \/ Kill(i) \/ Restart(i)
     \/ \E r \in orphans : HandleOrphan(r)
  /\ UNCHANGED mode

Spec == Init /\ [][Next]_vars

-----------------------------------------------------------------------------
(* Properties.                                                             *)

\* A correct Raft is blamed in one case only: a snapshot that a process of the
\* server had sent is ingested after the next process has started, and takes away
\* what that one reported.  Otherwise no error is recorded whatever servers are
\* shut down, restarted, replay their log or start from a snapshot, although a
\* lost CheckLogs looks to the applier like a command out of order.
NoFalseAlarm ==
  ~ faulty => \A i \in Srv : applyErr[i] => "IngestLog" \in late[i]

\* nCommitted stops the test when two servers' entries at an index differ; with
\* a correct Raft, what the tester has is what was committed.  There are no holes
\* (`one' and `wait' count on it) unless a request is handled after the restart
\* of its server, which nothing in the tester waits for.
CopiesCommitted ==
  ~ faulty =>
    \A i \in Srv :
      /\ \A k \in Index : logs[i][k] \in {None, committed[k]}
      /\ late[i] = {} => \E n \in 0..commitIndex : logs[i] = Prefix(n)

\* A snapshot that a server hands to Raft holds every command up to its index, and
\* so does the applier's own log, after restarts and snapshots of others, and when
\* the connection was closed under it.
SnapshotComplete ==
  snapshot /\ ~ faulty =>
    \A i \in Srv :
      /\ log[i] = Prefix(lastApplied[i])
      /\ persisted[i].index <= commitIndex /\ persisted[i].log = Prefix(persisted[i].index)

\* raft1/test.go:281-283: the servers' agreement is checked by "the threads that
\* read from applyCh".  Two servers that applied different commands at an index
\* cannot both go on: an error is recorded, or on its way.  (Without snapshots,
\* which IngestLog does not compare, and while no server is shut down, which
\* closes the connection the error would take.)
Disagree ==
  \E i, j \in Srv, k \in Index :
    logs[i][k] # None /\ logs[j][k] # None /\ logs[i][k] # logs[j][k]
DisagreementCaught ==
  Disagree /\ ~ snapshot =>
    \E i \in Srv :
      \/ applyErr[i]
      \/ answer[i] = "bad"
      \/ req[i] # None /\ req[i].kind = "ApplyErr"

=============================================================================
