---------------------------- MODULE RaftOneProofs ----------------------------
(* What the tester of the Raft labs concludes, for any number of servers and *)
(* any length of the log.                                                    *)
EXTENDS RaftOne, TLAPS

\* The fields of a request, and of a snapshot.
LEMMA RequestFields ==
  \A r \in Request :
    /\ r.kind \in {"CheckLogs", "IngestLog", "ApplyErr"} /\ r.kind \in Kind
    /\ r.from \in Srv /\ r.life \in 0..MaxKill
    /\ r.index \in 0..MaxIndex /\ r.cmd \in Cmd \cup {None}
    /\ r.log \in Log /\ r.sent \in BOOLEAN
  BY DEF Request, Kind

LEMMA SnapFields == \A s \in Snap : s.index \in 0..MaxIndex /\ s.log \in Log
  BY DEF Snap

\* What the applier sends is a request.
LEMMA RequestMade ==
  ASSUME NEW kd \in Kind, NEW i \in Srv, NEW f \in 0..MaxKill,
         NEW k \in 0..MaxIndex, NEW c \in Cmd \cup {None}, NEW l \in Log,
         NEW b \in BOOLEAN
  PROVE  [kind |-> kd, from |-> i, life |-> f, index |-> k, cmd |-> c, log |-> l,
          sent |-> b] \in Request
  BY DEF Request

\* An index of the log, and the numbers next to it.
LEMMA Indices ==
  /\ \A k : k \in Index <=> k \in Nat /\ 1 <= k /\ k <= MaxIndex
  /\ \A k \in 0..MaxIndex : k \in Nat /\ (k # 0 => k \in Index)
  BY BoundsAssumption DEF Index

\* The beginning of a log is a log, that of the committed one in particular.
LEMMA UptoType == ASSUME NEW l \in Log, NEW n PROVE Upto(l, n) \in Log
  BY Zenon DEF Upto, Log

LEMMA PrefixType == ASSUME TypeOK, NEW n \in Nat PROVE Prefix(n) \in Log
  BY UptoType, Zenon DEF TypeOK, Prefix

LEMMA EmptyLogType == EmptyLog \in Log
  BY Zenon DEF EmptyLog, Log

\* A call of the applier leaves a request to wait for.
Called(i, kd, k, c, l) ==
  /\ req' \in [Srv -> Request \cup {None}]
  /\ answer' \in [Srv -> {"none", "ok", "bad"}]
  /\ req'[i] \in Request
  /\ req'[i].kind = kd /\ req'[i].from = i /\ req'[i].life = life[i] /\ req'[i].index = k
  /\ req'[i].cmd = c /\ req'[i].log = l /\ req'[i].sent = open[i]
  /\ answer'[i] = "none"
  /\ \A j \in Srv : j # i => req'[j] = req[j] /\ answer'[j] = answer[j]

\* Call does that.
LEMMA CallType ==
  ASSUME TypeOK, NEW i \in Srv, NEW kd \in Kind,
         NEW k \in 0..MaxIndex, NEW c \in Cmd \cup {None}, NEW l \in Log,
         Call(i, kd, k, c, l)
  PROVE  Called(i, kd, k, c, l)
<1> DEFINE r == [kind |-> kd, from |-> i, life |-> life[i], index |-> k, cmd |-> c,
                 log |-> l, sent |-> open[i]]
<1>1. /\ r.kind = kd /\ r.from = i /\ r.life = life[i] /\ r.index = k /\ r.cmd = c
      /\ r.log = l /\ r.sent = open[i]
  BY Zenon
<1>2. r \in Request
  <2>1. open[i] \in BOOLEAN /\ life[i] \in 0..MaxKill
    BY Zenon DEF TypeOK
  <2> QED BY <2>1, RequestMade, Zenon
<1>3. req' = [req EXCEPT ![i] = r] /\ answer' = [answer EXCEPT ![i] = "none"]
  BY Zenon DEF Call
<1> HIDE DEF r
<1>4. req' \in [Srv -> Request \cup {None}] /\ req'[i] = r
      /\ \A j \in Srv : j # i => req'[j] = req[j]
  BY <1>2, <1>3, Zenon DEF TypeOK
<1>5. answer' \in [Srv -> {"none", "ok", "bad"}] /\ answer'[i] = "none"
      /\ \A j \in Srv : j # i => answer'[j] = answer[j]
  BY <1>3, Zenon DEF TypeOK
<1> QED BY <1>1, <1>2, <1>4, <1>5, Zenon DEF Called

\* What Remember leaves.
Remembered(i, k, c) ==
  /\ log' \in [Srv -> Log] /\ lastApplied' \in [Srv -> 0..MaxIndex]
  /\ persisted' \in [Srv -> Snap]
  /\ log'[i] = [log[i] EXCEPT ![k] = c] /\ lastApplied'[i] = k
  /\ \/ persisted'[i] = persisted[i]
     \/ persisted'[i].index = k /\ persisted'[i].log = Upto(log'[i], k)
  /\ \A j \in Srv : j # i => /\ log'[j] = log[j] /\ lastApplied'[j] = lastApplied[j]
                             /\ persisted'[j] = persisted[j]

LEMMA RememberEffect ==
  ASSUME TypeOK, NEW i \in Srv, NEW k \in 0..MaxIndex, NEW c \in Cmd \cup {None},
         Remember(i, k, c)
  PROVE  Remembered(i, k, c)
<1> DEFINE l == [log[i] EXCEPT ![k] = c]
           s == [index |-> k, log |-> Upto(l, k)]
<1>1. l \in Log
  BY Zenon DEF TypeOK, Log
<1>2. /\ log' = [log EXCEPT ![i] = l] /\ lastApplied' = [lastApplied EXCEPT ![i] = k]
      /\ persisted' = [persisted EXCEPT ![i] = s] \/ persisted' = persisted
  BY Zenon DEF Remember
<1>3. s \in Snap /\ s.index = k /\ s.log = Upto(l, k)
  <2>1. Upto(l, k) \in Log
    BY <1>1, UptoType, Zenon
  <2> HIDE DEF l
  <2> QED BY <2>1 DEF Snap
<1> HIDE DEF l, s
<1>4. log' \in [Srv -> Log] /\ log'[i] = l /\ \A j \in Srv : j # i => log'[j] = log[j]
  BY <1>1, <1>2, Zenon DEF TypeOK
<1>5. /\ lastApplied' \in [Srv -> 0..MaxIndex] /\ lastApplied'[i] = k
      /\ \A j \in Srv : j # i => lastApplied'[j] = lastApplied[j]
  BY <1>2, Zenon DEF TypeOK
<1>6. /\ persisted' \in [Srv -> Snap] /\ persisted'[i] \in {persisted[i], s}
      /\ \A j \in Srv : j # i => persisted'[j] = persisted[j]
  BY <1>2, <1>3, ZenonT(40) DEF TypeOK
<1> QED BY <1>3, <1>4, <1>5, <1>6, Zenon DEF Remembered, l

-----------------------------------------------------------------------------
(* What each step does, and to which server.                                *)

\* The step leaves server j, its request and the tester's copy of it alone.
Same(j) ==
  /\ up'[j] = up[j] /\ open'[j] = open[j] /\ copied'[j] = copied[j] /\ life'[j] = life[j]
  /\ next'[j] = next[j] /\ persisted'[j] = persisted[j] /\ saved'[j] = saved[j]
  /\ lastApplied'[j] = lastApplied[j] /\ log'[j] = log[j]
  /\ req'[j] = req[j] /\ answer'[j] = answer[j]
  /\ logs'[j] = logs[j] /\ applyErr'[j] = applyErr[j] /\ late'[j] = late[j]

\* A step of server i, or of the tester for it.
OnlyAt(i) == \A j \in Srv : j # i => Same(j)

\* Raft commits a command: the log grows by one.
LEMMA CommitEffect ==
  ASSUME TypeOK, NEW c \in Cmd, Commit(c), UNCHANGED mode
  PROVE  /\ TypeOK' /\ commitIndex' = commitIndex + 1
         /\ \A k \in Index : k <= commitIndex => committed'[k] = committed[k]
<1>1. commitIndex + 1 \in Index /\ commitIndex \in Nat
  <2>1. commitIndex \in 0..MaxIndex /\ commitIndex < MaxIndex
    BY Zenon DEF TypeOK, Commit
  <2> QED BY <2>1, Indices, BoundsAssumption
<1>2. /\ committed' \in Log /\ committed'[commitIndex + 1] = c
      /\ \A k \in Index : k # commitIndex + 1 => committed'[k] = committed[k]
  BY <1>1, Zenon DEF TypeOK, Commit, Log
<1>3. \A k \in Index : k <= commitIndex => k # commitIndex + 1
  BY <1>1, Indices
<1>4. commitIndex' \in 0..MaxIndex /\ commitIndex' = commitIndex + 1
  BY <1>1, Indices DEF Commit
<1>5. \A k \in Index : committed'[k] \in Cmd <=> k <= commitIndex'
  <2> SUFFICES ASSUME NEW k \in Index PROVE committed'[k] \in Cmd <=> k <= commitIndex'
    BY Zenon
  <2>1. CASE k = commitIndex + 1
    BY <1>1, <1>2, <1>4, <2>1
  <2>2. CASE k # commitIndex + 1
    <3>1. committed[k] \in Cmd <=> k <= commitIndex
      BY Zenon DEF TypeOK
    <3>2. k <= commitIndex <=> k <= commitIndex'
      BY <1>1, <1>4, <2>2, Indices
    <3> QED BY <1>2, <2>2, <3>1, <3>2, Zenon
  <2> QED BY <2>1, <2>2, Zenon
<1>6. TypeOK'
  BY <1>2, <1>4, <1>5, Zenon DEF TypeOK, Commit, mode, srvVars, procVars, rpcVars, testVars
<1> QED BY <1>2, <1>3, <1>4, <1>6, Zenon

\* A command from the apply channel, with the order that applierSnap expects or
\* without snapshots.
LEMMA ApplyCommandEffect ==
  ASSUME TypeOK, NEW i \in Srv, ApplyCommand(i), UNCHANGED mode
  PROVE  /\ TypeOK' /\ OnlyAt(i)
         /\ up[i] /\ req[i] = None /\ next[i] <= commitIndex
         /\ next'[i] = next[i] + 1 /\ req'[i] \in Request
         /\ req'[i].from = i /\ req'[i].life = life[i] /\ req'[i].index = next[i]
         /\ req'[i].sent = open[i] /\ answer'[i] = "none"
         /\ ~ faulty => req'[i].cmd = committed[next[i]]
         /\ ~ (snapshot /\ next[i] # lastApplied[i] + 1) =>
              req'[i].kind = "CheckLogs" /\ UNCHANGED <<log, lastApplied, persisted>>
         /\ UNCHANGED <<raftVars, procVars, orphans, testVars>>
<1>1. PICK c \in IF faulty THEN Cmd ELSE {committed[next[i]]} :
         IF snapshot /\ next[i] # lastApplied[i] + 1
         THEN /\ Remember(i, next[i], c)
              /\ Call(i, "ApplyErr", next[i], c, EmptyLog)
         ELSE /\ Call(i, "CheckLogs", next[i], c, EmptyLog)
              /\ UNCHANGED <<log, lastApplied, persisted>>
  BY Zenon DEF ApplyCommand
<1>2. /\ up[i] /\ req[i] = None /\ next[i] <= commitIndex
      /\ next' = [next EXCEPT ![i] = @ + 1]
      /\ UNCHANGED <<committed, commitIndex, up, open, copied, life, saved, orphans, logs,
                     applyErr, late, kills, snapshot, faulty>>
  BY Zenon DEF ApplyCommand, raftVars, procVars, testVars, mode
<1>3. next[i] \in Index /\ next[i] \in 0..MaxIndex /\ next[i] + 1 \in 1..(MaxIndex + 1)
  <2>1. next[i] \in 1..(MaxIndex + 1) /\ commitIndex \in 0..MaxIndex
    BY Zenon DEF TypeOK
  <2> QED BY <1>2, <2>1, Indices, BoundsAssumption
<1>4. c \in Cmd /\ (~ faulty => c = committed[next[i]])
  BY <1>1, <1>2, <1>3, Zenon DEF TypeOK
<1>5. /\ req' \in [Srv -> Request \cup {None}]
      /\ answer' \in [Srv -> {"none", "ok", "bad"}]
      /\ req'[i] \in Request
      /\ req'[i].from = i /\ req'[i].life = life[i] /\ req'[i].index = next[i]
      /\ req'[i].cmd = c /\ req'[i].sent = open[i] /\ answer'[i] = "none"
      /\ \A j \in Srv : j # i => req'[j] = req[j] /\ answer'[j] = answer[j]
      /\ ~ (snapshot /\ next[i] # lastApplied[i] + 1) =>
           req'[i].kind = "CheckLogs" /\ UNCHANGED <<log, lastApplied, persisted>>
  <2>1. c \in Cmd \cup {None} /\ "ApplyErr" \in Kind /\ "CheckLogs" \in Kind
    BY <1>4, Zenon DEF Kind
  <2>2. CASE snapshot /\ next[i] # lastApplied[i] + 1
    <3>1. Call(i, "ApplyErr", next[i], c, EmptyLog)
      BY <1>1, <2>2, Zenon
    <3>2. Called(i, "ApplyErr", next[i], c, EmptyLog)
      BY <1>3, <2>1, <3>1, CallType, EmptyLogType, Zenon
    <3> QED BY <2>2, <3>2, Zenon DEF Called
  <2>3. CASE ~ (snapshot /\ next[i] # lastApplied[i] + 1)
    <3>1. Call(i, "CheckLogs", next[i], c, EmptyLog) /\ UNCHANGED <<log, lastApplied, persisted>>
      BY <1>1, <2>3, Zenon
    <3>2. Called(i, "CheckLogs", next[i], c, EmptyLog)
      BY <1>3, <2>1, <3>1, CallType, EmptyLogType, Zenon
    <3> QED BY <2>3, <3>1, <3>2, Zenon DEF Called
  <2> QED BY <2>2, <2>3, Zenon
<1>6. next' \in [Srv -> 1..(MaxIndex + 1)] /\ next'[i] = next[i] + 1
      /\ \A j \in Srv : j # i => next'[j] = next[j]
  BY <1>2, <1>3, Zenon DEF TypeOK
<1>7. /\ log' \in [Srv -> Log] /\ lastApplied' \in [Srv -> 0..MaxIndex]
      /\ persisted' \in [Srv -> Snap]
      /\ \A j \in Srv : j # i => /\ log'[j] = log[j] /\ lastApplied'[j] = lastApplied[j]
                                 /\ persisted'[j] = persisted[j]
  <2>1. CASE snapshot /\ next[i] # lastApplied[i] + 1
    <3>1. Remember(i, next[i], c) /\ c \in Cmd \cup {None}
      BY <1>1, <1>4, <2>1, Zenon
    <3>2. Remembered(i, next[i], c)
      BY <1>3, <3>1, RememberEffect, Zenon
    <3> QED BY <3>2, Zenon DEF Remembered
  <2>2. CASE ~ (snapshot /\ next[i] # lastApplied[i] + 1)
    BY <1>1, <2>2, Zenon DEF TypeOK
  <2> QED BY <2>1, <2>2, Zenon
<1>8. TypeOK'
  BY <1>2, <1>5, <1>6, <1>7, Zenon DEF TypeOK
<1>9. OnlyAt(i)
  BY <1>2, <1>5, <1>6, <1>7, Zenon DEF OnlyAt, Same
<1> QED BY <1>2, <1>4, <1>5, <1>6, <1>8, <1>9, Zenon DEF raftVars, procVars, testVars

\* The peer gets a snapshot of another one.
LEMMA ApplySnapshotEffect ==
  ASSUME TypeOK, NEW i \in Srv, ApplySnapshot(i), UNCHANGED mode
  PROVE  /\ TypeOK' /\ OnlyAt(i)
         /\ snapshot /\ up[i] /\ req[i] = None
         /\ ~ faulty => \E j \in Srv :
              /\ persisted[j].index \in Index
              /\ persisted'[i] = persisted[j] /\ lastApplied'[i] = persisted[j].index
              /\ log'[i] = persisted[j].log
              /\ next'[i] = persisted[j].index + 1
              /\ req'[i].index = persisted[j].index /\ req'[i].log = persisted[j].log
         /\ req'[i] \in Request /\ req'[i].kind = "IngestLog" /\ req'[i].from = i
         /\ req'[i].life = life[i] /\ req'[i].sent = open[i] /\ answer'[i] = "none"
         /\ UNCHANGED <<raftVars, procVars, orphans, testVars>>
<1>1. PICK j \in Srv, ok \in IF faulty THEN BOOLEAN ELSE {TRUE} :
         /\ persisted[j].index >= next[i]
         /\ persisted' = [persisted EXCEPT ![i] = persisted[j]]
         /\ next' = [next EXCEPT ![i] = persisted[j].index + 1]
         /\ ingestSnap(i, persisted[j], ok)
         /\ Call(i, "IngestLog", IF ok THEN persisted[j].index ELSE 0, None,
                 IF ok THEN persisted[j].log ELSE log[i])
  BY Zenon DEF ApplySnapshot
<1>2. /\ snapshot /\ up[i] /\ req[i] = None
      /\ UNCHANGED <<committed, commitIndex, up, open, copied, life, saved, orphans, logs,
                     applyErr, late, kills, snapshot, faulty>>
  BY Zenon DEF ApplySnapshot, raftVars, procVars, testVars, mode
<1> DEFINE n == persisted[j].index
           k == IF ok THEN n ELSE 0
           l == IF ok THEN persisted[j].log ELSE log[i]
<1>3. persisted[j] \in Snap /\ n \in 0..MaxIndex /\ persisted[j].log \in Log
  BY SnapFields, Zenon DEF TypeOK
<1>4. n \in Index /\ n + 1 \in 1..(MaxIndex + 1)
  <2>1. next[i] \in 1..(MaxIndex + 1) /\ n >= next[i]
    BY <1>1, Zenon DEF TypeOK
  <2> HIDE DEF n
  <2> QED BY <1>3, <2>1, Indices, BoundsAssumption
<1>5. k \in 0..MaxIndex /\ l \in Log /\ None \in Cmd \cup {None} /\ "IngestLog" \in Kind
  <2>1. 0 \in 0..MaxIndex
    BY BoundsAssumption
  <2> QED BY <1>3, <2>1, Zenon DEF TypeOK, Kind
<1>6. Call(i, "IngestLog", k, None, l)
  BY <1>1, Zenon
<1>7. /\ log' = IF ok THEN [log EXCEPT ![i] = persisted[j].log] ELSE log
      /\ lastApplied' = IF ok THEN [lastApplied EXCEPT ![i] = n] ELSE lastApplied
  BY <1>1, Zenon DEF ingestSnap
<1>8. ~ faulty => ok
  BY <1>1, Zenon
<1>9. ok => k = n /\ l = persisted[j].log
  BY Zenon
<1> HIDE DEF n, k, l
<1>10. /\ req' \in [Srv -> Request \cup {None}]
       /\ answer' \in [Srv -> {"none", "ok", "bad"}]
       /\ req'[i] \in Request
       /\ req'[i].kind = "IngestLog" /\ req'[i].from = i /\ req'[i].life = life[i]
       /\ req'[i].index = k /\ req'[i].log = l
       /\ req'[i].sent = open[i] /\ answer'[i] = "none"
       /\ \A m \in Srv : m # i => req'[m] = req[m] /\ answer'[m] = answer[m]
  <2>1. Called(i, "IngestLog", k, None, l)
    BY <1>5, <1>6, CallType, Zenon
  <2> QED BY <2>1, Zenon DEF Called
<1>11. /\ log' \in [Srv -> Log] /\ lastApplied' \in [Srv -> 0..MaxIndex]
       /\ ok => log'[i] = persisted[j].log /\ lastApplied'[i] = n
       /\ \A m \in Srv : m # i => log'[m] = log[m] /\ lastApplied'[m] = lastApplied[m]
  <2>1. CASE ok
    BY <1>3, <1>7, <2>1, Zenon DEF TypeOK
  <2>2. CASE ~ ok
    BY <1>7, <2>2, Zenon DEF TypeOK
  <2> QED BY <2>1, <2>2, Zenon
<1>12. /\ next' \in [Srv -> 1..(MaxIndex + 1)] /\ next'[i] = n + 1
       /\ persisted' \in [Srv -> Snap] /\ persisted'[i] = persisted[j]
       /\ \A m \in Srv : m # i => next'[m] = next[m] /\ persisted'[m] = persisted[m]
  BY <1>1, <1>3, <1>4, Zenon DEF TypeOK, n
<1>13. TypeOK'
  BY <1>2, <1>10, <1>11, <1>12, Zenon DEF TypeOK
<1>14. OnlyAt(i)
  BY <1>2, <1>10, <1>11, <1>12, Zenon DEF OnlyAt, Same
<1>15. ~ faulty =>
         /\ persisted[j].index \in Index
         /\ persisted'[i] = persisted[j] /\ lastApplied'[i] = persisted[j].index
         /\ log'[i] = persisted[j].log
         /\ next'[i] = persisted[j].index + 1
         /\ req'[i].index = persisted[j].index /\ req'[i].log = persisted[j].log
  BY <1>4, <1>8, <1>9, <1>10, <1>11, <1>12, Zenon DEF n
<1> QED BY <1>2, <1>10, <1>13, <1>14, <1>15, Zenon DEF raftVars, procVars, testVars

\* When the applier reports an error at the end of an iteration.
Reports(i, e) == \/ req[i].kind = "CheckLogs" /\ e
                 \/ req[i].kind = "IngestLog" /\ req[i].index = 0

\* The end of an iteration of the applier.
LEMMA FinishEffect ==
  ASSUME TypeOK, NEW i \in Srv, NEW e \in BOOLEAN, req[i] \in Request, Finish(i, e),
         orphans' \subseteq Request, UNCHANGED mode
  PROVE  /\ TypeOK' /\ OnlyAt(i)
         /\ answer'[i] = "none"
         /\ ~ Reports(i, e) => req'[i] = None
         /\ Reports(i, e) =>
              /\ req'[i] \in Request /\ req'[i].kind = "ApplyErr" /\ req'[i].from = i
              /\ req'[i].life = life[i] /\ req'[i].sent = open[i]
              /\ req'[i].index = req[i].index
         /\ req[i].kind = "CheckLogs" /\ snapshot =>
              /\ log'[i] = [log[i] EXCEPT ![req[i].index] = req[i].cmd]
              /\ lastApplied'[i] = req[i].index
              /\ \/ persisted'[i] = persisted[i]
                 \/ /\ persisted'[i].index = req[i].index
                    /\ persisted'[i].log = Upto(log'[i], req[i].index)
         /\ ~ (req[i].kind = "CheckLogs" /\ snapshot) =>
              UNCHANGED <<log, lastApplied, persisted>>
         /\ UNCHANGED <<raftVars, procVars, next, testVars>>
<1> DEFINE k == req[i].index
           c == req[i].cmd
<1>1. /\ k \in 0..MaxIndex /\ c \in Cmd \cup {None}
      /\ req[i].kind \in {"CheckLogs", "IngestLog", "ApplyErr"}
  BY RequestFields, Zenon
<1>2. UNCHANGED <<committed, commitIndex, up, open, copied, life, saved, next, logs,
                  applyErr, late, kills, snapshot, faulty>>
  BY Zenon DEF Finish, raftVars, procVars, testVars, mode
<1>3. /\ req[i].kind = "CheckLogs" => FinishCommand(i, e)
      /\ req[i].kind = "IngestLog" => FinishSnapshot(i)
      /\ req[i].kind = "ApplyErr" => Done(i) /\ UNCHANGED <<log, lastApplied, persisted>>
  <2>1. CASE req[i].kind = "CheckLogs"
    BY <2>1, Zenon DEF Finish
  <2>2. CASE req[i].kind = "IngestLog"
    BY <2>2, Zenon DEF Finish
  <2>3. CASE req[i].kind = "ApplyErr"
    BY <2>3, Zenon DEF Finish
  <2> QED BY <1>1, <2>1, <2>2, <2>3, Zenon
<1>4. /\ log' \in [Srv -> Log] /\ lastApplied' \in [Srv -> 0..MaxIndex]
      /\ persisted' \in [Srv -> Snap]
      /\ \A j \in Srv : j # i =>
           /\ log'[j] = log[j] /\ lastApplied'[j] = lastApplied[j]
           /\ persisted'[j] = persisted[j]
      /\ req[i].kind = "CheckLogs" /\ snapshot =>
           /\ log'[i] = [log[i] EXCEPT ![k] = c] /\ lastApplied'[i] = k
           /\ \/ persisted'[i] = persisted[i]
              \/ persisted'[i].index = k /\ persisted'[i].log = Upto(log'[i], k)
      /\ ~ (req[i].kind = "CheckLogs" /\ snapshot) =>
           UNCHANGED <<log, lastApplied, persisted>>
  <2>1. CASE req[i].kind = "CheckLogs" /\ snapshot
    <3>1. Remember(i, k, c)
      BY <1>3, <2>1, Zenon DEF FinishCommand
    <3>2. Remembered(i, k, c)
      BY <1>1, <3>1, RememberEffect, Zenon
    <3> QED BY <2>1, <3>2, Zenon DEF Remembered
  <2>2. CASE ~ (req[i].kind = "CheckLogs" /\ snapshot)
    <3>1. UNCHANGED <<log, lastApplied, persisted>>
      BY <1>1, <1>3, <2>2, Zenon DEF FinishCommand, FinishSnapshot
    <3> QED BY <2>2, <3>1, Zenon DEF TypeOK
  <2> QED BY <2>1, <2>2, Zenon
<1>5. /\ req' \in [Srv -> Request \cup {None}]
      /\ answer' \in [Srv -> {"none", "ok", "bad"}] /\ answer'[i] = "none"
      /\ ~ Reports(i, e) => req'[i] = None
      /\ Reports(i, e) =>
           /\ req'[i] \in Request /\ req'[i].kind = "ApplyErr" /\ req'[i].from = i
           /\ req'[i].life = life[i] /\ req'[i].sent = open[i] /\ req'[i].index = k
      /\ \A j \in Srv : j # i => req'[j] = req[j] /\ answer'[j] = answer[j]
  <2>1. CASE Reports(i, e)
    <3>1. Call(i, "ApplyErr", k, None, EmptyLog) /\ None \in Cmd \cup {None}
          /\ "ApplyErr" \in Kind
      <4>1. CASE req[i].kind = "CheckLogs"
        BY <1>3, <2>1, <4>1, Zenon DEF Reports, FinishCommand, Kind
      <4>2. CASE req[i].kind = "IngestLog"
        BY <1>3, <2>1, <4>2, Zenon DEF Reports, FinishSnapshot, Kind
      <4> QED BY <2>1, <4>1, <4>2, Zenon DEF Reports
    <3> HIDE DEF k
    <3>2. Called(i, "ApplyErr", k, None, EmptyLog)
      BY <1>1, <3>1, CallType, EmptyLogType, Zenon
    <3> QED BY <2>1, <3>2, Zenon DEF Called
  <2>2. CASE ~ Reports(i, e)
    <3>1. Done(i)
      BY <1>1, <1>3, <2>2, Zenon DEF Reports, FinishCommand, FinishSnapshot
    <3>2. req' = [req EXCEPT ![i] = None] /\ answer' = [answer EXCEPT ![i] = "none"]
      BY <3>1, Zenon DEF Done
    <3>3. /\ req' \in [Srv -> Request \cup {None}] /\ req'[i] = None
          /\ answer' \in [Srv -> {"none", "ok", "bad"}] /\ answer'[i] = "none"
          /\ \A j \in Srv : j # i => req'[j] = req[j] /\ answer'[j] = answer[j]
      BY <3>2, Zenon DEF TypeOK
    <3> QED BY <2>2, <3>3, Zenon
  <2> QED BY <2>1, <2>2, Zenon
<1> HIDE DEF k, c
<1>6. TypeOK'
  BY <1>2, <1>4, <1>5, Zenon DEF TypeOK
<1>7. OnlyAt(i)
  BY <1>2, <1>4, <1>5, Zenon DEF OnlyAt, Same
<1> QED BY <1>2, <1>4, <1>5, <1>6, <1>7, Zenon DEF raftVars, procVars, testVars, k, c

\* What a closed connection can leave behind at the tester.
LEMMA AbandonedEffect ==
  ASSUME TypeOK, NEW i \in Srv, Abandoned(i)
  PROVE  /\ orphans' \subseteq Request
         /\ \A r \in orphans' : r \in orphans \/
              (r = req[i] /\ req[i] # None /\ req[i].sent /\ answer[i] = "none")
<1>1. CASE req[i] # None /\ req[i].sent /\ answer[i] = "none"
  <2>1. req[i] \in Request
    BY <1>1, Zenon DEF TypeOK
  <2> QED BY <1>1, <2>1, Zenon DEF Abandoned, TypeOK
<1>2. CASE ~ (req[i] # None /\ req[i].sent /\ answer[i] = "none")
  BY <1>2, Zenon DEF Abandoned, TypeOK
<1> QED BY <1>1, <1>2, Zenon

\* CheckLogs's first test: another command is known at the index.
Differs(r) == \E j \in Srv : logs[j][r.index] # None /\ logs[j][r.index] # r.cmd

\* The reply to a request, and when it is an objection.
LEMMA VerdictIs ==
  ASSUME NEW r
  PROVE  /\ Verdict(r) \in {"ok", "bad"}
         /\ Verdict(r) = "bad" <=> r.kind = "CheckLogs" /\ (Differs(r) \/ NoPrev(r))
<1>1. Differs(r) <=> \E j \in Srv : logs[j][r.index] \notin {None, r.cmd}
  BY Zenon DEF Differs
<1> QED BY <1>1, Zenon DEF Verdict

\* The tester's side of a request r of server i.
Handled(r, i) ==
  /\ logs' \in [Srv -> Log] /\ applyErr' \in [Srv -> BOOLEAN]
  /\ \A j \in Srv : j # i => logs'[j] = logs[j] /\ applyErr'[j] = applyErr[j]
  /\ r.kind = "CheckLogs" =>
       /\ logs'[i] = [logs[i] EXCEPT ![r.index] = r.cmd]
       /\ applyErr'[i] = applyErr[i]
  /\ r.kind = "IngestLog" =>
       /\ logs'[i] = r.log
       /\ applyErr'[i] = applyErr[i]
  /\ r.kind = "ApplyErr" =>
       /\ logs' = logs /\ applyErr'[i]

LEMMA HandleEffect ==
  ASSUME TypeOK, NEW r \in Request, NEW i \in Srv, r.from = i, Handle(r)
  PROVE  Handled(r, i)
<1>1. /\ r.kind \in {"CheckLogs", "IngestLog", "ApplyErr"} /\ r.index \in 0..MaxIndex
      /\ r.cmd \in Cmd \cup {None} /\ r.log \in Log
  BY RequestFields, Zenon
<1>2. CASE r.kind = "CheckLogs"
  <2>1. CheckLogs(r)
    BY <1>2, Zenon DEF Handle
  <2>2. /\ logs' = [logs EXCEPT ![i] = [logs[i] EXCEPT ![r.index] = r.cmd]]
        /\ UNCHANGED applyErr
    BY <2>1, Zenon DEF CheckLogs
  <2>3. [logs[i] EXCEPT ![r.index] = r.cmd] \in Log
    BY <1>1, Zenon DEF TypeOK, Log
  <2>4. /\ logs' \in [Srv -> Log] /\ logs'[i] = [logs[i] EXCEPT ![r.index] = r.cmd]
        /\ \A j \in Srv : j # i => logs'[j] = logs[j]
    BY <2>2, <2>3, Zenon DEF TypeOK
  <2> QED BY <1>2, <2>2, <2>4, Zenon DEF Handled, TypeOK
<1>3. CASE r.kind = "IngestLog"
  <2>1. IngestLog(r)
    BY <1>3, Zenon DEF Handle
  <2>2. logs' = [logs EXCEPT ![i] = r.log] /\ UNCHANGED applyErr
    BY <2>1, Zenon DEF IngestLog
  <2>3. /\ logs' \in [Srv -> Log] /\ logs'[i] = r.log
        /\ \A j \in Srv : j # i => logs'[j] = logs[j]
    BY <1>1, <2>2, Zenon DEF TypeOK
  <2> QED BY <1>3, <2>2, <2>3, Zenon DEF Handled, TypeOK
<1>4. CASE r.kind = "ApplyErr"
  <2>1. ApplyErr(r)
    BY <1>4, Zenon DEF Handle
  <2>2. applyErr' = [applyErr EXCEPT ![i] = TRUE] /\ UNCHANGED logs
    BY <2>1, Zenon DEF ApplyErr
  <2>3. /\ applyErr' \in [Srv -> BOOLEAN] /\ applyErr'[i]
        /\ \A j \in Srv : j # i => applyErr'[j] = applyErr[j]
    BY <2>2, Zenon DEF TypeOK
  <2> QED BY <1>4, <2>2, <2>3, Zenon DEF Handled, TypeOK
<1> QED BY <1>1, <1>2, <1>3, <1>4, Zenon

\* The tester handles the request of a server that waits for it.
LEMMA HandleRequestEffect ==
  ASSUME TypeOK, NEW i \in Srv, HandleRequest(i), UNCHANGED mode
  PROVE  /\ TypeOK'
         /\ req[i] \in Request /\ req[i].sent /\ answer[i] = "none"
         /\ answer'[i] = Verdict(req[i])
         /\ req[i].from = i => Handled(req[i], i) /\ OnlyAt(i)
         /\ UNCHANGED <<raftVars, srvVars, req, orphans, late>>
<1>1. /\ req[i] # None /\ req[i].sent /\ answer[i] = "none" /\ Handle(req[i])
      /\ answer' = [answer EXCEPT ![i] = Verdict(req[i])]
      /\ UNCHANGED <<committed, commitIndex, up, open, copied, life, saved, next, persisted,
                     lastApplied, log, req, orphans, late, kills, snapshot, faulty>>
  BY Zenon DEF HandleRequest, raftVars, srvVars, procVars, mode
<1>2. PICK r \in Request : r = req[i]
  BY <1>1, Zenon DEF TypeOK
<1>3. PICK f \in Srv : f = r.from
  BY RequestFields, Zenon
<1>4. Handled(r, f)
  BY <1>1, <1>2, <1>3, HandleEffect, Zenon
<1>5. logs' \in [Srv -> Log] /\ applyErr' \in [Srv -> BOOLEAN]
      /\ \A j \in Srv : j # f => logs'[j] = logs[j] /\ applyErr'[j] = applyErr[j]
  BY <1>4, Zenon DEF Handled
<1>6. /\ answer' \in [Srv -> {"none", "ok", "bad"}] /\ answer'[i] = Verdict(req[i])
      /\ \A j \in Srv : j # i => answer'[j] = answer[j]
  <2>1. Verdict(r) \in {"ok", "bad"}
    BY VerdictIs, Zenon
  <2> QED BY <1>1, <1>2, <2>1, Zenon DEF TypeOK
<1>7. TypeOK'
  BY <1>1, <1>5, <1>6, Zenon DEF TypeOK
<1>8. req[i].from = i => Handled(req[i], i) /\ OnlyAt(i)
  BY <1>1, <1>2, <1>3, <1>4, <1>5, <1>6, ZenonT(40) DEF OnlyAt, Same
<1> QED BY <1>1, <1>2, <1>6, <1>7, <1>8, Zenon DEF raftVars, srvVars, procVars

\* The tester finishes a request that nobody waits for.
LEMMA HandleOrphanEffect ==
  ASSUME TypeOK, NEW r \in orphans, HandleOrphan(r), UNCHANGED mode
  PROVE  /\ TypeOK' /\ r \in Request /\ r.from \in Srv
         /\ Handled(r, r.from) /\ OnlyAt(r.from) /\ orphans' = orphans \ {r}
         /\ r.life = life[r.from] => late'[r.from] = late[r.from]
         /\ r.life # life[r.from] => late'[r.from] = late[r.from] \cup {r.kind}
         /\ UNCHANGED <<raftVars, srvVars, req, answer>>
<1>1. r \in Request
  BY Zenon DEF TypeOK
<1>2. PICK i \in Srv : i = r.from
  BY <1>1, RequestFields, Zenon
<1>3. /\ Handle(r) /\ orphans' = orphans \ {r}
      /\ late' = IF r.life = life[i] THEN late ELSE [late EXCEPT ![i] = @ \cup {r.kind}]
      /\ UNCHANGED <<committed, commitIndex, up, open, copied, life, saved, next, persisted,
                     lastApplied, log, req, answer, kills, snapshot, faulty>>
  BY <1>2, Zenon DEF HandleOrphan, raftVars, srvVars, procVars, mode
<1>4. Handled(r, i)
  BY <1>1, <1>2, <1>3, HandleEffect, Zenon
<1>5. logs' \in [Srv -> Log] /\ applyErr' \in [Srv -> BOOLEAN]
      /\ \A j \in Srv : j # i => logs'[j] = logs[j] /\ applyErr'[j] = applyErr[j]
  BY <1>4, Zenon DEF Handled
<1>6. /\ late' \in [Srv -> SUBSET Kind]
      /\ \A j \in Srv : j # i => late'[j] = late[j]
      /\ r.life = life[i] => late'[i] = late[i]
      /\ r.life # life[i] => late'[i] = late[i] \cup {r.kind}
  <2>1. CASE r.life = life[i]
    BY <1>3, <2>1, Zenon DEF TypeOK
  <2>2. CASE r.life # life[i]
    <3>1. late[i] \cup {r.kind} \in SUBSET Kind
      BY <1>1, RequestFields, Zenon DEF TypeOK
    <3>2. late' = [late EXCEPT ![i] = late[i] \cup {r.kind}]
      BY <1>3, <2>2, Zenon
    <3> QED BY <2>2, <3>1, <3>2, Zenon DEF TypeOK
  <2> QED BY <2>1, <2>2, Zenon
<1>7. TypeOK'
  BY <1>3, <1>5, <1>6, Zenon DEF TypeOK
<1>8. OnlyAt(i)
  BY <1>3, <1>5, <1>6, Zenon DEF OnlyAt, Same
<1> QED BY <1>1, <1>2, <1>3, <1>4, <1>6, <1>7, <1>8, Zenon DEF raftVars, srvVars, procVars

\* A shutdown begins: the connection is closed,
LEMMA CloseConnEffect ==
  ASSUME TypeOK, NEW i \in Srv, CloseConn(i), UNCHANGED mode
  PROVE  /\ TypeOK' /\ OnlyAt(i)
         /\ up[i] /\ ~ faulty /\ ~ open'[i] /\ kills' = kills + 1
         /\ UNCHANGED <<raftVars, up, copied, life, saved, next, persisted, lastApplied, log,
                        rpcVars, testVars>>
<1>1. /\ up[i] /\ kills < MaxKill /\ ~ faulty /\ kills' = kills + 1
      /\ open' = [open EXCEPT ![i] = FALSE]
      /\ UNCHANGED <<committed, commitIndex, up, copied, life, saved, next, persisted,
                     lastApplied, log, req, answer, orphans, logs, applyErr, late, snapshot,
                     faulty>>
  BY Zenon DEF CloseConn, raftVars, rpcVars, testVars, mode
<1>2. /\ open' \in [Srv -> BOOLEAN] /\ ~ open'[i]
      /\ \A j \in Srv : j # i => open'[j] = open[j]
  BY <1>1, Zenon DEF TypeOK
<1>3. kills' \in 0..MaxKill
  <2>1. kills \in 0..MaxKill
    BY Zenon DEF TypeOK
  <2> QED BY <1>1, <2>1, BoundsAssumption
<1>4. TypeOK'
  BY <1>1, <1>2, <1>3, Zenon DEF TypeOK
<1>5. OnlyAt(i)
  BY <1>1, <1>2, Zenon DEF OnlyAt, Same
<1> QED BY <1>1, <1>2, <1>4, <1>5, Zenon DEF raftVars, rpcVars, testVars

\* the Persister is copied,
LEMMA CheckpointEffect ==
  ASSUME TypeOK, NEW i \in Srv, Checkpoint(i), UNCHANGED mode
  PROVE  /\ TypeOK' /\ OnlyAt(i)
         /\ ~ open[i] /\ saved'[i] = persisted[i]
         /\ UNCHANGED <<raftVars, up, open, life, next, persisted, lastApplied, log, rpcVars,
                        testVars, kills>>
<1>1. /\ ~ open[i]
      /\ copied' = [copied EXCEPT ![i] = TRUE]
      /\ saved' = [saved EXCEPT ![i] = persisted[i]]
      /\ UNCHANGED <<committed, commitIndex, up, open, life, next, persisted, lastApplied,
                     log, req, answer, orphans, logs, applyErr, late, kills, snapshot,
                     faulty>>
  BY Zenon DEF Checkpoint, raftVars, rpcVars, testVars, mode
<1>2. /\ saved' \in [Srv -> Snap] /\ copied' \in [Srv -> BOOLEAN]
      /\ saved'[i] = persisted[i]
      /\ \A j \in Srv : j # i => saved'[j] = saved[j] /\ copied'[j] = copied[j]
  BY <1>1, Zenon DEF TypeOK
<1>3. TypeOK'
  BY <1>1, <1>2, Zenon DEF TypeOK
<1>4. OnlyAt(i)
  BY <1>1, <1>2, Zenon DEF OnlyAt, Same
<1> QED BY <1>1, <1>2, <1>3, <1>4, Zenon DEF raftVars, rpcVars, testVars

\* and the process is killed.
LEMMA KillEffect ==
  ASSUME TypeOK, NEW i \in Srv, Kill(i), UNCHANGED mode
  PROVE  /\ TypeOK' /\ OnlyAt(i)
         /\ copied[i] /\ ~ up'[i] /\ req'[i] = None /\ answer'[i] = "none"
         /\ UNCHANGED <<raftVars, open, copied, life, saved, next, persisted, lastApplied,
                        log, testVars, kills>>
<1>1. /\ copied[i]
      /\ up' = [up EXCEPT ![i] = FALSE]
      /\ req' = [req EXCEPT ![i] = None] /\ answer' = [answer EXCEPT ![i] = "none"]
      /\ UNCHANGED <<committed, commitIndex, open, copied, life, saved, next, persisted,
                     lastApplied, log, logs, applyErr, late, kills, snapshot, faulty>>
  BY Zenon DEF Kill, Done, raftVars, testVars, mode
<1>2. /\ up' \in [Srv -> BOOLEAN] /\ req' \in [Srv -> Request \cup {None}]
      /\ answer' \in [Srv -> {"none", "ok", "bad"}]
      /\ ~ up'[i] /\ req'[i] = None /\ answer'[i] = "none"
      /\ \A j \in Srv : j # i => up'[j] = up[j] /\ req'[j] = req[j] /\ answer'[j] = answer[j]
  BY <1>1, Zenon DEF TypeOK
<1>3. orphans' \subseteq Request
  BY AbandonedEffect, Zenon DEF Kill
<1>4. TypeOK'
  BY <1>1, <1>2, <1>3, Zenon DEF TypeOK
<1>5. OnlyAt(i)
  BY <1>1, <1>2, Zenon DEF OnlyAt, Same
<1> QED BY <1>1, <1>2, <1>4, <1>5, Zenon DEF raftVars, testVars

\* The server is started again.
LEMMA RestartEffect ==
  ASSUME TypeOK, NEW i \in Srv, Restart(i), UNCHANGED mode
  PROVE  /\ TypeOK' /\ OnlyAt(i)
         /\ ~ up[i] /\ up'[i] /\ open'[i] /\ ~ copied'[i] /\ life'[i] = kills
         /\ next'[i] = saved[i].index + 1 /\ persisted'[i] = saved[i]
         /\ lastApplied'[i] = saved[i].index /\ log'[i] = saved[i].log
         /\ saved[i].index = 0 => req'[i] = None
         /\ saved[i].index # 0 =>
              /\ req'[i] \in Request /\ req'[i].kind = "IngestLog" /\ req'[i].from = i
              /\ req'[i].life = kills /\ req'[i].index = saved[i].index
              /\ req'[i].log = saved[i].log /\ req'[i].sent
         /\ UNCHANGED <<raftVars, saved, answer, orphans, testVars, kills>>
<1> DEFINE s == saved[i]
           r == [kind |-> "IngestLog", from |-> i, life |-> kills, index |-> s.index,
                 cmd |-> None, log |-> s.log, sent |-> TRUE]
<1>1. s \in Snap /\ s.index \in 0..MaxIndex /\ s.index + 1 \in 1..(MaxIndex + 1)
      /\ s.log \in Log
  <2>1. s \in Snap
    BY Zenon DEF TypeOK
  <2>2. s.index \in 0..MaxIndex /\ s.log \in Log
    BY <2>1, SnapFields, Zenon
  <2> HIDE DEF s
  <2> QED BY <2>1, <2>2, BoundsAssumption
<1>2. /\ ~ up[i]
      /\ up' = [up EXCEPT ![i] = TRUE] /\ open' = [open EXCEPT ![i] = TRUE]
      /\ copied' = [copied EXCEPT ![i] = FALSE] /\ life' = [life EXCEPT ![i] = kills]
      /\ next' = [next EXCEPT ![i] = s.index + 1]
      /\ persisted' = [persisted EXCEPT ![i] = s] /\ log' = [log EXCEPT ![i] = s.log]
      /\ lastApplied' = [lastApplied EXCEPT ![i] = s.index]
      /\ req' = [req EXCEPT ![i] = IF s.index = 0 THEN None ELSE r]
      /\ UNCHANGED <<committed, commitIndex, saved, answer, orphans, logs, applyErr, late,
                     kills, snapshot, faulty>>
  BY Zenon DEF Restart, raftVars, testVars, mode
<1>3. /\ r \in Request /\ r.kind = "IngestLog" /\ r.from = i /\ r.life = kills
      /\ r.index = s.index /\ r.log = s.log /\ r.sent
  <2>1. /\ "IngestLog" \in Kind /\ TRUE \in BOOLEAN
        /\ None \in Cmd \cup {None} /\ kills \in 0..MaxKill
    BY Zenon DEF TypeOK, Kind
  <2>2. r \in Request
    BY <1>1, <2>1, RequestMade, Zenon
  <2>3. /\ r.kind = "IngestLog" /\ r.from = i /\ r.life = kills /\ r.index = s.index
        /\ r.log = s.log /\ r.sent
    BY Zenon
  <2> QED BY <2>2, <2>3, Zenon
<1> HIDE DEF r, s
<1>4. /\ up' \in [Srv -> BOOLEAN] /\ open' \in [Srv -> BOOLEAN] /\ copied' \in [Srv -> BOOLEAN]
      /\ life' \in [Srv -> 0..MaxKill]
      /\ up'[i] /\ open'[i] /\ ~ copied'[i] /\ life'[i] = kills
      /\ \A j \in Srv : j # i => /\ up'[j] = up[j] /\ open'[j] = open[j]
                                 /\ copied'[j] = copied[j] /\ life'[j] = life[j]
  BY <1>2, Zenon DEF TypeOK
<1>5. /\ next' \in [Srv -> 1..(MaxIndex + 1)] /\ next'[i] = s.index + 1
      /\ \A j \in Srv : j # i => next'[j] = next[j]
  BY <1>1, <1>2, Zenon DEF TypeOK
<1>6. /\ log' \in [Srv -> Log] /\ lastApplied' \in [Srv -> 0..MaxIndex]
      /\ persisted' \in [Srv -> Snap]
      /\ log'[i] = s.log /\ lastApplied'[i] = s.index /\ persisted'[i] = s
      /\ \A j \in Srv : j # i => /\ log'[j] = log[j] /\ lastApplied'[j] = lastApplied[j]
                                 /\ persisted'[j] = persisted[j]
  BY <1>1, <1>2, Zenon DEF TypeOK
<1>7. /\ req' \in [Srv -> Request \cup {None}]
      /\ req'[i] = IF s.index = 0 THEN None ELSE r
      /\ \A j \in Srv : j # i => req'[j] = req[j]
  BY <1>2, <1>3, Zenon DEF TypeOK
<1>8. TypeOK'
  BY <1>2, <1>4, <1>5, <1>6, <1>7, Zenon DEF TypeOK
<1>9. OnlyAt(i)
  BY <1>2, <1>4, <1>5, <1>6, <1>7, ZenonT(40) DEF OnlyAt, Same
<1> QED BY <1>2, <1>3, <1>4, <1>5, <1>6, <1>7, <1>8, <1>9, Zenon DEF raftVars, testVars, s

-----------------------------------------------------------------------------
(* A correct Raft.  The invariant relates, for each server, the tester's     *)
(* copy of its log, the request on its way and the state of its applier.  It  *)
(* says less of a server once a request of an earlier process of it was        *)
(* handled, and little once that was an IngestLog.                             *)

\* The copy of server i's log has the entry at k.
Has(i, k) == k = 0 \/ logs[i][k] # None

\* No snapshot of server i was ingested late.
Clean(i) == "IngestLog" \notin late[i]

\* What a request says was committed, and so was what a snapshot holds.
ReqOK(r) ==
  /\ r.kind = "CheckLogs" => r.index \in 1..commitIndex /\ r.cmd = committed[r.index]
  /\ r.kind = "IngestLog" => r.index \in 1..commitIndex /\ r.log = Prefix(r.index)
SnapOK(s) == s.index <= commitIndex /\ s.log = Prefix(s.index)

\* The copy holds what was committed, and without late requests it is a prefix.
Entries(i) == \A k \in Index : logs[i][k] # None => k <= commitIndex /\ logs[i][k] = committed[k]
Whole(i) == \E n \in 0..commitIndex : logs[i] = Prefix(n)
LogInv(i) == Entries(i) /\ (late[i] = {} => Whole(i))

\* Between two messages of the apply channel.
IdleInv(i) ==
  req[i] = None =>
    /\ answer[i] = "none"
    /\ Clean(i) /\ up[i] /\ open[i] => Has(i, next[i] - 1)
    /\ up[i] /\ snapshot => next[i] = lastApplied[i] + 1

\* While the applier waits for a request: an error is only ever reported over a
\* connection that is closed, and a command follows one that the copy has.
CallInv(i) ==
  req[i] # None =>
    /\ up[i] /\ req[i].from = i /\ req[i].life = life[i] /\ ReqOK(req[i])
    /\ next[i] = req[i].index + 1
    /\ Clean(i) /\ req[i].kind = "ApplyErr" => ~ req[i].sent
    /\ ~ req[i].sent => ~ open[i] /\ answer[i] = "none"
    /\ snapshot => lastApplied[i] = IF req[i].kind = "CheckLogs" THEN req[i].index - 1
                                    ELSE req[i].index
    /\ Clean(i) /\ req[i].sent /\ answer[i] # "none" => Has(i, req[i].index)
    /\ Clean(i) /\ req[i].sent /\ req[i].kind = "CheckLogs" => Has(i, req[i].index - 1)

\* The applier's own state.
OwnInv(i) ==
  /\ Clean(i) => ~ applyErr[i] /\ answer[i] # "bad"
  /\ SnapOK(persisted[i]) /\ SnapOK(saved[i])
  /\ lastApplied[i] <= commitIndex /\ next[i] <= commitIndex + 1
  /\ snapshot => log[i] = Prefix(lastApplied[i])

\* All of it, of one server.
SInv(i) == LogInv(i) /\ IdleInv(i) /\ CallInv(i) /\ OwnInv(i)

\* A request that its server gave up on.  While the process that sent it is the
\* server's, the server sends no other;
Current(r) == r.life = life[r.from]
OrphanOK(r) ==
  /\ r.sent /\ ReqOK(r) /\ r.life <= life[r.from]
  /\ Clean(r.from) => r.kind # "ApplyErr"
  /\ Current(r) =>
       /\ ~ open[r.from] /\ (req[r.from] = None \/ ~ req[r.from].sent)
       /\ Clean(r.from) /\ r.kind = "CheckLogs" => Has(r.from, r.index - 1)

\* and there is no other like it.
OrphanInv ==
  /\ \A r \in orphans : OrphanOK(r)
  /\ \A q, r \in orphans : q.from = r.from /\ Current(q) /\ Current(r) => q = r

\* The inductive invariant, without the types.
CInv == ~ faulty => OrphanInv /\ \A i \in Srv : SInv(i)

\* A shutdown starts with the connection, and the process that it ends is older
\* than the shutdown.
ProcInv ==
  \A i \in Srv :
    /\ life[i] <= kills
    /\ ~ open[i] => life[i] < kills
    /\ ~ up[i] \/ copied[i] => ~ open[i]

\* The entries of a prefix.
LEMMA PrefixAt ==
  \A n : \A k \in Index : Prefix(n)[k] = IF k <= n THEN committed[k] ELSE None
  BY Zenon DEF Prefix, Upto

\* A prefix is all of itself.
LEMMA UptoPrefix == ASSUME NEW n PROVE Upto(Prefix(n), n) = Prefix(n)
  BY PrefixAt, Zenon DEF Prefix, Upto

\* How long a copy is can be told from any of its entries.
LEMMA HasPrefix ==
  ASSUME TypeOK, NEW i \in Srv, NEW n \in 0..commitIndex, logs[i] = Prefix(n),
         NEW k \in 0..commitIndex
  PROVE  Has(i, k) <=> k <= n
<1>1. commitIndex \in 0..MaxIndex
  BY Zenon DEF TypeOK
<1>2. CASE k = 0
  BY <1>2 DEF Has
<1>3. CASE k # 0
  <2>1. k \in Index /\ k <= commitIndex
    BY <1>1, <1>3, Indices, BoundsAssumption
  <2>2. committed[k] # None
    BY <2>1, NoneAssumption, Zenon DEF TypeOK
  <2>3. logs[i][k] = IF k <= n THEN committed[k] ELSE None
    BY <2>1, PrefixAt, Zenon
  <2> QED BY <1>3, <2>2, <2>3, Zenon DEF Has
<1> QED BY <1>2, <1>3, Zenon

\* Writing the next entry makes a prefix one longer; writing an earlier one
\* changes nothing.
LEMMA PrefixGrows ==
  ASSUME TypeOK, NEW n \in 0..commitIndex, NEW k \in 1..commitIndex, k - 1 <= n
  PROVE  [Prefix(n) EXCEPT ![k] = committed[k]] = Prefix(IF k <= n THEN n ELSE k)
<1>1. commitIndex \in 0..MaxIndex
  BY Zenon DEF TypeOK
<1>2. k \in Index /\ n \in Nat /\ k \in Nat
  BY <1>1, Indices, BoundsAssumption
<1> DEFINE m == IF k <= n THEN n ELSE k
<1>3. \A x \in Index : x # k => (x <= n <=> x <= m)
  BY <1>2, Indices
<1>4. k <= m
  BY <1>2
<1> HIDE DEF m
<1>5. \A x \in Index : [Prefix(n) EXCEPT ![k] = committed[k]][x] = Prefix(m)[x]
  <2> SUFFICES ASSUME NEW x \in Index
               PROVE  [Prefix(n) EXCEPT ![k] = committed[k]][x] = Prefix(m)[x]
    BY Zenon
  <2>1. [Prefix(n) EXCEPT ![k] = committed[k]][x] =
          IF x = k THEN committed[k] ELSE Prefix(n)[x]
    BY Zenon DEF Prefix, Upto
  <2>2. CASE x = k
    BY <1>2, <1>4, <2>1, <2>2, PrefixAt, Zenon
  <2>3. CASE x # k
    BY <1>3, <2>1, <2>3, PrefixAt, Zenon
  <2> QED BY <2>2, <2>3, Zenon
<1>6. [Prefix(n) EXCEPT ![k] = committed[k]] =
        [x \in Index |-> [Prefix(n) EXCEPT ![k] = committed[k]][x]]
  BY Zenon DEF Prefix, Upto
<1>7. Prefix(m) = [x \in Index |-> Prefix(m)[x]]
  BY Zenon DEF Prefix, Upto
<1> QED BY <1>5, <1>6, <1>7, Zenon DEF m

\* What is said of Raft alone outlasts a step that leaves Raft alone.
LEMMA SameRaft ==
  ASSUME UNCHANGED <<committed, commitIndex>>
  PROVE  /\ \A n : Prefix(n)' = Prefix(n)
         /\ \A r : ReqOK(r) => ReqOK(r)'
         /\ \A s : SnapOK(s) => SnapOK(s)'
<1>1. \A n : Prefix(n)' = Prefix(n)
  BY Zenon DEF Prefix, Upto
<1>2. \A r : ReqOK(r) => ReqOK(r)'
  BY <1>1, Zenon DEF ReqOK
<1>3. \A s : SnapOK(s) => SnapOK(s)'
  BY <1>1, Zenon DEF SnapOK
<1> QED BY <1>1, <1>2, <1>3, Zenon

\* A step that leaves the copy of i's log and Raft alone.
LEMMA SameLog ==
  ASSUME NEW i \in Srv, logs'[i] = logs[i], late'[i] = late[i],
         UNCHANGED <<committed, commitIndex>>
  PROVE  /\ LogInv(i) => LogInv(i)'
         /\ \A k : Has(i, k) => Has(i, k)'
         /\ Clean(i)' <=> Clean(i)
         /\ \A r : ReqOK(r) => ReqOK(r)'
         /\ \A n : Prefix(n)' = Prefix(n)
         /\ \A s : SnapOK(s) => SnapOK(s)'
<1>1. LogInv(i) => LogInv(i)'
  BY SameRaft, Zenon DEF LogInv, Entries, Whole
<1>2. \A k : Has(i, k) => Has(i, k)'
  BY Zenon DEF Has
<1>3. Clean(i)' <=> Clean(i)
  BY Zenon DEF Clean
<1> QED BY <1>1, <1>2, <1>3, SameRaft, Zenon

\* A server that a step leaves alone keeps its invariant.
LEMMA SameInv ==
  ASSUME NEW j \in Srv, Same(j), SInv(j), UNCHANGED <<committed, commitIndex, snapshot>>
  PROVE  SInv(j)'
<1>1. /\ \A n : Prefix(n)' = Prefix(n)
      /\ \A r : ReqOK(r) => ReqOK(r)'
      /\ \A s : SnapOK(s) => SnapOK(s)'
  BY SameRaft, Zenon
<1>2. LogInv(j)'
  BY SameLog, Zenon DEF Same, SInv
<1>3. IdleInv(j)'
  BY Zenon DEF Same, SInv, IdleInv, Has, Clean
<1>4. CallInv(j)'
  <2> SUFFICES ASSUME req[j] # None PROVE CallInv(j)'
    BY Zenon DEF CallInv, Same
  <2>1. ReqOK(req[j])'
    BY <1>1, Zenon DEF SInv, CallInv, Same, ReqOK
  <2> QED BY <2>1, Zenon DEF Same, SInv, CallInv, Has, Clean
<1>5. OwnInv(j)'
  BY <1>1, Zenon DEF Same, SInv, OwnInv, SnapOK, Clean
<1> QED BY <1>2, <1>3, <1>4, <1>5, Zenon DEF SInv

\* So does a request given up on.
LEMMA SameOrphan ==
  ASSUME NEW r, Same(r.from), OrphanOK(r), UNCHANGED <<committed, commitIndex>>
  PROVE  OrphanOK(r)'
<1>1. ReqOK(r)'
  BY SameRaft, Zenon DEF OrphanOK
<1> QED BY <1>1, Zenon DEF Same, OrphanOK, Current, Has, Clean

-----------------------------------------------------------------------------
(* A correct Raft: every step keeps the invariant.                          *)

\* The numbers that a server counts with.
LEMMA Counters ==
  ASSUME TypeOK, NEW i \in Srv
  PROVE  /\ persisted[i].index \in Nat /\ saved[i].index \in Nat /\ lastApplied[i] \in Nat
         /\ next[i] \in Nat /\ next[i] >= 1 /\ commitIndex \in Nat
         /\ life[i] \in Nat /\ kills \in Nat
<1>1. /\ persisted[i].index \in 0..MaxIndex /\ saved[i].index \in 0..MaxIndex
      /\ lastApplied[i] \in 0..MaxIndex /\ next[i] \in 1..(MaxIndex + 1)
      /\ commitIndex \in 0..MaxIndex /\ life[i] \in 0..MaxKill /\ kills \in 0..MaxKill
  BY SnapFields, Zenon DEF TypeOK
<1> QED BY <1>1, BoundsAssumption

\* What was said of a log is said of a longer one.
LEMMA CommitKeeps ==
  ASSUME TypeOK, ~ faulty, OrphanInv, \A i \in Srv : SInv(i), NEW c \in Cmd, Commit(c),
         UNCHANGED mode
  PROVE  OrphanInv' /\ \A i \in Srv : SInv(i)'
<1>1. /\ commitIndex' = commitIndex + 1
      /\ \A k \in Index : k <= commitIndex => committed'[k] = committed[k]
  BY CommitEffect, Zenon
<1>2. commitIndex \in Nat /\ commitIndex \in 0..MaxIndex
  <2>1. commitIndex \in 0..MaxIndex
    BY Zenon DEF TypeOK
  <2> QED BY <2>1, BoundsAssumption
<1>3. \A n \in 0..commitIndex : n \in 0..commitIndex' /\ Prefix(n)' = Prefix(n)
  <2> SUFFICES ASSUME NEW n \in 0..commitIndex
               PROVE  n \in 0..commitIndex' /\ Prefix(n)' = Prefix(n)
    BY Zenon
  <2>1. \A k \in Index : k <= n => k <= commitIndex
    BY <1>2, Indices
  <2>2. \A k \in Index : (IF k <= n THEN committed'[k] ELSE None) =
                         (IF k <= n THEN committed[k] ELSE None)
    BY <1>1, <2>1, Zenon
  <2>3. n \in 0..commitIndex'
    BY <1>1, <1>2
  <2> QED BY <2>2, <2>3, Zenon DEF Prefix, Upto
<1>4. \A k \in 1..commitIndex :
        /\ k \in 1..commitIndex' /\ committed'[k] = committed[k]
        /\ Prefix(k)' = Prefix(k)
  <2>1. \A k \in 1..commitIndex : k \in Index /\ k <= commitIndex /\ k \in 0..commitIndex
    BY <1>2, Indices, BoundsAssumption
  <2>2. \A k \in 1..commitIndex : k \in 1..commitIndex'
    BY <1>1, <1>2
  <2> QED BY <1>1, <1>3, <2>1, <2>2, Zenon
<1>5. \A n \in Nat : n <= commitIndex => n <= commitIndex' /\ n \in 0..commitIndex
  BY <1>1, <1>2
<1>6. UNCHANGED <<up, open, life, next, persisted, saved, lastApplied, log, req, answer,
                  orphans, logs, applyErr, late, snapshot, faulty>>
  BY Zenon DEF Commit, srvVars, procVars, rpcVars, testVars, mode
<1>7. \A r : ReqOK(r) => ReqOK(r)'
  BY <1>4, Zenon DEF ReqOK
<1>8. OrphanInv'
  BY <1>6, <1>7, Zenon DEF OrphanInv, OrphanOK, Current, Has, Clean
<1>9. ASSUME NEW i \in Srv PROVE SInv(i)'
  <2>1. SInv(i)
    BY Zenon
  <2>2. LogInv(i)'
    <3>1. \A k \in Index : k \in Nat
      BY Indices
    <3>2. Entries(i)'
      BY <1>1, <1>5, <1>6, <2>1, <3>1, Zenon DEF SInv, LogInv, Entries
    <3>3. (late[i] = {} => Whole(i))'
      BY <1>3, <1>6, <2>1, Zenon DEF SInv, LogInv, Whole
    <3> QED BY <3>2, <3>3, Zenon DEF LogInv
  <2>3. IdleInv(i)'
    BY <1>6, <2>1, Zenon DEF SInv, IdleInv, Has, Clean
  <2>4. CallInv(i)'
    BY <1>6, <1>7, <2>1, Zenon DEF SInv, CallInv, Has, Clean
  <2>5. \A s : s.index \in Nat /\ SnapOK(s) => SnapOK(s)'
    BY <1>3, <1>5, Zenon DEF SnapOK
  <2>6. SnapOK(persisted[i])' /\ SnapOK(saved[i])'
    <3>1. persisted[i].index \in Nat /\ saved[i].index \in Nat
      BY Counters, Zenon
    <3> QED BY <1>6, <2>1, <2>5, <3>1, Zenon DEF SInv, OwnInv, SnapOK
  <2>7. lastApplied[i] <= commitIndex' /\ next[i] <= commitIndex' + 1
        /\ lastApplied[i] \in 0..commitIndex
    <3>1. lastApplied[i] <= commitIndex /\ next[i] <= commitIndex + 1
      BY <2>1, Zenon DEF SInv, OwnInv
    <3> QED BY <1>1, <1>2, <3>1, Counters
  <2>8. (snapshot => log[i] = Prefix(lastApplied[i]))'
    BY <1>3, <1>6, <2>1, <2>7, Zenon DEF SInv, OwnInv
  <2>9. OwnInv(i)'
    BY <1>6, <2>1, <2>6, <2>7, <2>8, Zenon DEF SInv, OwnInv, Clean
  <2> QED BY <2>2, <2>3, <2>4, <2>9, Zenon DEF SInv
<1> QED BY <1>8, <1>9, Zenon

\* A step at server i keeps what is known of the requests that i gave up on.
OrphansKept(i) ==
  /\ orphans' \subseteq Request
  /\ \A r \in orphans' : IF r.from = i THEN OrphanOK(r)' ELSE r \in orphans
  /\ \A q, r \in orphans' :
       q.from = i /\ r.from = i /\ Current(q)' /\ Current(r)' => q = r

\* A step at server i that leaves Raft alone: what is left to show is that it
\* keeps the invariant of i and of the requests that i gave up on.
LEMMA StepAt ==
  ASSUME OrphanInv, \A j \in Srv : SInv(j), NEW i \in Srv, OnlyAt(i),
         UNCHANGED <<committed, commitIndex, snapshot>>, SInv(i)', OrphansKept(i)
  PROVE  OrphanInv' /\ \A j \in Srv : SInv(j)'
<1>1. ASSUME NEW j \in Srv PROVE SInv(j)'
  <2>1. CASE j = i
    BY <2>1, Zenon
  <2>2. CASE j # i
    <3>1. Same(j) /\ SInv(j)
      BY <2>2, Zenon DEF OnlyAt
    <3> QED BY <3>1, SameInv, Zenon
  <2> QED BY <2>1, <2>2, Zenon
<1>2. ASSUME NEW r \in orphans', r.from # i
      PROVE  r \in orphans /\ Same(r.from) /\ OrphanOK(r) /\ (Current(r)' => Current(r))
  <2>1. r.from \in Srv /\ r \in orphans
    BY <1>2, RequestFields, Zenon DEF OrphansKept
  <2> QED BY <1>2, <2>1, Zenon DEF OnlyAt, Same, OrphanInv, Current
<1>3. ASSUME NEW r \in orphans' PROVE OrphanOK(r)'
  <2>1. CASE r.from = i
    BY <2>1, Zenon DEF OrphansKept
  <2>2. CASE r.from # i
    BY <1>2, <2>2, SameOrphan, Zenon
  <2> QED BY <2>1, <2>2, Zenon
<1>4. \A q, r \in orphans' : q.from = r.from /\ Current(q)' /\ Current(r)' => q = r
  BY <1>2, Zenon DEF OrphanInv, OrphansKept
<1> QED BY <1>1, <1>3, <1>4, Zenon DEF OrphanInv

\* In particular if there are no new ones, and no new request that could be in
\* their way.
LEMMA SameOrphans ==
  ASSUME TypeOK, OrphanInv, NEW i \in Srv, orphans' = orphans, logs'[i] = logs[i],
         late'[i] = late[i], life'[i] = life[i], UNCHANGED <<committed, commitIndex>>,
         ~ open[i] => ~ open'[i] /\ (req'[i] = None \/ ~ req'[i].sent \/ req'[i] = req[i])
  PROVE  OrphansKept(i)
<1>1. ASSUME NEW r \in orphans', r.from = i PROVE OrphanOK(r)' /\ (Current(r)' <=> Current(r))
  <2>1. OrphanOK(r)
    BY <1>1, Zenon DEF OrphanInv
  <2>2. (Has(i, r.index - 1) => Has(i, r.index - 1)') /\ (Clean(i)' <=> Clean(i))
    BY SameLog, Zenon
  <2>3. ReqOK(r) => ReqOK(r)'
    BY SameLog, Zenon
  <2>4. Current(r)' <=> Current(r)
    BY <1>1, Zenon DEF Current
  <2> QED BY <1>1, <2>1, <2>2, <2>3, <2>4, Zenon DEF OrphanOK
<1> QED BY <1>1, Zenon DEF OrphanInv, OrphansKept, TypeOK

\* A command from the apply channel.  With snapshots it is the next one, so it
\* goes to CheckLogs.
LEMMA ApplyCommandKeeps ==
  ASSUME TypeOK, ~ faulty, OrphanInv, \A j \in Srv : SInv(j), NEW i \in Srv,
         ApplyCommand(i), UNCHANGED mode
  PROVE  OrphanInv' /\ \A j \in Srv : SInv(j)'
<1>1. /\ TypeOK' /\ OnlyAt(i)
      /\ up[i] /\ req[i] = None /\ next[i] <= commitIndex
      /\ next'[i] = next[i] + 1 /\ req'[i] \in Request
      /\ req'[i].from = i /\ req'[i].life = life[i] /\ req'[i].index = next[i]
      /\ req'[i].sent = open[i] /\ answer'[i] = "none"
      /\ ~ faulty => req'[i].cmd = committed[next[i]]
      /\ ~ (snapshot /\ next[i] # lastApplied[i] + 1) =>
           req'[i].kind = "CheckLogs" /\ UNCHANGED <<log, lastApplied, persisted>>
      /\ UNCHANGED <<raftVars, procVars, orphans, testVars>>
  BY ApplyCommandEffect, Zenon
<1>2. UNCHANGED <<committed, commitIndex, up, open, life, saved, orphans, logs, applyErr,
                  late, snapshot, faulty>>
  BY <1>1, Zenon DEF raftVars, procVars, testVars, mode
<1>3. SInv(i)
  BY Zenon
<1>4. /\ Clean(i) /\ up[i] /\ open[i] => Has(i, next[i] - 1)
      /\ snapshot => next[i] = lastApplied[i] + 1
  BY <1>1, <1>3, Zenon DEF SInv, IdleInv
<1>5. req'[i].kind = "CheckLogs" /\ UNCHANGED <<log, lastApplied, persisted>>
  BY <1>1, <1>4, Zenon
<1>6. /\ LogInv(i)' /\ \A k : Has(i, k) => Has(i, k)'
      /\ Clean(i)' <=> Clean(i)
      /\ \A n : Prefix(n)' = Prefix(n)
      /\ \A s : SnapOK(s) => SnapOK(s)'
  BY <1>2, <1>3, SameLog, Zenon DEF SInv
<1>7. IdleInv(i)'
  BY <1>1, NoneAssumption, Zenon DEF IdleInv
<1>8. next[i] \in 1..commitIndex /\ next[i] + 1 <= commitIndex + 1
  BY <1>1, Counters
<1>9. CallInv(i)'
  <2>1. ReqOK(req[i])'
    BY <1>1, <1>2, <1>5, <1>8, Zenon DEF ReqOK
  <2>2. snapshot => lastApplied[i] = next[i] - 1
    BY <1>4, Counters
  <2> QED BY <1>1, <1>2, <1>4, <1>5, <1>6, <2>1, <2>2, Zenon DEF CallInv
<1>10. OwnInv(i)'
  BY <1>1, <1>2, <1>3, <1>5, <1>6, <1>8, Zenon DEF SInv, OwnInv, SnapOK
<1>11. SInv(i)'
  BY <1>6, <1>7, <1>9, <1>10, Zenon DEF SInv
<1>12. OrphansKept(i)
  BY <1>1, <1>2, SameOrphans, Zenon
<1> QED BY <1>1, <1>2, <1>11, <1>12, StepAt, Zenon

\* A snapshot of another server: it holds what was committed.
LEMMA ApplySnapshotKeeps ==
  ASSUME TypeOK, ~ faulty, OrphanInv, \A j \in Srv : SInv(j), NEW i \in Srv,
         ApplySnapshot(i), UNCHANGED mode
  PROVE  OrphanInv' /\ \A j \in Srv : SInv(j)'
<1>1. /\ TypeOK' /\ OnlyAt(i)
      /\ snapshot /\ up[i] /\ req[i] = None
      /\ \E j \in Srv :
           /\ persisted[j].index \in Index
           /\ persisted'[i] = persisted[j] /\ lastApplied'[i] = persisted[j].index
           /\ log'[i] = persisted[j].log
           /\ next'[i] = persisted[j].index + 1
           /\ req'[i].index = persisted[j].index /\ req'[i].log = persisted[j].log
      /\ req'[i] \in Request /\ req'[i].kind = "IngestLog" /\ req'[i].from = i
      /\ req'[i].life = life[i] /\ req'[i].sent = open[i] /\ answer'[i] = "none"
      /\ UNCHANGED <<raftVars, procVars, orphans, testVars>>
  BY ApplySnapshotEffect, Zenon
<1>2. UNCHANGED <<committed, commitIndex, up, open, life, saved, orphans, logs, applyErr,
                  late, snapshot, faulty>>
  BY <1>1, Zenon DEF raftVars, procVars, testVars, mode
<1>3. PICK j \in Srv :
        /\ persisted[j].index \in Index
        /\ persisted'[i] = persisted[j] /\ lastApplied'[i] = persisted[j].index
        /\ log'[i] = persisted[j].log /\ next'[i] = persisted[j].index + 1
        /\ req'[i].index = persisted[j].index /\ req'[i].log = persisted[j].log
  BY <1>1, Zenon
<1>4. SInv(i) /\ SInv(j)
  BY Zenon
<1> DEFINE n == persisted[j].index
<1>5. /\ n \in 1..commitIndex /\ n <= commitIndex /\ n + 1 <= commitIndex + 1
      /\ persisted[j].log = Prefix(n)
  <2>1. n <= commitIndex /\ persisted[j].log = Prefix(n) /\ n \in Index
    BY <1>3, <1>4, Zenon DEF SInv, OwnInv, SnapOK
  <2> HIDE DEF n
  <2> QED BY <2>1, Counters, Indices
<1>6. /\ LogInv(i)'
      /\ Clean(i)' <=> Clean(i)
      /\ \A m : Prefix(m)' = Prefix(m)
      /\ \A s : SnapOK(s) => SnapOK(s)'
  BY <1>2, <1>4, SameLog, Zenon DEF SInv
<1>7. IdleInv(i)'
  BY <1>1, NoneAssumption, Zenon DEF IdleInv
<1>8. CallInv(i)'
  <2>1. ReqOK(req[i])'
    BY <1>1, <1>2, <1>3, <1>5, <1>6, Zenon DEF ReqOK
  <2> QED BY <1>1, <1>2, <1>3, <2>1, Zenon DEF CallInv
<1>9. OwnInv(i)'
  <2>1. SnapOK(persisted[i])' /\ SnapOK(saved[i])'
    BY <1>2, <1>3, <1>4, <1>6, Zenon DEF SInv, OwnInv, SnapOK
  <2> QED BY <1>1, <1>2, <1>3, <1>4, <1>5, <1>6, <2>1, Zenon DEF SInv, OwnInv
<1>10. SInv(i)'
  BY <1>6, <1>7, <1>8, <1>9, Zenon DEF SInv
<1>11. OrphansKept(i)
  BY <1>1, <1>2, SameOrphans, Zenon
<1> QED BY <1>1, <1>2, <1>10, <1>11, StepAt, Zenon

\* The end of an iteration of the applier: the tester answered, or the connection
\* is closed, or a snapshot came late and the tester has found fault.
LEMMA FinishKeeps ==
  ASSUME TypeOK, ~ faulty, NEW i \in Srv, SInv(i), NEW e \in BOOLEAN, req[i] # None,
         Finish(i, e), orphans' \subseteq Request, UNCHANGED mode,
         IF e THEN ~ open[i] \/ ~ Clean(i) ELSE answer[i] # "none"
  PROVE  /\ SInv(i)' /\ OnlyAt(i) /\ UNCHANGED <<committed, commitIndex, snapshot>>
         /\ UNCHANGED <<open, life, logs, late>>
         /\ ~ open[i] => req'[i] = None \/ ~ req'[i].sent
<1> DEFINE k == req[i].index
<1>1. req[i] \in Request
  BY Zenon DEF TypeOK
<1>2. /\ TypeOK' /\ OnlyAt(i)
      /\ answer'[i] = "none"
      /\ ~ Reports(i, e) => req'[i] = None
      /\ Reports(i, e) =>
           /\ req'[i] \in Request /\ req'[i].kind = "ApplyErr" /\ req'[i].from = i
           /\ req'[i].life = life[i] /\ req'[i].sent = open[i] /\ req'[i].index = k
      /\ req[i].kind = "CheckLogs" /\ snapshot =>
           /\ log'[i] = [log[i] EXCEPT ![k] = req[i].cmd]
           /\ lastApplied'[i] = k
           /\ \/ persisted'[i] = persisted[i]
              \/ persisted'[i].index = k /\ persisted'[i].log = Upto(log'[i], k)
      /\ ~ (req[i].kind = "CheckLogs" /\ snapshot) =>
           UNCHANGED <<log, lastApplied, persisted>>
      /\ UNCHANGED <<raftVars, procVars, next, testVars>>
  BY <1>1, FinishEffect, Zenon
<1>3. UNCHANGED <<committed, commitIndex, up, open, life, next, saved, logs, applyErr, late,
                  snapshot, faulty>>
  BY <1>2, Zenon DEF raftVars, procVars, testVars, mode
<1>4. /\ LogInv(i)' /\ \A m : Has(i, m) => Has(i, m)'
      /\ Clean(i)' <=> Clean(i)
      /\ \A n : Prefix(n)' = Prefix(n)
      /\ \A s : SnapOK(s) => SnapOK(s)'
  BY <1>3, SameLog, Zenon DEF SInv
<1>5. /\ up[i] /\ req[i].from = i /\ ReqOK(req[i]) /\ next[i] = k + 1
      /\ Clean(i) /\ req[i].kind = "ApplyErr" => ~ req[i].sent
      /\ ~ req[i].sent => ~ open[i] /\ answer[i] = "none"
      /\ snapshot => lastApplied[i] = IF req[i].kind = "CheckLogs" THEN k - 1 ELSE k
      /\ Clean(i) /\ req[i].sent /\ answer[i] # "none" => Has(i, k)
  BY Zenon DEF SInv, CallInv
<1>6. k \in Nat /\ k \in 0..MaxIndex
  BY <1>1, RequestFields, BoundsAssumption
<1>7. Reports(i, e) <=> req[i].kind = "CheckLogs" /\ e
  <2>1. req[i].kind = "IngestLog" => k \in 1..commitIndex
    BY <1>5, Zenon DEF ReqOK
  <2> HIDE DEF k
  <2>2. req[i].kind = "IngestLog" => k # 0
    BY <2>1, Counters
  <2> QED BY <2>2, Zenon DEF Reports, k
<1> HIDE DEF k
<1>8. next[i] - 1 = k
  BY <1>5, <1>6
<1>9. ~ open[i] => req'[i] = None \/ ~ req'[i].sent
  BY <1>2, Zenon
<1>10. lastApplied'[i] = k \/ ~ snapshot
  BY <1>2, <1>5, Zenon
<1>11. IdleInv(i)'
  <2>1. Clean(i) /\ open[i] => Has(i, k)
    BY <1>5, Zenon
  <2> QED BY <1>2, <1>3, <1>4, <1>5, <1>8, <1>10, <2>1, Zenon DEF IdleInv
<1>12. CallInv(i)'
  <2> SUFFICES ASSUME req'[i] # None PROVE CallInv(i)'
    BY Zenon DEF CallInv
  <2>1. req[i].kind = "CheckLogs" /\ e
    BY <1>2, <1>7, Zenon
  <2>2. /\ req'[i].kind = "ApplyErr" /\ req'[i].from = i
        /\ req'[i].life = life[i] /\ req'[i].sent = open[i] /\ req'[i].index = k
    BY <1>2, <1>7, <2>1, Zenon
  <2>3. ReqOK(req[i])'
    BY <2>2, Zenon DEF ReqOK
  <2>4. ~ open[i] \/ ~ Clean(i)
    BY <2>1, Zenon
  <2> QED BY <1>2, <1>3, <1>4, <1>5, <1>10, <2>2, <2>3, <2>4, Zenon DEF CallInv
<1>13. OwnInv(i)'
  <2>1. CASE req[i].kind = "CheckLogs" /\ snapshot
    <3>1. k \in 1..commitIndex /\ req[i].cmd = committed[k] /\ lastApplied[i] = k - 1
      BY <1>5, <2>1, Zenon DEF ReqOK, k
    <3>2. k - 1 \in 0..commitIndex /\ k <= commitIndex /\ ~ (k <= k - 1) /\ k - 1 <= k - 1
      BY <1>6, <3>1, Counters
    <3>3. [Prefix(k - 1) EXCEPT ![k] = committed[k]] = Prefix(k)
      BY <3>1, <3>2, PrefixGrows, Zenon
    <3>4. log'[i] = Prefix(k)
      BY <1>2, <2>1, <3>1, <3>3, Zenon DEF SInv, OwnInv
    <3>5. SnapOK(persisted[i])' /\ SnapOK(saved[i])'
      <4>1. Upto(log'[i], k) = Prefix(k)
        BY <3>4, UptoPrefix, Zenon
      <4> QED BY <1>2, <1>3, <1>4, <2>1, <3>2, <4>1, Zenon DEF SInv, OwnInv, SnapOK
    <3> QED BY <1>2, <1>3, <1>4, <2>1, <3>2, <3>4, <3>5, Zenon DEF SInv, OwnInv
  <2>2. CASE ~ (req[i].kind = "CheckLogs" /\ snapshot)
    BY <1>2, <1>3, <1>4, <2>2, Zenon DEF SInv, OwnInv, SnapOK
  <2> QED BY <2>1, <2>2, Zenon
<1> QED BY <1>2, <1>3, <1>4, <1>9, <1>11, <1>12, <1>13, Zenon DEF SInv

\* The tester has answered; with a complaint only if a snapshot came late.
LEMMA ReturnsKeeps ==
  ASSUME TypeOK, ~ faulty, OrphanInv, \A j \in Srv : SInv(j), NEW i \in Srv,
         Returns(i), UNCHANGED mode
  PROVE  OrphanInv' /\ \A j \in Srv : SInv(j)'
<1>1. /\ req[i] # None /\ answer[i] # "none" /\ orphans' = orphans
      /\ Finish(i, answer[i] = "bad")
  BY Zenon DEF Returns
<1>2. SInv(i)
  BY Zenon
<1>3. PICK e \in BOOLEAN : e = (answer[i] = "bad")
  BY Zenon
<1>4. Finish(i, e)
  BY <1>1, <1>3, Zenon
<1>5. e => ~ Clean(i)
  BY <1>2, <1>3, Zenon DEF SInv, OwnInv
<1>6. orphans' \subseteq Request
  BY <1>1, Zenon DEF TypeOK
<1>7. /\ SInv(i)' /\ OnlyAt(i) /\ UNCHANGED <<committed, commitIndex, snapshot>>
      /\ UNCHANGED <<open, life, logs, late>>
      /\ ~ open[i] => req'[i] = None \/ ~ req'[i].sent
  BY <1>1, <1>2, <1>4, <1>5, <1>6, FinishKeeps, Zenon
<1>8. OrphansKept(i)
  BY <1>1, <1>7, SameOrphans, Zenon
<1> QED BY <1>7, <1>8, StepAt, Zenon

\* A server gives up on a request only with its connection closed, and then
\* sends no more.
LEMMA AbandonedKeeps ==
  ASSUME TypeOK, OrphanInv, NEW i \in Srv, SInv(i), Abandoned(i), ~ open[i],
         ~ open'[i], req'[i] = None \/ ~ req'[i].sent, logs'[i] = logs[i],
         late'[i] = late[i], life'[i] = life[i], UNCHANGED <<committed, commitIndex>>
  PROVE  OrphansKept(i)
<1>1. /\ orphans' \subseteq Request
      /\ \A r \in orphans' : r \in orphans \/
           (r = req[i] /\ req[i] # None /\ req[i].sent /\ answer[i] = "none")
  BY AbandonedEffect, Zenon
<1>2. req[i] # None =>
        /\ req[i].from = i /\ req[i].life = life[i] /\ ReqOK(req[i])
        /\ Clean(i) /\ req[i].kind = "ApplyErr" => ~ req[i].sent
        /\ Clean(i) /\ req[i].sent /\ req[i].kind = "CheckLogs" => Has(i, req[i].index - 1)
  BY Zenon DEF SInv, CallInv
<1>3. life[i] <= life[i]
  BY Counters
<1>4. ASSUME NEW r \in orphans', r.from = i
      PROVE  /\ r.sent /\ ReqOK(r) /\ r.life <= life[i]
             /\ Clean(i) => r.kind # "ApplyErr"
             /\ r.life = life[i] /\ Clean(i) /\ r.kind = "CheckLogs" => Has(i, r.index - 1)
  <2>1. CASE r \in orphans
    BY <1>4, <2>1, Zenon DEF OrphanInv, OrphanOK, Current
  <2>2. CASE r = req[i] /\ req[i] # None /\ req[i].sent
    BY <1>2, <1>3, <2>2, Zenon
  <2> QED BY <1>1, <1>4, <2>1, <2>2, Zenon
<1>5. ASSUME NEW r \in orphans', r.from = i PROVE OrphanOK(r)' /\ (Current(r)' <=> Current(r))
  <2>1. (Has(i, r.index - 1) => Has(i, r.index - 1)') /\ (Clean(i)' <=> Clean(i))
    BY SameLog, Zenon
  <2>2. ReqOK(r) => ReqOK(r)'
    BY SameLog, Zenon
  <2> QED BY <1>4, <1>5, <2>1, <2>2, Zenon DEF OrphanOK, Current
<1>6. ASSUME NEW q \in orphans', NEW r \in orphans', q.from = i, r.from = i,
             Current(q)', Current(r)'
      PROVE  q = r
  <2>1. \A x \in orphans : x.from = i /\ Current(x) => req[i] = None \/ ~ req[i].sent
    BY Zenon DEF OrphanInv, OrphanOK
  <2>2. Current(q) /\ Current(r)
    BY <1>5, <1>6, Zenon
  <2> QED BY <1>1, <1>6, <2>1, <2>2, Zenon DEF OrphanInv
<1>7. \A r \in orphans' : r.from # i => r \in orphans
  BY <1>1, <1>2, Zenon
<1> QED BY <1>1, <1>5, <1>6, <1>7, Zenon DEF OrphansKept

\* The connection is closed: the request fails.
LEMMA FailsKeeps ==
  ASSUME TypeOK, ~ faulty, OrphanInv, \A j \in Srv : SInv(j), NEW i \in Srv,
         Fails(i), UNCHANGED mode
  PROVE  OrphanInv' /\ \A j \in Srv : SInv(j)'
<1>1. req[i] # None /\ ~ open[i] /\ Abandoned(i) /\ Finish(i, TRUE)
  BY Zenon DEF Fails
<1>2. SInv(i)
  BY Zenon
<1>3. orphans' \subseteq Request
  BY <1>1, AbandonedEffect, Zenon
<1>4. /\ SInv(i)' /\ OnlyAt(i) /\ UNCHANGED <<committed, commitIndex, snapshot>>
      /\ UNCHANGED <<open, life, logs, late>>
      /\ ~ open[i] => req'[i] = None \/ ~ req'[i].sent
  BY <1>1, <1>2, <1>3, FinishKeeps, Zenon
<1>5. OrphansKept(i)
  BY <1>1, <1>2, <1>4, AbandonedKeeps, Zenon
<1> QED BY <1>4, <1>5, StepAt, Zenon

\* The tester closes a connection,
LEMMA CloseConnKeeps ==
  ASSUME TypeOK, ~ faulty, OrphanInv, \A j \in Srv : SInv(j), NEW i \in Srv,
         CloseConn(i), UNCHANGED mode
  PROVE  OrphanInv' /\ \A j \in Srv : SInv(j)'
<1>1. /\ OnlyAt(i) /\ ~ open'[i]
      /\ UNCHANGED <<raftVars, up, copied, life, saved, next, persisted, lastApplied, log,
                     rpcVars, testVars>>
  BY CloseConnEffect, Zenon
<1>2. UNCHANGED <<committed, commitIndex, up, life, saved, next, persisted, lastApplied, log,
                  req, answer, orphans, logs, applyErr, late, snapshot, faulty>>
  BY <1>1, Zenon DEF raftVars, rpcVars, testVars, mode
<1>3. SInv(i)
  BY Zenon
<1>4. /\ LogInv(i)' /\ \A k : Has(i, k) => Has(i, k)'
      /\ Clean(i)' <=> Clean(i)
      /\ \A n : Prefix(n)' = Prefix(n) /\ \A r : ReqOK(r) => ReqOK(r)'
      /\ \A s : SnapOK(s) => SnapOK(s)'
  BY <1>2, <1>3, SameLog, Zenon DEF SInv
<1>5. IdleInv(i)'
  BY <1>1, <1>2, <1>3, Zenon DEF SInv, IdleInv
<1>6. CallInv(i)'
  <2> SUFFICES ASSUME req[i] # None PROVE CallInv(i)'
    BY <1>2, Zenon DEF CallInv
  <2>1. ReqOK(req[i])'
    BY <1>2, <1>3, <1>4, Zenon DEF SInv, CallInv, ReqOK
  <2> QED BY <1>1, <1>2, <1>3, <1>4, <2>1, Zenon DEF SInv, CallInv
<1>7. OwnInv(i)'
  BY <1>1, <1>2, <1>3, <1>4, Zenon DEF SInv, OwnInv, SnapOK
<1>8. SInv(i)'
  BY <1>4, <1>5, <1>6, <1>7, Zenon DEF SInv
<1>9. OrphansKept(i)
  BY <1>1, <1>2, SameOrphans, Zenon
<1> QED BY <1>1, <1>2, <1>8, <1>9, StepAt, Zenon

\* copies what the server has persisted,
LEMMA CheckpointKeeps ==
  ASSUME TypeOK, ~ faulty, OrphanInv, \A j \in Srv : SInv(j), NEW i \in Srv,
         Checkpoint(i), UNCHANGED mode
  PROVE  OrphanInv' /\ \A j \in Srv : SInv(j)'
<1>1. /\ OnlyAt(i) /\ saved'[i] = persisted[i]
      /\ UNCHANGED <<raftVars, up, open, life, next, persisted, lastApplied, log, rpcVars,
                     testVars, kills>>
  BY CheckpointEffect, Zenon
<1>2. UNCHANGED <<committed, commitIndex, up, open, life, next, persisted, lastApplied, log,
                  req, answer, orphans, logs, applyErr, late, snapshot, faulty>>
  BY <1>1, Zenon DEF raftVars, rpcVars, testVars, mode
<1>3. SInv(i)
  BY Zenon
<1>4. /\ LogInv(i)' /\ \A k : Has(i, k) => Has(i, k)'
      /\ Clean(i)' <=> Clean(i)
      /\ \A n : Prefix(n)' = Prefix(n) /\ \A r : ReqOK(r) => ReqOK(r)'
      /\ \A s : SnapOK(s) => SnapOK(s)'
  BY <1>2, <1>3, SameLog, Zenon DEF SInv
<1>5. IdleInv(i)'
  BY <1>2, <1>3, <1>4, Zenon DEF SInv, IdleInv
<1>6. CallInv(i)'
  <2> SUFFICES ASSUME req[i] # None PROVE CallInv(i)'
    BY <1>2, Zenon DEF CallInv
  <2>1. ReqOK(req[i])'
    BY <1>2, <1>3, <1>4, Zenon DEF SInv, CallInv, ReqOK
  <2> QED BY <1>2, <1>3, <1>4, <2>1, Zenon DEF SInv, CallInv
<1>7. OwnInv(i)'
  BY <1>1, <1>2, <1>3, <1>4, Zenon DEF SInv, OwnInv, SnapOK
<1>8. SInv(i)'
  BY <1>4, <1>5, <1>6, <1>7, Zenon DEF SInv
<1>9. OrphansKept(i)
  BY <1>1, <1>2, SameOrphans, Zenon
<1> QED BY <1>1, <1>2, <1>8, <1>9, StepAt, Zenon

\* and kills the server.  What it has sent may be on its way still.
LEMMA KillKeeps ==
  ASSUME TypeOK, ProcInv, ~ faulty, OrphanInv, \A j \in Srv : SInv(j), NEW i \in Srv,
         Kill(i), UNCHANGED mode
  PROVE  OrphanInv' /\ \A j \in Srv : SInv(j)'
<1>1. /\ OnlyAt(i) /\ copied[i] /\ ~ up'[i] /\ req'[i] = None /\ answer'[i] = "none"
      /\ UNCHANGED <<raftVars, open, copied, life, saved, next, persisted, lastApplied,
                     log, testVars, kills>>
  BY KillEffect, Zenon
<1>2. UNCHANGED <<committed, commitIndex, open, life, saved, next, persisted, lastApplied,
                  log, logs, applyErr, late, snapshot, faulty>>
  BY <1>1, Zenon DEF raftVars, testVars, mode
<1>3. SInv(i) /\ ~ open[i] /\ Abandoned(i)
  BY <1>1, Zenon DEF ProcInv, Kill
<1>4. /\ LogInv(i)' /\ \A n : Prefix(n)' = Prefix(n)
      /\ Clean(i)' <=> Clean(i)
      /\ \A s : SnapOK(s) => SnapOK(s)'
  BY <1>2, <1>3, SameLog, Zenon DEF SInv
<1>5. IdleInv(i)' /\ CallInv(i)'
  BY <1>1, Zenon DEF IdleInv, CallInv
<1>6. OwnInv(i)'
  BY <1>1, <1>2, <1>3, <1>4, Zenon DEF SInv, OwnInv, SnapOK
<1>7. SInv(i)'
  BY <1>4, <1>5, <1>6, Zenon DEF SInv
<1>8. OrphansKept(i)
  BY <1>1, <1>2, <1>3, AbandonedKeeps, Zenon
<1> QED BY <1>1, <1>2, <1>7, <1>8, StepAt, Zenon

\* A server that starts again tells the tester of its snapshot before anything
\* else, and without one begins at the first command.  What its earlier processes
\* sent is late from now on.
LEMMA RestartKeeps ==
  ASSUME TypeOK, ProcInv, ~ faulty, OrphanInv, \A j \in Srv : SInv(j), NEW i \in Srv,
         Restart(i), UNCHANGED mode
  PROVE  OrphanInv' /\ \A j \in Srv : SInv(j)'
<1>1. /\ OnlyAt(i) /\ ~ up[i] /\ up'[i] /\ open'[i] /\ life'[i] = kills
      /\ next'[i] = saved[i].index + 1 /\ persisted'[i] = saved[i]
      /\ lastApplied'[i] = saved[i].index /\ log'[i] = saved[i].log
      /\ saved[i].index = 0 => req'[i] = None
      /\ saved[i].index # 0 =>
           /\ req'[i] \in Request /\ req'[i].kind = "IngestLog" /\ req'[i].from = i
           /\ req'[i].life = kills /\ req'[i].index = saved[i].index
           /\ req'[i].log = saved[i].log /\ req'[i].sent
      /\ UNCHANGED <<raftVars, saved, answer, orphans, testVars, kills>>
  BY RestartEffect, Zenon
<1>2. UNCHANGED <<committed, commitIndex, saved, answer, orphans, logs, applyErr, late,
                  snapshot, faulty>>
  BY <1>1, Zenon DEF raftVars, testVars, mode
<1>3. SInv(i)
  BY Zenon
<1>4. req[i] = None /\ answer[i] = "none"
  BY <1>1, <1>3, Zenon DEF SInv, CallInv, IdleInv
<1>5. /\ LogInv(i)' /\ \A n : Prefix(n)' = Prefix(n)
      /\ Clean(i)' <=> Clean(i)
      /\ \A r : ReqOK(r) => ReqOK(r)'
      /\ \A s : SnapOK(s) => SnapOK(s)'
  BY <1>2, <1>3, SameLog, Zenon DEF SInv
<1> DEFINE n == saved[i].index
<1>6. n <= commitIndex /\ n \in Nat /\ saved[i].log = Prefix(n)
  BY <1>3, Counters, Zenon DEF SInv, OwnInv, SnapOK
<1>7. IdleInv(i)'
  <2>1. CASE n = 0
    <3>1. next'[i] - 1 = 0
      BY <1>1, <2>1
    <3> QED BY <1>1, <1>2, <1>4, <3>1, Zenon DEF IdleInv, Has
  <2>2. CASE n # 0
    BY <1>1, <2>2, NoneAssumption, Zenon DEF IdleInv
  <2> QED BY <2>1, <2>2, Zenon
<1>8. CallInv(i)'
  <2>1. CASE n = 0
    BY <1>1, <2>1, Zenon DEF CallInv
  <2>2. CASE n # 0
    <3>1. n \in 1..commitIndex
      <4> HIDE DEF n
      <4> QED BY <1>6, <2>2, Counters
    <3>2. ReqOK(req[i])'
      BY <1>1, <1>2, <1>5, <1>6, <2>2, <3>1, Zenon DEF ReqOK
    <3> QED BY <1>1, <1>2, <1>4, <2>2, <3>2, Zenon DEF CallInv
  <2> QED BY <2>1, <2>2, Zenon
<1>9. OwnInv(i)'
  <2>1. n + 1 <= commitIndex + 1
    <3> HIDE DEF n
    <3> QED BY <1>6, Counters
  <2>2. SnapOK(persisted[i])' /\ SnapOK(saved[i])'
    BY <1>1, <1>2, <1>3, <1>5, Zenon DEF SInv, OwnInv, SnapOK
  <2> QED BY <1>1, <1>2, <1>3, <1>5, <1>6, <2>1, <2>2, Zenon DEF SInv, OwnInv
<1>10. SInv(i)'
  BY <1>5, <1>7, <1>8, <1>9, Zenon DEF SInv
<1>11. ASSUME NEW r \in orphans, r.from = i PROVE OrphanOK(r)' /\ ~ Current(r)'
  <2>1. OrphanOK(r) /\ r \in Request
    BY Zenon DEF OrphanInv, TypeOK
  <2>2. r.life <= life[i] /\ life[i] < kills
    BY <1>1, <1>11, <2>1, Zenon DEF OrphanOK, ProcInv
  <2>3. r.life \in 0..MaxKill
    BY <2>1, RequestFields, Zenon
  <2>4. r.life <= kills /\ r.life # kills
    BY <2>2, <2>3, Counters, BoundsAssumption
  <2>5. ~ Current(r)' /\ r.life <= life'[r.from]
    BY <1>1, <1>11, <2>4, Zenon DEF Current
  <2> QED BY <1>2, <1>5, <1>11, <2>1, <2>5, Zenon DEF OrphanOK
<1>12. OrphansKept(i)
  BY <1>1, <1>2, <1>11, Zenon DEF OrphansKept, TypeOK
<1> QED BY <1>1, <1>2, <1>10, <1>12, StepAt, Zenon

\* What a handler makes of the copy: it holds what was committed, and goes as far as
\* the request says.
LEMMA HandledCopy ==
  ASSUME TypeOK, NEW r \in Request, NEW i \in Srv, Entries(i), Handled(r, i), ReqOK(r),
         UNCHANGED <<committed, commitIndex>>
  PROVE  /\ Entries(i)'
         /\ r.kind # "ApplyErr" => Has(i, r.index)' /\ applyErr'[i] = applyErr[i]
         /\ r.kind = "CheckLogs" => \A k \in 0..MaxIndex : Has(i, k) => Has(i, k)'
<1>1. r.kind \in {"CheckLogs", "IngestLog", "ApplyErr"}
  BY RequestFields, Zenon
<1>2. commitIndex \in Nat /\ commitIndex <= MaxIndex
  <2>1. commitIndex \in 0..MaxIndex
    BY Zenon DEF TypeOK
  <2> QED BY <2>1, BoundsAssumption
<1> DEFINE x == r.index
<1>3. CASE r.kind = "ApplyErr"
  BY <1>3, ZenonT(40) DEF Handled, Entries
<1>4. ASSUME r.kind # "ApplyErr"
      PROVE  x \in Index /\ x <= commitIndex /\ x <= x /\ committed[x] # None
  <2>1. x \in 1..commitIndex
    BY <1>1, <1>4, Zenon DEF ReqOK
  <2> HIDE DEF x
  <2>2. x \in Index /\ x <= commitIndex /\ x <= x
    BY <1>2, <2>1, Indices, BoundsAssumption
  <2> QED BY <2>2, NoneAssumption, Zenon DEF TypeOK
<1>5. CASE r.kind = "IngestLog"
  <2>1. logs'[i] = Prefix(x) /\ applyErr'[i] = applyErr[i]
    BY <1>5, Zenon DEF Handled, ReqOK
  <2>2. logs'[i][x] = committed[x] /\ x \in Nat /\ x <= commitIndex
    <3>1. x \in Nat
      BY <1>4, <1>5, Indices, Zenon
    <3> QED BY <1>4, <1>5, <2>1, <3>1, PrefixAt, Zenon
  <2>3. Has(i, r.index)'
    BY <1>4, <1>5, <2>2, Zenon DEF Has
  <2> HIDE DEF x
  <2>4. \A k \in Index : k <= x => k <= commitIndex
    BY <1>2, <2>2, Indices
  <2>5. Entries(i)'
    BY <2>1, <2>4, PrefixAt, Zenon DEF Entries
  <2> QED BY <1>5, <2>1, <2>3, <2>5, Zenon
<1>6. CASE r.kind = "CheckLogs"
  <2>1. logs'[i] = [logs[i] EXCEPT ![x] = committed[x]] /\ applyErr'[i] = applyErr[i]
    BY <1>6, Zenon DEF Handled, ReqOK
  <2>2. logs[i] \in [Index -> Cmd \cup {None}]
    BY Zenon DEF TypeOK, Log
  <2>3. \A k \in Index : logs'[i][k] = IF k = x THEN committed[x] ELSE logs[i][k]
    BY <2>1, <2>2, Zenon
  <2>4. Has(i, r.index)'
    BY <1>4, <1>6, <2>3, Zenon DEF Has
  <2>5. \A k \in 0..MaxIndex : Has(i, k) => Has(i, k)'
    <3>1. \A k \in 0..MaxIndex : k = 0 \/ k \in Index
      BY Indices, Zenon
    <3> QED BY <1>4, <1>6, <2>3, <3>1, Zenon DEF Has
  <2>6. Entries(i)'
    BY <1>4, <1>6, <2>3, Zenon DEF Entries
  <2> QED BY <1>6, <2>1, <2>4, <2>5, <2>6, Zenon
<1> QED BY <1>1, <1>3, <1>5, <1>6, Zenon

\* A command that follows one the copy has leaves no hole.
LEMMA HandledWhole ==
  ASSUME TypeOK, NEW r \in Request, NEW i \in Srv, Whole(i), Handled(r, i), ReqOK(r),
         r.kind # "ApplyErr", r.kind = "CheckLogs" => Has(i, r.index - 1),
         UNCHANGED <<committed, commitIndex>>
  PROVE  Whole(i)'
<1>1. r.kind \in {"CheckLogs", "IngestLog"}
  BY RequestFields, Zenon
<1>2. \A n : Prefix(n)' = Prefix(n)
  BY SameRaft, Zenon
<1> DEFINE x == r.index
<1>3. x \in 1..commitIndex
  BY <1>1, Zenon DEF ReqOK
<1>4. x \in 0..commitIndex /\ x - 1 \in 0..commitIndex
  <2> HIDE DEF x
  <2> QED BY <1>3, Counters
<1>5. CASE r.kind = "IngestLog"
  <2>1. logs'[i] = Prefix(x)
    BY <1>5, Zenon DEF Handled, ReqOK
  <2> QED BY <1>2, <1>4, <2>1, Zenon DEF Whole
<1>6. CASE r.kind = "CheckLogs"
  <2>1. logs'[i] = [logs[i] EXCEPT ![x] = committed[x]] /\ Has(i, x - 1)
    BY <1>6, Zenon DEF Handled, ReqOK
  <2>2. PICK n \in 0..commitIndex : logs[i] = Prefix(n)
    BY Zenon DEF Whole
  <2> HIDE DEF x
  <2>3. x - 1 <= n
    BY <1>4, <2>1, <2>2, HasPrefix, Zenon
  <2>4. logs'[i] = Prefix(IF x <= n THEN n ELSE x)
    BY <1>3, <2>1, <2>2, <2>3, PrefixGrows, Zenon
  <2> QED BY <1>2, <1>4, <2>4, Zenon DEF Whole
<1> QED BY <1>1, <1>5, <1>6, Zenon

\* And CheckLogs has nothing to object to.
LEMMA NoObjection ==
  ASSUME \A j \in Srv : Entries(j), NEW r \in Request, TypeOK, ReqOK(r),
         r.kind = "CheckLogs" => Has(r.from, r.index - 1)
  PROVE  Verdict(r) # "bad"
<1> SUFFICES ASSUME r.kind = "CheckLogs" PROVE ~ Differs(r) /\ ~ NoPrev(r)
  BY VerdictIs, Zenon
<1> DEFINE x == r.index
<1>1. x \in 1..commitIndex /\ r.cmd = committed[x] /\ commitIndex \in 0..MaxIndex
  BY Zenon DEF ReqOK, TypeOK
<1>2. x \in Index /\ (x > 1 => x - 1 # 0)
  <2> HIDE DEF x
  <2> QED BY <1>1, Indices, BoundsAssumption
<1>3. ~ NoPrev(r)
  BY <1>2, Zenon DEF NoPrev, Has
<1>4. ~ Differs(r)
  BY <1>1, <1>2, Zenon DEF Differs, Entries
<1> QED BY <1>3, <1>4, Zenon

\* The tester handles a request that its server waits for.
LEMMA HandleRequestKeeps ==
  ASSUME TypeOK, ~ faulty, OrphanInv, \A j \in Srv : SInv(j), NEW i \in Srv,
         HandleRequest(i), UNCHANGED mode
  PROVE  OrphanInv' /\ \A j \in Srv : SInv(j)'
<1>1. PICK r \in Request : r = req[i]
  BY HandleRequestEffect, Zenon
<1>2. /\ r.sent /\ answer[i] = "none" /\ answer'[i] = Verdict(r)
      /\ r.from = i => Handled(r, i) /\ OnlyAt(i)
      /\ UNCHANGED <<raftVars, srvVars, req, orphans, late>>
  BY <1>1, HandleRequestEffect, Zenon
<1>3. UNCHANGED <<committed, commitIndex, up, open, life, next, persisted, saved,
                  lastApplied, log, req, orphans, late, snapshot, faulty>>
  BY <1>2, Zenon DEF raftVars, srvVars, procVars, mode
<1>4. SInv(i) /\ \A j \in Srv : Entries(j)
  BY Zenon DEF SInv, LogInv
<1>5. /\ up[i] /\ r.from = i /\ r.life = life[i] /\ ReqOK(r) /\ next[i] = r.index + 1
      /\ Clean(i) => r.kind # "ApplyErr"
      /\ snapshot => lastApplied[i] = IF r.kind = "CheckLogs" THEN r.index - 1 ELSE r.index
      /\ Clean(i) /\ r.kind = "CheckLogs" => Has(i, r.index - 1)
  <2>1. r # None
    BY NoneAssumption, Zenon
  <2> QED BY <1>1, <1>2, <1>4, <2>1, Zenon DEF SInv, CallInv
<1>6. Handled(r, i) /\ OnlyAt(i)
  BY <1>2, <1>5, Zenon
<1>7. /\ Entries(i)'
      /\ r.kind # "ApplyErr" => Has(i, r.index)' /\ applyErr'[i] = applyErr[i]
      /\ r.kind = "CheckLogs" => \A k \in 0..MaxIndex : Has(i, k) => Has(i, k)'
  BY <1>3, <1>4, <1>5, <1>6, HandledCopy, Zenon
<1>8. Clean(i) => Verdict(r) # "bad"
  BY <1>4, <1>5, NoObjection, Zenon
<1>9. Clean(i)' <=> Clean(i)
  BY <1>3, Zenon DEF Clean
<1>10. LogInv(i)'
  <2>1. late[i] = {} => Clean(i) /\ Whole(i)
    BY <1>4, Zenon DEF Clean, SInv, LogInv
  <2>2. late[i] = {} => Whole(i)'
    BY <1>3, <1>5, <1>6, <2>1, HandledWhole, Zenon
  <2> QED BY <1>3, <1>7, <2>2, Zenon DEF LogInv
<1>11. IdleInv(i)'
  BY <1>1, <1>3, NoneAssumption, Zenon DEF IdleInv
<1>12. CallInv(i)'
  <2>1. r.kind = "CheckLogs" => r.index - 1 \in 0..MaxIndex
    <3>1. r.kind = "CheckLogs" => r.index \in 1..commitIndex
      BY <1>5, Zenon DEF ReqOK
    <3>2. r.index \in 0..MaxIndex
      BY RequestFields, Zenon
    <3> QED BY <3>1, <3>2, Counters, BoundsAssumption
  <2>2. Clean(i) /\ r.kind = "CheckLogs" => Has(i, r.index - 1)'
    BY <1>5, <1>7, <2>1, Zenon
  <2>3. ReqOK(r)'
    BY <1>3, <1>5, SameRaft, Zenon
  <2>4. (req[i] = r)'
    BY <1>1, <1>3, Zenon
  <2>5. Clean(i) => Has(i, r.index)'
    BY <1>5, <1>7, Zenon
  <2> QED BY <1>2, <1>3, <1>5, <1>9, <2>2, <2>3, <2>4, <2>5, Zenon DEF CallInv
<1>13. OwnInv(i)'
  <2>1. Clean(i) => ~ applyErr'[i] /\ answer'[i] # "bad"
    BY <1>2, <1>4, <1>5, <1>7, <1>8, Zenon DEF SInv, OwnInv
  <2>2. /\ \A n : Prefix(n)' = Prefix(n)
        /\ \A s : SnapOK(s) => SnapOK(s)'
    BY <1>3, SameRaft, Zenon
  <2> QED BY <1>3, <1>4, <1>9, <2>1, <2>2, Zenon DEF SInv, OwnInv, SnapOK
<1>14. SInv(i)'
  BY <1>10, <1>11, <1>12, <1>13, Zenon DEF SInv
<1>15. ASSUME NEW q \in orphans, q.from = i PROVE OrphanOK(q)' /\ ~ Current(q)'
  <2>1. OrphanOK(q)
    BY Zenon DEF OrphanInv
  <2>2. ~ Current(q)
    BY <1>1, <1>2, <1>15, <2>1, NoneAssumption, Zenon DEF OrphanOK
  <2>3. ReqOK(q)'
    BY <1>3, <2>1, SameRaft, Zenon DEF OrphanOK
  <2>4. ~ Current(q)'
    BY <1>3, <2>2, Zenon DEF Current
  <2> QED BY <1>3, <1>9, <1>15, <2>1, <2>3, <2>4, Zenon DEF OrphanOK
<1>16. OrphansKept(i)
  BY <1>3, <1>15, Zenon DEF OrphansKept, TypeOK
<1> QED BY <1>3, <1>6, <1>14, <1>16, StepAt, Zenon

\* The tester handles a request that its server gave up on.
LEMMA HandleOrphanKeeps ==
  ASSUME TypeOK, ~ faulty, OrphanInv, \A j \in Srv : SInv(j), NEW r \in orphans,
         HandleOrphan(r), UNCHANGED mode
  PROVE  OrphanInv' /\ \A j \in Srv : SInv(j)'
<1>1. /\ TypeOK' /\ r \in Request /\ r.from \in Srv
      /\ Handled(r, r.from) /\ OnlyAt(r.from) /\ orphans' = orphans \ {r}
      /\ r.life = life[r.from] => late'[r.from] = late[r.from]
      /\ r.life # life[r.from] => late'[r.from] = late[r.from] \cup {r.kind}
      /\ UNCHANGED <<raftVars, srvVars, req, answer>>
  BY HandleOrphanEffect, Zenon
<1>2. PICK i \in Srv : i = r.from
  BY <1>1, Zenon
<1>3. UNCHANGED <<committed, commitIndex, up, open, life, next, persisted, saved,
                  lastApplied, log, req, answer, snapshot, faulty>>
  BY <1>1, Zenon DEF raftVars, srvVars, procVars, mode
<1>4. /\ r.sent /\ ReqOK(r)
      /\ Clean(i) => r.kind # "ApplyErr"
      /\ Current(r) =>
           /\ ~ open[i] /\ (req[i] = None \/ ~ req[i].sent)
           /\ Clean(i) /\ r.kind = "CheckLogs" => Has(i, r.index - 1)
  BY <1>2, Zenon DEF OrphanInv, OrphanOK
<1>5. SInv(i) /\ Entries(i)
  BY Zenon DEF SInv, LogInv
<1>6. /\ Current(r) => late'[i] = late[i]
      /\ ~ Current(r) => late'[i] = late[i] \cup {r.kind}
  BY <1>1, <1>2, Zenon DEF Current
<1>7. /\ Entries(i)'
      /\ r.kind # "ApplyErr" => Has(i, r.index)' /\ applyErr'[i] = applyErr[i]
      /\ r.kind = "CheckLogs" => \A k \in 0..MaxIndex : Has(i, k) => Has(i, k)'
  BY <1>1, <1>2, <1>3, <1>4, <1>5, HandledCopy, Zenon
\* A late request that leaves the server clean is a CheckLogs.
<1>8. Clean(i)' => /\ Clean(i) /\ r.kind # "ApplyErr"
                   /\ Current(r) \/ r.kind = "CheckLogs"
  <2>1. Clean(i)' => Clean(i) /\ (Current(r) \/ r.kind # "IngestLog")
    BY <1>6, Zenon DEF Clean
  <2>2. r.kind \in {"CheckLogs", "IngestLog", "ApplyErr"}
    BY <1>1, RequestFields, Zenon
  <2> QED BY <1>4, <2>1, <2>2, Zenon
<1>9. LogInv(i)'
  <2> SUFFICES ASSUME late'[i] = {} PROVE Whole(i)'
    BY <1>7, Zenon DEF LogInv
  <2>1. Current(r) /\ late[i] = {}
    BY <1>6, Zenon
  <2>2. Clean(i) /\ Whole(i)
    BY <1>5, <2>1, Zenon DEF Clean, SInv, LogInv
  <2> QED BY <1>1, <1>2, <1>3, <1>4, <2>1, <2>2, HandledWhole, Zenon
<1>10. ASSUME Clean(i)', ~ Current(r), NEW k \in 0..MaxIndex, Has(i, k) PROVE Has(i, k)'
  BY <1>7, <1>8, <1>10, Zenon
<1>11. IdleInv(i)'
  <2> SUFFICES ASSUME req[i] = None PROVE IdleInv(i)'
    BY <1>3, Zenon DEF IdleInv
  <2>1. next[i] - 1 \in 0..MaxIndex
    <3>1. next[i] \in 1..(MaxIndex + 1)
      BY Zenon DEF TypeOK
    <3> QED BY <3>1, BoundsAssumption
  <2>2. Clean(i)' /\ up[i] /\ open[i] => Has(i, next[i] - 1)'
    <3> SUFFICES ASSUME Clean(i)', up[i], open[i] PROVE Has(i, next[i] - 1)'
      BY Zenon
    <3>1. ~ Current(r) /\ Has(i, next[i] - 1)
      BY <1>4, <1>5, <1>8, Zenon DEF SInv, IdleInv
    <3> QED BY <1>3, <1>10, <2>1, <3>1, Zenon
  <2> QED BY <1>3, <1>5, <2>2, Zenon DEF SInv, IdleInv
<1>12. CallInv(i)'
  <2> SUFFICES ASSUME req[i] # None PROVE CallInv(i)'
    BY <1>3, Zenon DEF CallInv
  <2>1. PICK q \in Request : q = req[i]
    BY Zenon DEF TypeOK
  <2>2. (req[i] = q)'
    BY <1>3, <2>1, Zenon
  <2>3. /\ up[i] /\ q.from = i /\ q.life = life[i] /\ ReqOK(q) /\ next[i] = q.index + 1
        /\ Clean(i) /\ q.kind = "ApplyErr" => ~ q.sent
        /\ ~ q.sent => ~ open[i] /\ answer[i] = "none"
        /\ snapshot => lastApplied[i] = IF q.kind = "CheckLogs" THEN q.index - 1 ELSE q.index
        /\ Clean(i) /\ q.sent /\ answer[i] # "none" => Has(i, q.index)
        /\ Clean(i) /\ q.sent /\ q.kind = "CheckLogs" => Has(i, q.index - 1)
    BY <1>5, <2>1, Zenon DEF SInv, CallInv
  <2>4. q.index \in 0..MaxIndex /\ (q.kind = "CheckLogs" => q.index - 1 \in 0..MaxIndex)
    <3>1. q.kind = "CheckLogs" => q.index \in 1..commitIndex
      BY <2>3, Zenon DEF ReqOK
    <3>2. q.index \in 0..MaxIndex
      BY RequestFields, Zenon
    <3> QED BY <3>1, <3>2, Counters, BoundsAssumption
  <2>5. q.sent => ~ Current(r)
    BY <1>4, <2>1, Zenon
  <2>6. ReqOK(q)'
    BY <1>3, <2>3, SameRaft, Zenon
  <2>7. /\ Clean(i)' /\ q.sent /\ answer[i] # "none" => Has(i, q.index)'
        /\ Clean(i)' /\ q.sent /\ q.kind = "CheckLogs" => Has(i, q.index - 1)'
    BY <1>8, <1>10, <2>3, <2>4, <2>5, Zenon
  <2> QED BY <1>3, <1>8, <2>2, <2>3, <2>6, <2>7, Zenon DEF CallInv
<1>13. OwnInv(i)'
  <2>1. Clean(i)' => ~ applyErr'[i] /\ answer'[i] # "bad"
    BY <1>3, <1>5, <1>7, <1>8, Zenon DEF SInv, OwnInv
  <2>2. /\ \A n : Prefix(n)' = Prefix(n)
        /\ \A s : SnapOK(s) => SnapOK(s)'
    BY <1>3, SameRaft, Zenon
  <2> QED BY <1>3, <1>5, <2>1, <2>2, Zenon DEF SInv, OwnInv, SnapOK
<1>14. SInv(i)'
  BY <1>9, <1>11, <1>12, <1>13, Zenon DEF SInv
<1>15. ASSUME NEW q \in orphans', q.from = i PROVE OrphanOK(q)' /\ (Current(q)' <=> Current(q))
  <2>1. q \in orphans /\ q # r /\ OrphanOK(q) /\ q \in Request
    BY <1>1, Zenon DEF OrphanInv, TypeOK
  <2>2. ReqOK(q)'
    BY <1>3, <2>1, SameRaft, Zenon DEF OrphanOK
  <2>3. Current(q)' <=> Current(q)
    BY <1>3, Zenon DEF Current
  <2>4. Current(q) => ~ Current(r)
    BY <1>2, <1>15, <2>1, Zenon DEF OrphanInv
  <2>5. q.kind = "CheckLogs" => q.index - 1 \in 0..MaxIndex
    <3>1. q.kind = "CheckLogs" => q.index \in 1..commitIndex
      BY <2>1, Zenon DEF OrphanOK, ReqOK
    <3>2. q.index \in 0..MaxIndex
      BY <2>1, RequestFields, Zenon
    <3> QED BY <3>1, <3>2, Counters, BoundsAssumption
  <2>6. Current(q) /\ Clean(i)' /\ q.kind = "CheckLogs" => Has(i, q.index - 1)'
    BY <1>8, <1>10, <1>15, <2>1, <2>4, <2>5, Zenon DEF OrphanOK
  <2> QED BY <1>3, <1>8, <1>15, <2>1, <2>2, <2>3, <2>6, Zenon DEF OrphanOK
<1>16. OrphansKept(i)
  <2>1. \A q, p \in orphans' :
          q.from = i /\ p.from = i /\ Current(q)' /\ Current(p)' => q = p
    BY <1>1, <1>15, Zenon DEF OrphanInv
  <2>2. orphans' \subseteq Request /\ \A q \in orphans' : q \in orphans
    BY <1>1, Zenon DEF TypeOK
  <2> QED BY <1>15, <2>1, <2>2, Zenon DEF OrphansKept
<1> QED BY <1>1, <1>2, <1>3, <1>14, <1>16, StepAt, Zenon

\* Every step keeps the types.
LEMMA TypeInductive == TypeOK /\ [Next]_vars => TypeOK'
<1> SUFFICES ASSUME TypeOK, [Next]_vars PROVE TypeOK'
  OBVIOUS
<1>1. CASE UNCHANGED vars
  BY <1>1, Zenon DEF vars, mode, raftVars, srvVars, procVars, rpcVars, testVars, TypeOK
<1>2. ASSUME NEW c \in Cmd, Commit(c), UNCHANGED mode PROVE TypeOK'
  BY <1>2, CommitEffect, Zenon
<1>3. ASSUME NEW i \in Srv, ApplyCommand(i), UNCHANGED mode PROVE TypeOK'
  BY <1>3, ApplyCommandEffect, Zenon
<1>4. ASSUME NEW i \in Srv, ApplySnapshot(i), UNCHANGED mode PROVE TypeOK'
  BY <1>4, ApplySnapshotEffect, Zenon
<1>5. ASSUME NEW i \in Srv, Returns(i), UNCHANGED mode PROVE TypeOK'
  <2>1. /\ req[i] \in Request /\ orphans' \subseteq Request
        /\ Finish(i, answer[i] = "bad") /\ (answer[i] = "bad") \in BOOLEAN
    BY <1>5, Zenon DEF Returns, TypeOK
  <2> QED BY <1>5, <2>1, FinishEffect, Zenon
<1>6. ASSUME NEW i \in Srv, Fails(i), UNCHANGED mode PROVE TypeOK'
  <2>1. req[i] \in Request /\ Abandoned(i) /\ Finish(i, TRUE) /\ TRUE \in BOOLEAN
    BY <1>6, Zenon DEF Fails, TypeOK
  <2>2. orphans' \subseteq Request
    BY <2>1, AbandonedEffect, Zenon
  <2> QED BY <1>6, <2>1, <2>2, FinishEffect, Zenon
<1>7. ASSUME NEW i \in Srv, HandleRequest(i), UNCHANGED mode PROVE TypeOK'
  BY <1>7, HandleRequestEffect, Zenon
<1>8. ASSUME NEW i \in Srv, CloseConn(i), UNCHANGED mode PROVE TypeOK'
  BY <1>8, CloseConnEffect, Zenon
<1>9. ASSUME NEW i \in Srv, Checkpoint(i), UNCHANGED mode PROVE TypeOK'
  BY <1>9, CheckpointEffect, Zenon
<1>10. ASSUME NEW i \in Srv, Kill(i), UNCHANGED mode PROVE TypeOK'
  BY <1>10, KillEffect, Zenon
<1>11. ASSUME NEW i \in Srv, Restart(i), UNCHANGED mode PROVE TypeOK'
  BY <1>11, RestartEffect, Zenon
<1>12. ASSUME NEW r \in orphans, HandleOrphan(r), UNCHANGED mode PROVE TypeOK'
  BY <1>12, HandleOrphanEffect, Zenon
<1> QED BY <1>1, <1>2, <1>3, <1>4, <1>5, <1>6, <1>7, <1>8, <1>9, <1>10, <1>11, <1>12, Zenon
        DEF Next

\* Every step keeps the order of a shutdown.
LEMMA ProcInductive == TypeOK /\ ProcInv /\ [Next]_vars => ProcInv'
<1> SUFFICES ASSUME TypeOK, ProcInv, [Next]_vars PROVE ProcInv'
  OBVIOUS
<1>1. ASSUME UNCHANGED <<procVars, kills>> PROVE ProcInv'
  BY <1>1, Zenon DEF procVars, ProcInv
<1> DEFINE Proc(j) == /\ life[j] <= kills
                      /\ ~ open[j] => life[j] < kills
                      /\ ~ up[j] \/ copied[j] => ~ open[j]
<1>2. ASSUME NEW i \in Srv, OnlyAt(i), kills' = kills, Proc(i)' PROVE ProcInv'
  <2> SUFFICES ASSUME NEW j \in Srv PROVE Proc(j)'
    BY Zenon DEF ProcInv
  <2>1. CASE j = i
    BY <1>2, <2>1, Zenon
  <2>2. CASE j # i
    BY <1>2, <2>2, Zenon DEF OnlyAt, Same, ProcInv
  <2> QED BY <2>1, <2>2, Zenon
<1>3. CASE UNCHANGED vars
  BY <1>1, <1>3, Zenon DEF vars, srvVars
<1>4. ASSUME NEW c \in Cmd, Commit(c), UNCHANGED mode PROVE ProcInv'
  BY <1>1, <1>4, Zenon DEF Commit, srvVars
<1>5. ASSUME NEW i \in Srv, ApplyCommand(i), UNCHANGED mode PROVE ProcInv'
  BY <1>1, <1>5, Zenon DEF ApplyCommand
<1>6. ASSUME NEW i \in Srv, ApplySnapshot(i), UNCHANGED mode PROVE ProcInv'
  BY <1>1, <1>6, Zenon DEF ApplySnapshot
<1>7. ASSUME NEW i \in Srv, Returns(i), UNCHANGED mode PROVE ProcInv'
  BY <1>1, <1>7, Zenon DEF Returns, Finish
<1>8. ASSUME NEW i \in Srv, Fails(i), UNCHANGED mode PROVE ProcInv'
  BY <1>1, <1>8, Zenon DEF Fails, Finish
<1>9. ASSUME NEW i \in Srv, HandleRequest(i), UNCHANGED mode PROVE ProcInv'
  BY <1>1, <1>9, Zenon DEF HandleRequest, srvVars
<1>10. ASSUME NEW r \in orphans, HandleOrphan(r), UNCHANGED mode PROVE ProcInv'
  BY <1>1, <1>10, Zenon DEF HandleOrphan, srvVars
<1>11. ASSUME NEW i \in Srv, CloseConn(i), UNCHANGED mode PROVE ProcInv'
  <2>1. /\ OnlyAt(i) /\ up[i] /\ ~ open'[i] /\ kills' = kills + 1
        /\ up' = up /\ copied' = copied /\ life' = life
    BY <1>11, CloseConnEffect, Zenon
  <2> SUFFICES ASSUME NEW j \in Srv PROVE Proc(j)'
    BY Zenon DEF ProcInv
  <2>2. Proc(j)
    BY Zenon DEF ProcInv
  <2>3. life[j] <= kills' /\ life[j] < kills'
    <3>1. life[j] <= kills
      BY <2>2, Zenon
    <3> QED BY <2>1, <3>1, Counters
  <2>4. ~ open[j] => ~ open'[j]
    <3>1. CASE j = i
      BY <2>1, <3>1, Zenon
    <3>2. CASE j # i
      BY <2>1, <3>2, Zenon DEF OnlyAt, Same
    <3> QED BY <3>1, <3>2, Zenon
  <2> QED BY <2>1, <2>2, <2>3, <2>4, Zenon
<1>12. ASSUME NEW i \in Srv, Checkpoint(i), UNCHANGED mode PROVE ProcInv'
  <2>1. OnlyAt(i) /\ ~ open[i] /\ up' = up /\ open' = open /\ life' = life /\ kills' = kills
    BY <1>12, CheckpointEffect, Zenon
  <2>2. Proc(i)'
    BY <2>1, Zenon DEF ProcInv
  <2> QED BY <1>2, <2>1, <2>2, Zenon
<1>13. ASSUME NEW i \in Srv, Kill(i), UNCHANGED mode PROVE ProcInv'
  <2>1. OnlyAt(i) /\ copied[i] /\ open' = open /\ copied' = copied /\ life' = life
        /\ kills' = kills
    BY <1>13, KillEffect, Zenon
  <2>2. Proc(i)'
    BY <2>1, Zenon DEF ProcInv
  <2> QED BY <1>2, <2>1, <2>2, Zenon
<1>14. ASSUME NEW i \in Srv, Restart(i), UNCHANGED mode PROVE ProcInv'
  <2>1. OnlyAt(i) /\ up'[i] /\ open'[i] /\ ~ copied'[i] /\ life'[i] = kills /\ kills' = kills
    BY <1>14, RestartEffect, Zenon
  <2>2. kills <= kills
    BY <1>14, Counters
  <2>3. Proc(i)'
    BY <2>1, <2>2, Zenon
  <2> QED BY <1>2, <2>1, <2>3, Zenon
<1> QED BY <1>3, <1>4, <1>5, <1>6, <1>7, <1>8, <1>9, <1>10, <1>11, <1>12, <1>13, <1>14, Zenon
        DEF Next

\* And, with a correct Raft, the invariant.
LEMMA CInductive == TypeOK /\ ProcInv /\ CInv /\ [Next]_vars => CInv'
<1> SUFFICES ASSUME TypeOK, ProcInv, OrphanInv, \A i \in Srv : SInv(i), ~ faulty, [Next]_vars
             PROVE  OrphanInv' /\ \A i \in Srv : SInv(i)'
  <2>1. [Next]_vars => faulty' = faulty
    BY Zenon DEF Next, mode, vars
  <2> QED BY <2>1, Zenon DEF CInv
<1>1. CASE UNCHANGED vars
  <2>1. /\ UNCHANGED <<committed, commitIndex, snapshot, orphans, life>>
        /\ \A j \in Srv : Same(j)
    BY <1>1, Zenon DEF vars, mode, raftVars, srvVars, procVars, rpcVars, testVars, Same
  <2>2. \A j \in Srv : SInv(j)'
    BY <2>1, SameInv, Zenon
  <2>3. ASSUME NEW r \in orphans PROVE OrphanOK(r)'
    <3>1. r.from \in Srv /\ OrphanOK(r)
      BY RequestFields, Zenon DEF TypeOK, OrphanInv
    <3> QED BY <2>1, <3>1, SameOrphan, Zenon
  <2> QED BY <2>1, <2>2, <2>3, Zenon DEF OrphanInv, Current
<1> DEFINE Kept == OrphanInv' /\ \A i \in Srv : SInv(i)'
<1>2. ASSUME NEW c \in Cmd, Commit(c), UNCHANGED mode PROVE Kept
  BY <1>2, CommitKeeps, Zenon
<1>3. ASSUME NEW i \in Srv, ApplyCommand(i), UNCHANGED mode PROVE Kept
  BY <1>3, ApplyCommandKeeps, Zenon
<1>4. ASSUME NEW i \in Srv, ApplySnapshot(i), UNCHANGED mode PROVE Kept
  BY <1>4, ApplySnapshotKeeps, Zenon
<1>5. ASSUME NEW i \in Srv, Returns(i), UNCHANGED mode PROVE Kept
  BY <1>5, ReturnsKeeps, Zenon
<1>6. ASSUME NEW i \in Srv, Fails(i), UNCHANGED mode PROVE Kept
  BY <1>6, FailsKeeps, Zenon
<1>7. ASSUME NEW i \in Srv, HandleRequest(i), UNCHANGED mode PROVE Kept
  BY <1>7, HandleRequestKeeps, Zenon
<1>8. ASSUME NEW i \in Srv, CloseConn(i), UNCHANGED mode PROVE Kept
  BY <1>8, CloseConnKeeps, Zenon
<1>9. ASSUME NEW i \in Srv, Checkpoint(i), UNCHANGED mode PROVE Kept
  BY <1>9, CheckpointKeeps, Zenon
<1>10. ASSUME NEW i \in Srv, Kill(i), UNCHANGED mode PROVE Kept
  BY <1>10, KillKeeps, Zenon
<1>11. ASSUME NEW i \in Srv, Restart(i), UNCHANGED mode PROVE Kept
  BY <1>11, RestartKeeps, Zenon
<1>12. ASSUME NEW r \in orphans, HandleOrphan(r), UNCHANGED mode PROVE Kept
  BY <1>12, HandleOrphanKeeps, Zenon
<1> HIDE DEF Kept
<1>13. Kept
  BY <1>1, <1>2, <1>3, <1>4, <1>5, <1>6, <1>7, <1>8, <1>9, <1>10, <1>11, <1>12, Zenon
     DEF Next, Kept
<1> QED BY <1>13, Zenon DEF Kept

-----------------------------------------------------------------------------
(* A Raft that applies different commands at an index.                      *)

\* Two servers differ nowhere while Raft is correct.
LEMMA Agree == TypeOK /\ CInv /\ ~ faulty => ~ Disagree
<1> SUFFICES ASSUME TypeOK, CInv, ~ faulty, NEW i \in Srv, NEW j \in Srv, NEW k \in Index,
                    logs[i][k] # None, logs[j][k] # None
             PROVE  logs[i][k] = logs[j][k]
  BY Zenon DEF Disagree
<1>1. Entries(i) /\ Entries(j)
  BY Zenon DEF CInv, SInv, LogInv
<1> QED BY <1>1, Zenon DEF Entries

\* An error was recorded for server i, or is on its way.
Caught(i) ==
  \/ applyErr[i]
  \/ answer[i] = "bad"
  \/ req[i] # None /\ req[i].kind = "ApplyErr"

\* The state of a server of a wrong Raft, without snapshots.
WrongAt(i) ==
  /\ up[i] /\ open[i]
  /\ req[i] = None => answer[i] = "none"
  /\ req[i] # None =>
       /\ req[i].from = i /\ req[i].sent /\ req[i].kind # "IngestLog"
       /\ answer[i] = "bad" => req[i].kind = "CheckLogs"
       /\ answer[i] # "none" /\ req[i].kind = "ApplyErr" => applyErr[i]

\* A wrong Raft has no shutdowns: no request is lost.
WrongInv == faulty /\ ~ snapshot => orphans = {} /\ \A i \in Srv : WrongAt(i)

\* A step of server i, of a wrong Raft: the other servers stay as they are.
LEMMA WrongStep ==
  ASSUME faulty, ~ snapshot, faulty' = faulty, snapshot' = snapshot, orphans' = orphans, WrongInv,
         NEW i \in Srv, OnlyAt(i), WrongAt(i)', Caught(i) => Caught(i)'
  PROVE  /\ WrongInv'
         /\ (\E j \in Srv : Caught(j)) => \E j \in Srv : Caught(j)'
<1>1. ASSUME NEW j \in Srv, j # i PROVE WrongAt(j)' /\ (Caught(j) => Caught(j)')
  <2>1. WrongAt(j) /\ Same(j)
    BY <1>1, Zenon DEF WrongInv, OnlyAt
  <2>2. WrongAt(j)'
    BY <2>1, Zenon DEF WrongAt, Same
  <2>3. Caught(j) => Caught(j)'
    BY <2>1, Zenon DEF Caught, Same
  <2> QED BY <2>2, <2>3, Zenon
<1> QED BY <1>1, Zenon DEF WrongInv

\* The tester handles the request of server i.  A command that makes two copies
\* differ is answered as a bad one.
LEMMA WrongHandle ==
  ASSUME TypeOK, faulty, ~ snapshot, WrongInv, NEW i \in Srv, HandleRequest(i),
         UNCHANGED mode
  PROVE  /\ OnlyAt(i) /\ WrongAt(i)' /\ (Caught(i) => Caught(i)')
         /\ Disagree' => Disagree \/ Caught(i)'
<1>1. PICK r \in Request : r = req[i]
  BY HandleRequestEffect, Zenon
<1>2. /\ r # None /\ answer[i] = "none" /\ answer'[i] = Verdict(r)
      /\ r.from = i => Handled(r, i) /\ OnlyAt(i)
      /\ UNCHANGED <<raftVars, srvVars, req, orphans, late>>
  BY <1>1, HandleRequestEffect, NoneAssumption, Zenon
<1>3. up' = up /\ open' = open /\ req' = req
  BY <1>2, Zenon DEF srvVars, procVars
<1>4. WrongAt(i) /\ r.from = i /\ r.kind \in {"CheckLogs", "ApplyErr"}
  <2>1. WrongAt(i)
    BY Zenon DEF WrongInv
  <2> QED BY <1>1, <1>2, <2>1, RequestFields, Zenon DEF WrongAt
<1>5. /\ answer'[i] \in {"ok", "bad"}
      /\ answer'[i] = "bad" <=> r.kind = "CheckLogs" /\ (Differs(r) \/ NoPrev(r))
  BY <1>2, VerdictIs, Zenon
<1>6. OnlyAt(i) /\ Handled(r, i)
  BY <1>2, <1>4, Zenon
<1>7. CASE r.kind = "ApplyErr"
  <2>1. logs' = logs /\ applyErr'[i] /\ answer'[i] \in {"none", "ok"}
    BY <1>5, <1>6, <1>7, Zenon DEF Handled
  <2>2. Disagree' => Disagree
    BY <2>1, Zenon DEF Disagree
  <2>3. WrongAt(i)' /\ Caught(i)'
    BY <1>1, <1>2, <1>3, <1>4, <1>7, <2>1, Zenon DEF WrongAt, Caught
  <2> QED BY <1>6, <2>2, <2>3, Zenon
<1>8. CASE r.kind = "CheckLogs"
  <2>1. /\ logs'[i] = [logs[i] EXCEPT ![r.index] = r.cmd] /\ applyErr'[i] = applyErr[i]
        /\ answer'[i] \in {"ok", "bad"} /\ (answer'[i] = "bad" <=> Differs(r) \/ NoPrev(r))
        /\ \A j \in Srv : j # i => logs'[j] = logs[j]
    BY <1>5, <1>6, <1>8, Zenon DEF Handled
  <2>2. WrongAt(i)' /\ (Caught(i) => Caught(i)')
    BY <1>1, <1>2, <1>3, <1>4, <1>8, <2>1, Zenon DEF WrongAt, Caught
  <2>3. \A k \in Index : logs'[i][k] = IF k = r.index THEN r.cmd ELSE logs[i][k]
    <3>1. logs[i] \in [Index -> Cmd \cup {None}]
      BY Zenon DEF TypeOK, Log
    <3> QED BY <2>1, <3>1, Zenon
  <2>4. ASSUME Disagree' PROVE Disagree \/ Caught(i)'
    <3>1. PICK a \in Srv, b \in Srv, k \in Index :
            logs'[a][k] # None /\ logs'[b][k] # None /\ logs'[a][k] # logs'[b][k]
      BY <2>4, Zenon DEF Disagree
    <3>2. ASSUME NEW j \in Srv, j # i, logs'[j][k] # None, logs'[j][k] # r.cmd,
                 k = r.index
          PROVE  Caught(i)'
      <4>1. Differs(r)
        BY <2>1, <3>2, Zenon DEF Differs
      <4> QED BY <2>1, <4>1, Zenon DEF Caught
    <3>3. CASE k # r.index
      <4>1. logs'[a][k] = logs[a][k] /\ logs'[b][k] = logs[b][k]
        BY <2>1, <2>3, <3>3, Zenon
      <4> QED BY <3>1, <4>1, Zenon DEF Disagree
    <3>4. CASE k = r.index /\ a # i /\ b # i
      <4>1. logs'[a] = logs[a] /\ logs'[b] = logs[b]
        BY <2>1, <3>4, Zenon
      <4>2. logs[a][k] # None /\ logs[b][k] # None /\ logs[a][k] # logs[b][k]
        BY <3>1, <4>1, Zenon
      <4> QED BY <4>2, Zenon DEF Disagree
    <3>5. CASE k = r.index /\ a = i
      BY <2>3, <3>1, <3>2, <3>5, Zenon
    <3>6. CASE k = r.index /\ b = i
      BY <2>3, <3>1, <3>2, <3>6, Zenon
    <3> QED BY <3>3, <3>4, <3>5, <3>6, Zenon
  <2> QED BY <1>6, <2>2, <2>4, Zenon
<1> QED BY <1>4, <1>7, <1>8, Zenon

\* A step that leaves the servers and the tester as they are.
LEMMA WrongStutter ==
  ASSUME WrongInv, faulty, ~ snapshot,
         UNCHANGED <<snapshot, faulty, up, open, req, answer, orphans, logs, applyErr>>
  PROVE  /\ WrongInv' /\ ((\E i \in Srv : Caught(i)) => \E i \in Srv : Caught(i)')
         /\ Disagree' => Disagree \/ \E i \in Srv : Caught(i)'
<1>1. ASSUME NEW i \in Srv PROVE WrongAt(i)' /\ (Caught(i) => Caught(i)')
  <2>1. WrongAt(i)
    BY Zenon DEF WrongInv
  <2>2. WrongAt(i)'
    BY <2>1, Zenon DEF WrongAt
  <2>3. Caught(i) => Caught(i)'
    BY Zenon DEF Caught
  <2> QED BY <2>2, <2>3, Zenon
<1>2. Disagree' => Disagree
  BY Zenon DEF Disagree
<1> QED BY <1>1, <1>2, Zenon DEF WrongInv

\* Every step keeps what is known of a wrong Raft, and what was caught.
LEMMA WrongInductive ==
  ASSUME TypeOK, ProcInv, WrongInv, [Next]_vars, faulty, ~ snapshot
  PROVE  /\ WrongInv' /\ ((\E i \in Srv : Caught(i)) => \E i \in Srv : Caught(i)')
         /\ Disagree' => Disagree \/ \E i \in Srv : Caught(i)'
<1> DEFINE Kept == /\ WrongInv' /\ ((\E i \in Srv : Caught(i)) => \E i \in Srv : Caught(i)')
                   /\ Disagree' => Disagree \/ \E i \in Srv : Caught(i)'
<1>1. orphans = {} /\ \A i \in Srv : WrongAt(i)
  BY Zenon DEF WrongInv
<1>2. CASE UNCHANGED vars
  BY <1>2, WrongStutter, Zenon DEF vars, mode, srvVars, procVars, rpcVars, testVars
<1>3. ASSUME NEW c \in Cmd, Commit(c), UNCHANGED mode PROVE Kept
  BY <1>3, WrongStutter, Zenon DEF Commit, mode, srvVars, procVars, rpcVars, testVars
<1>4. ASSUME NEW i \in Srv, ApplyCommand(i), UNCHANGED mode PROVE Kept
  <2>1. /\ OnlyAt(i) /\ req[i] = None
        /\ req'[i] \in Request /\ req'[i].from = i /\ req'[i].sent = open[i]
        /\ answer'[i] = "none" /\ req'[i].kind = "CheckLogs"
        /\ UNCHANGED <<up, open, orphans, logs, applyErr, faulty, snapshot>>
    BY <1>1, <1>4, ApplyCommandEffect, Zenon DEF procVars, testVars, mode
  <2>2. WrongAt(i)' /\ (Caught(i) => Caught(i)')
    BY <1>1, <2>1, Zenon DEF WrongAt, Caught
  <2>3. Disagree' => Disagree
    BY <2>1, Zenon DEF Disagree
  <2> QED BY <2>1, <2>2, <2>3, WrongStep, Zenon
<1>5. ASSUME NEW i \in Srv, Returns(i), UNCHANGED mode PROVE Kept
  <2>1. /\ req[i] \in Request /\ orphans' = orphans /\ orphans' \subseteq Request
        /\ req[i] # None /\ answer[i] # "none"
        /\ Finish(i, answer[i] = "bad") /\ (answer[i] = "bad") \in BOOLEAN
    BY <1>5, Zenon DEF Returns, TypeOK
  <2>2. /\ OnlyAt(i) /\ answer'[i] = "none"
        /\ ~ Reports(i, answer[i] = "bad") => req'[i] = None
        /\ Reports(i, answer[i] = "bad") =>
             /\ req'[i] \in Request /\ req'[i].kind = "ApplyErr" /\ req'[i].from = i
             /\ req'[i].sent = open[i]
        /\ UNCHANGED <<up, open, logs, applyErr, faulty, snapshot>>
    BY <1>5, <2>1, FinishEffect, Zenon DEF procVars, testVars, mode
  <2>3. WrongAt(i) /\ (Reports(i, answer[i] = "bad") <=>
                        req[i].kind = "CheckLogs" /\ answer[i] = "bad")
    BY <1>1, <2>1, Zenon DEF WrongAt, Reports
  <2>4. WrongAt(i)'
    BY <2>2, <2>3, Zenon DEF WrongAt
  <2>5. Caught(i) => Caught(i)'
    BY <2>1, <2>2, <2>3, NoneAssumption, Zenon DEF WrongAt, Caught
  <2>6. Disagree' => Disagree
    BY <2>2, Zenon DEF Disagree
  <2> QED BY <2>1, <2>2, <2>4, <2>5, <2>6, WrongStep, Zenon
<1>6. ASSUME NEW i \in Srv, HandleRequest(i), UNCHANGED mode PROVE Kept
  <2>1. /\ OnlyAt(i) /\ WrongAt(i)' /\ (Caught(i) => Caught(i)')
        /\ Disagree' => Disagree \/ Caught(i)'
    BY <1>6, WrongHandle, Zenon
  <2>2. orphans' = orphans /\ faulty' = faulty /\ snapshot' = snapshot
    BY <1>6, Zenon DEF HandleRequest, mode
  <2> QED BY <2>1, <2>2, WrongStep, Zenon
<1>7. \A i \in Srv : /\ ~ ApplySnapshot(i) /\ ~ Fails(i) /\ ~ CloseConn(i)
                     /\ ~ Checkpoint(i) /\ ~ Kill(i) /\ ~ Restart(i)
  BY <1>1, Zenon DEF ApplySnapshot, Fails, CloseConn, Checkpoint, Kill, Restart, WrongAt,
     ProcInv
<1> HIDE DEF Kept
<1>8. Kept
  BY <1>1, <1>2, <1>3, <1>4, <1>5, <1>6, <1>7, Zenon DEF Next, Kept
<1> QED BY <1>8, Zenon DEF Kept

-----------------------------------------------------------------------------
(* The goroutine that calls `one' and `wait'.                               *)

\* What was committed stays.
LEMMA CommittedStays ==
  ASSUME TypeOK, [Next]_vars
  PROVE  /\ commitIndex \in Nat /\ commitIndex' \in Nat /\ commitIndex <= commitIndex'
         /\ \A k \in Index : k <= commitIndex => committed'[k] = committed[k]
<1>1. commitIndex \in Nat /\ commitIndex <= commitIndex
  <2>1. commitIndex \in 0..MaxIndex
    BY Zenon DEF TypeOK
  <2> QED BY <2>1, BoundsAssumption
<1>2. ASSUME NEW c \in Cmd, Commit(c), UNCHANGED mode
      PROVE  commitIndex' = commitIndex + 1
             /\ \A k \in Index : k <= commitIndex => committed'[k] = committed[k]
  BY <1>2, CommitEffect, Zenon
<1>3. CASE \E c \in Cmd : Commit(c) /\ UNCHANGED mode
  <2>1. commitIndex' = commitIndex + 1
        /\ \A k \in Index : k <= commitIndex => committed'[k] = committed[k]
    BY <1>2, <1>3, Zenon
  <2>2. commitIndex' \in Nat /\ commitIndex <= commitIndex'
    BY <1>1, <2>1
  <2> QED BY <1>1, <2>1, <2>2, Zenon
<1>4. CASE ~ \E c \in Cmd : Commit(c) /\ UNCHANGED mode
  <2>1. UNCHANGED raftVars
    BY <1>4, Zenon DEF Next, vars, ApplyCommand, ApplySnapshot, Returns, Fails, Finish,
       HandleRequest, CloseConn, Checkpoint, Kill, Restart, HandleOrphan
  <2> QED BY <1>1, <2>1, Zenon DEF raftVars
<1> QED BY <1>3, <1>4, Zenon

\* A snapshot that was ingested late stays so.
LEMMA LateStays ==
  ASSUME TypeOK, [Next]_vars, NEW i \in Srv, ~ Clean(i)
  PROVE  ~ Clean(i)'
<1>1. ASSUME NEW r \in orphans, HandleOrphan(r), UNCHANGED mode PROVE ~ Clean(i)'
  <2>1. /\ r.from \in Srv /\ OnlyAt(r.from)
        /\ r.life = life[r.from] => late'[r.from] = late[r.from]
        /\ r.life # life[r.from] => late'[r.from] = late[r.from] \cup {r.kind}
    BY <1>1, HandleOrphanEffect, Zenon
  <2>2. CASE i = r.from
    BY <2>1, <2>2, Zenon DEF Clean
  <2>3. CASE i # r.from
    BY <2>1, <2>3, Zenon DEF OnlyAt, Same, Clean
  <2> QED BY <2>2, <2>3, Zenon
<1>2. CASE ~ \E r \in orphans : HandleOrphan(r) /\ UNCHANGED mode
  <2>1. UNCHANGED late
    BY <1>2, Zenon DEF Next, vars, testVars, Commit, ApplyCommand, ApplySnapshot, Returns,
       Fails, Finish, HandleRequest, CloseConn, Checkpoint, Kill, Restart
  <2> QED BY <2>1, Zenon DEF Clean
<1> QED BY <1>1, <1>2, Zenon

\* An entry that nCommitted finds is the committed one.
LEMMA EntryCommitted ==
  ASSUME CInv, ~ faulty, NEW k \in Index, Have(k) # {}
  PROVE  k <= commitIndex /\ Entry(k) = committed[k]
<1> DEFINE i == CHOOSE j \in Have(k) : TRUE
<1>1. i \in Have(k) /\ Entry(k) = logs[i][k]
  BY Zenon DEF Entry
<1> HIDE DEF i
<1>2. i \in Srv /\ logs[i][k] # None
  BY <1>1, Zenon DEF Have
<1>3. Entries(i)
  BY <1>2, Zenon DEF CInv, SInv, LogInv
<1> QED BY <1>1, <1>2, <1>3, Zenon DEF Entries

\* nCommitted stops the test of a correct Raft only after a late snapshot.
LEMMA NotBlamed ==
  ASSUME TypeOK, CInv, ~ faulty, NEW k \in Index, Blames(k)
  PROVE  \E i \in Srv : ~ Clean(i)
<1>1. \A i \in Srv : Clean(i) => ~ applyErr[i]
  BY Zenon DEF CInv, SInv, OwnInv
<1>2. ~ Disagree
  BY Agree, Zenon
<1>3. \A i, j \in Have(k) : logs[i][k] = logs[j][k]
  BY <1>2, Zenon DEF Have, Disagree
<1> QED BY <1>1, <1>3, Zenon DEF Blames

\* What the goroutine knows of its call.
OneInv ==
  /\ call \in {"poll", "wait", "last", "returned"} => index \in Index
  /\ call \in {"wait", "last"} => need = Cardinality(Srv)

\* The empty set has no element.
LEMMA EmptyCard == Cardinality({}) = 0
<1> DEFINE F(cs) == [T \in SUBSET {} |-> IF T = {} THEN 0
                                         ELSE 1 + cs[T \ {CHOOSE x : x \in T}]]
           g == CHOOSE cs : cs = F(cs)
<1>1. Cardinality({}) = g[{}]
  BY Zenon DEF Cardinality
<1>2. [T \in SUBSET {} |-> 0] = F([T \in SUBSET {} |-> 0])
  BY Zenon
<1>3. g = F(g)
  BY <1>2, Zenon
<1> HIDE DEF g
<1>4. F(g)[{}] = 0
  BY Zenon
<1> QED BY <1>1, <1>3, <1>4, Zenon

\* There is a server to count.
LEMMA ServersCounted ==
  /\ Cardinality(Srv) \in Nat /\ Cardinality(Srv) # 0
  /\ Cardinality({}) = 0
  BY SrvAssumption, EmptyCard, Zenon

\* A step of the goroutine.
LEMMA OneStep ==
  ASSUME OneTypeOK, OneInv, OneNext
  PROVE  /\ [Next]_vars /\ OneInv'
         /\ \/ UNCHANGED oneVars
            \/ /\ UNCHANGED vars
               /\ \/ call' \in {"none", "submit", "poll", "wait", "last", "short"}
                  \/ index \in Index /\ Blames(index) /\ call' = "blamed"
                  \/ /\ index \in Index /\ Have(index) # {} /\ call' = "returned"
                     /\ index' = index /\ cmd' = Entry(index)
<1>1. CASE Next /\ UNCHANGED oneVars
  BY <1>1, Zenon DEF OneInv, oneVars
<1>2. ASSUME NEW c \in Cmd, NEW n \in 1..Cardinality(Srv), One(c, n)
      PROVE  OneInv' /\ call' = "submit"
  BY <1>2, Zenon DEF One, OneInv
<1>3. ASSUME NEW k \in Index, Wait(k, Cardinality(Srv)) PROVE OneInv' /\ call' = "wait"
  BY <1>3, Zenon DEF Wait, OneInv
<1>4. ASSUME NEW k \in Index, Submit(k) PROVE OneInv' /\ call' = "poll"
  BY <1>4, Zenon DEF Submit, OneInv
<1> DEFINE Ends ==
  /\ OneInv'
  /\ \/ call' \in {"none", "submit", "poll", "wait", "last", "short"}
     \/ index \in Index /\ Blames(index) /\ call' = "blamed"
     \/ /\ index \in Index /\ Have(index) # {} /\ call' = "returned"
        /\ index' = index /\ cmd' = Entry(index)
<1>5. ASSUME Poll PROVE Ends
  <2>1. index \in Index
    BY <1>5, Zenon DEF Poll, OneInv
  <2>2. CASE Blame
    BY <2>1, <2>2, Zenon DEF Blame, End, OneInv
  <2>3. CASE Agreed /\ Answer(cmd)
    BY <2>1, <2>3, Zenon DEF Agreed, Answer, OneInv
  <2> QED BY <1>5, <2>2, <2>3, Zenon DEF Poll
<1>6. ASSUME PollTimeout \/ OneTimeout PROVE Ends
  BY <1>6, Zenon DEF PollTimeout, OneTimeout, End, Continue, OneInv
<1>7. ASSUME WaitPoll PROVE Ends
  <2>1. index \in Index /\ need = Cardinality(Srv)
    BY <1>7, Zenon DEF WaitPoll, OneInv
  <2>2. CASE Blame
    BY <2>1, <2>2, Zenon DEF Blame, End, OneInv
  <2>3. CASE Continue("last") \/ End("none")
    BY <2>1, <2>3, Zenon DEF Continue, End, OneInv
  <2> QED BY <1>7, <2>2, <2>3, Zenon DEF WaitPoll
<1>8. ASSUME WaitLast PROVE Ends
  <2>1. index \in Index /\ need = Cardinality(Srv)
    BY <1>8, Zenon DEF WaitLast, OneInv
  <2>2. CASE Blame
    BY <2>1, <2>2, Zenon DEF Blame, End, OneInv
  <2>3. CASE End("short")
    BY <2>3, Zenon DEF End, OneInv
  <2>4. CASE ~ (Cardinality(Have(index)) < need) /\ Answer(Entry(index))
    <3>1. ~ (0 < Cardinality(Srv)) \/ Have(index) # {}
      BY <2>1, <2>4, ServersCounted, Zenon
    <3>2. 0 < Cardinality(Srv)
      BY ServersCounted
    <3> QED BY <2>1, <2>4, <3>1, <3>2, Zenon DEF Answer, OneInv
  <2> QED BY <1>8, <2>2, <2>3, <2>4, Zenon DEF WaitLast
<1> HIDE DEF Ends
<1>9. ASSUME Goroutine PROVE Ends
  BY <1>5, <1>6, <1>7, <1>8, <1>9, Zenon DEF Goroutine
<1> QED BY <1>1, <1>2, <1>3, <1>4, <1>9, Zenon DEF OneNext, Ends

\* The types of its variables are kept.
LEMMA OneTypeInductive == OneTypeOK /\ OneInv /\ OneNext => OneTypeOK'
<1> SUFFICES ASSUME OneTypeOK, OneInv, OneNext PROVE OneTypeOK'
  OBVIOUS
<1>1. [Next]_vars
  BY OneStep, Zenon
<1>2. TypeOK'
  BY <1>1, TypeInductive, Zenon DEF OneTypeOK
<1>3. 0 \in 0..MaxIndex /\ 0 \in 0..Cardinality(Srv) /\ None \in Cmd \cup {None}
      /\ Cardinality(Srv) \in 0..Cardinality(Srv)
  BY BoundsAssumption, ServersCounted
<1>4. \A k \in Index : k \in 0..MaxIndex
  BY Indices, BoundsAssumption
<1>5. \A n \in 1..Cardinality(Srv) : n \in 0..Cardinality(Srv)
  BY ServersCounted
<1>6. ASSUME index \in Index PROVE Entry(index) \in Cmd \cup {None}
  <2>1. ASSUME Have(index) # {} PROVE logs[CHOOSE i \in Have(index) : TRUE][index]
                                        \in Cmd \cup {None}
    <3>1. (CHOOSE i \in Have(index) : TRUE) \in Srv
      BY <2>1, Zenon DEF Have
    <3> QED BY <1>6, <3>1, ZenonT(40) DEF OneTypeOK, TypeOK, Log
  <2> QED BY <2>1, Zenon DEF Entry
<1> DEFINE Types == /\ call' \in Calls /\ cmd' \in Cmd \cup {None} /\ index' \in 0..MaxIndex
                    /\ need' \in 0..Cardinality(Srv)
<1>7. ASSUME NEW how \in {"none", "short", "blamed"}, End(how) PROVE Types
  BY <1>3, <1>7, Zenon DEF End, Calls
<1>8. ASSUME NEW how \in {"submit", "last"}, Continue(how) PROVE Types
  BY <1>8, Zenon DEF Continue, Calls, OneTypeOK
<1>9. ASSUME NEW c \in Cmd \cup {None}, Answer(c) PROVE Types
  BY <1>3, <1>9, Zenon DEF Answer, Calls, OneTypeOK
<1>10. CASE UNCHANGED oneVars
  BY <1>2, <1>10, Zenon DEF oneVars, OneTypeOK
<1>11. ASSUME NEW c \in Cmd, NEW n \in 1..Cardinality(Srv), One(c, n) PROVE Types
  BY <1>3, <1>5, <1>11, Zenon DEF One, Calls
<1>12. ASSUME NEW k \in Index, Wait(k, Cardinality(Srv)) PROVE Types
  BY <1>3, <1>4, <1>12, Zenon DEF Wait, Calls
<1>13. ASSUME NEW k \in Index, Submit(k) PROVE Types
  BY <1>4, <1>13, Zenon DEF Submit, Calls, OneTypeOK
<1> HIDE DEF Types
<1>14. ASSUME Goroutine PROVE Types
  <2>1. Poll => Types
    BY <1>7, <1>9, Zenon DEF Poll, Blame, OneTypeOK
  <2>2. PollTimeout \/ OneTimeout => Types
    BY <1>7, <1>8, Zenon DEF PollTimeout, OneTimeout
  <2>3. WaitPoll => Types
    BY <1>7, <1>8, Zenon DEF WaitPoll, Blame
  <2>4. WaitLast => Types
    <3>1. WaitLast => index \in Index
      BY Zenon DEF WaitLast, OneInv
    <3> QED BY <1>6, <1>7, <1>9, <3>1, Zenon DEF WaitLast, Blame
  <2> QED BY <1>14, <2>1, <2>2, <2>3, <2>4, Zenon DEF Goroutine
<1>15. CASE Types
  BY <1>2, <1>15, Zenon DEF Types, OneTypeOK
<1> QED BY <1>10, <1>11, <1>12, <1>13, <1>14, <1>15, Zenon DEF OneNext

\* What a call returned was committed, and stays so.
LEMMA OneSoundInductive == OneTypeOK /\ CInv /\ OneInv /\ OneSound /\ OneNext => OneSound'
<1> SUFFICES ASSUME OneTypeOK, CInv, OneInv, OneSound, OneNext, ~ faulty
             PROVE  OneSound'
  <2>1. OneTypeOK /\ OneInv /\ OneNext => faulty' = faulty
    <3>1. OneTypeOK /\ OneInv /\ OneNext => [Next]_vars
      BY OneStep, Zenon
    <3> QED BY <3>1, Zenon DEF Next, vars, mode
  <2> QED BY <2>1, Zenon DEF OneSound
<1>1. TypeOK
  BY Zenon DEF OneTypeOK
<1>2. CASE [Next]_vars /\ UNCHANGED oneVars
  <2>1. UNCHANGED <<call, cmd, index>>
    BY <1>2, Zenon DEF oneVars
  <2>2. ASSUME call = "returned" PROVE index <= commitIndex' /\ committed'[index] = cmd
    <3>1. index \in Index /\ index <= commitIndex /\ committed[index] = cmd
      BY <2>2, Zenon DEF OneSound, OneInv
    <3>2. /\ commitIndex \in Nat /\ commitIndex' \in Nat /\ commitIndex <= commitIndex'
          /\ committed'[index] = committed[index]
      BY <1>1, <1>2, <3>1, CommittedStays, Zenon
    <3>3. index \in Nat
      BY <3>1, Indices, Zenon
    <3>4. index <= commitIndex'
      BY <3>1, <3>2, <3>3
    <3> QED BY <3>1, <3>2, <3>4, Zenon
  <2>3. ASSUME call = "blamed" PROVE \E i \in Srv : "IngestLog" \in late'[i]
    <3>1. PICK i \in Srv : ~ Clean(i)
      BY <2>3, Zenon DEF OneSound, Clean
    <3> QED BY <1>1, <1>2, <3>1, LateStays, Zenon DEF Clean
  <2> QED BY <2>1, <2>2, <2>3, Zenon DEF OneSound
<1>3. CASE call' \in {"none", "submit", "poll", "wait", "last", "short"}
  BY <1>3, Zenon DEF OneSound
<1>4. CASE UNCHANGED vars /\ index \in Index /\ Blames(index) /\ call' = "blamed"
  <2>1. \E i \in Srv : ~ Clean(i)
    BY <1>1, <1>4, NotBlamed, Zenon
  <2>2. late' = late
    BY <1>4, Zenon DEF vars, testVars
  <2> QED BY <1>4, <2>1, <2>2, Zenon DEF OneSound, Clean
<1>5. CASE /\ UNCHANGED vars /\ index \in Index /\ Have(index) # {} /\ call' = "returned"
           /\ index' = index /\ cmd' = Entry(index)
  <2>1. index <= commitIndex /\ Entry(index) = committed[index]
    BY <1>5, EntryCommitted, Zenon
  <2> QED BY <1>5, <2>1, Zenon DEF OneSound, vars, raftVars
<1>6. /\ [Next]_vars
      /\ \/ UNCHANGED oneVars
         \/ /\ UNCHANGED vars
            /\ \/ call' \in {"none", "submit", "poll", "wait", "last", "short"}
               \/ index \in Index /\ Blames(index) /\ call' = "blamed"
               \/ /\ index \in Index /\ Have(index) # {} /\ call' = "returned"
                  /\ index' = index /\ cmd' = Entry(index)
  BY OneStep, Zenon
<1> QED BY <1>2, <1>3, <1>4, <1>5, <1>6, Zenon

-----------------------------------------------------------------------------
(* The theorems.                                                            *)

\* A state of a test.
OneIInv ==
  /\ OneTypeOK /\ ProcInv /\ CInv /\ WrongInv /\ DisagreementCaught
  /\ OneInv /\ OneSound

\* Everything holds when a test starts.
LEMMA OneStarts == OneInit => OneIInv
<1> SUFFICES ASSUME OneInit PROVE OneIInv
  OBVIOUS
<1>1. Init /\ call = "none" /\ cmd = None /\ index = 0 /\ need = 0
  BY Zenon DEF OneInit
<1>2. 0 \in 0..MaxIndex /\ 0 \in 0..MaxKill /\ 0 \in 0..Cardinality(Srv)
      /\ 1 \in 1..(MaxIndex + 1)
  BY BoundsAssumption, ServersCounted
<1>3. \A k \in Index : ~ (k <= 0)
  BY Indices
<1>4. EmptyLog \in Log /\ \A k \in Index : EmptyLog[k] = None
  BY EmptyLogType, Zenon DEF EmptyLog
<1>5. TypeOK
  <2>1. \A k \in Index : committed[k] \in Cmd <=> k <= commitIndex
    BY <1>1, <1>3, <1>4, NoneAssumption, Zenon DEF Init
  <2>2. NoSnap \in Snap
    BY <1>2, <1>4 DEF NoSnap, Snap
  <2>3. {} \in SUBSET Kind
    BY Zenon
  <2> QED BY <1>1, <1>2, <1>4, <2>1, <2>2, <2>3, Zenon DEF Init, TypeOK
<1>6. OneTypeOK
  BY <1>1, <1>2, <1>5, Zenon DEF OneTypeOK, Calls
<1>7. Prefix(0) = EmptyLog
  BY <1>3, Zenon DEF Prefix, Upto, EmptyLog
<1>8. ASSUME NEW i \in Srv PROVE SInv(i)
  <2>1. /\ commitIndex = 0 /\ logs[i] = EmptyLog /\ log[i] = EmptyLog /\ req[i] = None
        /\ answer[i] = "none" /\ ~ applyErr[i] /\ next[i] = 1 /\ lastApplied[i] = 0
        /\ persisted[i] = NoSnap /\ saved[i] = NoSnap
    BY <1>1, Zenon DEF Init
  <2>2. 0 \in 0..commitIndex /\ 0 <= 0 /\ 1 <= 0 + 1 /\ 1 - 1 = 0 /\ 0 + 1 = 1
    BY <2>1
  <2>3. LogInv(i)
    BY <1>4, <1>7, <2>1, <2>2, Zenon DEF LogInv, Entries, Whole
  <2>4. IdleInv(i)
    BY <2>1, <2>2, Zenon DEF IdleInv, Has
  <2>5. CallInv(i) /\ OwnInv(i)
    <3>1. SnapOK(NoSnap)
      <4>1. NoSnap.index = 0 /\ NoSnap.log = EmptyLog
        BY Zenon DEF NoSnap
      <4> QED BY <1>7, <2>1, <2>2, <4>1, Zenon DEF SnapOK
    <3> QED BY <1>7, <2>1, <2>2, <3>1, Zenon DEF CallInv, OwnInv
  <2> QED BY <2>3, <2>4, <2>5, Zenon DEF SInv
<1>9. CInv
  BY <1>1, <1>8, Zenon DEF CInv, OrphanInv, Init
<1>10. WrongInv /\ ProcInv
  <2>1. 0 <= 0
    OBVIOUS
  <2>2. ProcInv
    BY <1>1, <2>1, Zenon DEF ProcInv, Init
  <2> QED BY <1>1, <2>2, Zenon DEF WrongInv, WrongAt, Init
<1>11. DisagreementCaught
  <2>1. \A i \in Srv : logs[i] = EmptyLog
    BY <1>1, Zenon DEF Init
  <2>2. ~ Disagree
    BY <1>4, <2>1, Zenon DEF Disagree
  <2> QED BY <2>2, Zenon DEF DisagreementCaught
<1>12. OneInv /\ OneSound
  BY <1>1, Zenon DEF OneInv, OneSound
<1> QED BY <1>6, <1>9, <1>10, <1>11, <1>12, Zenon DEF OneIInv

\* And after every step.
LEMMA OneInductive == OneIInv /\ [OneNext]_allVars => OneIInv'
<1> SUFFICES ASSUME OneIInv, [OneNext]_allVars PROVE OneIInv'
  OBVIOUS
<1>1. /\ OneTypeOK /\ TypeOK /\ ProcInv /\ CInv /\ WrongInv /\ DisagreementCaught
      /\ OneInv /\ OneSound
  BY Zenon DEF OneIInv, OneTypeOK
<1>2. [Next]_vars /\ OneTypeOK' /\ OneInv' /\ OneSound'
  <2>1. CASE OneNext
    BY <1>1, <2>1, OneStep, OneTypeInductive, OneSoundInductive, Zenon
  <2>2. CASE UNCHANGED allVars
    <3>1. UNCHANGED vars /\ UNCHANGED <<call, cmd, index, need>>
          /\ UNCHANGED <<faulty, commitIndex, committed, late>>
      BY <2>2, Zenon DEF allVars, oneVars, vars, mode, raftVars, testVars
    <3>2. TypeOK'
      BY <1>1, <3>1, TypeInductive, Zenon
    <3> QED BY <1>1, <3>1, <3>2, Zenon DEF OneTypeOK, OneInv, OneSound
  <2> QED BY <2>1, <2>2, Zenon
<1>3. TypeOK' /\ ProcInv' /\ CInv'
  BY <1>1, <1>2, TypeInductive, ProcInductive, CInductive, Zenon
<1>4. faulty' = faulty /\ snapshot' = snapshot
  BY <1>2, Zenon DEF Next, vars, mode
<1>5. WrongInv' /\ DisagreementCaught'
  <2>1. CASE faulty /\ ~ snapshot
    <3>1. /\ WrongInv' /\ ((\E i \in Srv : Caught(i)) => \E i \in Srv : Caught(i)')
          /\ Disagree' => Disagree \/ \E i \in Srv : Caught(i)'
      BY <1>1, <1>2, <2>1, WrongInductive, Zenon
    <3>2. Disagree => \E i \in Srv : Caught(i)
      BY <1>1, <2>1, Zenon DEF DisagreementCaught, Caught
    <3>3. Disagree' => \E i \in Srv : Caught(i)'
      BY <3>1, <3>2, Zenon
    <3> QED BY <3>1, <3>3, Zenon DEF DisagreementCaught, Caught
  <2>2. CASE ~ faulty
    <3>1. (TypeOK /\ CInv /\ ~ faulty => ~ Disagree)'
      BY Agree, PTL
    <3>2. ~ Disagree'
      BY <1>3, <1>4, <2>2, <3>1, Zenon
    <3> QED BY <1>4, <2>2, <3>2, Zenon DEF WrongInv, DisagreementCaught
  <2>3. CASE snapshot
    BY <1>4, <2>3, Zenon DEF WrongInv, DisagreementCaught
  <2> QED BY <2>1, <2>2, <2>3, Zenon
<1> QED BY <1>2, <1>3, <1>5, Zenon DEF OneIInv

LEMMA OneInvariant == OneSpec => []OneIInv
  BY OneStarts, OneInductive, PTL DEF OneSpec

\* Every variable of the tester, of the servers and of the call in progress has
\* its type (raft1/server.go, test.go).
THEOREM OneTypeTheorem == OneSpec => []OneTypeOK
<1>1. OneIInv => OneTypeOK
  BY Zenon DEF OneIInv
<1> QED BY <1>1, OneInvariant, PTL

\* With a correct Raft an error is recorded for a server only if the tester has
\* ingested, after a restart of that server, a snapshot sent before it (raft1/test.go's
\* IngestLog): any number of servers, shutdowns, commands.
THEOREM NoFalseAlarmTheorem == OneSpec => []NoFalseAlarm
<1>1. OneIInv => NoFalseAlarm
  BY Zenon DEF OneIInv, CInv, SInv, OwnInv, Clean, NoFalseAlarm
<1> QED BY <1>1, OneInvariant, PTL

\* The tester's copy of each server's log holds what was committed and, until a
\* request of an earlier process of the server is handled, all of it up to an
\* index (raft1/test.go's logs, that `one' and `wait' count).
THEOREM CopiesCommittedTheorem == OneSpec => []CopiesCommitted
<1>1. OneIInv => CopiesCommitted
  BY Zenon DEF OneIInv, CInv, SInv, LogInv, Entries, Whole, CopiesCommitted
<1> QED BY <1>1, OneInvariant, PTL

\* The log that an applier makes its snapshots from has no hole, and neither has a
\* snapshot that it handed to Raft (raft1/server.go's applierSnap, ingestSnap).
THEOREM SnapshotCompleteTheorem == OneSpec => []SnapshotComplete
<1>1. OneIInv => SnapshotComplete
  BY Zenon DEF OneIInv, CInv, SInv, OwnInv, SnapOK, SnapshotComplete
<1> QED BY <1>1, OneInvariant, PTL

\* Without snapshots, two copies that differ never go unnoticed: an error is
\* recorded, or about to be (raft1/test.go's CheckLogs, server.go's applier).
THEOREM DisagreementCaughtTheorem == OneSpec => []DisagreementCaught
<1>1. OneIInv => DisagreementCaught
  BY Zenon DEF OneIInv
<1> QED BY <1>1, OneInvariant, PTL

\* What `one' and `wait' (raft1/test.go) return is committed, at the index that they
\* polled, and they blame a correct Raft only after a late IngestLog.
THEOREM OneSoundTheorem == OneSpec => []OneSound
<1>1. OneIInv => OneSound
  BY Zenon DEF OneIInv
<1> QED BY <1>1, OneInvariant, PTL

=============================================================================
