---------------------------- MODULE DaemonProofs ----------------------------
(* The handshake between the tester and its server processes, for any       *)
(* number of servers, services, attempts, crashes and restarts.             *)
EXTENDS Daemon, TLAPS

\* Where InitDaemon is before and after it has received the Persister.
Early == {"start", "add", "recv"}
Late == {"srv", "mks", "reg", "send", "idle"}

\* How a process may have ended.
Cause == {"no", "crash", "unknown service", "nil listener"}

\* As much of TypeOK as the argument needs: the bounds play no part in it.
Shape ==
  /\ pc \in Pc /\ cur \in Srv
  /\ main \in [Srv -> Main] /\ died \in [Srv -> Cause]

\* The numbers of the model.
Ints == nsvc \in [Srv -> Int] /\ persister \in [Srv -> Int] /\ saved \in [Srv -> Int]

\* dial gives up, and ends the test, at the last attempt.
Count == retry \in 0..MaxRetry /\ (pc # "exit" => retry < MaxRetry)

\* What the tester's goroutine is about.
TesterInv ==
  /\ pc \in {"test", "dialCtl", "dialData", "exit"} => rpc = "none"
  /\ pc \in {"dialCtl", "init", "dialData", "wait", "size", "checkpoint"} => cur \in dc
  /\ added \subseteq dc /\ dc \subseteq Srv
  /\ pc \in {"dialCtl", "init", "dialData", "wait", "checkpoint"} => cur \notin added
  /\ rpc = "failed" => main[cur] = "off"
  /\ pc = "exit" => died[cur] # "no" \/ retry = MaxRetry

\* How far the process that the tester talks to has come.
MeetInv ==
  /\ pc = "dialCtl" \/ (pc = "init" /\ rpc \in {"sent", "waits"}) => main[cur] \notin Late
  /\ pc = "wait" /\ rpc = "ok" => main[cur] \in {"off", "idle"}

\* Where a process is, by what the tester knows of it.
Proc(i) ==
  /\ main[i] # "returned"
  /\ i \in dc /\ main[i] = "off" => died[i] # "no"
  /\ i \in added => main[i] \in {"off", "idle"}

\* What a process has by the time it gets somewhere.
Has(i) ==
  /\ main[i] \in Early \cup {"srv", "mks"} => nsvc[i] = 0
  /\ main[i] = "reg" => nsvc[i] < NSvc
  /\ main[i] \in {"send", "idle"} => nsvc[i] = NSvc
  /\ main[i] \in Late => persister[i] >= saved[i]

\* The inductive invariant.
DInv ==
  /\ Shape /\ Ints /\ Count /\ TesterInv /\ MeetInv
  /\ \A i \in Srv : Proc(i) /\ Has(i)

\* Before the first StartServer nothing has been started.
LEMMA DInit == Init => DInv
<1> SUFFICES ASSUME Init PROVE DInv
  OBVIOUS
<1>1. Shape
  BY Zenon DEF Init, Shape, Pc, Main, Cause
<1>2. Ints
  BY DEF Init, Ints, Nil
<1>3. Count
  BY DaemonBounds DEF Init, Count
<1>4. TesterInv /\ MeetInv
  BY Zenon DEF Init, TesterInv, MeetInv
<1>5. \A i \in Srv : Proc(i) /\ Has(i)
  BY Zenon DEF Init, Proc, Has, Early, Late
<1> QED BY <1>1, <1>2, <1>3, <1>4, <1>5, Zenon DEF DInv

\* An attempt of dial keeps count.
LEMMA RetryStep ==
  ASSUME retry \in 0..MaxRetry, retry < MaxRetry,
         \/ retry' = 0
         \/ retry' = retry + 1 /\ pc' = IF retry + 1 = MaxRetry THEN "exit" ELSE pc
  PROVE  retry' \in 0..MaxRetry /\ (pc' # "exit" => retry' < MaxRetry)
BY DaemonBounds

\* The steps of StartServer and of the size queries that the tester takes.
LEMMA TesterSteps ==
  ASSUME DInv, Tester, ~ CheckpointReturns
  PROVE  DInv'
<1>a. Shape /\ Ints /\ Count /\ TesterInv /\ MeetInv
  BY Zenon DEF DInv
<1>p. \A j \in Srv : Proc(j) /\ Has(j)
  BY Zenon DEF DInv
<1> USE <1>a
<1>1. CASE InitReturns
  <2>1. Shape'
    BY <1>1, Zenon DEF InitReturns, process, Shape, Pc
  <2>2. Ints'
    BY <1>1, Zenon DEF InitReturns, process, Ints
  <2>3. Count'
    BY <1>1, Zenon DEF InitReturns, Count
  <2>4. TesterInv'
    BY <1>1, Zenon DEF InitReturns, TesterInv
  <2>5. MeetInv'
    BY <1>1, Zenon DEF InitReturns, MeetInv
  <2>6. \A j \in Srv : Proc(j)'
    BY <1>1, <1>p, Zenon DEF InitReturns, process, Proc
  <2>7. \A j \in Srv : Has(j)'
    BY <1>1, <1>p, Zenon DEF InitReturns, process, Has
  <2> QED BY <2>1, <2>2, <2>3, <2>4, <2>5, <2>6, <2>7, Zenon DEF DInv
<1>2. CASE WaitReturns
  <2>1. Shape'
    BY <1>2, Zenon DEF WaitReturns, process, Shape, Pc
  <2>2. Ints'
    BY <1>2, Zenon DEF WaitReturns, process, Ints
  <2>3. Count'
    BY <1>2, Zenon DEF WaitReturns, Count
  <2>4. TesterInv'
    BY <1>2, Zenon DEF WaitReturns, TesterInv
  <2>5. MeetInv'
    BY <1>2, Zenon DEF WaitReturns, MeetInv
  <2>6. \A j \in Srv : Proc(j)'
    BY <1>2, <1>p, Zenon DEF WaitReturns, process, TesterInv, MeetInv, Proc
  <2>7. \A j \in Srv : Has(j)'
    BY <1>2, <1>p, Zenon DEF WaitReturns, process, Has
  <2> QED BY <2>1, <2>2, <2>3, <2>4, <2>5, <2>6, <2>7, Zenon DEF DInv
<1>3. CASE SizeReturns
  <2>1. Shape'
    BY <1>3, Zenon DEF SizeReturns, process, Shape, Pc
  <2>2. Ints'
    BY <1>3, Zenon DEF SizeReturns, process, Ints
  <2>3. Count'
    BY <1>3, Zenon DEF SizeReturns, Count
  <2>4. TesterInv'
    BY <1>3, <1>p, Zenon DEF SizeReturns, process, TesterInv, Proc
  <2>5. MeetInv'
    BY <1>3, Zenon DEF SizeReturns, MeetInv
  <2>6. \A j \in Srv : Proc(j)'
    BY <1>3, <1>p, Zenon DEF SizeReturns, process, Proc
  <2>7. \A j \in Srv : Has(j)'
    BY <1>3, <1>p, Zenon DEF SizeReturns, process, Has
  <2> QED BY <2>1, <2>2, <2>3, <2>4, <2>5, <2>6, <2>7, Zenon DEF DInv
<1>4. CASE RequestFails
  <2>1. Shape'
    BY <1>4, Zenon DEF RequestFails, process, Shape
  <2>2. Ints'
    BY <1>4, Zenon DEF RequestFails, process, Ints
  <2>3. Count'
    BY <1>4, Zenon DEF RequestFails, Count
  <2>4. TesterInv'
    BY <1>4, Zenon DEF RequestFails, Alive, process, TesterInv
  <2>5. MeetInv'
    BY <1>4, Zenon DEF RequestFails, process, MeetInv
  <2>6. \A j \in Srv : Proc(j)'
    BY <1>4, <1>p, Zenon DEF RequestFails, process, Proc
  <2>7. \A j \in Srv : Has(j)'
    BY <1>4, <1>p, Zenon DEF RequestFails, process, Has
  <2> QED BY <2>1, <2>2, <2>3, <2>4, <2>5, <2>6, <2>7, Zenon DEF DInv
<1>5. CASE DialCtl
  <2>1. /\ UNCHANGED <<cur, dc, added, saved, main, nsvc, persister, died>>
        /\ pc = "dialCtl"
        /\ \/ pc' = "init" /\ rpc' = "sent" /\ retry' = 0
           \/ /\ retry' = retry + 1 /\ rpc' = rpc
              /\ pc' = IF retry + 1 = MaxRetry THEN "exit" ELSE pc
    BY <1>5, Zenon DEF DialCtl, dial, Request, process
  <2>2. Count'
    BY <2>1, RetryStep, Zenon DEF Count
  <2>3. Shape'
    BY <2>1, Zenon DEF Shape, Pc
  <2>4. Ints'
    BY <2>1, Zenon DEF Ints
  <2>5. TesterInv'
    BY <2>1, Zenon DEF TesterInv
  <2>6. MeetInv'
    BY <2>1, Zenon DEF MeetInv
  <2>7. \A j \in Srv : Proc(j)' /\ Has(j)'
    BY <1>p, <2>1, Zenon DEF Proc, Has
  <2> QED BY <2>2, <2>3, <2>4, <2>5, <2>6, <2>7, Zenon DEF DInv
<1>6. CASE DialData
  <2>1. /\ UNCHANGED <<cur, dc, added, saved, main, nsvc, persister, died>>
        /\ pc = "dialData"
        /\ \/ pc' = "wait" /\ rpc' = "sent" /\ retry' = 0
           \/ /\ retry' = retry + 1 /\ rpc' = rpc
              /\ pc' = IF retry + 1 = MaxRetry THEN "exit" ELSE pc
    BY <1>6, Zenon DEF DialData, dial, Request, process
  <2>2. Count'
    BY <2>1, RetryStep, Zenon DEF Count
  <2>3. Shape'
    BY <2>1, Zenon DEF Shape, Pc
  <2>4. Ints'
    BY <2>1, Zenon DEF Ints
  <2>5. TesterInv'
    BY <2>1, Zenon DEF TesterInv
  <2>6. MeetInv'
    BY <2>1, Zenon DEF MeetInv
  <2>7. \A j \in Srv : Proc(j)' /\ Has(j)'
    BY <1>p, <2>1, Zenon DEF Proc, Has
  <2> QED BY <2>2, <2>3, <2>4, <2>5, <2>6, <2>7, Zenon DEF DInv
<1> QED BY <1>1, <1>2, <1>3, <1>4, <1>5, <1>6, Zenon DEF Tester

\* The requests of the test, and the end of a shutdown.
LEMMA TestSteps ==
  ASSUME DInv, NEW i \in Srv,
         StartServer(i) \/ StateSize(i) \/ ShutdownServer(i) \/ CheckpointReturns
  PROVE  DInv'
<1>a. Shape /\ Ints /\ Count /\ TesterInv /\ MeetInv
  BY Zenon DEF DInv
<1>p. \A j \in Srv : Proc(j) /\ Has(j)
  BY Zenon DEF DInv
<1> USE <1>a
<1>1. CASE StartServer(i)
  <2>1. Shape'
    BY <1>1, Zenon DEF StartServer, process, Shape, Main, Pc, Cause
  <2>2. Ints'
    BY <1>1 DEF StartServer, process, Ints, Nil
  <2>3. Count'
    BY <1>1, DaemonBounds DEF StartServer, Count
  <2>4. TesterInv'
    BY <1>1, Zenon DEF StartServer, TesterInv
  <2>5. MeetInv'
    BY <1>1, Zenon DEF StartServer, Shape, MeetInv, Late
  <2>6. \A j \in Srv : Proc(j)'
    <3>1. ASSUME NEW j \in Srv, j # i PROVE Proc(j)'
      BY <1>1, <1>p, <3>1, Zenon DEF StartServer, process, Shape, Proc
    <3>2. Proc(i)'
      BY <1>1, <1>p, Zenon DEF StartServer, process, Shape, TesterInv, Proc
    <3> QED BY <3>1, <3>2, Zenon
  <2>7. \A j \in Srv : Has(j)'
    BY <1>1, <1>p DEF StartServer, process, Shape, Ints, Has, Late
  <2> QED BY <2>1, <2>2, <2>3, <2>4, <2>5, <2>6, <2>7, Zenon DEF DInv
<1>2. CASE StateSize(i)
  <2>1. Shape'
    BY <1>2, Zenon DEF StateSize, Request, process, Shape, Pc
  <2>2. Ints'
    BY <1>2, Zenon DEF StateSize, process, Ints
  <2>3. Count'
    BY <1>2, DaemonBounds DEF StateSize, Request, Count
  <2>4. TesterInv'
    BY <1>2, Zenon DEF StateSize, Request, TesterInv
  <2>5. MeetInv'
    BY <1>2, Zenon DEF StateSize, Request, MeetInv
  <2>6. \A j \in Srv : Proc(j)'
    BY <1>2, <1>p, Zenon DEF StateSize, process, Proc
  <2>7. \A j \in Srv : Has(j)'
    BY <1>2, <1>p, Zenon DEF StateSize, process, Has
  <2> QED BY <2>1, <2>2, <2>3, <2>4, <2>5, <2>6, <2>7, Zenon DEF DInv
<1>3. CASE ShutdownServer(i)
  <2>1. Shape'
    BY <1>3, Zenon DEF ShutdownServer, Request, process, Shape, Pc
  <2>2. Ints'
    BY <1>3, Zenon DEF ShutdownServer, process, Ints
  <2>3. Count'
    BY <1>3, DaemonBounds DEF ShutdownServer, Request, Count
  <2>4. TesterInv'
    BY <1>3, Zenon DEF ShutdownServer, Request, TesterInv
  <2>5. MeetInv'
    BY <1>3, Zenon DEF ShutdownServer, Request, MeetInv
  <2>6. \A j \in Srv : Proc(j)'
    BY <1>3, <1>p, Zenon DEF ShutdownServer, process, Proc
  <2>7. \A j \in Srv : Has(j)'
    BY <1>3, <1>p, Zenon DEF ShutdownServer, process, Has
  <2> QED BY <2>1, <2>2, <2>3, <2>4, <2>5, <2>6, <2>7, Zenon DEF DInv
<1>4. CASE CheckpointReturns
  <2>1. Shape'
    BY <1>4, Zenon DEF CheckpointReturns, Shape, Main, Pc
  <2>2. Ints'
    BY <1>4, Zenon DEF CheckpointReturns, Ints
  <2>3. Count'
    BY <1>4, DaemonBounds, Zenon DEF CheckpointReturns, Count
  <2>4. TesterInv'
    BY <1>4, <1>p, Zenon DEF CheckpointReturns, TesterInv, Proc
  <2>5. MeetInv'
    BY <1>4, Zenon DEF CheckpointReturns, MeetInv
  <2>6. \A j \in Srv : Proc(j)'
    BY <1>4, <1>p, Zenon DEF CheckpointReturns, Shape, Proc
  <2>7. \A j \in Srv : Has(j)'
    BY <1>4, <1>p, Zenon DEF CheckpointReturns, Shape, Has, Early, Late
  <2> QED BY <2>1, <2>2, <2>3, <2>4, <2>5, <2>6, <2>7, Zenon DEF DInv
<1> QED BY <1>1, <1>2, <1>3, <1>4, Zenon

\* InitDaemon and the goroutines that listen.
LEMMA DaemonSteps ==
  ASSUME DInv, NEW i \in Srv,
         InitDaemon(i) \/ (\E k \in {"ctl", "data"} : Listen(i, k))
  PROVE  DInv'
<1>a. Shape /\ Ints /\ Count /\ TesterInv /\ MeetInv
  BY Zenon DEF DInv
<1>p. \A j \in Srv : Proc(j) /\ Has(j)
  BY Zenon DEF DInv
<1> USE <1>a
<1>1. CASE MakeDaemon(i)
  <2>1. Shape'
    BY <1>1, Zenon DEF MakeDaemon, Step, tester, Shape, Main
  <2>2. Ints'
    BY <1>1, Zenon DEF MakeDaemon, tester, Ints
  <2>3. Count'
    BY <1>1, Zenon DEF MakeDaemon, tester, Count
  <2>4. TesterInv'
    BY <1>1 DEF MakeDaemon, Step, tester, TesterInv
  <2>5. MeetInv'
    BY <1>1 DEF MakeDaemon, Step, tester, MeetInv, Late
  <2>6. \A j \in Srv : Proc(j)'
    BY <1>1, <1>p DEF MakeDaemon, Step, tester, Proc
  <2>7. \A j \in Srv : Has(j)'
    BY <1>1, <1>p DEF MakeDaemon, Step, tester, Has, Early, Late
  <2> QED BY <2>1, <2>2, <2>3, <2>4, <2>5, <2>6, <2>7, Zenon DEF DInv
<1>2. CASE AddDaemonSrv(i)
  <2>1. Shape'
    BY <1>2, Zenon DEF AddDaemonSrv, Step, tester, Shape, Main
  <2>2. Ints'
    BY <1>2, Zenon DEF AddDaemonSrv, tester, Ints
  <2>3. Count'
    BY <1>2, Zenon DEF AddDaemonSrv, tester, Count
  <2>4. TesterInv'
    BY <1>2 DEF AddDaemonSrv, Step, tester, TesterInv
  <2>5. MeetInv'
    BY <1>2 DEF AddDaemonSrv, Step, tester, MeetInv, Late
  <2>6. \A j \in Srv : Proc(j)'
    BY <1>2, <1>p DEF AddDaemonSrv, Step, tester, Proc
  <2>7. \A j \in Srv : Has(j)'
    BY <1>2, <1>p DEF AddDaemonSrv, Step, tester, Has, Early, Late
  <2> QED BY <2>1, <2>2, <2>3, <2>4, <2>5, <2>6, <2>7, Zenon DEF DInv
<1>3. CASE MakeDataSrv(i)
  <2>1. Shape'
    BY <1>3, Zenon DEF MakeDataSrv, Step, tester, Shape, Main
  <2>2. Ints'
    BY <1>3, Zenon DEF MakeDataSrv, tester, Ints
  <2>3. Count'
    BY <1>3, Zenon DEF MakeDataSrv, tester, Count
  <2>4. TesterInv'
    BY <1>3 DEF MakeDataSrv, Step, tester, TesterInv
  <2>5. MeetInv'
    BY <1>3 DEF MakeDataSrv, Step, tester, MeetInv, Late
  <2>6. \A j \in Srv : Proc(j)'
    BY <1>3, <1>p DEF MakeDataSrv, Step, tester, Proc
  <2>7. \A j \in Srv : Has(j)'
    BY <1>3, <1>p DEF MakeDataSrv, Step, tester, Has, Late
  <2> QED BY <2>1, <2>2, <2>3, <2>4, <2>5, <2>6, <2>7, Zenon DEF DInv
<1>4. CASE MakeServices(i)
  <2>1. Shape'
    BY <1>4, Zenon DEF MakeServices, Step, tester, Shape, Main
  <2>2. Ints'
    BY <1>4, Zenon DEF MakeServices, tester, Ints
  <2>3. Count'
    BY <1>4, Zenon DEF MakeServices, tester, Count
  <2>4. TesterInv'
    BY <1>4 DEF MakeServices, Step, tester, TesterInv
  <2>5. MeetInv'
    BY <1>4 DEF MakeServices, Step, tester, MeetInv, Late
  <2>6. \A j \in Srv : Proc(j)'
    BY <1>4, <1>p DEF MakeServices, Step, tester, Proc
  <2>7. \A j \in Srv : Has(j)'
    BY <1>4, <1>p, DaemonBounds DEF MakeServices, Step, tester, Has, Late
  <2> QED BY <2>1, <2>2, <2>3, <2>4, <2>5, <2>6, <2>7, Zenon DEF DInv
<1>5. CASE AddService(i)
  <2>1. Shape'
    BY <1>5, Zenon DEF AddService, tester, Shape, Main
  <2>2. Ints'
    BY <1>5 DEF AddService, tester, Ints
  <2>3. Count'
    BY <1>5, Zenon DEF AddService, tester, Count
  <2>4. TesterInv'
    BY <1>5 DEF AddService, tester, TesterInv
  <2>5. MeetInv'
    BY <1>5 DEF AddService, tester, MeetInv, Late
  <2>6. \A j \in Srv : Proc(j)'
    BY <1>5, <1>p DEF AddService, tester, Proc
  <2>7. \A j \in Srv : Has(j)'
    BY <1>5, <1>p, DaemonBounds DEF AddService, tester, Shape, Ints, Has, Early, Late
  <2> QED BY <2>1, <2>2, <2>3, <2>4, <2>5, <2>6, <2>7, Zenon DEF DInv
<1>6. CASE \E k \in {"ctl", "data"} : Listen(i, k)
  <2>1. Shape'
    BY <1>6, Zenon DEF Listen, tester, Shape
  <2>2. Ints'
    BY <1>6, Zenon DEF Listen, tester, Ints
  <2>3. Count'
    BY <1>6, Zenon DEF Listen, tester, Count
  <2>4. TesterInv'
    BY <1>6, Zenon DEF Listen, tester, TesterInv
  <2>5. MeetInv'
    BY <1>6, Zenon DEF Listen, tester, MeetInv
  <2>6. \A j \in Srv : Proc(j)'
    BY <1>6, <1>p, Zenon DEF Listen, tester, Proc
  <2>7. \A j \in Srv : Has(j)'
    BY <1>6, <1>p, Zenon DEF Listen, tester, Has
  <2> QED BY <2>1, <2>2, <2>3, <2>4, <2>5, <2>6, <2>7, Zenon DEF DInv
<1> QED BY <1>1, <1>2, <1>3, <1>4, <1>5, <1>6, Zenon DEF InitDaemon

\* The handlers of control requests.
LEMMA HandlerSteps ==
  ASSUME DInv, NEW i \in Srv, Handler(i)
  PROVE  DInv'
<1>a. Shape /\ Ints /\ Count /\ TesterInv /\ MeetInv
  BY Zenon DEF DInv
<1>p. \A j \in Srv : Proc(j) /\ Has(j)
  BY Zenon DEF DInv
<1> USE <1>a
<1>1. CASE ServeRequest(i)
  <2>1. /\ i = cur /\ main[i] # "off" /\ rpc = "sent"
        /\ UNCHANGED <<pc, cur, retry, dc, added, nsvc, persister>>
    BY <1>1, Zenon DEF ServeRequest, Alive
  <2>2. pc \notin {"test", "exit"}
    BY <2>1, Zenon DEF TesterInv
  <2>3. Count'
    BY <2>1, Zenon DEF Count
  <2>4. ASSUME NEW why \in Cause \ {"no"}, Die(i, why), UNCHANGED <<rpc, saved>>
        PROVE  DInv'
    <3>1. Shape' /\ Ints'
      BY <2>1, <2>4, Zenon DEF Die, Shape, Ints, Main
    <3>2. TesterInv' /\ MeetInv'
      BY <2>1, <2>2, <2>4 DEF Die, TesterInv, MeetInv, Late
    <3>3. \A j \in Srv : Proc(j)' /\ Has(j)'
      BY <1>p, <2>1, <2>4, Zenon DEF Die, Shape, Proc, Has, Early, Late
    <3> QED BY <2>3, <3>1, <3>2, <3>3, Zenon DEF DInv
  <2>5. ASSUME rpc' \in {"waits", "ok"}, pc = "wait" => rpc' = "waits",
               UNCHANGED <<main, died, saved>>
        PROVE  DInv'
    <3>1. Shape' /\ Ints'
      BY <2>1, <2>5, Zenon DEF Shape, Ints
    <3>2. TesterInv' /\ MeetInv'
      BY <2>1, <2>2, <2>5, Zenon DEF TesterInv, MeetInv
    <3>3. \A j \in Srv : Proc(j)' /\ Has(j)'
      BY <1>p, <2>1, <2>5, Zenon DEF Proc, Has
    <3> QED BY <2>3, <3>1, <3>2, <3>3, Zenon DEF DInv
  <2>6. CASE pc = "checkpoint" /\ CheckpointPersister(i) /\ sock[i]["data"] = "accepting"
    <3>1. /\ saved' = [saved EXCEPT ![i] = persister[i]]
          /\ rpc' = "ok" /\ UNCHANGED <<main, died>>
      BY <2>6, Zenon DEF CheckpointPersister
    <3>2. Shape'
      BY <2>1, <3>1, Zenon DEF Shape
    <3>3. Ints'
      BY <2>1, <3>1, Zenon DEF Ints
    <3>4. TesterInv' /\ MeetInv'
      BY <2>1, <2>6, <3>1, Zenon DEF TesterInv, MeetInv
    <3>5. \A j \in Srv : Proc(j)'
      BY <1>p, <2>1, <3>1, Zenon DEF Proc
    <3>6. \A j \in Srv : saved'[j] = saved[j] \/ saved'[j] = persister[j]
      BY <3>1, Zenon DEF Ints
    <3>7. \A j \in Srv : Has(j)'
      BY <1>p, <2>1, <3>1, <3>6 DEF Has, Ints
    <3> QED BY <2>3, <3>2, <3>3, <3>4, <3>5, <3>7, Zenon DEF DInv
  <2>7. CASE pc = "checkpoint" /\ CheckpointPersister(i) /\ sock[i]["data"] # "accepting"
    BY <2>4, <2>7, Zenon DEF CheckpointPersister, Cause
  <2>8. \/ Die(i, "unknown service") /\ UNCHANGED <<rpc, saved>>
        \/ /\ rpc' \in {"waits", "ok"} /\ (pc = "wait" => rpc' = "waits")
           /\ UNCHANGED <<main, died, saved>>
        \/ pc = "checkpoint" /\ CheckpointPersister(i)
    <3>1. pc \in {"init", "wait", "size", "checkpoint"}
      BY <2>1, <2>2, Zenon DEF Shape, Pc, TesterInv
    <3>2. CASE ~ ctlSvc[i]
      BY <1>1, <3>2, Zenon DEF ServeRequest
    <3>3. CASE ctlSvc[i] /\ pc \in {"init", "wait"}
      BY <1>1, <3>3, Zenon DEF ServeRequest
    <3>4. CASE ctlSvc[i] /\ pc = "size"
      BY <1>1, <3>4, Zenon DEF ServeRequest
    <3>5. CASE ctlSvc[i] /\ pc = "checkpoint"
      BY <1>1, <3>5, Zenon DEF ServeRequest
    <3> QED BY <3>1, <3>2, <3>3, <3>4, <3>5, Zenon
  <2> QED BY <2>4, <2>5, <2>6, <2>7, <2>8, Zenon DEF Cause
<1>2. CASE InitRendezvous(i)
  <2>1. Shape'
    BY <1>2, Zenon DEF InitRendezvous, Shape, Main
  <2>2. Ints'
    BY <1>2, Zenon DEF InitRendezvous, Ints
  <2>3. Count'
    BY <1>2, DaemonBounds, Zenon DEF InitRendezvous, Count
  <2>4. TesterInv'
    BY <1>2, Zenon DEF InitRendezvous, TesterInv
  <2>5. MeetInv'
    BY <1>2, Zenon DEF InitRendezvous, MeetInv
  <2>6. \A j \in Srv : Proc(j)'
    BY <1>2, <1>p DEF InitRendezvous, MeetInv, Proc, Late
  <2>7. \A j \in Srv : Has(j)'
    BY <1>2, <1>p DEF InitRendezvous, Ints, Has, Early, Late
  <2> QED BY <2>1, <2>2, <2>3, <2>4, <2>5, <2>6, <2>7, Zenon DEF DInv
<1>3. CASE WaitRendezvous(i)
  <2>1. Shape'
    BY <1>3, Zenon DEF WaitRendezvous, Step, Shape, Main
  <2>2. Ints'
    BY <1>3, Zenon DEF WaitRendezvous, Ints
  <2>3. Count'
    BY <1>3, Zenon DEF WaitRendezvous, Count
  <2>4. TesterInv'
    BY <1>3, Zenon DEF WaitRendezvous, TesterInv
  <2>5. MeetInv'
    BY <1>3, Zenon DEF WaitRendezvous, Step, Shape, MeetInv
  <2>6. \A j \in Srv : Proc(j)'
    BY <1>3, <1>p DEF WaitRendezvous, Step, Proc
  <2>7. \A j \in Srv : Has(j)'
    BY <1>3, <1>p DEF WaitRendezvous, Step, Has, Early, Late
  <2> QED BY <2>1, <2>2, <2>3, <2>4, <2>5, <2>6, <2>7, Zenon DEF DInv
<1> QED BY <1>1, <1>2, <1>3, Zenon DEF Handler

\* The server in the process.
LEMMA ServerSteps ==
  ASSUME DInv, NEW i \in Srv,
         (\E k \in 1..NSvc : Forward(i, k)) \/ Save(i) \/ Crash(i)
  PROVE  DInv'
<1>a. Shape /\ Ints /\ Count /\ TesterInv /\ MeetInv
  BY Zenon DEF DInv
<1>p. \A j \in Srv : Proc(j) /\ Has(j)
  BY Zenon DEF DInv
<1> USE <1>a
<1>save. ASSUME UNCHANGED <<pc, cur, retry, rpc, dc, added, saved, nsvc, main, died>>,
                persister' = [persister EXCEPT ![i] = @ + 1]
         PROVE  DInv'
  <2>1. Shape' /\ Count' /\ TesterInv' /\ MeetInv'
    BY <1>save, Zenon DEF Shape, Count, TesterInv, MeetInv
  <2>2. Ints'
    BY <1>save DEF Ints
  <2>3. \A j \in Srv : Proc(j)'
    BY <1>p, <1>save, Zenon DEF Proc
  <2>4. \A j \in Srv : persister'[j] \in {persister[j], persister[j] + 1}
    BY <1>save, Zenon DEF Ints
  <2>5. \A j \in Srv : Has(j)'
    BY <1>p, <1>save, <2>4 DEF Has, Ints
  <2> QED BY <2>1, <2>2, <2>3, <2>5, Zenon DEF DInv
<1>1. CASE \E k \in 1..NSvc : Forward(i, k)
  <2>1. PICK k \in 1..NSvc : Forward(i, k)
    BY <1>1, Zenon
  <2>2. main[i] = "idle"
    BY <1>p, <2>1, Zenon DEF Forward, Alive, Proc
  <2>3. nsvc[i] = NSvc
    BY <1>p, <2>2, Zenon DEF Has
  <2>4. ~ (k > nsvc[i])
    BY <2>3, DaemonBounds
  <2>5. /\ UNCHANGED <<pc, cur, retry, rpc, dc, added, saved, nsvc, main, died>>
        /\ persister' = [persister EXCEPT ![i] = @ + 1]
    BY <2>1, <2>4, Zenon DEF Forward, tester
  <2> QED BY <1>save, <2>5, Zenon
<1>2. CASE Save(i)
  BY <1>2, <1>save, Zenon DEF Save, tester
<1>3. CASE Crash(i)
  <2>1. Shape'
    BY <1>3, Zenon DEF Crash, Die, tester, Shape, Main, Pc, Cause
  <2>2. Ints'
    BY <1>3, Zenon DEF Crash, tester, Ints
  <2>3. Count'
    BY <1>3, Zenon DEF Crash, tester, Count
  <2>4. TesterInv'
    BY <1>3 DEF Crash, Die, tester, TesterInv
  <2>5. MeetInv'
    BY <1>3 DEF Crash, Die, tester, MeetInv, Late
  <2>6. \A j \in Srv : Proc(j)'
    BY <1>3, <1>p, Zenon DEF Crash, Die, tester, Shape, Proc
  <2>7. \A j \in Srv : Has(j)'
    BY <1>3, <1>p DEF Crash, Die, tester, Has, Early, Late
  <2> QED BY <2>1, <2>2, <2>3, <2>4, <2>5, <2>6, <2>7, Zenon DEF DInv
<1> QED BY <1>1, <1>2, <1>3, Zenon

\* Each step of the tester and of the processes preserves the invariant.
LEMMA DInductive == DInv /\ [Next]_vars => DInv'
<1> SUFFICES ASSUME DInv, [Next]_vars PROVE DInv'
  OBVIOUS
<1>1. CASE Tester
  BY <1>1, TesterSteps, TestSteps, Zenon DEF DInv, Shape
<1>2. ASSUME NEW i \in Srv,
             \/ StartServer(i) \/ StateSize(i) \/ ShutdownServer(i)
             \/ InitDaemon(i) \/ Handler(i)
             \/ \E k \in {"ctl", "data"} : Listen(i, k)
             \/ \E k \in 1..NSvc : Forward(i, k)
             \/ Save(i) \/ Crash(i)
      PROVE  DInv'
  BY <1>2, TestSteps, DaemonSteps, HandlerSteps, ServerSteps, Zenon
<1>3. CASE UNCHANGED vars
  <2> USE DEF vars, tester, process
  <2>1. Shape' /\ Ints' /\ Count' /\ TesterInv' /\ MeetInv'
    BY <1>3, Zenon DEF DInv, Shape, Ints, Count, TesterInv, MeetInv
  <2>2. \A i \in Srv : Proc(i)' /\ Has(i)'
    BY <1>3, Zenon DEF DInv, Proc, Has
  <2> QED BY <2>1, <2>2, Zenon DEF DInv
<1> QED BY <1>1, <1>2, <1>3, Zenon DEF Next

\* The invariant holds in every state.
LEMMA DInvAlways == Spec => []DInv
BY DInit, DInductive, PTL DEF Spec

\* StartServer, InitDaemon and the rendezvous on ds.ch: however often servers are
\* shut down, crash and are started again, a process that the network forwards
\* requests to has registered every service, and its Persister is no older than
\* the one its predecessor left.
THEOREM AddedReadyTheorem == Spec => []AddedReady
<1>1. DInv => AddedReady
  <2> SUFFICES ASSUME DInv, NEW i \in added, main[i] # "off"
               PROVE  nsvc[i] = NSvc /\ persister[i] >= saved[i]
    BY Zenon DEF AddedReady, Alive
  <2>1. i \in Srv
    BY Zenon DEF DInv, TesterInv
  <2> QED BY <2>1, Zenon DEF DInv, Proc, Has, Late
<1> QED BY <1>1, DInvAlways, PTL

\* getDmx, raftSize, CheckpointPersister: the tester ends the test only because
\* the process it talks to ended by itself or did not bind a socket in MaxRetry
\* attempts, and InitDaemon never returns.
THEOREM ExitExplainedTheorem == Spec => []ExitExplained
<1>1. DInv => ExitExplained
  BY Zenon DEF DInv, TesterInv, Proc, ExitExplained
<1> QED BY <1>1, DInvAlways, PTL

=============================================================================
