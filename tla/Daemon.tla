------------------------------- MODULE Daemon -------------------------------
(***************************************************************************)
(* How the tester starts, questions and stops a server process:             *)
(* ServerGrp.StartServer and ShutdownServer (tester1/group.go), DaemonClnt   *)
(* in the tester (daemonclnt.go), DaemonSrv in the process (daemonsrv.go),   *)
(* and the UNIX sockets between them (sockrpc).  A process has a control     *)
(* socket and a data socket, each with a goroutine that binds it and accepts *)
(* connections; the goroutine that runs InitDaemon and the handlers of       *)
(* control requests meet on one unbuffered channel, ds.ch.                   *)
(* What happens to one connection's messages is Demux's subject, what the    *)
(* network makes of a request LabRpc's.                                      *)
(***************************************************************************)
EXTENDS Integers

CONSTANTS
  Srv,        \* the servers of a group
  NSvc,       \* how many services mks returns (Raft and the service on top: 2)
  MaxRetry,   \* dial's MAXRETRY
  MaxStart,   \* bound on the number of processes
  MaxCrash,   \* bound on the processes that end by themselves
  MaxSave     \* bound on the number of saves to a Persister

ASSUME DaemonBounds ==
  /\ NSvc \in Nat \ {0} /\ MaxRetry \in Nat \ {0}
  /\ MaxStart \in Nat /\ MaxCrash \in Nat /\ MaxSave \in Nat

Nil == -1   \* no *Persister

VARIABLES
  pc, cur,      \* where the tester's goroutine is, and the server it is busy with
  retry,        \* failed attempts of dial
  rpc,          \* the state of its control request: see Rpc
  dc,           \* servers that have a DaemonClnt
  added,        \* servers the network forwards requests to
  saved,        \* the Persister the tester keeps per server, as a version
  main,         \* where InitDaemon is, per server
  sock,         \* the sockets, per server
  ctlSvc,       \* is DaemonSrv registered with the control socket?
  nsvc,         \* how many services are registered with the data socket
  persister,    \* ds.persister
  died,         \* why the process ended by itself
  starts, crashes

tester == <<pc, cur, retry, rpc, dc, added, saved, starts>>
process == <<main, sock, ctlSvc, nsvc, persister, died>>
vars == <<tester, process, crashes>>

Pc == {"test", "dialCtl", "init", "dialData", "wait", "size", "checkpoint", "exit"}
Main == {"off", "start", "add", "recv", "srv", "mks", "reg", "send", "idle", "returned"}
Sock == {"none", "starting", "bound", "accepting", "closed"}
\* A request waits to be served, its handler waits on ds.ch, or it is answered.
Rpc == {"none", "sent", "waits", "ok", "failed"}

TypeOK ==
  /\ pc \in Pc /\ cur \in Srv
  /\ retry \in 0..MaxRetry
  /\ rpc \in Rpc
  /\ dc \subseteq Srv /\ added \subseteq Srv
  /\ saved \in [Srv -> 0..MaxSave]
  /\ main \in [Srv -> Main]
  /\ sock \in [Srv -> [{"ctl", "data"} -> Sock]]
  /\ ctlSvc \in [Srv -> BOOLEAN]
  /\ nsvc \in [Srv -> 0..NSvc]
  /\ persister \in [Srv -> {Nil} \cup 0..MaxSave]
  /\ died \in [Srv -> {"no", "crash", "unknown service", "nil listener"}]
  /\ starts \in 0..MaxStart /\ crashes \in 0..MaxCrash

NoSock == [k \in {"ctl", "data"} |-> "none"]

Init ==
  /\ pc = "test" /\ cur \in Srv
  /\ retry = 0 /\ rpc = "none"
  /\ dc = {} /\ added = {}
  /\ saved = [i \in Srv |-> 0]
  /\ main = [i \in Srv |-> "off"]
  /\ sock = [i \in Srv |-> NoSock]
  /\ ctlSvc = [i \in Srv |-> FALSE]
  /\ nsvc = [i \in Srv |-> 0]
  /\ persister = [i \in Srv |-> Nil]
  /\ died = [i \in Srv |-> "no"]
  /\ starts = 0 /\ crashes = 0

Alive(i) == main[i] # "off"

-----------------------------------------------------------------------------
(* The tester's goroutine.                                                 *)

\* makeServer gives the new process fresh names, hence fresh sockets; runDaemon
\* starts it and dials its control socket, or returns an error that StartSrvs
\* ignores.
StartServer(i) ==
  /\ pc = "test" /\ i \notin dc /\ starts < MaxStart
  /\ cur' = i
  /\ starts' = starts + 1
  /\ \/ /\ pc' = "dialCtl" /\ retry' = 0
        /\ dc' = dc \cup {i}
        /\ main' = [main EXCEPT ![i] = "start"]
        /\ sock' = [sock EXCEPT ![i] = NoSock]
        /\ ctlSvc' = [ctlSvc EXCEPT ![i] = FALSE]
        /\ nsvc' = [nsvc EXCEPT ![i] = 0]
        /\ persister' = [persister EXCEPT ![i] = Nil]
        /\ died' = [died EXCEPT ![i] = "no"]
     \/ UNCHANGED <<pc, retry, dc, process>>
  /\ UNCHANGED <<rpc, added, saved, crashes>>

\* An attempt of dial: a bound socket takes the connection before it is accepted.
\* When the attempts are used up, getDmx ends the tester.
dial(k, then) ==
  \/ /\ Alive(cur) /\ sock[cur][k] \in {"bound", "accepting"}
     /\ then
  \/ /\ ~ (Alive(cur) /\ sock[cur][k] \in {"bound", "accepting"})
     /\ retry' = retry + 1
     /\ pc' = IF retry + 1 = MaxRetry THEN "exit" ELSE pc
     /\ UNCHANGED rpc

Request(next) == pc' = next /\ rpc' = "sent" /\ retry' = 0

\* runDaemon's NewRPCClnt, then init's request.
DialCtl ==
  /\ pc = "dialCtl"
  /\ dial("ctl", Request("init"))
  /\ UNCHANGED <<cur, dc, added, saved, starts, process, crashes>>

\* init goes on whether or not Init returned.
InitReturns ==
  /\ pc = "init" /\ rpc \in {"ok", "failed"}
  /\ pc' = "dialData" /\ rpc' = "none"
  /\ UNCHANGED <<cur, retry, dc, added, saved, starts, process, crashes>>

\* init's NewRPCClnt, then waitInit's request.
DialData ==
  /\ pc = "dialData"
  /\ dial("data", Request("wait"))
  /\ UNCHANGED <<cur, dc, added, saved, starts, process, crashes>>

\* So does StartServer with InitWait: SetDispatch and AddServer.
WaitReturns ==
  /\ pc = "wait" /\ rpc \in {"ok", "failed"}
  /\ pc' = "test" /\ rpc' = "none"
  /\ added' = added \cup {cur}
  /\ UNCHANGED <<cur, retry, dc, saved, starts, process, crashes>>

\* snapshotSize, raftSize, memSize of a server that has a DaemonClnt.
StateSize(i) ==
  /\ pc = "test" /\ i \in dc
  /\ cur' = i
  /\ Request("size")
  /\ UNCHANGED <<dc, added, saved, starts, process, crashes>>

SizeReturns ==
  /\ pc = "size" /\ rpc \in {"ok", "failed"}
  /\ pc' = IF rpc = "ok" THEN "test" ELSE "exit"
  /\ rpc' = "none"
  /\ UNCHANGED <<cur, retry, dc, added, saved, starts, process, crashes>>

\* ShutdownServer; without a DaemonClnt it ends with DeleteServer.
ShutdownServer(i) ==
  /\ pc = "test"
  /\ cur' = i
  /\ added' = added \ {i}
  /\ IF i \in dc THEN Request("checkpoint") ELSE UNCHANGED <<pc, rpc, retry>>
  /\ UNCHANGED <<dc, saved, starts, process, crashes>>

\* The answer to CheckpointPersister is kept, and kill ends the process.  The
\* handler took its copy when it answered; what was saved after is lost.
CheckpointReturns ==
  /\ pc = "checkpoint" /\ rpc \in {"ok", "failed"}
  /\ rpc' = "none"
  /\ IF rpc = "failed"
     THEN pc' = "exit" /\ UNCHANGED <<dc, main>>
     ELSE /\ pc' = "test"
          /\ dc' = dc \ {cur}
          /\ main' = [main EXCEPT ![cur] = "off"]
  /\ UNCHANGED <<cur, retry, added, saved, starts, sock, ctlSvc, nsvc, persister, died,
                 crashes>>

\* RPCMarshall over a connection to a process that has ended (Demux).
RequestFails ==
  /\ rpc \in {"sent", "waits"} /\ ~ Alive(cur)
  /\ rpc' = "failed"
  /\ UNCHANGED <<pc, cur, retry, dc, added, saved, starts, process, crashes>>

-----------------------------------------------------------------------------
(* The process: InitDaemon.                                                *)

Step(i, from, to) ==
  /\ main[i] = from
  /\ main' = [main EXCEPT ![i] = to]

NewRPCSrv(i, k) == sock' = [sock EXCEPT ![i][k] = "starting"]

\* The ends, the connection to the tester, the control socket.
MakeDaemon(i) ==
  /\ Step(i, "start", "add")
  /\ NewRPCSrv(i, "ctl")
  /\ UNCHANGED <<tester, ctlSvc, nsvc, persister, died, crashes>>

AddDaemonSrv(i) ==
  /\ Step(i, "add", "recv")
  /\ ctlSvc' = [ctlSvc EXCEPT ![i] = TRUE]
  /\ UNCHANGED <<tester, sock, nsvc, persister, died, crashes>>

\* Once Init's Persister is received (InitRendezvous): the data socket.
MakeDataSrv(i) ==
  /\ Step(i, "srv", "mks")
  /\ NewRPCSrv(i, "data")
  /\ UNCHANGED <<tester, ctlSvc, nsvc, persister, died, crashes>>

\* mks starts the server, which may use its Persister at once.
MakeServices(i) ==
  /\ Step(i, "mks", "reg")
  /\ UNCHANGED <<tester, sock, ctlSvc, nsvc, persister, died, crashes>>

\* Mutant: the signal is sent when the first service is registered.
AddService_Early(i) ==
  /\ main[i] = "reg"
  /\ nsvc' = [nsvc EXCEPT ![i] = @ + 1]
  /\ main' = [main EXCEPT ![i] = "send"]
  /\ UNCHANGED <<tester, sock, ctlSvc, persister, died, crashes>>

\* Mutant: InitDaemon does not signal that it is done.
AddService_NoSignal(i) ==
  /\ main[i] = "reg"
  /\ nsvc' = [nsvc EXCEPT ![i] = @ + 1]
  /\ main' = [main EXCEPT ![i] = IF nsvc[i] + 1 = NSvc THEN "idle" ELSE "reg"]
  /\ UNCHANGED <<tester, sock, ctlSvc, persister, died, crashes>>

\* One iteration of the loop over the services.
AddService(i) ==
  /\ main[i] = "reg"
  /\ nsvc' = [nsvc EXCEPT ![i] = @ + 1]
  /\ main' = [main EXCEPT ![i] = IF nsvc[i] + 1 = NSvc THEN "send" ELSE "reg"]
  /\ UNCHANGED <<tester, sock, ctlSvc, persister, died, crashes>>

\* listen: net.Listen binds the socket, then rpcs.l is set and Accept called.
Listen(i, k) ==
  /\ Alive(i)
  /\ \/ sock[i][k] = "starting" /\ sock' = [sock EXCEPT ![i][k] = "bound"]
     \/ sock[i][k] = "bound" /\ sock' = [sock EXCEPT ![i][k] = "accepting"]
  /\ UNCHANGED <<tester, main, ctlSvc, nsvc, persister, died, crashes>>

-----------------------------------------------------------------------------
(* The process: handlers of control requests.                              *)

Die(i, why) ==
  /\ main' = [main EXCEPT ![i] = "off"]
  /\ died' = [died EXCEPT ![i] = why]

\* Mutant: a server that does not listen yet refuses to be checkpointed.
CheckpointPersister_Refuse(i) ==
  IF sock[i]["data"] # "accepting"
  THEN rpc' = "failed" /\ UNCHANGED <<main, died, saved, sock>>
  ELSE /\ sock' = [sock EXCEPT ![i]["data"] = "closed"]
       /\ saved' = [saved EXCEPT ![i] = persister[i]]
       /\ rpc' = "ok"
       /\ UNCHANGED <<main, died>>

\* Close sets the listener down; it is nil until listen has set it.
CheckpointPersister(i) ==
  IF sock[i]["data"] # "accepting"
  THEN Die(i, "nil listener") /\ UNCHANGED <<rpc, saved, sock>>
  ELSE /\ sock' = [sock EXCEPT ![i]["data"] = "closed"]
       /\ saved' = [saved EXCEPT ![i] = persister[i]]
       /\ rpc' = "ok"
       /\ UNCHANGED <<main, died>>

\* ServeRequest and Server.dispatch: a request for a service that is not
\* registered ends the process (log.Fatalf).  Init and InitWait block on ds.ch.
ServeRequest(i) ==
  /\ i = cur /\ Alive(i) /\ rpc = "sent" /\ sock[i]["ctl"] = "accepting"
  /\ CASE ~ ctlSvc[i] -> Die(i, "unknown service") /\ UNCHANGED <<rpc, saved, sock>>
       [] ctlSvc[i] /\ pc \in {"init", "wait"} ->
            rpc' = "waits" /\ UNCHANGED <<main, died, saved, sock>>
       [] ctlSvc[i] /\ pc = "size" -> rpc' = "ok" /\ UNCHANGED <<main, died, saved, sock>>
       [] ctlSvc[i] /\ pc = "checkpoint" -> CheckpointPersister(i)
  /\ UNCHANGED <<pc, cur, retry, dc, added, starts, ctlSvc, nsvc, persister, crashes>>

\* Init's send on ds.ch meets a receive of InitDaemon: the one meant for it, or
\* the one that waits for the end of the process.
InitRendezvous(i) ==
  /\ i = cur /\ pc = "init" /\ rpc = "waits" /\ main[i] \in {"recv", "idle"}
  /\ main' = [main EXCEPT ![i] = IF @ = "recv" THEN "srv" ELSE "returned"]
  /\ persister' = [persister EXCEPT ![i] = IF main[i] = "recv" THEN saved[i] ELSE @]
  /\ rpc' = "ok"
  /\ UNCHANGED <<pc, cur, retry, dc, added, saved, starts, sock, ctlSvc, nsvc, died, crashes>>

\* InitDaemon's send of nil meets InitWait's receive.
WaitRendezvous(i) ==
  /\ i = cur /\ pc = "wait" /\ rpc = "waits"
  /\ Step(i, "send", "idle")
  /\ rpc' = "ok"
  /\ UNCHANGED <<pc, cur, retry, dc, added, saved, starts, sock, ctlSvc, nsvc, persister,
                 died, crashes>>

-----------------------------------------------------------------------------
(* The server in the process, and its end.                                 *)

\* A request that the network forwards to the k-th service of a server.  The
\* connection was made by init; its requests are read once it is accepted.
Forward(i, k) ==
  /\ i \in added /\ Alive(i) /\ sock[i]["data"] \in {"accepting", "closed"}
  /\ IF k > nsvc[i]
     THEN Die(i, "unknown service") /\ UNCHANGED persister
     ELSE /\ persister[i] < MaxSave
          /\ persister' = [persister EXCEPT ![i] = @ + 1]
          /\ UNCHANGED <<main, died>>
  /\ UNCHANGED <<tester, sock, ctlSvc, nsvc, crashes>>

\* The server saves on its own account, from mks on.
Save(i) ==
  /\ main[i] \in {"reg", "send", "idle"} /\ persister[i] < MaxSave
  /\ persister' = [persister EXCEPT ![i] = @ + 1]
  /\ UNCHANGED <<tester, main, sock, ctlSvc, nsvc, died, crashes>>

\* The server under test crashes, or the process quits after ten minutes.
Crash(i) ==
  /\ Alive(i) /\ crashes < MaxCrash
  /\ Die(i, "crash")
  /\ crashes' = crashes + 1
  /\ UNCHANGED <<tester, sock, ctlSvc, nsvc, persister>>

-----------------------------------------------------------------------------
Tester == DialCtl \/ InitReturns \/ DialData \/ WaitReturns \/ SizeReturns
          \/ CheckpointReturns \/ RequestFails

InitDaemon(i) == MakeDaemon(i) \/ AddDaemonSrv(i) \/ MakeDataSrv(i) \/ MakeServices(i)
                 \/ AddService(i)

Handler(i) == ServeRequest(i) \/ InitRendezvous(i) \/ WaitRendezvous(i)

Next ==
  \/ Tester
  \/ \E i \in Srv :
       \/ StartServer(i) \/ StateSize(i) \/ ShutdownServer(i)
       \/ InitDaemon(i) \/ Handler(i)
       \/ \E k \in {"ctl", "data"} : Listen(i, k)
       \/ \E k \in 1..NSvc : Forward(i, k)
       \/ Save(i) \/ Crash(i)

Spec == Init /\ [][Next]_vars

\* The scheduler runs every goroutine and every process; what the test asks for
\* and what the server does is up to them.
FairSpec ==
  /\ Spec
  /\ WF_vars(Tester)
  /\ \A i \in Srv :
       /\ WF_vars(InitDaemon(i)) /\ WF_vars(Handler(i))
       /\ \A k \in {"ctl", "data"} : WF_vars(Listen(i, k))

-----------------------------------------------------------------------------
(* Properties.                                                             *)

\* group.go:252 "now add server to network": a process that the network forwards
\* requests to has all its services registered, although its data socket accepts
\* connections from before mks on, and has the state its predecessor left.
AddedReady ==
  \A i \in added : Alive(i) => nsvc[i] = NSvc /\ persister[i] >= saved[i]

\* Nobody waits for ever: StartServer, ShutdownServer and the size queries come
\* back to the test, or end it, whenever the process crashes, however its
\* goroutines are scheduled, and although all wait on the same channel.
TesterGoesOn == pc # "test" ~> pc \in {"test", "exit"}

\* The tester ends the test only when it has a reason: the process it talks to
\* ended by itself, or did not bind its socket in MAXRETRY attempts.  A process
\* that runs always answers, and InitDaemon never returns.
ExitExplained ==
  /\ pc = "exit" => died[cur] # "no" \/ retry = MaxRetry
  /\ \A i \in Srv : main[i] # "returned"

=============================================================================
