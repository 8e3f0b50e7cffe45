----------------------------- MODULE ServerLife -----------------------------
(***************************************************************************)
(* Crash and restart of the servers of a group: ServerGrp.ShutdownServer    *)
(* and StartServer (tester1/group.go, srv.go), the daemon's side of them    *)
(* (tester1/daemonsrv.go) and the Persister, composed with the network of   *)
(* LabRpc.  A server is a daemon process; the network's Server object       *)
(* forwards requests to it over a connection that stays open until the      *)
(* process is killed.  The tester's thread takes a server down and up in    *)
(* several steps, and calls of clerks and peers proceed between them.       *)
(***************************************************************************)
EXTENDS LabRpc

CONSTANTS
  PeerEnd,     \* ends of the other servers of the group; the rest are clerks'
  Target       \* the server each end is connected to

ASSUME PeerEndAssumption == PeerEnd \subseteq EndName
ASSUME TargetAssumption == Target \in [EndName -> ServerName]

VARIABLES
  phase,   \* per server: how far the tester has taken it down or up
  alive,   \* per server: the Server object whose daemon runs, or NoServer
  store,   \* per server: the updates in the Persister of the daemon
  saved    \* per server: the updates in the Persister the tester keeps

lifeVars == <<phase, alive, store, saved>>
allVars == <<vars, lifeVars>>

Phase == {"down", "booted", "added", "connected", "isolated", "deleted",
          "checkpointed"}

LifeTypeOK ==
  /\ phase \in [ServerName -> Phase]
  /\ alive \in [ServerName -> Server]
  /\ store \in [ServerName -> SUBSET Call]
  /\ saved \in [ServerName -> SUBSET Call]

\* The clerks' ends are made and enabled by Clnt.makeEnd, the peers' by
\* makeServer; a test has chosen what the network does to messages.
LifeInit ==
  /\ reliable \in BOOLEAN /\ longReordering \in BOOLEAN /\ longDelays = FALSE
  /\ ends = EndName
  /\ enabled = [e \in EndName |-> e \notin PeerEnd]
  /\ connections = Target
  /\ servers = [s \in ServerName |-> NoServer]
  /\ made = 0
  /\ done = FALSE
  /\ dispatching = TRUE
  /\ InitCalls
  /\ phase = [s \in ServerName |-> "down"]
  /\ alive = [s \in ServerName |-> NoServer]
  /\ store = [s \in ServerName |-> {}]
  /\ saved = [s \in ServerName |-> {}]

-----------------------------------------------------------------------------
(* The tester's thread.                                                    *)

Advance(s, from, to) ==
  /\ phase[s] \in from
  /\ phase' = [phase EXCEPT ![s] = to]

\* Server.connect and disconnect, as far as they concern the ends to s.
EnablePeers(s, yes) ==
  /\ enabled' = [e \in EndName |->
                   IF e \in PeerEnd /\ Target[e] = s THEN yes ELSE enabled[e]]
  /\ UNCHANGED <<reliable, longDelays, longReordering, ends, connections,
                 servers, made, done>>

\* StartServer, up to waitInit: the daemon runs with the saved state.
Boot(s) ==
  /\ Advance(s, {"down"}, "booted")
  /\ store' = [store EXCEPT ![s] = saved[s]]
  /\ UNCHANGED <<netVars, alive, saved>>

\* StartServer's SetDispatch and AddServer.
Add(s) ==
  /\ Advance(s, {"booted"}, "added")
  /\ AddServer(s)
  /\ alive' = [alive EXCEPT ![s] = made + 1]
  /\ UNCHANGED <<store, saved>>

ConnectOne(s) ==
  /\ Advance(s, {"added"}, "connected")
  /\ EnablePeers(s, TRUE)
  /\ UNCHANGED <<alive, store, saved>>

\* A test unplugs the server and lets it run.
DisconnectAll(s) ==
  /\ Advance(s, {"connected"}, "added")
  /\ EnablePeers(s, FALSE)
  /\ UNCHANGED <<alive, store, saved>>

\* ShutdownServer, in its four steps.
Isolate(s) ==
  /\ Advance(s, {"added", "connected"}, "isolated")
  /\ EnablePeers(s, FALSE)
  /\ UNCHANGED <<alive, store, saved>>

Delete(s) ==
  /\ Advance(s, {"isolated"}, "deleted")
  /\ DeleteServer(s)
  /\ UNCHANGED <<alive, store, saved>>

\* DaemonSrv.CheckpointPersister closes the daemon's connection to the tester
\* and its listener; the connection requests come in on stays open.  Then it
\* copies the Persister, and the tester keeps the copy.
CheckpointPersister(s) ==
  /\ Advance(s, {"deleted"}, "checkpointed")
  /\ saved' = [saved EXCEPT ![s] = store[s]]
  /\ UNCHANGED <<netVars, alive, store>>

Kill(s) ==
  /\ Advance(s, {"checkpointed"}, "down")
  /\ alive' = [alive EXCEPT ![s] = NoServer]
  /\ UNCHANGED <<netVars, store, saved>>

Tester(s) ==
  \/ Boot(s) \/ Add(s) \/ ConnectOne(s) \/ DisconnectAll(s)
  \/ Isolate(s) \/ Delete(s) \/ CheckpointPersister(s) \/ Kill(s)

-----------------------------------------------------------------------------
(* Calls.                                                                  *)

DaemonRuns(c) == alive[snap[c].name] = snap[c].srv

\* The daemon executes the request and saves the update in its Persister
\* before it answers.
ExecuteInDaemon(c) ==
  /\ Execute(c)
  /\ DaemonRuns(c)
  /\ store' = [store EXCEPT ![snap[c].name] = @ \cup {c}]
  /\ UNCHANGED <<netVars, phase, alive, saved>>

\* An answer written before the kill can still be read after it.
AnswerArrives(c) == HandlerReturns(c) /\ UNCHANGED <<netVars, lifeVars>>

ConnectionBreaks(c) ==
  /\ ForwardFails(c)
  /\ ~ DaemonRuns(c)
  /\ UNCHANGED <<netVars, lifeVars>>

NetworkStep(c) ==
  /\ \/ \E e \in EndName : StartCall(c, e)
     \/ Accept(c) \/ ProcessReq(c) \/ Return(c)
  /\ UNCHANGED <<netVars, lifeVars>>

LifeNext ==
  \/ \E s \in ServerName : Tester(s) /\ UNCHANGED <<dispatching, callVars>>
  \/ \E c \in Call :
       \/ NetworkStep(c) \/ ExecuteInDaemon(c) \/ AnswerArrives(c)
       \/ ConnectionBreaks(c)

LifeSpec == LifeInit /\ [][LifeNext]_allVars

-----------------------------------------------------------------------------
(* Properties.                                                             *)

\* Where the updates of s are that its next requests will see: in the daemon's
\* Persister until the checkpoint, in the tester's copy until the next boot.
Durable(s) ==
  IF phase[s] \in {"checkpointed", "down"} THEN saved[s] ELSE store[s]

\* The reason given in labrpc.go:338-343 for the last isServerDead: no client
\* gets "a positive reply to an Append, but the server persisted the update
\* into the old Persister".  Every update that is or will be reported as
\* successful, at once or after a long-reordering delay, is in the state the
\* server has now or will restart from.
AckedDurable ==
  \A c \in Call : result[c] => c \in Durable(snap[c].name)

\* AckedDurable made inductive.  The network knows a server exactly while the
\* tester has it added and not yet deleted, and then it is the one whose daemon
\* runs; an update that such a server executed is in its daemon's Persister.
\* Together they say that an answer which passes the last isServerDead is about
\* a Persister that has not been superseded.
Installed == {"added", "connected", "isolated"}

LifeInv ==
  /\ \A s \in ServerName :
       servers[s] = IF phase[s] \in Installed THEN alive[s] ELSE NoServer
  /\ \A c \in Call :
       /\ handler[c] \in {"ran", "ok"}
       /\ servers[snap[c].name] = snap[c].srv
       => c \in store[snap[c].name]
  /\ AckedDurable

=============================================================================
