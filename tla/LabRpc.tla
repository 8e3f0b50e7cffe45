------------------------------- MODULE LabRpc -------------------------------
(***************************************************************************)
(* The simulated network of src/src/labrpc/labrpc.go.  A call is carried   *)
(* by three goroutines: the caller in ClientEnd.Call, one run of           *)
(* Network.processReq, and one handler goroutine that runs Server.dispatch. *)
(* The caller only waits while processReq works, so one program counter pc *)
(* serves both; handler is the state of the third.  processReq reads the   *)
(* shared maps once, when it starts, and works from that copy (snap) while *)
(* the ends and servers change underneath it.                              *)
(***************************************************************************)
EXTENDS Naturals

CONSTANTS
  Call,        \* the calls that are ever made
  EndName,     \* the names of ClientEnds
  ServerName,  \* the names servers are registered under
  Nil,         \* Go's nil as a server name: the end is not connected
  MaxServer    \* bound on the number of Server objects ever made

ASSUME NilAssumption == Nil \notin ServerName
ASSUME MaxServerAssumption == MaxServer \in Nat

\* A *Server is a number given out in order of creation, 0 is the nil pointer.
NoServer == 0
Server == 0 .. MaxServer

VARIABLES
  reliable, longDelays, longReordering,   \* fault injection switches
  ends,          \* names with a ClientEnd in the ends map
  enabled,       \* by end name; an absent key reads as FALSE
  connections,   \* by end name; an absent key reads as nil
  servers,       \* by server name; an absent key reads as nil
  made,          \* Server objects made so far
  done,          \* the done channel is closed
  dispatching,   \* MakeNetwork's goroutine still receives from endCh
  pc,            \* per call: where ClientEnd.Call and processReq are
  snap,          \* per call: the end used and what readEndnameInfo returned
  handler,       \* per call: where the handler goroutine is
  ran,           \* per call: did the handler run, and was its server installed?
  result         \* per call: the ok of the replyMsg that Call gets

netVars == <<reliable, longDelays, longReordering, ends, enabled, connections,
             servers, made, done>>
callVars == <<pc, snap, handler, ran, result>>
vars == <<reliable, longDelays, longReordering, ends, enabled, connections,
          servers, made, done, dispatching, pc, snap, handler, ran, result>>

PC == {"idle", "sending", "accepted", "deliver", "waiting", "replied", "dead",
       "late", "unreachable", "reply", "returned"}

Snap == [end : EndName \cup {Nil}, name : ServerName \cup {Nil}, srv : Server,
         reliable : BOOLEAN, reordering : BOOLEAN]

TypeOK ==
  /\ reliable \in BOOLEAN /\ longDelays \in BOOLEAN /\ longReordering \in BOOLEAN
  /\ ends \subseteq EndName
  /\ enabled \in [EndName -> BOOLEAN]
  /\ connections \in [EndName -> ServerName \cup {Nil}]
  /\ servers \in [ServerName -> Server]
  /\ made \in Server
  /\ done \in BOOLEAN /\ dispatching \in BOOLEAN
  /\ pc \in [Call -> PC]
  /\ snap \in [Call -> Snap]
  /\ handler \in [Call -> {"none", "spawned", "ran", "ok", "failed"}]
  /\ ran \in [Call -> {"no", "live", "late"}]
  /\ result \in [Call -> BOOLEAN]

-----------------------------------------------------------------------------
(* The maps of the Network, under its mutex.                               *)

MakeNetwork ==
  /\ reliable = TRUE /\ longDelays = FALSE /\ longReordering = FALSE
  /\ ends = {}
  /\ enabled = [e \in EndName |-> FALSE]
  /\ connections = [e \in EndName |-> Nil]
  /\ servers = [s \in ServerName |-> NoServer]
  /\ made = 0
  /\ done = FALSE
  /\ dispatching = TRUE

Reliable(yes) ==
  /\ reliable' = yes
  /\ UNCHANGED <<longDelays, longReordering, ends, enabled, connections,
                 servers, made, done>>

LongReordering(yes) ==
  /\ longReordering' = yes
  /\ UNCHANGED <<reliable, longDelays, ends, enabled, connections, servers,
                 made, done>>

LongDelays(yes) ==
  /\ longDelays' = yes
  /\ UNCHANGED <<reliable, longReordering, ends, enabled, connections, servers,
                 made, done>>

\* log.Fatalf when the name is taken: no caller may reach that.
MakeEnd(e) ==
  /\ e \notin ends
  /\ ends' = ends \cup {e}
  /\ enabled' = [enabled EXCEPT ![e] = FALSE]
  /\ connections' = [connections EXCEPT ![e] = Nil]
  /\ UNCHANGED <<reliable, longDelays, longReordering, servers, made, done>>

\* Mutant: the connection of the end is set to no server instead of to none.
DeleteEnd_Zero(e) ==
  /\ e \in ends
  /\ ends' = ends \ {e}
  /\ enabled' = [enabled EXCEPT ![e] = FALSE]
  /\ connections' = [connections EXCEPT ![e] = NoServer]
  /\ UNCHANGED <<reliable, longDelays, longReordering, servers, made, done>>

DeleteEnd(e) ==
  /\ e \in ends
  /\ ends' = ends \ {e}
  /\ enabled' = [enabled EXCEPT ![e] = FALSE]
  /\ connections' = [connections EXCEPT ![e] = Nil]
  /\ UNCHANGED <<reliable, longDelays, longReordering, servers, made, done>>

\* Connect and Enable do not look at ends: they set a key even after DeleteEnd.
Connect(e, s) ==
  /\ connections' = [connections EXCEPT ![e] = s]
  /\ UNCHANGED <<reliable, longDelays, longReordering, ends, enabled, servers,
                 made, done>>

Enable(e, yes) ==
  /\ enabled' = [enabled EXCEPT ![e] = yes]
  /\ UNCHANGED <<reliable, longDelays, longReordering, ends, connections,
                 servers, made, done>>

\* Every caller adds a Server it has just made with MakeServer.
AddServer(s) ==
  /\ made < MaxServer
  /\ made' = made + 1
  /\ servers' = [servers EXCEPT ![s] = made + 1]
  /\ UNCHANGED <<reliable, longDelays, longReordering, ends, enabled,
                 connections, done>>

DeleteServer(s) ==
  /\ servers' = [servers EXCEPT ![s] = NoServer]
  /\ UNCHANGED <<reliable, longDelays, longReordering, ends, enabled,
                 connections, made, done>>

\* close(rn.done) panics when done twice; Config.Cleanup does it once.
Cleanup ==
  /\ ~ done
  /\ done' = TRUE
  /\ UNCHANGED <<reliable, longDelays, longReordering, ends, enabled,
                 connections, servers, made>>

-----------------------------------------------------------------------------
(* One call.                                                               *)

NoSnap == [end |-> Nil, name |-> Nil, srv |-> NoServer,
           reliable |-> TRUE, reordering |-> FALSE]

InitCalls ==
  /\ pc = [c \in Call |-> "idle"]
  /\ snap = [c \in Call |-> NoSnap]
  /\ handler = [c \in Call |-> "none"]
  /\ ran = [c \in Call |-> "no"]
  /\ result = [c \in Call |-> FALSE]

Goto(c, from, to) ==
  /\ pc[c] = from
  /\ pc' = [pc EXCEPT ![c] = to]

\* ClientEnd.Call, or Forward for a call that a server daemon makes, on an end
\* the caller got from MakeEnd; it reaches the select that sends the request.
StartCall(c, e) ==
  /\ e \in ends
  /\ Goto(c, "idle", "sending")
  /\ snap' = [snap EXCEPT ![c].end = e]
  /\ UNCHANGED <<dispatching, handler, ran, result>>

\* The network's goroutine receives the request and starts processReq.  With
\* done closed its select may still pick the request.
Accept(c) ==
  /\ dispatching
  /\ Goto(c, "sending", "accepted")
  /\ UNCHANGED <<dispatching, snap, handler, ran, result>>

DispatcherExits ==
  /\ dispatching /\ done
  /\ dispatching' = FALSE
  /\ UNCHANGED callVars

\* The caller's select sees done closed: the network is gone.
Abort(c) ==
  /\ done
  /\ Goto(c, "sending", "returned")
  /\ UNCHANGED <<dispatching, snap, handler, ran, result>>

readEndnameInfo(e) ==
  LET name == connections[e] IN
  [end |-> e, name |-> name,
   srv |-> IF name = Nil THEN NoServer ELSE servers[name],
   reliable |-> reliable, reordering |-> longReordering]

StartProcessReq(c) ==
  LET e == snap[c].end
      info == readEndnameInfo(e)
      reachable == enabled[e] /\ info.name # Nil /\ info.srv # NoServer
  IN
  /\ Goto(c, "accepted", IF reachable THEN "deliver" ELSE "unreachable")
  /\ snap' = [snap EXCEPT ![c] = info]
  /\ UNCHANGED <<dispatching, handler, ran, result>>

DropRequest(c) ==
  /\ ~ snap[c].reliable
  /\ Goto(c, "deliver", "reply")
  /\ UNCHANGED <<dispatching, snap, handler, ran, result>>

Dispatch(c) ==
  /\ Goto(c, "deliver", "waiting")
  /\ handler' = [handler EXCEPT ![c] = "spawned"]
  /\ UNCHANGED <<dispatching, snap, ran, result>>

\* Mutant: a server that replaced the old one counts as the old one.
isServerDead_Nil(c) ==
  \/ ~ enabled[snap[c].end]
  \/ servers[snap[c].name] = NoServer

\* The pointer read at the start is compared with the one installed now.
isServerDead(c) ==
  \/ ~ enabled[snap[c].end]
  \/ servers[snap[c].name] # snap[c].srv

\* Server.dispatch runs the service's method, at whatever time the handler
\* goroutine gets to it.  ran records whether the server was still installed.
Execute(c) ==
  /\ handler[c] = "spawned"
  /\ handler' = [handler EXCEPT ![c] = "ran"]
  /\ ran' = [ran EXCEPT ![c] =
                IF servers[snap[c].name] = snap[c].srv THEN "live" ELSE "late"]
  /\ UNCHANGED <<dispatching, pc, snap, result>>

HandlerReturns(c) ==
  /\ handler[c] = "ran"
  /\ handler' = [handler EXCEPT ![c] = "ok"]
  /\ UNCHANGED <<dispatching, pc, snap, ran, result>>

\* dispatchf: the server is a daemon, and the connection to it broke before
\* its answer came, whether or not the request was executed there.
ForwardFails(c) ==
  /\ handler[c] \in {"spawned", "ran"}
  /\ handler' = [handler EXCEPT ![c] = "failed"]
  /\ UNCHANGED <<dispatching, pc, snap, ran, result>>

\* reply = <-ech
ReceiveReply(c) ==
  /\ handler[c] \in {"ok", "failed"}
  /\ Goto(c, "waiting", "replied")
  /\ UNCHANGED <<dispatching, snap, handler, ran, result>>

\* The 100 ms timer fires and the server turns out to be dead; the handler's
\* answer will be drained.  A timer that finds the server alive changes nothing.
PollDead(c) ==
  /\ Goto(c, "waiting", "dead")
  /\ isServerDead(c)
  /\ UNCHANGED <<dispatching, snap, handler, ran, result>>

\* Mutant: the reply that is made up says ok.
ReplyFailure_Ok(c) ==
  /\ \/ Goto(c, "dead", "reply")
     \/ /\ Goto(c, "replied", "reply")
        /\ isServerDead(c) \/ ~ snap[c].reliable
  /\ result' = [result EXCEPT ![c] = TRUE]
  /\ UNCHANGED <<dispatching, snap, handler, ran>>

\* After the wait: the last isServerDead and the choice of an answer.  Answers
\* of an unreliable network may be dropped, reordered ones delayed.
ReplyFailure(c) ==
  /\ \/ Goto(c, "dead", "reply")
     \/ /\ Goto(c, "replied", "reply")
        /\ isServerDead(c) \/ ~ snap[c].reliable
  /\ UNCHANGED <<dispatching, snap, handler, ran, result>>

ReplyAnswer(c) ==
  /\ \/ Goto(c, "replied", "reply")
     \/ Goto(c, "replied", "late") /\ snap[c].reordering
  /\ ~ isServerDead(c)
  /\ result' = [result EXCEPT ![c] = handler[c] = "ok"]
  /\ UNCHANGED <<dispatching, snap, handler, ran>>

\* Mutant: no timeout for a request that could not be delivered.
TimerFires_Late(c) ==
  /\ Goto(c, "late", "reply")
  /\ UNCHANGED <<dispatching, snap, handler, ran, result>>

\* time.AfterFunc: the delayed answer, or the simulated timeout of a request
\* that could not be delivered (LONGDELAY or 100 ms, as IsLongDelays says).
TimerFires(c) ==
  /\ \/ Goto(c, "late", "reply")
     \/ Goto(c, "unreachable", "reply")
  /\ UNCHANGED <<dispatching, snap, handler, ran, result>>

\* rep := <-req.replyCh
Return(c) ==
  /\ Goto(c, "reply", "returned")
  /\ UNCHANGED <<dispatching, snap, handler, ran, result>>

ProcessReq(c) ==
  \/ StartProcessReq(c) \/ DropRequest(c) \/ Dispatch(c)
  \/ ReceiveReply(c) \/ PollDead(c) \/ ReplyFailure(c) \/ ReplyAnswer(c)
  \/ TimerFires(c)

Handler(c) == Execute(c) \/ HandlerReturns(c) \/ ForwardFails(c)

-----------------------------------------------------------------------------

\* What the code that owns the network may do to it at any time.
Administer ==
  \/ \E yes \in BOOLEAN : Reliable(yes) \/ LongReordering(yes) \/ LongDelays(yes)
  \/ \E e \in EndName : MakeEnd(e) \/ DeleteEnd(e)
  \/ \E e \in EndName, s \in ServerName : Connect(e, s)
  \/ \E e \in EndName, yes \in BOOLEAN : Enable(e, yes)
  \/ \E s \in ServerName : AddServer(s) \/ DeleteServer(s)
  \/ Cleanup

CallStep(c) ==
  \/ \E e \in EndName : StartCall(c, e)
  \/ Accept(c) \/ Abort(c) \/ ProcessReq(c) \/ Handler(c) \/ Return(c)

Init == MakeNetwork /\ InitCalls

Next ==
  \/ Administer /\ UNCHANGED <<dispatching, callVars>>
  \/ DispatcherExits /\ UNCHANGED netVars
  \/ \E c \in Call : CallStep(c) /\ UNCHANGED netVars

\* Goroutines that can run do run.  Nothing is assumed of the handlers: they
\* are the code under test.
Fairness ==
  /\ WF_vars(DispatcherExits /\ UNCHANGED netVars)
  /\ \A c \in Call :
       WF_vars((Accept(c) \/ Abort(c) \/ ProcessReq(c) \/ Return(c))
                 /\ UNCHANGED netVars)

Spec == Init /\ [][Next]_vars
FairSpec == Spec /\ Fairness

-----------------------------------------------------------------------------
(* Properties.                                                             *)

\* labrpc.go:338-343: "do not reply if DeleteServer() has been called".  A
\* request that was executed by a server already deleted or replaced (its
\* effects went to a Persister that nobody will read) is never reported as
\* successful, however calls, deletions and restarts interleave.
LateNeverSucceeds ==
  \A c \in Call : ran[c] = "late" => ~ result[c]

\* What makes LateNeverSucceeds and ImplementsRpc inductive: server pointers
\* are fresh, so a superseded server stays superseded; processReq dispatches
\* once, on a copy that no longer changes; an answer needs a finished handler.
OneCallInv(c) ==
  /\ snap[c].srv <= made
  /\ pc[c] \in {"idle", "sending", "accepted", "deliver", "unreachable"}
       => handler[c] = "none"
  /\ pc[c] \in {"waiting", "replied", "dead", "late"} => handler[c] # "none"
  /\ pc[c] = "replied" => handler[c] \in {"ok", "failed"}
  /\ pc[c] # "idle" => snap[c].end \in EndName
  /\ pc[c] = "deliver" \/ handler[c] # "none"
       => snap[c].name \in ServerName /\ snap[c].srv # NoServer
  /\ handler[c] \in {"none", "spawned"} => ran[c] = "no"
  /\ handler[c] \in {"ran", "ok"} => ran[c] # "no"
  /\ ran[c] = "late" => servers[snap[c].name] # snap[c].srv /\ ~ result[c]
  /\ result[c] => pc[c] \in {"late", "reply", "returned"} /\ handler[c] = "ok"

CallInv ==
  /\ \A s \in ServerName : servers[s] <= made
  /\ \A c \in Call : OneCallInv(c)

\* Every call as the caller sees it.
Status(c) ==
  CASE pc[c] = "idle" -> "idle"
    [] pc[c] = "returned" -> IF result[c] THEN "ok" ELSE "failed"
    [] OTHER -> "pending"

Abstract == INSTANCE Rpc WITH
              status <- [c \in Call |-> Status(c)],
              ran <- [c \in Call |-> ran[c] # "no"]

\* labrpc.go:29-38: Call() returns true only for a request that the server
\* executed, and a request is executed at most once, before or after Call()
\* has returned.
ImplementsRpc == Abstract!Spec

\* labrpc.go:34-36: Call() "is guaranteed to return (perhaps after a delay)
\* *except* if the handler function on the server side does not return".
HandlersReturn == \A c \in Call : WF_vars(Handler(c) /\ UNCHANGED netVars)
CallReturns ==
  HandlersReturn => \A c \in Call : pc[c] # "idle" ~> pc[c] = "returned"

\* TestKilled (labrpc/test_test.go): a call stuck in a handler that never
\* returns is released once its server is deleted, even if a new server takes
\* the name before the next 100 ms poll.
KilledCallReturns ==
  \A c \in Call :
    (pc[c] = "waiting" /\ servers[snap[c].name] # snap[c].srv)
      ~> pc[c] = "returned"

=============================================================================
