-------------------------- MODULE ServerLifeProofs --------------------------
(* The network (LabRpc) delivers each call as Rpc says, and no acknowledged    *)
(* update is lost by a crash and a restart (ServerLife), for any sets of       *)
(* calls, ends and servers and any number of restarts below MaxServer.       *)
EXTENDS ServerLife, TLAPS

USE NilAssumption, MaxServerAssumption DEF NoServer, Server

\* The actions of Administer are the only steps that change the network's maps;
\* each leaves the variables it does not name alone.
LEMMA AdministerType ==
  ASSUME TypeOK, Administer, UNCHANGED <<dispatching, callVars>>
  PROVE  TypeOK'
<1> USE DEF TypeOK, callVars
<1>1. ASSUME NEW yes \in BOOLEAN, Reliable(yes) \/ LongReordering(yes) \/ LongDelays(yes)
      PROVE  TypeOK'
  BY <1>1, Zenon DEF Reliable, LongReordering, LongDelays
<1>2. ASSUME NEW e \in EndName, MakeEnd(e) \/ DeleteEnd(e)
      PROVE  TypeOK'
  BY <1>2, Zenon DEF MakeEnd, DeleteEnd
<1>3. ASSUME NEW e \in EndName, NEW s \in ServerName, Connect(e, s)
      PROVE  TypeOK'
  BY <1>3, Zenon DEF Connect
<1>4. ASSUME NEW e \in EndName, NEW yes \in BOOLEAN, Enable(e, yes)
      PROVE  TypeOK'
  BY <1>4, Zenon DEF Enable
<1>5. ASSUME NEW s \in ServerName, AddServer(s) \/ DeleteServer(s)
      PROVE  TypeOK'
  BY <1>5 DEF AddServer, DeleteServer
<1>6. CASE Cleanup
  BY <1>6, Zenon DEF Cleanup
<1> QED BY <1>1, <1>2, <1>3, <1>4, <1>5, <1>6 DEF Administer

\* And so does a step of a call.
LEMMA CallStepType ==
  ASSUME TypeOK, CallInv, NEW c \in Call, CallStep(c), UNCHANGED netVars
  PROVE  TypeOK'
<1> USE DEF TypeOK, netVars, Goto, PC, Snap
<1>1. ASSUME NEW e \in EndName, StartCall(c, e) PROVE TypeOK'
  BY <1>1 DEF StartCall
<1>2. CASE Accept(c) \/ Abort(c) \/ Return(c)
  BY <1>2, Zenon DEF Accept, Abort, Return
<1>3. CASE StartProcessReq(c)
  BY <1>3 DEF StartProcessReq, readEndnameInfo, CallInv, OneCallInv
<1>4. CASE DropRequest(c) \/ Dispatch(c)
  BY <1>4 DEF DropRequest, Dispatch
<1>5. CASE ReceiveReply(c) \/ PollDead(c) \/ TimerFires(c)
  BY <1>5, Zenon DEF ReceiveReply, PollDead, TimerFires
<1>6. CASE ReplyFailure(c) \/ ReplyAnswer(c)
  BY <1>6, Zenon DEF ReplyFailure, ReplyAnswer
<1>7. CASE Handler(c)
  BY <1>7, Zenon DEF Handler, Execute, HandlerReturns, ForwardFails
<1> QED
  BY <1>1, <1>2, <1>3, <1>4, <1>5, <1>6, <1>7, Zenon DEF CallStep, ProcessReq

-----------------------------------------------------------------------------
\* A server that is added gets a pointer no call has seen, and a deleted one
\* leaves nil, which no call that was dispatched holds.
LEMMA AdministerInv ==
  ASSUME TypeOK, CallInv, Administer, UNCHANGED <<dispatching, callVars>>
  PROVE  CallInv'
<1> USE DEF TypeOK, callVars, CallInv, OneCallInv, Snap
<1>1. CASE UNCHANGED <<servers, made>>
  BY <1>1
<1>2. ASSUME NEW s \in ServerName, AddServer(s) PROVE CallInv'
  BY <1>2 DEF AddServer
<1>3. ASSUME NEW s \in ServerName, DeleteServer(s) PROVE CallInv'
  BY <1>3 DEF DeleteServer
<1> QED
  BY <1>1, <1>2, <1>3, Zenon
     DEF Administer, Reliable, LongReordering, LongDelays, MakeEnd, DeleteEnd,
         Connect, Enable, Cleanup

\* A step of one call touches only that call's components of the state.
LEMMA CallStepLocal ==
  ASSUME TypeOK, CallInv, NEW c \in Call, CallStep(c), UNCHANGED netVars,
         NEW d \in Call, d # c
  PROVE  OneCallInv(d)'
<1>1. /\ pc'[d] = pc[d] /\ snap'[d] = snap[d] /\ handler'[d] = handler[d]
      /\ ran'[d] = ran[d] /\ result'[d] = result[d]
  BY DEF TypeOK, CallStep, StartCall, Accept, Abort, ProcessReq, StartProcessReq,
         DropRequest, Dispatch, ReceiveReply, PollDead, ReplyFailure, ReplyAnswer,
         TimerFires, Handler, Execute, HandlerReturns, ForwardFails, Return, Goto
<1> QED BY <1>1, Zenon DEF CallInv, OneCallInv, netVars

\* A step of a call preserves what the invariant says of that call.
LEMMA CallStepOwn ==
  ASSUME TypeOK, CallInv, NEW c \in Call, CallStep(c), UNCHANGED netVars
  PROVE  OneCallInv(c)'
<1> USE DEF TypeOK, CallInv, OneCallInv, netVars, Goto, Snap
<1>1. ASSUME NEW e \in EndName, StartCall(c, e) PROVE OneCallInv(c)'
  BY <1>1 DEF StartCall
<1>2. CASE Accept(c) \/ Abort(c) \/ Return(c)
  BY <1>2 DEF Accept, Abort, Return
<1>3. CASE StartProcessReq(c)
  BY <1>3 DEF StartProcessReq, readEndnameInfo
<1>4. CASE DropRequest(c) \/ Dispatch(c)
  BY <1>4 DEF DropRequest, Dispatch
<1>5. CASE ReceiveReply(c) \/ PollDead(c) \/ TimerFires(c)
  BY <1>5 DEF ReceiveReply, PollDead, TimerFires
<1>6. CASE ReplyFailure(c)
  BY <1>6, Zenon DEF ReplyFailure
<1>7. CASE ReplyAnswer(c)
  BY <1>7 DEF ReplyAnswer, isServerDead
<1>8. CASE Handler(c)
  BY <1>8 DEF Handler, Execute, HandlerReturns, ForwardFails
<1> QED
  BY <1>1, <1>2, <1>3, <1>4, <1>5, <1>6, <1>7, <1>8, Zenon DEF CallStep, ProcessReq

-----------------------------------------------------------------------------
\* An empty network satisfies the invariant.
LEMMA InitInv == Init => TypeOK /\ CallInv
<1> SUFFICES ASSUME Init PROVE TypeOK /\ CallInv
  OBVIOUS
<1>1. NoSnap \in Snap /\ NoSnap.srv = 0
  BY DEF NoSnap, Snap
<1>2. TypeOK
  <2>1. snap \in [Call -> Snap]
    BY <1>1, Zenon DEF Init, InitCalls
  <2>2. made \in Server /\ servers \in [ServerName -> Server]
    BY DEF Init, MakeNetwork
  <2>3. /\ reliable \in BOOLEAN /\ longDelays \in BOOLEAN /\ longReordering \in BOOLEAN
        /\ done \in BOOLEAN /\ dispatching \in BOOLEAN
        /\ ends \subseteq EndName
        /\ enabled \in [EndName -> BOOLEAN]
        /\ connections \in [EndName -> ServerName \cup {Nil}]
    BY Zenon DEF Init, MakeNetwork
  <2>4. /\ pc \in [Call -> PC]
        /\ handler \in [Call -> {"none", "spawned", "ran", "ok", "failed"}]
        /\ ran \in [Call -> {"no", "live", "late"}]
        /\ result \in [Call -> BOOLEAN]
    BY Zenon DEF Init, InitCalls, PC
  <2> QED BY <2>1, <2>2, <2>3, <2>4, Zenon DEF TypeOK
<1>3. CallInv
  BY <1>1 DEF Init, MakeNetwork, InitCalls, CallInv, OneCallInv
<1> QED BY <1>2, <1>3, Zenon

\* Each step of the network preserves it.
LEMMA NextInv ==
  ASSUME TypeOK, CallInv, [Next]_vars
  PROVE  (TypeOK /\ CallInv)'
<1>1. CASE Administer /\ UNCHANGED <<dispatching, callVars>>
  BY <1>1, AdministerType, AdministerInv, Zenon
<1>2. CASE DispatcherExits /\ UNCHANGED netVars
  BY <1>2, Zenon DEF DispatcherExits, netVars, callVars, TypeOK, CallInv, OneCallInv
<1>3. ASSUME NEW c \in Call, CallStep(c), UNCHANGED netVars
      PROVE  (TypeOK /\ CallInv)'
  <2>1. TypeOK'
    BY <1>3, CallStepType, Zenon
  <2>2. \A s \in ServerName : servers'[s] <= made'
    BY <1>3, Zenon DEF netVars, CallInv
  <2>3. ASSUME NEW d \in Call PROVE OneCallInv(d)'
    BY <1>3, CallStepLocal, CallStepOwn, Zenon
  <2> QED BY <2>1, <2>2, <2>3, Zenon DEF CallInv
<1>4. CASE UNCHANGED vars
  BY <1>4 DEF vars, TypeOK, CallInv, OneCallInv
<1> QED BY <1>1, <1>2, <1>3, <1>4, Zenon DEF Next

\* Every run of the network keeps its variables in their types and satisfies
\* the inductive invariant, for any number of calls, ends and servers.
THEOREM Invariance == Spec => [](TypeOK /\ CallInv)
<1>1. Init => TypeOK /\ CallInv
  BY InitInv, Zenon
<1>2. TypeOK /\ CallInv /\ [Next]_vars => (TypeOK /\ CallInv)'
  BY NextInv, Zenon
<1> QED BY <1>1, <1>2, PTL DEF Spec

\* No request executed by a deleted or replaced server is reported as
\* successful: the last isServerDead of processReq is enough.
THEOREM LateNeverSucceedsTheorem == Spec => []LateNeverSucceeds
<1>1. CallInv => LateNeverSucceeds
  BY Zenon DEF CallInv, OneCallInv, LateNeverSucceeds
<1> QED BY <1>1, Invariance, PTL

-----------------------------------------------------------------------------
(* Refinement: the network implements Rpc.                                 *)

\* No call has been made yet.
LEMMA InitRefines == Init => Abstract!Init
  BY Zenon DEF Init, InitCalls, Abstract!Init, Status

\* Only the steps of a call that start it, run its handler or return to the
\* caller are visible to the caller.
LEMMA CallStepRefines ==
  ASSUME TypeOK, CallInv, NEW c \in Call, CallStep(c), UNCHANGED netVars
  PROVE  [Abstract!Next]_(Abstract!vars)
<1> USE DEF TypeOK, Goto
<1> DEFINE stat == [d \in Call |-> Status(d)]
           did == [d \in Call |-> ran[d] # "no"]
<1>1. ASSUME NEW e \in EndName, StartCall(c, e) PROVE Abstract!Issue(c)
  BY <1>1, Zenon DEF StartCall, Abstract!Issue, Status
<1>2. CASE Abort(c)
  <2>1. Abstract!Fail(c)
    BY <1>2, Zenon DEF Abort, Abstract!Fail, Status, CallInv, OneCallInv
  <2> QED BY <2>1, Zenon DEF Abstract!Next
<1>3. CASE Return(c)
  <2>1. CASE result[c]
    <3>1. Abstract!Succeed(c)
      BY <1>3, <2>1, Zenon DEF Return, Abstract!Succeed, Status, CallInv, OneCallInv
    <3> QED BY <3>1, Zenon DEF Abstract!Next
  <2>2. CASE ~ result[c]
    <3>1. Abstract!Fail(c)
      BY <1>3, <2>2, Zenon DEF Return, Abstract!Fail, Status
    <3> QED BY <3>1, Zenon DEF Abstract!Next
  <2> QED BY <2>1, <2>2, Zenon
<1>4. CASE Execute(c)
  <2>1. Abstract!Execute(c)
    BY <1>4, Zenon DEF Execute, Abstract!Execute, Status, CallInv, OneCallInv
  <2> QED BY <2>1, Zenon DEF Abstract!Next
<1>5. CASE HandlerReturns(c) \/ ForwardFails(c)
  BY <1>5 DEF HandlerReturns, ForwardFails, Abstract!vars, Status
<1>6. CASE Accept(c) \/ ProcessReq(c)
  <2>1. /\ UNCHANGED ran
        /\ \A d \in Call : Status(d)' = Status(d)
    BY <1>6 DEF Accept, ProcessReq, StartProcessReq, DropRequest, Dispatch,
                ReceiveReply, PollDead, ReplyFailure, ReplyAnswer, TimerFires, Status
  <2> QED BY <2>1, Zenon DEF Abstract!vars
<1> QED
  BY <1>1, <1>2, <1>3, <1>4, <1>5, <1>6, Zenon DEF CallStep, Handler, Abstract!Next

\* labrpc implements the abstract RPC: Call() returns true only if the handler
\* ran, and no handler runs twice for one call.
THEOREM Refinement == Spec => ImplementsRpc
<1>1. TypeOK /\ CallInv /\ [Next]_vars => [Abstract!Next]_(Abstract!vars)
  <2> SUFFICES ASSUME TypeOK, CallInv, [Next]_vars
               PROVE  [Abstract!Next]_(Abstract!vars)
    OBVIOUS
  <2>1. ASSUME UNCHANGED <<pc, ran, result>> PROVE UNCHANGED Abstract!vars
    BY <2>1, Zenon DEF Abstract!vars, Status
  <2>2. ASSUME NEW c \in Call, CallStep(c), UNCHANGED netVars
        PROVE  [Abstract!Next]_(Abstract!vars)
    BY <2>2, CallStepRefines, Zenon
  <2> QED BY <2>1, <2>2, Zenon DEF Next, callVars, DispatcherExits, vars
<1> QED BY <1>1, InitRefines, Invariance, PTL DEF Spec, ImplementsRpc, Abstract!Spec

-----------------------------------------------------------------------------
(* ServerLife.                                                             *)

USE PeerEndAssumption, TargetAssumption

\* The inductive invariant.
IInv == TypeOK /\ CallInv /\ LifeTypeOK /\ LifeInv

\* Before the first StartServer the invariant holds.
LEMMA LifeInitInv == LifeInit => IInv
<1> SUFFICES ASSUME LifeInit PROVE IInv
  OBVIOUS
<1>1. NoSnap \in Snap /\ NoSnap.srv = 0
  BY DEF NoSnap, Snap
<1>2. TypeOK
  <2>1. snap \in [Call -> Snap]
    BY <1>1, Zenon DEF LifeInit, InitCalls
  <2>2. made \in Server /\ servers \in [ServerName -> Server]
    BY DEF LifeInit
  <2>3. /\ reliable \in BOOLEAN /\ longDelays \in BOOLEAN /\ longReordering \in BOOLEAN
        /\ done \in BOOLEAN /\ dispatching \in BOOLEAN
        /\ ends \subseteq EndName
        /\ enabled \in [EndName -> BOOLEAN]
    BY Zenon DEF LifeInit
  <2>4. connections \in [EndName -> ServerName \cup {Nil}]
    BY Zenon DEF LifeInit
  <2>5. /\ pc \in [Call -> PC]
        /\ handler \in [Call -> {"none", "spawned", "ran", "ok", "failed"}]
        /\ ran \in [Call -> {"no", "live", "late"}]
        /\ result \in [Call -> BOOLEAN]
    BY Zenon DEF LifeInit, InitCalls, PC
  <2> QED BY <2>1, <2>2, <2>3, <2>4, <2>5, Zenon DEF TypeOK
<1>3. CallInv
  BY <1>1 DEF LifeInit, InitCalls, CallInv, OneCallInv
<1>4. LifeTypeOK
  BY DEF LifeInit, LifeTypeOK, Phase
<1>5. LifeInv
  BY Zenon DEF LifeInit, InitCalls, LifeInv, AckedDurable, Installed
<1> QED BY <1>2, <1>3, <1>4, <1>5, Zenon DEF IInv

-----------------------------------------------------------------------------
(* The steps of the tester.                                                *)

\* What LabRpc asks of its maps is kept: the tester only enables ends, adds
\* servers and deletes them.
LEMMA TesterNetwork ==
  ASSUME IInv, NEW s \in ServerName, Tester(s), UNCHANGED <<dispatching, callVars>>
  PROVE  TypeOK' /\ CallInv'
<1> USE DEF IInv
<1>1. ASSUME NEW yes \in BOOLEAN, EnablePeers(s, yes) PROVE TypeOK' /\ CallInv'
  BY <1>1 DEF EnablePeers, TypeOK, callVars, CallInv, OneCallInv
<1>2. CASE UNCHANGED netVars
  BY <1>2 DEF netVars, TypeOK, callVars, CallInv, OneCallInv
<1>3. CASE AddServer(s) \/ DeleteServer(s)
  <2>1. Administer
    BY <1>3, Zenon DEF Administer
  <2> QED BY <2>1, AdministerType, AdministerInv, Zenon
<1> QED
  BY <1>1, <1>2, <1>3, Zenon
     DEF Tester, Boot, Add, ConnectOne, DisconnectAll, Isolate, Delete,
         CheckpointPersister, Kill

\* And they keep what the invariant says of the daemons.
LEMMA TesterLife ==
  ASSUME IInv, NEW s \in ServerName, Tester(s), UNCHANGED <<dispatching, callVars>>
  PROVE  LifeTypeOK' /\ LifeInv'
<1> USE DEF IInv, TypeOK, CallInv, OneCallInv, LifeTypeOK, LifeInv, AckedDurable,
            Durable, Installed, Phase, Advance, callVars, Snap
<1>1. CASE Boot(s)
  BY <1>1, ZenonT(30) DEF Boot, netVars
<1>2. CASE Add(s)
  BY <1>2 DEF Add, AddServer
<1>3. CASE ConnectOne(s) \/ DisconnectAll(s) \/ Isolate(s)
  <2>1. /\ phase[s] \in Installed
        /\ \E p \in Installed : phase' = [phase EXCEPT ![s] = p]
        /\ UNCHANGED <<servers, alive, store, saved>>
    BY <1>3, Zenon DEF ConnectOne, DisconnectAll, Isolate, EnablePeers
  <2> QED BY <2>1
<1>4. CASE Delete(s)
  BY <1>4, Zenon DEF Delete, DeleteServer
<1>5. CASE CheckpointPersister(s)
  BY <1>5, Zenon DEF CheckpointPersister, netVars
<1>6. CASE Kill(s)
  BY <1>6 DEF Kill, netVars
<1> QED BY <1>1, <1>2, <1>3, <1>4, <1>5, <1>6, Zenon DEF Tester

-----------------------------------------------------------------------------
(* The steps of a call.                                                    *)

\* A step of a call preserves the network's invariant.
LEMMA CallNetwork ==
  ASSUME IInv, NEW c \in Call, CallStep(c), UNCHANGED netVars
  PROVE  TypeOK' /\ CallInv'
<1>1. Next
  BY Zenon DEF Next
<1> QED BY <1>1, NextInv, Zenon DEF IInv

\* A step of a call outside the handler leaves the daemons alone.
LEMMA NetworkStepLife ==
  ASSUME IInv, NEW c \in Call, NetworkStep(c)
  PROVE  LifeTypeOK' /\ LifeInv'
<1> USE DEF IInv, TypeOK, CallInv, OneCallInv, LifeTypeOK, LifeInv, AckedDurable,
            Durable, Installed, netVars, lifeVars, Goto, Snap
<1>1. ASSUME NEW e \in EndName, StartCall(c, e), UNCHANGED <<netVars, lifeVars>>
      PROVE  LifeInv'
  BY <1>1 DEF StartCall
<1>2. CASE StartProcessReq(c)
  BY <1>2 DEF NetworkStep, StartProcessReq, readEndnameInfo
<1>3. CASE Accept(c) \/ Return(c) \/ DropRequest(c)
  BY <1>3 DEF NetworkStep, Accept, Return, DropRequest
<1>4. CASE Dispatch(c)
  BY <1>4 DEF NetworkStep, Dispatch
<1>5. CASE ReceiveReply(c) \/ PollDead(c) \/ ReplyFailure(c) \/ TimerFires(c)
  BY <1>5 DEF NetworkStep, ReceiveReply, PollDead, ReplyFailure, TimerFires
<1>6. CASE ReplyAnswer(c)
  <2>1. /\ UNCHANGED <<snap, handler, servers, phase, alive, store, saved>>
        /\ \A d \in Call : d # c => result'[d] = result[d]
        /\ result'[c] = (handler[c] = "ok")
        /\ servers[snap[c].name] = snap[c].srv
        /\ snap[c].name \in ServerName /\ snap[c].srv # NoServer
    BY <1>6 DEF NetworkStep, ReplyAnswer, isServerDead
  <2>2. handler[c] = "ok" => c \in Durable(snap[c].name)
    BY <2>1, ZenonT(30)
  <2> QED BY <2>1, <2>2
<1>7. LifeInv'
  BY <1>1, <1>2, <1>3, <1>4, <1>5, <1>6, Zenon DEF NetworkStep, ProcessReq
<1>8. LifeTypeOK'
  BY Zenon DEF NetworkStep
<1> QED BY <1>7, <1>8, Zenon

\* A handler saves what it executed in the Persister of its daemon.
LEMMA HandlerLife ==
  ASSUME IInv, NEW c \in Call,
         ExecuteInDaemon(c) \/ AnswerArrives(c) \/ ConnectionBreaks(c)
  PROVE  LifeTypeOK' /\ LifeInv'
<1> USE DEF IInv, TypeOK, CallInv, OneCallInv, LifeTypeOK, LifeInv, AckedDurable,
            Durable, Installed, netVars, lifeVars, Snap
<1>1. CASE ExecuteInDaemon(c)
  BY <1>1 DEF ExecuteInDaemon, Execute, DaemonRuns
<1>2. CASE AnswerArrives(c)
  BY <1>2 DEF AnswerArrives, HandlerReturns
<1>3. CASE ConnectionBreaks(c)
  BY <1>3 DEF ConnectionBreaks, ForwardFails
<1> QED BY <1>1, <1>2, <1>3, Zenon

-----------------------------------------------------------------------------
\* The inductive invariant holds in every run: the network and the tester agree
\* on which server object, daemon and Persister are current.
THEOREM LifeInvariance == LifeSpec => []IInv
<1>1. IInv /\ [LifeNext]_allVars => IInv'
  <2> SUFFICES ASSUME IInv, [LifeNext]_allVars PROVE IInv'
    OBVIOUS
  <2>1. ASSUME NEW s \in ServerName, Tester(s), UNCHANGED <<dispatching, callVars>>
        PROVE  IInv'
    BY <2>1, TesterNetwork, TesterLife, Zenon DEF IInv
  <2>2. ASSUME NEW c \in Call, NetworkStep(c) PROVE IInv'
    <3>1. CallStep(c) /\ UNCHANGED netVars
      BY <2>2, Zenon DEF NetworkStep, CallStep
    <3> QED BY <2>2, <3>1, CallNetwork, NetworkStepLife, Zenon DEF IInv
  <2>3. ASSUME NEW c \in Call,
               ExecuteInDaemon(c) \/ AnswerArrives(c) \/ ConnectionBreaks(c)
        PROVE  IInv'
    <3>1. CallStep(c) /\ UNCHANGED netVars
      BY <2>3, Zenon DEF ExecuteInDaemon, AnswerArrives, ConnectionBreaks, CallStep,
                  Handler, netVars
    <3> QED BY <2>3, <3>1, CallNetwork, HandlerLife, Zenon DEF IInv
  <2>4. CASE UNCHANGED allVars
    BY <2>4 DEF allVars, vars, lifeVars, IInv, TypeOK, CallInv, OneCallInv,
                LifeTypeOK, LifeInv, AckedDurable, Durable
  <2> QED BY <2>1, <2>2, <2>3, <2>4, Zenon DEF LifeNext
<1> QED BY <1>1, LifeInitInv, PTL DEF LifeSpec

\* Every update reported as successful survives the crash and the restart of
\* its server (the comment at labrpc.go:338-343), for every interleaving of the
\* shutdown's steps with the calls.
THEOREM AckedDurableTheorem == LifeSpec => []AckedDurable
<1>1. IInv => AckedDurable
  BY Zenon DEF IInv, LifeInv
<1> QED BY <1>1, LifeInvariance, PTL
=============================================================================
