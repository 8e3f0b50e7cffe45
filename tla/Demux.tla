------------------------------- MODULE Demux -------------------------------
(***************************************************************************)
(* One connection of the tester's transport (tester1/demux and sockrpc):    *)
(* many goroutines of a process make calls over one socket, and tags match  *)
(* the replies with the calls.  It carries every request that the tester    *)
(* forwards to a daemon and every request a daemon sends to the tester.     *)
(* The client side is DemuxClnt with its callMap and its reader goroutine;  *)
(* the server side is DemuxSrv, which serves each request in a goroutine of *)
(* its own.  The socket holds a bounded number of messages per direction.   *)
(***************************************************************************)
EXTENDS Integers, Sequences

CONSTANTS
  Call,       \* calls of SendReceive, one goroutine each
  Nil,        \* no call
  TagSpace,   \* number of values of Ttag: 2^32 in the code
  Cap         \* messages the socket buffers in each direction

ASSUME NilAssumption == Nil \notin Call
ASSUME TagSpaceAssumption == TagSpace \in Nat \ {0}
ASSUME CapAssumption == Cap \in Nat \ {0}

Tag == 0..TagSpace-1

VARIABLES
  nextTag,    \* DemuxClnt.nextTag
  mu,         \* the call that holds DemuxClnt.mu, or Nil
  closed,     \* callMap.closed
  calls,      \* callMap.calls: the call whose channel waits for a tag, or Nil
  pc,         \* where each SendReceive is
  tag,        \* the tag of each call
  answer,     \* what each call got: Nil, or the call its reply was made for
  reader,     \* the client's reader: what it does, and the reply it holds
  todo,       \* the outstanding tags the reader has still to fail
  fatal,      \* the reader met a reply with "no matching req"
  closer,     \* where DemuxClnt.Close is
  clntOpen,   \* the client's end of the socket is open
  srvOpen,    \* the server's end of the socket is open
  toSrv, toClnt,   \* messages in the socket
  srv,        \* DemuxSrv: reading the InitMsg, reading calls, or stopped
  handler,    \* the goroutine serving each call
  ran         \* has ServeRequest run for the call?

clntVars == <<nextTag, mu, closed, calls, pc, tag, answer>>
readerVars == <<reader, todo, fatal>>
sockVars == <<clntOpen, srvOpen, toSrv, toClnt>>
srvVars == <<srv, handler, ran>>
vars == <<clntVars, readerVars, closer, sockVars, srvVars>>

Msg == [tag : Tag, call : Call \cup {Nil}]
Reading == [does |-> "read", call |-> Nil, rep |-> Nil]

TypeOK ==
  /\ nextTag \in Tag
  /\ mu \in Call \cup {Nil}
  /\ closed \in BOOLEAN
  /\ calls \in [Tag -> Call \cup {Nil}]
  /\ pc \in [Call -> {"idle", "tagged", "put", "writing", "waiting", "returned"}]
  /\ tag \in [Call -> Tag]
  /\ answer \in [Call -> Call \cup {Nil}]
  /\ reader \in [does : {"read", "deliver", "failed", "drain", "exited"},
                 call : Call \cup {Nil}, rep : Call \cup {Nil}]
  /\ todo \subseteq Tag
  /\ fatal \in BOOLEAN
  /\ closer \in {"idle", "checked", "closing", "done"}
  /\ clntOpen \in BOOLEAN /\ srvOpen \in BOOLEAN
  /\ toSrv \in Seq(Msg) /\ toClnt \in Seq(Msg)
  /\ Len(toSrv) <= Cap /\ Len(toClnt) <= Cap
  /\ srv \in {"init", "read", "stopped"}
  /\ handler \in [Call -> {"none", "serving", "replying", "done"}]
  /\ ran \in [Call -> BOOLEAN]

-----------------------------------------------------------------------------
(* The client.                                                             *)

\* NewDemuxClnt: the first tag goes to the InitMsg, which gets no reply.
Init ==
  /\ nextTag = 1 % TagSpace
  /\ mu = Nil
  /\ closed = FALSE
  /\ calls = [t \in Tag |-> Nil]
  /\ pc = [c \in Call |-> "idle"]
  /\ tag = [c \in Call |-> 0]
  /\ answer = [c \in Call |-> Nil]
  /\ reader = Reading
  /\ todo = {}
  /\ fatal = FALSE
  /\ closer = "idle"
  /\ clntOpen = TRUE /\ srvOpen = TRUE
  /\ toSrv = <<[tag |-> 0, call |-> Nil]>> /\ toClnt = <<>>
  /\ srv = "init"
  /\ handler = [c \in Call |-> "none"]
  /\ ran = [c \in Call |-> FALSE]

Goto(c, from, to) ==
  /\ pc[c] = from
  /\ pc' = [pc EXCEPT ![c] = to]

Pending(c) == pc[c] \notin {"idle", "returned"}

\* Mutant: the tag is not incremented.
TakeTag_Same(c) ==
  /\ mu = Nil
  /\ Goto(c, "idle", "tagged")
  /\ tag' = [tag EXCEPT ![c] = nextTag]
  /\ nextTag' = nextTag
  /\ UNCHANGED <<mu, closed, calls, answer, readerVars, closer, sockVars, srvVars>>

\* dmx.tag().  The tag wraps around; fewer than 2^32 calls are made while one
\* is outstanding, so the tag is not one of a pending call.
TakeTag(c) ==
  /\ mu = Nil
  /\ \A d \in Call : Pending(d) => tag[d] # nextTag
  /\ Goto(c, "idle", "tagged")
  /\ tag' = [tag EXCEPT ![c] = nextTag]
  /\ nextTag' = (nextTag + 1) % TagSpace
  /\ UNCHANGED <<mu, closed, calls, answer, readerVars, closer, sockVars, srvVars>>

\* Mutant: put does not look whether the map is closed.
Put_Always(c) ==
  /\ Goto(c, "tagged", "put")
  /\ calls' = [calls EXCEPT ![tag[c]] = c]
  /\ UNCHANGED <<nextTag, mu, closed, tag, answer, readerVars, closer, sockVars,
                 srvVars>>

\* callmap.put, and the early return when the map is closed.
Put(c) ==
  /\ \/ /\ closed
        /\ Goto(c, "tagged", "returned")
        /\ UNCHANGED calls
     \/ /\ ~ closed
        /\ Goto(c, "tagged", "put")
        /\ calls' = [calls EXCEPT ![tag[c]] = c]
  /\ UNCHANGED <<nextTag, mu, closed, tag, answer, readerVars, closer, sockVars,
                 srvVars>>

LockToWrite(c) ==
  /\ mu = Nil
  /\ Goto(c, "put", "writing")
  /\ mu' = c
  /\ UNCHANGED <<nextTag, closed, calls, tag, answer, readerVars, closer, sockVars,
                 srvVars>>

\* Mutant: the lock is not released.
WriteCall_Holds(c) ==
  /\ Goto(c, "writing", "waiting")
  /\ \/ /\ clntOpen /\ srvOpen /\ Len(toSrv) < Cap
        /\ toSrv' = Append(toSrv, [tag |-> tag[c], call |-> c])
     \/ /\ ~ (clntOpen /\ srvOpen)
        /\ UNCHANGED toSrv
  /\ mu' = mu
  /\ UNCHANGED <<nextTag, closed, calls, tag, answer, readerVars, closer,
                 clntOpen, srvOpen, toClnt, srvVars>>

\* WriteCall waits while the socket is full.  It fails when an end is closed;
\* SendReceive listens for the reply "regardless of error status".
WriteCall(c) ==
  /\ Goto(c, "writing", "waiting")
  /\ \/ /\ clntOpen /\ srvOpen /\ Len(toSrv) < Cap
        /\ toSrv' = Append(toSrv, [tag |-> tag[c], call |-> c])
     \/ /\ ~ (clntOpen /\ srvOpen)
        /\ UNCHANGED toSrv
  /\ mu' = Nil
  /\ UNCHANGED <<nextTag, closed, calls, tag, answer, readerVars, closer,
                 clntOpen, srvOpen, toClnt, srvVars>>

SendReceive(c) == TakeTag(c) \/ Put(c) \/ LockToWrite(c) \/ WriteCall(c)

\* The reader reads a reply and removes its call from the map.
ReadReply ==
  /\ reader.does = "read" /\ ~ fatal
  /\ clntOpen /\ toClnt # <<>>
  /\ LET m == Head(toClnt) IN
     /\ toClnt' = Tail(toClnt)
     /\ IF calls[m.tag] = Nil
        THEN fatal' = TRUE /\ UNCHANGED <<calls, reader>>
        ELSE /\ reader' = [does |-> "deliver", call |-> calls[m.tag], rep |-> m.call]
             /\ calls' = [calls EXCEPT ![m.tag] = Nil]
             /\ UNCHANGED fatal
  /\ UNCHANGED <<nextTag, mu, closed, pc, tag, answer, todo, closer, clntOpen,
                 srvOpen, toSrv, srvVars>>

\* ch <- reply: the channel is unbuffered, so the reader waits until the
\* goroutine of the call receives.
Deliver ==
  /\ reader.does = "deliver"
  /\ LET c == reader.call IN
     /\ Goto(c, "waiting", "returned")
     /\ answer' = [answer EXCEPT ![c] = reader.rep]
  /\ reader' = [Reading EXCEPT !.does = IF reader.rep = Nil THEN "drain" ELSE "read"]
  /\ UNCHANGED <<nextTag, mu, closed, calls, tag, todo, fatal, closer, sockVars,
                 srvVars>>

\* ReadCall fails: the client's end is closed, or the server's is and every
\* reply it sent has been read.
ReadFails ==
  /\ reader.does = "read" /\ ~ fatal
  /\ ~ clntOpen \/ (~ srvOpen /\ toClnt = <<>>)
  /\ closed' = TRUE
  /\ reader' = [Reading EXCEPT !.does = "failed"]
  /\ UNCHANGED <<nextTag, mu, calls, pc, tag, answer, todo, fatal, closer, sockVars,
                 srvVars>>

\* Mutant: tags without a call count as outstanding.
Outstanding_All ==
  /\ reader.does = "failed"
  /\ todo' = Tag
  /\ reader' = [Reading EXCEPT !.does = "drain"]
  /\ UNCHANGED <<clntVars, fatal, closer, sockVars, srvVars>>

Outstanding ==
  /\ reader.does = "failed"
  /\ todo' = {t \in Tag : calls[t] # Nil}
  /\ reader' = [Reading EXCEPT !.does = "drain"]
  /\ UNCHANGED <<clntVars, fatal, closer, sockVars, srvVars>>

\* dmx.reply(t, nil, false, ...) for each outstanding tag, in any order.
FailNext ==
  /\ reader.does = "drain" /\ ~ fatal
  /\ \E t \in todo :
       /\ todo' = todo \ {t}
       /\ IF calls[t] = Nil
          THEN fatal' = TRUE /\ UNCHANGED <<calls, reader>>
          ELSE /\ reader' = [does |-> "deliver", call |-> calls[t], rep |-> Nil]
               /\ calls' = [calls EXCEPT ![t] = Nil]
               /\ UNCHANGED fatal
  /\ UNCHANGED <<nextTag, mu, closed, pc, tag, answer, closer, sockVars, srvVars>>

ReaderExits ==
  /\ reader.does = "drain" /\ todo = {}
  /\ reader' = [Reading EXCEPT !.does = "exited"]
  /\ UNCHANGED <<clntVars, todo, fatal, closer, sockVars, srvVars>>

Reader == ReadReply \/ Deliver \/ ReadFails \/ Outstanding \/ FailNext \/ ReaderExits

\* DemuxClnt.Close: isClosed, trans.Close and callmap.close.
CheckClosed ==
  /\ closer = "idle"
  /\ closer' = IF closed THEN "done" ELSE "checked"
  /\ UNCHANGED <<clntVars, readerVars, sockVars, srvVars>>

CloseTrans ==
  /\ closer = "checked"
  /\ closer' = "closing"
  /\ clntOpen' = FALSE
  /\ toClnt' = <<>>
  /\ UNCHANGED <<clntVars, readerVars, srvOpen, toSrv, srvVars>>

CloseMap ==
  /\ closer = "closing"
  /\ closer' = "done"
  /\ closed' = TRUE
  /\ UNCHANGED <<nextTag, mu, calls, pc, tag, answer, readerVars, sockVars, srvVars>>

-----------------------------------------------------------------------------
(* The server.                                                             *)

\* NewDemuxSrv reads the InitMsg, then its reader starts a goroutine for each
\* request.
SrvRead ==
  /\ srvOpen /\ toSrv # <<>>
  /\ toSrv' = Tail(toSrv)
  /\ \/ srv = "init" /\ srv' = "read" /\ UNCHANGED handler
     \/ /\ srv = "read" /\ UNCHANGED srv
        /\ handler' = [handler EXCEPT ![Head(toSrv).call] = "serving"]
  /\ UNCHANGED <<clntVars, readerVars, closer, clntOpen, srvOpen, toClnt, ran>>

\* The client is gone: io.EOF, or a reset.
SrvReadFails ==
  /\ srvOpen /\ srv = "read"
  /\ ~ clntOpen /\ toSrv = <<>>
  /\ srv' = "stopped"
  /\ UNCHANGED <<clntVars, readerVars, closer, sockVars, handler, ran>>

ServeRequest(c) ==
  /\ srvOpen /\ handler[c] = "serving"
  /\ handler' = [handler EXCEPT ![c] = "replying"]
  /\ ran' = [ran EXCEPT ![c] = TRUE]
  /\ UNCHANGED <<clntVars, readerVars, closer, sockVars, srv>>

\* Mutant: the reply need not wait for the request to be served.
WriteReply_Early(c) ==
  /\ srvOpen /\ handler[c] \in {"serving", "replying"}
  /\ \/ /\ clntOpen /\ Len(toClnt) < Cap
        /\ toClnt' = Append(toClnt, [tag |-> tag[c], call |-> c])
     \/ ~ clntOpen /\ UNCHANGED toClnt
  /\ handler' = [handler EXCEPT ![c] = "done"]
  /\ UNCHANGED <<clntVars, readerVars, closer, clntOpen, srvOpen, toSrv, srv, ran>>

\* WriteCall of the reply, under DemuxSrv.mu; it waits while the socket is full.
WriteReply(c) ==
  /\ srvOpen /\ handler[c] = "replying"
  /\ \/ /\ clntOpen /\ Len(toClnt) < Cap
        /\ toClnt' = Append(toClnt, [tag |-> tag[c], call |-> c])
     \/ ~ clntOpen /\ UNCHANGED toClnt
  /\ handler' = [handler EXCEPT ![c] = "done"]
  /\ UNCHANGED <<clntVars, readerVars, closer, clntOpen, srvOpen, toSrv, srv, ran>>

\* The server's process is killed, as daemons are.  What it has written can
\* still be read.
SrvDies ==
  /\ srvOpen
  /\ srvOpen' = FALSE
  /\ toSrv' = <<>>
  /\ UNCHANGED <<clntVars, readerVars, closer, clntOpen, toClnt, srvVars>>

-----------------------------------------------------------------------------
Next ==
  \/ \E c \in Call : SendReceive(c) \/ ServeRequest(c) \/ WriteReply(c)
  \/ Reader
  \/ CheckClosed \/ CloseTrans \/ CloseMap
  \/ SrvRead \/ SrvReadFails \/ SrvDies

Spec == Init /\ [][Next]_vars

\* Every goroutine that can run does; the mutex is fair in that a caller does
\* not wait for it forever.  Nothing is assumed of ServeRequest here, nor of
\* whether and when an end is closed.
FairSpec ==
  /\ Spec
  /\ WF_vars(Reader) /\ WF_vars(SrvRead) /\ WF_vars(CloseTrans) /\ WF_vars(CloseMap)
  /\ \A c \in Call :
       /\ WF_vars(Put(c)) /\ SF_vars(LockToWrite(c)) /\ WF_vars(WriteCall(c))
       /\ WF_vars(WriteReply(c))

-----------------------------------------------------------------------------
(* Properties.                                                             *)

\* dmxclnt.go:61-63: the reader never meets a reply, or an outstanding tag,
\* without a call that waits for it, although it takes calls out of the map in
\* two places, the tags wrap around and Close races with it.
NoUnmatchedReply == ~ fatal

\* dmxclnt.go:1-2: the tags match "responses with requests": the reply that a
\* call is handed was made for that call.
OwnReply ==
  /\ \A c \in Call : answer[c] \in {Nil, c}
  /\ reader.does = "deliver" => reader.rep \in {Nil, reader.call}

\* What the caller of SendReceive sees.
Status(c) ==
  CASE pc[c] = "idle" -> "idle"
    [] pc[c] = "returned" -> IF answer[c] = Nil THEN "failed" ELSE "ok"
    [] OTHER -> "pending"

Abstract == INSTANCE Rpc WITH
              status <- [c \in Call |-> Status(c)]

\* A connection implements the same abstract RPC as the simulated network: a
\* reply only for a request that ran, and no request runs twice.
ImplementsRpc == Abstract!Spec

\* dmxclnt.go:96-98: every SendReceive returns if the requests are served, with
\* the socket full in both directions, and with an end closed at any moment.
RequestsServed == \A c \in Call : WF_vars(ServeRequest(c))
SendReceiveReturns ==
  RequestsServed => \A c \in Call : Pending(c) ~> pc[c] = "returned"

\* Once the connection is gone, no SendReceive waits for a server: not one that
\* was in the map, nor one that was about to enter it.
ClosedReleases ==
  \A c \in Call : (Pending(c) /\ ~ (clntOpen /\ srvOpen)) ~> pc[c] = "returned"

=============================================================================
