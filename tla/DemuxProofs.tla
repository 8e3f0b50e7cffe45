---------------------------- MODULE DemuxProofs ----------------------------
(* One connection of the transport, for any number of calls and tags and    *)
(* any capacity of the socket.                                              *)
EXTENDS Demux, TLAPS

USE NilAssumption

\* A direction of the socket: no call has two messages in it.
Good(s) ==
  /\ s \in Seq(Msg)
  /\ \A i, j \in 1..Len(s) : s[i].call = s[j].call => i = j
\* Its messages, and their calls.
Msgs(s) == {s[i] : i \in 1..Len(s)}
Calls(s) == {m.call : m \in Msgs(s)}
\* The next message in it is the InitMsg, which has no call.
Begins(s) == s # <<>> /\ Head(s).call = Nil

\* The socket: the InitMsg comes first, and a reply has the tag of its call.
SockInv ==
  /\ Good(toSrv) /\ Good(toClnt)
  /\ Nil \in Calls(toSrv) => srv = "init"
  /\ srv = "init" /\ srvOpen => Begins(toSrv)
  /\ \A m \in Msgs(toClnt) : m.call \in Call /\ m.tag = tag[m.call]

\* As much of TypeOK as the argument needs.
Shape ==
  /\ nextTag \in Tag /\ tag \in [Call -> Tag] /\ todo \subseteq Tag
  /\ calls \in [Tag -> Call \cup {Nil}] /\ answer \in [Call -> Call \cup {Nil}]
  /\ pc \in [Call -> {"idle", "tagged", "put", "writing", "waiting", "returned"}]
  /\ handler \in [Call -> {"none", "serving", "replying", "done"}]
  /\ ran \in [Call -> BOOLEAN]
  /\ reader \in [does : {"read", "deliver", "failed", "drain", "exited"},
                 call : Call \cup {Nil}, rep : Call \cup {Nil}]

\* A call's request is in the socket, then served, then its reply is: in this
\* order, and once.
Order(c) ==
  /\ c \in Calls(toSrv) => handler[c] = "none"
  /\ c \in Calls(toClnt) => handler[c] = "done"
  /\ c \in Calls(toSrv) \/ handler[c] # "none" => pc[c] \in {"waiting", "returned"}
  /\ ran[c] <=> handler[c] \in {"replying", "done"}
  /\ answer[c] \in {Nil, c} /\ (answer[c] = c => handler[c] = "done")
  /\ pc[c] # "returned" => answer[c] = Nil

\* The reader has not met the end of the connection.
Connected == reader.does = "read" \/ (reader.does = "deliver" /\ reader.rep # Nil)

\* The map: a call that is in it waits, or will, and has its own tag; while the
\* connection is there, a call whose reply may still come is in it.
MapInv(c) ==
  /\ pc[c] \in {"put", "writing", "waiting"} =>
       calls[tag[c]] = c \/ (reader.does = "deliver" /\ reader.call = c)
  /\ \A t \in Tag : calls[t] = c => t = tag[c] /\ pc[c] \in {"put", "writing", "waiting"}
  /\ Connected /\ (c \in Calls(toSrv) \cup Calls(toClnt)
                   \/ handler[c] \in {"serving", "replying"}) =>
       pc[c] = "waiting" /\ calls[tag[c]] = c

\* The reader: what it hands over, and what it has still to fail.
ReaderInv ==
  /\ reader.does = "deliver" =>
       /\ reader.call \in Call
       /\ pc[reader.call] \in {"put", "writing", "waiting"}
       /\ calls[tag[reader.call]] # reader.call
       /\ reader.rep \in {Nil, reader.call}
       /\ reader.rep # Nil => handler[reader.call] = "done"
  /\ \A t \in todo : calls[t] # Nil
  /\ Connected \/ reader.does = "failed" => todo = {}
  /\ ~ fatal

\* Tags of calls that are under way differ.
TagsDiffer == \A c, d \in Call : Pending(c) /\ Pending(d) /\ tag[c] = tag[d] => c = d

\* The inductive invariant.
MInv ==
  /\ Shape /\ SockInv /\ ReaderInv /\ TagsDiffer
  /\ \A c \in Call : Order(c) /\ MapInv(c)

-----------------------------------------------------------------------------
(* Sequences of messages.  The steps of a connection are proved from these   *)
(* lemmas: below, Good, Msgs and Begins are not expanded, and Zenon takes    *)
(* the operations on sequences out of the actions.                           *)

\* Writing a message adds its call.
LEMMA AppendMsg ==
  \A s, m : Good(s) /\ m \in Msg /\ m.call \notin Calls(s) =>
    /\ Good(Append(s, m))
    /\ Msgs(Append(s, m)) = Msgs(s) \cup {m}
    /\ Begins(s) => Begins(Append(s, m))
<1> SUFFICES ASSUME NEW s, NEW m \in Msg, Good(s), m.call \notin Calls(s)
             PROVE  /\ Good(Append(s, m))
                    /\ Msgs(Append(s, m)) = Msgs(s) \cup {m}
                    /\ Begins(s) => Begins(Append(s, m))
  BY Zenon
<1> DEFINE a == Append(s, m)
<1>0. s \in Seq(Msg)
  BY Zenon DEF Good
<1>1. a \in Seq(Msg) /\ Len(a) = Len(s) + 1 /\ Len(s) \in Nat
  BY <1>0
<1>2. a[Len(s) + 1] = m /\ \A i \in 1..Len(s) : a[i] = s[i]
  BY <1>0
<1>3. \A i \in 1..Len(a) : i \in 1..Len(s) \/ i = Len(s) + 1
  BY <1>1
<1>4. 1..Len(s) \subseteq 1..Len(a) /\ Len(s) + 1 \in 1..Len(a)
  BY <1>1
<1>5. s # <<>> => a # <<>> /\ Head(a) = Head(s)
  BY <1>0
<1> HIDE DEF a
<1>6. Msgs(a) = Msgs(s) \cup {m}
  BY <1>2, <1>3, <1>4, Zenon DEF Msgs
<1>7. \A i \in 1..Len(s) : s[i].call # m.call
  BY Zenon DEF Calls, Msgs
<1>8. Good(a)
  BY <1>1, <1>2, <1>3, <1>7, Zenon DEF Good
<1>9. Begins(s) => Begins(a)
  BY <1>5, Zenon DEF Begins
<1> QED BY <1>6, <1>8, <1>9, Zenon DEF a

\* Reading a message takes its call away.
LEMMA TailMsg ==
  \A s : Good(s) /\ s # <<>> =>
    /\ Good(Tail(s)) /\ Head(s) \in Msg /\ Head(s) \in Msgs(s)
    /\ Msgs(Tail(s)) \subseteq Msgs(s)
    /\ Calls(Tail(s)) = Calls(s) \ {Head(s).call}
    /\ Begins(s) => Head(s).call = Nil
<1> SUFFICES ASSUME NEW s, Good(s), s # <<>>
             PROVE  /\ Good(Tail(s)) /\ Head(s) \in Msg /\ Head(s) \in Msgs(s)
                    /\ Msgs(Tail(s)) \subseteq Msgs(s)
                    /\ Calls(Tail(s)) = Calls(s) \ {Head(s).call}
                    /\ Begins(s) => Head(s).call = Nil
  BY Zenon
<1> DEFINE t == Tail(s)
<1>0. s \in Seq(Msg)
  BY Zenon DEF Good
<1>1. Head(s) = s[1] /\ Head(s) \in Msg /\ 1 \in 1..Len(s) /\ t \in Seq(Msg)
  BY <1>0
<1>2. \A i \in 1..Len(t) : i + 1 \in 1..Len(s) /\ i + 1 # 1 /\ t[i] = s[i + 1]
  BY <1>0
<1>3. \A i \in 1..Len(s) : i = 1 \/ \E j \in 1..Len(t) : i = j + 1
  <2> SUFFICES ASSUME NEW i \in 1..Len(s), i # 1
               PROVE  i - 1 \in 1..Len(t) /\ i = (i - 1) + 1
    OBVIOUS
  <2> QED BY <1>0
<1>4. \A i, j \in 1..Len(t) : i + 1 = j + 1 => i = j
  BY <1>0
<1> HIDE DEF t
<1>5. Msgs(t) \subseteq Msgs(s) /\ Head(s) \in Msgs(s)
  BY <1>1, <1>2 DEF Msgs
<1>6. Good(t)
  BY <1>1, <1>2, <1>4 DEF Good
<1>7. Calls(t) = Calls(s) \ {Head(s).call}
  <2>1. ASSUME NEW i \in 1..Len(t) PROVE t[i].call \in Calls(s) \ {Head(s).call}
    BY <1>1, <1>2 DEF Good, Calls, Msgs
  <2>2. ASSUME NEW i \in 1..Len(s), s[i].call # Head(s).call PROVE s[i].call \in Calls(t)
    BY <1>1, <1>2, <1>3, <2>2, ZenonT(30) DEF Calls, Msgs
  <2> QED BY <2>1, <2>2 DEF Calls, Msgs
<1> QED BY <1>1, <1>5, <1>6, <1>7, Zenon DEF t, Begins

\* An empty socket has no calls.
LEMMA NoMsg == Good(<<>>) /\ Msgs(<<>>) = {} /\ Calls(<<>>) = {}
BY DEF Good, Msgs, Calls

\* A socket with one message.
LEMMA OneMsg ==
  \A m \in Msg : Good(<<m>>) /\ Msgs(<<m>>) = {m} /\ (m.call = Nil => Begins(<<m>>))
BY DEF Good, Msgs, Begins

-----------------------------------------------------------------------------
\* The tag wraps around inside its type.
LEMMA NextTag == ASSUME nextTag \in Tag PROVE (nextTag + 1) % TagSpace \in Tag
BY TagSpaceAssumption DEF Tag

\* A connection that was just made has only the InitMsg in it.
LEMMA MInit == Init => MInv
<1> SUFFICES ASSUME Init PROVE MInv
  OBVIOUS
<1> DEFINE m == [tag |-> 0, call |-> Nil]
<1>1. 0 \in Tag /\ 1 % TagSpace \in Tag
  BY TagSpaceAssumption DEF Tag
<1>2. m \in Msg /\ m.call = Nil
  BY <1>1, Zenon DEF Msg
<1>3. toSrv = <<m>> /\ toClnt = <<>>
  BY Zenon DEF Init
<1>e. /\ nextTag = 1 % TagSpace /\ calls = [t \in Tag |-> Nil]
      /\ pc = [c \in Call |-> "idle"] /\ tag = [c \in Call |-> 0]
      /\ answer = [c \in Call |-> Nil] /\ reader = Reading /\ todo = {} /\ fatal = FALSE
      /\ srv = "init" /\ handler = [c \in Call |-> "none"] /\ ran = [c \in Call |-> FALSE]
  BY Zenon DEF Init
<1> HIDE DEF m
<1>4. /\ Good(toSrv) /\ Msgs(toSrv) = {m} /\ Begins(toSrv)
      /\ Good(toClnt) /\ Msgs(toClnt) = {}
  BY <1>2, <1>3, OneMsg, NoMsg, Zenon
<1>5. Calls(toClnt) = {} /\ Calls(toSrv) = {Nil}
  BY <1>2, <1>4, Zenon DEF Calls
<1>6. Shape
  BY <1>1, <1>e, Zenon DEF Shape, Reading
<1>7. SockInv
  BY <1>4, <1>5, <1>e, Zenon DEF SockInv
<1>8. ReaderInv /\ TagsDiffer
  BY <1>e, Zenon DEF ReaderInv, TagsDiffer, Pending, Reading
<1>9. \A c \in Call : Order(c) /\ MapInv(c)
  BY <1>1, <1>5, <1>e, Zenon DEF Order, MapInv, Reading
<1> QED BY <1>6, <1>7, <1>8, <1>9, Zenon DEF MInv

\* dmx.tag(): the tag is taken by no pending call.
LEMMA TakeTagStep ==
  ASSUME MInv, NEW c \in Call, TakeTag(c)
  PROVE  MInv'
<1> USE DEF MInv
<1>1. Shape'
  BY NextTag, Zenon DEF TakeTag, Goto, readerVars, sockVars, srvVars, Shape
<1>2. SockInv'
  <2>1. c \notin Calls(toClnt)
    BY Zenon DEF Order, TakeTag, Goto
  <2>2. \A m \in Msgs(toClnt) : m.call # c
    BY <2>1, Zenon DEF Calls
  <2> QED BY <2>2, Zenon DEF TakeTag, sockVars, srvVars, Shape, SockInv
<1>3. ReaderInv'
  BY Zenon
     DEF TakeTag, Goto, readerVars, sockVars, srvVars, Shape, ReaderInv, Connected,
         Pending
<1>4. TagsDiffer'
  BY DEF TakeTag, Goto, readerVars, sockVars, srvVars, Shape, TagsDiffer, Pending
<1>5. \A d \in Call : Order(d)'
  BY DEF TakeTag, Goto, readerVars, sockVars, srvVars, Shape, Order
<1>6. \A d \in Call : MapInv(d)'
  BY
     DEF TakeTag, Goto, readerVars, sockVars, srvVars, Shape, MapInv, Connected, Pending,
         Order
<1> QED BY <1>1, <1>2, <1>3, <1>4, <1>5, <1>6, Zenon

\* callmap.put.
LEMMA PutStep ==
  ASSUME MInv, NEW c \in Call, Put(c)
  PROVE  MInv'
<1> USE DEF MInv
<1>1. Shape'
  BY DEF Put, Goto, readerVars, sockVars, srvVars, Shape
<1>2. SockInv'
  BY Zenon DEF Put, Goto, readerVars, sockVars, srvVars, SockInv
<1>3. ReaderInv'
  BY
     DEF Put, Goto, readerVars, sockVars, srvVars, Shape, ReaderInv, Connected, MapInv,
         TagsDiffer, Pending
<1>4. TagsDiffer'
  BY DEF Put, Goto, readerVars, sockVars, srvVars, Shape, TagsDiffer, Pending
<1>5. \A d \in Call : Order(d)'
  BY DEF Put, Goto, readerVars, sockVars, srvVars, Shape, Order
<1>6. \A d \in Call : MapInv(d)'
  BY
     DEF Put, Goto, readerVars, sockVars, srvVars, Shape, MapInv, Connected, TagsDiffer,
         Pending, Order
<1> QED BY <1>1, <1>2, <1>3, <1>4, <1>5, <1>6, Zenon

\* A caller takes the lock of the transport.
LEMMA LockStep ==
  ASSUME MInv, NEW c \in Call, LockToWrite(c)
  PROVE  MInv'
<1> USE DEF MInv
<1>1. Shape'
  BY Zenon DEF LockToWrite, Goto, readerVars, sockVars, srvVars, Shape
<1>2. SockInv'
  BY Zenon DEF LockToWrite, Goto, readerVars, sockVars, srvVars, SockInv
<1>3. ReaderInv'
  BY Zenon
     DEF LockToWrite, Goto, readerVars, sockVars, srvVars, Shape, ReaderInv, Connected
<1>4. TagsDiffer'
  BY Zenon
     DEF LockToWrite, Goto, readerVars, sockVars, srvVars, Shape, TagsDiffer, Pending
<1>5. \A d \in Call : Order(d)'
  BY DEF LockToWrite, Goto, readerVars, sockVars, srvVars, Shape, Order
<1>6. \A d \in Call : MapInv(d)'
  BY DEF LockToWrite, Goto, readerVars, sockVars, srvVars, Shape, MapInv, Connected
<1> QED BY <1>1, <1>2, <1>3, <1>4, <1>5, <1>6, Zenon

\* A request enters the socket, or its write fails.
LEMMA WriteCallStep ==
  ASSUME MInv, NEW c \in Call, WriteCall(c)
  PROVE  MInv'
<1> USE DEF MInv
<1> DEFINE m == [tag |-> tag[c], call |-> c]
<1>m. m \in Msg /\ m.call = c
  BY Zenon DEF Shape, Msg
<1>w. UNCHANGED toSrv \/ toSrv' = Append(toSrv, m)
  BY Zenon DEF WriteCall
<1>e. /\ pc[c] = "writing" /\ pc' = [pc EXCEPT ![c] = "waiting"]
      /\ UNCHANGED <<nextTag, calls, tag, answer, reader, todo, fatal, srvOpen, toClnt,
                     srv, handler, ran>>
  BY Zenon DEF WriteCall, Goto, readerVars, srvVars
<1> HIDE DEF m
<1>n. m.call \notin Calls(toSrv) /\ Good(toSrv)
  BY <1>e, <1>m, Zenon DEF Order, SockInv
<1>s. \/ UNCHANGED toSrv
      \/ /\ Good(toSrv') /\ Msgs(toSrv') = Msgs(toSrv) \cup {m}
         /\ Begins(toSrv) => Begins(toSrv')
  <2>1. /\ Good(Append(toSrv, m)) /\ Msgs(Append(toSrv, m)) = Msgs(toSrv) \cup {m}
        /\ Begins(toSrv) => Begins(Append(toSrv, m))
    BY <1>m, <1>n, AppendMsg, Zenon
  <2> QED BY <1>w, <2>1, Zenon
<1>q. Calls(toSrv') \in {Calls(toSrv), Calls(toSrv) \cup {c}}
  BY <1>m, <1>s, Zenon DEF Calls
<1>1. Shape'
  BY <1>e, Zenon DEF Shape
<1>2. SockInv'
  BY <1>e, <1>q, <1>s, Zenon DEF SockInv
<1>3. ReaderInv'
  BY <1>e, Zenon DEF Shape, ReaderInv, Connected
<1>4. TagsDiffer'
  BY <1>e, Zenon DEF Shape, TagsDiffer, Pending
<1>5. \A d \in Call : Order(d)'
  BY <1>e, <1>q DEF Shape, Order
<1>6. \A d \in Call : MapInv(d)'
  BY <1>e, <1>q DEF Shape, MapInv, Connected, ReaderInv, Order
<1> QED BY <1>1, <1>2, <1>3, <1>4, <1>5, <1>6, Zenon

\* The reply read is for a call in the map, which waits for it.
LEMMA ReadReplyStep ==
  ASSUME MInv, ReadReply
  PROVE  MInv'
<1> USE DEF MInv
<1>a. /\ toClnt # <<>> /\ toClnt' = Tail(toClnt)
      /\ IF calls[Head(toClnt).tag] = Nil
         THEN fatal' = TRUE /\ UNCHANGED <<calls, reader>>
         ELSE /\ reader' = [does |-> "deliver", call |-> calls[Head(toClnt).tag],
                            rep |-> Head(toClnt).call]
              /\ calls' = [calls EXCEPT ![Head(toClnt).tag] = Nil]
              /\ UNCHANGED fatal
  BY Zenon DEF ReadReply
<1>e. /\ reader.does = "read"
      /\ UNCHANGED <<nextTag, pc, tag, answer, todo, toSrv, srvOpen, srv, handler, ran>>
  BY Zenon DEF ReadReply, srvVars
<1>g. Good(toClnt)
  BY Zenon DEF SockInv
<1>h. PICK m \in Msgs(toClnt) :
        /\ Good(toClnt') /\ Msgs(toClnt') \subseteq Msgs(toClnt)
        /\ Calls(toClnt') = Calls(toClnt) \ {m.call}
        /\ IF calls[m.tag] = Nil
           THEN fatal' = TRUE /\ UNCHANGED <<calls, reader>>
           ELSE /\ reader' = [does |-> "deliver", call |-> calls[m.tag], rep |-> m.call]
                /\ calls' = [calls EXCEPT ![m.tag] = Nil]
                /\ UNCHANGED fatal
  BY <1>a, <1>g, TailMsg, Zenon
<1> DEFINE r == m.call
<1>r. r \in Call /\ m.tag = tag[r] /\ r \in Calls(toClnt)
  BY Zenon DEF SockInv, Calls
<1>m. calls[tag[r]] = r /\ pc[r] = "waiting" /\ handler[r] = "done"
  BY <1>e, <1>r, Zenon DEF MapInv, Order, Connected
<1>q. /\ reader' = [does |-> "deliver", call |-> r, rep |-> r]
      /\ calls' = [calls EXCEPT ![tag[r]] = Nil] /\ UNCHANGED fatal
      /\ Calls(toClnt') = Calls(toClnt) \ {r}
  BY <1>h, <1>r, <1>m, Zenon
<1> HIDE DEF r
<1>1. Shape'
  BY <1>r, <1>m, <1>e, <1>q, Zenon DEF Shape
<1>2. SockInv'
  BY <1>r, <1>m, <1>e, <1>q, <1>h, Zenon DEF SockInv
<1>3. ReaderInv'
  BY <1>r, <1>m, <1>e, <1>q DEF Shape, ReaderInv, Connected, Order
<1>4. TagsDiffer'
  BY <1>r, <1>m, <1>e, <1>q, Zenon DEF Shape, TagsDiffer, Pending
<1>5. \A d \in Call : Order(d)'
  BY <1>r, <1>m, <1>e, <1>q, Zenon DEF Shape, Order
<1>6. \A d \in Call : MapInv(d)'
  BY <1>r, <1>m, <1>e, <1>q DEF Shape, MapInv, Connected, Order
<1> QED BY <1>1, <1>2, <1>3, <1>4, <1>5, <1>6, Zenon

\* A call is handed its reply, or its failure.
LEMMA DeliverStep ==
  ASSUME MInv, Deliver
  PROVE  MInv'
<1> USE DEF MInv
<1>1. Shape'
  BY Zenon DEF Deliver, Goto, Reading, sockVars, srvVars, Shape
<1>2. SockInv'
  BY Zenon DEF Deliver, Goto, Reading, sockVars, srvVars, SockInv
<1>3. ReaderInv'
  BY Zenon DEF Deliver, Goto, Reading, sockVars, srvVars, Shape, ReaderInv, Connected
<1>4. TagsDiffer'
  BY DEF Deliver, Goto, Reading, sockVars, srvVars, Shape, TagsDiffer, Pending
<1>5. \A d \in Call : Order(d)'
  BY DEF Deliver, Goto, Reading, sockVars, srvVars, Shape, Order, ReaderInv
<1>6. \A d \in Call : MapInv(d)'
  BY
     DEF Deliver, Goto, Reading, sockVars, srvVars, Shape, MapInv, Connected, ReaderInv,
         Order
<1> QED BY <1>1, <1>2, <1>3, <1>4, <1>5, <1>6, Zenon

\* The reader meets the end of the connection.
LEMMA ReadFailsStep ==
  ASSUME MInv, ReadFails
  PROVE  MInv'
<1> USE DEF MInv
<1>e. /\ reader' = [Reading EXCEPT !.does = "failed"] /\ reader.does = "read"
      /\ UNCHANGED <<nextTag, calls, pc, tag, answer, todo, fatal, srvOpen, toSrv, toClnt,
                     srv, handler, ran>>
  BY Zenon DEF ReadFails, sockVars, srvVars
<1>1. Shape'
  BY <1>e, Zenon DEF Reading, Shape
<1>2. SockInv'
  BY <1>e, Zenon DEF Reading, SockInv
<1>3. ReaderInv'
  BY <1>e, Zenon DEF Reading, Shape, ReaderInv, Connected
<1>4. TagsDiffer'
  BY <1>e, Zenon DEF Reading, Shape, TagsDiffer, Pending
<1>5. \A d \in Call : Order(d)'
  BY <1>e, Zenon DEF Reading, Shape, Order
<1>6. \A d \in Call : MapInv(d)'
  BY <1>e DEF Reading, Shape, MapInv, Connected
<1> QED BY <1>1, <1>2, <1>3, <1>4, <1>5, <1>6, Zenon

\* The tags left in the map are to be failed.
LEMMA OutstandingStep ==
  ASSUME MInv, Outstanding
  PROVE  MInv'
<1> USE DEF MInv
<1>1. Shape'
  BY Zenon DEF Outstanding, Reading, clntVars, sockVars, srvVars, Shape
<1>2. SockInv'
  BY Zenon DEF Outstanding, Reading, clntVars, sockVars, srvVars, SockInv
<1>3. ReaderInv'
  BY Zenon
     DEF Outstanding, Reading, clntVars, sockVars, srvVars, Shape, ReaderInv, Connected
<1>4. TagsDiffer'
  BY Zenon
     DEF Outstanding, Reading, clntVars, sockVars, srvVars, Shape, TagsDiffer, Pending
<1>5. \A d \in Call : Order(d)'
  BY Zenon DEF Outstanding, Reading, clntVars, sockVars, srvVars, Shape, Order
<1>6. \A d \in Call : MapInv(d)'
  BY DEF Outstanding, Reading, clntVars, sockVars, srvVars, Shape, MapInv, Connected
<1> QED BY <1>1, <1>2, <1>3, <1>4, <1>5, <1>6, Zenon

\* An outstanding tag still has its call when the reader fails it.
LEMMA FailNextStep ==
  ASSUME MInv, FailNext
  PROVE  MInv'
<1> USE DEF MInv
<1>e. PICK t \in todo :
        /\ calls[t] # Nil /\ todo' = todo \ {t}
        /\ reader' = [does |-> "deliver", call |-> calls[t], rep |-> Nil]
        /\ calls' = [calls EXCEPT ![t] = Nil] /\ UNCHANGED fatal
  BY Zenon DEF FailNext, ReaderInv
<1>t. /\ t \in Tag /\ calls[t] \in Call /\ tag[calls[t]] = t
      /\ pc[calls[t]] \in {"put", "writing", "waiting"}
  BY <1>e DEF Shape, MapInv
<1>f. /\ reader.does = "drain" /\ ~ fatal
      /\ UNCHANGED <<nextTag, pc, tag, answer, toSrv, toClnt, srvOpen, srv, handler, ran>>
  BY Zenon DEF FailNext, sockVars, srvVars
<1>1. Shape'
  BY <1>e, <1>t, <1>f, Zenon DEF Shape
<1>2. SockInv'
  BY <1>e, <1>t, <1>f, Zenon DEF SockInv
<1>3. ReaderInv'
  BY <1>e, <1>t, <1>f, Zenon DEF Shape, ReaderInv, Connected
<1>4. TagsDiffer'
  BY <1>e, <1>t, <1>f DEF Shape, TagsDiffer, Pending
<1>5. \A d \in Call : Order(d)'
  BY <1>e, <1>t, <1>f, Zenon DEF Shape, Order
<1>6. \A d \in Call : MapInv(d)'
  BY <1>e, <1>t, <1>f DEF Shape, MapInv, Connected
<1> QED BY <1>1, <1>2, <1>3, <1>4, <1>5, <1>6, Zenon

\* The reader has failed all outstanding calls.
LEMMA ExitStep ==
  ASSUME MInv, ReaderExits
  PROVE  MInv'
<1> USE DEF MInv
<1>1. Shape'
  BY Zenon DEF ReaderExits, Reading, clntVars, sockVars, srvVars, Shape
<1>2. SockInv'
  BY Zenon DEF ReaderExits, Reading, clntVars, sockVars, srvVars, SockInv
<1>3. ReaderInv'
  BY Zenon
     DEF ReaderExits, Reading, clntVars, sockVars, srvVars, Shape, ReaderInv, Connected
<1>4. TagsDiffer'
  BY Zenon
     DEF ReaderExits, Reading, clntVars, sockVars, srvVars, Shape, TagsDiffer, Pending
<1>5. \A d \in Call : Order(d)'
  BY Zenon DEF ReaderExits, Reading, clntVars, sockVars, srvVars, Shape, Order
<1>6. \A d \in Call : MapInv(d)'
  BY DEF ReaderExits, Reading, clntVars, sockVars, srvVars, Shape, MapInv, Connected
<1> QED BY <1>1, <1>2, <1>3, <1>4, <1>5, <1>6, Zenon

\* DemuxClnt.Close, in its three steps.
LEMMA CloseStep ==
  ASSUME MInv, CheckClosed \/ CloseTrans \/ CloseMap
  PROVE  MInv'
<1> USE DEF MInv
<1>w. UNCHANGED toClnt \/ toClnt' = <<>>
  BY Zenon DEF CheckClosed, CloseTrans, CloseMap, sockVars
<1>e. UNCHANGED <<nextTag, calls, pc, tag, answer, reader, todo, fatal, srvOpen, toSrv, srv,
                  handler, ran>>
  BY Zenon DEF CheckClosed, CloseTrans, CloseMap, clntVars, readerVars, sockVars, srvVars
<1>q. \/ UNCHANGED toClnt
      \/ Good(toClnt') /\ Msgs(toClnt') = {} /\ Calls(toClnt') = {}
  BY <1>w, NoMsg, Zenon
<1>1. Shape'
  BY <1>e, Zenon DEF Shape
<1>2. SockInv'
  BY <1>e, <1>q, Zenon DEF SockInv
<1>3. ReaderInv'
  BY <1>e, Zenon DEF Shape, ReaderInv, Connected
<1>4. TagsDiffer'
  BY <1>e, Zenon DEF Shape, TagsDiffer, Pending
<1>5. \A d \in Call : Order(d)'
  BY <1>e, <1>q, Zenon DEF Shape, Order
<1>6. \A d \in Call : MapInv(d)'
  BY <1>e, <1>q DEF Shape, MapInv, Connected
<1> QED BY <1>1, <1>2, <1>3, <1>4, <1>5, <1>6, Zenon

\* The server takes a request, or the InitMsg, from the socket.
LEMMA SrvReadStep ==
  ASSUME MInv, SrvRead
  PROVE  MInv'
<1> USE DEF MInv
<1>a. /\ toSrv # <<>> /\ toSrv' = Tail(toSrv)
      /\ \/ srv = "init" /\ srv' = "read" /\ UNCHANGED handler
         \/ /\ srv = "read" /\ UNCHANGED srv
            /\ handler' = [handler EXCEPT ![Head(toSrv).call] = "serving"]
  BY Zenon DEF SrvRead
<1>e. srvOpen /\ UNCHANGED <<nextTag, calls, pc, tag, answer, reader, todo, fatal, srvOpen,
                             toClnt, ran>>
  BY Zenon DEF SrvRead, clntVars, readerVars
<1>g. Good(toSrv)
  BY Zenon DEF SockInv
<1>h. PICK m \in Msgs(toSrv) :
        /\ m \in Msg /\ (Begins(toSrv) => m.call = Nil)
        /\ Good(toSrv') /\ Calls(toSrv') = Calls(toSrv) \ {m.call}
        /\ \/ srv = "init" /\ srv' = "read" /\ UNCHANGED handler
           \/ /\ srv = "read" /\ UNCHANGED srv
              /\ handler' = [handler EXCEPT ![m.call] = "serving"]
  BY <1>a, <1>g, TailMsg, Zenon
<1> DEFINE r == m.call
<1>r. r \in Call \cup {Nil} /\ r \in Calls(toSrv)
  BY <1>h, Zenon DEF Msg, Calls
<1>m. /\ srv' = "read" /\ Good(toSrv') /\ Calls(toSrv') = Calls(toSrv) \ {r}
      /\ \/ r = Nil /\ UNCHANGED handler
         \/ r \in Call /\ handler' = [handler EXCEPT ![r] = "serving"]
  BY <1>h, <1>r, <1>e, Zenon DEF SockInv
<1>n. Nil \notin Calls(toSrv')
  BY <1>h, <1>m, <1>r, <1>e, Zenon DEF SockInv
<1> HIDE DEF r
<1>1. Shape'
  BY <1>e, <1>r, <1>m, Zenon DEF Shape
<1>2. SockInv'
  BY <1>e, <1>r, <1>m, <1>n, Zenon DEF SockInv
<1>3. ReaderInv'
  BY <1>e, <1>r, <1>m DEF Shape, ReaderInv, Connected, Order
<1>4. TagsDiffer'
  BY <1>e, <1>r, <1>m, Zenon DEF Shape, TagsDiffer, Pending
<1>5. \A d \in Call : Order(d)'
  BY <1>e, <1>r, <1>m DEF Shape, Order
<1>6. \A d \in Call : MapInv(d)'
  BY <1>e, <1>r, <1>m DEF Shape, MapInv, Connected, Order
<1> QED BY <1>1, <1>2, <1>3, <1>4, <1>5, <1>6, Zenon

\* The server meets the end of the connection.
LEMMA SrvReadFailsStep ==
  ASSUME MInv, SrvReadFails
  PROVE  MInv'
<1> USE DEF MInv
<1>e. /\ srv = "read" /\ srv' = "stopped"
      /\ UNCHANGED <<nextTag, calls, pc, tag, answer, reader, todo, fatal, srvOpen, toSrv,
                     toClnt, handler, ran>>
  BY Zenon DEF SrvReadFails, clntVars, readerVars, sockVars
<1>1. Shape'
  BY <1>e, Zenon DEF Shape
<1>2. SockInv'
  BY <1>e, Zenon DEF SockInv
<1>3. ReaderInv'
  BY <1>e, Zenon DEF Shape, ReaderInv, Connected
<1>4. TagsDiffer'
  BY <1>e, Zenon DEF Shape, TagsDiffer, Pending
<1>5. \A d \in Call : Order(d)'
  BY <1>e, Zenon DEF Shape, Order
<1>6. \A d \in Call : MapInv(d)'
  BY <1>e DEF Shape, MapInv, Connected
<1> QED BY <1>1, <1>2, <1>3, <1>4, <1>5, <1>6, Zenon

\* A request is served.
LEMMA ServeStep ==
  ASSUME MInv, NEW c \in Call, ServeRequest(c)
  PROVE  MInv'
<1> USE DEF MInv
<1>1. Shape'
  <2>1. ran' \in [Call -> BOOLEAN]
    BY Zenon DEF ServeRequest, Shape
  <2> QED BY <2>1, Zenon DEF ServeRequest, clntVars, readerVars, Shape
<1>2. SockInv'
  BY Zenon DEF ServeRequest, clntVars, readerVars, sockVars, SockInv
<1>3. ReaderInv'
  BY Zenon DEF ServeRequest, clntVars, readerVars, sockVars, Shape, ReaderInv, Connected
<1>4. TagsDiffer'
  BY Zenon DEF ServeRequest, clntVars, readerVars, sockVars, Shape, TagsDiffer, Pending
<1>5. \A d \in Call : Order(d)'
  <2>1. ran'[c] /\ \A d \in Call \ {c} : ran'[d] = ran[d]
    BY Zenon DEF ServeRequest, Shape
  <2> QED BY <2>1 DEF ServeRequest, clntVars, sockVars, Shape, Order
<1>6. \A d \in Call : MapInv(d)'
  BY DEF ServeRequest, clntVars, readerVars, sockVars, Shape, MapInv, Connected
<1> QED BY <1>1, <1>2, <1>3, <1>4, <1>5, <1>6, Zenon

\* A reply enters the socket with the tag of its call.
LEMMA WriteReplyStep ==
  ASSUME MInv, NEW c \in Call, WriteReply(c)
  PROVE  MInv'
<1> USE DEF MInv
<1> DEFINE m == [tag |-> tag[c], call |-> c]
<1>m. m \in Msg /\ m.call = c /\ m.tag = tag[c]
  BY Zenon DEF Shape, Msg
<1>w. UNCHANGED toClnt \/ toClnt' = Append(toClnt, m)
  BY Zenon DEF WriteReply
<1>e. /\ handler[c] = "replying" /\ handler' = [handler EXCEPT ![c] = "done"]
      /\ UNCHANGED <<nextTag, calls, pc, tag, answer, reader, todo, fatal, srvOpen, toSrv,
                     srv, ran>>
  BY ZenonT(30) DEF WriteReply, clntVars, readerVars
<1> HIDE DEF m
<1>n. m.call \notin Calls(toClnt) /\ Good(toClnt)
  BY <1>e, <1>m, Zenon DEF Order, SockInv
<1>s. \/ UNCHANGED toClnt
      \/ Good(toClnt') /\ Msgs(toClnt') = Msgs(toClnt) \cup {m}
  <2>1. Good(Append(toClnt, m)) /\ Msgs(Append(toClnt, m)) = Msgs(toClnt) \cup {m}
    BY <1>m, <1>n, AppendMsg, ZenonT(30)
  <2> QED BY <1>w, <2>1, Zenon
<1>q. Calls(toClnt') \in {Calls(toClnt), Calls(toClnt) \cup {c}}
  BY <1>m, <1>s, Zenon DEF Calls
<1>1. Shape'
  BY <1>e, Zenon DEF Shape
<1>2. SockInv'
  BY <1>e, <1>m, <1>s, Zenon DEF SockInv
<1>3. ReaderInv'
  BY <1>e, Zenon DEF Shape, ReaderInv, Connected
<1>4. TagsDiffer'
  BY <1>e, Zenon DEF Shape, TagsDiffer, Pending
<1>5. \A d \in Call : Order(d)'
  BY <1>e, <1>q DEF Shape, Order
<1>6. \A d \in Call : MapInv(d)'
  BY <1>e, <1>q DEF Shape, MapInv, Connected, Order
<1> QED BY <1>1, <1>2, <1>3, <1>4, <1>5, <1>6, Zenon

\* The server's process is killed.
LEMMA SrvDiesStep ==
  ASSUME MInv, SrvDies
  PROVE  MInv'
<1> USE DEF MInv
<1>w. toSrv' = <<>>
  BY Zenon DEF SrvDies
<1>e. /\ srvOpen' = FALSE
      /\ UNCHANGED <<nextTag, calls, pc, tag, answer, reader, todo, fatal, toClnt, srv,
                     handler, ran>>
  BY Zenon DEF SrvDies, clntVars, readerVars, srvVars
<1>q. Good(toSrv') /\ Calls(toSrv') = {}
  BY <1>w, NoMsg, Zenon
<1>1. Shape'
  BY <1>e, <1>q, Zenon DEF Shape
<1>2. SockInv'
  BY <1>e, <1>q, Zenon DEF SockInv
<1>3. ReaderInv'
  BY <1>e, <1>q, Zenon DEF Shape, ReaderInv, Connected
<1>4. TagsDiffer'
  BY <1>e, <1>q, Zenon DEF Shape, TagsDiffer, Pending
<1>5. \A d \in Call : Order(d)'
  BY <1>e, <1>q, Zenon DEF Shape, Order
<1>6. \A d \in Call : MapInv(d)'
  BY <1>e, <1>q DEF Shape, MapInv, Connected
<1> QED BY <1>1, <1>2, <1>3, <1>4, <1>5, <1>6, Zenon

\* Each step of a connection preserves the invariant.
LEMMA MInductive == MInv /\ [Next]_vars => MInv'
<1> SUFFICES ASSUME MInv, [Next]_vars PROVE MInv'
  OBVIOUS
<1>1. ASSUME NEW c \in Call, SendReceive(c) \/ ServeRequest(c) \/ WriteReply(c) PROVE MInv'
  BY <1>1, TakeTagStep, PutStep, LockStep, WriteCallStep, ServeStep, WriteReplyStep, Zenon
     DEF SendReceive
<1>2. CASE Reader
  BY <1>2, ReadReplyStep, DeliverStep, ReadFailsStep, OutstandingStep, FailNextStep,
     ExitStep, Zenon
     DEF Reader
<1>3. CASE CheckClosed \/ CloseTrans \/ CloseMap
  BY <1>3, CloseStep, Zenon
<1>4. CASE SrvRead \/ SrvReadFails \/ SrvDies
  BY <1>4, SrvReadStep, SrvReadFailsStep, SrvDiesStep, Zenon
<1>5. CASE UNCHANGED vars
  <2> USE <1>5 DEF MInv, vars, clntVars, readerVars, sockVars, srvVars
  <2>1. Shape'
    BY Zenon DEF Shape
  <2>2. SockInv'
    BY Zenon DEF SockInv
  <2>3. ReaderInv'
    BY Zenon DEF ReaderInv, Connected
  <2>4. TagsDiffer'
    BY Zenon DEF TagsDiffer, Pending
  <2>5. \A d \in Call : Order(d)'
    BY Zenon DEF Order
  <2>6. \A d \in Call : MapInv(d)'
    BY DEF MapInv, Connected
  <2> QED BY <2>1, <2>2, <2>3, <2>4, <2>5, <2>6, Zenon
<1> QED BY <1>1, <1>2, <1>3, <1>4, <1>5, Zenon DEF Next

\* The inductive invariant holds in every state of a connection.
THEOREM MInvAlways == Spec => []MInv
BY MInit, MInductive, PTL DEF Spec

\* dmxclnt.go:61-63: the reader never meets a tag without a call.
THEOREM NoUnmatchedReplyTheorem == Spec => []NoUnmatchedReply
<1>1. MInv => NoUnmatchedReply
  BY Zenon DEF MInv, ReaderInv, NoUnmatchedReply
<1> QED BY <1>1, MInvAlways, PTL

\* dmxclnt.go:1-2: a call is handed its own reply or none.
THEOREM OwnReplyTheorem == Spec => []OwnReply
<1>1. MInv => OwnReply
  BY Zenon DEF MInv, ReaderInv, Order, OwnReply
<1> QED BY <1>1, MInvAlways, PTL

-----------------------------------------------------------------------------
(* Refinement: a connection implements Rpc.                                *)

\* No call has been made yet.
LEMMA InitRefines == Init => Abstract!Init
<1> SUFFICES ASSUME Init PROVE Abstract!Init
  OBVIOUS
<1>1. pc = [c \in Call |-> "idle"] /\ ran = [c \in Call |-> FALSE]
  BY Zenon DEF Init
<1> QED BY <1>1, Zenon DEF Abstract!Init, Status

\* The caller sees a call start, its request run and SendReceive return.
LEMMA StepRefines ==
  ASSUME MInv, [Next]_vars
  PROVE  [Abstract!Next]_(Abstract!vars)
<1> USE DEF MInv, Shape, Goto
<1>1. ASSUME NEW c \in Call, TakeTag(c) PROVE Abstract!Issue(c)
  BY <1>1, Zenon DEF TakeTag, srvVars, Abstract!Issue, Status
<1>2. ASSUME NEW c \in Call, Put(c)
      PROVE  Abstract!Fail(c) \/ UNCHANGED Abstract!vars
  <2>1. CASE closed
    <3>1. pc[c] = "tagged" /\ answer[c] = Nil
      BY <1>2, Zenon DEF Put, Order
    <3>2. pc' = [pc EXCEPT ![c] = "returned"] /\ UNCHANGED <<answer, ran>>
      BY <1>2, <2>1, Zenon DEF Put, srvVars
    <3> QED BY <3>1, <3>2, Zenon DEF Abstract!Fail, Status
  <2>2. CASE ~ closed
    <3>1. UNCHANGED ran /\ \A d \in Call : Status(d)' = Status(d)
      BY <1>2, <2>2 DEF Put, srvVars, Status
    <3> QED BY <3>1 DEF Abstract!vars
  <2> QED BY <2>1, <2>2, Zenon
<1>3. ASSUME NEW c \in Call, LockToWrite(c) \/ WriteCall(c) PROVE UNCHANGED Abstract!vars
  <2>1. /\ pc[c] \in {"put", "writing"} /\ UNCHANGED <<answer, ran>>
        /\ pc' = [pc EXCEPT ![c] = "writing"] \/ pc' = [pc EXCEPT ![c] = "waiting"]
    BY <1>3, Zenon DEF LockToWrite, WriteCall, srvVars
  <2>2. \A d \in Call : Status(d)' = Status(d)
    BY <2>1 DEF Status
  <2> QED BY <2>1, <2>2 DEF Abstract!vars
<1>4. ASSUME NEW c \in Call, ServeRequest(c) PROVE Abstract!Execute(c)
  <2>1. pc[c] \in {"waiting", "returned"} /\ answer[c] = Nil /\ ~ ran[c]
    BY <1>4, Zenon DEF ServeRequest, Order
  <2>2. UNCHANGED <<pc, answer>> /\ ran' = [ran EXCEPT ![c] = TRUE]
    BY <1>4, Zenon DEF ServeRequest, clntVars
  <2>3. [d \in Call |-> Status(d)][c] \in {"pending", "failed"}
    BY <2>1, Zenon DEF Status
  <2>4. UNCHANGED [d \in Call |-> Status(d)]
    BY <2>2, Zenon DEF Status
  <2> QED BY <2>1, <2>2, <2>3, <2>4, Zenon DEF Abstract!Execute
<1>5. CASE Deliver
  <2> DEFINE c == reader.call
  <2>1. c \in Call /\ pc[c] = "waiting" /\ reader.rep \in {Nil, c}
        /\ (reader.rep = c => ran[c])
    BY <1>5 DEF Deliver, ReaderInv, Order
  <2>2. /\ UNCHANGED ran
        /\ pc' = [pc EXCEPT ![c] = "returned"]
        /\ answer' = [answer EXCEPT ![c] = reader.rep]
    BY <1>5, Zenon DEF Deliver, srvVars
  <2> HIDE DEF c
  <2>3. CASE reader.rep = Nil
    <3>1. Abstract!Fail(c)
      BY <2>1, <2>2, <2>3, Zenon DEF Abstract!Fail, Status
    <3> QED BY <2>1, <3>1, Zenon DEF Abstract!Next
  <2>4. CASE reader.rep = c
    <3>1. Abstract!Succeed(c)
      BY <2>1, <2>2, <2>4, Zenon DEF Abstract!Succeed, Status
    <3> QED BY <2>1, <3>1, Zenon DEF Abstract!Next
  <2> QED BY <2>1, <2>3, <2>4, Zenon
<1>6. ASSUME UNCHANGED <<pc, answer, ran>> PROVE UNCHANGED Abstract!vars
  BY <1>6, Zenon DEF Abstract!vars, Status
<1>7. ASSUME NEW c \in Call, WriteReply(c) PROVE UNCHANGED <<pc, answer, ran>>
  BY <1>7, Zenon DEF WriteReply, clntVars
<1>8. CASE ReadReply \/ ReadFails \/ Outstanding \/ FailNext \/ ReaderExits
  <2>1. UNCHANGED <<pc, answer, ran>>
    BY <1>8, Zenon DEF ReadReply, ReadFails, Outstanding, FailNext, ReaderExits,
                       clntVars, srvVars
  <2> QED BY <1>6, <2>1, Zenon
<1>9. CASE \/ CheckClosed \/ CloseTrans \/ CloseMap
           \/ SrvRead \/ SrvReadFails \/ SrvDies \/ UNCHANGED vars
  <2>1. UNCHANGED <<pc, answer, ran>>
    BY <1>9, Zenon DEF CheckClosed, CloseTrans, CloseMap, SrvRead, SrvReadFails, SrvDies,
                       vars, clntVars, srvVars
  <2> QED BY <1>6, <2>1, Zenon
<1> QED
  BY <1>1, <1>2, <1>3, <1>4, <1>5, <1>6, <1>7, <1>8, <1>9, Zenon
     DEF Next, SendReceive, Reader, Abstract!Next

\* A connection implements the abstract RPC: SendReceive returns a reply only
\* if the request was served, and no request is served twice.
THEOREM Refinement == Spec => ImplementsRpc
BY StepRefines, InitRefines, MInvAlways, PTL DEF Spec, ImplementsRpc, Abstract!Spec
=============================================================================
