------------------------------- MODULE RaftOne -------------------------------
(***************************************************************************)
(* The calls with which the Raft tests drive the peers and judge them        *)
(* (raft1/test.go): `one' submits a command and polls the copies of RaftCheck *)
(* until enough servers have it; `wait' polls an index for the first command *)
(* there.  A call is a goroutine of the tester; the copies change under it.  *)
(***************************************************************************)
EXTENDS RaftCheck, FiniteSets

ASSUME SrvAssumption == Cardinality(Srv) \in Nat \ {0}

VARIABLES
  call,    \* what the goroutine does, or how its call ended
  cmd,     \* the command submitted, or found
  index,   \* the index Start returned, or to wait for
  need     \* expectedServers

oneVars == <<call, cmd, index, need>>
allVars == <<vars, oneVars>>

\* No call, or one without an answer (-1); a call in progress; an answer; the
\* test was stopped for too few servers, or for what a server applied.
Calls == {"none", "submit", "poll", "wait", "last", "returned", "short", "blamed"}

OneTypeOK ==
  /\ TypeOK
  /\ call \in Calls
  /\ cmd \in Cmd \cup {None} /\ index \in 0..MaxIndex
  /\ need \in 0..Cardinality(Srv)

OneInit ==
  /\ Init
  /\ call = "none" /\ cmd = None /\ index = 0 /\ need = 0

-----------------------------------------------------------------------------
(* nCommitted: how many servers have an entry, and which.  It ends the test  *)
(* at a recorded error or when two entries differ.                           *)

Have(k) == {i \in Srv : logs[i][k] # None}
Blames(k) == (\E i \in Srv : applyErr[i])
             \/ \E i, j \in Have(k) : logs[i][k] # logs[j][k]
Entry(k) == IF Have(k) = {} THEN None ELSE logs[CHOOSE i \in Have(k) : TRUE][k]

\* A call that ends without an answer; what it was about is forgotten.
End(how) == call' = how /\ cmd' = None /\ index' = 0 /\ need' = 0
Answer(c) == call' = "returned" /\ cmd' = c /\ need' = 0 /\ UNCHANGED index
Continue(how) == call' = how /\ UNCHANGED <<cmd, index, need>>
Blame == Blames(index) /\ End("blamed")

-----------------------------------------------------------------------------
(* one(cmd, expectedServers, retry).                                       *)

One(c, n) ==
  /\ call \in {"none", "returned"}
  /\ call' = "submit" /\ cmd' = c /\ need' = n /\ index' = 0

\* The loop over the servers: one of them claims to lead and names an index.  It
\* may be a leader of the past, and the index one that is long committed.
Submit(k) ==
  /\ call = "submit"
  /\ call' = "poll" /\ index' = k
  /\ UNCHANGED <<cmd, need>>

\* Mutant: any command will do.
Agreed_Any == Cardinality(Have(index)) >= need /\ Have(index) # {}

Agreed == Cardinality(Have(index)) >= need /\ Have(index) # {} /\ Entry(index) = cmd

Poll ==
  /\ call = "poll"
  /\ \/ Blame
     \/ ~ Blames(index) /\ Agreed /\ Answer(cmd)

\* Two seconds are over: the command is submitted again or, without retry, the
\* test fails.
PollTimeout ==
  /\ call = "poll"
  /\ End("short") \/ Continue("submit")

\* Ten seconds are over, or the test is (checkFinished).
OneTimeout ==
  /\ call = "submit"
  /\ End("short") \/ End("none")

-----------------------------------------------------------------------------
(* wait(index, n, startTerm).                                              *)

Wait(k, n) ==
  /\ call \in {"none", "returned"}
  /\ call' = "wait" /\ index' = k /\ need' = n /\ cmd' = None

\* The loop ends when there are enough, after 30 rounds, or with a later term.
WaitPoll ==
  /\ call = "wait"
  /\ \/ Blame
     \/ ~ Blames(index) /\ Continue("last")
     \/ ~ Blames(index) /\ Cardinality(Have(index)) < need /\ End("none")

\* nCommitted is asked again, and its answer is the one that counts.
WaitLast ==
  /\ call = "last"
  /\ \/ Blame
     \/ /\ ~ Blames(index)
        /\ IF Cardinality(Have(index)) < need THEN End("short")
           ELSE Answer(Entry(index))

-----------------------------------------------------------------------------
Goroutine == Poll \/ PollTimeout \/ OneTimeout \/ WaitPoll \/ WaitLast

OneNext ==
  \/ Next /\ call \notin {"short", "blamed"} /\ UNCHANGED oneVars
  \/ /\ \/ \E c \in Cmd, n \in 1..Cardinality(Srv) : One(c, n)
        \/ \E k \in Index : Wait(k, Cardinality(Srv))
        \/ \E k \in Index : Submit(k)
        \/ Goroutine
     /\ UNCHANGED vars

OneSpec == OneInit /\ [][OneNext]_allVars

-----------------------------------------------------------------------------
(* Properties.                                                             *)

\* What `one' and `wait' return is committed: although a leader of the past may
\* have named the index, copies are replaced under the poll by servers that
\* restart, and requests come late, the command is at the index.  A correct Raft is
\* blamed only after a late IngestLog (NoFalseAlarm).
OneSound ==
  ~ faulty =>
    /\ call = "blamed" => \E i \in Srv : "IngestLog" \in late[i]
    /\ call = "returned" => index <= commitIndex /\ committed[index] = cmd

=============================================================================
