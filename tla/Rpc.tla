-------------------------------- MODULE Rpc --------------------------------
(***************************************************************************)
(* What the caller of a remote procedure call may rely on, whatever        *)
(* carries the call.  labrpc.ClientEnd.Call and demux.DemuxClnt.SendReceive *)
(* both promise this much and no more: a call that reports success was     *)
(* executed, no call is executed twice, and a call that reports failure    *)
(* may have been executed, may never be, or may still be executed later.   *)
(***************************************************************************)

CONSTANT Call    \* the calls that are ever made

VARIABLES
  status,        \* what the caller of each call has seen
  ran            \* has the handler of the call run?

vars == <<status, ran>>

Init ==
  /\ status = [c \in Call |-> "idle"]
  /\ ran = [c \in Call |-> FALSE]

Issue(c) ==
  /\ status[c] = "idle"
  /\ status' = [status EXCEPT ![c] = "pending"]
  /\ UNCHANGED ran

\* The request may reach its handler long after the caller has given up.
Execute(c) ==
  /\ status[c] \in {"pending", "failed"}
  /\ ~ ran[c]
  /\ ran' = [ran EXCEPT ![c] = TRUE]
  /\ UNCHANGED status

Succeed(c) ==
  /\ status[c] = "pending"
  /\ ran[c]
  /\ status' = [status EXCEPT ![c] = "ok"]
  /\ UNCHANGED ran

Fail(c) ==
  /\ status[c] = "pending"
  /\ status' = [status EXCEPT ![c] = "failed"]
  /\ UNCHANGED ran

Next == \E c \in Call : Issue(c) \/ Execute(c) \/ Succeed(c) \/ Fail(c)

Spec == Init /\ [][Next]_vars

=============================================================================
