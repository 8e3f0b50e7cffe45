--------------------------------- MODULE Clnt ---------------------------------
(***************************************************************************)
(* A clerk's connections (tester1/clnts.go): a Clnt makes an end to a server *)
(* when its clerk first calls the server, while the test connects,           *)
(* disconnects and deletes the client from other goroutines.  Each operation *)
(* holds clnt.mu.  Of the network only the entries of the ends are kept.     *)
(***************************************************************************)
EXTENDS FiniteSets

CONSTANT Server

VARIABLES
  ends,      \* clnt.ends: the servers there is an end for
  srvs,      \* clnt.srvs; nil, which allows all servers, is Server
  made,      \* network: the ends that exist
  enabled,   \* network: the names of ends that are enabled
  client     \* is the Clnt in Clnts.clerks?

clntVars == <<ends, srvs, made, enabled, client>>

ClntTypeOK ==
  /\ ends \subseteq Server /\ srvs \subseteq Server
  /\ made \subseteq ends /\ enabled \subseteq ends
  /\ client \in BOOLEAN

\* MakeClient is MakeClientTo(nil).
MakeClientTo(to) ==
  ends = {} /\ srvs = to /\ made = {} /\ enabled = {} /\ client = TRUE

allowedL(s) == s \in srvs

\* Mutant: a new end is enabled in any case.
makeEnd_Enabled(s) ==
  /\ s \notin ends
  /\ ends' = ends \cup {s}
  /\ made' = made \cup {s}
  /\ enabled' = enabled \cup {s}
  /\ UNCHANGED <<srvs, client>>

\* Of Call(s): make the end if need be, connect it to the server, and enable it
\* or not.  A clerk may still call when its client is deleted.
makeEnd(s) ==
  /\ s \notin ends
  /\ ends' = ends \cup {s}
  /\ made' = made \cup {s}
  /\ enabled' = IF allowedL(s) THEN enabled \cup {s} ELSE enabled
  /\ UNCHANGED <<srvs, client>>

\* Mutant: ends that exist stay as they are.
ConnectAll_Lazy ==
  /\ UNCHANGED enabled
  /\ srvs' = Server
  /\ UNCHANGED <<ends, made, client>>

ConnectAll ==
  /\ enabled' = ends
  /\ srvs' = Server
  /\ UNCHANGED <<ends, made, client>>

DisconnectAll ==
  /\ enabled' = {}
  /\ srvs' = {}
  /\ UNCHANGED <<ends, made, client>>

\* remove(), from DeleteClient and Clnts.cleanup: the ends leave the network,
\* and stay in clnt.ends.
DeleteClient ==
  /\ client /\ client' = FALSE
  /\ made' = made \ ends
  /\ enabled' = {}
  /\ UNCHANGED <<ends, srvs>>

ClntInit == \E to \in SUBSET Server : MakeClientTo(to)

\* ConnectTo and Disconnect have no caller in the repository.
ClntNext == (\E s \in Server : makeEnd(s)) \/ ConnectAll \/ DisconnectAll \/ DeleteClient

ClntSpec == ClntInit /\ [][ClntNext]_clntVars

-----------------------------------------------------------------------------
(* Properties.                                                             *)

\* clnts.go:23-25 and 152: the client connects only to the servers in srvs; so
\* no other server has an enabled end, whenever the clerk makes it.
OnlyAllowed == made \cap enabled \subseteq srvs

\* And the clerk is not cut off from a server it is connected to by an end made
\* while it was disconnected.
AllowedConnected == client => ends \cap srvs \subseteq enabled

=============================================================================
