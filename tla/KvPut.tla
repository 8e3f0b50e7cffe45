-------------------------------- MODULE KvPut --------------------------------
(***************************************************************************)
(* Clients racing to put to one key (kvtest1/kvtest.go): OneClientPut,       *)
(* SpawnClientsAndWait and CheckPutConcurrent, on a correct service or on    *)
(* one that loses a Put.                                                     *)
(***************************************************************************)
EXTENDS KvModel, FiniteSets

CONSTANTS
  Client,       \* clients
  Nobody,
  MaxVersion,   \* bound: no new Put is tried from this version on
  Lossy         \* may the service acknowledge a Put and forget it, once?

ASSUME NobodyAssumption == Nobody \notin Client
ASSUME LossyAssumption == Lossy \in BOOLEAN
ASSUME MaxAssumption == MaxVersion \in Nat

VARIABLES
  reliable, \* does the test run on a reliable network?
  st,       \* KvState of the key; its Value is an EntryV
  lost,     \* did the service lose a Put?
  pc,       \* where each client is: "select", "put", "get", "failed", "return", "gone"
  ver,      \* its verm[k]
  err,      \* what its last Put returned
  res,      \* its ClntRes
  main,     \* where the test is: "sleep", "signal", "collect", "done"
  signals,  \* `done' signals sent
  rs,       \* the clients whose results were collected
  fatal     \* has the test failed?

vars == <<reliable, st, lost, pc, ver, err, res, main, signals, rs, fatal>>

EntryV == [Id : Client, V : Nat]
Empty == [Id |-> Nobody, V |-> 0]
ClntRes == [Nok : Nat, Nmaybe : Nat]

TypeOK ==
  /\ reliable \in BOOLEAN
  /\ st \in [Value : EntryV \cup {Empty}, Version : Nat]
  /\ lost \in BOOLEAN
  /\ pc \in [Client -> {"select", "put", "get", "failed", "return", "gone"}]
  /\ ver \in [Client -> Nat]
  /\ err \in [Client -> {"OK", "ErrVersion", "ErrMaybe"}]
  /\ res \in [Client -> ClntRes]
  /\ main \in {"sleep", "signal", "collect", "done"}
  /\ signals \in Nat
  /\ rs \subseteq Client
  /\ fatal \in BOOLEAN

Init ==
  /\ reliable \in BOOLEAN
  /\ st = [Value |-> Empty, Version |-> 0]
  /\ lost = FALSE
  /\ pc = [c \in Client |-> "select"]
  /\ ver = [c \in Client |-> 0]
  /\ err = [c \in Client |-> "OK"]
  /\ res = [c \in Client |-> [Nok |-> 0, Nmaybe |-> 0]]
  /\ main = "sleep" /\ signals = 0 /\ rs = {}
  /\ fatal = FALSE

service == <<reliable, st, lost>>
clients == <<pc, ver, err, res>>
test == <<main, signals, rs>>

-----------------------------------------------------------------------------
(* A client: runClient, OneClientPut, OnePut.                              *)

\* The default case of the select.
NextPut(c) ==
  /\ pc[c] = "select" /\ st.Version < MaxVersion
  /\ pc' = [pc EXCEPT ![c] = "put"]
  /\ UNCHANGED <<service, ver, err, res, test, fatal>>

PutJson(c) ==
  /\ pc[c] = "put"
  /\ \E e \in PutErrs(st, ver[c], reliable) :
       /\ err' = [err EXCEPT ![c] = e]
       /\ st' \in PutStates(st, [Id |-> c, V |-> ver[c]], ver[c], e,
                          Lossy /\ ~ lost)
       /\ lost' = (lost \/ (st.Version = ver[c] /\ st' = st))
  /\ pc' = [pc EXCEPT ![c] = "get"]
  /\ UNCHANGED <<reliable, ver, res, test, fatal>>

\* Mutant: the version after the Put is expected in the value.
WrongValue_Next(c, e) == e.Id # c \/ e.V # ver[c] + 1

\* The wrong value of OnePut, with its conjunction: the owner and the version
\* are both wrong.
WrongValue(c, e) == e.Id # c /\ e.V # ver[c]

\* Mutant: the retry after ErrVersion keeps the old version.
GetJson_Stale(c) ==
  /\ pc[c] = "get"
  /\ IF \/ st.Version = 0
        \/ err[c] = "OK" /\ st.Version = ver[c] + 1 /\ WrongValue(c, st.Value)
     THEN /\ fatal' = TRUE /\ pc' = [pc EXCEPT ![c] = "failed"]
          /\ UNCHANGED <<ver, err, res>>
     ELSE /\ ver' = IF err[c] = "ErrVersion" THEN ver ELSE [ver EXCEPT ![c] = st.Version]
          /\ pc' = [pc EXCEPT ![c] = IF err[c] = "ErrVersion" THEN "put" ELSE "select"]
          /\ res' = CASE err[c] = "OK" -> [res EXCEPT ![c].Nok = @ + 1]
                      [] err[c] = "ErrMaybe" -> [res EXCEPT ![c].Nmaybe = @ + 1]
                      [] OTHER -> res
          /\ UNCHANGED <<err, fatal>>
  /\ UNCHANGED <<service, test>>

\* GetJson and the rest of the iteration.  No value yet: the test fails.
\* Fatalf ends the goroutine that calls it, and none other.
GetJson(c) ==
  /\ pc[c] = "get"
  /\ IF \/ st.Version = 0
        \/ err[c] = "OK" /\ st.Version = ver[c] + 1 /\ WrongValue(c, st.Value)
     THEN /\ fatal' = TRUE /\ pc' = [pc EXCEPT ![c] = "failed"]
          /\ UNCHANGED <<ver, err, res>>
     ELSE /\ ver' = [ver EXCEPT ![c] = st.Version]
          /\ pc' = [pc EXCEPT ![c] = IF err[c] = "ErrVersion" THEN "put" ELSE "select"]
          /\ res' = CASE err[c] = "OK" -> [res EXCEPT ![c].Nok = @ + 1]
                      [] err[c] = "ErrMaybe" -> [res EXCEPT ![c].Nmaybe = @ + 1]
                      [] OTHER -> res
          /\ UNCHANGED <<err, fatal>>
  /\ UNCHANGED <<service, test>>

-----------------------------------------------------------------------------
(* The test: SpawnClientsAndWait, CheckPutConcurrent.                      *)

\* time.Sleep(t), over at any point of the clients' Puts.
WakeUp ==
  /\ main = "sleep" /\ main' = "signal"
  /\ UNCHANGED <<service, clients, signals, rs, fatal>>

\* done <- struct{}{}: any client at its select takes the signal, and leaves.
Signal(c) ==
  /\ main = "signal" /\ signals < Cardinality(Client)
  /\ pc[c] = "select"
  /\ pc' = [pc EXCEPT ![c] = "return"]
  /\ signals' = signals + 1
  /\ main' = IF signals' = Cardinality(Client) THEN "collect" ELSE "signal"
  /\ UNCHANGED <<service, ver, err, res, rs, fatal>>

\* rs[cli] = <-ca[cli], for cli = 0, 1, ...; the order makes no difference.
Collect(c) ==
  /\ main = "collect" /\ pc[c] = "return"
  /\ pc' = [pc EXCEPT ![c] = "gone"]
  /\ rs' = rs \cup {c}
  /\ UNCHANGED <<service, ver, err, res, main, signals, fatal>>

\* The sum of f[c] over the c in S, counted.
Pairs(S, f) == UNION {{[by |-> c, nr |-> n] : n \in 1..f[c]} : c \in S}
Total(S, f) == Cardinality(Pairs(S, f))

Nok == Total(rs, [c \in rs |-> res[c].Nok])
Nmaybe == Total(rs, [c \in rs |-> res[c].Nmaybe])

\* Mutant: too few Puts are taken for right.
WrongNumber_Above ==
  st.Version > Nok + Nmaybe

WrongNumber == IF reliable THEN st.Version # Nok ELSE st.Version > Nok + Nmaybe

CheckPutConcurrent ==
  /\ main = "collect" /\ rs = Client /\ main' = "done"
  /\ fatal' = (fatal \/ st.Version = 0 \/ WrongNumber)
  /\ UNCHANGED <<service, clients, signals, rs>>

Finished == main = "done" /\ UNCHANGED vars

Next ==
  \/ \E c \in Client : NextPut(c) \/ PutJson(c) \/ GetJson(c) \/ Signal(c) \/ Collect(c)
  \/ WakeUp \/ CheckPutConcurrent \/ Finished

\* Goroutines run.  Once the test waits in `done <- ...', the next client at its
\* select takes the signal, for Go prefers a ready case to the default.
Fairness ==
  /\ WF_vars(WakeUp) /\ WF_vars(CheckPutConcurrent)
  /\ \A c \in Client :
       /\ WF_vars(NextPut(c)) /\ WF_vars(PutJson(c)) /\ WF_vars(GetJson(c))
       /\ SF_vars(Signal(c)) /\ WF_vars(Collect(c))

Spec == Init /\ [][Next]_vars
FairSpec == Spec /\ Fairness

-----------------------------------------------------------------------------
(* Properties.                                                             *)

\* A correct service passes: no error, no missing key, no wrong value, and the
\* numbers of Puts agree, whatever the interleaving of the clients.  Only a test
\* that was over before the first Put fails, in the end, for want of the key.
CorrectPasses == ~ lost /\ fatal => main = "done" /\ st.Version = 0

\* A lost Put is noticed on a reliable network: the version falls behind the
\* number of acknowledged Puts for good.
LossNoticed == reliable /\ lost /\ main = "done" => fatal

\* The client that put last finds its own value, both its parts (OnePut tests
\* that not both are wrong).
OwnValue ==
  \A c \in Client :
    ~ lost /\ pc[c] = "get" /\ err[c] = "OK" /\ st.Version = ver[c] + 1
      => st.Value = [Id |-> c, V |-> ver[c]]

\* With a correct service the test ends: each client takes one signal, and none
\* is left without.
TestEnds == <>(main = "done" \/ lost)

\* kvtest.go:153: "a client runs the function f and then signals it is done", so
\* that SpawnClientsAndWait gets the result of every client, whatever the checks
\* in f found.
ClientsSignal == main = "signal" ~> rs = Client

=============================================================================
