---------------------------- MODULE KvTestProofs ----------------------------
(* What the tests of a key/value service rest on: a clerk's connections (Clnt), *)
(* the check of concurrent Puts (KvPut) and the annotations of the faults      *)
(* (Annotation), for any servers, clients and bounds.                        *)
EXTENDS Clnt, KvPut, Annotation, FiniteSetTheorems, TLAPS

-----------------------------------------------------------------------------
(* Clnt.                                                                   *)

\* Both properties, with the types, are inductive.
ClntInv == ClntTypeOK /\ OnlyAllowed /\ AllowedConnected

\* A client that was just made satisfies the invariant.
LEMMA ClntStarts == ClntInit => ClntInv
BY Zenon DEF ClntInit, MakeClientTo, ClntInv, ClntTypeOK, OnlyAllowed, AllowedConnected

\* Each operation on a client preserves the invariant.
LEMMA ClntInductive == ClntInv /\ [ClntNext]_clntVars => ClntInv'
<1> SUFFICES ASSUME ClntInv, [ClntNext]_clntVars PROVE ClntInv'
  OBVIOUS
<1> USE DEF ClntInv, ClntTypeOK, OnlyAllowed, AllowedConnected
\* An end made now is in no set of the network yet: ClntTypeOK is needed.
<1>1. ASSUME NEW s \in Server, makeEnd(s) PROVE ClntInv'
  BY <1>1, Zenon DEF makeEnd, allowedL
<1>2. CASE ConnectAll
  BY <1>2, Zenon DEF ConnectAll
<1>3. CASE DisconnectAll
  BY <1>3, Zenon DEF DisconnectAll
<1>4. CASE DeleteClient
  BY <1>4, Zenon DEF DeleteClient
<1>5. CASE UNCHANGED clntVars
  BY <1>5, Zenon DEF clntVars
<1> QED BY <1>1, <1>2, <1>3, <1>4, <1>5, Zenon DEF ClntNext

\* The invariant holds in every state.
LEMMA ClntAlways == ClntSpec => []ClntInv
BY ClntStarts, ClntInductive, PTL DEF ClntSpec

\* clnts.go, Call and DisconnectAll: whatever the order in which the clerk makes
\* ends and the test connects, disconnects and deletes the client, no end that
\* the network knows is enabled for a server outside srvs.
THEOREM OnlyAllowedTheorem == ClntSpec => []OnlyAllowed
<1>1. ClntInv => OnlyAllowed
  BY Zenon DEF ClntInv
<1> QED BY <1>1, ClntAlways, PTL

\* clnts.go, ConnectAll: an end made while the clerk was cut off is enabled when
\* it is connected again.
THEOREM AllowedConnectedTheorem == ClntSpec => []AllowedConnected
<1>1. ClntInv => AllowedConnected
  BY Zenon DEF ClntInv
<1> QED BY <1>1, ClntAlways, PTL

-----------------------------------------------------------------------------
(* KvPut.                                                                  *)

\* The elements counted by Total.
LEMMA PairsMember ==
  ASSUME NEW S, NEW f, NEW x
  PROVE  x \in Pairs(S, f) <=> \E c \in S : \E n \in 1..f[c] : x = [by |-> c, nr |-> n]
  BY DEF Pairs

\* Nothing is counted when every number is 0.
LEMMA PairsEmpty ==
  ASSUME NEW S, NEW f, \A c \in S : f[c] = 0
  PROVE  IsFiniteSet(Pairs(S, f)) /\ Total(S, f) = 0
<1>1. \A c \in S : 1..f[c] = {}
  OBVIOUS
<1>2. Pairs(S, f) = {}
  BY <1>1, PairsMember
<1> QED BY <1>2, FS_EmptySet, Zenon DEF Total

\* g is f with one number greater by one.
OneMore(S, f, g) ==
  \E c \in S : f[c] \in Nat /\ g[c] = f[c] + 1 /\ \A d \in S : d # c => g[d] = f[d]

\* A number that grows by one makes the sum grow by one.
LEMMA PairsAdd ==
  ASSUME NEW S, NEW f, NEW g, OneMore(S, f, g), IsFiniteSet(Pairs(S, f))
  PROVE  IsFiniteSet(Pairs(S, g)) /\ Total(S, g) = Total(S, f) + 1
<1>0. PICK c \in S : f[c] \in Nat /\ g[c] = f[c] + 1 /\ \A d \in S : d # c => g[d] = f[d]
  BY Zenon DEF OneMore
<1> DEFINE new == [by |-> c, nr |-> g[c]]
<1>1. \A n : n \in 1..g[c] <=> n \in 1..f[c] \/ n = g[c]
  BY <1>0
<1>2. g[c] \notin 1..f[c]
  BY <1>0
<1>3. Pairs(S, g) = Pairs(S, f) \cup {new}
  <2>1. ASSUME NEW x \in Pairs(S, g) PROVE x \in Pairs(S, f) \cup {new}
    <3>0. PICK d \in S : \E n \in 1..g[d] : x = [by |-> d, nr |-> n]
      BY <2>1, PairsMember
    <3>1. PICK n \in 1..g[d] : x = [by |-> d, nr |-> n]
      BY <3>0, Zenon
    <3>2. CASE d # c
      <4>1. n \in 1..f[d]
        BY <1>0, <3>1, <3>2, Zenon
      <4> QED BY <3>1, <4>1, PairsMember
    <3>3. CASE d = c
      <4>1. n \in 1..f[c] \/ n = g[c]
        BY <1>1, <3>1, <3>3, Zenon
      <4> QED BY <3>1, <3>3, <4>1, PairsMember
    <3> QED BY <3>2, <3>3, Zenon
  <2>2. ASSUME NEW x \in Pairs(S, f) PROVE x \in Pairs(S, g)
    <3>0. PICK d \in S : \E n \in 1..f[d] : x = [by |-> d, nr |-> n]
      BY <2>2, PairsMember
    <3>1. PICK n \in 1..f[d] : x = [by |-> d, nr |-> n]
      BY <3>0, Zenon
    <3>2. n \in 1..g[d]
      BY <1>0, <1>1, <3>1, Zenon
    <3> QED BY <3>1, <3>2, PairsMember
  <2>3. new \in Pairs(S, g)
    <3>1. g[c] \in 1..g[c]
      BY <1>1, Zenon
    <3> QED BY <3>1, PairsMember
  <2> QED BY <2>1, <2>2, <2>3, Zenon
<1>4. new \notin Pairs(S, f)
  <2>1. ASSUME NEW d \in S, NEW n \in 1..f[d], new = [by |-> d, nr |-> n] PROVE FALSE
    <3>1. d = c /\ n = g[c]
      BY <2>1
    <3> QED BY <1>2, <2>1, <3>1, Zenon
  <2> QED BY <2>1, PairsMember
<1> HIDE DEF new
<1>5. /\ IsFiniteSet(Pairs(S, f) \cup {new})
      /\ Cardinality(Pairs(S, f) \cup {new}) = Cardinality(Pairs(S, f)) + 1
  BY <1>4, FS_AddElement, Zenon
<1> QED BY <1>3, <1>5, Zenon DEF Total

\* Numbers that stay leave the sum.
LEMMA PairsSame ==
  ASSUME NEW S, NEW f, NEW g, \A c \in S : g[c] = f[c]
  PROVE  Pairs(S, g) = Pairs(S, f)
<1>1. \A x : x \in Pairs(S, g) <=> x \in Pairs(S, f)
  BY PairsMember
<1> QED BY <1>1, Zenon

\* A sum is a number.
LEMMA TotalType ==
  ASSUME NEW S, NEW f, IsFiniteSet(Pairs(S, f)) PROVE Total(S, f) \in Nat
  BY FS_CardinalityType, Zenon DEF Total

-----------------------------------------------------------------------------
(* The Puts that were answered, counted by the client or not yet.           *)

\* The Puts acknowledged to each client, and those that may have been done.
acked == [c \in Client |->
            res[c].Nok + (IF pc[c] = "get" /\ err[c] = "OK" THEN 1 ELSE 0)]
tried == [c \in Client |->
            res[c].Nmaybe + (IF pc[c] = "get" /\ err[c] = "ErrMaybe" THEN 1 ELSE 0)]

\* What is known of a client.
ClientInv(c) ==
  /\ pc[c] = "failed" => fatal
  /\ ver[c] <= st.Version
  /\ reliable => err[c] # "ErrMaybe"
  /\ c \in rs => pc[c] = "gone"
  /\ ~ lost =>
       /\ pc[c] = "get" => st.Version # 0
       /\ pc[c] = "get" /\ err[c] = "OK" => ver[c] < st.Version

\* And of the test.
MainInv == main = "done" => rs = Client

\* The version counts the Puts: exactly those acknowledged on a reliable network,
\* but for the lost one, and no more than those answered on an unreliable one.
SumInv ==
  ~ fatal =>
    /\ IsFiniteSet(Pairs(Client, acked)) /\ IsFiniteSet(Pairs(Client, tried))
    /\ reliable => Total(Client, acked) = st.Version + (IF lost THEN 1 ELSE 0)
    /\ ~ reliable /\ ~ lost => st.Version <= Total(Client, acked) + Total(Client, tried)

\* The inductive invariant.
PutInv == /\ TypeOK /\ (\A c \in Client : ClientInv(c)) /\ MainInv /\ SumInv
          /\ CorrectPasses /\ LossNoticed /\ OwnValue

\* The fields of the variables.
LEMMA PutTypes ==
  ASSUME TypeOK
  PROVE  /\ st.Version \in Nat
         /\ \A c \in Client :
              /\ ver[c] \in Nat /\ res[c].Nok \in Nat /\ res[c].Nmaybe \in Nat
              /\ res[c] = [Nok |-> res[c].Nok, Nmaybe |-> res[c].Nmaybe]
<1>1. st.Version \in Nat
  BY DEF TypeOK
<1>2. ASSUME NEW c \in Client
      PROVE  /\ ver[c] \in Nat /\ res[c].Nok \in Nat /\ res[c].Nmaybe \in Nat
             /\ res[c] = [Nok |-> res[c].Nok, Nmaybe |-> res[c].Nmaybe]
  <2>1. ver[c] \in Nat /\ res[c] \in ClntRes
    BY Zenon DEF TypeOK
  <2> QED BY <2>1 DEF ClntRes
<1> QED BY <1>1, <1>2, Zenon

\* Steps that answer no Put leave the sums.
LEMMA SumsKept ==
  ASSUME SumInv, \A c \in Client : acked'[c] = acked[c] /\ tried'[c] = tried[c],
         UNCHANGED <<reliable, st, lost>>, fatal => fatal'
  PROVE  SumInv'
<1>1. /\ Pairs(Client, acked)' = Pairs(Client, acked)
      /\ Pairs(Client, tried)' = Pairs(Client, tried)
  <2>1. /\ Pairs(Client, acked') = Pairs(Client, acked)
        /\ Pairs(Client, tried') = Pairs(Client, tried)
    BY PairsSame, Zenon
  <2> QED BY <2>1, Zenon DEF Pairs
<1>2. /\ Total(Client, acked)' = Total(Client, acked)
      /\ Total(Client, tried)' = Total(Client, tried)
  BY <1>1, Zenon DEF Total
<1> QED BY <1>1, <1>2, Zenon DEF SumInv

\* A step that makes no Put and reads none.
LEMMA QuietKeeps ==
  ASSUME PutInv, UNCHANGED <<reliable, st, lost, ver, err, res>>,
         pc' \in [Client -> {"select", "put", "get", "failed", "return", "gone"}],
         \A c \in Client : \/ pc'[c] = pc[c]
                           \/ pc[c] # "get" /\ pc'[c] \notin {"get", "failed"},
         main' \in {"sleep", "signal", "collect", "done"}, signals' \in Nat,
         rs' \subseteq Client, \A c \in rs' : pc'[c] = "gone",
         fatal' \in BOOLEAN, fatal => fatal'
  PROVE  TypeOK' /\ (\A c \in Client : ClientInv(c)') /\ SumInv' /\ OwnValue'
<1>1. TypeOK'
  BY Zenon DEF PutInv, TypeOK, EntryV, Empty, ClntRes
<1>2. ASSUME NEW c \in Client PROVE ClientInv(c)'
  <2>1. ClientInv(c)
    BY Zenon DEF PutInv
  <2> QED BY <2>1, Zenon DEF ClientInv
<1>3. \A c \in Client : acked'[c] = acked[c] /\ tried'[c] = tried[c]
  <2>1. \A c \in Client : (pc[c] = "get" <=> pc'[c] = "get") /\ res'[c] = res[c]
                          /\ err'[c] = err[c]
    BY Zenon
  <2> QED BY <2>1, Zenon DEF acked, tried
<1>4. SumInv'
  BY <1>3, SumsKept, Zenon DEF PutInv
<1>5. OwnValue'
  BY Zenon DEF PutInv, OwnValue
<1> QED BY <1>1, <1>2, <1>4, <1>5, Zenon

\* A Put and its answer: on another version than the key's it is refused, or may
\* have been; else it is done, or lost.
PutDone(c, e) ==
  /\ err' = [err EXCEPT ![c] = e] /\ pc' = [pc EXCEPT ![c] = "get"]
  /\ e \in {"OK", "ErrVersion", "ErrMaybe"} /\ (reliable => e # "ErrMaybe")
  /\ \/ st.Version # ver[c] /\ e # "OK" /\ UNCHANGED <<st, lost>>
     \/ /\ st.Version = ver[c] /\ e # "ErrVersion" /\ lost' = lost
        /\ st' = [Value |-> [Id |-> c, V |-> ver[c]], Version |-> ver[c] + 1]
     \/ st.Version = ver[c] /\ e = "OK" /\ st' = st /\ ~ lost /\ lost' = TRUE

\* PutJson is one of these.
LEMMA PutEffect ==
  ASSUME TypeOK, NEW c \in Client, PutJson(c) PROVE \E e : PutDone(c, e)
<1>1. PICK e \in PutErrs(st, ver[c], reliable) :
        /\ err' = [err EXCEPT ![c] = e]
        /\ st' \in PutStates(st, [Id |-> c, V |-> ver[c]], ver[c], e, Lossy /\ ~ lost)
        /\ lost' = (lost \/ (st.Version = ver[c] /\ st' = st))
  BY Zenon DEF PutJson
<1>2. pc' = [pc EXCEPT ![c] = "get"]
  BY Zenon DEF PutJson
<1>3. /\ e \in {"OK", "ErrVersion", "ErrMaybe"} /\ (reliable => e # "ErrMaybe")
      /\ e # (IF st.Version = ver[c] THEN "ErrVersion" ELSE "OK")
  BY <1>1, Zenon DEF PutErrs
<1>4. CASE st.Version # ver[c]
  <2>1. st' = st
    BY <1>1, <1>4, Zenon DEF PutStates
  <2>2. lost' = lost
    BY <1>1, <1>4, Zenon DEF TypeOK
  <2>3. e # "OK"
    BY <1>3, <1>4, Zenon
  <2> QED BY <1>1, <1>2, <1>3, <1>4, <2>1, <2>2, <2>3, Zenon DEF PutDone
<1>5. CASE st.Version = ver[c]
  <2> DEFINE new == [Value |-> [Id |-> c, V |-> ver[c]], Version |-> ver[c] + 1]
  <2>1. st' = new \/ (st' = st /\ ~ lost /\ e = "OK")
    BY <1>1, <1>5, Zenon DEF PutStates
  <2>2. e # "ErrVersion"
    BY <1>3, <1>5, Zenon
  <2>3. CASE st' = new
    <3>1. st'.Version = ver[c] + 1
      BY <2>3
    <3>2. st' # st
      BY <1>5, <3>1, PutTypes
    <3>3. lost' = lost
      BY <1>1, <3>2, Zenon DEF TypeOK
    <3> QED BY <1>1, <1>2, <1>3, <1>5, <2>2, <2>3, <3>3, Zenon DEF PutDone
  <2>4. CASE st' = st /\ ~ lost /\ e = "OK"
    <3>1. lost' = TRUE
      BY <1>1, <1>5, <2>4, Zenon
    <3> QED BY <1>1, <1>2, <1>3, <1>5, <2>4, <3>1, Zenon DEF PutDone
  <2> QED BY <2>1, <2>3, <2>4, Zenon
<1> QED BY <1>4, <1>5, Zenon

\* What a Put counts for.
LEMMA PutCounts ==
  ASSUME PutInv, ~ fatal, NEW c \in Client, NEW e, PutDone(c, e), pc[c] = "put",
         UNCHANGED res
  PROVE  /\ IsFiniteSet(Pairs(Client, acked))' /\ IsFiniteSet(Pairs(Client, tried))'
         /\ Total(Client, acked)' = Total(Client, acked) + (IF e = "OK" THEN 1 ELSE 0)
         /\ Total(Client, tried)' = Total(Client, tried) + (IF e = "ErrMaybe" THEN 1 ELSE 0)
<1>1. /\ \A d \in Client : d # c => pc'[d] = pc[d] /\ err'[d] = err[d] /\ res'[d] = res[d]
      /\ pc'[c] = "get" /\ err'[c] = e /\ res'[c] = res[c]
  BY Zenon DEF PutInv, TypeOK, PutDone
<1>2. \A d \in Client : d # c => acked'[d] = acked[d] /\ tried'[d] = tried[d]
  BY <1>1, Zenon DEF acked, tried
<1>3. /\ acked[c] \in Nat /\ tried[c] \in Nat
      /\ acked'[c] = acked[c] + (IF e = "OK" THEN 1 ELSE 0)
      /\ tried'[c] = tried[c] + (IF e = "ErrMaybe" THEN 1 ELSE 0)
  <2>1. /\ acked[c] = res[c].Nok + 0 /\ tried[c] = res[c].Nmaybe + 0
        /\ acked'[c] = res[c].Nok + (IF e = "OK" THEN 1 ELSE 0)
        /\ tried'[c] = res[c].Nmaybe + (IF e = "ErrMaybe" THEN 1 ELSE 0)
    BY <1>1, Zenon DEF acked, tried
  <2>2. res[c].Nok \in Nat /\ res[c].Nmaybe \in Nat
    BY PutTypes, Zenon DEF PutInv
  <2> QED BY <2>1, <2>2
<1>4. IsFiniteSet(Pairs(Client, acked)) /\ IsFiniteSet(Pairs(Client, tried))
  BY Zenon DEF PutInv, SumInv
<1>5. Total(Client, acked) \in Nat /\ Total(Client, tried) \in Nat
  BY <1>4, TotalType, Zenon
<1>6. /\ IsFiniteSet(Pairs(Client, acked'))
      /\ Total(Client, acked') = Total(Client, acked) + (IF e = "OK" THEN 1 ELSE 0)
  <2>1. CASE e = "OK"
    <3>1. acked'[c] = acked[c] + 1 /\ acked[c] \in Nat
      BY <1>3, <2>1, Zenon
    <3>2. \A d \in Client : d # c => acked'[d] = acked[d]
      BY <1>2, Zenon
    <3>3. OneMore(Client, acked, acked')
      BY <3>1, <3>2, Zenon DEF OneMore
    <3>4. /\ IsFiniteSet(Pairs(Client, acked'))
          /\ Total(Client, acked') = Total(Client, acked) + 1
      BY <1>4, <3>3, PairsAdd, Zenon
    <3> QED BY <2>1, <3>4, Zenon
  <2>2. CASE e # "OK"
    <3>1. acked'[c] = acked[c]
      BY <1>3, <2>2
    <3>2. Pairs(Client, acked') = Pairs(Client, acked)
      BY <1>2, <3>1, PairsSame, Zenon
    <3> QED BY <1>4, <1>5, <2>2, <3>2 DEF Total
  <2> QED BY <2>1, <2>2, Zenon
<1>7. /\ IsFiniteSet(Pairs(Client, tried'))
      /\ Total(Client, tried') = Total(Client, tried) + (IF e = "ErrMaybe" THEN 1 ELSE 0)
  <2>1. CASE e = "ErrMaybe"
    <3>1. tried'[c] = tried[c] + 1 /\ tried[c] \in Nat
      BY <1>3, <2>1, Zenon
    <3>2. \A d \in Client : d # c => tried'[d] = tried[d]
      BY <1>2, Zenon
    <3>3. OneMore(Client, tried, tried')
      BY <3>1, <3>2, Zenon DEF OneMore
    <3>4. /\ IsFiniteSet(Pairs(Client, tried'))
          /\ Total(Client, tried') = Total(Client, tried) + 1
      BY <1>4, <3>3, PairsAdd, Zenon
    <3> QED BY <2>1, <3>4, Zenon
  <2>2. CASE e # "ErrMaybe"
    <3>1. tried'[c] = tried[c]
      BY <1>3, <2>2
    <3>2. Pairs(Client, tried') = Pairs(Client, tried)
      BY <1>2, <3>1, PairsSame, Zenon
    <3> QED BY <1>4, <1>5, <2>2, <3>2 DEF Total
  <2> QED BY <2>1, <2>2, Zenon
<1> QED BY <1>6, <1>7, Zenon DEF Total, Pairs

\* PutJson.
LEMMA PutJsonKeeps ==
  ASSUME PutInv, NEW c \in Client, PutJson(c) PROVE PutInv'
<1>1. /\ TypeOK /\ ClientInv(c) /\ pc[c] = "put"
      /\ UNCHANGED <<reliable, ver, res, main, signals, rs, fatal>>
  BY Zenon DEF PutInv, PutJson, test
<1>2. PICK e : PutDone(c, e)
  BY <1>1, PutEffect, Zenon
<1>3. /\ err' = [err EXCEPT ![c] = e] /\ pc' = [pc EXCEPT ![c] = "get"]
      /\ e \in {"OK", "ErrVersion", "ErrMaybe"} /\ (reliable => e # "ErrMaybe")
  BY <1>2, Zenon DEF PutDone
<1>4. st.Version \in Nat /\ ver[c] \in Nat /\ ver[c] <= st.Version
  BY <1>1, PutTypes, Zenon DEF ClientInv
\* The version grows by one or stays, and what is in the key changes with it.
<1>5. /\ st.Version # ver[c] => st' = st /\ lost' = lost /\ e # "OK"
      /\ st.Version = ver[c] /\ ~ lost' =>
           /\ st'.Version = st.Version + 1 /\ e # "ErrVersion"
           /\ st'.Value = [Id |-> c, V |-> ver[c]]
      /\ st.Version = ver[c] /\ lost' =>
           \/ lost /\ st'.Version = st.Version + 1 /\ e # "ErrVersion"
           \/ ~ lost /\ st' = st /\ e = "OK"
      /\ lost => lost'
      /\ st' \in [Value : EntryV \cup {Empty}, Version : Nat] /\ lost' \in BOOLEAN
  <2>1. CASE st.Version # ver[c] /\ e # "OK" /\ UNCHANGED <<st, lost>>
    BY <1>1, <2>1, Zenon DEF TypeOK
  <2>2. CASE /\ st.Version = ver[c] /\ e # "ErrVersion" /\ lost' = lost
             /\ st' = [Value |-> [Id |-> c, V |-> ver[c]], Version |-> ver[c] + 1]
    <3>1. /\ st'.Version = st.Version + 1 /\ st'.Value = [Id |-> c, V |-> ver[c]]
      BY <2>2, Zenon
    <3>2. [Id |-> c, V |-> ver[c]] \in EntryV /\ ver[c] + 1 \in Nat
      BY <1>4 DEF EntryV
    <3>3. st' \in [Value : EntryV \cup {Empty}, Version : Nat] /\ lost' \in BOOLEAN
      BY <1>1, <2>2, <3>2, Zenon DEF TypeOK
    <3> QED BY <2>2, <3>1, <3>3, Zenon
  <2>3. CASE st.Version = ver[c] /\ e = "OK" /\ st' = st /\ ~ lost /\ lost' = TRUE
    BY <1>1, <2>3, Zenon DEF TypeOK
  <2> QED BY <1>2, <2>1, <2>2, <2>3, Zenon DEF PutDone
<1>6. st'.Version \in Nat /\ (st'.Version = st.Version \/ st'.Version = st.Version + 1)
  BY <1>4, <1>5
<1>7. TypeOK'
  <2>1. /\ err' \in [Client -> {"OK", "ErrVersion", "ErrMaybe"}]
        /\ pc' \in [Client -> {"select", "put", "get", "failed", "return", "gone"}]
    BY <1>1, <1>3, Zenon DEF TypeOK
  <2> QED BY <1>1, <1>5, <2>1, Zenon DEF TypeOK, EntryV, Empty, ClntRes
<1>8. /\ \A d \in Client : d # c => pc'[d] = pc[d] /\ err'[d] = err[d]
      /\ pc'[c] = "get" /\ err'[c] = e
  BY <1>1, <1>3, Zenon DEF TypeOK
<1>9. ASSUME NEW d \in Client PROVE ClientInv(d)'
  <2>1. ClientInv(d) /\ ver[d] \in Nat
    BY <1>1, PutTypes, Zenon DEF PutInv
  <2>2. ver[d] <= st'.Version /\ (st.Version # 0 => st'.Version # 0)
        /\ (ver[d] < st.Version => ver[d] < st'.Version)
    <3>1. ver[d] <= st.Version
      BY <2>1, Zenon DEF ClientInv
    <3> QED BY <1>4, <1>6, <2>1, <3>1
  <2>3. CASE d # c
    BY <1>1, <1>5, <1>8, <2>1, <2>2, <2>3, Zenon DEF ClientInv
  <2>4. CASE d = c
    <3>1. ~ lost' => st'.Version # 0 /\ (e = "OK" => ver[c] < st'.Version)
      BY <1>4, <1>5
    <3>2. c \notin rs
      BY <1>1, Zenon DEF ClientInv
    <3> QED BY <1>1, <1>3, <1>5, <1>8, <2>2, <2>4, <3>1, <3>2, Zenon DEF ClientInv
  <2> QED BY <2>3, <2>4, Zenon
<1>10. MainInv'
  BY <1>1, Zenon DEF PutInv, MainInv
<1>11. SumInv'
  <2> SUFFICES ASSUME ~ fatal PROVE SumInv'
    BY <1>1, Zenon DEF SumInv
  <2>1. /\ IsFiniteSet(Pairs(Client, acked))' /\ IsFiniteSet(Pairs(Client, tried))'
        /\ Total(Client, acked)' = Total(Client, acked) + (IF e = "OK" THEN 1 ELSE 0)
        /\ Total(Client, tried)' = Total(Client, tried) + (IF e = "ErrMaybe" THEN 1 ELSE 0)
    BY <1>1, <1>2, PutCounts, Zenon
  <2>2. Total(Client, acked) \in Nat /\ Total(Client, tried) \in Nat
    BY TotalType, Zenon DEF PutInv, SumInv
  <2>3. /\ reliable => Total(Client, acked) = st.Version + (IF lost THEN 1 ELSE 0)
        /\ ~ reliable /\ ~ lost => st.Version <= Total(Client, acked) + Total(Client, tried)
    BY Zenon DEF PutInv, SumInv
  <2>4. ASSUME NEW a, NEW b, NEW a1, NEW b1, NEW v, NEW v1, a \in Nat, b \in Nat, v \in Nat,
               a = Total(Client, acked), b = Total(Client, tried), v = st.Version,
               a1 = Total(Client, acked)', b1 = Total(Client, tried)', v1 = st'.Version
        PROVE  /\ reliable => a1 = v1 + (IF lost' THEN 1 ELSE 0)
               /\ ~ reliable /\ ~ lost' => v1 <= a1 + b1
    <3>1. /\ a1 = a + (IF e = "OK" THEN 1 ELSE 0)
          /\ b1 = b + (IF e = "ErrMaybe" THEN 1 ELSE 0)
          /\ reliable => a = v + (IF lost THEN 1 ELSE 0)
          /\ ~ reliable /\ ~ lost => v <= a + b
      BY <2>1, <2>3, <2>4, Zenon
    <3>2. CASE v # ver[c]
      <4>1. v1 = v /\ lost' = lost /\ e # "OK"
        BY <1>5, <2>4, <3>2, Zenon
      <4> QED BY <1>3, <2>4, <3>1, <4>1
    <3>3. CASE v = ver[c] /\ ~ lost'
      <4>1. v1 = v + 1 /\ e # "ErrVersion" /\ ~ lost
        BY <1>5, <2>4, <3>3, Zenon
      <4> QED BY <1>3, <2>4, <3>1, <3>3, <4>1
    <3>4. CASE v = ver[c] /\ lost'
      <4>1. \/ lost /\ v1 = v + 1 /\ e # "ErrVersion"
            \/ ~ lost /\ v1 = v /\ e = "OK"
        BY <1>5, <2>4, <3>4, Zenon
      <4> QED BY <1>3, <2>4, <3>1, <3>4, <4>1
    <3> QED BY <3>2, <3>3, <3>4, Zenon
  <2>5. /\ reliable => Total(Client, acked)' = st'.Version + (IF lost' THEN 1 ELSE 0)
        /\ ~ reliable /\ ~ lost' =>
             st'.Version <= Total(Client, acked)' + Total(Client, tried)'
    BY <1>4, <2>2, <2>4, Zenon
  <2> QED BY <1>1, <2>1, <2>5, Zenon DEF SumInv
<1>12. main # "done"
  BY <1>1, Zenon DEF PutInv, MainInv, ClientInv
<1>13. CorrectPasses' /\ LossNoticed'
  BY <1>1, <1>5, <1>12, Zenon DEF PutInv, CorrectPasses, LossNoticed
<1>14. OwnValue'
  <2> SUFFICES ASSUME NEW d \in Client, ~ lost', pc'[d] = "get", err'[d] = "OK",
                      st'.Version = ver[d] + 1
               PROVE  st'.Value = [Id |-> d, V |-> ver[d]]
    BY <1>1, Zenon DEF OwnValue
  <2>1. CASE d = c
    BY <1>5, <1>8, <2>1, Zenon
  <2>2. CASE d # c
    <3>1. ~ lost /\ pc[d] = "get" /\ err[d] = "OK"
      BY <1>5, <1>8, <2>2, Zenon
    <3>2. ver[d] < st.Version /\ ver[d] \in Nat
      BY <1>1, <3>1, PutTypes, Zenon DEF PutInv, ClientInv
    <3>3. st'.Version # st.Version + 1
      BY <1>4, <3>2
    <3>4. st' = st
      BY <1>5, <3>3, Zenon
    <3> QED BY <3>1, <3>4, Zenon DEF PutInv, OwnValue
  <2> QED BY <2>1, <2>2, Zenon
<1> QED BY <1>7, <1>9, <1>10, <1>11, <1>13, <1>14, Zenon DEF PutInv

\* GetJson and the rest of an iteration.
LEMMA GetJsonKeeps ==
  ASSUME PutInv, NEW c \in Client, GetJson(c) PROVE PutInv'
<1> DEFINE bad == \/ st.Version = 0
                  \/ err[c] = "OK" /\ st.Version = ver[c] + 1 /\ WrongValue(c, st.Value)
<1>1. /\ TypeOK /\ ClientInv(c) /\ pc[c] = "get" /\ err' = err
      /\ UNCHANGED <<reliable, st, lost, main, signals, rs>>
  BY Zenon DEF PutInv, GetJson, service, test
<1>2. bad => fatal' = TRUE /\ pc' = [pc EXCEPT ![c] = "failed"] /\ UNCHANGED <<ver, res>>
  BY Zenon DEF GetJson
<1>3. ~ bad => /\ ver' = [ver EXCEPT ![c] = st.Version] /\ fatal' = fatal
               /\ pc' = [pc EXCEPT ![c] = IF err[c] = "ErrVersion" THEN "put" ELSE "select"]
               /\ res' = CASE err[c] = "OK" -> [res EXCEPT ![c].Nok = @ + 1]
                           [] err[c] = "ErrMaybe" -> [res EXCEPT ![c].Nmaybe = @ + 1]
                           [] OTHER -> res
  BY Zenon DEF GetJson
<1>4. bad => lost
  <2>1. st.Version = 0 => lost
    BY <1>1, Zenon DEF ClientInv
  <2>2. ASSUME err[c] = "OK", st.Version = ver[c] + 1, ~ lost
        PROVE  ~ WrongValue(c, st.Value)
    <3>1. st.Value = [Id |-> c, V |-> ver[c]]
      BY <1>1, <2>2, Zenon DEF PutInv, OwnValue
    <3>2. st.Value.Id = c
      BY <3>1
    <3> QED BY <3>2, Zenon DEF WrongValue
  <2> QED BY <2>1, <2>2, Zenon
<1> HIDE DEF bad
<1>5. CASE bad
  <2>1. /\ pc' \in [Client -> {"select", "put", "get", "failed", "return", "gone"}]
        /\ pc'[c] = "failed" /\ \A d \in Client : d # c => pc'[d] = pc[d]
    BY <1>1, <1>2, <1>5, Zenon DEF TypeOK
  <2>2. TypeOK'
    BY <1>1, <1>2, <1>5, <2>1, Zenon DEF TypeOK, EntryV, Empty, ClntRes
  <2>3. ASSUME NEW d \in Client PROVE ClientInv(d)'
    <3>1. ClientInv(d)
      BY Zenon DEF PutInv
    <3>2. c \notin rs /\ lost /\ fatal'
      BY <1>1, <1>2, <1>4, <1>5, Zenon DEF ClientInv
    <3> QED BY <1>1, <1>2, <1>5, <2>1, <3>1, <3>2, Zenon DEF ClientInv
  <2>4. SumInv'
    BY <1>2, <1>5, Zenon DEF SumInv
  <2>5. OwnValue'
    BY <1>1, <1>4, <1>5, Zenon DEF OwnValue
  <2>6. MainInv' /\ CorrectPasses' /\ LossNoticed'
    BY <1>1, <1>2, <1>4, <1>5, Zenon DEF PutInv, MainInv, CorrectPasses, LossNoticed
  <2> QED BY <2>2, <2>3, <2>4, <2>5, <2>6, Zenon DEF PutInv
<1>6. CASE ~ bad
  <2>0. fatal' = fatal
    BY <1>3, <1>6, Zenon
  <2>1. /\ pc' \in [Client -> {"select", "put", "get", "failed", "return", "gone"}]
        /\ pc'[c] \in {"put", "select"} /\ \A d \in Client : d # c => pc'[d] = pc[d]
        /\ err[c] # "ErrVersion" => pc'[c] = "select"
    BY <1>1, <1>3, <1>6, Zenon DEF TypeOK
  <2>2. /\ st.Version \in Nat /\ ver[c] \in Nat /\ res[c].Nok \in Nat
        /\ res[c].Nmaybe \in Nat /\ st.Version <= st.Version
    <3>1. /\ st.Version \in Nat /\ ver[c] \in Nat /\ res[c].Nok \in Nat
          /\ res[c].Nmaybe \in Nat
      BY <1>1, PutTypes, Zenon
    <3> QED BY <3>1
  <2>3. /\ ver' \in [Client -> Nat] /\ ver'[c] = st.Version
        /\ \A d \in Client : d # c => ver'[d] = ver[d]
    BY <1>1, <1>3, <1>6, <2>2, Zenon DEF TypeOK
  <2>4. /\ res' \in [Client -> ClntRes]
        /\ \A d \in Client : d # c => res'[d] = res[d]
        /\ res'[c].Nok = res[c].Nok + (IF err[c] = "OK" THEN 1 ELSE 0)
        /\ res'[c].Nmaybe = res[c].Nmaybe + (IF err[c] = "ErrMaybe" THEN 1 ELSE 0)
    <3>1. res \in [Client -> ClntRes] /\ err[c] \in {"OK", "ErrVersion", "ErrMaybe"}
      BY <1>1, Zenon DEF TypeOK
    <3>2. CASE err[c] = "OK"
      <4>1. res' = [res EXCEPT ![c].Nok = @ + 1]
        BY <1>3, <1>6, <3>2, Zenon
      <4> QED BY <2>2, <3>1, <3>2, <4>1 DEF ClntRes
    <3>3. CASE err[c] = "ErrMaybe"
      <4>1. res' = [res EXCEPT ![c].Nmaybe = @ + 1]
        BY <1>3, <1>6, <3>3, Zenon
      <4> QED BY <2>2, <3>1, <3>3, <4>1 DEF ClntRes
    <3>4. CASE err[c] = "ErrVersion"
      <4>1. res' = res
        BY <1>3, <1>6, <3>4, Zenon
      <4> QED BY <2>2, <3>1, <3>4, <4>1
    <3> QED BY <3>1, <3>2, <3>3, <3>4, Zenon
  <2>5. TypeOK'
    BY <1>1, <2>0, <2>1, <2>3, <2>4, Zenon DEF TypeOK, EntryV, Empty, ClntRes
  <2>6. ASSUME NEW d \in Client PROVE ClientInv(d)'
    <3>1. ClientInv(d)
      BY Zenon DEF PutInv
    <3>2. CASE d # c
      BY <1>1, <2>0, <2>1, <2>3, <2>4, <3>1, <3>2, Zenon DEF ClientInv
    <3>3. CASE d = c
      <4>1. c \notin rs /\ (~ lost => st.Version # 0)
        BY <1>1, Zenon DEF ClientInv
      <4> QED BY <1>1, <2>0, <2>1, <2>2, <2>3, <3>1, <3>3, <4>1, Zenon DEF ClientInv
    <3> QED BY <3>2, <3>3, Zenon
  <2>7. \A d \in Client : acked'[d] = acked[d] /\ tried'[d] = tried[d]
    <3>1. \A d \in Client : d # c => acked'[d] = acked[d] /\ tried'[d] = tried[d]
      BY <1>1, <2>1, <2>4, Zenon DEF acked, tried
    <3>2. /\ acked'[c] = res'[c].Nok + 0 /\ tried'[c] = res'[c].Nmaybe + 0
          /\ acked[c] = res[c].Nok + (IF err[c] = "OK" THEN 1 ELSE 0)
          /\ tried[c] = res[c].Nmaybe + (IF err[c] = "ErrMaybe" THEN 1 ELSE 0)
      BY <1>1, <2>1, Zenon DEF acked, tried
    <3>3. acked'[c] = acked[c] /\ tried'[c] = tried[c]
      BY <2>2, <2>4, <3>2
    <3> QED BY <3>1, <3>3, Zenon
  <2>8. SumInv'
    BY <1>1, <2>0, <2>7, SumsKept, Zenon DEF PutInv
  <2>9. OwnValue'
    <3>1. \A d \in Client : pc'[d] = "get" => d # c
      BY <2>1, Zenon
    <3> QED BY <1>1, <2>1, <2>3, <3>1, Zenon DEF PutInv, OwnValue
  <2>10. MainInv' /\ CorrectPasses' /\ LossNoticed'
    BY <1>1, <2>0, Zenon DEF PutInv, MainInv, CorrectPasses, LossNoticed
  <2> QED BY <2>5, <2>6, <2>8, <2>9, <2>10, Zenon DEF PutInv
<1> QED BY <1>5, <1>6, Zenon

\* A client begins its next Put.
LEMMA NextPutKeeps == ASSUME PutInv, NEW c \in Client, NextPut(c) PROVE PutInv'
<1>1. /\ pc[c] = "select" /\ pc' = [pc EXCEPT ![c] = "put"]
      /\ UNCHANGED <<reliable, st, lost, ver, err, res, main, signals, rs, fatal>>
  BY Zenon DEF NextPut, service, test
<1>2. TypeOK /\ MainInv /\ CorrectPasses /\ LossNoticed /\ \A d \in Client : ClientInv(d)
  BY Zenon DEF PutInv
<1>3. /\ pc' \in [Client -> {"select", "put", "get", "failed", "return", "gone"}]
      /\ pc'[c] = "put" /\ \A d \in Client : d # c => pc'[d] = pc[d]
  BY <1>1, <1>2, Zenon DEF TypeOK
<1>4. c \notin rs
  BY <1>1, <1>2, Zenon DEF ClientInv
<1>5. \A d \in rs' : pc'[d] = "gone"
  BY <1>1, <1>2, <1>3, <1>4, Zenon DEF TypeOK, ClientInv
<1>6. TypeOK' /\ (\A d \in Client : ClientInv(d)') /\ SumInv' /\ OwnValue'
  BY <1>1, <1>2, <1>3, <1>5, QuietKeeps, Zenon DEF TypeOK
<1>7. MainInv' /\ CorrectPasses' /\ LossNoticed'
  BY <1>1, <1>2, Zenon DEF MainInv, CorrectPasses, LossNoticed
<1> QED BY <1>6, <1>7, Zenon DEF PutInv

\* The test tells a client to return.
LEMMA SignalKeeps == ASSUME PutInv, NEW c \in Client, Signal(c) PROVE PutInv'
<1>1. /\ pc[c] = "select" /\ pc' = [pc EXCEPT ![c] = "return"]
      /\ main = "signal" /\ main' \in {"signal", "collect"} /\ signals' = signals + 1
      /\ UNCHANGED <<reliable, st, lost, ver, err, res, rs, fatal>>
  BY Zenon DEF Signal, service
<1>2. TypeOK /\ MainInv /\ CorrectPasses /\ LossNoticed /\ \A d \in Client : ClientInv(d)
  BY Zenon DEF PutInv
<1>3. /\ pc' \in [Client -> {"select", "put", "get", "failed", "return", "gone"}]
      /\ pc'[c] = "return" /\ \A d \in Client : d # c => pc'[d] = pc[d]
  BY <1>1, <1>2, Zenon DEF TypeOK
<1>4. c \notin rs /\ signals' \in Nat
  <2>1. signals \in Nat
    BY <1>2, Zenon DEF TypeOK
  <2>2. signals' \in Nat
    BY <1>1, <2>1
  <2> QED BY <1>1, <1>2, <2>2, Zenon DEF ClientInv
<1>5. \A d \in rs' : pc'[d] = "gone"
  BY <1>1, <1>2, <1>3, <1>4, Zenon DEF TypeOK, ClientInv
<1>6. TypeOK' /\ (\A d \in Client : ClientInv(d)') /\ SumInv' /\ OwnValue'
  BY <1>1, <1>2, <1>3, <1>4, <1>5, QuietKeeps, Zenon DEF TypeOK
<1>7. MainInv' /\ CorrectPasses' /\ LossNoticed'
  BY <1>1, <1>2, Zenon DEF MainInv, CorrectPasses, LossNoticed
<1> QED BY <1>6, <1>7, Zenon DEF PutInv

\* The test takes the result of a client, which is gone then.
LEMMA CollectKeeps == ASSUME PutInv, NEW c \in Client, Collect(c) PROVE PutInv'
<1>1. /\ pc[c] = "return" /\ pc' = [pc EXCEPT ![c] = "gone"]
      /\ main = "collect" /\ rs' = rs \cup {c}
      /\ UNCHANGED <<reliable, st, lost, ver, err, res, main, signals, fatal>>
  BY Zenon DEF Collect, service
<1>2. TypeOK /\ MainInv /\ CorrectPasses /\ LossNoticed /\ \A d \in Client : ClientInv(d)
  BY Zenon DEF PutInv
<1>3. /\ pc' \in [Client -> {"select", "put", "get", "failed", "return", "gone"}]
      /\ pc'[c] = "gone" /\ \A d \in Client : d # c => pc'[d] = pc[d]
  BY <1>1, <1>2, Zenon DEF TypeOK
<1>4. \A d \in rs' : pc'[d] = "gone"
  BY <1>1, <1>2, <1>3, Zenon DEF TypeOK, ClientInv
<1>5. rs' \subseteq Client
  BY <1>1, <1>2, Zenon DEF TypeOK
<1>6. TypeOK' /\ (\A d \in Client : ClientInv(d)') /\ SumInv' /\ OwnValue'
  BY <1>1, <1>2, <1>3, <1>4, <1>5, QuietKeeps, Zenon DEF TypeOK
<1>7. MainInv' /\ CorrectPasses' /\ LossNoticed'
  BY <1>1, <1>2, Zenon DEF MainInv, CorrectPasses, LossNoticed
<1> QED BY <1>6, <1>7, Zenon DEF PutInv

\* The test wakes up.
LEMMA WakeUpKeeps == ASSUME PutInv, WakeUp PROVE PutInv'
<1>1. /\ main = "sleep" /\ main' = "signal"
      /\ UNCHANGED <<reliable, st, lost, pc, ver, err, res, signals, rs, fatal>>
  BY Zenon DEF WakeUp, service, clients
<1>2. TypeOK /\ CorrectPasses /\ \A d \in Client : ClientInv(d)
  BY Zenon DEF PutInv
<1>3. \A d \in rs' : pc'[d] = "gone"
  BY <1>1, <1>2, Zenon DEF TypeOK, ClientInv
<1>4. TypeOK' /\ (\A d \in Client : ClientInv(d)') /\ SumInv' /\ OwnValue'
  BY <1>1, <1>2, <1>3, QuietKeeps, Zenon DEF TypeOK
<1>5. MainInv' /\ CorrectPasses' /\ LossNoticed'
  BY <1>1, <1>2, Zenon DEF MainInv, CorrectPasses, LossNoticed
<1> QED BY <1>4, <1>5, Zenon DEF PutInv

\* When every client is gone, the test's sums are those of the invariant.
LEMMA AllGone ==
  ASSUME PutInv, ~ fatal, rs = Client
  PROVE  /\ Nok \in Nat /\ Nmaybe \in Nat
         /\ Nok = Total(Client, acked) /\ Nmaybe = Total(Client, tried)
<1>1. \A c \in Client : pc[c] = "gone"
  BY Zenon DEF PutInv, ClientInv
<1>2. TypeOK
  BY Zenon DEF PutInv
<1>3. \A c \in Client : [d \in rs |-> res[d].Nok][c] = acked[c]
                        /\ [d \in rs |-> res[d].Nmaybe][c] = tried[c]
  <2> SUFFICES ASSUME NEW c \in Client
               PROVE  [d \in rs |-> res[d].Nok][c] = acked[c]
                      /\ [d \in rs |-> res[d].Nmaybe][c] = tried[c]
    BY Zenon
  <2>1. acked[c] = res[c].Nok + 0 /\ tried[c] = res[c].Nmaybe + 0
    BY <1>1, Zenon DEF acked, tried
  <2>2. res[c].Nok \in Nat /\ res[c].Nmaybe \in Nat
    BY <1>2, PutTypes, Zenon
  <2>3. acked[c] = res[c].Nok /\ tried[c] = res[c].Nmaybe
    BY <2>1, <2>2
  <2> QED BY <2>3, Zenon
<1>4. /\ Pairs(rs, [d \in rs |-> res[d].Nok]) = Pairs(Client, acked)
      /\ Pairs(rs, [d \in rs |-> res[d].Nmaybe]) = Pairs(Client, tried)
  BY <1>3, PairsSame, Zenon
<1>5. Nok = Total(Client, acked) /\ Nmaybe = Total(Client, tried)
  BY <1>4, Zenon DEF Nok, Nmaybe, Total
<1>6. IsFiniteSet(Pairs(Client, acked)) /\ IsFiniteSet(Pairs(Client, tried))
  BY Zenon DEF PutInv, SumInv
<1> QED BY <1>5, <1>6, TotalType, Zenon

\* The test checks the sums.
LEMMA CheckKeeps == ASSUME PutInv, CheckPutConcurrent PROVE PutInv'
<1>1. /\ main = "collect" /\ main' = "done" /\ rs = Client
      /\ fatal' = (fatal \/ st.Version = 0 \/ WrongNumber)
      /\ UNCHANGED <<reliable, st, lost, pc, ver, err, res, signals, rs>>
  BY Zenon DEF CheckPutConcurrent, service, clients
<1>2. TypeOK /\ CorrectPasses /\ MainInv /\ SumInv /\ \A d \in Client : ClientInv(d)
  BY Zenon DEF PutInv
<1>3. st.Version \in Nat
  BY <1>2, PutTypes, Zenon
<1>4. ~ lost /\ st.Version # 0 => ~ fatal'
  <2> SUFFICES ASSUME ~ lost, st.Version # 0 PROVE ~ fatal'
    BY Zenon
  <2>1. ~ fatal /\ st.Version # 0
    BY <1>1, <1>2, Zenon DEF CorrectPasses
  <2>2. Nok \in Nat /\ Nmaybe \in Nat
        /\ Nok = Total(Client, acked) /\ Nmaybe = Total(Client, tried)
    BY <1>1, <2>1, AllGone, Zenon
  <2>3. /\ reliable => Nok = st.Version + 0
        /\ ~ reliable => st.Version <= Nok + Nmaybe
    BY <1>2, <2>1, <2>2, Zenon DEF SumInv
  <2>4. ~ WrongNumber
    BY <1>3, <2>2, <2>3 DEF WrongNumber
  <2> QED BY <1>1, <2>1, <2>4, Zenon
<1>5. reliable /\ lost => fatal'
  <2> SUFFICES ASSUME reliable, lost, ~ fatal PROVE fatal'
    BY <1>1, Zenon
  <2>1. Nok = st.Version + 1
    <3>1. Nok = Total(Client, acked)
      BY <1>1, AllGone, Zenon
    <3> QED BY <1>2, <3>1, Zenon DEF SumInv
  <2>2. WrongNumber
    BY <1>3, <2>1 DEF WrongNumber
  <2> QED BY <1>1, <2>2, Zenon
<1>6. \A d \in rs' : pc'[d] = "gone"
  BY <1>1, <1>2, Zenon DEF TypeOK, ClientInv
<1>7. fatal' \in BOOLEAN /\ (fatal => fatal')
  BY <1>1, Zenon
<1>8. TypeOK' /\ (\A d \in Client : ClientInv(d)') /\ SumInv' /\ OwnValue'
  BY <1>1, <1>2, <1>6, <1>7, QuietKeeps, Zenon DEF TypeOK
<1>9. MainInv' /\ CorrectPasses' /\ LossNoticed'
  BY <1>1, <1>2, <1>4, <1>5, Zenon DEF MainInv, CorrectPasses, LossNoticed
<1> QED BY <1>8, <1>9, Zenon DEF PutInv

\* The invariant holds at the start.
LEMMA PutStarts == Init => PutInv
<1> SUFFICES ASSUME Init PROVE PutInv
  OBVIOUS
<1>1. /\ st.Version = 0 /\ lost = FALSE /\ fatal = FALSE /\ main = "sleep" /\ rs = {}
      /\ \A c \in Client :
           pc[c] = "select" /\ ver[c] = 0 /\ err[c] = "OK" /\ res[c].Nok = 0
           /\ res[c].Nmaybe = 0
  BY DEF Init
<1>2. TypeOK
  BY Zenon DEF Init, TypeOK, ClntRes
<1>3. 0 <= 0 /\ 0 + 0 = 0 /\ 0 = 0 + 0
  OBVIOUS
<1>4. \A c \in Client : ClientInv(c)
  BY <1>1, <1>3, Zenon DEF ClientInv
<1>5. SumInv
  <2>1. \A c \in Client : acked[c] = 0 /\ tried[c] = 0
    BY <1>1, <1>3, Zenon DEF acked, tried
  <2>2. /\ IsFiniteSet(Pairs(Client, acked)) /\ Total(Client, acked) = 0
        /\ IsFiniteSet(Pairs(Client, tried)) /\ Total(Client, tried) = 0
    BY <2>1, PairsEmpty, Zenon
  <2> QED BY <1>1, <1>3, <2>2, Zenon DEF SumInv
<1>6. MainInv /\ CorrectPasses /\ LossNoticed /\ OwnValue
  BY <1>1, Zenon DEF MainInv, CorrectPasses, LossNoticed, OwnValue
<1> QED BY <1>2, <1>4, <1>5, <1>6, Zenon DEF PutInv

\* And every step preserves it.
LEMMA PutInductive == PutInv /\ [Next]_vars => PutInv'
<1> SUFFICES ASSUME PutInv, [Next]_vars PROVE PutInv'
  OBVIOUS
<1>1. ASSUME NEW c \in Client, NextPut(c) PROVE PutInv'
  BY <1>1, NextPutKeeps, Zenon
<1>2. ASSUME NEW c \in Client, PutJson(c) PROVE PutInv'
  BY <1>2, PutJsonKeeps, Zenon
<1>3. ASSUME NEW c \in Client, GetJson(c) PROVE PutInv'
  BY <1>3, GetJsonKeeps, Zenon
<1>4. ASSUME NEW c \in Client, Signal(c) PROVE PutInv'
  BY <1>4, SignalKeeps, Zenon
<1>5. ASSUME NEW c \in Client, Collect(c) PROVE PutInv'
  BY <1>5, CollectKeeps, Zenon
<1>6. CASE WakeUp
  BY <1>6, WakeUpKeeps, Zenon
<1>7. CASE CheckPutConcurrent
  BY <1>7, CheckKeeps, Zenon
<1>8. CASE UNCHANGED vars
  <2>1. /\ UNCHANGED <<reliable, st, lost, pc, ver, err, res, main, signals, rs, fatal>>
        /\ TypeOK /\ MainInv /\ CorrectPasses /\ LossNoticed
        /\ \A d \in Client : ClientInv(d)
    BY <1>8, Zenon DEF vars, PutInv
  <2>2. \A d \in rs' : pc'[d] = "gone"
    BY <2>1, Zenon DEF TypeOK, ClientInv
  <2>3. TypeOK' /\ (\A d \in Client : ClientInv(d)') /\ SumInv' /\ OwnValue'
    BY <2>1, <2>2, QuietKeeps, Zenon DEF TypeOK
  <2>4. MainInv' /\ CorrectPasses' /\ LossNoticed'
    BY <2>1, Zenon DEF MainInv, CorrectPasses, LossNoticed
  <2> QED BY <2>3, <2>4, Zenon DEF PutInv
<1> QED BY <1>1, <1>2, <1>3, <1>4, <1>5, <1>6, <1>7, <1>8, Zenon DEF Next, Finished

\* The invariant holds in every state.
LEMMA PutAlways == Spec => []PutInv
  BY PutStarts, PutInductive, PTL DEF Spec

\* kvtest.go, OnePut and CheckPutConcurrent: whatever the interleaving, any
\* number of clients that race on a key of a correct service pass the test, but
\* for a test that is over before the first Put.
THEOREM CorrectPassesTheorem == Spec => []CorrectPasses
<1>1. PutInv => CorrectPasses
  BY Zenon DEF PutInv
<1> QED BY <1>1, PutAlways, PTL

\* kvtest.go, CheckPutConcurrent: an acknowledged Put that the service lost is
\* noticed on a reliable network when the results are added up.
THEOREM LossNoticedTheorem == Spec => []LossNoticed
<1>1. PutInv => LossNoticed
  BY Zenon DEF PutInv
<1> QED BY <1>1, PutAlways, PTL

\* kvtest.go, OnePut: a client that reads the version after its acknowledged Put
\* reads its own value.
THEOREM OwnValueTheorem == Spec => []OwnValue
<1>1. PutInv => OwnValue
  BY Zenon DEF PutInv
<1> QED BY <1>1, PutAlways, PTL

-----------------------------------------------------------------------------
(* Annotation.                                                             *)

\* An annotation that is shown at time t.
Shows(i, t) == i.text # NoFault /\ i.start <= t /\ t < i.end

\* The on-going annotation tells the fault of now, since it began.
OngoingInv ==
  /\ continuous.text = truth[now - 1]
  /\ continuous # Nothing =>
       /\ continuous.start \in 1..(now - 1) /\ continuous.text # NoFault
       /\ \A t \in continuous.start..(now - 1) : truth[t] = continuous.text

\* Those that ended tell the faults of their time, and every fault is told.
EndedInv ==
  /\ \A i \in failures : i.end \in 1..(now - 1)
  /\ \A i \in failures : \A t \in 1..(now - 1) : Shows(i, t) => i.text = truth[t]
  /\ \A t \in 1..(now - 1) : truth[t] # NoFault =>
       \/ \E i \in failures : Shows(i, t)
       \/ continuous # Nothing /\ continuous.start <= t

\* An annotation that ended nothing: it is from the start, and there was no fault.
Blank(i) == i.start = 0 /\ truth[i.end - 1] = NoFault /\ truth[i.end] = NoFault

\* No two annotations with a text are shown at the same time; those without are
\* blank.
ApartInv ==
  /\ \A i, j \in failures : \A t \in 1..(now - 1) : Shows(i, t) /\ Shows(j, t) => i = j
  /\ \A i \in failures : i.text # NoFault /\ continuous # Nothing => i.end <= continuous.start
  /\ \A i \in failures : i.text = NoFault => Blank(i)

\* The servers that finfo has are those of the fault.
FaultInv == truth[now - 1].kind # "two" => truth[now - 1] = Fault(connected, crashed)

\* The timeline while the annotations have not been cleared.
TimeInv ==
  /\ now \in 1..(MaxTime + 1) /\ FaultInv
  /\ info => OngoingInv /\ EndedInv /\ ApartInv

\* The fields of the annotations.
LEMMA AnnTypes ==
  ASSUME AnnTypeOK
  PROVE  /\ now \in Nat /\ continuous.start \in Nat /\ continuous.text \in Text
         /\ \A i \in failures : i.start \in Nat /\ i.end \in Nat
<1>1. Time \subseteq Nat
  BY TimeAssumption DEF Time
<1>2. continuous \in [start : Time, text : Text]
      /\ failures \subseteq [start : Time, end : Time, text : Text] /\ now \in Time
  BY Zenon DEF AnnTypeOK
<1> QED BY <1>1, <1>2, Zenon

\* The time of no annotation.
LEMMA ZeroTime == 0 \in Time
  BY TimeAssumption DEF Time

\* The on-going annotation when there is none.
LEMMA NothingFields == Nothing.start = 0 /\ Nothing.text = NoFault
  BY DEF Nothing

\* What a step of the clock may do to the annotations of the faults, with x the
\* fault from now on.
Annotates(x) ==
  \/ x = continuous.text /\ UNCHANGED <<continuous, failures>>
  \/ x # NoFault /\ annotateContinuousColor(x)
  \/ x = NoFault /\ annotateContinuousEnd

\* The same whatever there was before, for the types.
Draws(x) ==
  \/ UNCHANGED <<continuous, failures>>
  \/ annotateContinuousColor(x)
  \/ annotateContinuousEnd

\* What the clock does to the history of the faults.
LEMMA TickClock ==
  ASSUME AnnTypeOK, now \in 1..(MaxTime + 1), NEW x \in Text, Tick(x)
  PROVE  /\ now' = now + 1 /\ now' \in 1..(MaxTime + 1) /\ now' \in Time /\ now' - 1 = now
         /\ now \in Nat /\ now # 0
         /\ truth' \in [Time -> Text] /\ truth'[now] = x
         /\ \A t \in Time : t # now => truth'[t] = truth[t]
         /\ \A t \in 1..(now - 1) : t \in Nat /\ truth'[t] = truth[t]
         /\ \A t \in 1..now : t = now \/ t \in 1..(now - 1)
<1>1. now <= MaxTime /\ now' = now + 1 /\ truth' = [truth EXCEPT ![now] = x]
  BY Zenon DEF Tick
<1>2. truth \in [Time -> Text]
  BY Zenon DEF AnnTypeOK
<1>3. /\ now \in Nat /\ now # 0 /\ now' \in 1..(MaxTime + 1) /\ now' - 1 = now
      /\ now \in Time /\ now' \in Time
      /\ \A t \in 1..(now - 1) : t \in Nat /\ t \in Time /\ t # now
      /\ \A t \in 1..now : t = now \/ t \in 1..(now - 1)
  BY <1>1, TimeAssumption DEF Time
<1>4. truth' \in [Time -> Text] /\ truth'[now] = x
      /\ \A t \in Time : t # now => truth'[t] = truth[t]
  BY <1>1, <1>2, <1>3, Zenon
<1> QED BY <1>1, <1>3, <1>4, Zenon

\* The on-going annotation tells the fault x from now on.
LEMMA OngoingKept ==
  ASSUME AnnTypeOK, now \in 1..(MaxTime + 1), OngoingInv,
         NEW x \in Text, Tick(x), Annotates(x)
  PROVE  OngoingInv'
<1> SUFFICES /\ continuous'.text = x
             /\ continuous' # Nothing =>
                  /\ continuous'.start \in 1..now /\ continuous'.text # NoFault
                  /\ \A t \in continuous'.start..now : truth'[t] = continuous'.text
  BY TickClock, Zenon DEF OngoingInv
<1>2. now \in Nat /\ now # 0 /\ truth'[now] = x
      /\ \A t \in 1..(now - 1) : truth'[t] = truth[t]
  BY TickClock, Zenon
<1>3. continuous.start \in Nat
  BY AnnTypes, Zenon
<1>4. CASE x = continuous.text /\ UNCHANGED <<continuous, failures>>
  <2> SUFFICES ASSUME continuous # Nothing
               PROVE  /\ continuous.start \in 1..now /\ continuous.text # NoFault
                      /\ \A t \in continuous.start..now : truth'[t] = continuous.text
    BY <1>4, Zenon
  <2>1. /\ continuous.start \in 1..(now - 1) /\ continuous.text # NoFault
        /\ \A t \in continuous.start..(now - 1) : truth[t] = continuous.text
    BY Zenon DEF OngoingInv
  <2>2. \A t \in continuous.start..now :
          t = now \/ (t \in continuous.start..(now - 1) /\ t \in 1..(now - 1))
    BY <1>2, <1>3, <2>1
  <2>3. continuous.start \in 1..now
    BY <1>2, <2>1
  <2> QED BY <1>2, <1>4, <2>1, <2>2, <2>3, Zenon
<1>5. CASE x # NoFault /\ annotateContinuousColor(x)
  <2>1. continuous' = [start |-> now, text |-> x]
    BY <1>5, Zenon DEF annotateContinuousColor
  <2>2. continuous'.start = now /\ continuous'.text = x
    BY <2>1
  <2>3. now \in 1..now /\ \A t \in now..now : t = now
    BY <1>2
  <2> QED BY <1>2, <1>5, <2>2, <2>3, Zenon
<1>6. CASE x = NoFault /\ annotateContinuousEnd
  BY <1>6, NothingFields, Zenon DEF annotateContinuousEnd
<1> QED BY <1>4, <1>5, <1>6, Zenon DEF Annotates

\* One that ends now told its fault until now: nothing is lost or told twice.
LEMMA EndedKept ==
  ASSUME AnnTypeOK, now \in 1..(MaxTime + 1), OngoingInv, EndedInv,
         NEW x \in Text, Tick(x), Annotates(x)
  PROVE  EndedInv'
<1>2. /\ now' = now + 1 /\ now' - 1 = now /\ now \in Nat /\ now # 0 /\ truth'[now] = x
      /\ \A t \in 1..(now - 1) : t \in Nat /\ truth'[t] = truth[t]
      /\ \A t \in 1..now : t = now \/ t \in 1..(now - 1)
  BY TickClock, Zenon
\* The annotation that may end now.
<1>3. /\ Ongoing.start = continuous.start /\ Ongoing.end = now
      /\ Ongoing.text = continuous.text
  BY DEF Ongoing
<1>4. failures' \subseteq failures \cup {Ongoing} /\ failures \subseteq failures'
  BY Zenon DEF Annotates, annotateContinuousColor, annotateContinuousEnd
<1>5. continuous # Nothing => UNCHANGED continuous \/ Ongoing \in failures'
  BY Zenon DEF Annotates, annotateContinuousColor, annotateContinuousEnd
<1>6. \A t \in 1..(now - 1) : Shows(Ongoing, t) => Ongoing.text = truth[t]
  <2> SUFFICES ASSUME NEW t \in 1..(now - 1), Shows(Ongoing, t)
               PROVE  Ongoing.text = truth[t]
    BY Zenon
  <2>1. continuous.text # NoFault /\ continuous.start <= t
    BY <1>3, Zenon DEF Shows
  <2>2. continuous # Nothing
    BY <2>1, NothingFields, Zenon
  <2>3. continuous.start \in Nat
    BY AnnTypes, Zenon
  <2>4. t \in continuous.start..(now - 1)
    BY <1>2, <2>1, <2>3
  <2> QED BY <1>3, <2>2, <2>4, Zenon DEF OngoingInv
<1>7. \A i \in failures' : i.end \in 1..now
  <2>1. \A i \in failures : i.end \in 1..(now - 1)
    BY Zenon DEF EndedInv
  <2>2. \A i \in failures : i.end \in 1..now
    BY <1>2, <2>1
  <2>3. now \in 1..now
    BY <1>2
  <2> QED BY <1>2, <1>3, <1>4, <2>2, <2>3, Zenon
<1>8. \A i \in failures' : i.end \in 1..(now' - 1)
  BY <1>2, <1>7
<1>9. \A i \in failures' : \A t \in 1..now : Shows(i, t) => i.text = truth'[t]
  <2>1. \A i \in failures' : ~ (now < i.end)
    BY <1>2, <1>7
  <2>2. \A i \in failures' : \A t \in 1..(now - 1) : Shows(i, t) => i.text = truth[t]
    BY <1>4, <1>6, Zenon DEF EndedInv
  <2> QED BY <1>2, <2>1, <2>2, Zenon DEF Shows
<1>10. ASSUME NEW t \in 1..now, truth'[t] # NoFault
       PROVE  \/ \E i \in failures' : Shows(i, t)
              \/ continuous' # Nothing /\ continuous'.start <= t
  <2>1. CASE t = now
    <3>1. OngoingInv'
      BY OngoingKept, Zenon
    <3>2. continuous'.text # NoFault
      BY <1>2, <1>10, <2>1, <3>1, Zenon DEF OngoingInv
    <3>3. continuous' # Nothing
      BY <3>2, NothingFields, Zenon
    <3>4. continuous'.start \in 1..now
      BY <1>2, <3>1, <3>3, Zenon DEF OngoingInv
    <3>5. continuous'.start <= t
      BY <1>2, <2>1, <3>4
    <3> QED BY <3>3, <3>5, Zenon
  <2>2. CASE t \in 1..(now - 1)
    <3>1. truth[t] # NoFault
      BY <1>2, <1>10, <2>2, Zenon
    <3>2. \/ \E i \in failures : Shows(i, t)
          \/ continuous # Nothing /\ continuous.start <= t
      BY <2>2, <3>1, Zenon DEF EndedInv
    <3>3. ASSUME continuous # Nothing, continuous.start <= t, Ongoing \in failures'
          PROVE  Shows(Ongoing, t)
      <4>1. t < now
        BY <1>2, <2>2
      <4>2. continuous.text # NoFault
        BY <3>3, Zenon DEF OngoingInv
      <4> QED BY <1>3, <3>3, <4>1, <4>2, Zenon DEF Shows
    <3> QED BY <1>4, <1>5, <3>2, <3>3, Zenon
  <2> QED BY <1>2, <2>1, <2>2, Zenon
<1> QED BY <1>2, <1>8, <1>9, <1>10, Zenon DEF EndedInv

\* One that ends now began after those before had ended; one that ends nothing is
\* blank.
LEMMA ApartKept ==
  ASSUME AnnTypeOK, now \in 1..(MaxTime + 1), OngoingInv, EndedInv, ApartInv,
         NEW x \in Text, Tick(x), Annotates(x)
  PROVE  ApartInv'
<1>1. /\ now' = now + 1 /\ now' - 1 = now /\ now \in Nat /\ now # 0 /\ truth'[now] = x
      /\ \A t \in Time : t # now => truth'[t] = truth[t]
      /\ \A t \in 1..now : t = now \/ t \in 1..(now - 1)
  BY TickClock, Zenon
<1>2. /\ Ongoing.start = continuous.start /\ Ongoing.end = now
      /\ Ongoing.text = continuous.text
  BY DEF Ongoing
<1>3. failures' \subseteq failures \cup {Ongoing}
  BY Zenon DEF Annotates, annotateContinuousColor, annotateContinuousEnd
<1>4. \A i \in failures : i.end \in 1..(now - 1)
  BY Zenon DEF EndedInv
<1>5. continuous.start \in Nat /\ now - 1 \in Time /\ now \in Time
  <2>1. continuous.start \in Nat
    BY AnnTypes, Zenon
  <2> QED BY <1>1, <2>1, TimeAssumption DEF Time
\* Two that are shown at once.
<1>6. ASSUME NEW i \in failures', NEW j \in failures', NEW t \in 1..now,
             Shows(i, t), Shows(j, t)
      PROVE  i = j
  <2>1. t # now
    <3>1. \A k \in failures : ~ (now < k.end)
      BY <1>1, <1>4
    <3>2. ~ (now < now)
      BY <1>1
    <3> QED BY <1>2, <1>3, <1>6, <3>1, <3>2, Zenon DEF Shows
  <2>2. t \in 1..(now - 1)
    BY <1>1, <2>1, Zenon
  <2>3. ASSUME NEW k \in failures, Shows(k, t), Shows(Ongoing, t)
        PROVE  FALSE
    <3>1. k.text # NoFault /\ t < k.end /\ continuous.text # NoFault /\ continuous.start <= t
      BY <1>2, <2>3, Zenon DEF Shows
    <3>2. k.end <= continuous.start
      BY <3>1, NothingFields, Zenon DEF ApartInv
    <3>3. k.end \in 1..(now - 1)
      BY <1>4, Zenon
    <3> QED BY <1>1, <1>5, <3>1, <3>2, <3>3
  <2> QED BY <1>3, <1>6, <2>2, <2>3, Zenon DEF ApartInv
\* The new one begins when all have ended.
<1>7. ASSUME NEW i \in failures', i.text # NoFault, continuous' # Nothing
      PROVE  i.end <= continuous'.start
  <2>1. CASE UNCHANGED <<continuous, failures>>
    BY <1>7, <2>1, Zenon DEF ApartInv
  <2>2. CASE annotateContinuousColor(x)
    <3>1. continuous' = [start |-> now, text |-> x]
      BY <2>2, Zenon DEF annotateContinuousColor
    <3>2. continuous'.start = now
      BY <3>1
    <3>3. \A k \in failures : k.end <= now
      BY <1>1, <1>4
    <3>4. now <= now
      BY <1>1
    <3> QED BY <1>2, <1>3, <3>2, <3>3, <3>4, Zenon
  <2> QED BY <1>7, <2>1, <2>2, Zenon DEF Annotates, annotateContinuousEnd
\* Those without a text.
<1>8. ASSUME NEW i \in failures', i.text = NoFault
      PROVE  Blank(i)'
  <2>1. CASE i \in failures
    <3>1. i.start = 0 /\ truth[i.end - 1] = NoFault /\ truth[i.end] = NoFault
      BY <1>8, <2>1, Zenon DEF ApartInv, Blank
    <3>2. i.end \in Time /\ i.end - 1 \in Time /\ i.end # now /\ i.end - 1 # now
      <4>1. i.end \in 1..(now - 1)
        BY <1>4, <2>1, Zenon
      <4> QED BY <1>1, <1>5, <4>1, TimeAssumption DEF Time
    <3> QED BY <1>1, <3>1, <3>2, Zenon DEF Blank
  <2>2. CASE i = Ongoing /\ i \notin failures
    <3>1. continuous.text = NoFault
      BY <1>2, <1>8, <2>2, Zenon
    <3>2. continuous = Nothing
      BY <3>1, Zenon DEF OngoingInv
    <3>3. continuous.start = 0
      BY <3>2, NothingFields, Zenon
    <3>4. x = NoFault
      BY <1>8, <2>2, <3>2, Zenon DEF Annotates, annotateContinuousColor
    <3>5. truth[now - 1] = NoFault
      BY <3>1, Zenon DEF OngoingInv
    <3>6. now - 1 # now
      BY <1>1
    <3> QED BY <1>1, <1>2, <1>5, <2>2, <3>3, <3>4, <3>5, <3>6, Zenon DEF Blank
  <2> QED BY <1>3, <2>1, <2>2, Zenon
<1> QED BY <1>1, <1>6, <1>7, <1>8, Zenon DEF ApartInv

\* A call that is skipped, because it changes nothing, annotates what there is.
LEMMA SkippedAnnotates ==
  ASSUME OngoingInv, FaultInv, Current.kind # "two"
  PROVE  Fault(connected, crashed) = continuous.text
  BY Zenon DEF OngoingInv, FaultInv, Current

\* A call that is not skipped annotates the fault.
LEMMA FaultAnnotates ==
  ASSUME NEW conn, NEW crash, annotateFault(conn, crash)
  PROVE  Annotates(Fault(conn, crash))
  BY Zenon DEF annotateFault, Annotates

\* The faults are among the texts.
LEMMA FaultText ==
  ASSUME NEW conn \in SUBSET Srv, NEW crash \in SUBSET Srv
  PROVE  Fault(conn, crash) \in Text
<1>1. conn \ crash \in SUBSET Srv /\ {} \in SUBSET Srv
  BY Zenon
<1> QED BY <1>1 DEF Fault, NoFault, Text

\* So are no fault, and two partitions, which are told apart.
LEMMA OtherTexts ==
  /\ NoFault \in Text /\ NoFault = Fault(Srv, {})
  /\ \A p1 \in SUBSET Srv : TwoPartitions(p1, Srv \ p1) \in Text
  /\ \A p1, p2 : TwoPartitions(p1, p2).kind = "two" /\ TwoPartitions(p1, p2) # NoFault
<1>1. NoFault \in Text /\ NoFault = Fault(Srv, {})
  BY DEF NoFault, Fault, Text
<1>2. ASSUME NEW p1 \in SUBSET Srv
      PROVE  TwoPartitions(p1, Srv \ p1) \in Text
  <2>1. Srv \ p1 \in SUBSET Srv
    BY Zenon
  <2> QED BY <2>1 DEF TwoPartitions, Text
<1>3. ASSUME NEW p1, NEW p2
      PROVE  TwoPartitions(p1, p2).kind = "two" /\ TwoPartitions(p1, p2) # NoFault
  BY DEF TwoPartitions, NoFault
<1> QED BY <1>1, <1>2, <1>3, Zenon

\* What a call says of the faults, as the invariant needs it.
Told(x) ==
  /\ x \in Text /\ Tick(x) /\ Draws(x) /\ (info => Annotates(x))
  /\ connected' \subseteq Srv /\ crashed' \subseteq Srv
  /\ x.kind # "two" => x = Fault(connected', crashed')

\* Such a call keeps the timeline.
LEMMA ToldKeeps ==
  ASSUME AnnTypeOK, TimeInv, NEW x, Told(x), UNCHANGED info
  PROVE  TimeInv'
<1>1. now \in 1..(MaxTime + 1) /\ x \in Text /\ Tick(x)
  BY Zenon DEF TimeInv, Told
<1>2. now' - 1 = now /\ truth'[now] = x /\ now' \in 1..(MaxTime + 1)
  BY <1>1, TickClock, Zenon
<1>3. ASSUME info
      PROVE  OngoingInv' /\ EndedInv' /\ ApartInv'
  <2>1. OngoingInv /\ EndedInv /\ ApartInv /\ Annotates(x)
    BY <1>3, Zenon DEF TimeInv, Told
  <2> QED BY <1>1, <2>1, OngoingKept, EndedKept, ApartKept, Zenon
<1>4. FaultInv'
  BY <1>2, Zenon DEF Told, FaultInv
<1> QED BY <1>2, <1>3, <1>4, Zenon DEF TimeInv

\* What the files are about: small numbers.
LEMMA Numbers ==
  \A n \in Nat :
    /\ n + 1 \in Nat /\ n + 1 # 0 /\ (n + 1 = 1 => n = 0) /\ (n = 0 => n + 1 = 1)
    /\ (n > 0 <=> n # 0) /\ (n >= 1 <=> n # 0)
    /\ (n <= 1 <=> n \in {0, 1}) /\ (n < 2 <=> n \in {0, 1})
  OBVIOUS

\* The files of a test of a key/value service that is not over: the flag says that
\* there is one, or that there will be.
KvFiles ==
  suite = "kv" /\ phase # "done" =>
    /\ reports = 0 /\ info /\ written \in {0, 1}
    /\ finalized <=> pretended \/ written = 1
    /\ pretended => written = 0
    /\ written = 1 => visEnable = "always" \/ (visEnable = "" /\ failed)
    /\ phase \in {"run", "set"} => written = 0
    /\ phase = "run" => ~ pretended

\* Those of a test of Raft: the first report of an error writes one.
RaftFiles ==
  suite = "raft" /\ phase # "done" =>
    /\ ~ pretended
    /\ visEnable = "never" => written = 0
    /\ reports = 0 => ~ finalized /\ info /\ written = 0
    /\ reports = 1 /\ visEnable # "never" => finalized /\ written = 1
    /\ reports # 0 /\ visEnable # "never" => written # 0

WriteInv == KvFiles /\ RaftFiles /\ VisualizedOnce

\* The inductive invariant.
AnnInv == AnnTypeOK /\ TimeInv /\ WriteInv

\* The types of the annotations, after a call that draws a fault x.
LEMMA ToldTypes ==
  ASSUME AnnTypeOK, TimeInv, NEW x, Told(x)
  PROVE  /\ now' \in Time /\ truth' \in [Time -> Text]
         /\ continuous' \in [start : Time, text : Text]
         /\ failures' \subseteq [start : Time, end : Time, text : Text]
         /\ connected' \subseteq Srv /\ crashed' \subseteq Srv
<1>1. now \in 1..(MaxTime + 1) /\ x \in Text /\ Tick(x) /\ Draws(x)
  BY Zenon DEF TimeInv, Told
<1>2. now' \in Time /\ truth' \in [Time -> Text]
  BY <1>1, TickClock, Zenon
<1>3. now \in Time /\ 0 \in Time
  BY ZeroTime, Zenon DEF AnnTypeOK
<1>4. continuous \in [start : Time, text : Text]
      /\ failures \subseteq [start : Time, end : Time, text : Text]
  BY Zenon DEF AnnTypeOK
<1>5. Ongoing \in [start : Time, end : Time, text : Text]
  BY <1>3, <1>4 DEF Ongoing
<1>6. Nothing \in [start : Time, text : Text]
  BY <1>3, OtherTexts DEF Nothing
<1>7. [start |-> now, text |-> x] \in [start : Time, text : Text]
  BY <1>1, <1>3
<1>8. continuous' \in [start : Time, text : Text]
      /\ failures' \subseteq [start : Time, end : Time, text : Text]
  BY <1>1, <1>4, <1>5, <1>6, <1>7, Zenon
     DEF Draws, annotateContinuousColor, annotateContinuousEnd
<1> QED BY <1>2, <1>8, Zenon DEF Told

\* A call that tells a fault and is no part of the end of the test.
LEMMA ToldInductive ==
  ASSUME AnnInv, NEW x, Told(x), UNCHANGED <<config, ending>>,
         ckbegin' \in Time, checks' \subseteq [start : Time, end : Time]
  PROVE  AnnInv'
<1>1. AnnTypeOK /\ TimeInv /\ WriteInv
  BY Zenon DEF AnnInv
<1>2. /\ now' \in Time /\ truth' \in [Time -> Text]
      /\ continuous' \in [start : Time, text : Text]
      /\ failures' \subseteq [start : Time, end : Time, text : Text]
      /\ connected' \subseteq Srv /\ crashed' \subseteq Srv
  BY <1>1, ToldTypes, Zenon
<1>3. AnnTypeOK'
  BY <1>1, <1>2, Zenon DEF AnnTypeOK, ending, config
<1>4. TimeInv'
  BY <1>1, ToldKeeps, Zenon DEF ending
<1>5. WriteInv'
  BY <1>1, Zenon DEF WriteInv, KvFiles, RaftFiles, VisualizedOnce, ending, config
<1> QED BY <1>3, <1>4, <1>5, Zenon DEF AnnInv

\* The calls that tell the fault of the connected and the crashed servers, and
\* may be skipped.
LEMMA FaultTold ==
  ASSUME AnnInv, Current.kind # "two",
         NEW conn \in SUBSET Srv, NEW crash \in SUBSET Srv,
         connected' = conn, crashed' = crash, Tick(Fault(conn, crash)),
         \/ conn = connected /\ crash = crashed /\ UNCHANGED <<continuous, failures>>
         \/ annotateFault(conn, crash)
  PROVE  Told(Fault(conn, crash))
<1>1. Fault(conn, crash) \in Text
  BY FaultText, Zenon
<1>2. ASSUME info
      PROVE  Annotates(Fault(conn, crash))
  <2>1. OngoingInv /\ FaultInv
    BY <1>2, Zenon DEF AnnInv, TimeInv
  <2> QED BY <2>1, SkippedAnnotates, FaultAnnotates, Zenon DEF Annotates
<1>3. Draws(Fault(conn, crash))
  BY Zenon DEF Draws, annotateFault
<1> QED BY <1>1, <1>2, <1>3, Zenon DEF Told

\* AnnotateConnection, AnnotateShutdown and AnnotateRestart.
LEMMA FaultCallKeeps ==
  ASSUME AnnInv,
         \/ \E conn \in SUBSET Srv : AnnotateConnection(conn)
         \/ \E servers \in SUBSET Srv \ {{}} :
              AnnotateShutdown(servers) \/ AnnotateRestart(servers)
  PROVE  AnnInv'
<1>1. /\ connected \in SUBSET Srv /\ crashed \in SUBSET Srv
      /\ ckbegin \in Time /\ checks \subseteq [start : Time, end : Time]
  BY Zenon DEF AnnInv, AnnTypeOK
<1>2. ASSUME NEW conn \in SUBSET Srv, AnnotateConnection(conn)
      PROVE  AnnInv'
  <2>1. Told(Fault(conn, crashed))
    BY <1>1, <1>2, FaultTold, Zenon DEF AnnotateConnection
  <2> QED BY <1>1, <1>2, <2>1, ToldInductive, Zenon DEF AnnotateConnection
<1>3. ASSUME NEW servers \in SUBSET Srv, AnnotateShutdown(servers)
      PROVE  AnnInv'
  <2>1. crashed \cup servers \in SUBSET Srv
        /\ (servers \subseteq crashed => crashed \cup servers = crashed)
    BY <1>1, Zenon
  <2>2. Told(Fault(connected, crashed \cup servers))
    BY <1>1, <1>3, <2>1, FaultTold, Zenon DEF AnnotateShutdown
  <2> QED BY <1>1, <1>3, <2>2, ToldInductive, Zenon DEF AnnotateShutdown
<1>4. ASSUME NEW servers \in SUBSET Srv, AnnotateRestart(servers)
      PROVE  AnnInv'
  <2>1. crashed \ servers \in SUBSET Srv
        /\ (servers \cap crashed = {} => crashed \ servers = crashed)
    BY <1>1, Zenon
  <2>2. Told(Fault(connected, crashed \ servers))
    BY <1>1, <1>4, <2>1, FaultTold, Zenon DEF AnnotateRestart
  <2> QED BY <1>1, <1>4, <2>2, ToldInductive, Zenon DEF AnnotateRestart
<1> QED BY <1>2, <1>3, <1>4, Zenon

\* The fault goes on while something else is annotated.
LEMMA SameTold ==
  ASSUME AnnInv, Tick(Current), UNCHANGED <<connected, crashed, continuous, failures>>
  PROVE  Told(Current)
<1>1. AnnTypeOK /\ TimeInv /\ now \in 1..(MaxTime + 1)
  BY Zenon DEF AnnInv, TimeInv
<1>2. now - 1 \in Time
  BY <1>1, TimeAssumption DEF Time
<1>3. Current \in Text /\ connected \subseteq Srv /\ crashed \subseteq Srv
  BY <1>1, <1>2, Zenon DEF AnnTypeOK, Current
<1>4. info => Current = continuous.text
  BY <1>1, Zenon DEF TimeInv, OngoingInv, Current
<1>5. Current.kind # "two" => Current = Fault(connected, crashed)
  BY <1>1, Zenon DEF TimeInv, FaultInv, Current
<1> QED BY <1>3, <1>4, <1>5, Zenon DEF Told, Annotates, Draws

\* The annotation of a check.
LEMMA CheckerType ==
  ASSUME AnnTypeOK
  PROVE  CheckerEnd \in [start : Time, end : Time]
<1>1. ckbegin \in Time /\ now \in Time
  BY Zenon DEF AnnTypeOK
<1> QED BY <1>1, ZeroTime DEF CheckerEnd

\* The other calls; those of the checker leave the fault as it is.
LEMMA OtherCallKeeps ==
  ASSUME AnnInv,
         \/ \E p1 \in SUBSET Srv : AnnotateTwoPartitions(p1, Srv \ p1)
         \/ AnnotateClearFailure \/ AnnotateCheckerBegin \/ AnnotateCheckerEnd
  PROVE  AnnInv'
<1>1. /\ connected \subseteq Srv /\ crashed \subseteq Srv
      /\ ckbegin \in Time /\ checks \subseteq [start : Time, end : Time] /\ now \in Time
  BY Zenon DEF AnnInv, AnnTypeOK
<1>2. ASSUME NEW p1 \in SUBSET Srv, AnnotateTwoPartitions(p1, Srv \ p1)
      PROVE  AnnInv'
  <2>1. Told(TwoPartitions(p1, Srv \ p1))
    BY <1>1, <1>2, OtherTexts, Zenon
       DEF AnnotateTwoPartitions, Told, Annotates, Draws, finfo
  <2> QED BY <1>1, <1>2, <2>1, ToldInductive, Zenon DEF AnnotateTwoPartitions, finfo
<1>3. CASE AnnotateClearFailure
  <2>1. Told(NoFault)
    BY <1>1, <1>3, OtherTexts, Zenon DEF AnnotateClearFailure, Told, Annotates, Draws
  <2> QED BY <1>1, <1>3, <2>1, ToldInductive, Zenon DEF AnnotateClearFailure
<1>4. CASE AnnotateCheckerBegin
  <2>1. Told(Current)
    BY <1>4, SameTold, Zenon DEF AnnotateCheckerBegin
  <2> QED BY <1>1, <1>4, <2>1, ToldInductive, Zenon DEF AnnotateCheckerBegin
<1>5. CASE AnnotateCheckerEnd
  <2>1. Told(Current)
    BY <1>5, SameTold, Zenon DEF AnnotateCheckerEnd, finfo
  <2>2. checks' \subseteq [start : Time, end : Time]
    BY <1>1, <1>5, CheckerType, Zenon DEF AnnotateCheckerEnd, AnnInv
  <2> QED BY <1>1, <1>5, <2>1, <2>2, ToldInductive, Zenon DEF AnnotateCheckerEnd, finfo
<1> QED BY <1>2, <1>3, <1>4, <1>5, Zenon

\* What cleanup does to the annotations: it clears them, or they stay.
LEMMA CleanupTypes ==
  ASSUME AnnTypeOK, NEW fails, NEW all \in SUBSET [start : Time, end : Time],
         cleanup(fails, all)
  PROVE  /\ continuous' \in [start : Time, text : Text]
         /\ failures' \subseteq [start : Time, end : Time, text : Text]
         /\ checks' \subseteq [start : Time, end : Time]
         /\ info' \in BOOLEAN /\ finalized' \in BOOLEAN /\ written' \in Nat
         /\ info' => UNCHANGED <<continuous, failures, info>>
<1>1. Nothing \in [start : Time, text : Text]
  BY ZeroTime, OtherTexts DEF Nothing
<1>2. written \in Nat /\ written + 1 \in Nat
  BY Numbers, Zenon DEF AnnTypeOK
<1>3. CASE Skips(fails)
  BY <1>1, <1>2, <1>3, Zenon DEF cleanup, clear, AnnTypeOK
<1>4. CASE ~ Skips(fails)
  BY <1>2, <1>4, Zenon DEF cleanup, AnnTypeOK
<1> QED BY <1>3, <1>4, Zenon

\* A report of an error: the first one writes a file.
LEMMA ApplyErrKeeps == ASSUME AnnInv, ApplyErr PROVE AnnInv'
<1>1. AnnTypeOK /\ TimeInv /\ WriteInv
  BY Zenon DEF AnnInv
<1>2. /\ suite = "raft" /\ phase # "done" /\ phase' = phase /\ Tick(Current)
      /\ cleanup(TRUE, checks \cup {CheckerEnd}) /\ reports' = reports + 1
      /\ UNCHANGED <<visEnable, suite, connected, crashed, ckbegin, failed, pretended>>
  BY Zenon DEF ApplyErr, Tick, config, finfo
<1>3. checks \cup {CheckerEnd} \in SUBSET [start : Time, end : Time]
  BY <1>1, CheckerType, Zenon DEF AnnTypeOK
<1>4. /\ continuous' \in [start : Time, text : Text]
      /\ failures' \subseteq [start : Time, end : Time, text : Text]
      /\ checks' \subseteq [start : Time, end : Time]
      /\ info' \in BOOLEAN /\ finalized' \in BOOLEAN /\ written' \in Nat
      /\ info' => UNCHANGED <<continuous, failures, info>>
  BY <1>1, <1>2, <1>3, CleanupTypes, Zenon
<1>5. /\ reports \in Nat /\ reports' \in Nat /\ reports' # 0 /\ (reports' = 1 => reports = 0)
      /\ written \in Nat /\ written + 1 # 0 /\ (written = 0 => written + 1 = 1)
  BY <1>1, <1>2, Numbers, Zenon DEF AnnTypeOK
<1>6. now \in 1..(MaxTime + 1) /\ Current \in Text
  <2>1. now \in 1..(MaxTime + 1)
    BY <1>1, Zenon DEF TimeInv
  <2>2. now - 1 \in Time
    BY <2>1, TimeAssumption DEF Time
  <2> QED BY <1>1, <2>1, <2>2, Zenon DEF AnnTypeOK, Current
<1>7. /\ now' \in Time /\ now' \in 1..(MaxTime + 1) /\ now' - 1 = now
      /\ truth' \in [Time -> Text] /\ truth'[now] = Current
  BY <1>1, <1>2, <1>6, TickClock, Zenon
<1>8. AnnTypeOK'
  BY <1>1, <1>2, <1>4, <1>5, <1>7, Zenon DEF AnnTypeOK
<1>9. TimeInv'
  <2>1. FaultInv'
    BY <1>1, <1>2, <1>7, Zenon DEF TimeInv, FaultInv, Current
  <2>2. ASSUME info'
        PROVE  OngoingInv' /\ EndedInv' /\ ApartInv'
    <3>1. OngoingInv /\ EndedInv /\ ApartInv /\ UNCHANGED <<continuous, failures>>
      BY <1>1, <1>4, <2>2, Zenon DEF TimeInv
    <3>2. Annotates(Current)
      BY <3>1, Zenon DEF Annotates, OngoingInv, Current
    <3> QED BY <1>1, <1>2, <1>6, <3>1, <3>2, OngoingKept, EndedKept, ApartKept, Zenon
  <2> QED BY <1>7, <2>1, <2>2, Zenon DEF TimeInv
<1>10. WriteInv'
  <2>1. /\ ~ pretended
        /\ visEnable = "never" => written = 0
        /\ reports = 0 => ~ finalized /\ info /\ written = 0
        /\ reports # 0 /\ visEnable # "never" => written # 0
    BY <1>1, <1>2, Zenon DEF WriteInv, RaftFiles
  <2>2. checks \cup {CheckerEnd} # {}
    BY Zenon
  <2>3. /\ visEnable = "never" \/ finalized => UNCHANGED written
        /\ visEnable # "never" /\ ~ finalized => finalized' /\ written' = written + 1
    BY <1>2, <2>2, Zenon DEF cleanup, Skips
  <2>4. finalized \in BOOLEAN
    BY <1>1, Zenon DEF AnnTypeOK
  <2>5. RaftFiles'
    BY <1>2, <1>5, <2>1, <2>3, <2>4, Zenon DEF RaftFiles
  <2> QED BY <1>2, <2>5, Zenon DEF WriteInv, KvFiles, VisualizedOnce
<1> QED BY <1>8, <1>9, <1>10, Zenon DEF AnnInv

\* The clean-up at the end.
LEMMA CleanupKeeps == ASSUME AnnInv, Cleanup PROVE AnnInv'
<1>1. AnnTypeOK /\ TimeInv /\ WriteInv
  BY Zenon DEF AnnInv
<1>2. /\ phase # "done" /\ phase' = "done" /\ cleanup(failed, checks)
      /\ UNCHANGED <<visEnable, suite, now, connected, crashed, ckbegin, truth, failed,
                     reports, pretended>>
  BY Zenon DEF Cleanup, config, finfo
<1>3. checks \in SUBSET [start : Time, end : Time]
  BY <1>1, Zenon DEF AnnTypeOK
<1>4. /\ continuous' \in [start : Time, text : Text]
      /\ failures' \subseteq [start : Time, end : Time, text : Text]
      /\ checks' \subseteq [start : Time, end : Time]
      /\ info' \in BOOLEAN /\ finalized' \in BOOLEAN /\ written' \in Nat
      /\ info' => UNCHANGED <<continuous, failures, info>>
  BY <1>1, <1>2, <1>3, CleanupTypes, Zenon
<1>5. AnnTypeOK'
  BY <1>1, <1>2, <1>4, Zenon DEF AnnTypeOK
<1>6. TimeInv'
  BY <1>1, <1>2, <1>4, Zenon
     DEF TimeInv, OngoingInv, EndedInv, ApartInv, Blank, FaultInv
<1>7. WriteInv'
  <2>1. /\ written \in Nat /\ written' \in Nat /\ reports \in Nat
        /\ visEnable \in {"", "always", "never"} /\ suite \in {"raft", "kv"}
        /\ finalized \in BOOLEAN
    BY <1>1, <1>4, Zenon DEF AnnTypeOK
  <2>2. /\ written + 1 # 0 /\ (written = 0 => written + 1 = 1)
        /\ (reports > 0 <=> reports # 0) /\ (reports < 2 <=> reports \in {0, 1})
        /\ (written' >= 1 <=> written' # 0) /\ (written' <= 1 <=> written' \in {0, 1})
    BY <2>1, Numbers, Zenon
  <2>3. /\ Skips(failed) => UNCHANGED written
        /\ ~ Skips(failed) => written' \in {written, written + 1}
        /\ ~ Skips(failed) /\ info => written' = written + 1
    BY <1>2, Zenon DEF cleanup
  <2>4. ASSUME suite = "kv"
        PROVE  VisualizedOnce'
    <3>1. /\ reports = 0 /\ info /\ written \in {0, 1}
          /\ finalized <=> pretended \/ written = 1
          /\ pretended => written = 0
          /\ written = 1 => visEnable = "always" \/ (visEnable = "" /\ failed)
      BY <1>1, <1>2, <2>4, Zenon DEF WriteInv, KvFiles
    <3> QED BY <1>2, <2>1, <2>2, <2>3, <3>1, Zenon DEF VisualizedOnce, Skips
  <2>5. ASSUME suite = "raft"
        PROVE  VisualizedOnce'
    <3>1. /\ ~ pretended
          /\ visEnable = "never" => written = 0
          /\ reports = 0 => ~ finalized /\ info /\ written = 0
          /\ reports = 1 /\ visEnable # "never" => finalized /\ written = 1
          /\ reports # 0 /\ visEnable # "never" => written # 0
      BY <1>1, <1>2, <2>5, Zenon DEF WriteInv, RaftFiles
    <3>2. CASE reports = 0
      <4>1. Skips(failed) <=> visEnable = "never" \/ (~ failed /\ visEnable # "always")
        BY <3>1, <3>2, Zenon DEF Skips
      <4>2. /\ Skips(failed) => written' = 0
            /\ ~ Skips(failed) => written' = 1
        BY <2>2, <2>3, <3>1, <3>2, Zenon
      <4> QED BY <1>2, <2>1, <2>2, <3>2, <4>1, <4>2, Zenon DEF VisualizedOnce
    <3>3. CASE reports # 0 /\ visEnable = "never"
      <4>1. written' = 0
        BY <2>3, <3>1, <3>3, Zenon DEF Skips
      <4> QED BY <1>2, <2>2, <3>3, <4>1, Zenon DEF VisualizedOnce
    <3>4. CASE reports # 0 /\ visEnable # "never"
      <4>1. written' # 0 /\ (reports = 1 => written' = 1)
        BY <2>2, <2>3, <3>1, <3>4, Zenon DEF Skips
      <4>2. reports < 2 => written' \in {0, 1}
        BY <2>2, <3>4, <4>1, Zenon
      <4> QED BY <1>2, <2>1, <2>2, <3>4, <4>1, <4>2, Zenon DEF VisualizedOnce
    <3> QED BY <3>2, <3>3, <3>4, Zenon
  <2> QED BY <1>2, <2>1, <2>4, <2>5, Zenon DEF WriteInv, KvFiles, RaftFiles
<1> QED BY <1>5, <1>6, <1>7, Zenon DEF AnnInv

\* The other steps that lead to the end leave the annotations as they are.
LEMMA EndKeeps ==
  ASSUME AnnInv,
         \/ SetAnnotationFinalized \/ Fail
         \/ \E legal \in BOOLEAN : checkPorcupine(legal)
  PROVE  AnnInv'
<1>1. AnnTypeOK /\ TimeInv /\ WriteInv
  BY Zenon DEF AnnInv
<1>2. /\ written \in Nat /\ written + 1 \in Nat /\ (written = 0 => written + 1 = 1)
      /\ finalized \in BOOLEAN /\ visEnable \in {"", "always", "never"}
      /\ failed \in BOOLEAN /\ pretended \in BOOLEAN
  BY <1>1, Numbers, Zenon DEF AnnTypeOK
<1>3. ASSUME UNCHANGED <<config, now, finfo, continuous, failures, checks, truth, info, reports>>,
             phase' \in {"run", "set", "checked", "ended"}, finalized' \in BOOLEAN,
             failed' \in BOOLEAN, pretended' \in BOOLEAN, written' \in Nat
      PROVE  AnnTypeOK' /\ TimeInv'
  <2>1. AnnTypeOK'
    BY <1>1, <1>3, Zenon DEF AnnTypeOK, finfo, config
  <2>2. TimeInv'
    BY <1>1, <1>3, Zenon
       DEF TimeInv, OngoingInv, EndedInv, ApartInv, Blank, FaultInv, finfo
  <2> QED BY <2>1, <2>2, Zenon
<1>4. CASE SetAnnotationFinalized
  <2>1. AnnTypeOK' /\ TimeInv'
    BY <1>2, <1>3, <1>4, Zenon DEF SetAnnotationFinalized
  <2>2. WriteInv'
    BY <1>1, <1>4, Zenon
       DEF SetAnnotationFinalized, WriteInv, KvFiles, RaftFiles, VisualizedOnce, config
  <2> QED BY <2>1, <2>2, Zenon DEF AnnInv
<1>5. CASE Fail
  <2>1. phase' \in {"run", "set", "checked", "ended"} /\ phase' \in {phase, "ended"}
    BY <1>1, <1>5, Zenon DEF Fail, AnnTypeOK
  <2>2. AnnTypeOK' /\ TimeInv'
    BY <1>2, <1>3, <1>5, <2>1, Zenon DEF Fail
  <2>3. WriteInv'
    BY <1>1, <1>5, <2>1, Zenon DEF Fail, WriteInv, KvFiles, RaftFiles, VisualizedOnce, config
  <2> QED BY <2>2, <2>3, Zenon DEF AnnInv
<1>6. ASSUME NEW legal \in BOOLEAN, checkPorcupine(legal)
      PROVE  AnnInv'
  <2>1. phase' \in {"run", "checked", "ended"} /\ (phase' = "run" => phase = "run" /\ legal)
        /\ suite = "kv" /\ phase \in {"run", "set"}
    BY <1>6, Zenon DEF checkPorcupine
  <2>2. AnnTypeOK' /\ TimeInv'
    BY <1>2, <1>3, <1>6, <2>1, Zenon DEF checkPorcupine
  <2>3. /\ reports = 0 /\ info /\ written = 0
        /\ finalized <=> pretended
        /\ phase = "run" => ~ pretended
    <3>1. phase # "done" /\ 0 # 1
      BY <2>1
    <3> QED BY <1>1, <2>1, <3>1, Zenon DEF WriteInv, KvFiles
  <2>4. UNCHANGED <<visEnable, suite, info, reports>> /\ failed' = (failed \/ ~ legal)
    BY <1>6, Zenon DEF checkPorcupine, config
  <2>5. suite' = "kv" /\ phase' # "done" /\ phase' # "set"
    BY <2>1, <2>4, Zenon
  <2>6. ASSUME finalized' = TRUE /\ written' = written + 1 /\ pretended' = FALSE,
               \/ ~ legal /\ visEnable # "never"
               \/ legal /\ visEnable = "always" /\ finalized
        PROVE  KvFiles'
    <3>1. phase' # "run"
      BY <2>1, <2>3, <2>6, Zenon
    <3>2. written' = 1 /\ finalized' /\ ~ pretended'
      BY <1>2, <2>3, <2>6, Zenon
    <3>3. visEnable = "always" \/ (visEnable = "" /\ failed')
      BY <1>2, <2>4, <2>6, Zenon
    <3>4. phase' \notin {"run", "set"}
      BY <2>5, <3>1, Zenon
    <3>5. written' \in {0, 1}
      BY <3>2
    <3>6. reports' = 0 /\ info' /\ visEnable' = visEnable
      BY <2>3, <2>4, Zenon
    <3> QED BY <3>2, <3>3, <3>4, <3>5, <3>6, Zenon DEF KvFiles
  <2>7. ASSUME UNCHANGED <<finalized, written, pretended>>
        PROVE  KvFiles'
    <3>1. written # 1 /\ written \in {0, 1}
      BY <2>3
    <3>2. written' = 0 /\ written' # 1 /\ written' \in {0, 1}
      BY <2>3, <2>7, <3>1, Zenon
    <3>3. reports' = 0 /\ info' /\ (finalized' <=> pretended')
      BY <2>3, <2>4, <2>7, Zenon
    <3>4. phase' = "run" => ~ pretended'
      BY <2>1, <2>3, <2>7, Zenon
    <3> QED BY <3>2, <3>3, <3>4, Zenon DEF KvFiles
  <2>8. KvFiles'
    <3>1. IF \/ ~ legal /\ visEnable # "never"
             \/ legal /\ visEnable = "always" /\ finalized
          THEN finalized' = TRUE /\ written' = written + 1 /\ pretended' = FALSE
          ELSE UNCHANGED <<finalized, written, pretended>>
      BY <1>6, Zenon DEF checkPorcupine
    <3>2. ASSUME \/ ~ legal /\ visEnable # "never"
                 \/ legal /\ visEnable = "always" /\ finalized
          PROVE  KvFiles'
      <4>1. finalized' = TRUE /\ written' = written + 1 /\ pretended' = FALSE
        BY <3>1, <3>2, Zenon
      <4> QED BY <2>6, <3>2, <4>1, Zenon
    <3>3. ASSUME ~ (\/ ~ legal /\ visEnable # "never"
                    \/ legal /\ visEnable = "always" /\ finalized)
          PROVE  KvFiles'
      <4>1. UNCHANGED <<finalized, written, pretended>>
        BY <3>1, <3>3, Zenon
      <4> QED BY <2>7, <4>1, Zenon
    <3> QED BY <3>2, <3>3, Zenon
  <2>9. WriteInv'
    BY <2>5, <2>8, Zenon DEF WriteInv, RaftFiles, VisualizedOnce
  <2> QED BY <2>2, <2>9, Zenon DEF AnnInv
<1> QED BY <1>4, <1>5, <1>6, Zenon

\* AnnotateTest starts with an empty timeline.
LEMMA AnnStarts == AnnotateTest => AnnInv
<1> SUFFICES ASSUME AnnotateTest PROVE AnnInv
  BY Zenon
<1>1. 0 \in Time /\ 1 \in Time /\ 1 \in 1..(MaxTime + 1) /\ 1 - 1 = 0
      /\ \A t : t \notin 1..0
  BY TimeAssumption DEF Time
<1>2. truth[now - 1] = NoFault /\ now - 1 = 0 /\ now = 1
  BY <1>1, Zenon DEF AnnotateTest
<1>3. 0 \in Nat /\ 0 \in {0, 1} /\ 0 # 1
  OBVIOUS
<1>4. AnnTypeOK
  BY <1>1, <1>3, OtherTexts, Zenon DEF AnnotateTest, AnnTypeOK, Nothing
<1>5. OngoingInv
  BY <1>1, <1>2, NothingFields, Zenon DEF AnnotateTest, OngoingInv
<1>6. EndedInv /\ ApartInv
  BY <1>1, <1>2, Zenon DEF AnnotateTest, EndedInv, ApartInv
<1>7. FaultInv
  BY <1>2, OtherTexts, Zenon DEF AnnotateTest, FaultInv
<1>8. WriteInv
  BY <1>3, Zenon DEF AnnotateTest, WriteInv, KvFiles, RaftFiles, VisualizedOnce
<1> QED BY <1>1, <1>2, <1>4, <1>5, <1>6, <1>7, <1>8, Zenon DEF AnnInv, TimeInv

\* Every call preserves the invariant.
LEMMA AnnInductive == AnnInv /\ [AnnNext]_annVars => AnnInv'
<1> SUFFICES ASSUME AnnInv, [AnnNext]_annVars PROVE AnnInv'
  BY Zenon
<1>1. CASE UNCHANGED annVars
  <2>1. UNCHANGED <<visEnable, suite, now, connected, crashed, ckbegin, continuous, failures,
                    checks, truth, info, finalized, phase, failed, reports, pretended, written>>
    BY <1>1, Zenon DEF annVars, finfo, ending, config
  <2>2. AnnTypeOK'
    BY <2>1, Zenon DEF AnnInv, AnnTypeOK
  <2>3. TimeInv'
    BY <2>1, Zenon DEF AnnInv, TimeInv, OngoingInv, EndedInv, ApartInv, Blank, FaultInv
  <2>4. WriteInv'
    BY <2>1, Zenon DEF AnnInv, WriteInv, KvFiles, RaftFiles, VisualizedOnce
  <2> QED BY <2>2, <2>3, <2>4, Zenon DEF AnnInv
<1> QED BY <1>1, FaultCallKeeps, OtherCallKeeps, ApplyErrKeeps, CleanupKeeps, EndKeeps, Zenon
        DEF AnnNext

\* The invariant holds in every state.
LEMMA AnnAlways == AnnSpec => []AnnInv
<1> QED BY AnnStarts, AnnInductive, PTL DEF AnnSpec

\* The annotations with a text tell each fault of the test at its time and nothing
\* else, one at a time, and those without one are blank ones from the start
\* (annotateFault, annotateContinuousColor and annotateContinuousEnd), for any
\* servers and any number of calls.
THEOREM TimelineTheorem == AnnSpec => []Timeline
<1>1. AnnInv => Timeline
  <2> SUFFICES ASSUME AnnInv, info PROVE Timeline
    BY Zenon DEF Timeline
  <2>1. OngoingInv /\ EndedInv /\ ApartInv /\ AnnTypeOK
    BY Zenon DEF AnnInv, TimeInv
  <2>2. /\ Ongoing.start = continuous.start /\ Ongoing.end = now
        /\ Ongoing.text = continuous.text
    BY DEF Ongoing
  <2>3. now \in Nat /\ continuous.start \in Nat
    BY <2>1, AnnTypes, Zenon
  <2>4. ASSUME NEW t \in 1..(now - 1)
        PROVE  /\ {i.text : i \in {i \in finalize : Shows(i, t)}} = {truth[t]} \ {NoFault}
               /\ \A i, j \in {k \in finalize : Shows(k, t)} : i = j
    <3>1. t < now /\ t \in Nat
      BY <2>3
    <3>2. ASSUME NEW i \in finalize, Shows(i, t)
          PROVE  i.text = truth[t]
      <4>1. CASE i \in failures
        BY <2>1, <3>2, <4>1, Zenon DEF EndedInv
      <4>2. CASE continuous # Nothing /\ i = Ongoing
        <5>1. continuous.start <= t
          BY <2>2, <3>2, <4>2, Zenon DEF Shows
        <5>2. t \in continuous.start..(now - 1)
          BY <2>3, <3>1, <5>1
        <5> QED BY <2>1, <2>2, <4>2, <5>2, Zenon DEF OngoingInv
      <4> QED BY <4>1, <4>2, Zenon DEF finalize
    <3>3. ASSUME truth[t] # NoFault
          PROVE  \E i \in finalize : Shows(i, t)
      <4>1. CASE \E i \in failures : Shows(i, t)
        BY <4>1, Zenon DEF finalize
      <4>2. CASE continuous # Nothing /\ continuous.start <= t
        <5>1. Shows(Ongoing, t)
          BY <2>1, <2>2, <3>1, <4>2, Zenon DEF OngoingInv, Shows
        <5> QED BY <4>2, <5>1, Zenon DEF finalize
      <4> QED BY <2>1, <3>3, <4>1, <4>2, Zenon DEF EndedInv
    <3>4. ASSUME NEW k \in failures, Shows(k, t), continuous # Nothing, Shows(Ongoing, t)
          PROVE  FALSE
      <4>1. k.text # NoFault /\ t < k.end /\ continuous.start <= t
        BY <2>2, <3>4, Zenon DEF Shows
      <4>2. k.end <= continuous.start /\ k.end \in 1..(now - 1)
        BY <2>1, <3>4, <4>1, Zenon DEF ApartInv, EndedInv
      <4> QED BY <2>3, <3>1, <4>1, <4>2
    <3>5. ASSUME NEW i \in finalize, NEW j \in finalize, Shows(i, t), Shows(j, t)
          PROVE  i = j
      BY <2>1, <3>4, <3>5, Zenon DEF finalize, ApartInv
    <3> QED BY <3>2, <3>3, <3>5, Zenon DEF Shows
  <2>5. ASSUME NEW i \in finalize, i.text = NoFault
        PROVE  Blank(i)
    BY <2>1, <2>2, <2>5, Zenon DEF finalize, OngoingInv, ApartInv
  <2> QED BY <2>4, <2>5, Zenon DEF Timeline, Shows, Blank
<1> QED BY <1>1, AnnAlways, PTL

\* How often a test that is over was visualized (checkPorcupine, cleanup and the
\* reports of errors), whatever VIS_ENABLE and however often it was checked.
THEOREM VisualizedOnceTheorem == AnnSpec => []VisualizedOnce
<1>1. AnnInv => VisualizedOnce
  BY Zenon DEF AnnInv, WriteInv
<1> QED BY <1>1, AnnAlways, PTL
=============================================================================
