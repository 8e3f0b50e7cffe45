------------------------------- MODULE KvModel -------------------------------
(***************************************************************************)
(* The sequential model of the key/value service for one key (models1/kv.go),*)
(* against which porcupine checks histories.  The service is the lab's       *)
(* exercise; the workload of KvPut runs on this model of it.                 *)
(***************************************************************************)
EXTENDS Naturals

\* Step: the outputs a Put with this version may have in a state; on a reliable
\* network the clerk resends nothing, and there is no ErrMaybe.
PutErrs(st, version, reliable) ==
  {e \in {"OK", "ErrVersion", "ErrMaybe"} :
     /\ e # (IF st.Version = version THEN "ErrVersion" ELSE "OK")
     /\ reliable => e # "ErrMaybe"}

\* Mutant: the value stays.
PutStates_Keep(st, value, version, err, lose) ==
  IF st.Version # version THEN {st}
  ELSE {[Value |-> st.Value, Version |-> version + 1]}
       \cup (IF lose /\ err = "OK" THEN {st} ELSE {})

\* The state a Put leaves; a service that loses one Put (lose) may leave it
\* as it was.
PutStates(st, value, version, err, lose) ==
  IF st.Version # version THEN {st}
  ELSE {[Value |-> value, Version |-> version + 1]}
       \cup (IF lose /\ err = "OK" THEN {st} ELSE {})

=============================================================================
