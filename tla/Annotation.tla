------------------------------ MODULE Annotation ------------------------------
(***************************************************************************)
(* The annotations of a test (tester1/annotation.go): the faults the tester  *)
(* injects are shown as intervals on the timeline of the visualization of    *)
(* the test's history, and so are the checks.  The file is written by        *)
(* checkPorcupine (kvtest1/porcupine.go), when the test is cleaned up, or     *)
(* when a Raft server reports an error (raft1/test.go).                      *)
(* Each call holds finfo.mu or annotation.mu from beginning to end, so that  *)
(* each is one action, at one instant of the clock.  cleanup takes the mutex  *)
(* twice; the two callers do not overlap, since Config.Cleanup stops the     *)
(* tester's RPC service before it cleans up the annotations.                 *)
(***************************************************************************)
EXTENDS Naturals

CONSTANTS
  Srv,           \* servers
  MaxTime        \* bound on the calls in a test

ASSUME TimeAssumption == MaxTime \in Nat \ {0}

VARIABLES
  visEnable,     \* the environment variable VIS_ENABLE: "", "always" or "never"
  suite,         \* a test of Raft ("raft") or of a key/value service ("kv")
  now,           \* timestamp(), from the start of the test
  connected, crashed, ckbegin,   \* finfo
  continuous,    \* the on-going annotation for TAG_PARTITION, or Nothing
  failures,      \* the intervals of TAG_PARTITION in annotations; no two end at
                 \* the same time, and their order is that of their ends
  checks,        \* the annotations of TAG_CHECKER
  info,          \* is AnnotateTest's annotation of TAG_INFO there?
  finalized,
  truth,         \* truth[t]: the fault there was from t on until t + 1; none at 0
  phase,         \* where the test is: "run", "set" (SetAnnotationFinalized),
                 \* "checked" (and checkPorcupine), "ended" (before its end), "done"
  failed,        \* has the test failed?
  reports,       \* errors that servers reported (ApplyErr)
  pretended,     \* SetAnnotationFinalized was called, and no file written since
  written        \* visualizations written

finfo == <<connected, crashed, ckbegin>>
config == <<visEnable, suite>>
ending == <<info, finalized, phase, failed, reports, pretended, written>>
annVars == <<config, now, finfo, continuous, failures, checks, truth, ending>>

\* The description of a fault: annotateFault's, from the connected and the
\* crashed servers, and that of AnnotateTwoPartitions.
NoFault == [kind |-> "none", a |-> {}, b |-> {}]
Fault(conn, crash) ==
  IF conn = Srv /\ crash = {} THEN NoFault
  ELSE [kind |-> "fault", a |-> conn \ crash, b |-> crash]
TwoPartitions(p1, p2) == [kind |-> "two", a |-> p1, b |-> p2]
Text == [kind : {"none", "fault", "two"}, a : SUBSET Srv, b : SUBSET Srv]

Time == 0..(MaxTime + 1)
Nothing == [start |-> 0, text |-> NoFault]

AnnTypeOK ==
  /\ visEnable \in {"", "always", "never"} /\ suite \in {"raft", "kv"}
  /\ now \in Time
  /\ connected \subseteq Srv /\ crashed \subseteq Srv
  /\ ckbegin \in Time
  /\ continuous \in [start : Time, text : Text]
  /\ failures \subseteq [start : Time, end : Time, text : Text]
  /\ checks \subseteq [start : Time, end : Time]
  /\ info \in BOOLEAN /\ finalized \in BOOLEAN
  /\ failed \in BOOLEAN /\ pretended \in BOOLEAN
  /\ truth \in [Time -> Text]
  /\ phase \in {"run", "set", "checked", "ended", "done"}
  /\ reports \in Nat /\ written \in Nat

\* AnnotateTest: a new FrameworkInfo, clear(), and an annotation.
AnnotateTest ==
  /\ visEnable \in {"", "always", "never"} /\ suite \in {"raft", "kv"}
  /\ now = 1
  /\ connected = Srv /\ crashed = {} /\ ckbegin = 0
  /\ continuous = Nothing /\ failures = {} /\ checks = {}
  /\ info = TRUE /\ finalized = FALSE
  /\ truth = [t \in Time |-> NoFault]
  /\ phase = "run" /\ failed = FALSE
  /\ reports = 0 /\ pretended = FALSE /\ written = 0

-----------------------------------------------------------------------------
(* Annotations with a duration.                                            *)

\* The on-going one, if it ends now.
Ongoing == [start |-> continuous.start, end |-> now, text |-> continuous.text]

\* Mutant: the annotation that was on-going is dropped.
annotateContinuousColor_Drop(text) ==
  /\ UNCHANGED failures
  /\ continuous' = [start |-> now, text |-> text]

\* The previous one ends where the new one begins.
annotateContinuousColor(text) ==
  /\ failures' = IF continuous = Nothing THEN failures
                 ELSE failures \cup {Ongoing}
  /\ continuous' = [start |-> now, text |-> text]

\* With none on-going the zero Continuous is ended: no return after the test.
annotateContinuousEnd ==
  /\ failures' = failures \cup {Ongoing}
  /\ continuous' = Nothing

annotateFault(conn, crash) ==
  IF Fault(conn, crash) = NoFault THEN annotateContinuousEnd
  ELSE annotateContinuousColor(Fault(conn, crash))

\* The clock and the fault from now on.
Tick(text) ==
  /\ phase # "done"
  /\ now <= MaxTime
  /\ now' = now + 1
  /\ truth' = [truth EXCEPT ![now] = text]

Current == truth[now - 1]

-----------------------------------------------------------------------------
(* The faults.  annotation.go:227-230 says that AnnotateTwoPartitions does   *)
(* not go with the other calls: they are made outside of such a partition.   *)

AnnotateConnection(connection) ==
  /\ Current.kind # "two"
  /\ Tick(Fault(connection, crashed))
  /\ connected' = connection
  /\ IF connected = connection THEN UNCHANGED <<continuous, failures>>
     ELSE annotateFault(connection, crashed)
  /\ UNCHANGED <<config, crashed, ckbegin, checks, ending>>

AnnotateShutdown(servers) ==
  /\ Current.kind # "two"
  /\ Tick(Fault(connected, crashed \cup servers))
  /\ crashed' = crashed \cup servers
  /\ IF servers \subseteq crashed THEN UNCHANGED <<continuous, failures>>
     ELSE annotateFault(connected, crashed \cup servers)
  /\ UNCHANGED <<config, connected, ckbegin, checks, ending>>

AnnotateRestart(servers) ==
  /\ Current.kind # "two"
  /\ Tick(Fault(connected, crashed \ servers))
  /\ crashed' = crashed \ servers
  /\ IF servers \cap crashed = {} THEN UNCHANGED <<continuous, failures>>
     ELSE annotateFault(connected, crashed \ servers)
  /\ UNCHANGED <<config, connected, ckbegin, checks, ending>>

AnnotateTwoPartitions(p1, p2) ==
  /\ Tick(TwoPartitions(p1, p2))
  /\ annotateContinuousColor(TwoPartitions(p1, p2))
  /\ UNCHANGED <<config, finfo, checks, ending>>

AnnotateClearFailure ==
  /\ Tick(NoFault)
  /\ crashed' = {} /\ connected' = Srv
  /\ annotateContinuousEnd
  /\ UNCHANGED <<config, ckbegin, checks, ending>>

-----------------------------------------------------------------------------
(* The checks.                                                             *)

AnnotateCheckerBegin ==
  /\ Tick(Current)
  /\ ckbegin' = now
  /\ UNCHANGED <<config, connected, crashed, continuous, failures, checks, ending>>

\* A point in time (here with end 0) if no begin is set, an interval otherwise;
\* what is reset after that is a copy.
CheckerEnd == IF ckbegin = 0 THEN [start |-> now, end |-> 0]
              ELSE [start |-> ckbegin, end |-> now]

AnnotateCheckerEnd ==
  /\ Tick(Current)
  /\ checks' = checks \cup {CheckerEnd}
  /\ UNCHANGED <<config, finfo, continuous, failures, ending>>

-----------------------------------------------------------------------------
(* The end of the test.                                                    *)

\* finalize(): the annotations of the faults, the on-going one included.
finalize ==
  IF continuous = Nothing THEN failures
  ELSE failures \cup {Ongoing}

clear ==
  /\ failures' = {} /\ checks' = {} /\ continuous' = Nothing
  /\ info' = FALSE /\ finalized' = FALSE

\* Mutant: it does not matter whether the test is finalized.
Skips_Again(fails) ==
  \/ visEnable = "never"
  \/ ~ fails /\ visEnable # "always"

\* When cleanup only clears.
Skips(fails) ==
  \/ visEnable = "never"
  \/ ~ fails /\ visEnable # "always"
  \/ finalized

\* annotation.cleanup, with the annotations `all' of the checks.
cleanup(fails, all) ==
  IF Skips(fails) THEN clear /\ UNCHANGED written
  ELSE /\ finalized' = TRUE /\ checks' = all
       /\ written' = IF info \/ finalize # {} \/ all # {} THEN written + 1 ELSE written
       /\ UNCHANGED <<continuous, failures, info>>

\* Test.ApplyErr and AnnotateCheckerFailureBeforeExit: a server reports an error,
\* and the test goes on until it looks for one.
ApplyErr ==
  /\ suite = "raft"
  /\ Tick(Current)
  /\ cleanup(TRUE, checks \cup {CheckerEnd})
  /\ reports' = reports + 1
  /\ UNCHANGED <<config, finfo, phase, failed, pretended>>

\* The last iteration of a test of kvraft, before its history is checked.
SetAnnotationFinalized ==
  /\ suite = "kv" /\ phase = "run" /\ phase' = "set"
  /\ finalized' = TRUE /\ pretended' = TRUE
  /\ UNCHANGED <<config, now, finfo, continuous, failures, checks, truth, info, failed,
                 reports, written>>

\* A history that is not linearizable ends the test (t.Fatal); one that is may be
\* followed by more iterations, before SetAnnotationFinalized.
checkPorcupine(legal) ==
  /\ suite = "kv" /\ phase \in {"run", "set"}
  /\ phase' = IF legal THEN (IF phase = "set" THEN "checked" ELSE "run") ELSE "ended"
  /\ failed' = (failed \/ ~ legal)
  /\ IF \/ ~ legal /\ visEnable # "never"
        \/ legal /\ visEnable = "always" /\ finalized
     THEN finalized' = TRUE /\ written' = written + 1 /\ pretended' = FALSE
     ELSE UNCHANGED <<finalized, written, pretended>>
  /\ UNCHANGED <<config, now, finfo, continuous, failures, checks, truth, info, reports>>

\* A check fails (t.FailNow): in the goroutine of the test, which ends it, or in
\* another one, while the test goes on.
Fail ==
  /\ phase # "done" /\ phase' \in {phase, "ended"}
  /\ failed' = TRUE
  /\ UNCHANGED <<config, now, finfo, continuous, failures, checks, truth, info, finalized,
                 reports, pretended, written>>

\* Config.Cleanup, when the test has returned or failed.
Cleanup ==
  /\ phase \notin {"set", "done"} /\ phase' = "done"
  /\ cleanup(failed, checks)
  /\ UNCHANGED <<config, now, finfo, truth, failed, reports, pretended>>

-----------------------------------------------------------------------------
AnnNext ==
  \/ \E conn \in SUBSET Srv : AnnotateConnection(conn)
  \/ \E servers \in SUBSET Srv \ {{}} : AnnotateShutdown(servers) \/ AnnotateRestart(servers)
  \/ \E p1 \in SUBSET Srv : AnnotateTwoPartitions(p1, Srv \ p1)
  \/ AnnotateClearFailure \/ AnnotateCheckerBegin \/ AnnotateCheckerEnd
  \/ ApplyErr \/ SetAnnotationFinalized \/ Fail \/ Cleanup
  \/ \E legal \in BOOLEAN : checkPorcupine(legal)

AnnSpec == AnnotateTest /\ [][AnnNext]_annVars

-----------------------------------------------------------------------------
(* Properties.                                                             *)

\* Until the annotations are cleared, they tell the faults there were.  At every
\* instant exactly one of those with a text is shown, and it is the fault of that
\* instant, or none is and there was no fault, whichever calls were skipped because
\* nothing had changed.  Those without a text do overlap the others: they start at
\* time 0, and are there because annotateContinuousEnd found nothing to end
\* (annotation.go:488-491) at an instant when there was no fault and none ended.
Timeline ==
  info =>
    /\ \A t \in 1..(now - 1) :
         LET shown == {i \in finalize : i.text # NoFault /\ i.start <= t /\ t < i.end} IN
         /\ {i.text : i \in shown} = {truth[t]} \ {NoFault}
         /\ \A i, j \in shown : i = j
    /\ \A i \in finalize :
         i.text = NoFault =>
           i.start = 0 /\ truth[i.end - 1] = NoFault /\ truth[i.end] = NoFault

\* What a test that is over has written.  A visualization that is wanted (always,
\* or of a failure unless never) was written, and one that is not wanted was not;
\* it was written once, unless servers reported more than one error: every second
\* report clears the flag that the one before set, and the next one, or the clean-up,
\* writes again.  The exception is a test for which SetAnnotationFinalized said that
\* a file is written, and checkPorcupine wrote none: it may fail without one.
VisualizedOnce ==
  LET wanted == visEnable = "always" \/ (visEnable = "" /\ (failed \/ reports > 0)) IN
  phase = "done" =>
    /\ wanted /\ ~ pretended => written >= 1
    /\ ~ wanted => written = 0
    /\ reports < 2 => written <= 1

=============================================================================
