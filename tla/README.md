# A TLA+ development of the 6.5840 lab infrastructure

At this commit the exercises of the repository (Raft, the replicated state
machine, the key/value servers, the shard controller, MapReduce) are empty
bodies. What is implemented is what they run on and are judged by: a simulated
network, a tester that runs servers as processes, partitions and restarts them,
a transport over unix sockets, the checks of the tests, and the shard
configurations. This development models that code. A component that is only an
empty body is listed in `PROJECT.json` as not modelled.

## The parts and how they interact

A test makes a `Config` with groups of servers. Each server runs in a daemon
process. Peers and clerks call each other through `labrpc`, a network inside the
tester's process that drops, delays and reorders. The network hands a request
to a `Server`, which forwards it over a unix socket to the daemon; `demux`
carries many calls over that socket and `sockrpc` serves them. The daemon keeps
its durable state in a `Persister`; on shutdown the tester takes a copy of it,
kills the process, and restarts it from the copy. The Raft servers report what
they apply to the tester, which compares. The key/value tests run clients that
race, count their Puts, and draw a timeline of the faults that were injected.
The shard controller tests cut a controller off, if possible in the middle of a
change, or let several compete.

| Module | Code | State and actions |
|---|---|---|
| `Rpc` | none | What a call promises: executed at most once; success only after execution. |
| `LabRpc` | `labrpc/labrpc.go` | The maps of `Network`; per call, where `Call`, `processReq` and the handler are. One action per operation of `Network` and per step of `processReq` between two points where other goroutines can interfere. |
| `ServerLife` | `tester1/group.go`, `srv.go`, `daemonclnt.go`, `daemonsrv.go`, `persister.go` | Extends `LabRpc` with the life of the daemons: `StartServer` and `ShutdownServer` in their steps, the daemon's Persister and the tester's copy. |
| `Daemon` | `tester1/daemonclnt.go`, `daemonsrv.go`, `group.go`, `sockrpc` | How the tester starts, questions and stops a process: `dial` with its retries, the goroutines that bind the control and the data socket, `InitDaemon`, the handlers, and `ds.ch`, the one channel on which they meet. A process may end at any point. |
| `Demux` | `tester1/demux`, `sockrpc/rpcsrv.go` | Tags, call map, lock, socket buffers, both reader goroutines, `Close`. |
| `ServerGrp` | `tester1/group.go`, `srv.go` | The matrix of enabled ends; `Partition` and `ConnectAll` one iteration at a time. |
| `Clnt` | `tester1/clnts.go` | The ends of a clerk. |
| `ShardCfg` | `shardkv1/shardcfg/shardcfg.go` | A `ShardConfig`; `Rebalance` one iteration at a time. |
| `CtrlerTest` | `shardkv1/test.go` | `partitionCtrler` and `concurCtrler`: the goroutines that make groups and have them join and leave, the test that stops them or cuts one off. The controller is the environment, with the contract its comments state. |
| `RaftCheck`, `RaftOne` | `raft1/server.go`, `proxy.go`, `test.go` | The appliers, their requests, the tester's copies of the logs, and shutdowns in their steps (connection, copy of the Persister, kill). A server that is restarted is another process; what the old one had sent may be handled before or after. `RaftOne` adds `one` and `wait`, which poll the copies. Raft is the environment. |
| `Annotation` | `tester1/annotation.go`, `kvtest1/porcupine.go`, `raft1/test.go` | The annotations, and who writes the visualization: `checkPorcupine`, `cleanup` at the end, or `cleanup` when a Raft server reports an error. |
| `KvModel`, `KvPut` | `models1/kv.go`, `kvtest1/kvtest.go` | The service as its sequential model describes it; clients, signals and results of the put test. |

The `MC*` modules declare model values. The `*Proofs` modules hold the theorems,
each about the module it is named after; `ServerLifeProofs` has those of `LabRpc`
too, `RaftOneProofs` those of `RaftCheck`, and `KvTestProofs` those of `Clnt`, `KvPut`
and `Annotation`. A definition whose name continues that
of another after an underscore (`TakeTag_Same`) is a plausible mistake in the
code; `PROJECT.json` says which property each of them violates.

## Runs

| Run | Shows | Bounds |
|---|---|---|
| `labrpc` | An answer of a deleted or replaced server is never success; refinement of `Rpc`; calls return. | One call, one end, one server name, two `Server` objects for it: enough for a replacement during the call. `server_life` has two calls, and the theorems are for any number. |
| `server_life` | An acknowledged update survives the restart. | Two calls, a clerk's and a peer's end, one restart. |
| `demux` | A reply reaches its call; no unknown tag; refinement of `Rpc`; calls return. | Three calls, two tags (2^32 in the code), so that tags wrap; one message per direction, so that sockets fill. A call takes a tag only when no call holds it: in the code 2^32 further calls would have to be made while one is outstanding. |
| `shardcfg` | Every shard has a group, balance, no needless move, `Rebalance` ends. | Four shards (12 in the code) and five groups, so that groups can outnumber shards; five configurations. |
| `servergrp` | Who reaches whom. | Five servers, as most kvraft tests have: a minority of two. |
| `raftone` | A correct Raft is blamed in one case only; what the tester has is committed, snapshots are complete, disagreement is caught; `one` and `wait` return what is committed. | Two servers, three entries, two commands, one shutdown, a snapshot every two entries (10 in the code). The wrong Raft runs without shutdowns. Servers and commands are interchangeable: nothing in the model orders them. |
| `daemon` | The network gets a server only when its services and state are there; the tester gives up only for a reason, and never hangs. | Two servers, three processes, two services each, one crash, two saves, two attempts of `dial` (100 in the code): one that fails and one that is the last. |
| `ctrlertest` | A correct controller fails only if it was cut off with no change under way, no live configuration lists a dead group, the test ends. | Two goroutines (four in the code), five groups: the first, and two for each goroutine. |
| `annotation` | The timeline is right; a file is written when it is wanted, and once, but for two cases. | Two servers, four calls, every value of `VIS_ENABLE`, tests of Raft and of a key/value service. |
| `clnt` | Exactly the allowed servers are reachable. | Four servers. |
| `kvput` | A correct service passes unless the test is over before the first Put; the test ends; a loss is noticed. | Two clients, versions up to 4, at most one lost Put, both kinds of network. |
| `kvput_fail` | Violated, see below. | As `kvput`. |

Deadlock checking is off where the modelled activity simply ends: all calls have
returned, the bound on time, kills, groups or configurations is reached, the
test is over, or it hangs (`kvput` with a service that loses a Put, the subject of `kvput_fail`).

### Fairness

Goroutines that can run do run: weak fairness for the steps of the network,
of readers and writers, and of clients. Handlers are the exercises' code, so
that they return is a hypothesis of the properties that need it (`CallReturns`,
`SendReceiveReturns`); `KilledCallReturns` and `ClosedReleases` do without.
`KvPut` has strong fairness for the signal to a client: once the test waits in
the send, a client that comes to its `select` takes it, since Go prefers a ready
case to the default. `CtrlerTest` has the same for the stop signal, and weak
fairness for the goroutines and the controllers they run. In `Daemon` the tester,
`InitDaemon`, the handlers and the goroutines that listen run on, as long as their
process does; nothing is assumed of crashes or of the server in the process.

### Disagreement between code and comments

`kvput_fail`: a client that finds its key missing calls `Fatalf` in `GetJson`, which
ends only the client's goroutine. The client takes no stop signal any more, and the
test hangs in the send at `kvtest1/kvtest.go:173` until it times out. The comment at
`kvtest1/kvtest.go:153` says that a client signals that it is done.

Some properties hold with an exception that is a weakness of the code:

- `NoFalseAlarm`, `OneSound`: nothing in the tester waits for requests of a process
  that it killed. An `IngestLog` that is handled after the next process has started
  takes away what that one reported, so that its next command seems to follow
  nothing, and a correct Raft is blamed. A late `CheckLogs` leaves a hole in the copy
  (`CopiesCommitted`), and no more.
- `CorrectPasses`: `SpawnClientsAndWait` sleeps and then stops the clients, whatever they
  have done. If none has finished a Put, `CheckPutConcurrent` finds no key, and fails
  a correct service.
- `CorrectCtrlerPasses`: `partitionCtrler` sleeps "to get sck stuck in join or leave".
  If the controller is between two changes when it is cut off, the test expects
  a change that nobody began, and fails a correct controller.
- `VisualizedOnce`: `cleanup` clears the flag that says that a file was written. The
  first `ApplyErr` of a Raft test writes a file, the second clears the flag, and a
  third, or the end of the test, writes again (the comment at `annotation.go:212` is
  "Used before log.Fatalf", but `ApplyErr` goes on). And a test that fails after
  `SetAnnotationFinalized`, with no file from `checkPorcupine`, has none.

Noticed while reading, without a run: `CheckpointPersister` says it stops replies,
but it closes the listener only, and open connections are still served (the last
`isServerDead` of `processReq` keeps such a reply from a client, which is
`AckedDurable`); `annotateContinuousEnd` adds an empty annotation, from the start of
the test, when there is nothing to end (the comment at 490 says there is nothing
to do; `Timeline` says what these are); `AnnotateCheckerEnd` resets a copy of the begin of the check; `ConnectTo`
disables no end, and `CheckAppends` accepts the loss of the last append (neither
has a caller). All but the last two are modelled as the code has them. Two races at
the start of a process are in `Daemon` as ways for it to end: a request before
`AddService`, and a shutdown before the listener is set.

## Theorems

All are for every value of the constants that satisfies the named assumptions.

- `ServerLifeProofs`: `Invariance` proves `TypeOK /\ CallInv` of the network. `CallInv`
  relates each call's position, handler, snapshot of the end and result; it is needed
  since `LateNeverSucceeds` speaks of the moment of the reply only. From it follow
  `LateNeverSucceedsTheorem` and `Refinement` (the network implements `Rpc`).
  `AckedDurableTheorem` has the inductive invariant `IInv`, which adds that the network
  knows a server exactly while the tester has it added, and that what such a server
  executed is in its daemon's Persister.
- `ShardCfgProofs`: `TypeCorrect`, `AllAssignedTheorem` (from `AssignInv`, what the
  first loop has established so far) and `BalancedTheorem`. `OnlyNeededMovesTheorem`
  needs `MoveInv`: the first loop has not touched the shards from `next` on, and while
  `Rebalance` runs only a group that just joined can be two shards behind another.
  Its lemmas count how many shards a move leaves to each group. `MembersOwnShardsTheorem`
  is a pigeonhole argument: in a balanced configuration a group without a shard
  leaves at most one to each of the others, which are too few for all shards.
- `ServerGrpProofs`: `OffNetTheorem`, `OnNetTheorem` and `PartitionExactTheorem`,
  for any odd number of at least three servers (`NAssumption`; with an even number
  the two lists of `MakePartition` overlap). `GInv` adds to the three what the
  loops of `ConnectAll` and `Partition` have established for the servers they have
  visited: between two iterations none of the three says enough.
  `LeaderInMinorityTheorem` adds what the lists of `MakePartition` are (`LeaderInv`),
  and counts the longer one.
- `RaftOneProofs`: `NoFalseAlarmTheorem`, `CopiesCommittedTheorem`,
  `SnapshotCompleteTheorem`, `DisagreementCaughtTheorem` and `OneSoundTheorem`, for any
  finite, non-empty set of servers (`SrvAssumption`), any commands, and any number of
  entries, shutdowns and entries between snapshots. For a correct Raft the invariant
  `SInv` relates a server's applier, the request it waits for and the tester's copy of
  its log. The entries of the copy are committed (`Entries`), and without late requests
  they are a prefix (`Whole`). While no `IngestLog` came late (`Clean`), the copy
  reaches at least to the entry before the next (`IdleInv`), and an error is only
  ever reported over a connection that was closed (`CallInv`). None of this is
  inductive without `OrphanInv`, about the requests that a server gave up on: one
  of the process that still runs is the last it sent, and follows an entry that the
  copy has; one of an earlier process is at least committed. `ProcInv` tells the
  processes of a server apart by the shutdowns before them. A wrong Raft has
  `WrongInv` instead.
- `KvTestProofs`, about `Clnt`: `OnlyAllowedTheorem` and `AllowedConnectedTheorem`,
  which are inductive together with the types.
- `KvTestProofs`, about `KvPut`: `CorrectPassesTheorem`, `LossNoticedTheorem` and
  `OwnValueTheorem`, for any clients and any number of Puts. The core is `SumInv`: the
  version of the key counts the Puts. On a reliable network it is the number of those
  acknowledged, less one if a Put was lost; on an unreliable one at most that of
  the acknowledged and the maybes. The test's own sums are over what clients
  have counted so far, which lags behind, hence `acked` and `tried`, with the answer a
  client has not counted yet. The sum over the clients is the number of pairs of
  a client and one of its Puts (`Pairs`, `Total`), so that a step adds one pair.
- `KvTestProofs`, about `Annotation`: `TimelineTheorem` and `VisualizedOnceTheorem`, for
  any servers and number of calls. `OngoingInv` says that the on-going annotation
  tells the fault there has been since it began, `EndedInv` that those which ended tell
  the fault of their time and that every earlier fault is told by one or the other,
  `ApartInv` that no two with a text overlap.
  `FaultInv` (what `finfo` has are the servers of the current fault) is what makes
  it right to skip a call that changes nothing. `KvFiles` and `RaftFiles` relate the flag,
  the phase of the test and the files written so far.
- `DemuxProofs`: `NoUnmatchedReplyTheorem`, `OwnReplyTheorem` and `Refinement` (a
  connection implements `Rpc`), for any number of calls and tags and any buffer.
  `MInv` says that a call has at most one request or one reply on its way and in
  which order (`Order`), that a reply carries the tag of its call (`SockInv`), that
  the map has a call under its own tag from `put` until the reader takes it out
  (`MapInv`), and that tags of pending calls differ (`TagsDiffer`). That a reply on
  its way finds its call in the map holds only until the reader meets the end of
  the connection (`Connected`); from then on it reads no more.
  `TagsDiffer` rests on the guard of `TakeTag`: fewer than 2^32 calls are made while
  one is outstanding; the code has no check of its own. The operations on sequences
  are confined to four lemmas (`AppendMsg`, `TailMsg`, `NoMsg`, `OneMsg`): tlapm's SMT
  translation gives every function a `Len`, which contradicts functions over other
  domains, so no other SMT leaf sees a sequence operator.
- `DaemonProofs`: `AddedReadyTheorem` and `ExitExplainedTheorem`, for any servers
  and services and any of the bounds. `DInv` relates where the tester is in
  `StartServer` (`TesterInv`), how far the process it talks to has come (`MeetInv`),
  and what each process has by then (`Proc`, `Has`). The one channel serves three
  meetings, and the proof is that a message never meets the wrong partner.
- `CtrlerTestProofs`: `GroupsAliveTheorem` and `CorrectCtrlerPassesTheorem`, for any
  number of goroutines and groups. `TInv` has what a controller is about to post
  (`Want`), who works on which group (`Gids`, `Join`, `Leave`), and, for
  `partitionCtrler`, the phases: before the cut (`Old`), what the cut leaves to the new
  controller (`Outcome`), and the leave that the test runs itself (`Own`). Cut off in
  a change or right after it, the controller can do nothing (`Held`), and the
  configuration the test expects is that of the change. Cut off elsewhere, its
  goroutine may go on to another group, but the group that the test asks about is
  never one that it would make leave.

The inductive invariants were first checked with TLC on the instances of the runs.

Every invariant and refinement that a run checks is proved. Only model-checked are
the liveness properties (`CallReturns`, `KilledCallReturns`, `SendReceiveReturns`,
`ClosedReleases`, `RebalanceEnds`, `TesterGoesOn`, `CtrlerTestEnds`, `TestEnds`):
reasoning about fairness needs `ENABLED`, which is beyond the prover.

## Abstractions

Payloads are model values; encoding, logging, byte counts and reflection are left
out. In `ServerLife` starting a daemon is one step; `Daemon` has the steps. In
`RaftCheck` a wrong Raft may send up other commands and snapshots that `ingestSnap`
refuses, but is not shut down, so that a restart never meets such a snapshot. In
`Annotation` each call is one step, since it holds a mutex; `cleanup` takes it
twice, but its callers do not overlap. A message is
written to a socket as a whole. `PROJECT.json` lists the hazards no property covers,
with the reasons. The map covers between a third and two fifths of the Go lines.

## Not modelled

- The exercises (Raft, rsm, key/value servers, clerks and lock, shard groups and
  controller, MapReduce): empty bodies at this commit.
- `checkOneLeader`, `checkTerms` and the like ask every server once and change
  nothing: their outcome is up to a Raft that is not there. The same holds for the
  driver of the rsm tests.
- `kvraft1/test.go` (`GenericTest`) composes `ServerGrp`, `ServerLife` and `KvPut`,
  beyond what one state space holds; the parts are checked one by one.
- `labgob`, `mrsequential`, the MapReduce applications: sequential conversions of
  data, with no state that a step could leave wrong.
- Code without a caller (`DemuxSrv.Close`, `ConnectTo`, the append test), the SIGINT
  handler, statistics and flags, and old binaries in `main/` that do not build.

## Plan

1. Several rounds of the put test over a group that is partitioned meanwhile.
2. When an exercise is filled in, put its module in the place of the environment in
   `RaftOne` or `CtrlerTest`, whose assumptions become its obligations.
