# TLA+ models of OpenShopFloor

This directory holds TLA+ models of the parts of this repository whose
correctness depends on interleaving, failure, order or restarts, the TLC runs
that check them, and TLAPS proofs of their central properties. Paths below are
relative to the repository.

## 1. The system and its parts

| Part | State it keeps | Operations | Hard because |
|---|---|---|---|
| **Historian flush path** (`historian/src/flush-engine.ts`, `disk-buffer.ts`, `index.ts`) | per-table row buffers with a retry count, flushes in flight, the file `pending.jsonl` | `pushRow`, timer flushes, COPY, put back, dead letter, replay and trim at start, `flushAll` at shutdown | flushes of a table overlap; chunks are committed one by one; crashes tear the file; shutdown does not await timer flushes |
| Historian intake (`subscriber.ts`, `topic-profiles.ts`, `config-manager.ts`, `db.ts`) | subscriptions, routes, pause flag | route a message, pause and resume | resuming depends on messages that pausing stops |
| **Flow graph builder** (`osf-gateway/src/flows/graph-builder.ts`) | `visited`, `visiting` of one search | `buildGraph`, its `dfs` | infrastructure nodes and dangling wires; reachability of cycles |
| **Flow engine loop** (`flows/engine.ts`) | queue, visited, executed, outputs, saved context | run the next node, postpone, give up, pause, resume | merges, decisions and pauses in any order; edited flows |
| **Sub-flow executor** (`flows/node-executors/osf-sub-flow.ts`) | the same, in a loop of its own | run a tab to its end inside one node | differs from the engine's loop |
| **Flow runs** (`engine.ts`, `run-registry.ts`, `routes.ts`, `index.ts`) | `flow_runs`, `flow_pending_inputs`, the registry, calls in flight | start, answer, resume, pause, fail, complete, drain, mark, restart | every step awaits a query; several calls on one run; shutdown and crash in between |
| Flow events and polling (`routes.ts`, `engine.ts`) | numbered events of a run | emit, poll | numbering after a resume; two reads in one poll |
| **LLM gate** (`osf-gateway/src/chat/llm-client.ts`) | semaphore queue, circuit breaker per server | acquire, release, probe, record | timeouts and aborts between admission and call |
| **Node-RED pods** (`nodered/pod-manager.ts`) | `nodered_pods`, the pods in the cluster, `onDemandCount` | assign, create, fill the pool, release, delete, watch, reconcile, purge | several handlers on one table and one cluster, only one of them with a lock; late unconditional UPDATEs; crashes between row and cluster |
| Chat, tools, agents, chains (`chat/`, `agents/`, `chains/`, `mcp/`) | sessions, run rows | sequences of LLM and tool calls | one step of several failing |
| Accounts, admin, UNS, i3X, simulation, market place (`auth/`, `admin/`, `uns/`, `i3x/`, `sim-v5/`, `marketplace/`, ...) | rows, tokens | one query per request | little: single statements |
| **Kubernetes sentinel** (`k8s-sentinel/agent`) | clusters with their check loops, incidents, the mode, hourly counters | check, record, run a runbook, fix, propose, approve, reject, resolve; start, stop and delete a loop | check-then-insert, unguarded status changes beside checks under way, timers set behind an await |
| Health and governance agents, knowledge graph, UNS stream, MCP proxy, predictor | caches, batch results | poll, recompute | little |
| User interfaces, manifests, scripts | none | | |

The parts in bold are modelled. The parts meet as follows. Machines publish to
MQTT; the historian's intake pushes rows into the flush path, which writes them
to TimescaleDB. Users edit flows in Node-RED pods, which store them in
`nodered_flows`; `executeFlow` builds a graph from the stored tab, and the
engine loop calls one executor per node: LLM, tool call, HTTP, decision, human
input, sub-flow. A run that asks a human pauses: its outputs go to
`flow_runs.context`, and `POST /api/runs/:id/respond` resumes it, maybe in
another life of the process. The gateway runs as one replica
(`k8s/osf-gateway.yaml`), so the run registry sees all calls. The sentinel stands
beside all this: it watches the clusters the rest runs on, repairs what it may, and
asks an operator about the rest.

What makes each modelled part correct: a reading accepted is stored or on
record; a flow's nodes run once and in order, and nothing a node sent its output
to is forgotten; a run's row tells the truth about what is done to the run; a user has
one editor, with his flows in it and nobody else's; a cluster is checked by one loop, a
problem has one open incident, and its fix is carried out once.
`PROJECT.json` lists under *hazards* where each of these could go wrong, line by
line, and the properties aimed at it. Where the code is known to lose what a property
would promise, the models record the accident in a history variable and the properties
speak of the histories without it; a hazard that is so excused says so in its note and
names no property for that part.

## 2. Modules

```
RowDelivery <--refines-- HistorianFlush <-- MCHistorianFlush
                               ^-- HistorianFlushProofs
FlowGraph <-- BuildGraph <-- SubFlow <-- MCSubFlow --> TabFamilies
                                ^-- SubFlowProofs
                                ^-- (INSTANCE) FlowCalls
FlowGraph <-- FlowTraversal <-- MCFlowTraversal --> FlowFamilies
                   ^-- FlowTraversalProofs
                   ^-- FlowCalls <-- MCFlowCalls --> MCFlowTraversal, TabFamilies
                          ^-- FlowCallsProofs --> FlowTraversalProofs, (INSTANCE) SubFlowProofs
FlowRuns <-- FlowRunsProofs
FairSemaphore <--refines-- LlmGate <-- LlmGateProofs
PodManager <-- MCPodManager
     ^-- PodManagerProofs
ClusterLoops <-- Sentinel <-- MCSentinel
                    ^-- SentinelProofs
```

### HistorianFlush

One variable per piece of state in the code: `buf` and `retryCount` of each
table, `flights` (one record per `flushTable` in progress, with the rows still
to copy), `disk` (the lines of `pending.jsonl`, each a batch, torn or whole),
`replayed` and `flushed` (the counters of the start-up loop), `toFlush` (the tables
`flushAll` has still to come to), `phase`, and the database: `stored`, `dropped`.
The remaining variables are history variables, which only properties read.

- `PushRow`, `TimerFlush` (`StartFlight`: splice, append to disk, first chunk),
  `CopyDone`, `CopyFails` (with `Counted` and `PutBack`), `DeadLetter`: the live
  engine. A COPY that fails may or may not have committed its chunk: the answer
  can be lost behind the commit.
- `Boot`, `SkipLine`, `ReplayLine`, `Ready` (`Trimmed`): start-up. The file is
  read once and its lines are then replayed one by one, each with its own result.
- `Shutdown`, `FlushAtShutdown`, `Exit`: the signal handler; timers run on until
  `stopAll`, so flushes of timers go on beside it.
- `Crash`, `CrashInTrim`: a crash at any point, tearing the line being written,
  and one between truncating the file and writing what remains.

A row is its identity: contents and time stamps are left out. The legacy buffer
for `uns_history` shares nothing with this path but the shutdown, and is left out.

`RowDelivery` is the abstract specification: a row is *new*, then *pending*, and
then *stored*, *dropped* (a dead letter) or *gone*; it can go only while the process
goes down or comes up, and being stored or gone is final. `ImplementsDelivery` is
the refinement.

### FlowGraph, BuildGraph, FlowFamilies

`FlowGraph` holds graphs as the code's loops see them: kinds of nodes (task,
decision, multi-port, human input, unknown type), wires, `Upstreams`,
`TargetsOf` an output, and `Blocked` (the negation of `allUpstreamsReady`).
`Built` is `buildGraph`'s filtering, and `Acyclic` the reference definition of
acyclicity: every set of nodes has one that nothing in the set leads to.
`BuildGraph` is the code's recursive depth-first search as a state machine, whose
variable `calls` is the stack of the calls of `dfs`, each with the targets it has still
to look at. A loop calls `dfs` (`Enter`), the innermost call looks at a target (`Pass` or
`Descend`) or returns (`Leave`), or it finds a cycle (`FoundCycle`) and `dfs` throws. The
loops may take their nodes in any order; the code takes them in that of the Map.
`FlowFamilies` generates flows for TLC, and `TabFamilies` the raw tabs of called flows.

### FlowTraversal

The loop of `runFlowAsync` and its twin in `resumeFlow`. One action per way an
iteration can go: `Discard`, `Postpone`, `GiveUp` (the deadlock detection),
`SkipUnknown`, `Execute` then one `Send` per queued target, `Fail`, `Pause`,
`Complete`. `Resume` takes an edition of the flow that may differ from the one
that paused, with `Saved` outputs only: `queue`, `visited` and `executed` are
local to a call and lost at the pause. An output is abstracted to the sequence of
targets it is sent to; `graph.sends` holds the possibilities of each node.

### SubFlow

One call of `executeOsfSubFlow`. Tabs are raw, so that the call builds its graph first:
`Search` is a step of `BuildGraph`, `Reject` and `Accept` are its outcomes. The loop
differs from the engine's: it waits for *all* upstreams (not only visited ones), has no
deadlock detection, gives unknown types an output, and does not look at `paused`.

### FlowCalls

The composition: a run of `FlowTraversal` in which a node of type `osf-sub-flow` is
executed by the loop of `SubFlow` (an instance whose variables are those of the call).
`Call` takes any of the tabs, `CallLoop` is a step of its search or of its loop, `CallReturned`
and `CallFailed` are the engine's `Execute` and `Fail` of the calling node once the
call has returned or thrown, and `CallOver` forgets the call's locals. A call inside a
called flow is an executor that returns or throws, and the limit on the depth of
nesting is one of the reasons for which a call may come to nothing.

### FlowRuns

The life of runs, query by query. `stage` says which await an engine call is at;
`row`, `question` are the database, `registry` the map in `RunRegistry`, `awaited`
and `toMark` the locals of `drainOrTimeout` and `gracefulShutdown`. `Respond` is
the route: it may come for any existing run until the process is gone, registers its
promise over whatever is there, and only then looks at the status. A request let in
before the server closed may get there during the drain; the run is then one that
shutdown could not know of. With nothing registered, `Drain` goes on to marking in the
same step, as `drainOrTimeout` returns at once. `Ends` is the `finally`
of `register`, which deletes the run's entry whoever's it is. Every query may
fail, where the code has one; a failing query has no effect. `Crash` loses all but
the two tables; `Boot` repairs nothing, as in the code.

`irregular` is a history variable that excuses properties, by name, from what the
code is known not to handle: two answers that both found the run paused; a call
that died outside any handler, or that shutdown could not know of; an answer cut
off between its two UPDATEs; a run written to by shutdown or by a late handler.
Each tag is set at the one step where that happens, so the properties say what
holds in all other histories, and also that nothing *else* breaks them.

### LlmGate

The semaphore and the circuit breaker of one LLM server, and the calls of `callLlm`
that go through them (the two servers share nothing; `streamLlm`, which takes the
same steps, has no caller). `active`, `queue`, `state`, `failures` and `probing` are
the fields of the two classes. `Begin` is the synchronous part from `canAttempt` to
`acquire`: the call takes a slot, is queued, or throws because its caller has
aborted already. `LeaveQueue` is the semaphore's timer or an abort, `ServerFails`,
`Rejected` and `Responds` the ways `fetch` ends (an error or 5xx, another status,
success), `Finish` the end of the body; `Release` hands the slot to the first in the
queue. Time is a flag: `Cool` says that the breaker's reset time has passed. `tries`
is a history variable: calls admitted since the breaker last opened or closed.

`FairSemaphore` is the abstract specification: a fixed number of slots, a line that
exists only while all slots are taken, and a slot given back goes to the head of the
line in the same step. It has no count and no breaker. `ImplementsSemaphore` is the
refinement: those who hold a slot are the calls on the line, the line is `queue`.

### PodManager

The table `nodered_pods` (`row`, `owner`), the cluster (`pod`, and `served`: the pods
with flows in them), and every handler that works on both, one await after the other:

- `Begin`, `Look`, `PingOk`, `Claim`, `Load`, `Demand`, `Create`, `Adopt`, `PodFails`,
  `Killed`, `Throw`: `assignPod` under its advisory lock, with `createAndAssignPod` and
  the `deletePod` of a pod that does not answer.
- `FillPool`, `InsertWarm`, `MakeCreate`, `MakeWarm`, `MakeFails`, `MakeUndone`:
  `fillPool` counts once and starts what is missing, each `createWarmPod` by itself.
- `Release`, `Discard`, `BackgroundKill`, `BackgroundKilled`: all the ways in which
  `releasePod` and `deletePod` are called beside `assignPod`: the idle check, the watch,
  an administrator, `drainAll`, shutdown.
- `Break`, `Watch`: an eviction, and the event of it, which may be late or lost.
- `Reconcile`, `List`, `MarkOrphan`, `RemoveOrphan`, `RetryDelete`, `Retried`, `Finish`,
  `Abandon`: `reconcile`, whose SELECT and listing are of different moments; `Purge`.
- `Crash`: only the table and the cluster remain.

Any health check, creation, deletion or query may fail where the code has one; the
Kubernetes breaker and time-outs are such failures. Left out are the addresses of pods,
ages (the oldest warm pod, the two minutes of a starting row, the time a pod has been
idle: any candidate may be taken at any time), and the connections of the database
pool. One reconcile runs at a time, although the code would allow the timer's to meet an
administrator's. `touched` and `cutOff` are history variables: the pods others have
changed since reconcile's SELECT, and assigned pods that a call left without flows.

### ClusterLoops and Sentinel

`ClusterLoops` is the check loop of one cluster: its row, the handle in the map `loops`
(`entry`), and each timer `startClusterLoop` has made, "waiting" as a timeout, "checking"
inside the callback that awaits the first check, or an "interval". `UpdateCluster` and
`DeleteCluster` are the first half of a request, `RestartLoop`, `RestartFails`, `StopLoop`,
`DeleteRow` the second. `RestartFails` is `initClusterClient` throwing between stopping
the old loop and starting the new one. `Stopped` can do nothing about a timeout that has fired. `Free` is
`loopRunning`.

`Sentinel` puts the checks and the requests on top. `check` says what each check under
way awaits: snapshot, insertion of an incident, the query on protection, a runbook, a
fix, the status behind it. `click` is the same for approvals. `Reject` and `Resolve`
are one statement each and may come at any moment, as may `SetMode`, `Restart` and
the end of an issue's hour. A runbook or a fix may fail having changed the cluster or
not. `SetStatus` is unconditional, as in the code. An issue is what `hasOpenIncident`
tells apart (a type and a name); the type decides the severity. `history` tells how
often an incident's fix was carried out, and becomes "doubtful" at the steps where the
code gives up knowing: an approval of an incident that another approval is at work on,
and a fix whose outcome could not be written. `mishaps` plays that part for the
loop: requests that overlap, a deletion that fails behind stopping the loop, a loop
stopped while it awaits its first check, and an update that found no client. The last
ends with the next update that finds one; `Orderly` histories have had no other.

## 3. Runs

| Run | Module, configuration | Checks | Expected |
|---|---|---|---|
| `historian_safety` | MCHistorianFlush, HistorianFlush_safety | TypeOK, NoSilentLoss, Durable, ShutdownSafe, DuplicateOnlyAfterFailure, ImplementsDelivery | pass, 1,240,000 states up to symmetry |
| `historian_liveness` | MCHistorianFlush, HistorianFlush_liveness | ShutdownCompletes | pass |
| `historian_trim` | MCHistorianFlush, HistorianFlush_trim | TrimKeepsUnflushed | violated |
| `flow_all` | MCFlowCalls, FlowCalls_all | TypeOK, CallTypeOK, RunsOnce, SentMeansRun, CyclesRejected, RunsInOrder, RunEnds, CallReturns, CallProgress | pass, 219,000 states |
| `flow_unknown` | MCFlowTraversal, FlowTraversal_unknown | DeadlockDetected | violated |
| `subflow_approval` | MCSubFlow, SubFlow_approval | WaitsForApproval | violated |
| `runs_life` | FlowRuns, FlowRuns_life | TypeOK, OneDriver, RunningIsDriven, PausedIsAnswerable, FinalStays, ShutdownEnds | pass, 752,000 states |
| `runs_drain` | FlowRuns, FlowRuns_drain | DrainWaitsForAll | violated |
| `llm_calls` | LlmGate, LlmGate_calls | TypeOK, SlotsHeld, OneProbe, Served, ImplementsSemaphore | pass, 2,900 states |
| `llm_stuck` | LlmGate, LlmGate_stuck | Recovers | violated |
| `pods_life` | MCPodManager, PodManager_life | TypeOK, OneEditor, Private, OnDemandCounted, HandedWithFlows, ReconcileRepairs | pass, 971,000 states up to symmetry |
| `sentinel_life` | MCSentinel, Sentinel_life | TypeOK, OneLoop, LoopFollowsRow, OneOpen, FixedOnce, ClosedForGood | pass, 580,000 states up to symmetry |

**Bounds.**

- Historian: three rows with `MaxChunk = 1` give batches of several chunks that
  fail after the first; `MaxFlights = 2` lets two flushes of one table overlap,
  and a third would meet the same two kinds of partner (one ahead, one behind);
  `MaxRetries = 2` reaches put back and dead letter; with `DiskLimit = 1` the file
  takes two lines and then refuses; `MaxStops = 2` is a crash or stop with a full
  start-up behind it that may crash again, also in the trim; `MaxDiskErrors = 1` is
  one failing append. Tables share only the file and the
  shutdown; the liveness run has two.
- Flows: four nodes are the least with a diamond, which is what merges, decisions
  that skip one arm, and pauses beside a queued branch need. The families hold all
  acyclic wirings up to renaming, with every known kind for three nodes and a choice
  of kinds for four, targets in both orders, flows with unknown types, and pairs of
  editions of a flow that pauses. Called tabs of three nodes are wired in every way, with
  cycles, infrastructure nodes and a dangling wire, those of four nodes forward only. A
  call waits at a join, stands beside a node it joins, behind a decision, and before a
  pause, and takes each of the tabs; the engine does nothing else for the run meanwhile,
  so one call in a flow meets all there is to meet.
- FlowRuns: one run with three calls at a time. Runs meet only in `awaited` and
  `toMark`, where they do not disturb each other (also checked once with two runs
  and two calls). Ids of calls are used again, so the number of answers, pauses,
  crashes and restarts is not bounded.
- LlmGate: five calls on two slots let three wait, so that a call can leave from the
  middle of the queue while others pass in front of and behind it; `Threshold = 2`
  tells one failure from enough of them. Ids of calls are used again.
- PodManager: two users and two pods are what it takes to give a user two pods, or a
  pod two users; two calls contend for a lock or for a warm pod, and `MaxHandlers = 3`
  lets a creation or a deletion, or (counted twice) a reconcile, run beside them.
  `PoolSize`, `MaxOnDemand` and `MaxTries` of one reach their limits. Names of pods and
  ids of calls are used again, so that nothing else is bounded.
- Sentinel: three timers are a loop, one that leaked, and its successor. Two incidents
  are what a duplicate, or a problem that comes back, needs. One issue of each severity,
  as nothing depends on more. The scopes of MCSentinel keep apart what does not meet:
  one issue with two approvals at a time; all severities in one check; checks and one
  approval at a time while the loop is changed once; the loop alone with three updates. Restarts and
  changes of mode are not bounded.

Deadlock is checked for FlowRuns, LlmGate and PodManager, which never stop. The others
end or may rest: the historian when its stops are used up, a flow when its run is over,
the sentinel when a cluster is deleted.

**Fairness.**

- Historian: a COPY and `recordDeadLetter` return (they have time-outs of the
  client), flushes that `flushAll` starts are started, and the exit is taken. New
  rows, timers and failures are not fair.
- Flows: an iteration of a loop, the engine's or a called flow's, is eventually taken:
  executors return and the rest is synchronous. Nobody has to answer a question
  (`Resume` is not fair).
- FlowRuns: only the steps of `gracefulShutdown` are fair. Each awaits something
  bounded in time: closing pods, SSE drain, `flowDrainTimeoutMs`, one UPDATE per
  run. No engine call has to make progress, which is the point of `ShutdownEnds`.
- LlmGate: a call that holds a slot ends, since `perRequestTimeoutMs` aborts the
  request and `fetch` gives up on a body that stalls. No timer has to free the queue.
  `llm_stuck` adds that time passes and that somebody keeps calling (strong fairness
  of `Begin`), so that the breaker is not stuck for want of a caller.
- PodManager and Sentinel: no fairness, since only safety is claimed. Kubernetes, the
  database and operators owe these components nothing.

**What the passing runs show.**

- `NoSilentLoss`, `ImplementsDelivery`: however flushes overlap, fail, and put
  batches back, a row is in a buffer, in a flush, stored, or dead-lettered.
- `Durable`, `ShutdownSafe`: what reached the file stays recoverable as long as
  every replay succeeded, and a shutdown that has started its flushes leaves
  nothing behind that is not stored, dead-lettered or on disk, except batches
  whose append failed or was skipped.
- `DuplicateOnlyAfterFailure`: before the first restart rows are stored twice only
  through a failed batch. After a restart they may be: nothing removes a line from
  the file when its batch is stored in normal operation.
- `RunsOnce`: no executor is called twice in a run, also across pauses and edits.
- `SentMeansRun`, `RunEnds`: with known node types the deadlock detection cuts off no
  node that could run, and a run ends; if it does not, it is in a called flow that has a
  branch it can leave out.
- `CallProgress`: with known node types every step executes a node, sends to a target,
  shortens a queue, or turns a queue towards a node that need not be put back, in the
  engine and in the flow it calls, and every step of the search goes into a new node,
  comes back, or is done with a target.
- `CyclesRejected`, `RunsInOrder`, `CallReturns`: the depth-first search rejects
  exactly the graphs without a topological order; a sub-flow runs in topological
  order; and it ends if no node can leave a branch out.
- `OneDriver`, `RunningIsDriven`, `PausedIsAnswerable`, `FinalStays`,
  `ShutdownEnds`: outside the irregular histories named above, one call drives a
  run, `running` is true, a paused run has an open question, final statuses stay,
  and shutdown ends.
- `SlotsHeld`, `ImplementsSemaphore`, `Served`: whatever mix of outcomes, time-outs
  and aborts frees slots, none is lost or given twice, they go to the first in the
  queue (that nobody overtakes is part of what a fair semaphore is, and stated by
  itself as `FirstComeFirstServed`), and a queued call is served even if no timer ever
  fires.
- `OneEditor`, `Private`, `HandedWithFlows`: however assignments, creations, deletions,
  evictions, late events, reconciliation and crashes interleave, a user has one pod, a
  pod has one user in its life, and the pod a call returns holds its user's flows, unless
  an earlier call was cut off before it loaded them.
- `OnDemandCounted`, `ReconcileRepairs`: no way out of `createAndAssignPod` forgets its
  count, and a reconcile that comes to its end leaves row and cluster in agreement for
  every pod that nobody else touched meanwhile.
- `OneLoop`, `LoopFollowsRow`: a cluster has one loop unless one was stopped in its first
  check, and has it exactly if its row says so, but for overlapping requests and failed
  deletions. Behind an update that finds no client it has none, whatever the row says,
  until the next update that finds one.
- `OneOpen`, `FixedOnce`, `ClosedForGood`: an issue has at most one open incident
  although looking and inserting are two statements, even with a leaked loop, because
  `loopRunning` keeps checks apart; a fix is carried out once, outside histories that are
  doubtful in the sense above; and an incident that is closed while no check or approval
  has it in hand stays closed, and nothing gets to work on it again.
- `OneProbe`: between two recorded outcomes a breaker that has opened lets one call
  through, also when a late outcome of an earlier call reopens or closes it.

**Findings** (the violated properties, with the quoted text in `PROJECT.json`):
trimming removes the first *n* lines instead of the flushed ones; deadlock
detection misses a single blocked node, so a flow with an unknown type can spin
forever; a human-input node in a sub-flow does not wait; a refused answer removes a
live call from the registry, so that a drain with nothing else registered returns at
once, and shutdown neither waits for the run nor marks it; a probe that gets a 4xx, or gives up before it has a slot, leaves the LLM breaker
half-open for good.

**Behaviour worth knowing, not contradicted by any text of the repository.**

- Branches queued beside a pausing node are dropped at the pause (`lost` in
  FlowTraversal): the resumed run completes without them.
- A merge waits only for upstreams *visited so far*; with branches of different
  length it can run before the longer one arrives.
- A sub-flow whose decision leaves out one arm of a merge spins forever without an
  await; `CallReturns` therefore speaks of tabs without decisions.
- The retry count belongs to the table, not to the batch: of two overlapping
  flushes one may be dead-lettered at its first failure, or the count may go past
  the limit while a dead letter is recorded.
- Runs left in `running` by a crash stay so.
- A late failure of an earlier call reopens a half-open breaker, so that the probe of
  the next period can be under way beside the previous one. A breaker that is not
  closed has counted `Threshold` failures, so any failure in half-open reopens it, and
  the last lines of `canAttempt` (121-122) are never reached.
- A called flow that waits for a branch it left out does so without an await, so it is
  not the run alone that hangs but the gateway.
- Pods. After a crash or a failed query between claiming a pod and loading it, the next
  `assignPod` returns the pod without the flows; the comment in `nodered/proxy.ts:153`
  counts on them. `assignPod` may also return a pod that is being drained, when the
  release falls between its SELECT and its ping. Concurrent `fillPool` calls overshoot,
  and nothing shrinks the pool. `reconcile` may mark a row that was inserted before its
  SELECT and has no pod yet, or delete a pod whose row came after it; the unconditional
  UPDATE of the creation brings the row back, and the next reconcile repairs it. The
  watch marks a row terminated although a pod in phase Failed still exists. `assignPod`
  holds one connection of the pool and asks for more: with as many users at once as there
  are connections each waits for the others, until the statement time-out frees those that
  wait for a lock.
- Sentinel. `bulk-resolve-duplicates` finds nothing to do within a cluster (`OneOpen`);
  without `cluster_id` it takes the incidents of two clusters for duplicates. The mode
  selector says "Observe only, no actions" of a mode in which approvals still act, and
  "Auto-fix harmless, ask for rest" of one in which a runbook that matches is executed for
  any severity without asking; runbooks pass by the rate limit as well. An incident left
  pending (a fix that failed, the rate limit, readonly mode, a crash) can be rejected or
  resolved but not approved, and keeps its issue from being looked at again until then.
  When the record of a runbook cannot be written behind its steps, standard remediation
  fixes a second time. Two approvals that overlap both act. A rejection or resolution of
  an incident that a check has in hand is undone by the status the check writes next
  (`proposed`, `alert`, `fixed`), so the operator's answer is lost. An update whose
  kubeconfig cannot be loaded is answered with 500 when the loop has been stopped
  already: the cluster stays enabled and is not checked, and a process that starts then
  exits in `main`. Deleting a cluster stops its
  loop first and then fails on a foreign key if a snapshot exists: the cluster stays
  enabled and is not checked again before a restart. A loop that is stopped while it
  awaits its first check sets its interval afterwards, and nothing can clear it.

## 4. Proofs

TLC checks the instances above; `tlapm` proves the following for all values of the
constants.

| Theorem | Module | States |
|---|---|---|
| `TypeCorrect` | HistorianFlushProofs | `Spec => []TypeOK` |
| `NoLoss` | HistorianFlushProofs | `Spec => []NoSilentLoss` |
| `DurableHolds` | HistorianFlushProofs | `Spec => []Durable` |
| `ShutdownLosesNothing` | HistorianFlushProofs | `Spec => []ShutdownSafe` |
| `TwiceOnlyAfterFailure` | HistorianFlushProofs | `Spec => []DuplicateOnlyAfterFailure` |
| `DeliveryImplemented` | HistorianFlushProofs | `Spec => ImplementsDelivery` |
| `TypeCorrect` | FlowTraversalProofs | `Spec => []TypeOK` |
| `CalledOnce` | FlowTraversalProofs | `Spec => []RunsOnce` |
| `NothingCutOff` | FlowTraversalProofs | `Spec => []SentMeansRun` |
| `LoopProgresses` | FlowTraversalProofs | `Spec => Progress` |
| `AcceptedTabsAreFlows` | FlowCallsProofs | what `buildGraph` accepts satisfies `FlowsAreGraphs` and has finitely many nodes |
| `CallsAreExecutors` | FlowCallsProofs | `CallSpec => Spec` |
| `TypeCorrectWithCalls` | FlowCallsProofs | `CallSpec => []TypeOK` |
| `CalledOnceWithCalls` | FlowCallsProofs | `CallSpec => []RunsOnce` |
| `NothingCutOffWithCalls` | FlowCallsProofs | `CallSpec => []SentMeansRun` |
| `CallTypeCorrect` | FlowCallsProofs | `CallSpec => []CallTypeOK` |
| `CycleCheckCorrect` | FlowCallsProofs | `CallSpec => []CyclesRejected` |
| `CallRunsInOrder` | FlowCallsProofs | `CallSpec => []RunsInOrder` |
| `RunWithCallsProgresses` | FlowCallsProofs | `CallSpec => CallProgress` |
| `TypeCorrect` | FlowRunsProofs | `Spec => []TypeOK` |
| `SingleDriver` | FlowRunsProofs | `Spec => []OneDriver` |
| `RunningIsTrue` | FlowRunsProofs | `Spec => []RunningIsDriven` |
| `NobodyWaitsInVain` | FlowRunsProofs | `Spec => []PausedIsAnswerable` |
| `FinalIsFinal` | FlowRunsProofs | `Spec => FinalStays` |
| `TypeCorrect` | LlmGateProofs | `Spec => []TypeOK` |
| `SlotsConserved` | LlmGateProofs | `Spec => []SlotsHeld` |
| `NobodyOvertakes` | LlmGateProofs | `Spec => FirstComeFirstServed` |
| `SingleProbe` | LlmGateProofs | `Spec => []OneProbe` |
| `GateIsFairSemaphore` | LlmGateProofs | `Spec => ImplementsSemaphore` |
| `PodTypes` | PodManagerProofs | `Spec => []TypeOK` |
| `PodOneEditor` | PodManagerProofs | `Spec => []OneEditor` |
| `PodPrivate` | PodManagerProofs | `Spec => []Private` |
| `PodOnDemandCounted` | PodManagerProofs | `Spec => []OnDemandCounted` |
| `PodHandedWithFlows` | PodManagerProofs | `Spec => HandedWithFlows` |
| `PodReconcileRepairs` | PodManagerProofs | `Spec => ReconcileRepairs` |
| `SentinelTypes` | SentinelProofs | `Spec => []TypeOK` |
| `SentinelOneLoop` | SentinelProofs | `Spec => []OneLoop` |
| `SentinelLoopFollowsRow` | SentinelProofs | `Spec => []LoopFollowsRow` |
| `SentinelOneOpen` | SentinelProofs | `Spec => []OneOpen` |
| `SentinelFixedOnce` | SentinelProofs | `Spec => []FixedOnce` |
| `SentinelClosedForGood` | SentinelProofs | `Spec => ClosedForGood` |

*Historian.* Assumed of the constants: only what the modules' ASSUMEs say (positive
limits). Type correctness comes first. `NoSilentLoss` is not inductive alone: a
flush needs its batch to consist of its committed part and its remaining part, so
the invariant carries what a flight still holds. `Durable` needs that every row in
a line replayed before was stored, and that lines behind the replay position are
untouched. `ShutdownSafe` needs that a row in memory is on disk or recorded as
unwritten once its table has been flushed.
`DuplicateOnlyAfterFailure` needs `HeldApart`, that a reading is in one buffer or one
flight at most, and `FirstLife`, that without a replay a stored reading can be held
again only behind a failed COPY. The refinement reads the status of each reading off
the places it is in (`StatusIs`); `KnownInv` says that what is held, stored or given up
was accepted, what is given up is not held, and nothing is in flight outside a serving
process. Each step is then a delivery step (`StoreStep`), a start or an end of the
process at which readings may go (`RestartStep`), or leaves every status alone
(`StutterStep`).

*Flow loop.* `RunsOnce` follows from `executed` remembering every called node and
from the saved outputs remembering them across a pause. `SentMeansRun` needs the
argument that a deadlock cannot occur among known types: graphs are
acyclic (`GraphIsSound`), so among the nodes that are queued and not executed there is
one that none of them leads to; every visited upstream of it is executed and has an
output, so that node is not blocked (`NoDeadlock`).

*Cycle check.* A search that throws has found a cycle: the calls under way are chained
(`Chained`, each node is an upstream of the next), and the target that is looked at
closes the chain, so the nodes on it have no minimal one (`ThrowsAtCycles`). A search
that ends has a topological order behind it: a node is done only when all its targets are
(`Closed`; `Covered` carries this through the targets a call has looked at already), and
`Sorted` says that every set of nodes that are done has a minimal one, to which `Leave`
adds one node that nothing done leads back to. When all nodes are done, `Sorted` is
`Acyclic` (`SearchedIsAcyclic`). `CyclesRejected` also needs that an acyclic graph with a
node has an entry node (`BuiltIsSound`).

*Called flows.* `LoopInv` is what `RunsInOrder` needs: a node that has been executed
had the outputs of all its upstream nodes (`Ordered`); a node that is not executed is
queued, or has an upstream that is not executed or left it out (`Reached`), which is the
second half of `RunsInOrder` once the queue is empty. `CallInv` joins it to the run: while
a call is under way its node is at the head of the queue and does not wait, since nothing
else moves. `CallsAreExecutors` then maps every step of the composition to a step of
FlowTraversal or to none, so that the loop's three theorems hold of runs with calls
without being proved again. `AcceptedTabsAreFlows` discharges the loop's assumption on
flows: it holds of everything the builder lets through. Assumed: tabs are sequences of
raw nodes (`TabsAreTabs`).

*Progress.* `Progress` and `CallProgress` are what there is to prove of `RunEnds` and
`CallReturns` without fairness: no step leaves a loop as far from its end as it was. The
distance is lexicographic: nodes not executed, targets to send to, the length of the
queue, and the place in it of the first node that need not be put back (`Turn`); for the
search, nodes dfs has not been called for, calls under way, targets the innermost one has
still to look at. Each is a natural number for a graph of finitely many nodes, which
`AcceptedTabsAreFlows` says every accepted tab has, so a loop that keeps taking steps
ends. A postponement has a `Turn` to come nearer to because of the argument of
`SentMeansRun`: some queued node is not blocked (`OneIsReady`; in a called flow, because
a node that is not executed is queued or has an upstream that is not executed, and some
such node has none). `Turned` says that putting the head back brings it one place
forward. That steps keep being taken is the fairness of `FairSpec` and `CallSpec`, and
the step from the two to the temporal formula is left to TLC.

Induction over a sequence (a concatenation, the chain of calls) is done by hand, through
the least element for which a statement fails (`LeastElement`, from well-foundedness of
the order on numbers).

*Flow runs.* The only assumption is that `None` is no id. The effect of every kind of
step is first stated pointwise, for the call and the run it touches. The invariant
then has five parts, each kept by every step given the earlier ones. `Sound`: a call
that has not launched its run is not registered, without which the end of a call
could leave a registry entry that works on nothing. `Solo`: unless a run was answered
twice, one call at most is busy with it, and the run is not paused meanwhile (why the
next answer must find it unpaused). `Settled` extends this to calls about to mark a
failure, and says that a final run has none: `FinalStays` follows, because every step
that writes a row is a step of such a call. `Known` follows the drain: what is not
undriven is registered, awaited, and marked, so after `Drained` a run that is not on
the list has no call at all, and by `WorkedOnAt` does not run. `Answerable` needs from
`Solo` that the question is still open when the run is paused.

*LLM gate.* `active` counts the calls that hold a slot because a release that hands
its slot on leaves the count as it was; since a call is queued only when all slots are
taken, and any release with a non-empty queue keeps them so, nobody waits beside a
free slot. The head of the queue is a waiting call, hence distinct from all holders.
`OneProbe` needs that a breaker which is not closed has counted `Threshold` failures.
The refinement follows from the same invariant: `BeginIsTakeOrJoin`, `LeaveIsLeave` and
`ReleaseIsGiveBackOrHandOver` map the three kinds of step that move a slot or the line,
whatever breaker and stages do beside them, and everything else stutters.

*Pods.* Assumed: `None` is neither a pod nor a user, pods and calls are finite sets (the
counting needs it), limits are numbers. `PodInv` has, besides types and counting, the
parts that make each other inductive. `CallsInv`: what a call holds at each stage.
`Exclusive`: of the calls
for one user one holds the lock. `RowInv`
and `AtInv`: what the row of a pod can be while a handler is at it, in spite of marks and
purges; a pod at which a call is at work is its user's. `OneEditor` needs that only a call with the lock makes a row
assigned, having seen none. `HoldInv` says that a
pod being booted has no other owner, `LoadInv` that an assigned pod has its flows, is
about to get them from the call at it, or was cut off. `ScanInv` follows a reconcile: what
it still has to do about a pod nobody touched is what row and cluster need (`Told`), and
when nothing is left they agree.

*Sentinel.* Assumed: `None` is not used for anything else, and limits are numbers.
`LoopInv` ties timers, the map and the requests under way together: what a request has
still to do explains any difference between row and loop, which is why it must speak of
how many requests there are (`RequestInv`, in orderly histories). `IncidentInv` needs `Exclusive` (one check at
a time, by `Free`), whence the incident a check is about to insert has no open sibling;
`CheckInv` and `ClickInv` say which status and which history the incident in hand has
unless it is doubtful, at each stage; `RowsInv` what a status says of the history. An
incident in the hand of a check is not proposed and in the hand of no approval, so that an
approval can overlap approvals only. `ClosedForGood` is a step of two parts: what nobody
has in hand is taken up as a new row or as a proposed one, and a closed incident is
neither; what is not in hand is written by answers only, which close (`HandsStay`,
`ClosedStays`).

Every invariant and action property of a passing run is proved. Only model-checked are
the liveness properties (`ShutdownCompletes`, `RunEnds`, `CallReturns`, `ShutdownEnds`,
`Served`): the prover handles neither fairness nor ENABLED. Of `RunEnds` and `CallReturns`
the half that needs no fairness is proved, as `CallProgress`.

## 5. Plan

What is left, in order of importance:

1. Numbered events and the poller, as a module beside FlowRuns: the numbers after a
   resume, and what a client that polls until a final status has seen.
2. Two gateways: the advisory lock and most of `nodered_pods` are made for several
   replicas, `onDemandCount`, the registry and `loopRunning` are not.
3. Liveness of the pod pool: what fairness of Kubernetes would let a waiting user get a pod.

## 6. Not modelled, and why

The models cover a small share of the repository's lines, and most of the rest has no
behaviour of the kind a model checker decides. The largest files are pages
(`osf-frontend`, `chat-ui`), manifests and scripts, which have no state machine; routes
(`admin`, `auth`, `marketplace`, `sim-v5`, `i3x`, `uns`), where a request is one query
and the database gives the atomicity; prompts, parsing and text (`agents`, `chat`,
`kg-agent`), whose control is a sequence of calls that ends with the request; and batch
computations (`osf-kg-builder`, predictor), which are done again on the next run.

Of the parts that do keep state, these are left out:

- *Flow events and polling* (`routes.ts:276`, with `engine.ts:428`). Event numbers belong to
  the calls of FlowRuns, and beside three calls with every failure they exceed what TLC
  finishes. The hazard is listed without a property.
- *Historian intake.* Backpressure cancels the subscriptions and waits for a message to
  resume; this needs no interleaving to see, and a model of the broker would only restate
  it. COPY and dead letters are in HistorianFlush as the database they call.
- *Chain runner*: run rows like those of FlowRuns, without pausing, registry or drain.
- *Node-RED proxy and storage*: bytes forwarded, one query per request.
- *Sentinel's chat*, whose tool calls an operator approves with the same check-then-act
  as incidents (`chat-tools.ts:651-708`), its predictor and its notifications.
- *Two replicas* of any service: the manifests run one.

Everything listed `not_modelled` in `PROJECT.json` carries its reason there.
