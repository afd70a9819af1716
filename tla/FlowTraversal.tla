----------------------------- MODULE FlowTraversal -----------------------------
(***************************************************************************)
(* The loop that runs a flow (runFlowAsync and resumeFlow of               *)
(* osf-gateway/src/flows/engine.ts), one iteration per step, for one run.  *)
(*                                                                         *)
(* The engine walks the graph breadth first.  A node taken from the queue  *)
(* whose queued upstream nodes have no output yet goes to the back; when   *)
(* everything in the queue waits like that the loop gives up and the run   *)
(* completes.  A human-input node pauses the run: the outputs so far are   *)
(* saved in the run's row and the queue is dropped.  The answer starts a   *)
(* new loop at the targets of that node, on the flow as it is saved then.  *)
(*                                                                         *)
(* Outputs are abstracted to the set of nodes that have one.  The steps of *)
(* one iteration that no await separates (taking a node, sending its       *)
(* output on target by target) are steps of the one loop there is here.    *)
(* What two loops, a crash or a failing database do to a run is another    *)
(* question, and left to a model of the run's row.                         *)
(***************************************************************************)
EXTENDS FlowGraph

CONSTANTS
    Nodes,      \* ids of nodes
    Flows       \* the flows: each is the set of its editions, which are graphs

IsGraph(g) ==
    /\ g.nodes \subseteq Nodes
    /\ g.kind \in [g.nodes -> Kinds]
    /\ g.wires \in [g.nodes -> Seq(Seq(Nodes))]
    /\ g.entries \in Seq(Nodes)
    /\ g.sends \in [g.nodes -> SUBSET Seq(Nodes)]
    /\ g.all \in [g.nodes -> Seq(Nodes)]

\* buildGraph has accepted every edition, and found an entry node.
ASSUME FlowsAreGraphs ==
    \A F \in Flows : \A g \in F :
        IsGraph(g) /\ Acyclic(g) /\ g.entries # <<>> /\ ToSet(g.entries) \subseteq g.nodes

VARIABLES
    flow,       \* the flow that is run
    graph,      \* the edition the loop works on
    status,     \* flow_runs.status
    queue, visited, executed,
    sending,    \* targets of the latest output the loop has still to queue
    outputs,    \* nodes with an entry in nodeOutputs
    context,    \* flow_runs.context: the paused node and the saved outputs
    \* History, read by the properties only:
    ran,        \* how often each node's executor has been called
    owed,       \* nodes of the graph an executed node's output was sent to
    lost        \* nodes that were still in the queue at a pause

vars == <<flow, graph, status, queue, visited, executed, sending, outputs,
          context, ran, owed, lost>>

Statuses == {"running", "paused", "completed", "failed"}

TypeOK ==
    /\ graph \in flow
    /\ status \in Statuses
    /\ queue \in Seq(Nodes) /\ sending \in Seq(Nodes)
    /\ visited \subseteq Nodes /\ executed \subseteq Nodes /\ outputs \subseteq Nodes
    /\ context \in [node : Nodes, outputs : SUBSET Nodes] \cup {<<>>}
    /\ ran \in [Nodes -> Nat]
    /\ owed \subseteq Nodes /\ lost \subseteq Nodes

\* executeFlow: the queue starts with the entry nodes.
Init ==
    /\ flow \in Flows /\ graph \in flow
    /\ status = "running"
    /\ queue = graph.entries
    /\ visited = ToSet(graph.entries)
    /\ executed = {} /\ sending = <<>> /\ outputs = {}
    /\ context = <<>>
    /\ ran = [n \in Nodes |-> 0]
    /\ owed = ToSet(graph.entries) /\ lost = {}

-------------------------------------------------------------------------------

\* Mutant: waits for every upstream node, queued or not.
WaitsForEveryUpstream(n) == Upstreams(graph, n) \ outputs # {}

Waits(n) == Blocked(graph, n, visited, outputs)

\* A node at the head of the queue that is still to be looked at.  (The code takes it
\* off before it looks; here it stays until its executor is done.)
AtHead(n) ==
    /\ status = "running" /\ sending = <<>>
    /\ queue # <<>> /\ n = Head(queue)
    /\ n \in graph.nodes \ executed

\* Already executed, or not a node of the graph.
Discard ==
    /\ status = "running" /\ sending = <<>>
    /\ queue # <<>>
    /\ Head(queue) \notin graph.nodes \ executed
    /\ queue' = Tail(queue)
    /\ UNCHANGED <<flow, graph, status, visited, executed, sending, outputs,
                   context, ran, owed, lost>>

\* Mutant: one waiting node is enough to give up.
SomeBlocked ==
    LET remaining == ToSet(Tail(queue)) \ executed IN
    \E n \in remaining : n \in graph.nodes /\ Waits(n)

\* Everything else in the queue waits too, and there is something else.
AllBlocked ==
    LET remaining == ToSet(Tail(queue)) \ executed IN
    /\ remaining # {}
    /\ \A n \in remaining : n \in graph.nodes /\ Waits(n)

Postpone(n) ==
    /\ AtHead(n) /\ Waits(n) /\ ~AllBlocked
    /\ queue' = Append(Tail(queue), n)
    /\ UNCHANGED <<flow, graph, status, visited, executed, sending, outputs,
                   context, ran, owed, lost>>

\* "Flow deadlock detected": the loop ends, and the run completes.
GiveUp(n) ==
    /\ AtHead(n) /\ Waits(n) /\ AllBlocked
    /\ status' = "completed"
    /\ queue' = Tail(queue)
    /\ UNCHANGED <<flow, graph, visited, executed, sending, outputs, context, ran,
                   owed, lost>>

\* No executor for the node's type: it counts as executed but has no output,
\* and nothing behind it is queued.
SkipUnknown(n) ==
    /\ AtHead(n) /\ ~Waits(n)
    /\ graph.kind[n] = "unknown"
    /\ executed' = executed \cup {n}
    /\ queue' = Tail(queue)
    /\ UNCHANGED <<flow, graph, status, visited, sending, outputs, context, ran,
                   owed, lost>>

\* The executor returns, and its output is to be sent on.
Execute(n) ==
    /\ AtHead(n) /\ ~Waits(n)
    /\ graph.kind[n] \in {"task", "choice", "multi", "call"}
    /\ executed' = executed \cup {n}
    /\ outputs' = outputs \cup {n}
    /\ ran' = [ran EXCEPT ![n] = @ + 1]
    /\ sending' \in graph.sends[n]
    /\ queue' = Tail(queue)
    /\ UNCHANGED <<flow, graph, status, visited, context, owed, lost>>

\* The next target of the output is queued, unless it has been executed.
Send ==
    /\ status = "running" /\ sending # <<>>
    /\ sending' = Tail(sending)
    /\ LET t == Head(sending) IN
        IF t \in executed THEN UNCHANGED <<queue, visited, owed>>
        ELSE /\ queue' = Append(queue, t)
             /\ visited' = visited \cup {t}
             /\ owed' = owed \cup ({t} \cap graph.nodes)
    /\ UNCHANGED <<flow, graph, status, executed, outputs, context, ran, lost>>

\* The executor, or the INSERT of the question, throws.
Fail(n) ==
    /\ AtHead(n) /\ ~Waits(n)
    /\ graph.kind[n] # "unknown"
    /\ status' = "failed"
    /\ ran' = [ran EXCEPT ![n] = @ + 1]
    /\ executed' = executed \cup {n}
    /\ queue' = Tail(queue)
    /\ UNCHANGED <<flow, graph, visited, sending, outputs, context, owed, lost>>

\* Mutant: the outputs are not saved.
SavedWithoutOutputs(n) == [node |-> n]

\* Mutant: only the inputs of the paused node are saved.
SavedInputs(n) == [node |-> n, outputs |-> Upstreams(graph, n) \cap outputs]

Saved(n) == [node |-> n, outputs |-> outputs]

\* A human-input node: the row keeps the outputs, the locals of the loop are gone.
Pause(n) ==
    /\ AtHead(n) /\ ~Waits(n)
    /\ graph.kind[n] = "human"
    /\ status' = "paused"
    /\ context' = Saved(n)
    /\ ran' = [ran EXCEPT ![n] = @ + 1]
    /\ lost' = lost \cup (ToSet(Tail(queue)) \ executed)
    /\ queue' = <<>> /\ visited' = {} /\ executed' = {} /\ outputs' = {}
    /\ UNCHANGED <<flow, graph, sending, owed>>

\* resumeFlow: every port of the paused node fires, on the edition of now.
Resume ==
    /\ status = "paused"
    /\ graph' \in flow
    /\ outputs' = context.outputs \cup {context.node}
    /\ executed' = outputs'
    /\ IF context.node \in graph'.nodes
       THEN LET targets == graph'.all[context.node] IN
            /\ status' = "running"
            /\ queue' = targets
            /\ visited' = executed' \cup ToSet(targets)
            /\ owed' = owed \cup (ToSet(targets) \cap graph'.nodes)
       ELSE /\ status' = "failed"
            /\ visited' = executed'
            /\ UNCHANGED <<queue, owed>>
    /\ UNCHANGED <<flow, sending, context, ran, lost>>

Complete ==
    /\ status = "running" /\ sending = <<>>
    /\ queue = <<>>
    /\ status' = "completed"
    /\ UNCHANGED <<flow, graph, queue, visited, executed, sending, outputs,
                   context, ran, owed, lost>>

Loop ==
    \/ Discard
    \/ \E n \in Nodes :
        Postpone(n) \/ GiveUp(n) \/ SkipUnknown(n) \/ Execute(n) \/ Fail(n) \/ Pause(n)
    \/ Send \/ Complete

Next ==
    \/ Discard
    \/ \E n \in Nodes : Postpone(n)
    \/ \E n \in Nodes : GiveUp(n)
    \/ \E n \in Nodes : SkipUnknown(n)
    \/ \E n \in Nodes : Execute(n)
    \/ \E n \in Nodes : Fail(n)
    \/ \E n \in Nodes : Pause(n)
    \/ Send \/ Resume \/ Complete

Spec == Init /\ [][Next]_vars

\* Executors and queries return: an iteration that changes the loop's state is
\* eventually taken.  Nobody has to answer a question.
FairSpec == Spec /\ WF_vars(Loop)

-------------------------------------------------------------------------------
(* Properties.                                                               *)

AllKnown == \A g \in flow : \A n \in g.nodes : g.kind[n] # "unknown"

\* However often a run pauses and resumes, also on an edited flow, no node's
\* executor (a machine write, an e-mail, an LLM call) is called twice.
RunsOnce == \A n \in Nodes : ran[n] <= 1

\* A completed run of a flow all of whose types are known has executed every
\* node an output was sent to, except those a pause dropped: the loop's
\* deadlock detection never cuts off a node that could have run.
SentMeansRun ==
    status = "completed" /\ AllKnown =>
        owed \subseteq executed \cup lost

\* The first node in the queue that need not be put back is the k-th.
Turn(k) ==
    LET Stuck(n) == n \in graph.nodes \ executed /\ Waits(n) IN
    /\ k \in DOMAIN queue /\ ~Stuck(queue[k])
    /\ \A j \in 1..(k - 1) : Stuck(queue[j])

\* The loop ends or is nearer to its end: one more node is executed, else fewer targets
\* are to be sent to, else the queue is shorter, else it turns towards a node that need
\* not be put back.
Advances ==
    \/ status' # "running"
    \/ /\ graph' = graph /\ status' = status
       /\ \/ \E n \in graph.nodes \ executed : executed' = executed \cup {n}
          \/ executed' = executed /\ Len(sending') < Len(sending)
          \/ executed' = executed /\ sending' = sending /\ Len(queue') < Len(queue)
          \/ /\ UNCHANGED <<executed, sending>> /\ Len(queue') = Len(queue)
             /\ \E k \in DOMAIN queue : Turn(k + 1) /\ Turn(k)'

\* No iteration on a flow of known types leaves the loop as far from its end as it was:
\* however nodes are put back, it cannot turn for ever.
Progress == [][status = "running" /\ AllKnown => Advances]_vars

\* "Flow deadlock detected - skipping blocked nodes" (engine.ts): the loop ends
\* for every flow, blocked nodes or not.
DeadlockDetected == status = "running" ~> status # "running"
===============================================================================
