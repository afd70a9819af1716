-------------------------------- MODULE SubFlow --------------------------------
(***************************************************************************)
(* The loop of the osf-sub-flow executor                                   *)
(* (osf-gateway/src/flows/node-executors/osf-sub-flow.ts), which runs      *)
(* another flow inside one node of a run.  The flow is loaded and its      *)
(* graph built; then a loop runs that looks like the engine's but keeps no *)
(* visited set: a node waits for all its upstream nodes, and goes to the   *)
(* back of the queue as long as one has no output; there is no deadlock    *)
(* detection.  A node without executor passes its input on but nothing     *)
(* behind it is queued; a human-input node files its question and the loop *)
(* goes on with an empty answer.  The depth limit on nested calls and what *)
(* a node computes are left out.                                           *)
(***************************************************************************)
EXTENDS BuildGraph

CONSTANTS
    Nodes,      \* ids of nodes
    Tabs        \* the raw nodes of the tabs of the flows that may be called

VARIABLES
    status,     \* of the call: "building", "running", "returned", "failed"
    queue, executed,
    outputs,    \* nodes with an entry in nodeOutputs
    asked       \* nodes whose question is in flow_pending_inputs

loopVars == <<queue, executed, outputs, asked>>
vars == <<graph, searchVars, status, loopVars>>

TypeOK ==
    /\ visited \subseteq graph.nodes
    /\ calls \in Seq([node : graph.nodes, rest : Seq(Nodes)])
    /\ status \in {"building", "running", "returned", "failed"}
    /\ queue \in Seq(Nodes)
    /\ executed \subseteq graph.nodes /\ outputs \subseteq executed
    /\ asked \subseteq executed

\* The flow is loaded, and buildGraph called.
Init ==
    /\ \E tab \in Tabs : graph = Built(tab)
    /\ visited = {} /\ calls = <<>>
    /\ status = "building"
    /\ queue = <<>> /\ executed = {} /\ outputs = {} /\ asked = {}

-------------------------------------------------------------------------------
(* buildGraph looks for a cycle.                                             *)

Search(step) == status = "building" /\ step /\ UNCHANGED <<status, loopVars>>

\* buildGraph throws, and with it the osf-sub-flow node.
Reject ==
    /\ status = "building" /\ FoundCycle
    /\ status' = "failed"
    /\ UNCHANGED <<graph, searchVars, loopVars>>

\* buildGraph returns; a flow without entry nodes fails.
Accept ==
    /\ status = "building" /\ Searched
    /\ status' = IF graph.entries = <<>> THEN "failed" ELSE "running"
    /\ queue' = graph.entries
    /\ UNCHANGED <<graph, searchVars, executed, outputs, asked>>

-------------------------------------------------------------------------------
(* The loop.                                                                 *)

AtHead(n) ==
    /\ status = "running"
    /\ queue # <<>> /\ n = Head(queue)
    /\ n \in graph.nodes \ executed

Discard ==
    /\ status = "running"
    /\ queue # <<>>
    /\ Head(queue) \notin graph.nodes \ executed
    /\ queue' = Tail(queue)
    /\ UNCHANGED <<graph, searchVars, status, executed, outputs, asked>>

\* Mutant: one upstream node with an output is enough.
SomeReady(n) == Upstreams(graph, n) # {} => Upstreams(graph, n) \cap outputs # {}

Ready(n) == Upstreams(graph, n) \subseteq outputs

Postpone(n) ==
    /\ AtHead(n) /\ ~Ready(n)
    /\ queue' = Append(Tail(queue), n)
    /\ UNCHANGED <<graph, searchVars, status, executed, outputs, asked>>

\* Mutant: only nodes with an executor are marked.
MarkedIfKnown(n) ==
    IF graph.kind[n] = "unknown" THEN executed ELSE executed \cup {n}

Marked(n) == executed \cup {n}

\* Mutant: a paused result leaves no output.
OutputUnlessAsked(n) ==
    IF graph.kind[n] = "human" THEN outputs ELSE outputs \cup {n}

WithOutput(n) == outputs \cup {n}

PassThrough(n) ==
    /\ AtHead(n) /\ Ready(n)
    /\ graph.kind[n] = "unknown"
    /\ executed' = Marked(n)
    /\ outputs' = WithOutput(n)
    /\ queue' = Tail(queue)
    /\ UNCHANGED <<graph, searchVars, status, asked>>

\* The executor returns; `paused` of its result is not looked at.
Execute(n) ==
    /\ AtHead(n) /\ Ready(n)
    /\ graph.kind[n] # "unknown"
    /\ executed' = Marked(n)
    /\ outputs' = WithOutput(n)
    /\ asked' = IF graph.kind[n] = "human" THEN asked \cup {n} ELSE asked
    /\ \E targets \in graph.sends[n] :
        queue' = Tail(queue) \o Without(targets, executed')
    /\ UNCHANGED <<graph, searchVars, status>>

\* The executor throws, and with it the osf-sub-flow node.
Fail(n) ==
    /\ AtHead(n) /\ Ready(n)
    /\ graph.kind[n] # "unknown"
    /\ status' = "failed"
    /\ executed' = Marked(n)
    /\ queue' = Tail(queue)
    /\ UNCHANGED <<graph, searchVars, outputs, asked>>

Return ==
    /\ status = "running" /\ queue = <<>>
    /\ status' = "returned"
    /\ UNCHANGED <<graph, searchVars, queue, executed, outputs, asked>>

Next ==
    \/ \E n \in Nodes : Search(Enter(n))
    \/ \E t \in Nodes : Search(Pass(t))
    \/ \E t \in Nodes : Search(Descend(t))
    \/ Search(Leave)
    \/ Reject
    \/ Accept
    \/ Discard
    \/ \E n \in Nodes : Postpone(n)
    \/ \E n \in Nodes : PassThrough(n)
    \/ \E n \in Nodes : Execute(n)
    \/ \E n \in Nodes : Fail(n)
    \/ Return

Spec == Init /\ [][Next]_vars

-------------------------------------------------------------------------------

\* The cycle check turns a flow away exactly when its executable nodes have no
\* topological order, however infrastructure nodes and dangling wires mix in, and
\* a flow it lets through has an entry node unless it is empty.
CyclesRejected ==
    /\ status = "running" => Acyclic(graph)
    /\ status = "failed" /\ executed = {} => ~Acyclic(graph) \/ graph.nodes = {}

\* m may run without n, which is wired to it, being queued: there is no executor
\* for m, or a result of m that n is not a target of.
CanLeaveOut(m, n) ==
    \/ graph.kind[m] = "unknown"
    \/ \E targets \in graph.sends[m] : n \notin ToSet(targets)

\* A node never runs before any node wired into it, and a call that returns has
\* run every node, except those behind a node that did not run or left it out.
RunsInOrder ==
    /\ \A n \in executed : Upstreams(graph, n) \subseteq executed
    /\ status = "returned" =>
           \A n \in graph.nodes \ executed : \E m \in Upstreams(graph, n) :
               m \notin executed \/ CanLeaveOut(m, n)

\* The called flow waits for a node that may never run.
CanHang == \E n \in graph.nodes : \E m \in Upstreams(graph, n) : CanLeaveOut(m, n)

\* The first node in the queue that need not be put back is the k-th.
Turn(k) ==
    LET Stuck(n) == n \in graph.nodes \ executed /\ ~Ready(n) IN
    /\ k \in DOMAIN queue /\ ~Stuck(queue[k])
    /\ \A j \in 1..(k - 1) : Stuck(queue[j])

\* The search ends or is nearer to its end: dfs is called for one more node, else a call
\* returns, else the innermost one has fewer targets to look at.
SearchAdvances ==
    LET Seen == visited \cup Visiting IN
    \/ status' \in {"running", "failed"}
    \/ /\ graph' = graph /\ status' = status
       /\ \/ \E n \in graph.nodes \ Seen : Seen' = Seen \cup {n}
          \/ Seen' = Seen /\ Len(calls') < Len(calls)
          \/ /\ Seen' = Seen /\ Len(calls') = Len(calls)
             /\ Len(Last(calls').rest) < Len(Last(calls).rest)

\* The loop ends or is nearer to its end.
LoopAdvances ==
    \/ status' \in {"returned", "failed"}
    \/ /\ graph' = graph /\ status' = status
       /\ \/ \E n \in graph.nodes \ executed : executed' = executed \cup {n}
          \/ executed' = executed /\ Len(queue') < Len(queue)
          \/ /\ executed' = executed /\ Len(queue') = Len(queue)
             /\ \E k \in DOMAIN queue : Turn(k + 1) /\ Turn(k)'

\* The call ends when no branch can be left out and every type is known.
CallReturns == status \in {"building", "running"} /\ ~CanHang ~> status \in {"returned", "failed"}

\* "Pause for human approval/input" (osf-gateway/README.md): no node runs behind a
\* human-input node whose question is still open.
WaitsForApproval == \A n \in executed : Upstreams(graph, n) \cap asked = {}
===============================================================================
