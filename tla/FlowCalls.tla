------------------------------- MODULE FlowCalls -------------------------------
(***************************************************************************)
(* A run whose flow calls another one: the loop of FlowTraversal with the  *)
(* loop of SubFlow inside it.  A node of type osf-sub-flow is executed by  *)
(* running the loop of the called flow to its end; the engine awaits that  *)
(* like any other executor (osf-gateway/src/flows/engine.ts and            *)
(* node-executors/osf-sub-flow.ts).  What the called flow returns goes on  *)
(* from the calling node; what it throws fails the run; while it runs, the *)
(* engine does nothing else for the run.                                   *)
(***************************************************************************)
EXTENDS FlowTraversal

CONSTANT Tabs       \* the raw nodes of the tabs of the flows that may be called

ASSUME TabsAreTabs == \A tab \in Tabs : IsTab(tab, Nodes)

VARIABLES
    callee,         \* the graph of the called flow
    callVisited, callCalls,     \* of buildGraph
    callStatus,     \* "none", or as in SubFlow
    callQueue, callExecuted, callOutputs,
    callAsked       \* nodes of the called flow whose question is filed

callVars == <<callee, callVisited, callCalls, callStatus, callQueue, callExecuted,
              callOutputs, callAsked>>
allVars == <<vars, callVars>>

Sub == INSTANCE SubFlow WITH
    graph <- callee, visited <- callVisited, calls <- callCalls, status <- callStatus, queue <- callQueue,
    executed <- callExecuted, outputs <- callOutputs, asked <- callAsked

CallGraphs == {Built(tab) : tab \in Tabs}

NoGraph == Graph(<<>>, <<>>, <<>>)

NotCalling ==
    /\ callee = NoGraph /\ callVisited = {} /\ callCalls = <<>>
    /\ callStatus = "none" /\ callQueue = <<>>
    /\ callExecuted = {} /\ callOutputs = {} /\ callAsked = {}

CallTypeOK == NotCalling \/ Sub!TypeOK

CallInit == Init /\ NotCalling

\* The node the engine is about to execute is an osf-sub-flow node.
Calls(n) == AtHead(n) /\ ~Waits(n) /\ graph.kind[n] = "call"

\* The flow is loaded, and buildGraph called.
Call(n) ==
    /\ callStatus = "none" /\ Calls(n)
    /\ callee' \in CallGraphs
    /\ callStatus' = "building"
    /\ UNCHANGED <<vars, callVisited, callCalls, callQueue, callExecuted, callOutputs,
                   callAsked>>

CallLoop == Sub!Next /\ UNCHANGED vars

\* The executor of the calling node is done.
CallOver ==
    /\ callee' = NoGraph /\ callVisited' = {} /\ callCalls' = <<>>
    /\ callStatus' = "none" /\ callQueue' = <<>>
    /\ callExecuted' = {} /\ callOutputs' = {} /\ callAsked' = {}

CallReturned(n) == Calls(n) /\ callStatus = "returned" /\ Execute(n) /\ CallOver

\* The call has thrown; or it comes to nothing: no such flow, nested too deep, or
\* the query for it fails.
CallFailed(n) == Calls(n) /\ callStatus \in {"failed", "none"} /\ Fail(n) /\ CallOver

\* What the engine does itself.  While a call is under way the calling node is at
\* the head of the queue and does not wait, so none of this is enabled: the model's
\* form of the await on the executor, in place of a variable for the node it is at.
Work ==
    \/ Discard /\ UNCHANGED callVars
    \/ \E n \in Nodes : Postpone(n) /\ UNCHANGED callVars
    \/ \E n \in Nodes : GiveUp(n) /\ UNCHANGED callVars
    \/ \E n \in Nodes : SkipUnknown(n) /\ UNCHANGED callVars
    \/ \E n \in Nodes : ~Calls(n) /\ Execute(n) /\ UNCHANGED callVars
    \/ \E n \in Nodes : ~Calls(n) /\ Fail(n) /\ UNCHANGED callVars
    \/ \E n \in Nodes : Pause(n) /\ UNCHANGED callVars
    \/ Send /\ UNCHANGED callVars
    \/ Complete /\ UNCHANGED callVars
    \/ \E n \in Nodes : Call(n)
    \/ CallLoop
    \/ \E n \in Nodes : CallReturned(n)
    \/ \E n \in Nodes : CallFailed(n)

CallNext == Work \/ (Resume /\ UNCHANGED callVars)

\* Executors and queries return; nobody has to answer a question.
CallSpec == CallInit /\ [][CallNext]_allVars /\ WF_allVars(Work)

-------------------------------------------------------------------------------
(* Properties.                                                               *)

\* The cycle check turns away exactly the called flows that have a cycle.
CyclesRejected == Sub!CyclesRejected

\* The called flow runs its nodes in order, and all that it can.
RunsInOrder == Sub!RunsInOrder

\* A call ends when no branch of the called flow can be left out.
CallReturns == Sub!CallReturns

CallAdvances ==
    \/ callStatus = "none" /\ callStatus' = "building"
    \/ callStatus = "building" /\ Sub!SearchAdvances
    \/ callStatus = "running" /\ Sub!LoopAdvances

\* Every step of a run of known types brings the engine's loop or the call under way
\* nearer to its end, unless the called flow has a branch it can leave out.
CallProgress ==
    [][status = "running" /\ AllKnown /\ ~Sub!CanHang =>
           Advances \/ (UNCHANGED vars /\ CallAdvances)]_allVars

\* A run of known types ends, joins, skipped branches, pauses and calls included:
\* nothing can hold it but a called flow that waits for a branch it left out.
RunEnds == status = "running" /\ AllKnown ~> status # "running" \/ Sub!CanHang
===============================================================================
