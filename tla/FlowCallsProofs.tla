---------------------------- MODULE FlowCallsProofs ----------------------------
(***************************************************************************)
(* Proofs about FlowCalls, for any flows and any called tabs.  To the      *)
(* engine a call is an executor like any other: the run with calls         *)
(* implements the run without them, and what FlowTraversalProofs proves of *)
(* that holds of it.  What holds of the called flow are the lemmas of      *)
(* SubFlowProofs, read for the call's variables.                           *)
(***************************************************************************)
EXTENDS FlowCalls, FlowTraversalProofs, FiniteSetTheorems

SubP == INSTANCE SubFlowProofs WITH
    graph <- callee, visited <- callVisited, calls <- callCalls, status <- callStatus, queue <- callQueue,
    executed <- callExecuted, outputs <- callOutputs, asked <- callAsked

-------------------------------------------------------------------------------
(* The two instances of SubFlow are the same.                                *)

\* A step of the called flow is one SubFlowProofs speaks of.
LEMMA SameStep == Sub!Next => SubP!Next
<1> USE DEF Sub!searchVars, SubP!searchVars, Sub!loopVars, SubP!loopVars, Sub!ToSet, SubP!ToSet,
        Sub!Last, SubP!Last, Sub!Front, SubP!Front, Sub!FlattenSeq, SubP!FlattenSeq
<1>1. ASSUME NEW n PROVE Sub!Search(Sub!Enter(n)) => SubP!Search(SubP!Enter(n))
  BY Zenon DEF Sub!Search, SubP!Search, Sub!Enter, SubP!Enter, Sub!Starts, SubP!Starts,
         Sub!CallOf, SubP!CallOf
<1> DEFINE LA(t) == Sub!LooksAt(t) <=> SubP!LooksAt(t)
<1>2. ASSUME NEW t PROVE LA(t)
  BY Zenon DEF Sub!LooksAt, SubP!LooksAt
<1>3. ASSUME NEW t PROVE Sub!Search(Sub!Pass(t)) => SubP!Search(SubP!Pass(t))
  BY <1>2, Zenon DEF Sub!Search, SubP!Search, Sub!Pass, SubP!Pass, Sub!LookedAt, SubP!LookedAt
<1>4. ASSUME NEW t PROVE Sub!Search(Sub!Descend(t)) => SubP!Search(SubP!Descend(t))
  BY <1>2, Zenon DEF Sub!Search, SubP!Search, Sub!Descend, SubP!Descend, Sub!Unseen, SubP!Unseen,
         Sub!LookedAt, SubP!LookedAt, Sub!Visiting, SubP!Visiting, Sub!CallOf, SubP!CallOf
<1>5. Sub!Search(Sub!Leave) => SubP!Search(SubP!Leave)
  BY Zenon DEF Sub!Search, SubP!Search, Sub!Leave, SubP!Leave
<1>6. Sub!Reject => SubP!Reject
  BY <1>2, Zenon DEF Sub!Reject, SubP!Reject, Sub!FoundCycle, SubP!FoundCycle, Sub!Visiting, SubP!Visiting
<1>7. Sub!Accept => SubP!Accept
  BY Zenon DEF Sub!Accept, SubP!Accept, Sub!Searched, SubP!Searched
<1>8. Sub!Discard => SubP!Discard
  BY Zenon DEF Sub!Discard, SubP!Discard
<1>9. ASSUME NEW n PROVE (Sub!AtHead(n) <=> SubP!AtHead(n)) /\ (Sub!Ready(n) <=> SubP!Ready(n))
  BY Zenon DEF Sub!AtHead, SubP!AtHead, Sub!Ready, SubP!Ready, Sub!Upstreams, SubP!Upstreams, Sub!Wired, SubP!Wired
<1>10. ASSUME NEW n PROVE Sub!Postpone(n) => SubP!Postpone(n)
  BY <1>9, Zenon DEF Sub!Postpone, SubP!Postpone
<1>11. ASSUME NEW n PROVE Sub!PassThrough(n) => SubP!PassThrough(n)
  BY <1>9, Zenon DEF Sub!PassThrough, SubP!PassThrough, Sub!Marked, SubP!Marked, Sub!WithOutput, SubP!WithOutput
<1>12. ASSUME NEW n PROVE Sub!Execute(n) => SubP!Execute(n)
  BY <1>9, Zenon DEF Sub!Execute, SubP!Execute, Sub!Marked, SubP!Marked, Sub!WithOutput, SubP!WithOutput,
         Sub!Without, SubP!Without
<1>13. ASSUME NEW n PROVE Sub!Fail(n) => SubP!Fail(n)
  BY <1>9, Zenon DEF Sub!Fail, SubP!Fail, Sub!Marked, SubP!Marked
<1>14. Sub!Return => SubP!Return
  BY Zenon DEF Sub!Return, SubP!Return
<1> QED
  BY <1>1, <1>3, <1>4, <1>5, <1>6, <1>7, <1>8, <1>10, <1>11, <1>12, <1>13, <1>14, Zenon
     DEF Sub!Next, SubP!Next

\* The properties of the called flow are those SubFlowProofs speaks of.
LEMMA SameProperties ==
    /\ SubP!TypeOK => Sub!TypeOK
    /\ SubP!CyclesRejected => CyclesRejected
    /\ SubP!RunsInOrder => RunsInOrder
<1> USE DEF Sub!ToSet, SubP!ToSet
<1>1. SubP!TypeOK => Sub!TypeOK
  BY Zenon DEF SubP!TypeOK, Sub!TypeOK
<1>2. \A n : SubP!Upstreams(callee, n) = Sub!Upstreams(callee, n)
  BY Zenon DEF SubP!Upstreams, Sub!Upstreams, SubP!Wired, Sub!Wired
<1>3. SubP!Acyclic(callee) <=> Sub!Acyclic(callee)
  BY <1>2, Zenon DEF SubP!Acyclic, Sub!Acyclic
<1>4. \A m, n : SubP!CanLeaveOut(m, n) <=> Sub!CanLeaveOut(m, n)
  BY Zenon DEF SubP!CanLeaveOut, Sub!CanLeaveOut
<1>5. SubP!CyclesRejected => CyclesRejected
  BY <1>3, Zenon DEF SubP!CyclesRejected, Sub!CyclesRejected, CyclesRejected
<1>6. SubP!RunsInOrder => RunsInOrder
  BY <1>2, <1>4 DEF SubP!RunsInOrder, Sub!RunsInOrder, RunsInOrder
<1> QED BY <1>1, <1>5, <1>6

\* So is what they say of coming nearer to an end.
LEMMA SameProgress ==
    /\ Sub!CanHang <=> SubP!CanHang
    /\ SubP!SearchAdvances => Sub!SearchAdvances
    /\ SubP!LoopAdvances => Sub!LoopAdvances
<1> USE DEF Sub!ToSet, SubP!ToSet, Sub!Last, SubP!Last
<1>1. /\ \A n : SubP!Upstreams(callee, n) = Sub!Upstreams(callee, n)
      /\ \A n : SubP!Upstreams(callee', n) = Sub!Upstreams(callee', n)
  BY Zenon DEF SubP!Upstreams, Sub!Upstreams, SubP!Wired, Sub!Wired
<1>2. \A m, n : SubP!CanLeaveOut(m, n) <=> Sub!CanLeaveOut(m, n)
  BY Zenon DEF SubP!CanLeaveOut, Sub!CanLeaveOut
<1>3. Sub!CanHang <=> SubP!CanHang
  BY <1>1, <1>2, Zenon DEF SubP!CanHang, Sub!CanHang
<1>4. Sub!Visiting = SubP!Visiting /\ Sub!Visiting' = SubP!Visiting'
  BY DEF Sub!Visiting, SubP!Visiting
<1>5. SubP!SearchAdvances => Sub!SearchAdvances
  BY <1>4 DEF Sub!SearchAdvances, SubP!SearchAdvances
<1>6. \A k : (SubP!Turn(k) => Sub!Turn(k)) /\ (SubP!Turn(k)' => Sub!Turn(k)')
  BY <1>1 DEF SubP!Turn, Sub!Turn, SubP!Ready, Sub!Ready
<1>7. SubP!LoopAdvances => Sub!LoopAdvances
  BY <1>6 DEF Sub!LoopAdvances, SubP!LoopAdvances
<1> QED BY <1>3, <1>5, <1>7

\* A tab, and the graph of it.
LEMMA SameGraph ==
    ASSUME NEW tab, IsTab(tab, Nodes)
    PROVE  SubP!IsTab(tab, Nodes) /\ SubP!Built(tab) = Built(tab)
<1>1. SubP!IsTab(tab, Nodes)
  BY DEF SubP!IsTab, IsTab, SubP!Kinds, Kinds
<1>2. SubP!Built(tab) = Built(tab)
  BY DEF SubP!Built, Built, SubP!Graph, Graph, SubP!Without, Without, SubP!TargetsOf, TargetsOf,
         SubP!Firings, Firings, SubP!ToSet, ToSet, SubP!FlattenSeq, FlattenSeq
<1> QED BY <1>1, <1>2

\* What FlowTraversal assumes of a flow holds of every tab that buildGraph accepts and
\* that is not empty, and its nodes are finitely many.
THEOREM AcceptedTabsAreFlows ==
    ASSUME NEW tab, IsTab(tab, Nodes),
           NEW g, g = Built(tab), Acyclic(g), g.nodes # {}
    PROVE  /\ IsGraph(g) /\ g.entries # <<>> /\ ToSet(g.entries) \subseteq g.nodes
           /\ IsFiniteSet(g.nodes)
<1>1. SubP!SoundGraph(g, Nodes)
  BY SameGraph, SubP!BuiltIsSound
<1>2. \A n : SubP!Upstreams(g, n) = Upstreams(g, n)
  BY Zenon DEF SubP!Upstreams, Upstreams, SubP!Wired, Wired, SubP!ToSet, ToSet
<1>3. ToSet(g.entries) = {n \in g.nodes : Upstreams(g, n) = {}}
  BY <1>1, <1>2 DEF SubP!SoundGraph, SubP!ToSet, ToSet
<1>4. IsGraph(g)
  BY <1>1 DEF SubP!SoundGraph, IsGraph, SubP!Kinds, Kinds
<1>5. g.entries # <<>>
  <2>1. PICK n \in g.nodes : Upstreams(g, n) \cap g.nodes = {}
    BY DEF Acyclic
  <2>2. n \in ToSet(g.entries)
    BY <1>3, <2>1 DEF Upstreams
  <2> QED BY <2>2 DEF ToSet
<1>6. IsFiniteSet(g.nodes)
  <2>1. PICK order \in Seq(Nodes) : g.nodes = ToSet(order)
    <3>1. SubP!IsTab(tab, Nodes) /\ SubP!Built(tab) = g
      BY SameGraph
    <3>2. \E order \in Seq(Nodes) : SubP!Built(tab).nodes = SubP!ToSet(order)
      BY <3>1, SubP!BuiltIsSound
    <3> QED BY <3>1, <3>2 DEF SubP!ToSet, ToSet
  <2>2. Len(order) \in Nat /\ DOMAIN order = 1..Len(order)
    BY LenProperties
  <2>3. order \in Surjection(1..Len(order), g.nodes)
    BY <2>1, <2>2 DEF ToSet, Surjection
  <2>4. IsFiniteSet(1..Len(order))
    BY <2>2, FS_Interval
  <2> QED BY <2>3, <2>4, FS_Surjection
<1> QED BY <1>3, <1>4, <1>5, <1>6

-------------------------------------------------------------------------------
(* The run is one of FlowTraversal.                                          *)

\* What the engine does, a call apart, is a step without calls.
LEMMA StepOfTheRun ==
    ASSUME [CallNext]_allVars
    PROVE  [Next]_vars
<1>1. CASE UNCHANGED allVars
  BY <1>1 DEF allVars
<1>2. CASE Work
  <2>1. ASSUME NEW n \in Nodes, Call(n) PROVE UNCHANGED vars
    BY <2>1 DEF Call
  <2>2. ASSUME CallLoop PROVE UNCHANGED vars
    BY <2>2 DEF CallLoop
  <2>3. ASSUME NEW n \in Nodes, CallReturned(n) PROVE Execute(n)
    BY <2>3 DEF CallReturned
  <2>4. ASSUME NEW n \in Nodes, CallFailed(n) PROVE Fail(n)
    BY <2>4 DEF CallFailed
  <2> QED BY <1>2, <2>1, <2>2, <2>3, <2>4 DEF Work, Next
<1>3. CASE Resume
  BY <1>3 DEF Next
<1> QED BY <1>1, <1>2, <1>3 DEF CallNext

\* A run with calls implements the run without: the engine treats a call as an
\* executor, and whatever the called flow does is none of its steps.
THEOREM CallsAreExecutors == CallSpec => Spec
<1>1. CallInit => Init
  BY DEF CallInit
<1>2. [CallNext]_allVars => [Next]_vars
  BY StepOfTheRun
<1> QED BY <1>1, <1>2, PTL DEF CallSpec, Spec

\* With calls too, the queue holds ids and a paused run can be resumed.
THEOREM TypeCorrectWithCalls == CallSpec => []TypeOK
BY CallsAreExecutors, TypeCorrect, PTL

\* With calls too, no executor is called twice, and so no flow is called twice from
\* one node.
THEOREM CalledOnceWithCalls == CallSpec => []RunsOnce
BY CallsAreExecutors, CalledOnce, PTL

\* With calls too, a completed run has executed what an output was sent to.
THEOREM NothingCutOffWithCalls == CallSpec => []SentMeansRun
BY CallsAreExecutors, NothingCutOff, PTL

-------------------------------------------------------------------------------
(* The called flow.                                                          *)

\* There is no call, or the node that makes it is at the head of the engine's queue
\* and SubFlowProofs' invariant holds of the called flow.
CallInv ==
    \/ NotCalling
    \/ /\ callStatus # "none" /\ \E n \in Nodes : Calls(n)
       /\ SubP!SubInv

\* A step of the engine itself, while a call is under way, is the end of the call.
LEMMA WorkIsTheCall ==
    ASSUME NEW n \in Nodes, Calls(n), callStatus # "none", CallNext
    PROVE  CallLoop \/ \E m \in Nodes : CallReturned(m) \/ CallFailed(m)
<1>1. /\ status = "running" /\ sending = <<>> /\ queue # <<>> /\ n = Head(queue)
      /\ n \in graph.nodes \ executed /\ ~Waits(n) /\ graph.kind[n] = "call"
  BY DEF Calls, AtHead
<1>2. ~Discard /\ ~Send /\ ~Complete /\ ~Resume
  BY <1>1 DEF Discard, Send, Complete, Resume
<1>3. \A m \in Nodes : AtHead(m) => m = n
  BY <1>1 DEF AtHead
<1>4. \A m \in Nodes : ~Postpone(m) /\ ~GiveUp(m) /\ ~SkipUnknown(m) /\ ~Pause(m)
  BY <1>1, <1>3 DEF Postpone, GiveUp, SkipUnknown, Pause
<1>5. \A m \in Nodes : (Execute(m) \/ Fail(m)) => Calls(m)
  BY <1>3 DEF Execute, Fail
<1>6. \A m \in Nodes : ~Call(m)
  BY DEF Call
<1> QED BY <1>2, <1>4, <1>5, <1>6 DEF CallNext, Work

\* The invariant is inductive.
LEMMA CallInvariant == CallSpec => []CallInv
<1>1. CallInit => CallInv
  BY DEF CallInit, CallInv
<1>2. CallInv /\ [CallNext]_allVars => CallInv'
  <2> SUFFICES ASSUME CallInv, [CallNext]_allVars
               PROVE  CallInv'
    OBVIOUS
  <2>1. CallOver => CallInv'
    BY DEF CallOver, CallInv, NotCalling
  <2>2. CASE UNCHANGED allVars
    <3>1. UNCHANGED vars /\ UNCHANGED callVars
      BY <2>2 DEF allVars
    <3>2. NotCalling => NotCalling'
      BY <3>1 DEF callVars, NotCalling
    <3>3. SubP!SubInv => SubP!SubInv'
      <4>1. UNCHANGED SubP!vars
        BY <3>1 DEF callVars, SubP!vars, SubP!searchVars, SubP!loopVars
      <4> QED BY <4>1, SubP!SubStutter
    <3>4. \A n \in Nodes : Calls(n)' <=> Calls(n)
      BY <3>1 DEF vars, Calls, AtHead, Waits, Blocked, Upstreams, Wired
    <3> QED BY <3>1, <3>2, <3>3, <3>4 DEF CallInv, callVars
  <2>3. CASE CallNext /\ NotCalling
    <3>1. ASSUME NEW n \in Nodes, Call(n) PROVE CallInv'
      <4>1. PICK tab \in Tabs : callee' = Built(tab)
        BY <3>1 DEF Call, CallGraphs
      <4>2. /\ callVisited' = {} /\ callCalls' = <<>> /\ callStatus' = "building"
            /\ callQueue' = <<>> /\ callExecuted' = {} /\ callOutputs' = {} /\ callAsked' = {}
        BY <2>3, <3>1 DEF Call, NotCalling
      <4>3. SubP!IsTab(tab, Nodes) /\ callee' = SubP!Built(tab)
        BY <4>1, TabsAreTabs, SameGraph
      <4>4. SubP!SubInv'
        BY <4>2, <4>3, SubP!SubInit
      <4>5. Calls(n)'
        BY <3>1 DEF Call, vars, Calls, AtHead, Waits, Blocked, Upstreams, Wired
      <4> QED BY <4>2, <4>4, <4>5 DEF CallInv
    <3>2. ~CallLoop
      BY <2>3 DEF CallLoop, NotCalling, Sub!Next, Sub!Search, Sub!Reject, Sub!Accept, Sub!Discard,
             Sub!Postpone, Sub!PassThrough, Sub!Execute, Sub!Fail, Sub!Return, Sub!AtHead
    <3>3. (\E n \in Nodes : CallReturned(n) \/ CallFailed(n)) => CallInv'
      BY <2>1 DEF CallReturned, CallFailed
    <3>4. UNCHANGED callVars => CallInv'
      BY <2>3 DEF callVars, CallInv, NotCalling
    <3> QED BY <2>3, <3>1, <3>2, <3>3, <3>4 DEF CallNext, Work
  <2>4. CASE CallNext /\ ~NotCalling
    <3>1. PICK n \in Nodes : Calls(n)
      BY <2>4 DEF CallInv
    <3>2. callStatus # "none" /\ SubP!SubInv
      BY <2>4 DEF CallInv
    <3>3. CASE CallLoop
      <4>1. SubP!SubInv'
        BY <3>2, <3>3, SameStep, SubP!SubNext DEF CallLoop
      <4>2. callStatus' # "none"
        BY <4>1 DEF SubP!SubInv, SubP!TypeOK
      <4>3. Calls(n)'
        BY <3>1, <3>3 DEF CallLoop, vars, Calls, AtHead, Waits, Blocked, Upstreams, Wired
      <4> QED BY <4>1, <4>2, <4>3 DEF CallInv
    <3>4. CASE \E m \in Nodes : CallReturned(m) \/ CallFailed(m)
      BY <2>1, <3>4 DEF CallReturned, CallFailed
    <3> QED BY <2>4, <3>1, <3>2, <3>3, <3>4, WorkIsTheCall
  <2> QED BY <2>2, <2>3, <2>4
<1> QED BY <1>1, <1>2, PTL DEF CallSpec

\* Without a call the properties of the called flow hold of nothing.
LEMMA CallProperties == CallInv => CallTypeOK /\ CyclesRejected /\ RunsInOrder
<1>1. CASE NotCalling
  BY <1>1 DEF NotCalling, CallTypeOK, CyclesRejected, RunsInOrder, Sub!CyclesRejected, Sub!RunsInOrder
<1>2. CASE SubP!SubInv
  <2>1. SubP!CyclesRejected /\ SubP!RunsInOrder
    BY <1>2, SubP!SubProperties
  <2>2. SubP!TypeOK
    BY <1>2 DEF SubP!SubInv
  <2> QED BY <2>1, <2>2, SameProperties DEF CallTypeOK
<1> QED BY <1>1, <1>2 DEF CallInv

\* The variables of a call hold what the code's would, or there is no call.
THEOREM CallTypeCorrect == CallSpec => []CallTypeOK
BY CallInvariant, CallProperties, PTL

\* For every tab, of any size, the search of buildGraph throws only at a cycle and
\* returns only when there is none; and without a cycle there is an entry node.
THEOREM CycleCheckCorrect == CallSpec => []CyclesRejected
BY CallInvariant, CallProperties, PTL

\* The called flow runs no node before an upstream one, and returns with every node
\* run that no node left out.
THEOREM CallRunsInOrder == CallSpec => []RunsInOrder
BY CallInvariant, CallProperties, PTL

-------------------------------------------------------------------------------
(* The run comes nearer to its end.                                          *)

\* Every step of a run of known types, for flows and tabs of any size, brings the
\* engine's loop or the call under way nearer to its end.
THEOREM RunWithCallsProgresses == CallSpec => CallProgress
<1>1. CallInv /\ [CallNext]_allVars /\ [status = "running" /\ AllKnown => Advances]_vars =>
          [status = "running" /\ AllKnown /\ ~Sub!CanHang =>
              Advances \/ (UNCHANGED vars /\ CallAdvances)]_allVars
  <2> SUFFICES ASSUME CallInv, CallNext, status = "running", AllKnown, ~Sub!CanHang,
                      UNCHANGED vars, ~UNCHANGED allVars
               PROVE  CallAdvances
    OBVIOUS
  <2>1. ASSUME CallLoop PROVE CallAdvances
    <3>1. SubP!Next /\ SubP!SubInv
      <4>1. ~NotCalling
        BY <2>1 DEF CallLoop, NotCalling, Sub!Next, Sub!Search, Sub!Reject, Sub!Accept, Sub!Discard,
               Sub!Postpone, Sub!PassThrough, Sub!Execute, Sub!Fail, Sub!Return, Sub!AtHead
      <4> QED BY <2>1, <4>1, SameStep DEF CallInv, CallLoop
    <3>2. callStatus \in {"building", "running"}
      BY <2>1 DEF CallLoop, Sub!Next, Sub!Search, Sub!Reject, Sub!Accept, Sub!Discard,
               Sub!Postpone, Sub!PassThrough, Sub!Execute, Sub!Fail, Sub!Return, Sub!AtHead
    <3>3. ~SubP!CanHang
      BY SameProgress
    <3>4. CASE callStatus = "building"
      <4>1. SubP!SearchAdvances
        BY <3>1, <3>4, SubP!SearchComesNearer
      <4> QED BY <3>4, <4>1, SameProgress DEF CallAdvances
    <3>5. CASE callStatus = "running"
      <4>1. SubP!LoopAdvances
        BY <3>1, <3>3, <3>5, SubP!LoopComesNearer
      <4> QED BY <3>5, <4>1, SameProgress DEF CallAdvances
    <3> QED BY <3>2, <3>4, <3>5
  <2>2. ASSUME NEW n \in Nodes, Call(n) PROVE CallAdvances
    BY <2>2 DEF Call, CallAdvances
  <2>3. \A n \in Nodes : ~CallReturned(n) /\ ~CallFailed(n)
    <3>1. UNCHANGED executed
      BY DEF vars
    <3>2. \A n \in Nodes : (Execute(n) \/ Fail(n)) => n \in executed' /\ n \notin executed
      BY DEF Execute, Fail, AtHead
    <3> QED BY <3>1, <3>2 DEF CallReturned, CallFailed
  <2>4. ~UNCHANGED callVars
    BY DEF allVars
  <2> QED BY <2>1, <2>2, <2>3, <2>4 DEF CallNext, Work
<1>2. CallSpec => Progress
  BY CallsAreExecutors, LoopProgresses, PTL
<1> QED BY <1>1, <1>2, CallInvariant, PTL DEF CallSpec, Progress, CallProgress
===============================================================================
