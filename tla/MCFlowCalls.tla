------------------------------ MODULE MCFlowCalls ------------------------------
(* The flows the engine is checked on, and flows that call one of the tabs.    *)
EXTENDS FlowCalls, MCFlowTraversal, TabFamilies

Node(k, w) == [kind |-> k, wires |-> w]

\* A call that waits at a join, beside a node it joins, behind a decision, before a pause.
CallingFlows ==
    LET T == Node("task", <<<<>>>>) IN
    Alone({GraphOf(abc, 3, Ascending) : abc \in
              {<<Node("task", <<<<3, 2>>>>), Node("task", <<<<3>>>>), Node("call", <<<<>>>>)>>,
               <<Node("call", <<<<3>>>>), Node("task", <<<<3>>>>), T>>,
               <<Node("choice", <<<<2>>, <<3>>>>), Node("call", <<<<3>>>>), T>>,
               <<Node("call", <<<<2>>>>), Node("human", <<<<3>>>>), T>>}})

EngineFlows == AllFlows \cup CallingFlows
===============================================================================
