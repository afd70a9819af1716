---------------------------- MODULE MCFlowTraversal ----------------------------
(* The flows the traversal is checked on.                                     *)
EXTENDS FlowTraversal, FlowFamilies

Known == {"task", "choice", "multi", "human"}
Mixed == {"task", "choice", "human"}
Plain == {"task", "human"}
Task == {"task"}

\* Every flow of three nodes of known types, in both orders.
ThreeKnown == Alone(Graphs3(Known, Mixed, Plain, Ascending)
                    \cup Graphs3(Known, Mixed, Plain, Descending))

\* Four nodes: branches that split, are skipped, and join; pauses on the way.
FourKnown ==
    Alone(Graphs4({"task", "multi"}, {"task", "choice"}, Task, Task, Ascending)
          \cup Graphs4({"task", "multi"}, {"task", "choice"}, Task, Task, Descending)
          \cup Graphs4(Task, Plain, Plain, Task, Ascending)
          \cup Graphs4(Task, Plain, Plain, Task, Descending))

\* Three nodes with nodes of an unknown type, and two nodes waiting for one.
WithUnknown == {"task", "choice", "human", "unknown"}
UnknownFlows == Alone(Graphs3(WithUnknown, WithUnknown, Plain, Ascending)
                      \cup Graphs4({"unknown"}, Task, Task, Task, Ascending))

\* Flows that are edited while a run is paused: any two editions, some shorter.
Editable == Graphs3({"human"}, {"choice", "human", "unknown"}, Task, Descending)
Shorter == {Graph(<<1, 2>>, SubSeq(g.kind, 1, 2), SubSeq(g.wires, 1, 2)) : g \in Editable}
EditedFlows == {{g, h} : g \in Editable, h \in Editable \cup Shorter}

AllFlows == ThreeKnown \cup FourKnown \cup UnknownFlows \cup EditedFlows
===============================================================================
