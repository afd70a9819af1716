----------------------------- MODULE FlowFamilies -----------------------------
(* Families of graphs over the nodes 1..N, wired from smaller to larger ids:  *)
(* up to renaming that is every acyclic graph.  Ascending and Descending give *)
(* the two orders of targets and of the Map.                                  *)
EXTENDS FlowGraph

Ascending(S) == SelectSeq(<<1, 2, 3, 4>>, LAMBDA n : n \in S)
Descending(S) == SelectSeq(<<4, 3, 2, 1>>, LAMBDA n : n \in S)

\* The wirings of node n: one port, or each target on one of two ports.
OnePort(n, N, Order(_)) == {<<Order(W)>> : W \in SUBSET ((n + 1)..N)}
TwoPorts(n, N, Order(_)) ==
    {<<Order(W \ V), Order(V)>> : <<W, V>> \in
        {<<W, V>> \in (SUBSET ((n + 1)..N)) \X (SUBSET ((n + 1)..N)) : V \subseteq W}}

NodesOf(n, N, kinds, Order(_)) ==
    {[kind |-> k, wires |-> w] : k \in kinds \cap {"task", "human", "unknown"},
                                 w \in OnePort(n, N, Order)}
    \cup
    {[kind |-> k, wires |-> w] : k \in kinds \cap {"choice", "multi"},
                                 w \in TwoPorts(n, N, Order)}

GraphOf(f, N, Order(_)) ==
    Graph(Order(1..N), SubSeq([n \in 1..N |-> f[n].kind], 1, N),
                       SubSeq([n \in 1..N |-> f[n].wires], 1, N))

Graphs3(k1, k2, k3, Order(_)) ==
    {GraphOf(<<a, b, c>>, 3, Order) : a \in NodesOf(1, 3, k1, Order),
        b \in NodesOf(2, 3, k2, Order), c \in NodesOf(3, 3, k3, Order)}

Graphs4(k1, k2, k3, k4, Order(_)) ==
    {GraphOf(<<a, b, c, d>>, 4, Order) : a \in NodesOf(1, 4, k1, Order),
        b \in NodesOf(2, 4, k2, Order), c \in NodesOf(3, 4, k3, Order),
        d \in NodesOf(4, 4, k4, Order)}

Alone(gs) == {{g} : g \in gs}
===============================================================================
