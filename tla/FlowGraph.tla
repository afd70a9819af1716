------------------------------- MODULE FlowGraph -------------------------------
(***************************************************************************)
(* The graph of a flow (osf-gateway/src/flows/graph-builder.ts) and the    *)
(* questions the engine asks of it (flows/engine.ts).                      *)
(*                                                                         *)
(* A graph is a record: nodes; kind, what the executor of a node does with *)
(* its output ports; wires, for each node and port the sequence of the     *)
(* targets, which may be ids the graph does not hold; and what follows     *)
(* from those and the order of the Map: entries, the entry nodes in order; *)
(* sends, the sequences of targets a result of the node can lead to; all,  *)
(* the targets of all ports.                                               *)
(***************************************************************************)
EXTENDS Naturals, Sequences, SequencesExt

\* What a node's executor makes of its output ports: "task" fires the first,
\* "choice" one it selects, "multi" one per part of its output, "human" asks and
\* pauses, "call" runs another flow and fires the first, "unknown" has no executor.
\* "infra" nodes never enter a graph.
Kinds == {"task", "choice", "multi", "human", "call", "unknown"}

\* The sequence without the elements in E.
Without(s, E) ==
    FlattenSeq([i \in DOMAIN s |-> IF s[i] \in E THEN <<>> ELSE <<s[i]>>])

Wired(g, m, n) == \E p \in DOMAIN g.wires[m] : n \in ToSet(g.wires[m][p])

Upstreams(g, n) == {m \in g.nodes : Wired(g, m, n)}

\* The ports a result can name: one for a decision, as many as the output has
\* parts for a split, in both cases fewer or more than are wired; else the first.
Firings(k, wired) ==
    CASE k = "choice" -> {<<p>> : p \in 1..(wired + 1)}
      [] k = "multi"  -> {[p \in 1..parts |-> p] : parts \in 1..(wired + 1)}
      [] OTHER        -> {<<1>>}

\* The targets of these ports of a node, in order.
TargetsOf(w, ports) ==
    FlattenSeq([i \in DOMAIN ports |-> IF ports[i] \in DOMAIN w THEN w[ports[i]] ELSE <<>>])

\* A graph from its nodes in the order of the Map.
Graph(order, kind, wires) ==
    LET ids == ToSet(order)
        Incoming(n) == \E m \in ids : \E p \in DOMAIN wires[m] : n \in ToSet(wires[m][p])
    IN  [nodes   |-> ids,
         kind    |-> kind,
         wires   |-> wires,
         entries |-> Without(order, {n \in ids : Incoming(n)}),
         sends   |-> [n \in ids |-> {TargetsOf(wires[n], ports) :
                                        ports \in Firings(kind[n], Len(wires[n]))}],
         all     |-> [n \in ids |-> FlattenSeq(wires[n])]]

\* The raw nodes of a tab, as they are saved; ids are unique in a tab.
IsTab(raw, Ids) ==
    raw \in Seq([id : Ids, kind : Kinds \cup {"infra"}, wires : Seq(Seq(Ids))])

\* buildGraph: the raw nodes of a tab without the infrastructure.
Built(raw) ==
    LET kept == Without(raw, {r \in ToSet(raw) : r.kind = "infra"})
        At(n) == CHOOSE r \in ToSet(kept) : r.id = n
        order == [i \in DOMAIN kept |-> kept[i].id]
    IN  Graph(order, [n \in ToSet(order) |-> At(n).kind],
                     [n \in ToSet(order) |-> At(n).wires])

\* Every set of nodes has one that nothing in the set leads to: what the cycle
\* check of buildGraph lets through.
Acyclic(g) ==
    \A S \in SUBSET g.nodes :
        S # {} => \E n \in S : Upstreams(g, n) \cap S = {}

\* allUpstreamsReady, negated: an upstream node that was queued has no output.
Blocked(g, n, visited, outputs) ==
    Upstreams(g, n) \cap (visited \ outputs) # {}
===============================================================================
