------------------------------ MODULE TabFamilies ------------------------------
(* Families of raw tabs over the nodes 1 to 4, before buildGraph has seen them. *)
EXTENDS Naturals, Sequences

Wires(S) == SelectSeq(<<1, 2, 3, 4>>, LAMBDA n : n \in S)
RawNodes(n, kinds, targets) ==
    {[id |-> n, kind |-> k, wires |-> <<Wires(W)>>] : k \in kinds, W \in SUBSET targets}
RawChoices(n, targets) ==
    {[id |-> n, kind |-> "choice", wires |-> <<Wires({t}), Wires(targets \ {t})>>] :
        t \in targets}

\* Three nodes wired in every way, cycles and a dangling wire to 4 included.
Cyclic == {<<a, b, c>> : a \in RawNodes(1, {"task", "infra"}, 1..4),
                         b \in RawNodes(2, {"task", "infra"}, 1..3),
                         c \in RawNodes(3, {"task", "human"}, 1..3)}

\* Four nodes wired forward: joins behind branches, unknown types and decisions.
Forward ==
    {<<a, b, c, d>> :
        a \in RawNodes(1, {"task", "human", "unknown"}, {2, 3, 4}) \cup RawChoices(1, {2, 3}),
        b \in RawNodes(2, {"task", "human"}, {3, 4}),
        c \in RawNodes(3, {"task"}, {4}),
        d \in RawNodes(4, {"task"}, {})}

MCTabs == Cyclic \cup Forward
===============================================================================
