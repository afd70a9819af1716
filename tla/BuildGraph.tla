------------------------------ MODULE BuildGraph ------------------------------
(***************************************************************************)
(* The cycle check of buildGraph (osf-gateway/src/flows/graph-builder.ts), *)
(* a depth-first search from the entry nodes and then from whatever they   *)
(* do not reach, one step per call of dfs and per target it looks at.  The *)
(* set `visiting` of the code is the set of nodes dfs is being called for. *)
(***************************************************************************)
EXTENDS FlowGraph

VARIABLES
    graph,      \* what the first two passes of buildGraph made of the tab
    visited,    \* nodes dfs is done with
    calls       \* the calls of dfs under way, innermost last: its node, and the
                \* targets it has still to look at

searchVars == <<visited, calls>>

Visiting == {calls[i].node : i \in DOMAIN calls}

CallOf(n) == [node |-> n, rest |-> graph.all[n]]

\* Nodes one of the two loops can call dfs for next: the entries come first.
Starts ==
    LET entries == ToSet(graph.entries) \ visited IN
    IF entries # {} THEN entries ELSE graph.nodes \ visited

\* A loop calls dfs for a node.
Enter(n) ==
    /\ calls = <<>> /\ n \in Starts
    /\ calls' = <<CallOf(n)>>
    /\ UNCHANGED <<graph, visited>>

\* The innermost call is about to look at target t.
LooksAt(t) ==
    /\ calls # <<>> /\ Last(calls).rest # <<>>
    /\ t = Head(Last(calls).rest)

LookedAt == [calls EXCEPT ![Len(calls)].rest = Tail(@)]

\* Not a node of the graph, or done.
Pass(t) ==
    /\ LooksAt(t)
    /\ t \notin graph.nodes \ visited
    /\ calls' = LookedAt
    /\ UNCHANGED <<graph, visited>>

\* Mutant: it is not asked whether dfs is being called for the node.
NotDone == graph.nodes \ visited

\* Nodes dfs has not been called for.
Unseen == graph.nodes \ (visited \cup Visiting)

Descend(t) ==
    /\ LooksAt(t) /\ t \in Unseen
    /\ calls' = Append(LookedAt, CallOf(t))
    /\ UNCHANGED <<graph, visited>>

\* The innermost call returns.
Leave ==
    /\ calls # <<>> /\ Last(calls).rest = <<>>
    /\ visited' = visited \cup {Last(calls).node}
    /\ calls' = Front(calls)
    /\ UNCHANGED graph

\* dfs is called for a node it is being called for: it throws.
FoundCycle == \E t \in Visiting : LooksAt(t)

\* Mutant: the loop over the nodes the entries do not reach is left out.
EntriesSearched == calls = <<>> /\ ToSet(graph.entries) \subseteq visited

\* Both loops are through.
Searched == calls = <<>> /\ graph.nodes \subseteq visited
===============================================================================
