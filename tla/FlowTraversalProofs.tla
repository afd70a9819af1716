-------------------------- MODULE FlowTraversalProofs --------------------------
(***************************************************************************)
(* Proofs about FlowTraversal for any flows, of any size, that buildGraph  *)
(* accepts.                                                                *)
(***************************************************************************)
EXTENDS FlowTraversal, SequenceTheorems, WellFoundedInduction, TLAPS

-------------------------------------------------------------------------------
(* Lemmas about queues.                                                      *)

\* The elements of a queue are its head and the elements of its tail.
LEMMA HeadAndTail ==
    ASSUME NEW S, NEW q \in Seq(S), q # <<>>
    PROVE  /\ Head(q) \in S
           /\ Tail(q) \in Seq(S)
           /\ ToSet(q) = {Head(q)} \cup ToSet(Tail(q))
<1>1. Head(q) \in S /\ Tail(q) \in Seq(S) /\ Head(q) = q[1]
  BY HeadTailProperties
<1>2. Len(q) \in Nat \ {0} /\ DOMAIN q = 1..Len(q)
  BY LenProperties, EmptySeq
<1>3. Len(Tail(q)) = Len(q) - 1 /\ DOMAIN Tail(q) = 1..(Len(q) - 1)
  BY <1>1, <1>2, HeadTailProperties, LenProperties
<1>4. \A i \in 1..(Len(q) - 1) : Tail(q)[i] = q[i + 1]
  BY <1>2, <1>3, HeadTailProperties
<1>5. ToSet(Tail(q)) \subseteq ToSet(q)
  BY <1>2, <1>3, <1>4 DEF ToSet
<1>6. ASSUME NEW x \in ToSet(q), x # Head(q)
      PROVE  x \in ToSet(Tail(q))
  <2>1. PICK i \in 1..Len(q) : x = q[i]
    BY <1>2, <1>6 DEF ToSet
  <2>2. i - 1 \in 1..(Len(q) - 1) /\ Tail(q)[i - 1] = q[i]
    BY <1>1, <1>2, <1>4, <1>6, <2>1
  <2>3. QED
    BY <1>3, <2>1, <2>2 DEF ToSet
<1>7. Head(q) \in ToSet(q)
  BY <1>1, <1>2 DEF ToSet
<1>8. QED
  BY <1>1, <1>5, <1>6, <1>7

\* Appending adds one element.
LEMMA AppendAdds ==
    ASSUME NEW S, NEW q \in Seq(S), NEW x \in S
    PROVE  /\ Append(q, x) \in Seq(S)
           /\ ToSet(Append(q, x)) = ToSet(q) \cup {x}
<1>1. /\ Append(q, x) \in Seq(S) /\ Len(Append(q, x)) = Len(q) + 1
      /\ \A i \in 1..Len(q) : Append(q, x)[i] = q[i]
      /\ Append(q, x)[Len(q) + 1] = x
  BY AppendProperties
<1>2. Len(q) \in Nat /\ DOMAIN q = 1..Len(q) /\ DOMAIN Append(q, x) = 1..(Len(q) + 1)
  BY <1>1, LenProperties
<1>3. QED
  BY <1>1, <1>2 DEF ToSet

\* The elements of a queue come from its range; the empty queue has none.
LEMMA Elements ==
    ASSUME NEW S
    PROVE  /\ \A q \in Seq(S) : ToSet(q) \subseteq S
           /\ <<>> \in Seq(S) /\ ToSet(<<>>) = {}
<1>1. ASSUME NEW q \in Seq(S)
      PROVE  ToSet(q) \subseteq S
  <2>1. DOMAIN q = 1..Len(q) /\ \A i \in 1..Len(q) : q[i] \in S
    BY LenProperties, ElementOfSeq
  <2>2. QED
    BY <2>1 DEF ToSet
<1>2. <<>> \in Seq(S) /\ DOMAIN (<<>>) = {}
  BY EmptySeq, LenProperties
<1>3. QED
  BY <1>1, <1>2 DEF ToSet

\* A set of numbers has a least element.
LEMMA LeastElement ==
    ASSUME NEW T, T \subseteq Nat, T # {}
    PROVE  \E x \in T : \A y \in T : x <= y
<1> DEFINE R == OpToRel(<, Nat)
<1>1. IsWellFoundedOn(R, Nat)
  BY NatLessThanWellFounded
<1>2. \A x, y \in Nat : x < y => <<x, y>> \in R
  BY DEF OpToRel
<1> HIDE DEF R
<1>3. \E x \in T : \A y \in T : <<y, x>> \notin R
  BY <1>1, WFMin
<1> QED
  <2>1. PICK x \in T : \A y \in T : <<y, x>> \notin R
    BY <1>3
  <2>2. ASSUME NEW y \in T PROVE x <= y
    <3>1. x \in Nat /\ y \in Nat
      OBVIOUS
    <3>2. ~(y < x)
      BY <1>2, <2>1, <3>1, Zenon
    <3> QED BY <3>1, <3>2
  <2> QED BY <2>2

\* When the head of a queue goes to its back, the first element that is not in P comes
\* a place nearer.
LEMMA Turned ==
    ASSUME NEW S, NEW q \in Seq(S), q # <<>>, NEW P, Head(q) \in P,
           \E i \in DOMAIN q : q[i] \notin P,
           NEW r, r = Append(Tail(q), Head(q))
    PROVE  /\ Len(r) = Len(q)
           /\ \E k \in DOMAIN q :
                /\ k + 1 \in DOMAIN q /\ q[k + 1] \notin P /\ \A j \in 1..k : q[j] \in P
                /\ k \in DOMAIN r /\ r[k] \notin P /\ \A j \in 1..(k - 1) : r[j] \in P
<1>1. /\ Len(q) \in Nat \ {0} /\ DOMAIN q = 1..Len(q)
      /\ Head(q) = q[1] /\ Head(q) \in S /\ Tail(q) \in Seq(S) /\ Len(Tail(q)) = Len(q) - 1
      /\ \A i \in 1..(Len(q) - 1) : Tail(q)[i] = q[i + 1]
  BY HeadTailProperties, LenProperties, EmptySeq
<1>2. /\ r \in Seq(S) /\ Len(r) = Len(q) /\ DOMAIN r = 1..Len(q)
      /\ \A i \in 1..(Len(q) - 1) : r[i] = q[i + 1]
  <2> DEFINE s == Tail(q)
             e == Head(q)
  <2>1. s \in Seq(S) /\ e \in S /\ Len(s) = Len(q) - 1
    BY <1>1
  <2> HIDE DEF s, e
  <2>2. /\ Append(s, e) \in Seq(S) /\ Len(Append(s, e)) = Len(s) + 1
        /\ \A i \in 1..Len(s) : Append(s, e)[i] = s[i]
    BY <2>1, AppendProperties
  <2>3. r = Append(s, e) /\ \A i \in 1..Len(s) : s[i] = q[i + 1]
    BY <1>1, <2>1 DEF s, e
  <2> QED BY <1>1, <2>1, <2>2, <2>3, LenProperties
<1> DEFINE T == {i \in 1..Len(q) : q[i] \notin P}
<1>3. PICK m \in T : \A i \in T : m <= i
  <2>1. T \subseteq Nat /\ T # {}
    BY <1>1
  <2> HIDE DEF T
  <2> QED BY <2>1, LeastElement
<1>4. m \in 1..Len(q) /\ q[m] \notin P /\ \A j \in 1..(m - 1) : q[j] \in P
  BY <1>1, <1>3
<1>5. m # 1
  BY <1>1, <1>4
<1> DEFINE k == m - 1
<1>6. k \in 1..Len(q) /\ k + 1 = m /\ k \in 1..(Len(q) - 1)
  BY <1>1, <1>4, <1>5
<1>7. \A j \in 1..(k - 1) : j + 1 \in 1..(m - 1) /\ j \in 1..(Len(q) - 1)
  BY <1>1, <1>4, <1>6
<1>8. r[k] = q[m] /\ \A j \in 1..(k - 1) : r[j] = q[j + 1]
  BY <1>2, <1>6, <1>7
<1> HIDE DEF k, T
<1>9. \A j \in 1..k : q[j] \in P
  BY <1>4, <1>6 DEF k
<1>10. \A j \in 1..(k - 1) : r[j] \in P
  BY <1>4, <1>7, <1>8
<1> QED BY <1>1, <1>2, <1>4, <1>6, <1>8, <1>9, <1>10
-------------------------------------------------------------------------------
(* Type correctness.                                                         *)

Context == [node : Nodes, outputs : SUBSET Nodes]

\* TypeOK, with what it needs of the flow and of a paused run's context.
TypeInv ==
    /\ TypeOK
    /\ flow \in Flows
    /\ status = "paused" => context \in Context

\* The edition the loop works on is one buildGraph has accepted.
LEMMA GraphIsSound ==
    ASSUME flow \in Flows, graph \in flow
    PROVE  IsGraph(graph) /\ Acyclic(graph) /\ ToSet(graph.entries) \subseteq graph.nodes
BY FlowsAreGraphs

\* What holds when a node is looked at.
LEMMA HeadFacts ==
    ASSUME TypeInv, NEW n \in Nodes, AtHead(n)
    PROVE  /\ n \in graph.nodes /\ n \notin executed
           /\ Tail(queue) \in Seq(Nodes)
           /\ ToSet(queue) = {n} \cup ToSet(Tail(queue))
<1>1. queue \in Seq(Nodes) /\ queue # <<>> /\ n = Head(queue)
  BY DEF TypeInv, TypeOK, AtHead
<1>2. QED
  BY <1>1, HeadAndTail DEF AtHead

\* The type invariant, strengthened, is inductive: one step per action.
LEMMA TypeInvariant == Spec => []TypeInv
<1>1. Init => TypeInv
  <2> SUFFICES ASSUME Init
               PROVE  TypeInv
    OBVIOUS
  <2>1. flow \in Flows /\ graph \in flow /\ status = "running"
    BY DEF Init
  <2>2. graph.entries \in Seq(Nodes)
    BY <2>1, GraphIsSound DEF IsGraph
  <2>3. ToSet(graph.entries) \subseteq Nodes /\ <<>> \in Seq(Nodes)
    BY <2>2, Elements
  <2>4. ran \in [Nodes -> Nat]
    BY DEF Init
  <2>5. QED
    BY <2>1, <2>2, <2>3, <2>4 DEF Init, TypeInv, TypeOK, Statuses
<1>2. TypeInv /\ [Next]_vars => TypeInv'
  <2> SUFFICES ASSUME TypeInv, [Next]_vars
               PROVE  TypeInv'
    OBVIOUS
  <2>1. CASE UNCHANGED vars
    BY <2>1 DEF vars, TypeInv, TypeOK
  <2>2. CASE Discard
    <3>1. Tail(queue) \in Seq(Nodes)
      BY <2>2, HeadAndTail DEF Discard, TypeInv, TypeOK
    <3>2. QED
      BY <2>2, <3>1 DEF Discard, TypeInv, TypeOK
  <2>3. ASSUME NEW n \in Nodes, Postpone(n)
        PROVE  TypeInv'
    <3>1. Append(Tail(queue), n) \in Seq(Nodes)
      BY <2>3, HeadFacts, AppendAdds DEF Postpone
    <3>2. QED
      BY <2>3, <3>1 DEF Postpone, TypeInv, TypeOK
  <2>4. ASSUME NEW n \in Nodes, GiveUp(n)
        PROVE  TypeInv'
    <3>1. Tail(queue) \in Seq(Nodes)
      BY <2>4, HeadFacts DEF GiveUp
    <3>2. QED
      BY <2>4, <3>1 DEF GiveUp, TypeInv, TypeOK, Statuses
  <2>5. ASSUME NEW n \in Nodes, SkipUnknown(n)
        PROVE  TypeInv'
    <3>1. Tail(queue) \in Seq(Nodes)
      BY <2>5, HeadFacts DEF SkipUnknown
    <3>2. QED
      BY <2>5, <3>1 DEF SkipUnknown, TypeInv, TypeOK
  <2>6. ASSUME NEW n \in Nodes, Execute(n)
        PROVE  TypeInv'
    <3>1. Tail(queue) \in Seq(Nodes) /\ n \in graph.nodes
      BY <2>6, HeadFacts DEF Execute
    <3>2. graph.sends[n] \subseteq Seq(Nodes)
      BY <3>1, GraphIsSound DEF IsGraph, TypeInv, TypeOK
    <3>3. ran' \in [Nodes -> Nat]
      BY <2>6 DEF Execute, TypeInv, TypeOK
    <3>4. sending' \in Seq(Nodes)
      BY <2>6, <3>2 DEF Execute
    <3>5. QED
      BY <2>6, <3>1, <3>3, <3>4 DEF Execute, TypeInv, TypeOK
  <2>7. CASE Send
    <3>1. sending \in Seq(Nodes) /\ sending # <<>> /\ queue \in Seq(Nodes)
      BY <2>7 DEF Send, TypeInv, TypeOK
    <3>2. Head(sending) \in Nodes /\ Tail(sending) \in Seq(Nodes)
      BY <3>1, HeadAndTail
    <3>3. Append(queue, Head(sending)) \in Seq(Nodes)
      BY <3>1, <3>2, AppendAdds
    <3>4. QED
      BY <2>7, <3>2, <3>3 DEF Send, TypeInv, TypeOK
  <2>8. ASSUME NEW n \in Nodes, Fail(n)
        PROVE  TypeInv'
    <3>1. Tail(queue) \in Seq(Nodes)
      BY <2>8, HeadFacts DEF Fail
    <3>2. ran' \in [Nodes -> Nat]
      BY <2>8 DEF Fail, TypeInv, TypeOK
    <3>3. QED
      BY <2>8, <3>1, <3>2 DEF Fail, TypeInv, TypeOK, Statuses
  <2>9. ASSUME NEW n \in Nodes, Pause(n)
        PROVE  TypeInv'
    <3>1. Tail(queue) \in Seq(Nodes) /\ ToSet(Tail(queue)) \subseteq Nodes
      BY <2>9, HeadFacts, Elements DEF Pause
    <3>2. ran' \in [Nodes -> Nat] /\ <<>> \in Seq(Nodes)
      BY <2>9, Elements DEF Pause, TypeInv, TypeOK
    <3>3. context' \in Context
      BY <2>9 DEF Pause, Saved, Context, TypeInv, TypeOK
    <3>4. lost' \subseteq Nodes
      BY <2>9, <3>1 DEF Pause, TypeInv, TypeOK
    <3>5. QED
      BY <2>9, <3>2, <3>3, <3>4 DEF Pause, TypeInv, TypeOK, Statuses, Context
  <2>10. CASE Resume
    <3>1. context \in Context /\ flow' \in Flows /\ graph' \in flow'
      BY <2>10 DEF Resume, TypeInv
    <3>2. outputs' \subseteq Nodes /\ executed' \subseteq Nodes
      BY <2>10, <3>1 DEF Resume, Context
    <3>3. CASE context.node \in graph'.nodes
      <4>1. graph'.all[context.node] \in Seq(Nodes)
        BY <3>1, <3>3, FlowsAreGraphs DEF IsGraph
      <4>2. ToSet(graph'.all[context.node]) \subseteq Nodes
        BY <4>1, Elements
      <4>3. QED
        BY <2>10, <3>1, <3>2, <3>3, <4>1, <4>2 DEF Resume, TypeInv, TypeOK, Statuses
    <3>4. CASE context.node \notin graph'.nodes
      BY <2>10, <3>1, <3>2, <3>4 DEF Resume, TypeInv, TypeOK, Statuses
    <3>5. QED
      BY <3>3, <3>4
  <2>11. CASE Complete
    BY <2>11 DEF Complete, TypeInv, TypeOK, Statuses
  <2>12. QED
    BY <2>1, <2>2, <2>3, <2>4, <2>5, <2>6, <2>7, <2>8, <2>9, <2>10, <2>11 DEF Next
<1>3. QED
  BY <1>1, <1>2, PTL DEF Spec

\* In every state the queue holds ids, the outputs are nodes, and a paused run
\* has a context to resume from.
THEOREM TypeCorrect == Spec => []TypeOK
<1>1. TypeInv => TypeOK
  BY DEF TypeInv
<1>2. QED
  BY <1>1, TypeInvariant, PTL

-------------------------------------------------------------------------------
(* No executor is called twice.                                              *)

\* The nodes whose executor has been called.
Called == {n \in Nodes : ran[n] # 0}

\* A node that has been called is, while the run goes on, one the loop will
\* discard: it has an output, or the row of the paused run names it.
OnceInv ==
    /\ RunsOnce
    /\ status = "running" => Called \subseteq outputs /\ outputs \subseteq executed
    /\ status = "paused" => Called \subseteq context.outputs \cup {context.node}

\* Calling the executor of a node that was not called before.
LEMMA FirstCall ==
    ASSUME TypeOK, RunsOnce, NEW n \in Nodes, n \notin Called,
           ran' = [ran EXCEPT ![n] = @ + 1]
    PROVE  RunsOnce' /\ Called' = Called \cup {n}
<1>1. ran \in [Nodes -> Nat] /\ ran[n] = 0
  BY DEF TypeOK, Called
<1>2. ran'[n] = 1 /\ \A m \in Nodes \ {n} : ran'[m] = ran[m]
  BY <1>1
<1>3. RunsOnce'
  <2>1. \A m \in Nodes : ran'[m] <= 1
    BY <1>2 DEF RunsOnce
  <2>2. QED
    BY <2>1 DEF RunsOnce
<1>4. Called' = Called \cup {n}
  BY <1>2 DEF Called
<1>5. QED
  BY <1>3, <1>4

\* Whatever happens to a run, pauses and edits of its flow included, the
\* executor of a node is called at most once.
THEOREM CalledOnce == Spec => []RunsOnce
<1>1. Init => OnceInv
  <2>1. Init => RunsOnce /\ Called = {} /\ status = "running"
    BY DEF Init, RunsOnce, Called
  <2>2. QED
    BY <2>1 DEF Init, OnceInv
<1>2. OnceInv /\ TypeInv /\ [Next]_vars => OnceInv'
  <2> SUFFICES ASSUME OnceInv, TypeInv, [Next]_vars
               PROVE  OnceInv'
    OBVIOUS
  <2>1. ASSUME UNCHANGED <<status, outputs, context, ran>>, executed \subseteq executed'
        PROVE  OnceInv'
    BY <2>1 DEF OnceInv, RunsOnce, Called
  <2>2. ASSUME UNCHANGED <<context, ran>>, status' \in {"completed", "failed"}
        PROVE  OnceInv'
    BY <2>2 DEF OnceInv, RunsOnce, Called
  <2>3. ASSUME NEW n \in Nodes, AtHead(n)
        PROVE  n \notin Called
    BY <2>3 DEF OnceInv, AtHead
  <2>4. CASE UNCHANGED vars
    BY <2>1, <2>4 DEF vars
  <2>5. CASE Discard
    BY <2>1, <2>5 DEF Discard
  <2>6. ASSUME NEW n \in Nodes, Postpone(n) \/ SkipUnknown(n)
        PROVE  OnceInv'
    BY <2>1, <2>6 DEF Postpone, SkipUnknown
  <2>7. ASSUME NEW n \in Nodes, GiveUp(n)
        PROVE  OnceInv'
    BY <2>2, <2>7 DEF GiveUp
  <2>8. ASSUME NEW n \in Nodes, Execute(n)
        PROVE  OnceInv'
    <3>1. RunsOnce' /\ Called' = Called \cup {n}
      BY <2>3, <2>8, FirstCall DEF Execute, OnceInv, TypeInv
    <3>2. status = "running" /\ status' = "running"
      BY <2>8 DEF Execute, AtHead
    <3>3. QED
      BY <2>8, <3>1, <3>2 DEF Execute, OnceInv
  <2>9. CASE Send
    BY <2>1, <2>9 DEF Send
  <2>10. ASSUME NEW n \in Nodes, Fail(n)
         PROVE  OnceInv'
    <3>1. RunsOnce'
      BY <2>3, <2>10, FirstCall DEF Fail, OnceInv, TypeInv
    <3>2. QED
      BY <2>10, <3>1 DEF Fail, OnceInv
  <2>11. ASSUME NEW n \in Nodes, Pause(n)
         PROVE  OnceInv'
    <3>1. RunsOnce' /\ Called' = Called \cup {n}
      BY <2>3, <2>11, FirstCall DEF Pause, OnceInv, TypeInv
    <3>2. status = "running" /\ status' = "paused" /\ context' = [node |-> n, outputs |-> outputs]
      BY <2>11 DEF Pause, AtHead, Saved
    <3>3. QED
      BY <3>1, <3>2 DEF OnceInv
  <2>12. CASE Resume
    <3>1. UNCHANGED ran /\ status = "paused" /\ status' # "paused"
      BY <2>12 DEF Resume
    <3>2. outputs' = context.outputs \cup {context.node} /\ executed' = outputs'
      BY <2>12 DEF Resume
    <3>3. RunsOnce' /\ Called' \subseteq outputs'
      BY <3>1, <3>2 DEF OnceInv, RunsOnce, Called
    <3>4. QED
      BY <3>1, <3>2, <3>3 DEF OnceInv
  <2>13. CASE Complete
    BY <2>2, <2>13 DEF Complete
  <2>14. QED
    BY <2>4, <2>5, <2>6, <2>7, <2>8, <2>9, <2>10, <2>11, <2>12, <2>13 DEF Next
<1>3. OnceInv => RunsOnce
  BY DEF OnceInv
<1>4. QED
  BY <1>1, <1>2, <1>3, TypeInvariant, PTL DEF Spec

-------------------------------------------------------------------------------
(* Nothing an output was sent to is cut off.                                 *)

\* While the run goes on, whatever was visited or sent to has been executed or is
\* in the queue (or was lost at a pause); with all types known, what has been
\* executed has an output.
SentInv ==
    AllKnown =>
        /\ status = "running" =>
              /\ outputs = executed
              /\ visited \cap graph.nodes \subseteq executed \cup ToSet(queue)
              /\ owed \subseteq executed \cup lost \cup (ToSet(queue) \cap graph.nodes)
        /\ status = "paused" =>
              owed \subseteq context.outputs \cup {context.node} \cup lost
        /\ SentMeansRun

\* The nodes in the queue cannot all wait: an acyclic graph has one among them
\* that no other leads to, and everything visited is executed or queued.
LEMMA NoDeadlock ==
    ASSUME TypeInv, SentInv, AllKnown, NEW n \in Nodes, AtHead(n), Waits(n)
    PROVE  ~AllBlocked
<1> SUFFICES ASSUME AllBlocked
             PROVE  FALSE
  OBVIOUS
<1> DEFINE S == {n} \cup (ToSet(Tail(queue)) \ executed)
<1>1. n \in graph.nodes /\ n \notin executed /\ ToSet(queue) = {n} \cup ToSet(Tail(queue))
  BY HeadFacts
<1>2. status = "running"
  BY DEF AtHead
<1>3. outputs = executed /\ visited \cap graph.nodes \subseteq executed \cup ToSet(queue)
  BY <1>2 DEF SentInv
<1>4. S \subseteq graph.nodes /\ \A m \in S : Waits(m)
  BY <1>1 DEF AllBlocked
<1>5. Acyclic(graph)
  BY GraphIsSound DEF TypeInv, TypeOK
<1>6. PICK m \in S : Upstreams(graph, m) \cap S = {}
  <2> HIDE DEF S
  <2>1. S # {}
    BY DEF S
  <2>2. QED
    BY <1>4, <1>5, <2>1 DEF Acyclic
<1>7. PICK u \in Upstreams(graph, m) : u \in visited /\ u \notin outputs
  BY <1>4, <1>6 DEF Waits, Blocked
<1>8. u \in graph.nodes
  BY <1>7 DEF Upstreams
<1>9. u \in S
  BY <1>1, <1>3, <1>7, <1>8
<1>10. QED
  BY <1>6, <1>7, <1>9

\* The invariant is inductive, given the types.
LEMMA SentInvariant == Spec => []SentInv
<1>1. TypeInv /\ Init => SentInv
  <2> SUFFICES ASSUME TypeInv, Init
               PROVE  SentInv
    OBVIOUS
  <2>1. ToSet(graph.entries) \subseteq graph.nodes
    BY GraphIsSound DEF TypeInv, TypeOK
  <2>2. QED
    BY <2>1 DEF Init, SentInv, SentMeansRun
<1>2. SentInv /\ TypeInv /\ [Next]_vars => SentInv'
  <2> SUFFICES ASSUME SentInv, TypeInv, [Next]_vars, AllKnown'
               PROVE  SentInv'
    BY DEF SentInv
  <2>1. UNCHANGED flow
    BY DEF Next, vars, Discard, Postpone, GiveUp, SkipUnknown, Execute, Fail, Pause,
           Send, Resume, Complete
  <2>2. AllKnown
    BY <2>1 DEF AllKnown
  <2>3. ASSUME status = "running"
        PROVE  /\ outputs = executed
               /\ visited \cap graph.nodes \subseteq executed \cup ToSet(queue)
               /\ owed \subseteq executed \cup lost \cup (ToSet(queue) \cap graph.nodes)
    BY <2>2, <2>3 DEF SentInv
  <2>4. ASSUME NEW n \in Nodes, AtHead(n)
        PROVE  /\ status = "running" /\ n \in graph.nodes /\ n \notin executed
               /\ Tail(queue) \in Seq(Nodes)
               /\ ToSet(queue) = {n} \cup ToSet(Tail(queue))
    BY <2>4, HeadFacts DEF AtHead
  <2>5. CASE UNCHANGED vars
    BY <2>5, <2>2 DEF vars, SentInv, SentMeansRun
  <2>6. CASE Discard
    <3>1. status = "running" /\ ToSet(queue) = {Head(queue)} \cup ToSet(Tail(queue))
      BY <2>6, HeadAndTail DEF Discard, TypeInv, TypeOK
    <3>2. QED
      BY <2>3, <2>6, <3>1 DEF Discard, SentInv, SentMeansRun
  <2>7. ASSUME NEW n \in Nodes, Postpone(n)
        PROVE  SentInv'
    <3>1. AtHead(n) /\ queue' = Append(Tail(queue), n)
      BY <2>7 DEF Postpone
    <3>2. Tail(queue) \in Seq(Nodes)
      BY <2>4, <3>1
    <3>3. ToSet(Append(Tail(queue), n)) = ToSet(Tail(queue)) \cup {n}
      <4>1. \A q \in Seq(Nodes) : ToSet(Append(q, n)) = ToSet(q) \cup {n}
        BY AppendAdds
      <4>2. QED
        BY <3>2, <4>1, Zenon
    <3>4. QED
      BY <2>3, <2>4, <2>7, <3>1, <3>3 DEF Postpone, SentInv, SentMeansRun
  <2>8. ASSUME NEW n \in Nodes, GiveUp(n)
        PROVE  SentInv'
    BY <2>2, <2>8, NoDeadlock DEF GiveUp
  <2>9. ASSUME NEW n \in Nodes, SkipUnknown(n)
        PROVE  SentInv'
    BY <2>2, <2>4, <2>9 DEF SkipUnknown, AllKnown, TypeInv, TypeOK
  <2>10. ASSUME NEW n \in Nodes, Execute(n)
         PROVE  SentInv'
    BY <2>3, <2>4, <2>10 DEF Execute, SentInv, SentMeansRun
  <2>11. CASE Send
    <3>1. sending \in Seq(Nodes) /\ sending # <<>> /\ queue \in Seq(Nodes)
      BY <2>11 DEF Send, TypeInv, TypeOK
    <3>2. ToSet(Append(queue, Head(sending))) = ToSet(queue) \cup {Head(sending)}
      BY <3>1, HeadAndTail, AppendAdds
    <3>3. status = "running" /\ status' = "running"
      BY <2>11 DEF Send
    <3>4. CASE Head(sending) \in executed
      BY <2>3, <2>11, <3>3, <3>4 DEF Send, SentInv, SentMeansRun
    <3>5. CASE Head(sending) \notin executed
      BY <2>3, <2>11, <3>2, <3>3, <3>5 DEF Send, SentInv, SentMeansRun
    <3>6. QED
      BY <3>4, <3>5
  <2>12. ASSUME NEW n \in Nodes, Fail(n)
         PROVE  SentInv'
    BY <2>12 DEF Fail, SentInv, SentMeansRun
  <2>13. ASSUME NEW n \in Nodes, Pause(n)
         PROVE  SentInv'
    <3>1. status' = "paused" /\ context' = [node |-> n, outputs |-> outputs]
      BY <2>13 DEF Pause, Saved
    <3>2. owed' \subseteq outputs \cup {n} \cup lost'
      BY <2>3, <2>4, <2>13 DEF Pause
    <3>3. QED
      BY <3>1, <3>2 DEF SentInv, SentMeansRun
  <2>14. CASE Resume
    <3>1. /\ status = "paused"
          /\ outputs' = context.outputs \cup {context.node} /\ executed' = outputs'
          /\ lost' = lost
      BY <2>14 DEF Resume
    <3>2. owed \subseteq executed' \cup lost'
      BY <2>2, <3>1 DEF SentInv
    <3>3. CASE context.node \in graph'.nodes
      <4>1. /\ status' = "running"
            /\ queue' = graph'.all[context.node]
            /\ visited' = executed' \cup ToSet(queue')
            /\ owed' = owed \cup (ToSet(queue') \cap graph'.nodes)
        BY <2>14, <3>3 DEF Resume
      <4>2. QED
        BY <3>1, <3>2, <4>1 DEF SentInv, SentMeansRun
    <3>4. CASE context.node \notin graph'.nodes
      BY <2>14, <3>4 DEF Resume, SentInv, SentMeansRun
    <3>5. QED
      BY <3>3, <3>4
  <2>15. CASE Complete
    <3>1. status = "running" /\ ToSet(queue) = {}
      BY <2>15, Elements DEF Complete
    <3>2. QED
      BY <2>3, <2>15, <3>1 DEF Complete, SentInv, SentMeansRun
  <2>16. QED
    BY <2>5, <2>6, <2>7, <2>8, <2>9, <2>10, <2>11, <2>12, <2>13, <2>14, <2>15 DEF Next
<1>3. QED
  BY <1>1, <1>2, TypeInvariant, PTL DEF Spec

\* When a run of a flow all of whose types are known completes, every node an
\* output was sent to has been executed, or was in the queue at a pause.
THEOREM NothingCutOff == Spec => []SentMeansRun
<1>1. SentInv => SentMeansRun
  <2>1. ASSUME SentInv, AllKnown
        PROVE  SentMeansRun
    BY <2>1 DEF SentInv
  <2>2. QED
    BY <2>1 DEF SentMeansRun
<1>2. QED
  BY <1>1, SentInvariant, PTL

-------------------------------------------------------------------------------
(* The loop comes nearer to its end.                                         *)

\* Nodes that are put back when they come to the head of the queue.
Waiting == {n \in graph.nodes \ executed : Waits(n)}

\* Not everything in the queue is put back.
LEMMA OneIsReady ==
    ASSUME TypeInv, SentInv, AllKnown, NEW n \in Nodes, AtHead(n), Waits(n)
    PROVE  \E i \in DOMAIN queue : queue[i] \notin Waiting
<1> SUFFICES ASSUME ToSet(queue) \subseteq Waiting
             PROVE  FALSE
  BY DEF ToSet
<1>1. n \in graph.nodes /\ n \notin executed /\ ToSet(queue) = {n} \cup ToSet(Tail(queue))
  BY HeadFacts
<1>2. outputs = executed /\ visited \cap graph.nodes \subseteq executed \cup ToSet(queue)
  BY DEF AtHead, SentInv
<1>3. Acyclic(graph)
  BY GraphIsSound DEF TypeInv, TypeOK
<1>4. ToSet(queue) \subseteq graph.nodes /\ ToSet(queue) # {}
  BY <1>1 DEF Waiting
<1>5. PICK m \in ToSet(queue) : Upstreams(graph, m) \cap ToSet(queue) = {}
  BY <1>3, <1>4 DEF Acyclic
<1>6. PICK u \in Upstreams(graph, m) : u \in visited /\ u \notin outputs
  BY <1>5 DEF Waiting, Waits, Blocked
<1>7. u \in graph.nodes
  BY <1>6 DEF Upstreams
<1>8. QED
  BY <1>2, <1>5, <1>6, <1>7

\* While a run of known types goes on, every iteration of its loop brings it nearer to
\* its end.
THEOREM LoopProgresses == Spec => Progress
<1>1. TypeInv /\ SentInv /\ [Next]_vars =>
          [status = "running" /\ AllKnown => Advances]_vars
  <2> SUFFICES ASSUME TypeInv, SentInv, Next, status = "running", AllKnown
               PROVE  Advances
    OBVIOUS
  <2>1. ASSUME NEW n \in Nodes, AtHead(n)
        PROVE  n \in graph.nodes \ executed
    BY <2>1 DEF AtHead
  <2>2. \A q \in Seq(Nodes) : q # <<>> => Len(Tail(q)) < Len(q)
    BY HeadTailProperties, LenProperties, EmptySeq
  <2>3. queue \in Seq(Nodes) /\ sending \in Seq(Nodes)
    BY DEF TypeInv, TypeOK
  <2>4. CASE Discard
    BY <2>2, <2>3, <2>4 DEF Discard, Advances
  <2>5. ASSUME NEW n \in Nodes, Postpone(n)
        PROVE  Advances
    <3>1. /\ queue # <<>> /\ n = Head(queue) /\ n \in Waiting /\ AtHead(n) /\ Waits(n)
          /\ queue' = Append(Tail(queue), Head(queue))
          /\ UNCHANGED <<graph, status, executed, sending, visited, outputs>>
      BY <2>5 DEF Postpone, AtHead, Waiting
    <3>2. \E i \in DOMAIN queue : queue[i] \notin Waiting
      BY <3>1, OneIsReady
    <3>3. /\ Len(queue') = Len(queue)
          /\ \E k \in DOMAIN queue :
                /\ k + 1 \in DOMAIN queue /\ queue[k + 1] \notin Waiting
                /\ \A j \in 1..k : queue[j] \in Waiting
                /\ k \in DOMAIN queue' /\ queue'[k] \notin Waiting
                /\ \A j \in 1..(k - 1) : queue'[j] \in Waiting
      <4> DEFINE P == Waiting
      <4>1. Head(queue) \in P /\ \E i \in DOMAIN queue : queue[i] \notin P
        BY <3>1, <3>2
      <4> HIDE DEF P
      <4>2. /\ Len(queue') = Len(queue)
            /\ \E k \in DOMAIN queue :
                  /\ k + 1 \in DOMAIN queue /\ queue[k + 1] \notin P
                  /\ \A j \in 1..k : queue[j] \in P
                  /\ k \in DOMAIN queue' /\ queue'[k] \notin P
                  /\ \A j \in 1..(k - 1) : queue'[j] \in P
        BY <2>3, <3>1, <4>1, Turned
      <4> QED
        BY <4>2 DEF P
    <3>4. Waiting' = Waiting
      BY <3>1 DEF Waiting, Waits, Blocked, Upstreams, Wired
    <3>5. PICK k \in DOMAIN queue :
              /\ k + 1 \in DOMAIN queue /\ queue[k + 1] \notin Waiting
              /\ \A j \in 1..k : queue[j] \in Waiting
              /\ k \in DOMAIN queue' /\ queue'[k] \notin Waiting'
              /\ \A j \in 1..(k - 1) : queue'[j] \in Waiting'
      BY <3>3, <3>4
    <3>6. k \in Nat
      BY <2>3, <3>5, LenProperties
    <3>7. Turn(k + 1)
      BY <3>5, <3>6 DEF Turn, Waiting
    <3>8. Turn(k)'
      BY <3>5 DEF Turn, Waiting
    <3>9. QED
      BY <3>1, <3>3, <3>7, <3>8 DEF Advances
  <2>6. ASSUME NEW n \in Nodes, GiveUp(n) \/ Fail(n) \/ Pause(n)
        PROVE  Advances
    BY <2>6 DEF GiveUp, Fail, Pause, Advances
  <2>7. ASSUME NEW n \in Nodes, SkipUnknown(n) \/ Execute(n)
        PROVE  Advances
    BY <2>1, <2>7 DEF SkipUnknown, Execute, Advances
  <2>8. CASE Send
    BY <2>2, <2>3, <2>8 DEF Send, Advances
  <2>9. CASE Resume
    BY <2>9 DEF Resume
  <2>10. CASE Complete
    BY <2>10 DEF Complete, Advances
  <2>11. QED
    BY <2>4, <2>5, <2>6, <2>7, <2>8, <2>9, <2>10 DEF Next
<1>2. QED
  BY <1>1, TypeInvariant, SentInvariant, PTL DEF Spec, Progress
===============================================================================
