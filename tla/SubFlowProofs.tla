----------------------------- MODULE SubFlowProofs -----------------------------
(***************************************************************************)
(* Proofs about SubFlow for a tab of any size: the cycle check of          *)
(* buildGraph turns away exactly the flows that have a cycle, and the loop *)
(* of the called flow runs its nodes in order.  The lemmas about steps are *)
(* cited by FlowCallsProofs for the calls of a run.                        *)
(***************************************************************************)
EXTENDS SubFlow, SequenceTheorems, WellFoundedInduction, TLAPS

\* A set of numbers has a least element.
LEMMA LeastElement ==
    ASSUME NEW T, T \subseteq Nat, T # {}
    PROVE  \E x \in T : \A y \in T : x <= y
<1> DEFINE R == OpToRel(<, Nat)
<1>1. IsWellFoundedOn(R, Nat)
  BY NatLessThanWellFounded
<1>2. \A x, y \in Nat : x < y => <<x, y>> \in R
  BY DEF OpToRel
<1> HIDE DEF R
<1>3. \E x \in T : \A y \in T : <<y, x>> \notin R
  BY <1>1, WFMin
<1> QED
  <2>1. PICK x \in T : \A y \in T : <<y, x>> \notin R
    BY <1>3
  <2>2. ASSUME NEW y \in T PROVE x <= y
    <3>1. x \in Nat /\ y \in Nat
      OBVIOUS
    <3>2. ~(y < x)
      BY <1>2, <2>1, <3>1, Zenon
    <3> QED BY <3>1, <3>2
  <2> QED BY <2>2

\* Induction along a sequence of numbers, for a set of those that satisfy a claim.
LEMMA Inductive ==
    ASSUME NEW n \in Nat, NEW T, 1 \in T,
           \A k \in 1..n : k \in T /\ k < n => k + 1 \in T
    PROVE  1..n \subseteq T
<1> SUFFICES ASSUME 1..n \ T # {} PROVE FALSE
  OBVIOUS
<1>1. PICK k \in 1..n \ T : \A j \in 1..n \ T : k <= j
  <2>1. 1..n \ T \subseteq Nat
    OBVIOUS
  <2> QED BY <2>1, LeastElement
<1>2. k # 1 /\ k - 1 \in 1..n /\ k - 1 < n
  BY <1>1
<1>3. k - 1 \in T
  BY <1>1, <1>2
<1> QED BY <1>1, <1>2, <1>3

\* Two sequences, one behind the other.
LEMMA ConcatHolds ==
    ASSUME NEW S, NEW s \in Seq(S), NEW t \in Seq(S)
    PROVE  s \o t \in Seq(S) /\ ToSet(s \o t) = ToSet(s) \cup ToSet(t)
<1>1. /\ s \o t \in Seq(S) /\ Len(s) \in Nat /\ Len(t) \in Nat
      /\ DOMAIN s = 1..Len(s) /\ DOMAIN t = 1..Len(t) /\ DOMAIN (s \o t) = 1..(Len(s) + Len(t))
      /\ \A i \in 1..(Len(s) + Len(t)) : (s \o t)[i] = IF i <= Len(s) THEN s[i] ELSE t[i - Len(s)]
  BY ConcatProperties, LenProperties
<1>2. ASSUME NEW x \in ToSet(s \o t) PROVE x \in ToSet(s) \cup ToSet(t)
  <2>1. PICK i \in 1..(Len(s) + Len(t)) : x = (s \o t)[i]
    BY <1>1 DEF ToSet
  <2>2. CASE i <= Len(s)
    BY <1>1, <2>1, <2>2 DEF ToSet
  <2>3. CASE i > Len(s)
    <3>1. i - Len(s) \in 1..Len(t) /\ x = t[i - Len(s)]
      BY <1>1, <2>1, <2>3
    <3> QED BY <1>1, <3>1 DEF ToSet
  <2> QED BY <1>1, <2>2, <2>3
<1>3. ASSUME NEW x \in ToSet(s) PROVE x \in ToSet(s \o t)
  <2>1. PICK i \in 1..Len(s) : x = s[i]
    BY <1>1 DEF ToSet
  <2>2. i \in 1..(Len(s) + Len(t)) /\ i <= Len(s)
    BY <1>1
  <2> QED BY <1>1, <2>1, <2>2 DEF ToSet
<1>4. ASSUME NEW x \in ToSet(t) PROVE x \in ToSet(s \o t)
  <2>1. PICK i \in 1..Len(t) : x = t[i]
    BY <1>1 DEF ToSet
  <2>2. Len(s) + i \in 1..(Len(s) + Len(t)) /\ ~(Len(s) + i <= Len(s)) /\ (Len(s) + i) - Len(s) = i
    BY <1>1
  <2>3. (s \o t)[Len(s) + i] = t[i]
    BY <1>1, <2>2
  <2> QED BY <1>1, <2>1, <2>2, <2>3 DEF ToSet
<1> QED BY <1>1, <1>2, <1>3, <1>4

\* A sequence with one more element.
LEMMA AppendHolds ==
    ASSUME NEW S, NEW s \in Seq(S), NEW e \in S
    PROVE  Append(s, e) \in Seq(S) /\ ToSet(Append(s, e)) = ToSet(s) \cup {e}
<1>1. Append(s, e) = s \o <<e>> /\ <<e>> \in Seq(S) /\ ToSet(<<e>>) = {e}
  BY AppendIsConcat DEF ToSet
<1>2. s \o <<e>> \in Seq(S) /\ ToSet(s \o <<e>>) = ToSet(s) \cup ToSet(<<e>>)
  BY <1>1, ConcatHolds, Zenon
<1> QED BY <1>1, <1>2, Zenon

\* The concatenation of sequences holds what one of them holds.
LEMMA FlattenHolds ==
    ASSUME NEW S, NEW ss \in Seq(Seq(S))
    PROVE  /\ FlattenSeq(ss) \in Seq(S)
           /\ \A x : x \in ToSet(FlattenSeq(ss)) <=> \E i \in DOMAIN ss : x \in ToSet(ss[i])
<1> DEFINE n == Len(ss)
           Body(g) == [i \in 1..n |-> IF i = 1 THEN ss[i] ELSE g[i - 1] \o ss[i]]
           F == CHOOSE g : g = Body(g)
           Upto(f, k) == /\ f \in [1..k -> Seq(S)]
                         /\ \A i \in 1..k : f[i] = IF i = 1 THEN ss[i] ELSE f[i - 1] \o ss[i]
           Holds(f, k) == \A x : x \in ToSet(f[k]) <=> \E i \in 1..k : x \in ToSet(ss[i])
<1>0. n \in Nat /\ DOMAIN ss = 1..n /\ \A i \in 1..n : ss[i] \in Seq(S)
  BY LenProperties, ElementOfSeq
<1>1. CASE n = 0
  <2>1. FlattenSeq(ss) = ss /\ ss = <<>> /\ DOMAIN ss = {}
    BY <1>0, <1>1 DEF FlattenSeq
  <2> QED BY <2>1 DEF ToSet
<1>2. CASE n # 0
  <2> HIDE DEF n
  <2>0. n \in Nat /\ 1 \in 1..n /\ n \in 1..n
    BY <1>0, <1>2
  <2>1. \E f : Upto(f, n)
    <3> DEFINE T == {k \in 1..n : \E f : Upto(f, k)}
    <3>1. 1 \in T
      <4>1. Upto([i \in 1..1 |-> ss[i]], 1)
        BY <1>0, <2>0
      <4> QED BY <2>0, <4>1
    <3>2. ASSUME NEW k \in 1..n, k \in T, k < n PROVE k + 1 \in T
      <4>1. PICK f : Upto(f, k)
        BY <3>2
      <4> DEFINE g == [i \in 1..(k + 1) |-> IF i = k + 1 THEN f[k] \o ss[k + 1] ELSE f[i]]
      <4>2. k + 1 \in 1..n /\ ss[k + 1] \in Seq(S) /\ f[k] \in Seq(S)
        BY <1>0, <2>0, <3>2, <4>1
      <4>3. f[k] \o ss[k + 1] \in Seq(S)
        BY <4>2, ConcatProperties
      <4>4. g \in [1..(k + 1) -> Seq(S)]
        BY <4>1, <4>3
      <4>5. ASSUME NEW i \in 1..(k + 1)
            PROVE  g[i] = IF i = 1 THEN ss[i] ELSE g[i - 1] \o ss[i]
        <5>1. CASE i = k + 1
          <6>1. i # 1 /\ i - 1 = k /\ k \in 1..(k + 1) /\ k # k + 1
            BY <2>0, <5>1
          <6> QED BY <5>1, <6>1
        <5>2. CASE i # k + 1
          <6>1. i \in 1..k /\ (i # 1 => i - 1 \in 1..k /\ i - 1 # k + 1 /\ i - 1 \in 1..(k + 1))
            BY <2>0, <5>2
          <6> QED BY <4>1, <5>2, <6>1
        <5> QED BY <5>1, <5>2
      <4>6. Upto(g, k + 1)
        <5> HIDE DEF g
        <5> QED BY <4>4, <4>5
      <4> QED BY <4>2, <4>6
    <3> HIDE DEF T
    <3>3. 1..n \subseteq T
      BY <2>0, <3>1, <3>2, Inductive
    <3> QED BY <2>0, <3>3 DEF T
  <2>2. F = Body(F)
    <3>1. PICK f : Upto(f, n)
      BY <2>1
    <3>2. f = Body(f)
      BY <3>1
    <3> QED BY <3>2, Zenon
  <2>3. FlattenSeq(ss) = F[n]
    BY <1>0, <1>2 DEF FlattenSeq, n
  <2> HIDE DEF F
  <2>4. \A i \in 1..n : F[i] = IF i = 1 THEN ss[i] ELSE F[i - 1] \o ss[i]
    BY <2>2
  <2>5. \A k \in 1..n : F[k] \in Seq(S) /\ Holds(F, k)
    <3> DEFINE T == {k \in 1..n : F[k] \in Seq(S) /\ Holds(F, k)}
    <3>1. 1 \in T
      <4>1. F[1] = ss[1] /\ ss[1] \in Seq(S)
        BY <1>0, <2>0, <2>4
      <4>2. Holds(F, 1)
        BY <4>1
      <4> QED BY <2>0, <4>1, <4>2
    <3>2. ASSUME NEW k \in 1..n, k \in T, k < n PROVE k + 1 \in T
      <4>1. k + 1 \in 1..n /\ F[k + 1] = F[k] \o ss[k + 1] /\ F[k] \in Seq(S) /\ ss[k + 1] \in Seq(S)
        <5>1. k + 1 \in 1..n /\ k + 1 # 1 /\ (k + 1) - 1 = k
          BY <2>0, <3>2
        <5>2. F[k + 1] = F[k] \o ss[k + 1]
          BY <2>4, <5>1
        <5> QED BY <1>0, <3>2, <5>1, <5>2
      <4>2. F[k] \o ss[k + 1] \in Seq(S) /\ ToSet(F[k] \o ss[k + 1]) = ToSet(F[k]) \cup ToSet(ss[k + 1])
        BY <4>1, ConcatHolds
      <4>3. Holds(F, k + 1)
        <5> TAKE x
        <5>1. x \in ToSet(F[k + 1]) <=> (\E i \in 1..k : x \in ToSet(ss[i])) \/ x \in ToSet(ss[k + 1])
          BY <3>2, <4>1, <4>2
        <5> QED BY <2>0, <5>1
      <4> QED BY <4>1, <4>2, <4>3
    <3> HIDE DEF T
    <3>3. 1..n \subseteq T
      BY <2>0, <3>1, <3>2, Inductive
    <3> QED BY <3>3 DEF T
  <2> QED BY <1>0, <2>0, <2>3, <2>5
<1> QED BY <1>0, <1>1, <1>2

\* What Without leaves.
LEMMA WithoutHolds ==
    ASSUME NEW S, NEW s \in Seq(S), NEW E
    PROVE  Without(s, E) \in Seq(S) /\ ToSet(Without(s, E)) = ToSet(s) \ E
<1> DEFINE ss == [i \in DOMAIN s |-> IF s[i] \in E THEN <<>> ELSE <<s[i]>>]
<1>1. DOMAIN s = 1..Len(s) /\ Len(s) \in Nat /\ \A i \in DOMAIN s : s[i] \in S
  BY LenProperties, ElementOfSeq
<1>2. \A i \in DOMAIN s : (IF s[i] \in E THEN <<>> ELSE <<s[i]>>) \in Seq(S)
  BY <1>1
<1>3. ss \in Seq(Seq(S)) /\ DOMAIN ss = DOMAIN s
  BY <1>1, <1>2, IsASeq
<1>4. \A i \in DOMAIN s : ToSet(ss[i]) = {s[i]} \ E
  <2> TAKE i \in DOMAIN s
  <2>1. CASE s[i] \in E
    BY <2>1 DEF ToSet
  <2>2. CASE s[i] \notin E
    BY <2>2 DEF ToSet
  <2> QED BY <2>1, <2>2
<1> HIDE DEF ss
<1>5. /\ FlattenSeq(ss) \in Seq(S)
      /\ \A x : x \in ToSet(FlattenSeq(ss)) <=> \E i \in DOMAIN ss : x \in ToSet(ss[i])
  BY <1>3, FlattenHolds
<1>6. Without(s, E) = FlattenSeq(ss)
  BY DEF Without, ss
<1>7. ASSUME NEW x PROVE x \in ToSet(Without(s, E)) <=> x \in ToSet(s) \ E
  <2>1. x \in ToSet(Without(s, E)) <=> \E i \in DOMAIN s : x \in {s[i]} \ E
    BY <1>3, <1>4, <1>5, <1>6
  <2> QED BY <2>1 DEF ToSet
<1> QED BY <1>5, <1>6, <1>7

\* The ports a result names are a sequence of numbers.
LEMMA FiringsAreSequences ==
    ASSUME NEW k, NEW wired \in Nat
    PROVE  Firings(k, wired) \subseteq Seq(Nat)
<1>1. \A p \in Nat : <<p>> \in Seq(Nat)
  OBVIOUS
<1>2. ASSUME NEW parts \in Nat PROVE [p \in 1..parts |-> p] \in Seq(Nat)
  BY IsASeq
<1>3. CASE k = "choice"
  <2>1. Firings(k, wired) = {<<p>> : p \in 1..(wired + 1)}
    BY <1>3 DEF Firings
  <2>2. \A p \in 1..(wired + 1) : <<p>> \in Seq(Nat)
    BY <1>1
  <2> QED BY <2>1, <2>2
<1>4. CASE k = "multi"
  BY <1>2, <1>4 DEF Firings
<1>5. CASE k \notin {"choice", "multi"}
  BY <1>1, <1>5 DEF Firings
<1> QED BY <1>3, <1>4, <1>5

\* The targets of the ports of a node are a sequence of ids.
LEMMA TargetsAreSequences ==
    ASSUME NEW Ids, NEW w \in Seq(Seq(Ids)), NEW ports \in Seq(Nat)
    PROVE  TargetsOf(w, ports) \in Seq(Ids)
<1> DEFINE ss == [i \in DOMAIN ports |-> IF ports[i] \in DOMAIN w THEN w[ports[i]] ELSE <<>>]
<1>1. DOMAIN ports = 1..Len(ports) /\ Len(ports) \in Nat
  BY LenProperties
<1>2. \A p \in DOMAIN w : w[p] \in Seq(Ids)
  BY LenProperties, ElementOfSeq
<1>3. \A i \in DOMAIN ports : (IF ports[i] \in DOMAIN w THEN w[ports[i]] ELSE <<>>) \in Seq(Ids)
  BY <1>2
<1>4. ss \in Seq(Seq(Ids))
  BY <1>1, <1>3, IsASeq
<1> HIDE DEF ss
<1>5. FlattenSeq(ss) \in Seq(Ids)
  BY <1>4, FlattenHolds
<1> QED BY <1>5 DEF TargetsOf, ss

\* What the search and the loop rely on of a graph.
SoundGraph(g, Ids) ==
    /\ g.nodes \subseteq Ids
    /\ g.kind \in [g.nodes -> Kinds] /\ g.wires \in [g.nodes -> Seq(Seq(Ids))]
    /\ g.entries \in Seq(Ids) /\ ToSet(g.entries) = {n \in g.nodes : Upstreams(g, n) = {}}
    /\ g.sends \in [g.nodes -> SUBSET Seq(Ids)]
    /\ g.all \in [g.nodes -> Seq(Ids)]
    /\ \A n \in g.nodes : \A t : t \in ToSet(g.all[n]) <=> Wired(g, n, t)

LEMMA GraphIsSound ==
    ASSUME NEW Ids, NEW order \in Seq(Ids), NEW kind \in [ToSet(order) -> Kinds],
           NEW wires \in [ToSet(order) -> Seq(Seq(Ids))]
    PROVE  SoundGraph(Graph(order, kind, wires), Ids)
<1> DEFINE g == Graph(order, kind, wires)
           ids == ToSet(order)
           Incoming(n) == \E m \in ids : \E p \in DOMAIN wires[m] : n \in ToSet(wires[m][p])
<1>1. /\ g.nodes = ids /\ g.kind = kind /\ g.wires = wires
      /\ g.entries = Without(order, {n \in ids : Incoming(n)})
      /\ g.sends = [n \in ids |-> {TargetsOf(wires[n], ports) :
                                      ports \in Firings(kind[n], Len(wires[n]))}]
      /\ g.all = [n \in ids |-> FlattenSeq(wires[n])]
  BY DEF Graph
<1> HIDE DEF g
<1>2. ids \subseteq Ids
  BY LenProperties, ElementOfSeq DEF ToSet
<1>3. ASSUME NEW n \in ids
      PROVE  /\ FlattenSeq(wires[n]) \in Seq(Ids)
             /\ \A t : t \in ToSet(FlattenSeq(wires[n])) <=> \E p \in DOMAIN wires[n] : t \in ToSet(wires[n][p])
  <2>1. wires[n] \in Seq(Seq(Ids))
    OBVIOUS
  <2> QED BY <2>1, FlattenHolds
<1>4. ASSUME NEW n \in ids, NEW ports \in Firings(kind[n], Len(wires[n]))
      PROVE  TargetsOf(wires[n], ports) \in Seq(Ids)
  <2>1. wires[n] \in Seq(Seq(Ids)) /\ Len(wires[n]) \in Nat
    BY LenProperties
  <2>2. ports \in Seq(Nat)
    BY <2>1, FiringsAreSequences
  <2> QED BY <2>1, <2>2, TargetsAreSequences
<1>5. g.entries \in Seq(Ids) /\ ToSet(g.entries) = {n \in ids : ~Incoming(n)}
  <2>1. g.entries \in Seq(Ids) /\ ToSet(g.entries) = ids \ {n \in ids : Incoming(n)}
    BY <1>1, WithoutHolds
  <2> QED BY <2>1
<1>6. \A n \in ids : Upstreams(g, n) = {} <=> ~Incoming(n)
  BY <1>1 DEF Upstreams, Wired
<1>7. g.sends \in [ids -> SUBSET Seq(Ids)]
  BY <1>1, <1>4
<1>8. g.all \in [ids -> Seq(Ids)] /\ \A n \in ids : \A t : t \in ToSet(g.all[n]) <=> Wired(g, n, t)
  BY <1>1, <1>3 DEF Wired
<1>9. {n \in g.nodes : Upstreams(g, n) = {}} = {n \in ids : ~Incoming(n)}
  BY <1>1, <1>6
<1> HIDE DEF ids, Incoming
<1>10. SoundGraph(g, Ids)
  BY <1>1, <1>2, <1>5, <1>7, <1>8, <1>9 DEF SoundGraph, ids
<1> QED BY <1>10 DEF g

\* buildGraph makes a sound graph of every tab, with as many nodes as it has places.
LEMMA BuiltIsSound ==
    ASSUME NEW Ids, NEW raw, IsTab(raw, Ids)
    PROVE  /\ SoundGraph(Built(raw), Ids)
           /\ \E order \in Seq(Ids) : Built(raw).nodes = ToSet(order)
<1> DEFINE Raw == [id : Ids, kind : Kinds \cup {"infra"}, wires : Seq(Seq(Ids))]
           kept == Without(raw, {r \in ToSet(raw) : r.kind = "infra"})
           At(n) == CHOOSE r \in ToSet(kept) : r.id = n
           order == [i \in DOMAIN kept |-> kept[i].id]
<1>1. raw \in Seq(Raw)
  BY DEF IsTab
<1>2. kept \in Seq(Raw) /\ ToSet(kept) = ToSet(raw) \ {r \in ToSet(raw) : r.kind = "infra"}
  BY <1>1, WithoutHolds
<1> HIDE DEF kept
<1>3. DOMAIN kept = 1..Len(kept) /\ Len(kept) \in Nat /\ \A i \in DOMAIN kept : kept[i] \in Raw
  <2> HIDE DEF Raw
  <2>1. DOMAIN kept = 1..Len(kept) /\ Len(kept) \in Nat
    BY <1>2, LenProperties
  <2> QED BY <1>2, <2>1, ElementOfSeq
<1>4. order \in Seq(Ids)
  BY <1>3, IsASeq
<1>5. ASSUME NEW n \in ToSet(order)
      PROVE  At(n) \in Raw /\ At(n).kind # "infra"
  <2>1. PICK i \in DOMAIN kept : n = kept[i].id
    BY DEF ToSet
  <2>2. kept[i] \in ToSet(kept)
    BY DEF ToSet
  <2>3. At(n) \in ToSet(kept)
    BY <2>1, <2>2
  <2>4. ToSet(kept) \subseteq Raw
    BY <1>3 DEF ToSet
  <2> QED BY <1>2, <2>3, <2>4
<1>6. /\ [n \in ToSet(order) |-> At(n).kind] \in [ToSet(order) -> Kinds]
      /\ [n \in ToSet(order) |-> At(n).wires] \in [ToSet(order) -> Seq(Seq(Ids))]
  BY <1>5
<1>7. Built(raw) = Graph(order, [n \in ToSet(order) |-> At(n).kind], [n \in ToSet(order) |-> At(n).wires])
  BY DEF Built, kept
<1> HIDE DEF At, order
<1>8. Built(raw).nodes = ToSet(order)
  BY <1>7 DEF Graph
<1>9. SoundGraph(Built(raw), Ids)
  BY <1>4, <1>6, <1>7, GraphIsSound
<1> QED BY <1>4, <1>8, <1>9

\* The first element of a sequence and the others.
LEMMA HeadAndTail ==
    ASSUME NEW S, NEW s \in Seq(S), s # <<>>
    PROVE  /\ Head(s) \in S /\ Tail(s) \in Seq(S)
           /\ ToSet(s) = {Head(s)} \cup ToSet(Tail(s))
<1>1. /\ Len(s) \in Nat /\ Len(s) # 0 /\ DOMAIN s = 1..Len(s)
      /\ Head(s) = s[1] /\ Head(s) \in S /\ Tail(s) \in Seq(S)
      /\ DOMAIN Tail(s) = 1..(Len(s) - 1)
      /\ \A i \in 1..(Len(s) - 1) : Tail(s)[i] = s[i + 1]
  BY HeadTailProperties, LenProperties, EmptySeq
<1>2. ASSUME NEW x \in ToSet(s) PROVE x \in {Head(s)} \cup ToSet(Tail(s))
  <2>1. PICK i \in 1..Len(s) : x = s[i]
    BY <1>1 DEF ToSet
  <2>2. CASE i = 1
    BY <1>1, <2>1, <2>2
  <2>3. CASE i # 1
    <3>1. i - 1 \in 1..(Len(s) - 1) /\ (i - 1) + 1 = i
      BY <1>1, <2>3
    <3>2. Tail(s)[i - 1] = x
      BY <1>1, <2>1, <3>1
    <3> QED BY <1>1, <3>1, <3>2 DEF ToSet
  <2> QED BY <2>2, <2>3
<1>3. ASSUME NEW x \in {Head(s)} \cup ToSet(Tail(s)) PROVE x \in ToSet(s)
  <2>1. CASE x = Head(s)
    <3>1. 1 \in 1..Len(s)
      BY <1>1
    <3> QED BY <1>1, <2>1, <3>1 DEF ToSet
  <2>2. CASE x \in ToSet(Tail(s))
    <3>1. PICK i \in 1..(Len(s) - 1) : x = s[i + 1]
      BY <1>1, <2>2 DEF ToSet
    <3>2. i + 1 \in 1..Len(s)
      BY <1>1
    <3> QED BY <1>1, <3>1, <3>2 DEF ToSet
  <2> QED BY <2>1, <2>2
<1> QED BY <1>1, <1>2, <1>3

-------------------------------------------------------------------------------
(* The cycle check.                                                          *)

Frames == [node : graph.nodes, rest : Seq(Nodes)]

SearchTypes == visited \subseteq graph.nodes /\ calls \in Seq(Frames)

\* dfs is being called for nodes that are not done, and once for each.
Open ==
    \A i \in DOMAIN calls :
        /\ calls[i].node \notin visited
        /\ \A j \in DOMAIN calls : calls[i].node = calls[j].node => i = j

\* A call was made for a target of the caller's node.
Chained ==
    \A i \in DOMAIN calls : i # 1 => Wired(graph, calls[i - 1].node, calls[i].node)

\* What a call has still to look at are targets of its node.
LooksAtTargets ==
    \A i \in DOMAIN calls : \A t \in ToSet(calls[i].rest) : Wired(graph, calls[i].node, t)

\* Every other target is done, or being done.
DealtWith(i) ==
    \A t \in graph.nodes : Wired(graph, calls[i].node, t) =>
        \/ t \in visited \/ t \in ToSet(calls[i].rest)
        \/ i < Len(calls) /\ t = calls[i + 1].node

Covered == \A i \in DOMAIN calls : DealtWith(i)

\* The targets of what is done are done.
Closed == \A m \in visited : \A t \in graph.nodes : Wired(graph, m, t) => t \in visited

\* There is no cycle among what is done.
Sorted == \A S \in SUBSET visited : S # {} => \E n \in S : Upstreams(graph, n) \cap S = {}

SearchInv ==
    /\ SearchTypes /\ Open /\ Chained /\ LooksAtTargets /\ Covered
    /\ Closed /\ Sorted

\* A call that starts.
LEMMA CallStarts ==
    ASSUME SoundGraph(graph, Nodes), NEW n \in graph.nodes
    PROVE  /\ CallOf(n) \in Frames /\ CallOf(n).node = n
           /\ \A t : t \in ToSet(CallOf(n).rest) <=> Wired(graph, n, t)
BY DEF SoundGraph, CallOf, Frames

\* The calls under way, after the innermost has looked at a target.
LEMMA LookedAtEffect ==
    ASSUME SearchTypes, NEW t, LooksAt(t)
    PROVE  /\ Len(calls) \in Nat \ {0} /\ DOMAIN calls = 1..Len(calls)
           /\ LookedAt \in Seq(Frames) /\ Len(LookedAt) = Len(calls)
           /\ \A i \in 1..Len(calls) :
                  /\ calls[i] \in Frames /\ LookedAt[i] \in Frames
                  /\ LookedAt[i].node = calls[i].node
                  /\ i # Len(calls) => LookedAt[i].rest = calls[i].rest
           /\ t \in ToSet(calls[Len(calls)].rest)
           /\ ToSet(calls[Len(calls)].rest) = {t} \cup ToSet(LookedAt[Len(calls)].rest)
<1> DEFINE n == Len(calls)
           top == calls[n]
           new == [top EXCEPT !.rest = Tail(@)]
<1>1. n \in Nat \ {0} /\ DOMAIN calls = 1..n /\ n \in 1..n /\ \A i \in 1..n : calls[i] \in Frames
  BY LenProperties, ElementOfSeq, EmptySeq DEF SearchTypes, LooksAt
<1>2. top.rest # <<>> /\ t = Head(top.rest)
  BY DEF LooksAt, Last
<1>3. LookedAt = [calls EXCEPT ![n] = new]
  BY DEF LookedAt
<1> HIDE DEF n
<1>4. top \in Frames /\ top.rest \in Seq(Nodes)
  BY <1>1 DEF Frames
<1>5. Tail(top.rest) \in Seq(Nodes) /\ ToSet(top.rest) = {t} \cup ToSet(Tail(top.rest))
  BY <1>2, <1>4, HeadAndTail
<1>6. new \in Frames /\ new.node = top.node /\ new.rest = Tail(top.rest)
  BY <1>4, <1>5 DEF Frames
<1> HIDE DEF new, top
<1>7. calls \in Seq(Frames)
  BY DEF SearchTypes
<1>8. LookedAt \in Seq(Frames) /\ Len(LookedAt) = n /\ \A i \in 1..n : LookedAt[i] = IF i = n THEN new ELSE calls[i]
  BY <1>1, <1>3, <1>6, <1>7, ExceptSeq DEF n
<1>9. ASSUME NEW i \in 1..n
      PROVE  /\ calls[i] \in Frames /\ LookedAt[i] \in Frames
             /\ LookedAt[i].node = calls[i].node
             /\ i # n => LookedAt[i].rest = calls[i].rest
  BY <1>1, <1>6, <1>8 DEF top
<1>10. LookedAt[n].rest = Tail(top.rest)
  BY <1>1, <1>6, <1>8
<1> QED BY <1>1, <1>5, <1>8, <1>9, <1>10 DEF n, top

\* A loop of buildGraph calls dfs.
LEMMA EnterKeeps ==
    ASSUME SoundGraph(graph, Nodes), SearchInv, NEW n, Enter(n)
    PROVE  SearchInv'
<1>1. n \in graph.nodes \ visited
  BY DEF Enter, Starts, SoundGraph
<1>2. /\ calls' = <<CallOf(n)>> /\ DOMAIN calls' = {1} /\ Len(calls') = 1 /\ calls'[1] = CallOf(n)
      /\ graph' = graph /\ visited' = visited
  BY DEF Enter
<1>3. CallOf(n) \in Frames /\ CallOf(n).node = n /\ \A t : t \in ToSet(CallOf(n).rest) <=> Wired(graph, n, t)
  BY <1>1, CallStarts
<1>4. SearchTypes'
  BY <1>2, <1>3 DEF SearchInv, SearchTypes, Frames
<1>5. Open' /\ Chained'
  BY <1>1, <1>2, <1>3 DEF Open, Chained
<1>6. LooksAtTargets' /\ Covered'
  BY <1>2, <1>3 DEF LooksAtTargets, Covered, DealtWith
<1>7. Closed' /\ Sorted'
  BY <1>2 DEF SearchInv, Closed, Sorted
<1> QED BY <1>4, <1>5, <1>6, <1>7 DEF SearchInv

\* dfs passes a target by.
LEMMA PassKeeps ==
    ASSUME SearchInv, NEW t, Pass(t)
    PROVE  SearchInv'
<1> DEFINE n == Len(calls)
<1>1. /\ LooksAt(t) /\ t \notin graph.nodes \ visited
      /\ calls' = LookedAt /\ graph' = graph /\ visited' = visited
  BY DEF Pass
<1>2. /\ n \in Nat \ {0} /\ DOMAIN calls = 1..n
      /\ LookedAt \in Seq(Frames) /\ Len(LookedAt) = n
      /\ \A i \in 1..n : /\ LookedAt[i].node = calls[i].node
                         /\ i # n => LookedAt[i].rest = calls[i].rest
      /\ ToSet(calls[n].rest) = {t} \cup ToSet(LookedAt[n].rest)
  BY <1>1, LookedAtEffect DEF SearchInv
<1>3. DOMAIN calls' = 1..n /\ Len(calls') = n
  BY <1>1, <1>2, LenProperties
<1> HIDE DEF n
<1>4. SearchTypes'
  BY <1>1, <1>2 DEF SearchInv, SearchTypes, Frames
<1>5. Open'
  BY <1>1, <1>2, <1>3 DEF SearchInv, Open
<1>6. Chained'
  <2> SUFFICES ASSUME NEW i \in 1..n, i # 1
               PROVE  Wired(graph, LookedAt[i - 1].node, LookedAt[i].node)
    BY <1>1, <1>3 DEF Chained
  <2>1. i - 1 \in 1..n
    BY <1>2
  <2> QED BY <1>2, <2>1 DEF SearchInv, Chained
<1>7. LooksAtTargets'
  <2> SUFFICES ASSUME NEW i \in 1..n, NEW u \in ToSet(LookedAt[i].rest)
               PROVE  Wired(graph, LookedAt[i].node, u)
    BY <1>1, <1>3 DEF LooksAtTargets
  <2>1. u \in ToSet(calls[i].rest)
    BY <1>2
  <2> QED BY <1>2, <2>1 DEF SearchInv, LooksAtTargets
<1>8. Covered'
  <2> SUFFICES ASSUME NEW i \in 1..n, NEW u \in graph.nodes, Wired(graph, LookedAt[i].node, u)
               PROVE  \/ u \in visited \/ u \in ToSet(LookedAt[i].rest)
                      \/ i < n /\ u = LookedAt[i + 1].node
    BY <1>1, <1>3 DEF Covered, DealtWith
  <2>1. \/ u \in visited \/ u \in ToSet(calls[i].rest)
        \/ i < n /\ u = calls[i + 1].node
    BY <1>2 DEF SearchInv, Covered, DealtWith, n
  <2>2. CASE i = n
    BY <1>1, <1>2, <2>1, <2>2
  <2>3. CASE i # n
    <3>1. i + 1 \in 1..n
      BY <1>2, <2>3
    <3> QED BY <1>2, <2>1, <2>3, <3>1
  <2> QED BY <2>2, <2>3
<1>9. Closed' /\ Sorted'
  BY <1>1 DEF SearchInv, Closed, Sorted
<1> QED BY <1>4, <1>5, <1>6, <1>7, <1>8, <1>9 DEF SearchInv

\* dfs calls itself for a target.
LEMMA DescendKeeps ==
    ASSUME SoundGraph(graph, Nodes), SearchInv, NEW t, Descend(t)
    PROVE  SearchInv'
<1> DEFINE n == Len(calls)
<1>1. /\ LooksAt(t) /\ t \in graph.nodes \ visited /\ t \notin Visiting
      /\ calls' = Append(LookedAt, CallOf(t)) /\ graph' = graph /\ visited' = visited
  BY DEF Descend, Unseen
<1>2. /\ n \in Nat \ {0} /\ DOMAIN calls = 1..n
      /\ LookedAt \in Seq(Frames) /\ Len(LookedAt) = n
      /\ \A i \in 1..n : /\ LookedAt[i].node = calls[i].node
                         /\ i # n => LookedAt[i].rest = calls[i].rest
      /\ t \in ToSet(calls[n].rest)
      /\ ToSet(calls[n].rest) = {t} \cup ToSet(LookedAt[n].rest)
  BY <1>1, LookedAtEffect DEF SearchInv
<1>3. CallOf(t) \in Frames /\ CallOf(t).node = t /\ \A u : u \in ToSet(CallOf(t).rest) <=> Wired(graph, t, u)
  BY <1>1, CallStarts
<1>4. /\ calls' \in Seq(Frames) /\ Len(calls') = n + 1 /\ DOMAIN calls' = 1..(n + 1)
      /\ calls'[n + 1] = CallOf(t) /\ \A i \in 1..n : calls'[i] = LookedAt[i]
  <2> HIDE DEF n
  <2> DEFINE s == Append(LookedAt, CallOf(t))
  <2>1. LookedAt \in Seq(Frames) /\ Len(LookedAt) = n /\ CallOf(t) \in Frames /\ n \in Nat
    BY <1>2, <1>3
  <2>2. /\ s \in Seq(Frames) /\ Len(s) = n + 1 /\ s[n + 1] = CallOf(t)
        /\ \A i \in 1..n : s[i] = LookedAt[i]
    BY <2>1, AppendProperties
  <2> HIDE DEF s
  <2>3. DOMAIN s = 1..(n + 1)
    BY <2>2, LenProperties
  <2> QED BY <1>1, <2>2, <2>3 DEF s
<1> HIDE DEF n
<1>5. \A i \in 1..n : calls'[i].node = calls[i].node /\ (i # n => calls'[i].rest = calls[i].rest)
  BY <1>2, <1>4
<1>6. calls'[n + 1].node = t /\ \A i \in 1..n : calls[i].node # t
  BY <1>1, <1>2, <1>3, <1>4 DEF Visiting
<1>7. ToSet(calls[n].rest) = {t} \cup ToSet(calls'[n].rest)
  BY <1>2, <1>4
<1>8. SearchTypes'
  BY <1>1, <1>4 DEF SearchInv, SearchTypes, Frames
<1>9. Open'
  <2> SUFFICES ASSUME NEW i \in 1..(n + 1)
               PROVE  /\ calls'[i].node \notin visited
                      /\ \A j \in 1..(n + 1) : calls'[i].node = calls'[j].node => i = j
    BY <1>1, <1>4 DEF Open
  <2>1. \A j \in 1..(n + 1) : j = n + 1 \/ j \in 1..n
    BY <1>2
  <2>2. \A j \in 1..n : /\ calls[j].node \notin visited
                        /\ \A k \in 1..n : calls[j].node = calls[k].node => j = k
    BY <1>2 DEF SearchInv, Open
  <2>3. CASE i = n + 1
    BY <1>1, <1>5, <1>6, <2>1, <2>3
  <2>4. CASE i \in 1..n
    BY <1>1, <1>5, <1>6, <2>1, <2>2, <2>4
  <2> QED BY <2>1, <2>3, <2>4
<1>10. Chained'
  <2> SUFFICES ASSUME NEW i \in 1..(n + 1), i # 1
               PROVE  Wired(graph, calls'[i - 1].node, calls'[i].node)
    BY <1>1, <1>4 DEF Chained
  <2>1. CASE i = n + 1
    <3>1. i - 1 = n /\ n \in 1..n
      BY <1>2, <2>1
    <3>2. Wired(graph, calls[n].node, t)
      BY <1>2, <3>1 DEF SearchInv, LooksAtTargets
    <3> QED BY <1>5, <1>6, <2>1, <3>1, <3>2
  <2>2. CASE i # n + 1
    <3>1. i \in 1..n /\ i - 1 \in 1..n
      BY <1>2, <2>2
    <3> QED BY <1>2, <1>5, <3>1 DEF SearchInv, Chained
  <2> QED BY <2>1, <2>2
<1>11. LooksAtTargets'
  <2> SUFFICES ASSUME NEW i \in 1..(n + 1), NEW u \in ToSet(calls'[i].rest)
               PROVE  Wired(graph, calls'[i].node, u)
    BY <1>1, <1>4 DEF LooksAtTargets
  <2>1. CASE i = n + 1
    BY <1>3, <1>4, <2>1
  <2>2. CASE i # n + 1
    <3>1. i \in 1..n
      BY <1>2, <2>2
    <3>2. u \in ToSet(calls[i].rest)
      BY <1>5, <1>7, <3>1
    <3> QED BY <1>2, <1>5, <3>1, <3>2 DEF SearchInv, LooksAtTargets
  <2> QED BY <2>1, <2>2
<1>12. Covered'
  <2> SUFFICES ASSUME NEW i \in 1..(n + 1), NEW u \in graph.nodes, Wired(graph, calls'[i].node, u)
               PROVE  \/ u \in visited \/ u \in ToSet(calls'[i].rest)
                      \/ i < n + 1 /\ u = calls'[i + 1].node
    BY <1>1, <1>4 DEF Covered, DealtWith
  <2>1. CASE i = n + 1
    BY <1>3, <1>4, <2>1
  <2>2. CASE i = n
    <3>1. n \in 1..n /\ n < n + 1
      BY <1>2
    <3>2. u \in visited \/ u \in ToSet(calls[n].rest)
      <4>1. DealtWith(n)
        BY <1>2, <3>1 DEF SearchInv, Covered
      <4>2. Wired(graph, calls[n].node, u)
        BY <1>5, <2>2, <3>1
      <4>3. ~(n < n)
        BY <1>2
      <4> QED BY <4>1, <4>2, <4>3 DEF DealtWith, n
    <3> QED BY <1>6, <1>7, <2>2, <3>1, <3>2
  <2>3. CASE i \notin {n, n + 1}
    <3>1. i \in 1..n /\ i # n /\ i + 1 \in 1..n /\ i < n + 1
      BY <1>2, <2>3
    <3>2. \/ u \in visited \/ u \in ToSet(calls[i].rest) \/ u = calls[i + 1].node
      BY <1>2, <1>5, <3>1 DEF SearchInv, Covered, DealtWith
    <3> QED BY <1>5, <3>1, <3>2
  <2> QED BY <2>1, <2>2, <2>3
<1>13. Closed' /\ Sorted'
  BY <1>1 DEF SearchInv, Closed, Sorted
<1> QED BY <1>8, <1>9, <1>10, <1>11, <1>12, <1>13 DEF SearchInv

\* dfs is done with a node.
LEMMA LeaveKeeps ==
    ASSUME SearchInv, Leave
    PROVE  SearchInv'
<1> DEFINE n == Len(calls)
           m == calls[n].node
<1>1. /\ calls # <<>> /\ calls[n].rest = <<>>
      /\ visited' = visited \cup {m} /\ calls' = SubSeq(calls, 1, n - 1) /\ graph' = graph
  BY DEF Leave, Last, Front
<1>2. /\ n \in Nat \ {0} /\ DOMAIN calls = 1..n /\ n \in 1..n
      /\ \A i \in 1..n : calls[i] \in Frames
  BY <1>1, LenProperties, ElementOfSeq, EmptySeq DEF SearchInv, SearchTypes
<1> HIDE DEF n
<1>3. /\ calls' \in Seq(Frames) /\ Len(calls') = n - 1 /\ DOMAIN calls' = 1..(n - 1)
      /\ \A i \in 1..(n - 1) : calls'[i] = calls[i]
  <2>1. \A i \in 1..(n - 1) : calls[i] \in Frames
    BY <1>2
  <2>2. 1 \in Int /\ n - 1 \in Int
    BY <1>2
  <2>3. calls \in Seq(Frames)
    BY DEF SearchInv, SearchTypes
  <2> DEFINE s == SubSeq(calls, 1, n - 1)
  <2>4. /\ s \in Seq(Frames)
        /\ Len(s) = IF 1 <= n - 1 THEN (n - 1) - 1 + 1 ELSE 0
        /\ \A i \in 1..((n - 1) - 1 + 1) : s[i] = calls[1 + i - 1]
    BY <2>1, <2>2, SubSeqProperties
  <2> HIDE DEF s
  <2>5. Len(s) = n - 1
    BY <1>2, <2>4
  <2>6. \A i \in 1..(n - 1) : s[i] = calls[i]
    <3> TAKE i \in 1..(n - 1)
    <3>1. i \in 1..((n - 1) - 1 + 1) /\ 1 + i - 1 = i
      BY <1>2
    <3> QED BY <2>4, <3>1
  <2>7. DOMAIN s = 1..(n - 1)
    BY <2>4, <2>5, LenProperties
  <2> QED BY <1>1, <2>4, <2>5, <2>6, <2>7 DEF s
<1>4. \A i \in 1..(n - 1) : i \in 1..n /\ i # n
  BY <1>2
<1>5. m \in graph.nodes /\ m \notin visited
  BY <1>2 DEF Frames, SearchInv, Open
<1>6. \A t \in graph.nodes : Wired(graph, m, t) => t \in visited
  BY <1>1, <1>2 DEF SearchInv, Covered, DealtWith, n, ToSet
<1> HIDE DEF m
<1>7. SearchTypes'
  BY <1>1, <1>3, <1>5 DEF SearchInv, SearchTypes, Frames
<1>8. Open'
  <2> SUFFICES ASSUME NEW i \in 1..(n - 1)
               PROVE  /\ calls[i].node \notin visited \cup {m}
                      /\ \A j \in 1..(n - 1) : calls[i].node = calls[j].node => i = j
    BY <1>1, <1>3 DEF Open
  <2> QED BY <1>2, <1>4 DEF SearchInv, Open, m
<1>9. Chained'
  <2> SUFFICES ASSUME NEW i \in 1..(n - 1), i # 1
               PROVE  Wired(graph, calls'[i - 1].node, calls'[i].node)
    BY <1>1, <1>3 DEF Chained
  <2>1. i - 1 \in 1..(n - 1)
    BY <1>2
  <2> QED BY <1>2, <1>3, <1>4, <2>1 DEF SearchInv, Chained
<1>10. LooksAtTargets'
  BY <1>1, <1>2, <1>3, <1>4 DEF SearchInv, LooksAtTargets
<1>11. Covered'
  <2> SUFFICES ASSUME NEW i \in 1..(n - 1), NEW u \in graph.nodes, Wired(graph, calls[i].node, u)
               PROVE  \/ u \in visited \cup {m} \/ u \in ToSet(calls[i].rest)
                      \/ i < n - 1 /\ u = calls'[i + 1].node
    <3>1. Covered' = \A i \in DOMAIN calls' : DealtWith(i)'
      BY DEF Covered
    <3>2. ASSUME NEW i \in 1..(n - 1) PROVE DealtWith(i)'
      BY <1>1, <1>3, <3>2 DEF DealtWith
    <3> QED BY <1>3, <3>1, <3>2
  <2>1. \/ u \in visited \/ u \in ToSet(calls[i].rest) \/ u = calls[i + 1].node
    BY <1>2, <1>4 DEF SearchInv, Covered, DealtWith
  <2>2. CASE i = n - 1
    <3>1. i + 1 = n
      BY <1>2, <2>2
    <3> QED BY <2>1, <3>1 DEF m
  <2>3. CASE i # n - 1
    <3>1. i < n - 1 /\ i + 1 \in 1..(n - 1)
      BY <1>2, <2>3
    <3> QED BY <1>3, <2>1, <3>1
  <2> QED BY <2>2, <2>3
<1>12. Closed'
  BY <1>1, <1>6 DEF SearchInv, Closed
<1>13. Sorted'
  <2> SUFFICES ASSUME NEW S \in SUBSET (visited \cup {m}), S # {}
               PROVE  \E x \in S : Upstreams(graph, x) \cap S = {}
    BY <1>1 DEF Sorted
  <2>1. CASE m \in S
    <3>1. \A x \in S : ~Wired(graph, x, m)
      BY <1>5, <1>6 DEF SearchInv, Closed
    <3> QED BY <2>1, <3>1 DEF Upstreams
  <2>2. CASE m \notin S
    BY <2>2 DEF SearchInv, Sorted
  <2> QED BY <2>1, <2>2
<1> QED BY <1>7, <1>8, <1>9, <1>10, <1>11, <1>12, <1>13 DEF SearchInv

\* When dfs throws, the nodes from the one it is called for again to the innermost
\* one form a cycle.
LEMMA ThrowsAtCycles ==
    ASSUME SearchInv, FoundCycle
    PROVE  ~Acyclic(graph)
<1> DEFINE n == Len(calls)
<1>1. PICK t \in Visiting : LooksAt(t)
  BY DEF FoundCycle
<1>2. /\ n \in Nat \ {0} /\ DOMAIN calls = 1..n /\ t \in ToSet(calls[n].rest)
      /\ \A i \in 1..n : calls[i] \in Frames
  BY <1>1, LookedAtEffect DEF SearchInv
<1> HIDE DEF n
<1>3. PICK k \in 1..n : t = calls[k].node
  BY <1>1, <1>2 DEF Visiting
<1>4. Wired(graph, calls[n].node, t)
  <2>1. n \in 1..n
    BY <1>2
  <2> QED BY <1>2, <2>1 DEF SearchInv, LooksAtTargets
<1> DEFINE S == {calls[i].node : i \in k..n}
<1>5. k \in k..n /\ n \in k..n /\ \A i \in k..n : i \in 1..n
  BY <1>2
<1>6. S # {} /\ S \in SUBSET graph.nodes
  BY <1>2, <1>5 DEF Frames
<1>7. ASSUME NEW x \in S PROVE Upstreams(graph, x) \cap S # {}
  <2>1. PICK i \in k..n : x = calls[i].node
    OBVIOUS
  <2>2. CASE i = k
    <3>1. calls[n].node \in S /\ Wired(graph, calls[n].node, x)
      BY <1>3, <1>4, <1>5, <2>1, <2>2
    <3> QED BY <1>6, <3>1 DEF Upstreams
  <2>3. CASE i # k
    <3>1. i - 1 \in k..n /\ i # 1
      BY <1>2, <2>3
    <3>2. calls[i - 1].node \in S /\ Wired(graph, calls[i - 1].node, x)
      BY <1>2, <1>5, <2>1, <3>1 DEF SearchInv, Chained
    <3> QED BY <1>6, <3>2 DEF Upstreams
  <2> QED BY <2>2, <2>3
<1> HIDE DEF S
<1> QED BY <1>6, <1>7 DEF Acyclic

\* When both loops are through, no cycle was there to be found.
LEMMA SearchedIsAcyclic ==
    ASSUME SearchInv, Searched
    PROVE  Acyclic(graph)
BY DEF SearchInv, Sorted, Searched, Acyclic

-------------------------------------------------------------------------------
(* The loop.                                                                 *)

\* While buildGraph searches, the loop has not begun.
NotBegun ==
    status = "building" => queue = <<>> /\ executed = {} /\ outputs = {} /\ asked = {}

\* A node runs when all its upstream nodes have an output, and then has one itself,
\* unless it throws.
Ordered ==
    /\ \A n \in executed : Upstreams(graph, n) \subseteq outputs
    /\ status = "running" => executed \subseteq outputs

\* A node that has not run is queued, or is behind one that has not run or left it out.
Reached ==
    status \in {"running", "returned"} =>
        \A n \in graph.nodes \ executed :
            \/ n \in ToSet(queue)
            \/ \E m \in Upstreams(graph, n) : m \notin executed \/ CanLeaveOut(m, n)

\* The call returns when the queue is empty.
Emptied == status = "returned" => queue = <<>>

\* The cycle check has been passed, or has failed for a reason.
Judged ==
    /\ status \in {"running", "returned"} => Acyclic(graph)
    /\ status = "failed" /\ executed = {} => ~Acyclic(graph) \/ graph.nodes = {}

LoopInv == NotBegun /\ Ordered /\ Reached /\ Emptied /\ Judged

SubInv == SoundGraph(graph, Nodes) /\ TypeOK /\ SearchInv /\ LoopInv

\* A call of a tab begins.
LEMMA SubInit ==
    ASSUME NEW tab, IsTab(tab, Nodes), graph' = Built(tab),
           visited' = {}, calls' = <<>>, status' = "building",
           queue' = <<>>, executed' = {}, outputs' = {}, asked' = {}
    PROVE  SubInv'
<1>1. SoundGraph(graph, Nodes)'
  <2>1. SoundGraph(Built(tab), Nodes)
    BY BuiltIsSound
  <2> QED BY <2>1 DEF SoundGraph, Upstreams, Wired
<1>2. TypeOK'
  BY DEF TypeOK
<1>3. SearchInv'
  <2>1. DOMAIN calls' = {}
    OBVIOUS
  <2>2. SearchTypes'
    BY DEF SearchTypes
  <2>3. Open' /\ Chained' /\ LooksAtTargets' /\ Covered'
    BY <2>1 DEF Open, Chained, LooksAtTargets, Covered
  <2>4. Closed' /\ Sorted'
    BY DEF Closed, Sorted
  <2> QED BY <2>2, <2>3, <2>4 DEF SearchInv
<1>4. LoopInv'
  BY DEF LoopInv, NotBegun, Ordered, Reached, Emptied, Judged
<1> QED BY <1>1, <1>2, <1>3, <1>4 DEF SubInv

\* A step of the search.
LEMMA SearchStepKeeps ==
    ASSUME SubInv, status = "building", SearchInv', graph' = graph,
           UNCHANGED <<status, loopVars>>
    PROVE  SubInv'
<1>1. SoundGraph(graph, Nodes)'
  BY DEF SubInv, SoundGraph, Upstreams, Wired
<1>2. TypeOK'
  <2>1. visited' \subseteq graph.nodes /\ calls' \in Seq(Frames)
    <3>1. SearchTypes'
      BY DEF SearchInv
    <3> QED BY <3>1 DEF SearchTypes, Frames
  <2> QED BY <2>1 DEF SubInv, TypeOK, loopVars, Frames
<1>3. LoopInv'
  BY DEF SubInv, LoopInv, NotBegun, Ordered, Reached, Emptied, Judged, loopVars
<1> QED BY <1>1, <1>2, <1>3 DEF SubInv

\* What a step that leaves the search alone keeps of it.
LEMMA SearchLeftAlone ==
    ASSUME SubInv, UNCHANGED <<graph, searchVars>>
    PROVE  /\ SoundGraph(graph, Nodes)' /\ SearchInv'
           /\ visited' \subseteq graph'.nodes
           /\ calls' \in Seq([node : graph'.nodes, rest : Seq(Nodes)])
           /\ Acyclic(graph)' = Acyclic(graph)
           /\ \A m, n : CanLeaveOut(m, n)' = CanLeaveOut(m, n)
           /\ \A n : Upstreams(graph, n)' = Upstreams(graph, n)
<1>1. graph' = graph /\ visited' = visited /\ calls' = calls
  BY DEF searchVars
<1>2. SoundGraph(graph, Nodes)'
  BY <1>1 DEF SubInv, SoundGraph, Upstreams, Wired
<1>3. SearchInv'
  BY <1>1 DEF SubInv, SearchInv, SearchTypes, Frames, Open, Chained, LooksAtTargets,
              Covered, DealtWith, Closed, Sorted
<1>4. /\ visited' \subseteq graph'.nodes
      /\ calls' \in Seq([node : graph'.nodes, rest : Seq(Nodes)])
  BY <1>1 DEF SubInv, TypeOK
<1>5. \A n : Upstreams(graph, n)' = Upstreams(graph, n)
  BY <1>1 DEF Upstreams, Wired
<1>6. \A m, n : CanLeaveOut(m, n)' = CanLeaveOut(m, n)
  BY <1>1 DEF CanLeaveOut
<1>7. Acyclic(graph)' = Acyclic(graph)
  BY <1>1 DEF Acyclic, Upstreams, Wired
<1> QED BY <1>2, <1>3, <1>4, <1>5, <1>6, <1>7

\* Nothing happens to the call.
LEMMA SubStutter ==
    ASSUME SubInv, UNCHANGED vars
    PROVE  SubInv'
<1>1. UNCHANGED <<graph, searchVars>> /\ UNCHANGED <<status, loopVars>>
  BY DEF vars
<1>2. /\ SoundGraph(graph, Nodes)' /\ SearchInv'
      /\ Acyclic(graph)' = Acyclic(graph)
      /\ \A m, n : CanLeaveOut(m, n)' = CanLeaveOut(m, n)
      /\ \A n : Upstreams(graph, n)' = Upstreams(graph, n)
  BY <1>1, SearchLeftAlone
<1>3. TypeOK'
  BY <1>1 DEF SubInv, TypeOK, loopVars, searchVars
<1>4. LoopInv'
  BY <1>1, <1>2 DEF SubInv, LoopInv, NotBegun, Ordered, Reached, Emptied, Judged, loopVars
<1> QED BY <1>2, <1>3, <1>4 DEF SubInv

\* buildGraph throws.
LEMMA RejectKeeps ==
    ASSUME SubInv, Reject
    PROVE  SubInv'
<1>1. /\ SoundGraph(graph, Nodes)' /\ SearchInv'
      /\ visited' \subseteq graph'.nodes
      /\ calls' \in Seq([node : graph'.nodes, rest : Seq(Nodes)])
      /\ Acyclic(graph)' = Acyclic(graph)
      /\ \A n : Upstreams(graph, n)' = Upstreams(graph, n)
  BY SearchLeftAlone DEF Reject
<1>2. ~Acyclic(graph)
  BY ThrowsAtCycles DEF SubInv, Reject
<1>3. TypeOK'
  BY <1>1 DEF SubInv, TypeOK, Reject, loopVars
<1>4. LoopInv'
  BY <1>1, <1>2 DEF SubInv, LoopInv, NotBegun, Ordered, Reached, Emptied, Judged, Reject, loopVars
<1> QED BY <1>1, <1>3, <1>4 DEF SubInv

\* buildGraph returns.
LEMMA AcceptKeeps ==
    ASSUME SubInv, Accept
    PROVE  SubInv'
<1>1. /\ SoundGraph(graph, Nodes)' /\ SearchInv'
      /\ visited' \subseteq graph'.nodes
      /\ calls' \in Seq([node : graph'.nodes, rest : Seq(Nodes)])
      /\ Acyclic(graph)' = Acyclic(graph)
      /\ \A m, n : CanLeaveOut(m, n)' = CanLeaveOut(m, n)
      /\ \A n : Upstreams(graph, n)' = Upstreams(graph, n)
  BY SearchLeftAlone DEF Accept
<1>2. /\ status = "building" /\ queue' = graph.entries /\ graph' = graph
      /\ status' = IF graph.entries = <<>> THEN "failed" ELSE "running"
      /\ executed' = executed /\ outputs' = outputs /\ asked' = asked
      /\ executed = {} /\ outputs = {} /\ asked = {}
  BY DEF Accept, SubInv, LoopInv, NotBegun
<1>3. Acyclic(graph)
  BY SearchedIsAcyclic DEF SubInv, Accept
<1>4. graph.entries \in Seq(Nodes) /\ ToSet(graph.entries) = {n \in graph.nodes : Upstreams(graph, n) = {}}
  BY DEF SubInv, SoundGraph
<1>5. graph.entries = <<>> => graph.nodes = {}
  <2> SUFFICES ASSUME graph.entries = <<>>, graph.nodes # {} PROVE FALSE
    OBVIOUS
  <2>1. PICK n \in graph.nodes : Upstreams(graph, n) \cap graph.nodes = {}
    BY <1>3 DEF Acyclic
  <2>2. Upstreams(graph, n) = {}
    BY <2>1 DEF Upstreams
  <2>3. ToSet(graph.entries) = {}
    BY DEF ToSet
  <2> QED BY <1>4, <2>2, <2>3
<1>6. TypeOK'
  BY <1>1, <1>2, <1>4 DEF TypeOK
<1>7. NotBegun' /\ Ordered' /\ Emptied' /\ Judged'
  BY <1>1, <1>2, <1>3, <1>5 DEF NotBegun, Ordered, Emptied, Judged
<1>8. Reached'
  BY <1>1, <1>2, <1>4 DEF Reached
<1> QED BY <1>1, <1>6, <1>7, <1>8 DEF SubInv, LoopInv

\* The node at the head of the queue.
LEMMA HeadOfQueue ==
    ASSUME SubInv, queue # <<>>
    PROVE  /\ Head(queue) \in Nodes /\ Tail(queue) \in Seq(Nodes)
           /\ ToSet(queue) = {Head(queue)} \cup ToSet(Tail(queue))
BY HeadAndTail DEF SubInv, TypeOK

\* The head of the queue is dropped, or goes to its back.
LEMMA QueueKeeps ==
    ASSUME SubInv, Discard \/ \E n \in Nodes : Postpone(n)
    PROVE  SubInv'
<1>1. /\ status = "running" /\ queue # <<>> /\ graph' = graph /\ status' = status
      /\ executed' = executed /\ outputs' = outputs /\ asked' = asked
      /\ UNCHANGED <<graph, searchVars>>
      /\ \/ queue' = Tail(queue) /\ Head(queue) \notin graph.nodes \ executed
         \/ queue' = Append(Tail(queue), Head(queue))
  BY DEF Discard, Postpone, AtHead
<1>2. /\ SoundGraph(graph, Nodes)' /\ SearchInv'
      /\ visited' \subseteq graph'.nodes
      /\ calls' \in Seq([node : graph'.nodes, rest : Seq(Nodes)])
      /\ Acyclic(graph)' = Acyclic(graph)
      /\ \A m, n : CanLeaveOut(m, n)' = CanLeaveOut(m, n)
      /\ \A n : Upstreams(graph, n)' = Upstreams(graph, n)
  BY <1>1, SearchLeftAlone
<1>3. /\ Head(queue) \in Nodes /\ Tail(queue) \in Seq(Nodes)
      /\ ToSet(queue) = {Head(queue)} \cup ToSet(Tail(queue))
  BY <1>1, HeadOfQueue
<1>4. /\ Append(Tail(queue), Head(queue)) \in Seq(Nodes)
      /\ ToSet(Append(Tail(queue), Head(queue))) = ToSet(Tail(queue)) \cup {Head(queue)}
  <2> DEFINE s == Tail(queue)
             e == Head(queue)
  <2>1. s \in Seq(Nodes) /\ e \in Nodes
    BY <1>3
  <2> HIDE DEF s, e
  <2>2. Append(s, e) \in Seq(Nodes) /\ ToSet(Append(s, e)) = ToSet(s) \cup {e}
    BY <2>1, AppendHolds
  <2> QED BY <2>2 DEF s, e
<1>5. queue' \in Seq(Nodes) /\ ToSet(queue) \cap (graph.nodes \ executed) \subseteq ToSet(queue')
  BY <1>1, <1>3, <1>4
<1>6. TypeOK'
  BY <1>1, <1>2, <1>5 DEF SubInv, TypeOK
<1>7. NotBegun' /\ Ordered' /\ Emptied' /\ Judged'
  BY <1>1, <1>2 DEF SubInv, LoopInv, NotBegun, Ordered, Emptied, Judged
<1>8. Reached'
  BY <1>1, <1>2, <1>5 DEF SubInv, LoopInv, Reached
<1> QED BY <1>2, <1>6, <1>7, <1>8 DEF SubInv, LoopInv

\* A node runs: its output is there, and what it does not leave out is queued.
LEMMA RunKeeps ==
    ASSUME SubInv, NEW n \in Nodes, PassThrough(n) \/ Execute(n)
    PROVE  SubInv'
<1>1. /\ status = "running" /\ queue # <<>> /\ n = Head(queue) /\ n \in graph.nodes \ executed
      /\ graph' = graph /\ status' = status
      /\ UNCHANGED <<graph, searchVars>> /\ Upstreams(graph, n) \subseteq outputs
      /\ executed' = executed \cup {n} /\ outputs' = outputs \cup {n}
      /\ asked' \subseteq asked \cup {n}
  BY DEF PassThrough, Execute, AtHead, Ready, Marked, WithOutput
<1>2. /\ SoundGraph(graph, Nodes)' /\ SearchInv'
      /\ visited' \subseteq graph'.nodes
      /\ calls' \in Seq([node : graph'.nodes, rest : Seq(Nodes)])
      /\ Acyclic(graph)' = Acyclic(graph)
      /\ \A m, x : CanLeaveOut(m, x)' = CanLeaveOut(m, x)
      /\ \A x : Upstreams(graph, x)' = Upstreams(graph, x)
  BY <1>1, SearchLeftAlone
<1>3. /\ Head(queue) \in Nodes /\ Tail(queue) \in Seq(Nodes)
      /\ ToSet(queue) = {Head(queue)} \cup ToSet(Tail(queue))
  BY <1>1, HeadOfQueue
<1>4. /\ queue' \in Seq(Nodes) /\ ToSet(Tail(queue)) \subseteq ToSet(queue')
      /\ \A x \in graph.nodes \ executed' : x \notin ToSet(queue') => CanLeaveOut(n, x)
  <2>1. CASE PassThrough(n)
    BY <1>3, <2>1 DEF PassThrough, CanLeaveOut
  <2>2. CASE Execute(n)
    <3>1. PICK targets \in graph.sends[n] : queue' = Tail(queue) \o Without(targets, executed')
      BY <2>2 DEF Execute
    <3>2. targets \in Seq(Nodes)
      BY <1>1 DEF SubInv, SoundGraph
    <3>3. /\ Without(targets, executed') \in Seq(Nodes)
          /\ ToSet(Without(targets, executed')) = ToSet(targets) \ executed'
      BY <3>2, WithoutHolds
    <3>4. queue' \in Seq(Nodes) /\ ToSet(queue') = ToSet(Tail(queue)) \cup (ToSet(targets) \ executed')
      <4> DEFINE s == Tail(queue)
                 u == Without(targets, executed')
      <4>1. s \in Seq(Nodes) /\ u \in Seq(Nodes)
        BY <1>3, <3>3
      <4> HIDE DEF s, u
      <4>2. s \o u \in Seq(Nodes) /\ ToSet(s \o u) = ToSet(s) \cup ToSet(u)
        BY <4>1, ConcatHolds
      <4> QED BY <3>1, <3>3, <4>2 DEF s, u
    <3> QED BY <3>4 DEF CanLeaveOut
  <2> QED BY <2>1, <2>2
<1>5. TypeOK'
  BY <1>1, <1>2, <1>4 DEF SubInv, TypeOK
<1>6. NotBegun' /\ Emptied' /\ Judged'
  BY <1>1, <1>2 DEF SubInv, LoopInv, NotBegun, Emptied, Judged
<1>7. Ordered'
  BY <1>1, <1>2 DEF SubInv, LoopInv, Ordered
<1>8. Reached'
  <2> SUFFICES ASSUME NEW x \in graph.nodes \ executed', x \notin ToSet(queue')
               PROVE  \E m \in Upstreams(graph, x) : m \notin executed' \/ CanLeaveOut(m, x)
    BY <1>1, <1>2 DEF Reached
  <2>1. x \in graph.nodes \ executed /\ x \notin ToSet(queue) /\ CanLeaveOut(n, x)
    BY <1>1, <1>3, <1>4
  <2>2. PICK m \in Upstreams(graph, x) : m \notin executed \/ CanLeaveOut(m, x)
    BY <1>1, <2>1 DEF SubInv, LoopInv, Reached
  <2> QED BY <1>1, <2>1, <2>2
<1> QED BY <1>2, <1>5, <1>6, <1>7, <1>8 DEF SubInv, LoopInv

\* The loop ends: a node throws, or the queue is empty.
LEMMA EndKeeps ==
    ASSUME SubInv, Return \/ \E n \in Nodes : Fail(n)
    PROVE  SubInv'
<1>1. UNCHANGED <<graph, searchVars>> /\ graph' = graph /\ status = "running"
  BY DEF Return, Fail, AtHead
<1>2. /\ SoundGraph(graph, Nodes)' /\ SearchInv'
      /\ visited' \subseteq graph'.nodes
      /\ calls' \in Seq([node : graph'.nodes, rest : Seq(Nodes)])
      /\ Acyclic(graph)' = Acyclic(graph)
      /\ \A m, n : CanLeaveOut(m, n)' = CanLeaveOut(m, n)
      /\ \A n : Upstreams(graph, n)' = Upstreams(graph, n)
  BY <1>1, SearchLeftAlone
<1>3. CASE Return
  <2>1. TypeOK'
    BY <1>2, <1>3 DEF SubInv, TypeOK, Return
  <2>2. LoopInv'
    BY <1>1, <1>2, <1>3 DEF SubInv, LoopInv, NotBegun, Ordered, Reached, Emptied, Judged, Return
  <2> QED BY <1>2, <2>1, <2>2 DEF SubInv
<1>4. CASE \E n \in Nodes : Fail(n)
  <2>1. PICK n \in Nodes : Fail(n)
    BY <1>4
  <2>2. /\ n \in graph.nodes /\ queue # <<>> /\ Upstreams(graph, n) \subseteq outputs
        /\ executed' = executed \cup {n} /\ status' = "failed"
        /\ queue' = Tail(queue) /\ outputs' = outputs /\ asked' = asked
    BY <2>1 DEF Fail, AtHead, Ready, Marked
  <2>3. Tail(queue) \in Seq(Nodes)
    BY <2>2, HeadOfQueue
  <2>4. TypeOK'
    BY <1>1, <1>2, <2>2, <2>3 DEF SubInv, TypeOK
  <2>5. Ordered'
    BY <1>2, <2>2 DEF SubInv, LoopInv, Ordered
  <2>6. NotBegun' /\ Reached' /\ Emptied' /\ Judged'
    BY <2>2 DEF NotBegun, Reached, Emptied, Judged
  <2> QED BY <1>2, <2>4, <2>5, <2>6 DEF SubInv, LoopInv
<1> QED BY <1>3, <1>4

\* Every step of a call keeps the invariant.
LEMMA SubNext ==
    ASSUME SubInv, Next
    PROVE  SubInv'
<1> USE DEF Search
<1>0. SoundGraph(graph, Nodes) /\ SearchInv
  BY DEF SubInv
<1>1. ASSUME NEW n \in Nodes, Search(Enter(n)) PROVE SubInv'
  <2>1. SearchInv'
    BY <1>0, <1>1, EnterKeeps
  <2> QED BY <1>1, <2>1, SearchStepKeeps DEF Enter
<1>2. ASSUME NEW t \in Nodes, Search(Pass(t)) PROVE SubInv'
  <2>1. SearchInv'
    BY <1>0, <1>2, PassKeeps
  <2> QED BY <1>2, <2>1, SearchStepKeeps DEF Pass
<1>3. ASSUME NEW t \in Nodes, Search(Descend(t)) PROVE SubInv'
  <2>1. SearchInv'
    BY <1>0, <1>3, DescendKeeps
  <2> QED BY <1>3, <2>1, SearchStepKeeps DEF Descend, Unseen
<1>4. ASSUME Search(Leave) PROVE SubInv'
  <2>1. SearchInv'
    BY <1>0, <1>4, LeaveKeeps
  <2> QED BY <1>4, <2>1, SearchStepKeeps DEF Leave
<1>5. CASE Reject
  BY <1>5, RejectKeeps
<1>6. CASE Accept
  BY <1>6, AcceptKeeps
<1>7. CASE Discard \/ \E n \in Nodes : Postpone(n)
  BY <1>7, QueueKeeps
<1>8. ASSUME NEW n \in Nodes, PassThrough(n) \/ Execute(n) PROVE SubInv'
  BY <1>8, RunKeeps
<1>9. CASE Return \/ \E n \in Nodes : Fail(n)
  BY <1>9, EndKeeps
<1> HIDE DEF Search
<1> QED BY <1>1, <1>2, <1>3, <1>4, <1>5, <1>6, <1>7, <1>8, <1>9 DEF Next

\* What the invariant says of the properties.
LEMMA SubProperties ==
    ASSUME SubInv
    PROVE  CyclesRejected /\ RunsInOrder
<1>1. CyclesRejected
  BY DEF SubInv, LoopInv, Judged, CyclesRejected
<1>2. \A n \in executed : Upstreams(graph, n) \subseteq executed
  BY DEF SubInv, LoopInv, Ordered, TypeOK
<1>3. ASSUME status = "returned", NEW n \in graph.nodes \ executed
      PROVE  \E m \in Upstreams(graph, n) : m \notin executed \/ CanLeaveOut(m, n)
  <2>1. ToSet(queue) = {}
    BY <1>3 DEF SubInv, LoopInv, Emptied, ToSet
  <2> QED BY <1>3, <2>1 DEF SubInv, LoopInv, Reached
<1> QED BY <1>1, <1>2, <1>3 DEF RunsInOrder

-------------------------------------------------------------------------------
(* The call comes nearer to its end.                                         *)

\* A step of the search brings it nearer to its end.
LEMMA SearchComesNearer ==
    ASSUME SubInv, Next, status = "building"
    PROVE  SearchAdvances
<1> DEFINE Seen == visited \cup Visiting
<1>0. SoundGraph(graph, Nodes) /\ SearchInv /\ SearchTypes /\ Open
  BY DEF SubInv, SearchInv
<1>1. ASSUME NEW n \in Nodes, Search(Enter(n)) PROVE SearchAdvances
  <2>1. n \in graph.nodes \ visited
    BY <1>0, <1>1 DEF Search, Enter, Starts, SoundGraph
  <2>2. calls = <<>> /\ calls' = <<CallOf(n)>> /\ CallOf(n).node = n
    BY <1>1 DEF Search, Enter, CallOf
  <2>3. Visiting = {} /\ Visiting' = {n}
    BY <2>2 DEF Visiting
  <2>4. Seen' = Seen \cup {n} /\ n \in graph.nodes \ Seen
    BY <1>1, <2>1, <2>3 DEF Search, Enter
  <2> QED BY <1>1, <2>4 DEF Search, Enter, SearchAdvances
<1>2. ASSUME NEW t \in Nodes, LooksAt(t)
      PROVE  /\ Len(calls) \in Nat \ {0} /\ DOMAIN calls = 1..Len(calls)
             /\ LookedAt \in Seq(Frames) /\ Len(LookedAt) = Len(calls) /\ DOMAIN LookedAt = 1..Len(calls)
             /\ \A i \in 1..Len(calls) : LookedAt[i].node = calls[i].node
             /\ Len(Last(LookedAt).rest) < Len(Last(calls).rest)
  <2> DEFINE k == Len(calls)
             r == calls[k].rest
  <2>1. /\ k \in Nat \ {0} /\ DOMAIN calls = 1..k /\ LookedAt \in Seq(Frames) /\ Len(LookedAt) = k
        /\ \A i \in 1..k : calls[i] \in Frames /\ LookedAt[i].node = calls[i].node
    BY <1>0, <1>2, LookedAtEffect
  <2>2. DOMAIN LookedAt = 1..k
    BY <2>1, LenProperties
  <2>3. r \in Seq(Nodes) /\ r # <<>>
    BY <1>2, <2>1 DEF Frames, LooksAt, Last
  <2>4. LookedAt[k].rest = Tail(r)
    BY <2>1, <2>3 DEF LookedAt, Frames
  <2>5. Len(Tail(r)) < Len(r)
    <3> HIDE DEF r
    <3> QED BY <2>3, HeadTailProperties, LenProperties, EmptySeq
  <2> QED BY <2>1, <2>2, <2>4, <2>5 DEF Last
<1>3. ASSUME NEW t \in Nodes, Search(Pass(t)) PROVE SearchAdvances
  <2>1. LooksAt(t) /\ calls' = LookedAt /\ graph' = graph /\ visited' = visited /\ status' = status
    BY <1>3 DEF Search, Pass
  <2>2. Visiting' = Visiting
    BY <1>2, <2>1 DEF Visiting
  <2>3. Seen' = Seen /\ Len(calls') = Len(calls) /\ Len(Last(calls').rest) < Len(Last(calls).rest)
    BY <1>2, <2>1, <2>2
  <2> QED BY <2>1, <2>3 DEF SearchAdvances
<1>4. ASSUME NEW t \in Nodes, Search(Descend(t)) PROVE SearchAdvances
  <2>1. /\ LooksAt(t) /\ calls' = Append(LookedAt, CallOf(t)) /\ graph' = graph
        /\ visited' = visited /\ status' = status
        /\ t \in graph.nodes \ visited /\ t \notin Visiting
    BY <1>4 DEF Search, Descend, Unseen
  <2>2. CallOf(t) \in Frames /\ CallOf(t).node = t
    BY <1>0, <2>1, CallStarts
  <2>3. LookedAt \in Seq(Frames) /\ Len(LookedAt) = Len(calls) /\ Len(calls) \in Nat
    BY <1>2, <2>1
  <2>4. /\ Len(calls') = Len(calls) + 1 /\ DOMAIN calls' = 1..(Len(calls) + 1)
        /\ calls'[Len(calls) + 1] = CallOf(t)
        /\ \A i \in 1..Len(calls) : calls'[i] = LookedAt[i]
    <3> DEFINE s == Append(LookedAt, CallOf(t))
               e == CallOf(t)
    <3>1. /\ s \in Seq(Frames) /\ Len(s) = Len(calls) + 1 /\ s[Len(calls) + 1] = CallOf(t)
          /\ \A i \in 1..Len(calls) : s[i] = LookedAt[i]
      BY <2>2, <2>3, AppendProperties
    <3> HIDE DEF s
    <3>2. DOMAIN s = 1..(Len(calls) + 1)
      BY <3>1, LenProperties
    <3> QED BY <2>1, <3>1, <3>2 DEF s
  <2>5. Visiting' = Visiting \cup {t}
    <3>1. \A i \in 1..(Len(calls) + 1) : i = Len(calls) + 1 \/ i \in 1..Len(calls)
      BY <2>3
    <3>2. \A i \in 1..Len(calls) : i \in 1..(Len(calls) + 1) /\ calls'[i].node = calls[i].node
      BY <1>2, <2>1, <2>3, <2>4
    <3>3. Len(calls) + 1 \in 1..(Len(calls) + 1) /\ calls'[Len(calls) + 1].node = t
      BY <2>2, <2>3, <2>4
    <3>4. Visiting = {calls[i].node : i \in 1..Len(calls)}
      BY <1>2, <2>1 DEF Visiting
    <3>5. Visiting' = {calls'[i].node : i \in 1..(Len(calls) + 1)}
      BY <2>4 DEF Visiting
    <3> QED BY <3>1, <3>2, <3>3, <3>4, <3>5
  <2>6. t \in graph.nodes \ Seen /\ Seen' = Seen \cup {t}
    BY <2>1, <2>5
  <2> QED BY <2>1, <2>6 DEF SearchAdvances
<1>5. ASSUME Search(Leave) PROVE SearchAdvances
  <2> DEFINE k == Len(calls)
             s == SubSeq(calls, 1, k - 1)
  <2>1. /\ calls # <<>> /\ visited' = visited \cup {calls[k].node} /\ calls' = s
        /\ graph' = graph /\ status' = status
    BY <1>5 DEF Search, Leave, Last, Front
  <2>2. /\ k \in Nat \ {0} /\ DOMAIN calls = 1..k /\ \A i \in 1..k : calls[i] \in Frames
    BY <1>0, <2>1, LenProperties, ElementOfSeq, EmptySeq DEF SearchTypes
  <2>3. Len(s) = k - 1 /\ DOMAIN s = 1..(k - 1) /\ \A i \in 1..(k - 1) : s[i] = calls[i]
    <3> HIDE DEF k
    <3>1. \A i \in 1..(k - 1) : calls[i] \in Frames
      BY <2>2
    <3>2. calls \in Seq(Frames) /\ 1 \in Int /\ k - 1 \in Int
      BY <1>0, <2>2 DEF SearchTypes
    <3>3. /\ s \in Seq(Frames)
          /\ Len(s) = IF 1 <= k - 1 THEN (k - 1) - 1 + 1 ELSE 0
          /\ \A i \in 1..((k - 1) - 1 + 1) : s[i] = calls[1 + i - 1]
      BY <3>1, <3>2, SubSeqProperties
    <3> HIDE DEF s
    <3>4. Len(s) = k - 1
      BY <2>2, <3>3
    <3>5. \A i \in 1..(k - 1) : s[i] = calls[i]
      <4> TAKE i \in 1..(k - 1)
      <4>1. i \in 1..((k - 1) - 1 + 1) /\ 1 + i - 1 = i
        BY <2>2
      <4> QED BY <3>3, <4>1
    <3>6. DOMAIN s = 1..(k - 1)
      BY <3>3, <3>4, LenProperties
    <3> QED BY <3>4, <3>5, <3>6
  <2> HIDE DEF s, k
  <2>4. Visiting = {calls[i].node : i \in 1..k} /\ Visiting' = {calls[i].node : i \in 1..(k - 1)}
    BY <2>1, <2>2, <2>3 DEF Visiting
  <2>5. \A i \in 1..k : i = k \/ i \in 1..(k - 1)
    BY <2>2
  <2>6. k \in 1..k /\ 1..(k - 1) \subseteq 1..k
    BY <2>2
  <2>7. Seen' = Seen
    BY <2>1, <2>4, <2>5, <2>6
  <2>8. Len(calls') < Len(calls)
    BY <2>1, <2>2, <2>3 DEF k
  <2> QED BY <2>1, <2>7, <2>8 DEF SearchAdvances
<1>6. CASE Reject \/ Accept
  BY <1>6 DEF Reject, Accept, SearchAdvances
<1> QED
  BY <1>1, <1>3, <1>4, <1>5, <1>6 DEF Next, Discard, Postpone, PassThrough, Execute, Fail, Return, AtHead

\* When the head of a queue goes to its back, the first element that is not in P comes
\* a place nearer.
LEMMA Turned ==
    ASSUME NEW S, NEW q \in Seq(S), q # <<>>, NEW P, Head(q) \in P,
           \E i \in DOMAIN q : q[i] \notin P,
           NEW r, r = Append(Tail(q), Head(q))
    PROVE  /\ Len(r) = Len(q)
           /\ \E k \in DOMAIN q :
                /\ k + 1 \in DOMAIN q /\ q[k + 1] \notin P /\ \A j \in 1..k : q[j] \in P
                /\ k \in DOMAIN r /\ r[k] \notin P /\ \A j \in 1..(k - 1) : r[j] \in P
<1>1. /\ Len(q) \in Nat \ {0} /\ DOMAIN q = 1..Len(q)
      /\ Head(q) = q[1] /\ Head(q) \in S /\ Tail(q) \in Seq(S) /\ Len(Tail(q)) = Len(q) - 1
      /\ \A i \in 1..(Len(q) - 1) : Tail(q)[i] = q[i + 1]
  BY HeadTailProperties, LenProperties, EmptySeq
<1>2. /\ r \in Seq(S) /\ Len(r) = Len(q) /\ DOMAIN r = 1..Len(q)
      /\ \A i \in 1..(Len(q) - 1) : r[i] = q[i + 1]
  <2> DEFINE s == Tail(q)
             e == Head(q)
  <2>1. s \in Seq(S) /\ e \in S /\ Len(s) = Len(q) - 1
    BY <1>1
  <2> HIDE DEF s, e
  <2>2. /\ Append(s, e) \in Seq(S) /\ Len(Append(s, e)) = Len(s) + 1
        /\ \A i \in 1..Len(s) : Append(s, e)[i] = s[i]
    BY <2>1, AppendProperties
  <2>3. r = Append(s, e) /\ \A i \in 1..Len(s) : s[i] = q[i + 1]
    BY <1>1, <2>1 DEF s, e
  <2> QED BY <1>1, <2>1, <2>2, <2>3, LenProperties
<1> DEFINE T == {i \in 1..Len(q) : q[i] \notin P}
<1>3. PICK m \in T : \A i \in T : m <= i
  <2>1. T \subseteq Nat /\ T # {}
    BY <1>1
  <2> HIDE DEF T
  <2> QED BY <2>1, LeastElement
<1>4. m \in 1..Len(q) /\ q[m] \notin P /\ \A j \in 1..(m - 1) : q[j] \in P
  BY <1>1, <1>3
<1>5. m # 1
  BY <1>1, <1>4
<1> DEFINE k == m - 1
<1>6. k \in 1..Len(q) /\ k + 1 = m /\ k \in 1..(Len(q) - 1)
  BY <1>1, <1>4, <1>5
<1>7. \A j \in 1..(k - 1) : j + 1 \in 1..(m - 1) /\ j \in 1..(Len(q) - 1)
  BY <1>1, <1>4, <1>6
<1>8. r[k] = q[m] /\ \A j \in 1..(k - 1) : r[j] = q[j + 1]
  BY <1>2, <1>6, <1>7
<1> HIDE DEF k, T
<1>9. \A j \in 1..k : q[j] \in P
  BY <1>4, <1>6 DEF k
<1>10. \A j \in 1..(k - 1) : r[j] \in P
  BY <1>4, <1>7, <1>8
<1> QED BY <1>1, <1>2, <1>4, <1>6, <1>8, <1>9, <1>10

\* The nodes that are put back when they come to the head of the queue.
PutBack == {n \in graph.nodes \ executed : ~Ready(n)}

\* A node that nothing which has still to run leads to is in the queue and runs when its
\* turn comes, if no branch can be left out.
LEMMA OneIsReady ==
    ASSUME SubInv, status = "running", ~CanHang, queue # <<>>, Head(queue) \in PutBack
    PROVE  \E i \in DOMAIN queue : queue[i] \notin PutBack
<1> DEFINE S == graph.nodes \ executed
<1>1. S # {} /\ S \subseteq graph.nodes
  BY DEF PutBack
<1>2. Acyclic(graph)
  BY DEF SubInv, LoopInv, Judged
<1>3. PICK n \in S : Upstreams(graph, n) \cap S = {}
  <2> HIDE DEF S
  <2> QED BY <1>1, <1>2 DEF Acyclic
<1>4. Upstreams(graph, n) \subseteq executed
  BY <1>3 DEF Upstreams
<1>5. Ready(n)
  BY <1>4 DEF Ready, SubInv, LoopInv, Ordered
<1>6. n \in ToSet(queue)
  BY <1>3, <1>4 DEF SubInv, LoopInv, Reached, CanHang
<1> QED BY <1>5, <1>6 DEF ToSet, PutBack

\* A step of the loop brings it nearer to its end, if no branch can be left out.
LEMMA LoopComesNearer ==
    ASSUME SubInv, Next, status = "running", ~CanHang
    PROVE  LoopAdvances
<1>1. queue \in Seq(Nodes)
  BY DEF SubInv, TypeOK
<1>2. CASE Discard
  <2>1. Len(Tail(queue)) < Len(queue)
    BY <1>1, <1>2, HeadTailProperties, LenProperties, EmptySeq DEF Discard
  <2> QED BY <1>2, <2>1 DEF Discard, LoopAdvances
<1>3. ASSUME NEW n \in Nodes, Postpone(n) PROVE LoopAdvances
  <2>1. /\ queue # <<>> /\ Head(queue) \in PutBack
        /\ queue' = Append(Tail(queue), Head(queue))
        /\ UNCHANGED <<graph, status, executed, outputs>>
    BY <1>3 DEF Postpone, AtHead, PutBack
  <2>2. \E i \in DOMAIN queue : queue[i] \notin PutBack
    BY <2>1, OneIsReady
  <2>3. /\ Len(queue') = Len(queue)
        /\ \E k \in DOMAIN queue :
              /\ k + 1 \in DOMAIN queue /\ queue[k + 1] \notin PutBack
              /\ \A j \in 1..k : queue[j] \in PutBack
              /\ k \in DOMAIN queue' /\ queue'[k] \notin PutBack
              /\ \A j \in 1..(k - 1) : queue'[j] \in PutBack
    <3> DEFINE P == PutBack
    <3>1. Head(queue) \in P /\ \E i \in DOMAIN queue : queue[i] \notin P
      BY <2>1, <2>2
    <3> HIDE DEF P
    <3>2. /\ Len(queue') = Len(queue)
          /\ \E k \in DOMAIN queue :
                /\ k + 1 \in DOMAIN queue /\ queue[k + 1] \notin P
                /\ \A j \in 1..k : queue[j] \in P
                /\ k \in DOMAIN queue' /\ queue'[k] \notin P
                /\ \A j \in 1..(k - 1) : queue'[j] \in P
      BY <1>1, <2>1, <3>1, Turned
    <3> QED BY <3>2 DEF P
  <2>4. PutBack' = PutBack
    BY <2>1 DEF PutBack, Ready, Upstreams, Wired
  <2>5. PICK k \in DOMAIN queue :
            /\ k + 1 \in DOMAIN queue /\ queue[k + 1] \notin PutBack
            /\ \A j \in 1..k : queue[j] \in PutBack
            /\ k \in DOMAIN queue' /\ queue'[k] \notin PutBack'
            /\ \A j \in 1..(k - 1) : queue'[j] \in PutBack'
    BY <2>3, <2>4
  <2>6. k \in Nat
    BY <1>1, <2>5, LenProperties
  <2>7. Turn(k + 1)
    BY <2>5, <2>6 DEF Turn, PutBack
  <2>8. Turn(k)'
    BY <2>5 DEF Turn, PutBack
  <2> QED BY <2>1, <2>3, <2>7, <2>8 DEF LoopAdvances
<1>4. ASSUME NEW n \in Nodes, PassThrough(n) \/ Execute(n) PROVE LoopAdvances
  BY <1>4 DEF PassThrough, Execute, AtHead, Marked, LoopAdvances
<1>5. ASSUME Return \/ \E n \in Nodes : Fail(n) PROVE LoopAdvances
  BY <1>5 DEF Return, Fail, LoopAdvances
<1> QED
  BY <1>2, <1>3, <1>4, <1>5 DEF Next, Search, Reject, Accept
===============================================================================
