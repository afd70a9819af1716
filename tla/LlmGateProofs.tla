----------------------------- MODULE LlmGateProofs -----------------------------
(***************************************************************************)
(* Proofs about LlmGate for any number of calls, slots, and failures that  *)
(* open the breaker.                                                       *)
(***************************************************************************)
EXTENDS LlmGate, FiniteSetTheorems, SequenceTheorems, TLAPS

-------------------------------------------------------------------------------
(* Lemmas about queues.                                                      *)

\* Appending a new element keeps a queue free of duplicates.
LEMMA AppendNew ==
    ASSUME NEW S, NEW q \in Seq(S), NEW x \in S, IsInjective(q), x \notin ToSet(q)
    PROVE  /\ Append(q, x) \in Seq(S)
           /\ ToSet(Append(q, x)) = ToSet(q) \cup {x}
           /\ IsInjective(Append(q, x))
           /\ Append(q, x) # <<>>
<1>1. /\ Append(q, x) \in Seq(S) /\ Len(Append(q, x)) = Len(q) + 1
      /\ \A i \in 1..Len(q) : Append(q, x)[i] = q[i]
      /\ Append(q, x)[Len(q) + 1] = x
  BY AppendProperties
<1>2. Len(q) \in Nat /\ DOMAIN q = 1..Len(q) /\ DOMAIN Append(q, x) = 1..(Len(q) + 1)
  BY <1>1, LenProperties
<1>3. ToSet(Append(q, x)) = ToSet(q) \cup {x}
  BY <1>1, <1>2 DEF ToSet
<1>4. \A i \in 1..Len(q) : q[i] # x
  BY <1>2 DEF ToSet
<1>5. IsInjective(Append(q, x))
  BY <1>1, <1>2, <1>4 DEF IsInjective
<1>6. QED
  BY <1>1, <1>2, <1>3, <1>5, EmptySeq

\* Removing a place of a queue without duplicates removes its element.
LEMMA Removal ==
    ASSUME NEW S, NEW q \in Seq(S), IsInjective(q), NEW i \in 1..Len(q)
    PROVE  /\ RemoveAt(q, i) \in Seq(S)
           /\ ToSet(RemoveAt(q, i)) = ToSet(q) \ {q[i]}
           /\ IsInjective(RemoveAt(q, i))
           /\ Len(RemoveAt(q, i)) = Len(q) - 1
           /\ \A j \in 1..(Len(q) - 1) : RemoveAt(q, i)[j] = q[IF j < i THEN j ELSE j + 1]
<1> DEFINE r == RemoveAt(q, i)
           left == SubSeq(q, 1, i - 1)
           right == SubSeq(q, i + 1, Len(q))
           old(j) == IF j < i THEN j ELSE j + 1
<1>1. Len(q) \in Nat /\ DOMAIN q = 1..Len(q)
  BY LenProperties
<1>2. \A j \in 1..Len(q) : q[j] \in S
  BY ElementOfSeq
<1>3. /\ left \in Seq(S) /\ Len(left) = i - 1
      /\ \A j \in 1..(i - 1) : left[j] = q[j]
  <2>1. \A j \in 1..(i - 1) : q[j] \in S
    BY <1>1, <1>2
  <2>2. 1 \in Int /\ i - 1 \in Int
    BY <1>1
  <2>3. /\ left \in Seq(S)
        /\ Len(left) = IF 1 <= i - 1 THEN (i - 1) - 1 + 1 ELSE 0
        /\ \A j \in 1..((i - 1) - 1 + 1) : left[j] = q[1 + j - 1]
    BY <2>1, <2>2, SubSeqProperties
  <2> HIDE DEF left
  <2>4. QED
    BY <1>1, <2>3
<1>4. /\ right \in Seq(S) /\ Len(right) = Len(q) - i
      /\ \A j \in 1..(Len(q) - i) : right[j] = q[i + j]
  <2>1. \A j \in (i + 1)..Len(q) : q[j] \in S
    BY <1>1, <1>2
  <2>2. i + 1 \in Int /\ Len(q) \in Int
    BY <1>1
  <2>3. /\ right \in Seq(S)
        /\ Len(right) = IF i + 1 <= Len(q) THEN Len(q) - (i + 1) + 1 ELSE 0
        /\ \A j \in 1..(Len(q) - (i + 1) + 1) : right[j] = q[(i + 1) + j - 1]
    BY <2>1, <2>2, SubSeqProperties
  <2> HIDE DEF right
  <2>4. Len(right) = Len(q) - i
    BY <1>1, <2>3
  <2>5. ASSUME NEW j \in 1..(Len(q) - i)
        PROVE  right[j] = q[i + j]
    <3>1. j \in 1..(Len(q) - (i + 1) + 1) /\ (i + 1) + j - 1 = i + j
      BY <1>1
    <3>2. right[j] = q[(i + 1) + j - 1]
      BY <2>3, <3>1
    <3>3. QED
      BY <3>1, <3>2
  <2>6. QED
    BY <2>3, <2>4, <2>5
<1> HIDE DEF left, right
<1>5. r \in Seq(S) /\ Len(r) = Len(q) - 1 /\ DOMAIN r = 1..(Len(q) - 1)
  <2>1. left \o right \in Seq(S) /\ Len(left \o right) = Len(left) + Len(right)
    BY <1>3, <1>4, ConcatProperties
  <2>2. r = left \o right
    BY DEF RemoveAt, left, right
  <2> HIDE DEF r
  <2>3. r \in Seq(S)
    BY <2>1, <2>2
  <2>4. Len(r) = Len(q) - 1
    <3>1. Len(left) = i - 1 /\ Len(right) = Len(q) - i
      BY <1>3, <1>4
    <3>2. Len(r) = Len(left) + Len(right)
      BY <2>1, <2>2
    <3>3. QED
      BY <1>1, <3>1, <3>2
  <2>5. QED
    BY <2>3, <2>4, LenProperties
<1>6. \A j \in 1..(Len(q) - 1) : r[j] = q[old(j)]
  <2>1. \A j \in 1..(Len(left) + Len(right)) : (left \o right)[j] =
            IF j <= Len(left) THEN left[j] ELSE right[j - Len(left)]
    <3>1. \A u, v \in Seq(S) : \A j \in 1..(Len(u) + Len(v)) :
             (u \o v)[j] = IF j <= Len(u) THEN u[j] ELSE v[j - Len(u)]
      BY ConcatProperties
    <3>2. QED
      BY <1>3, <1>4, <3>1, Zenon
  <2>2. r = left \o right
    BY DEF RemoveAt, left, right
  <2>4. Len(left) = i - 1 /\ Len(right) = Len(q) - i
    BY <1>3, <1>4
  <2> HIDE DEF r
  <2>3. QED
    <3> TAKE j \in 1..(Len(q) - 1)
    <3>1. r[j] = IF j <= i - 1 THEN left[j] ELSE right[j - (i - 1)]
      BY <1>1, <2>1, <2>2, <2>4
    <3>2. CASE j <= i - 1
      BY <1>1, <1>3, <3>1, <3>2
    <3>3. CASE j > i - 1
      <4>1. j - (i - 1) \in 1..(Len(q) - i) /\ i + (j - (i - 1)) = j + 1
        BY <1>1, <3>3
      <4>2. r[j] = right[j - (i - 1)]
        BY <1>1, <3>1, <3>3
      <4>3. right[j - (i - 1)] = q[i + (j - (i - 1))]
        BY <1>4, <4>1
      <4>4. r[j] = q[j + 1]
        BY <4>1, <4>2, <4>3
      <4>5. QED
        BY <1>1, <3>3, <4>4
    <3>4. QED
      BY <1>1, <3>2, <3>3
<1>7. \A j, k \in 1..(Len(q) - 1) :
          /\ old(j) \in DOMAIN q /\ old(j) # i
          /\ old(j) = old(k) => j = k
  BY <1>1
<1>8. \A m \in DOMAIN q : m # i => \E j \in 1..(Len(q) - 1) : old(j) = m
  <2> TAKE m \in DOMAIN q
  <2>1. CASE m < i
    BY <1>1, <2>1
  <2>2. CASE m > i
    <3>1. m - 1 \in 1..(Len(q) - 1) /\ old(m - 1) = m
      BY <1>1, <2>2
    <3>2. QED
      BY <3>1
  <2>3. QED
    BY <1>1, <2>1, <2>2
<1> HIDE DEF r, old
<1>9. IsInjective(r)
  BY <1>5, <1>6, <1>7 DEF IsInjective
<1>10. ToSet(r) = ToSet(q) \ {q[i]}
  <2>1. ASSUME NEW x \in ToSet(r)
        PROVE  x \in ToSet(q) \ {q[i]}
    <3>1. PICK j \in 1..(Len(q) - 1) : x = q[old(j)]
      BY <1>5, <1>6, <2>1 DEF ToSet
    <3>2. QED
      BY <1>1, <1>7, <3>1 DEF ToSet, IsInjective
  <2>2. ASSUME NEW x \in ToSet(q), x # q[i]
        PROVE  x \in ToSet(r)
    <3>1. PICK m \in DOMAIN q : x = q[m]
      BY <2>2 DEF ToSet
    <3>2. PICK j \in 1..(Len(q) - 1) : old(j) = m
      BY <1>8, <2>2, <3>1
    <3>3. QED
      BY <1>5, <1>6, <3>1, <3>2 DEF ToSet
  <2>3. QED
    BY <2>1, <2>2
<1>11. QED
  BY <1>5, <1>6, <1>9, <1>10 DEF r, old

-------------------------------------------------------------------------------
(* The circuit breaker.                                                      *)

\* An open or half-open breaker has counted all its failures, and a half-open one
\* has let its one call through.
Counted ==
    /\ state \in {"closed", "open", "half-open"}
    /\ failures \in 0..Threshold /\ tries \in Nat
    /\ state # "closed" => failures = Threshold
    /\ state \in {"closed", "open"} => tries = 0
    /\ state = "half-open" => tries = 1

\* A half-open breaker is waiting for its probe.
Flagged ==
    /\ probing \in BOOLEAN /\ cooled \in BOOLEAN
    /\ state = "half-open" => probing = TRUE

LEMMA BreakerInvariant == Spec => [](Counted /\ Flagged)
<1>1. Init => Counted /\ Flagged
  <2>1. Init => Counted
    BY GateConstants DEF Init, Counted
  <2>2. Init => Flagged
    BY Zenon DEF Init, Flagged
  <2>3. QED
    BY <2>1, <2>2
<1>2. Counted /\ Flagged /\ [Next]_vars => (Counted /\ Flagged)'
  <2> SUFFICES ASSUME Counted, Flagged, [Next]_vars PROVE Counted' /\ Flagged'
    OBVIOUS
  <2>1. CASE UNCHANGED breaker
    BY <2>1 DEF breaker, Counted, Flagged
  <2>2. ASSUME NEW c \in Calls, Begin(c) PROVE Counted' /\ Flagged'
    <3>1. \/ UNCHANGED breaker
          \/ /\ state = "open" /\ state' = "half-open" /\ probing' = TRUE
             /\ tries' = tries + 1
             /\ UNCHANGED <<failures, cooled>>
      BY <2>2, Zenon DEF Begin, CanAttempt, ProbeAllowed, Flagged
    <3>2. CASE UNCHANGED breaker
      BY <2>1, <3>2
    <3>3. ASSUME state = "open", state' = "half-open", probing' = TRUE,
                 tries' = tries + 1, UNCHANGED <<failures, cooled>>
          PROVE  Counted' /\ Flagged'
      <4>1. Counted'
        BY <3>3, GateConstants DEF Counted
      <4>2. Flagged'
        BY <3>3, Zenon DEF Flagged
      <4>3. QED
        BY <4>1, <4>2
    <3>4. QED
      BY <3>1, <3>2, <3>3
  <2>3. ASSUME RecordFailure PROVE Counted' /\ Flagged'
    <3>1. Counted'
      BY <2>3, GateConstants DEF RecordFailure, Counted
    <3>2. state' # "half-open"
      BY <2>3, GateConstants DEF RecordFailure, Counted
    <3>3. Flagged'
      BY <2>3, <3>2, Zenon DEF RecordFailure, Flagged
    <3>4. QED
      BY <3>1, <3>3
  <2>4. ASSUME RecordSuccess PROVE Counted' /\ Flagged'
    <3>1. Counted'
      BY <2>4, GateConstants DEF RecordSuccess, Counted
    <3>2. Flagged'
      BY <2>4 DEF RecordSuccess, Flagged
    <3>3. QED
      BY <3>1, <3>2
  <2>5. CASE Cool
    BY <2>5 DEF Cool, Counted, Flagged
  <2>6. CASE \E c \in Calls : Refuse(c)
    BY <2>1, <2>6 DEF Refuse, vars, breaker
  <2>7. CASE UNCHANGED vars
    BY <2>1, <2>7 DEF vars, breaker
  <2>8. QED
    BY <2>1, <2>2, <2>3, <2>4, <2>5, <2>6, <2>7
       DEF Next, LeaveQueue, ServerFails, Rejected, Responds, Finish
<1>3. QED
  BY <1>1, <1>2, PTL DEF Spec

\* A breaker that has opened lets one call through until an outcome is recorded,
\* whatever late outcomes of earlier calls arrive.
THEOREM SingleProbe == Spec => []OneProbe
<1>1. Counted /\ Flagged => OneProbe
  BY DEF Counted, OneProbe
<1>2. QED
  BY <1>1, BreakerInvariant, PTL

-------------------------------------------------------------------------------
(* The semaphore.                                                            *)

CallStages == {"idle", "queued", "fetching", "reading"}

Semaphore ==
    /\ stage \in [Calls -> CallStages]
    /\ active \in 0..Slots
    /\ queue \in Seq(Calls)
    /\ SlotsHeld

Waiting == {c \in Calls : stage[c] = "queued"}

\* The holders are a finite set.
LEMMA FewHolders == IsFiniteSet(Holders)
<1>1. Holders \in SUBSET Calls
  BY DEF Holders
<1>2. QED
  BY <1>1, FS_Subset, GateConstants DEF GateConstants

\* An idle call that gets a free slot.
LEMMA SlotTaken ==
    ASSUME Semaphore, NEW c \in Calls, stage[c] = "idle", active < Slots,
           active' = active + 1, stage' = [stage EXCEPT ![c] = "fetching"],
           UNCHANGED queue
    PROVE  Semaphore'
<1>1. stage' \in [Calls -> CallStages] /\ queue' \in Seq(Calls)
  BY DEF Semaphore, CallStages
<1>2. Holders' = Holders \cup {c} /\ c \notin Holders /\ Waiting' = Waiting
  BY DEF Semaphore, Holders, Waiting
<1>3. Cardinality(Holders') = Cardinality(Holders) + 1
  BY <1>2, FewHolders, FS_AddElement
<1>4. active' \in 0..Slots
  BY GateConstants DEF Semaphore
<1>5. queue = <<>>
  BY GateConstants DEF Semaphore, SlotsHeld
<1>6. SlotsHeld'
  BY <1>2, <1>3, <1>5 DEF Semaphore, SlotsHeld, Waiting
<1>7. QED
  BY <1>1, <1>4, <1>6 DEF Semaphore

\* An idle call that is queued.
LEMMA SlotAwaited ==
    ASSUME Semaphore, NEW c \in Calls, stage[c] = "idle", active >= Slots,
           queue' = Append(queue, c), stage' = [stage EXCEPT ![c] = "queued"],
           UNCHANGED active
    PROVE  Semaphore'
<1>1. c \notin ToSet(queue)
  BY DEF Semaphore, SlotsHeld
<1>2. /\ queue' \in Seq(Calls) /\ ToSet(queue') = ToSet(queue) \cup {c}
      /\ IsInjective(queue')
  BY <1>1, AppendNew DEF Semaphore, SlotsHeld
<1>3. Waiting' = Waiting \cup {c} /\ Holders' = Holders
  BY DEF Semaphore, Waiting, Holders
<1>4. active' = Slots
  BY GateConstants DEF Semaphore
<1>5. ToSet(queue') = Waiting'
  BY <1>2, <1>3 DEF Semaphore, SlotsHeld, Waiting
<1>6. SlotsHeld'
  BY <1>2, <1>3, <1>4, <1>5 DEF Semaphore, SlotsHeld, Waiting
<1>7. stage' \in [Calls -> CallStages] /\ active' \in 0..Slots
  BY DEF Semaphore, CallStages
<1>8. QED
  BY <1>2, <1>6, <1>7 DEF Semaphore

\* A queued call that gives up.
LEMMA PlaceGivenUp ==
    ASSUME Semaphore, NEW c \in Calls, LeaveQueue(c)
    PROVE  Semaphore'
<1>1. PICK i \in 1..Len(queue) : queue[i] = c /\ queue' = RemoveAt(queue, i)
  BY DEF LeaveQueue
<1>2. /\ queue' \in Seq(Calls) /\ ToSet(queue') = ToSet(queue) \ {c}
      /\ IsInjective(queue')
  BY <1>1, Removal DEF Semaphore, SlotsHeld
<1>3. Waiting' = Waiting \ {c} /\ Holders' = Holders
  BY DEF Semaphore, Waiting, Holders, LeaveQueue
<1>4. queue # <<>>
  BY <1>1 DEF Semaphore
<1>5. active' = active /\ active = Slots
  BY <1>4 DEF LeaveQueue, Semaphore, SlotsHeld
<1>6. ToSet(queue') = Waiting'
  BY <1>2, <1>3 DEF Semaphore, SlotsHeld, Waiting
<1>7. SlotsHeld'
  BY <1>2, <1>3, <1>5, <1>6 DEF Semaphore, SlotsHeld, Waiting
<1>8. stage' \in [Calls -> CallStages] /\ active' \in 0..Slots
  BY <1>5 DEF Semaphore, CallStages, LeaveQueue
<1>9. QED
  BY <1>2, <1>7, <1>8 DEF Semaphore

\* The head of the queue is a waiting call.
LEMMA HeadWaits ==
    ASSUME Semaphore, queue # <<>>
    PROVE  /\ 1 \in 1..Len(queue) /\ queue[1] \in Calls
           /\ stage[queue[1]] = "queued" /\ queue[1] = Head(queue)
<1>1. Len(queue) \in Nat \ {0} /\ DOMAIN queue = 1..Len(queue)
  BY EmptySeq, LenProperties DEF Semaphore
<1>2. queue[1] \in ToSet(queue)
  BY <1>1 DEF ToSet
<1>3. queue[1] = Head(queue)
  BY HeadTailProperties DEF Semaphore
<1>4. QED
  BY <1>1, <1>2, <1>3 DEF Semaphore, SlotsHeld

\* A slot that is given back, and handed on if somebody waits.
LEMMA SlotReleased ==
    ASSUME Semaphore, NEW c \in Holders, Release(c)
    PROVE  Semaphore'
<1>1. c \in Calls /\ stage[c] \in {"fetching", "reading"}
  BY DEF Holders
<1>2. /\ Cardinality(Holders) \in Nat
      /\ Cardinality(Holders \ {c}) = Cardinality(Holders) - 1
      /\ IsFiniteSet(Holders \ {c})
  BY FewHolders, FS_CardinalityType, FS_RemoveElement
<1>3. active \in 1..Slots
  <2>1. Cardinality(Holders) # 0
    BY FewHolders, FS_EmptySet
  <2>2. QED
    BY <1>2, <2>1, GateConstants DEF Semaphore, SlotsHeld
<1>4. CASE queue = <<>>
  <2>1. Granted = <<>> /\ Len(Granted) = 0
    BY <1>4 DEF Granted
  <2>2. /\ active' = active - 1 /\ queue' = queue
        /\ stage' = [stage EXCEPT ![c] = "idle"]
    BY <1>3, <2>1 DEF Release, ActiveAfter
  <2>3. Holders' = Holders \ {c} /\ Waiting' = Waiting
    BY <1>1, <2>2 DEF Semaphore, Holders, Waiting
  <2>4. active' = Cardinality(Holders')
    BY <1>2, <2>2, <2>3 DEF Semaphore, SlotsHeld
  <2>5. SlotsHeld'
    BY <1>4, <2>2, <2>3, <2>4 DEF Semaphore, SlotsHeld, Waiting
  <2>6. stage' \in [Calls -> CallStages] /\ active' \in 0..Slots
    <3>1. stage' \in [Calls -> CallStages]
      BY <2>2 DEF Semaphore, CallStages
    <3>2. active' \in 0..Slots
      BY <1>3, <2>2, GateConstants
    <3>3. QED
      BY <3>1, <3>2
  <2>7. QED
    BY <2>2, <2>5, <2>6 DEF Semaphore
<1>5. CASE queue # <<>>
  <2> DEFINE d == queue[1]
  <2>1. 1 \in 1..Len(queue) /\ d \in Calls /\ stage[d] = "queued" /\ d # c
    BY <1>1, <1>5, HeadWaits
  <2>2. Granted = <<1>> /\ Granted # <<>> /\ Len(Granted) = 1 /\ Granted[1] = 1
    BY <1>5 DEF Granted
  <2>3. /\ active' = active /\ queue' = RemoveAt(queue, 1)
        /\ stage' = [stage EXCEPT ![c] = "idle", ![d] = "fetching"]
    BY <1>3, <2>2 DEF Release, ActiveAfter
  <2>4. /\ queue' \in Seq(Calls) /\ ToSet(queue') = ToSet(queue) \ {d}
        /\ IsInjective(queue')
    BY <2>1, <2>3, Removal DEF Semaphore, SlotsHeld
  <2> HIDE DEF d
  <2>5. /\ Holders' = (Holders \ {c}) \cup {d} /\ d \notin Holders \ {c}
        /\ Waiting' = Waiting \ {d}
    BY <1>1, <2>1, <2>3 DEF Semaphore, Holders, Waiting
  <2>6. Cardinality(Holders') = Cardinality(Holders \ {c}) + 1
    BY <1>2, <2>5, FS_AddElement
  <2>7. active' = Cardinality(Holders')
    BY <1>2, <2>3, <2>6 DEF Semaphore, SlotsHeld
  <2>8. ToSet(queue') = Waiting'
    BY <2>4, <2>5 DEF Semaphore, SlotsHeld, Waiting
  <2>9. active' = Slots
    BY <1>5, <2>3 DEF Semaphore, SlotsHeld
  <2>10. SlotsHeld'
    BY <2>4, <2>7, <2>8, <2>9 DEF SlotsHeld, Waiting
  <2>11. stage' \in [Calls -> CallStages] /\ active' \in 0..Slots
    BY <2>1, <2>3 DEF Semaphore, CallStages
  <2>12. QED
    BY <2>4, <2>10, <2>11 DEF Semaphore
<1>6. QED
  BY <1>4, <1>5

LEMMA SemaphoreInvariant == Spec => []Semaphore
<1>1. Init => Semaphore
  <2> SUFFICES ASSUME Init PROVE Semaphore
    OBVIOUS
  <2>1. Holders = {} /\ Waiting = {}
    BY DEF Init, Holders, Waiting
  <2>2. ToSet(queue) = {} /\ IsInjective(queue) /\ queue \in Seq(Calls)
    BY EmptySeq DEF Init, ToSet, IsInjective
  <2>3. Cardinality(Holders) = 0
    BY <2>1, FS_EmptySet
  <2>4. SlotsHeld
    BY <2>1, <2>2, <2>3 DEF Init, SlotsHeld, Waiting
  <2>5. QED
    BY <2>2, <2>4, GateConstants DEF Init, Semaphore, CallStages
<1>2. Semaphore /\ [Next]_vars => Semaphore'
  <2> SUFFICES ASSUME Semaphore, [Next]_vars PROVE Semaphore'
    OBVIOUS
  <2>1. CASE UNCHANGED semaphore
    BY <2>1 DEF semaphore, Semaphore, SlotsHeld, Holders
  <2>2. ASSUME NEW c \in Calls, Begin(c) PROVE Semaphore'
    BY <2>1, <2>2, SlotTaken, SlotAwaited DEF Begin, Acquire
  <2>3. ASSUME NEW c \in Calls, LeaveQueue(c) PROVE Semaphore'
    BY <2>3, PlaceGivenUp
  <2>4. ASSUME NEW c \in Calls, ServerFails(c) \/ Rejected(c) \/ Finish(c)
        PROVE  Semaphore'
    <3>1. c \in Holders /\ Release(c)
      BY <2>4 DEF ServerFails, Rejected, Finish, Holders
    <3>2. QED
      BY <3>1, SlotReleased
  <2>5. ASSUME NEW c \in Calls, Responds(c) PROVE Semaphore'
    <3>1. /\ stage' \in [Calls -> CallStages]
          /\ Holders' = Holders /\ Waiting' = Waiting
      BY <2>5 DEF Responds, Semaphore, CallStages, Holders, Waiting
    <3>2. UNCHANGED <<active, queue>>
      BY <2>5 DEF Responds
    <3>3. QED
      BY <3>1, <3>2 DEF Semaphore, SlotsHeld, Waiting
  <2>6. CASE Cool \/ (\E c \in Calls : Refuse(c)) \/ UNCHANGED vars
    BY <2>1, <2>6 DEF Cool, Refuse, vars, semaphore
  <2>7. QED
    BY <2>2, <2>3, <2>4, <2>5, <2>6 DEF Next
<1>3. QED
  BY <1>1, <1>2, PTL DEF Spec

\* The state is well formed, for any number of calls and slots.
THEOREM TypeCorrect == Spec => []TypeOK
<1>1. Semaphore /\ Counted /\ Flagged => TypeOK
  BY DEF Semaphore, CallStages, Counted, Flagged, TypeOK
<1>2. QED
  BY <1>1, SemaphoreInvariant, BreakerInvariant, PTL

\* Slots are neither leaked nor given twice, and nobody waits beside a free one.
THEOREM SlotsConserved == Spec => []SlotsHeld
<1>1. Semaphore => SlotsHeld
  BY DEF Semaphore
<1>2. QED
  BY <1>1, SemaphoreInvariant, PTL

\* Slots go to those who have waited longest.
THEOREM NobodyOvertakes == Spec => FirstComeFirstServed
<1> DEFINE Fair == \A c \in Calls : c \in Holders' \ Holders => queue = <<>> \/ c = Head(queue)
<1>1. Semaphore /\ [Next]_vars => [Fair]_vars
  <2> SUFFICES ASSUME Semaphore, Next, NEW b \in Calls, b \in Holders' \ Holders
               PROVE  queue = <<>> \/ b = Head(queue)
    OBVIOUS
  <2>1. stage' # stage
    BY DEF Holders
  <2>2. ASSUME NEW c \in Calls, Begin(c) PROVE queue = <<>> \/ b = Head(queue)
    <3>1. CASE active < Slots
      BY <3>1, GateConstants DEF Semaphore, SlotsHeld
    <3>2. CASE stage' = [stage EXCEPT ![c] = "queued"]
      BY <3>2 DEF Holders, Semaphore
    <3>3. QED
      BY <2>1, <2>2, <3>1, <3>2 DEF Begin, Acquire, semaphore
  <2>3. ASSUME NEW c \in Calls, LeaveQueue(c) PROVE FALSE
    BY <2>3 DEF LeaveQueue, Holders, Semaphore
  <2>4. ASSUME NEW c \in Calls, ServerFails(c) \/ Rejected(c) \/ Finish(c), queue # <<>>
        PROVE  b = Head(queue)
    <3>1. Granted = <<1>> /\ Granted # <<>> /\ Granted[1] = 1
      BY <2>4 DEF Granted
    <3>2. stage' = [stage EXCEPT ![c] = "idle", ![queue[1]] = "fetching"]
      BY <2>4, <3>1 DEF ServerFails, Rejected, Finish, Release
    <3>3. b = queue[1]
      BY <3>2 DEF Holders, Semaphore
    <3>4. QED
      BY <2>4, <3>3, HeadWaits
  <2>5. ASSUME NEW c \in Calls, Responds(c) PROVE FALSE
    BY <2>5 DEF Responds, Holders, Semaphore
  <2>6. ~Cool /\ \A c \in Calls : ~Refuse(c)
    BY <2>1 DEF Cool, Refuse, semaphore, vars
  <2>7. QED
    BY <2>2, <2>3, <2>4, <2>5, <2>6 DEF Next
<1>2. QED
  BY <1>1, SemaphoreInvariant, PTL DEF Spec, FirstComeFirstServed

-------------------------------------------------------------------------------
(* The gate implements a fair semaphore.                                     *)

\* Without its first element a queue is its tail.
LEMMA FirstRemoved ==
    ASSUME NEW S, NEW q \in Seq(S), IsInjective(q), q # <<>>
    PROVE  RemoveAt(q, 1) = Tail(q)
<1> DEFINE r == RemoveAt(q, 1)
<1>1. /\ Len(q) \in Nat \ {0} /\ Tail(q) \in Seq(S) /\ Len(Tail(q)) = Len(q) - 1
      /\ \A j \in 1..(Len(q) - 1) : Tail(q)[j] = q[j + 1]
  BY EmptySeq, LenProperties, HeadTailProperties
<1>2. 1 \in 1..Len(q)
  BY <1>1
<1>3. /\ r \in Seq(S) /\ Len(r) = Len(q) - 1
      /\ \A j \in 1..(Len(q) - 1) : r[j] = q[IF j < 1 THEN j ELSE j + 1]
  BY <1>2, Removal
<1> HIDE DEF r
<1>4. \A j \in 1..(Len(q) - 1) : r[j] = Tail(q)[j]
  BY <1>1, <1>3
<1>5. r = Tail(q)
  BY <1>1, <1>3, <1>4, SeqEqual
<1> QED BY <1>5 DEF r

\* The line of the semaphore and those outside.
LEMMA GateLine ==
    ASSUME Semaphore
    PROVE  /\ Gate!Outside = {c \in Calls : stage[c] = "idle"}
           /\ Gate!Cardinality(Holders) = Cardinality(Holders)
           /\ DOMAIN queue = 1..Len(queue)
<1>1. ToSet(queue) = {c \in Calls : stage[c] = "queued"}
  BY DEF Semaphore, SlotsHeld
<1>2. Gate!ToSet(queue) = ToSet(queue)
  BY DEF Gate!ToSet, ToSet
<1>3. Gate!Outside = {c \in Calls : stage[c] = "idle"}
  BY <1>1, <1>2 DEF Gate!Outside, Holders, Semaphore, CallStages
<1>4. DOMAIN queue = 1..Len(queue)
  BY LenProperties DEF Semaphore
<1>5. Gate!Cardinality(Holders) = Cardinality(Holders)
  BY DEF Gate!Cardinality, Cardinality
<1> QED BY <1>3, <1>4, <1>5

\* A call that goes for its slot takes one, joins the line, or is not let in.
LEMMA BeginIsTakeOrJoin ==
    ASSUME Semaphore, NEW c \in Calls, Begin(c)
    PROVE  Gate!Take(c) \/ Gate!Join(c) \/ UNCHANGED Gate!semVars
<1>1. /\ stage[c] = "idle" /\ Acquire(c) /\ c \in Gate!Outside
      /\ Gate!Cardinality(Holders) = Cardinality(Holders)
  BY GateLine DEF Begin
<1>2. CASE active < Slots /\ stage' = [stage EXCEPT ![c] = "fetching"] /\ queue' = queue
  <2>1. queue = <<>> /\ Cardinality(Holders) < Slots
    BY <1>2, GateConstants DEF Semaphore, SlotsHeld
  <2>2. Holders' = Holders \cup {c}
    BY <1>1, <1>2 DEF Semaphore, Holders
  <2> QED BY <1>1, <1>2, <2>1, <2>2 DEF Gate!Take
<1>3. CASE active >= Slots /\ stage' = [stage EXCEPT ![c] = "queued"] /\ queue' = Append(queue, c)
  <2>1. Cardinality(Holders) = Slots
    BY <1>3, GateConstants DEF Semaphore, SlotsHeld
  <2>2. Holders' = Holders
    BY <1>1, <1>3 DEF Semaphore, Holders
  <2> QED BY <1>1, <1>3, <2>1, <2>2 DEF Gate!Join
<1>4. CASE UNCHANGED semaphore
  BY <1>4 DEF semaphore, Holders, Gate!semVars
<1> QED BY <1>1, <1>2, <1>3, <1>4 DEF Acquire

\* A time-out or an abort in the queue.
LEMMA LeaveIsLeave ==
    ASSUME Semaphore, NEW c \in Calls, LeaveQueue(c)
    PROVE  \E i \in DOMAIN queue : Gate!LeaveLine(i)
<1>1. PICK i \in 1..Len(queue) : queue[i] = c /\ queue' = RemoveAt(queue, i)
  BY DEF LeaveQueue
<1>2. i \in DOMAIN queue /\ Holders' = Holders
  BY <1>1, GateLine DEF LeaveQueue, Semaphore, Holders
<1> QED BY <1>1, <1>2 DEF Gate!LeaveLine, Gate!RemoveAt, RemoveAt

\* A release, whichever path of a call leads to it.
LEMMA ReleaseIsGiveBackOrHandOver ==
    ASSUME Semaphore, NEW c \in Holders, Release(c)
    PROVE  Gate!GiveBack(c) \/ Gate!HandOver(c)
<1>1. c \in Calls /\ stage[c] \in {"fetching", "reading"}
  BY DEF Holders
<1>2. CASE queue = <<>>
  <2>1. Granted = <<>>
    BY <1>2 DEF Granted
  <2>2. queue' = queue /\ stage' = [stage EXCEPT ![c] = "idle"]
    BY <2>1 DEF Release
  <2>3. Holders' = Holders \ {c}
    BY <1>1, <2>2 DEF Semaphore, Holders
  <2> QED BY <1>2, <2>2, <2>3 DEF Gate!GiveBack
<1>3. CASE queue # <<>>
  <2>1. queue[1] \in Calls /\ stage[queue[1]] = "queued" /\ queue[1] = Head(queue)
    BY <1>3, HeadWaits
  <2>2. Granted = <<1>> /\ Granted # <<>> /\ Granted[1] = 1
    BY <1>3 DEF Granted
  <2>3. queue' = RemoveAt(queue, 1) /\ stage' = [stage EXCEPT ![c] = "idle", ![queue[1]] = "fetching"]
    BY <2>2 DEF Release
  <2>4. queue' = Tail(queue)
    BY <1>3, <2>3, FirstRemoved DEF Semaphore, SlotsHeld
  <2>5. Holders' = (Holders \ {c}) \cup {Head(queue)}
    BY <1>1, <2>1, <2>3 DEF Semaphore, Holders
  <2> QED BY <1>3, <2>4, <2>5 DEF Gate!HandOver
<1> QED BY <1>2, <1>3

\* Whatever becomes of the calls, the counter, the queue and the releases on every
\* path of a call make up a fair counting semaphore.
THEOREM GateIsFairSemaphore == Spec => ImplementsSemaphore
<1>1. Init => Gate!SemInit
  BY DEF Init, Gate!SemInit, Holders
<1>2. Semaphore /\ [Next]_vars => [Gate!SemNext]_(Gate!semVars)
  <2> SUFFICES ASSUME Semaphore, [Next]_vars
               PROVE  Gate!SemNext \/ UNCHANGED Gate!semVars
    OBVIOUS
  <2>1. ASSUME NEW c \in Calls, Begin(c) PROVE Gate!SemNext \/ UNCHANGED Gate!semVars
    BY <2>1, BeginIsTakeOrJoin DEF Gate!SemNext
  <2>2. ASSUME NEW c \in Calls, LeaveQueue(c) PROVE Gate!SemNext
    BY <2>2, LeaveIsLeave DEF Gate!SemNext
  <2>3. ASSUME NEW c \in Calls, ServerFails(c) \/ Rejected(c) \/ Finish(c)
        PROVE  Gate!SemNext
    <3>1. c \in Holders /\ Release(c)
      BY <2>3 DEF ServerFails, Rejected, Finish, Holders
    <3> QED BY <3>1, ReleaseIsGiveBackOrHandOver DEF Gate!SemNext
  <2>4. ASSUME NEW c \in Calls, Responds(c) PROVE UNCHANGED Gate!semVars
    <3>1. Holders' = Holders /\ queue' = queue
      BY <2>4 DEF Responds, Semaphore, Holders
    <3> QED BY <3>1 DEF Gate!semVars
  <2>5. CASE Cool \/ (\E c \in Calls : Refuse(c)) \/ UNCHANGED vars
    BY <2>5 DEF Cool, Refuse, vars, semaphore, Holders, Gate!semVars
  <2> QED BY <2>1, <2>2, <2>3, <2>4, <2>5 DEF Next
<1> QED BY <1>1, <1>2, SemaphoreInvariant, PTL DEF Spec, ImplementsSemaphore, Gate!SemSpec
===============================================================================
