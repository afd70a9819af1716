--------------------------- MODULE PodManagerProofs ---------------------------
(***************************************************************************)
(* Proofs about PodManager for any number of pods, users, calls, handlers  *)
(* in progress, warm pods and attempts.                                    *)
(***************************************************************************)
EXTENDS PodManager, FiniteSetTheorems, TLAPS

USE PodConstants

-------------------------------------------------------------------------------
(* The inductive invariant.                                                  *)

AtDemand == Answers \cup {"create", "boot", "load"}

CallsInv ==
    /\ \A c \in Calls : stage[c] # "idle" => user[c] \in Users
    /\ \A c \in Calls : demand[c] => stage[c] \in AtDemand

\* The advisory lock.
Exclusive == \A c, d \in Calls :
    stage[c] \in Locked /\ stage[d] \in Locked /\ user[c] = user[d] => c = d

\* What the row of a pod says of its owner.
RowInv == \A p \in Pods :
    /\ row[p] = "warm" => owner[p] = None /\ p \notin served
    /\ row[p] = "assigned" => owner[p] # None
    /\ row[p] = "none" => owner[p] = None
    /\ maker[p] # "none" => /\ owner[p] = None /\ p \notin served
                            /\ row[p] \notin {"none", "warm"}
    /\ p \in served => Exists(p)

\* What a call knows of the pod p it is at work on in stage s for user u: it is the
\* user's if its row is there still, and not assigned before it runs.
OfUser(s, u, p) ==
    /\ p \in Pods /\ maker[p] = "none" /\ row[p] # "warm"
    /\ row[p] # "none" => owner[p] = u
    /\ s \in {"create", "boot"} => row[p] \notin {"none", "assigned"}

AtInv == \A c \in Calls : stage[c] \in AtPod => OfUser(stage[c], user[c], target[c])

\* While a call holds the lock of its user, the user has no other assigned pod.
HoldInv == \A c \in Calls, q \in Pods :
    stage[c] \in Locked /\ row[q] = "assigned" /\ owner[q] = user[c]
      => stage[c] \in AtPod /\ q = target[c]

\* An assigned pod without flows has a call that will see to it, or had one.
LoadInv == \A p \in Pods :
    row[p] = "assigned" /\ Exists(p) /\ p \notin served =>
      \/ p \in cutOff
      \/ \E c \in Calls : target[c] = p /\ stage[c] \in Answers \cup {"load"}

\* What reconcile knows of a pod that nobody changed.
Told(p) ==
    /\ scan = "listing" => /\ seen[p] = "live" <=> row[p] \in Live
                           /\ seen[p] = "draining" <=> row[p] = "draining"
    /\ scan = "working" =>
         /\ todo[p] = "none" => Agree(p)
         /\ todo[p] = "mark" => ~Exists(p)
         /\ todo[p] = "remove" => row[p] \in {"none", "terminated"}
         /\ todo[p] \in Answers \cup {"retry"} => row[p] = "draining"
         /\ todo[p] = "gone" => ~Exists(p)

ScanInv == \A p \in Pods : p \in touched \/ Told(p)

PodInv ==
    /\ TypeOK /\ OnDemandCounted /\ CallsInv /\ Exclusive
    /\ RowInv /\ AtInv /\ OneEditor /\ HoldInv /\ LoadInv /\ ScanInv

-------------------------------------------------------------------------------
(* What the parts of a call's step do, pointwise.                            *)

\* Call c comes to stage s, for user u and at pod p; other calls stay.
Moves(c, s, u, p) ==
    /\ stage'[c] = s /\ user'[c] = u /\ target'[c] = p
    /\ \A d \in Calls \ {c} :
         stage'[d] = stage[d] /\ user'[d] = user[d] /\ target'[d] = target[d]

\* The row of p gets status s and owner o; other rows stay.
Writes(p, s, o) ==
    /\ row' \in [Pods -> Statuses] /\ owner' \in [Pods -> Users \cup {None}]
    /\ row'[p] = s /\ owner'[p] = o
    /\ \A q \in Pods \ {p} : row'[q] = row[q] /\ owner'[q] = owner[q]

\* The variables of assignPod, typed and counted.
AssigningOK ==
    /\ stage \in [Calls -> Stages]
    /\ user \in [Calls -> Users \cup {None}]
    /\ target \in [Calls -> Pods \cup {None}]
    /\ tries \in [Calls -> 0..MaxTries]
    /\ demand \in [Calls -> BOOLEAN] /\ onDemand \in 0..MaxOnDemand
    /\ OnDemandCounted

\* The other variables.
OthersOK ==
    /\ row \in [Pods -> Statuses]
    /\ owner \in [Pods -> Users \cup {None}]
    /\ pod \in [Pods -> {"none", "up", "gone"}]
    /\ served \in SUBSET Pods
    /\ maker \in [Pods -> Makers] /\ wanted \in Nat
    /\ killer \in [Pods -> Killers]
    /\ ready \in BOOLEAN
    /\ scan \in {"off", "listing", "working"}
    /\ seen \in [Pods -> {"no", "live", "draining"}]
    /\ todo \in [Pods -> Todos]
    /\ touched \in SUBSET Pods /\ cutOff \in SUBSET Pods

LEMMA TypeParts == TypeOK /\ OnDemandCounted <=> AssigningOK /\ OthersOK
BY DEF TypeOK, AssigningOK, OthersOK

\* The calls inside createAndAssignPod are finitely many.
LEMMA DemandFinite ==
    /\ IsFiniteSet({c \in Calls : demand[c]})
    /\ Cardinality({c \in Calls : demand[c]}) \in Nat
BY FS_Subset, FS_CardinalityType, {c \in Calls : demand[c]} \in SUBSET Calls

LEMMA EndEffect ==
    ASSUME AssigningOK, NEW c \in Calls, End(c)
    PROVE  AssigningOK' /\ Moves(c, "idle", None, None) /\ ~demand'[c]
           /\ \A d \in Calls \ {c} : demand'[d] = demand[d]
<1> DEFINE D == {d \in Calls : demand[d]}
<1>1. /\ stage' \in [Calls -> Stages] /\ user' \in [Calls -> Users \cup {None}]
      /\ target' \in [Calls -> Pods \cup {None}]
  BY DEF AssigningOK, End, Stages, Locked, AtPod, Answers
<1>2. tries' \in [Calls -> 0..MaxTries] /\ demand' \in [Calls -> BOOLEAN]
  BY DEF AssigningOK, End
<1>3. Moves(c, "idle", None, None)
  BY DEF AssigningOK, End, Moves
<1>4. ~demand'[c] /\ \A d \in Calls \ {c} : demand'[d] = demand[d]
  BY DEF AssigningOK, End
<1>5. {d \in Calls : demand'[d]} = D \ {c}
  BY <1>4
<1>6. /\ Cardinality(D) \in Nat
      /\ Cardinality(D \ {c}) = IF c \in D THEN Cardinality(D) - 1 ELSE Cardinality(D)
      /\ Cardinality(D \ {c}) \in Nat
  BY DemandFinite, FS_RemoveElement, FS_CardinalityType
<1>7. onDemand = Cardinality(D) /\ onDemand \in 0..MaxOnDemand
  BY DEF AssigningOK, OnDemandCounted
<1>8. onDemand' = IF c \in D THEN onDemand - 1 ELSE onDemand
  BY DEF End
<1>9. OnDemandCounted' /\ onDemand' \in 0..MaxOnDemand
  <2> HIDE DEF D
  <2>1. onDemand' = Cardinality(D \ {c})
    BY <1>6, <1>7, <1>8
  <2>2. onDemand' \in 0..MaxOnDemand
    BY <1>6, <1>7, <1>8, <2>1
  <2>3. QED
    BY <1>5, <2>1, <2>2 DEF OnDemandCounted
<1>10. QED
  BY <1>1, <1>2, <1>3, <1>4, <1>9 DEF AssigningOK

LEMMA ProceedEffect ==
    ASSUME AssigningOK, NEW c \in Calls, NEW s \in Stages, NEW p \in Pods \cup {None},
           Proceed(c, s, p)
    PROVE  AssigningOK' /\ Moves(c, s, user[c], p) /\ demand' = demand
<1>1. /\ stage' \in [Calls -> Stages] /\ target' \in [Calls -> Pods \cup {None}]
      /\ UNCHANGED <<user, tries, demand, onDemand>>
  BY DEF AssigningOK, Proceed
<1>2. AssigningOK'
  BY <1>1 DEF AssigningOK, OnDemandCounted
<1>3. QED
  BY <1>1, <1>2 DEF AssigningOK, Proceed, Moves

\* deletePod's API call leaves other pods alone.
LEMMA RemoveEffect ==
    ASSUME OthersOK, NEW p \in Pods, NEW a \in Answers, Remove(p, a)
    PROVE  /\ pod' \in [Pods -> {"none", "up", "gone"}] /\ served' \in SUBSET Pods
           /\ \A q \in Pods \ {p} : pod'[q] = pod[q] /\ (q \in served' <=> q \in served)
           /\ a = "gone" => pod'[p] = "gone" /\ p \notin served'
           /\ a = "kept" => pod'[p] = pod[p] /\ (p \in served' <=> p \in served)
BY DEF OthersOK, Remove, Answers

-------------------------------------------------------------------------------
(* The calls: types, the counter, the lock.                                  *)

LEMMA MoveKeeps ==
    ASSUME AssigningOK, AssigningOK', CallsInv, Exclusive,
           NEW c \in Calls, NEW s \in Stages, NEW u, NEW p, Moves(c, s, u, p),
           \A d \in Calls \ {c} : demand'[d] = demand[d],
           s # "idle" => u \in Users,
           demand'[c] => s \in AtDemand,
           \/ s \notin Locked
           \/ u = user[c] /\ stage[c] \in Locked
           \/ \A d \in Calls \ {c} : user[d] = u => stage[d] \notin Locked
    PROVE  CallsInv' /\ Exclusive'
<1>1. CallsInv'
  BY DEF CallsInv, Moves
<1>2. ASSUME NEW d \in Calls, d # c, s \in Locked, stage[d] \in Locked, user[d] = u
      PROVE  FALSE
  BY <1>2 DEF Exclusive
<1>3. ASSUME NEW d \in Calls, NEW e \in Calls,
             stage'[d] \in Locked, stage'[e] \in Locked, user'[d] = user'[e]
      PROVE  d = e
  <2>1. CASE d = c /\ e # c
    BY <2>1, <1>2, <1>3 DEF Moves
  <2>2. CASE d # c /\ e = c
    BY <2>2, <1>2, <1>3 DEF Moves
  <2>3. CASE d # c /\ e # c
    BY <2>3, <1>3 DEF Moves, Exclusive
  <2>4. QED
    BY <2>1, <2>2, <2>3
<1>4. QED
  BY <1>1, <1>3 DEF Exclusive

\* A call that ends keeps what is known of the calls.
LEMMA EndKeeps ==
    ASSUME AssigningOK, CallsInv, Exclusive, NEW c \in Calls, End(c)
    PROVE  AssigningOK' /\ CallsInv' /\ Exclusive'
<1>1. /\ AssigningOK' /\ Moves(c, "idle", None, None) /\ ~demand'[c]
      /\ \A d \in Calls \ {c} : demand'[d] = demand[d]
  BY EndEffect
<1>2. "idle" \in Stages /\ "idle" \notin Locked
  BY DEF Stages, Locked, AtPod, Answers
<1>3. QED
  BY <1>1, <1>2, MoveKeeps

\* So does one that goes on under its lock, or takes it.
LEMMA ProceedKeeps ==
    ASSUME AssigningOK, CallsInv, Exclusive, NEW c \in Calls,
           NEW s \in Locked, NEW p \in Pods \cup {None}, Proceed(c, s, p),
           stage[c] # "idle",
           stage[c] \in Locked \/ LockFree(c),
           demand[c] => s \in AtDemand
    PROVE  AssigningOK' /\ CallsInv' /\ Exclusive'
<1>1. s \in Stages
  BY DEF Stages
<1>2. AssigningOK' /\ Moves(c, s, user[c], p) /\ demand' = demand
  BY <1>1, ProceedEffect
<1>3. user[c] \in Users
  BY DEF CallsInv
<1>4. QED
  BY <1>1, <1>2, <1>3, MoveKeeps DEF LockFree

\* The lock and the counter hold through every step of a call.
LEMMA CallKeepsCalls ==
    ASSUME AssigningOK, CallsInv, Exclusive, NEW c \in Calls, CallStep(c)
    PROVE  AssigningOK' /\ CallsInv' /\ Exclusive'
<1> USE DEF Stages, Locked, AtPod, Answers, AtDemand
<1>1. ASSUME NEW u \in Users, Begin(c, u)
      PROVE  AssigningOK' /\ CallsInv' /\ Exclusive'
  <2>1. Moves(c, "wait", u, target[c])
    BY <1>1 DEF Begin, Moves, AssigningOK
  <2>2. AssigningOK'
    BY <1>1 DEF Begin, AssigningOK, OnDemandCounted
  <2>3. demand' = demand /\ ~demand[c]
    BY <1>1 DEF Begin, CallsInv
  <2>4. "wait" \in Stages /\ "wait" \notin Locked
    OBVIOUS
  <2>5. QED
    BY <2>1, <2>2, <2>3, <2>4, MoveKeeps
<1>2. CASE Look(c)
  <2>1. stage[c] = "wait" /\ LockFree(c) /\ ~demand[c]
    BY <1>2 DEF Look, CallsInv
  <2>2. ASSUME NEW p \in Pods, Proceed(c, "ping", p)
        PROVE  AssigningOK' /\ CallsInv' /\ Exclusive'
    BY <2>1, <2>2, ProceedKeeps, "ping" \in Locked
  <2>3. ASSUME Proceed(c, "claim", None)
        PROVE  AssigningOK' /\ CallsInv' /\ Exclusive'
    BY <2>1, <2>3, ProceedKeeps, "claim" \in Locked
  <2>4. QED
    BY <1>2, <2>2, <2>3 DEF Look
<1>3. CASE PingOk(c)
  BY <1>3, EndKeeps DEF PingOk
<1>4. CASE Claim(c)
  <2>1. stage[c] = "claim" /\ demand' = demand /\ ~demand[c]
    BY <1>4 DEF Claim, CallsInv
  <2>2. PICK p \in Pods : Moves(c, "load", user[c], p)
    BY <1>4 DEF Claim, Moves, AssigningOK
  <2>3. tries' \in [Calls -> 0..MaxTries]
    BY <1>4 DEF Claim, AssigningOK
  <2>4. AssigningOK'
    BY <1>4, <2>3 DEF Claim, AssigningOK, OnDemandCounted
  <2>5. user[c] \in Users /\ "load" \in Stages
    BY <2>1 DEF CallsInv
  <2>6. QED
    BY <2>1, <2>2, <2>4, <2>5, MoveKeeps
<1>5. CASE Load(c)
  BY <1>5, EndKeeps DEF Load
<1>6. CASE Demand(c)
  <2> DEFINE D == {d \in Calls : demand[d]}
  <2>1. stage[c] = "claim" /\ ~demand[c]
    BY <1>6 DEF Demand, CallsInv
  <2>2. PICK p \in Pods : Moves(c, "create", user[c], p)
    BY <1>6 DEF Demand, Moves, AssigningOK
  <2>3. /\ demand' \in [Calls -> BOOLEAN] /\ demand'[c]
        /\ \A d \in Calls \ {c} : demand'[d] = demand[d]
    BY <1>6 DEF Demand, AssigningOK
  <2>4. {d \in Calls : demand'[d]} = D \cup {c}
    BY <2>3
  <2>5. Cardinality(D \cup {c}) = Cardinality(D) + 1
    BY <2>1, DemandFinite, FS_AddElement
  <2>6. onDemand = Cardinality(D)
    BY DEF AssigningOK, OnDemandCounted
  <2>7. onDemand \in 0..MaxOnDemand /\ onDemand < MaxOnDemand /\ onDemand' = onDemand + 1
    BY <1>6 DEF Demand, MayCreate, AssigningOK
  <2>8. OnDemandCounted'
    <3> HIDE DEF D
    <3>1. QED
      BY <2>4, <2>5, <2>6, <2>7 DEF OnDemandCounted
  <2>9. onDemand' \in 0..MaxOnDemand
    BY <2>7
  <2>10. AssigningOK'
    BY <1>6, <2>3, <2>8, <2>9 DEF Demand, AssigningOK
  <2>11. user[c] \in Users /\ "create" \in Stages
    BY <2>1 DEF CallsInv
  <2>12. QED
    BY <2>1, <2>2, <2>3, <2>10, <2>11, MoveKeeps
<1>7. CASE Create(c)
  <2>1. stage[c] = "create" /\ Proceed(c, "boot", target[c])
    BY <1>7 DEF Create
  <2>2. target[c] \in Pods \cup {None} /\ "boot" \in Locked
    BY DEF AssigningOK
  <2>3. QED
    BY <2>1, <2>2, ProceedKeeps
<1>8. CASE Adopt(c)
  <2>1. stage[c] = "boot" /\ Proceed(c, "load", target[c])
    BY <1>8 DEF Adopt
  <2>2. target[c] \in Pods \cup {None} /\ "load" \in Locked
    BY DEF AssigningOK
  <2>3. QED
    BY <2>1, <2>2, ProceedKeeps
<1>9. CASE PodFails(c)
  <2>1. PICK a \in Answers : Proceed(c, a, target[c])
    BY <1>9 DEF PodFails
  <2>2. target[c] \in Pods \cup {None} /\ a \in Locked /\ stage[c] \in Locked
    BY <1>9 DEF AssigningOK, PodFails
  <2>3. QED
    BY <2>1, <2>2, ProceedKeeps
<1>10. CASE Killed(c)
  <2>1. CASE demand[c]
    BY <1>10, <2>1, EndKeeps DEF Killed
  <2>2. CASE ~demand[c]
    BY <1>10, <2>2, ProceedKeeps, "claim" \in Locked DEF Killed
  <2>3. QED
    BY <2>1, <2>2
<1>11. CASE Throw(c)
  BY <1>11, EndKeeps DEF Throw
<1>12. QED
  BY <1>1, <1>2, <1>3, <1>4, <1>5, <1>6, <1>7, <1>8, <1>9, <1>10, <1>11 DEF CallStep

-------------------------------------------------------------------------------
(* The calls and the pods.                                                   *)

Rows == RowInv /\ AtInv /\ OneEditor /\ HoldInv /\ LoadInv

Loading == Answers \cup {"load"}

\* What becomes of a pod and of the flows in it, for LoadInv and RowInv.
Keeps(q) ==
    /\ q \in served' => /\ Exists(q)'
                        /\ q \in served \/ (row'[q] # "warm" /\ maker'[q] = "none")
    /\ row'[q] = "assigned" /\ Exists(q)' /\ q \notin served' =>
         row[q] = "assigned" /\ Exists(q) /\ q \notin served

\* A pod that waits for its flows still does, or has been cut off.
LEMMA StillLoading ==
    ASSUME AssigningOK, OthersOK, LoadInv, Left, NEW c \in Calls, NEW s, NEW u, NEW p,
           Moves(c, s, u, p), NEW q \in Pods, Keeps(q),
           stage[c] \in Loading /\ target[c] = q =>
             \/ s \in Loading /\ p = q
             \/ s = "idle"
             \/ q \in served'
             \/ row'[q] # "assigned",
           row'[q] = "assigned", Exists(q)', q \notin served'
    PROVE  \/ q \in cutOff'
           \/ \E d \in Calls : target'[d] = q /\ stage'[d] \in Loading
<1>1. row[q] = "assigned" /\ Exists(q) /\ q \notin served
  BY DEF Keeps
<1>2. q \in cutOff \/ \E d \in Calls : target[d] = q /\ stage[d] \in Loading
  BY <1>1 DEF LoadInv, Loading
<1>3. CASE q \in cutOff
  BY <1>3 DEF Left
<1>4. ASSUME NEW d \in Calls, target[d] = q, stage[d] \in Loading
      PROVE  \/ q \in cutOff'
             \/ \E e \in Calls : target'[e] = q /\ stage'[e] \in Loading
  <2>1. CASE d # c
    BY <1>4, <2>1 DEF Moves
  <2>2. CASE d = c /\ s = "idle"
    BY <1>4, <2>2 DEF Left, Moves, AtPod, Loading
  <2>3. CASE d = c /\ s # "idle"
    BY <1>4, <2>3 DEF Moves
  <2>4. QED
    BY <2>1, <2>2, <2>3
<1>5. QED
  BY <1>2, <1>3, <1>4

\* A step of a call that writes no row.
LEMMA StillRows ==
    ASSUME AssigningOK, OthersOK, Rows, Left, NEW c \in Calls, NEW s, NEW u, NEW p,
           Moves(c, s, u, p), UNCHANGED <<row, owner, maker>>,
           \A q \in Pods : Keeps(q),
           s \in AtPod => OfUser(s, u, p),
           s \in Locked => \A q \in Pods : row[q] = "assigned" /\ owner[q] = u
                                             => s \in AtPod /\ q = p,
           stage[c] \in Loading =>
             \/ s \in Loading /\ p = target[c]
             \/ s = "idle"
             \/ target[c] \in served'
    PROVE  Rows'
<1>1. RowInv'
  <2>1. ASSUME NEW q \in Pods, q \in served'
        PROVE  Exists(q)' /\ row[q] # "warm" /\ maker[q] = "none"
    BY <2>1 DEF Rows, RowInv, Keeps
  <2>2. QED
    BY <2>1 DEF Rows, RowInv
<1>2. AtInv'
  BY DEF Rows, AtInv, OfUser, Moves
<1>3. OneEditor'
  BY DEF Rows, OneEditor
<1>4. HoldInv'
  BY DEF Rows, HoldInv, Moves
<1>5. LoadInv'
  BY StillLoading DEF Rows, LoadInv, Loading
<1>6. QED
  BY <1>1, <1>2, <1>3, <1>4, <1>5 DEF Rows

\* A call that ends.
LEMMA EndRows ==
    ASSUME AssigningOK, OthersOK, Rows, Left, NEW c \in Calls, End(c),
           UNCHANGED <<row, owner, maker>>, \A q \in Pods : Keeps(q)
    PROVE  Rows'
<1>1. Moves(c, "idle", None, None)
  BY EndEffect
<1>2. "idle" \notin AtPod /\ "idle" \notin Locked
  BY DEF Locked, AtPod, Answers
<1>3. QED
  BY <1>1, <1>2, StillRows

\* Where neither row nor pod nor flows change, or the flows are gone with the pod.
LEMMA KeepsEasy ==
    ASSUME OthersOK, Rows, NEW q \in Pods, row'[q] = row[q], owner'[q] = owner[q],
           \/ pod'[q] = pod[q] /\ (q \in served' <=> q \in served)
           \/ pod'[q] # "up" /\ q \notin served'
    PROVE  Keeps(q)
BY DEF Keeps, Exists, Rows, RowInv

\* What the history variables become.
LEMMA NotedEffect ==
    ASSUME OthersOK, Noted
    PROVE  /\ UNCHANGED <<scan, seen, todo>> /\ Left
           /\ touched' \in SUBSET Pods /\ cutOff' \in SUBSET Pods
BY DEF OthersOK, Noted, Left, scanning

\* Claim, where a warm pod becomes the user's.
LEMMA ClaimRows ==
    ASSUME AssigningOK, OthersOK, CallsInv, Exclusive, Rows,
           NEW c \in Calls, Claim(c), Noted
    PROVE  OthersOK' /\ Rows'
<1> USE DEF Statuses, Live, Loading, AtPod, Locked, Answers
<1>1. /\ stage[c] = "claim" /\ user[c] \in Users
      /\ UNCHANGED <<pod, served, maker, wanted, killer, ready>>
  BY DEF Claim, CallsInv, warming
<1>2. PICK p \in Pods : /\ row[p] = "warm" /\ Writes(p, "assigned", user[c])
                        /\ Moves(c, "load", user[c], p)
  BY <1>1 DEF Claim, OthersOK, AssigningOK, Writes, Moves
<1>3. OthersOK'
  BY <1>1, <1>2, NotedEffect DEF OthersOK, Writes
<1>4. owner[p] = None /\ maker[p] = "none" /\ p \notin served
  BY <1>2 DEF Rows, RowInv
<1>5. \A q \in Pods : row[q] = "assigned" => owner[q] # user[c]
  BY <1>1 DEF Rows, HoldInv
<1>6. \A d \in Calls \ {c} : user[d] = user[c] => stage[d] \notin Locked
  BY <1>1 DEF Exclusive
<1>7. RowInv'
  BY <1>1, <1>2, <1>4 DEF Rows, RowInv, Writes, Exists
<1>8. AtInv'
  <2>1. ASSUME NEW d \in Calls \ {c}, stage[d] \in AtPod
        PROVE  target[d] # p
    BY <1>2, <2>1 DEF Rows, AtInv, OfUser
  <2>2. QED
    BY <1>1, <1>2, <1>4, <2>1 DEF Rows, AtInv, OfUser, Writes, Moves
<1>9. OneEditor'
  BY <1>2, <1>5 DEF Rows, OneEditor, Writes
<1>10. HoldInv'
  BY <1>2, <1>5, <1>6 DEF Rows, HoldInv, Writes, Moves
<1>11. LoadInv'
  <2>1. ASSUME NEW q \in Pods, q # p, row'[q] = "assigned", Exists(q)', q \notin served'
        PROVE  \/ q \in cutOff'
               \/ \E d \in Calls : target'[d] = q /\ stage'[d] \in Loading
    <3>1. Keeps(q)
      BY <1>1, <1>2, <2>1, KeepsEasy DEF Writes
    <3>2. QED
      BY <1>1, <1>2, <2>1, <3>1, NotedEffect, StillLoading DEF Rows
  <2>2. target'[c] = p /\ stage'[c] \in Loading
    BY <1>2 DEF Moves
  <2>3. QED
    BY <2>1, <2>2 DEF LoadInv
<1>12. QED
  BY <1>3, <1>7, <1>8, <1>9, <1>10, <1>11 DEF Rows

\* Demand, where a new row is inserted for the user.
LEMMA DemandRows ==
    ASSUME AssigningOK, OthersOK, CallsInv, Exclusive, Rows,
           NEW c \in Calls, Demand(c), Noted
    PROVE  OthersOK' /\ Rows'
<1> USE DEF Statuses, Live, Loading, AtPod, Locked, Answers
<1>1. /\ stage[c] = "claim" /\ user[c] \in Users
      /\ UNCHANGED <<served, maker, wanted, killer, ready>>
  BY DEF Demand, CallsInv, warming
<1>2. PICK p \in Pods : /\ Fresh(p) /\ pod' = [pod EXCEPT ![p] = "none"]
                        /\ Writes(p, "starting", user[c])
                        /\ Moves(c, "create", user[c], p)
  <2>1. PICK p \in Pods :
          /\ Fresh(p) /\ pod' = [pod EXCEPT ![p] = "none"]
          /\ row' = [row EXCEPT ![p] = "starting"]
          /\ owner' = [owner EXCEPT ![p] = user[c]]
          /\ stage' = [stage EXCEPT ![c] = "create"]
          /\ target' = [target EXCEPT ![c] = p]
    BY DEF Demand
  <2>2. user' = user
    BY DEF Demand
  <2>3. Writes(p, "starting", user[c]) /\ Moves(c, "create", user[c], p)
    BY <1>1, <2>1, <2>2 DEF OthersOK, AssigningOK, Writes, Moves
  <2>4. QED
    BY <2>1, <2>3
<1>3. OthersOK'
  BY <1>1, <1>2, NotedEffect DEF OthersOK, Writes
<1>4. /\ row[p] = "none" /\ maker[p] = "none" /\ p \notin served
      /\ \A d \in Calls : target[d] # p
  BY <1>2 DEF Fresh, Rows, RowInv
<1>5. \A q \in Pods : row[q] = "assigned" => owner[q] # user[c]
  BY <1>1 DEF Rows, HoldInv
<1>6. RowInv'
  BY <1>1, <1>2, <1>4 DEF OthersOK, Rows, RowInv, Writes, Exists
<1>7. AtInv'
  BY <1>1, <1>2, <1>4 DEF Rows, AtInv, OfUser, Writes, Moves
<1>8. OneEditor'
  BY <1>2 DEF Rows, OneEditor, Writes
<1>9. HoldInv'
  BY <1>2, <1>5 DEF Rows, HoldInv, Writes, Moves
<1>10. LoadInv'
  <2>1. ASSUME NEW q \in Pods, row'[q] = "assigned", Exists(q)', q \notin served'
        PROVE  \/ q \in cutOff'
               \/ \E d \in Calls : target'[d] = q /\ stage'[d] \in Loading
    <3>1. Keeps(q)
      BY <1>1, <1>2, <1>4, <2>1, KeepsEasy DEF Writes, OthersOK
    <3>2. QED
      BY <1>1, <1>2, <2>1, <3>1, NotedEffect, StillLoading DEF Rows
  <2>2. QED
    BY <2>1 DEF LoadInv, Loading
<1>11. QED
  BY <1>3, <1>6, <1>7, <1>8, <1>9, <1>10 DEF Rows

\* Adopt, where the row of the user's new pod becomes assigned.
LEMMA AdoptRows ==
    ASSUME AssigningOK, OthersOK, CallsInv, Exclusive, Rows,
           NEW c \in Calls, Adopt(c), Noted
    PROVE  OthersOK' /\ Rows'
<1> USE DEF Statuses, Live, Loading, AtPod, Locked, Answers
<1> DEFINE p == target[c]
<1>1. /\ stage[c] = "boot" /\ user[c] \in Users
      /\ UNCHANGED <<owner, pod, served, maker, wanted, killer, ready>>
  BY DEF Adopt, CallsInv, warming
<1>2. /\ p \in Pods /\ owner[p] = user[c] /\ row[p] # "none"
      /\ maker[p] = "none"
  BY <1>1 DEF Rows, AtInv, OfUser
<1>3. Writes(p, "assigned", user[c])
  BY <1>1, <1>2 DEF Adopt, OthersOK, Writes
<1>4. Moves(c, "load", user[c], p)
  BY <1>1, <1>2, ProceedEffect, "load" \in Stages DEF Adopt, Stages
<1> HIDE DEF p
<1>5. OthersOK'
  BY <1>1, <1>3, NotedEffect DEF OthersOK, Writes
<1>6. \A q \in Pods : row[q] = "assigned" /\ owner[q] = user[c] => q = p
  BY <1>1 DEF Rows, HoldInv, p
<1>7. \A d \in Calls \ {c} : user[d] = user[c] => stage[d] \notin Locked
  BY <1>1 DEF Exclusive
<1>8. RowInv'
  BY <1>1, <1>2, <1>3 DEF Rows, RowInv, Writes, Exists
<1>9. AtInv'
  <2>1. ASSUME NEW d \in Calls \ {c}, stage[d] \in AtPod
        PROVE  target[d] # p
    BY <1>2, <1>7, <2>1 DEF Rows, AtInv, OfUser
  <2>2. QED
    BY <1>1, <1>2, <1>3, <1>4, <2>1 DEF Rows, AtInv, OfUser, Writes, Moves
<1>10. OneEditor'
  BY <1>3, <1>6 DEF Rows, OneEditor, Writes
<1>11. HoldInv'
  BY <1>3, <1>4, <1>6, <1>7 DEF Rows, HoldInv, Writes, Moves
<1>12. LoadInv'
  <2>1. ASSUME NEW q \in Pods, q # p, row'[q] = "assigned", Exists(q)', q \notin served'
        PROVE  \/ q \in cutOff'
               \/ \E d \in Calls : target'[d] = q /\ stage'[d] \in Loading
    <3>1. Keeps(q)
      BY <1>1, <1>3, <2>1, KeepsEasy DEF Writes
    <3>2. QED
      BY <1>1, <1>4, <2>1, <3>1, NotedEffect, StillLoading DEF Rows
  <2>2. target'[c] = p /\ stage'[c] \in Loading
    BY <1>4 DEF Moves
  <2>3. QED
    BY <2>1, <2>2 DEF LoadInv
<1>13. QED
  BY <1>5, <1>8, <1>9, <1>10, <1>11, <1>12 DEF Rows

\* Killed, where the row of a pod that did not answer is terminated or draining.
LEMMA KilledRows ==
    ASSUME AssigningOK, OthersOK, CallsInv, Exclusive, Rows,
           NEW c \in Calls, Killed(c), Noted
    PROVE  OthersOK' /\ Rows'
<1> USE DEF Statuses, Live, Loading, AtPod, Locked, Answers
<1> DEFINE p == target[c]
<1>1. /\ stage[c] \in Answers
      /\ UNCHANGED <<owner, pod, served, maker, wanted, killer, ready>>
  BY DEF Killed, warming
<1>2. p \in Pods /\ maker[p] = "none"
  BY <1>1 DEF Rows, AtInv, OfUser
<1>3. PICK r \in {"none", "terminated", "draining"} :
        Writes(p, r, owner[p]) /\ (r = "none" <=> row[p] = "none")
  BY <1>1, <1>2 DEF Killed, Update, DeletedStatus, OthersOK, Writes
<1>4. PICK s \in {"idle", "claim"}, u \in {None, user[c]} :
        Moves(c, s, u, None) /\ (s = "claim" => u = user[c])
  <2>1. CASE demand[c]
    BY <2>1, EndEffect DEF Killed
  <2>2. CASE ~demand[c]
    BY <2>2, ProceedEffect, "claim" \in Stages, None \in Pods \cup {None} DEF Killed, Stages
  <2>3. QED
    BY <2>1, <2>2
<1> HIDE DEF p
<1>5. OthersOK'
  BY <1>1, <1>3, NotedEffect DEF OthersOK, Writes
<1>6. \A q \in Pods : row[q] = "assigned" /\ owner[q] = user[c] => q = p
  BY <1>1 DEF Rows, HoldInv, p
<1>7. RowInv'
  BY <1>1, <1>2, <1>3 DEF Rows, RowInv, Writes, Exists
<1>8. AtInv'
  BY <1>1, <1>2, <1>3, <1>4 DEF Rows, AtInv, OfUser, Writes, Moves
<1>9. OneEditor'
  BY <1>3 DEF Rows, OneEditor, Writes
<1>10. HoldInv'
  BY <1>3, <1>4, <1>6 DEF Rows, HoldInv, Writes, Moves
<1>11. LoadInv'
  <2>1. ASSUME NEW q \in Pods, row'[q] = "assigned", Exists(q)', q \notin served'
        PROVE  \/ q \in cutOff'
               \/ \E d \in Calls : target'[d] = q /\ stage'[d] \in Loading
    <3>1. q # p
      BY <1>3, <2>1 DEF Writes
    <3>2. Keeps(q)
      BY <1>1, <1>3, <2>1, <3>1, KeepsEasy DEF Writes
    <3>3. QED
      BY <1>4, <2>1, <3>1, <3>2, NotedEffect, StillLoading DEF Rows, p
  <2>2. QED
    BY <2>1 DEF LoadInv, Loading
<1>12. QED
  BY <1>5, <1>7, <1>8, <1>9, <1>10, <1>11 DEF Rows

\* Steps of a call that write no row.
LEMMA QuietTypes ==
    ASSUME OthersOK, Noted, UNCHANGED <<row, owner, maker, wanted, killer, ready>>,
           pod' \in [Pods -> {"none", "up", "gone"}], served' \in SUBSET Pods
    PROVE  OthersOK'
BY NotedEffect DEF OthersOK

\* Every step of a call keeps what is known of rows and pods.
LEMMA CallKeepsRows ==
    ASSUME AssigningOK, OthersOK, CallsInv, Exclusive, Rows,
           NEW c \in Calls, CallStep(c)
    PROVE  OthersOK' /\ Rows'
<1> USE DEF AtPod, Locked, Answers
<1>1. Noted
  BY DEF CallStep
<1>2. Left
  BY <1>1, NotedEffect
<1>3. /\ pod \in [Pods -> {"none", "up", "gone"}] /\ served \in SUBSET Pods
  BY DEF OthersOK
\* Calls that leave pods alone.
<1>4. ASSUME UNCHANGED <<row, owner, pod, served, maker, wanted, killer, ready>>
      PROVE  OthersOK' /\ \A q \in Pods : Keeps(q)
  BY <1>1, <1>3, <1>4, QuietTypes, KeepsEasy
<1>5. ASSUME NEW u \in Users, Begin(c, u)
      PROVE  OthersOK' /\ Rows'
  <2>1. Moves(c, "wait", u, target[c]) /\ stage[c] = "idle"
    BY <1>5 DEF Begin, Moves, AssigningOK
  <2>2. UNCHANGED <<row, owner, pod, served, maker, wanted, killer, ready>>
    BY <1>5 DEF Begin, database, warming
  <2>3. Rows'
    BY <1>2, <1>4, <2>1, <2>2, StillRows DEF Loading
  <2>4. QED
    BY <1>4, <2>2, <2>3
<1>6. CASE Look(c)
  <2>1. /\ stage[c] = "wait"
        /\ UNCHANGED <<row, owner, pod, served, maker, wanted, killer, ready>>
    BY <1>6 DEF Look, database, warming
  <2>2. ASSUME NEW p \in Pods, row[p] = "assigned", owner[p] = user[c], Proceed(c, "ping", p)
        PROVE  Rows'
    <3>1. Moves(c, "ping", user[c], p)
      BY <2>2, ProceedEffect, "ping" \in Stages DEF Stages
    <3>2. \A q \in Pods : row[q] = "assigned" /\ owner[q] = user[c] => q = p
      BY <2>2 DEF Rows, OneEditor
    <3>3. OfUser("ping", user[c], p)
      BY <2>2 DEF OfUser, Rows, RowInv
    <3>4. QED
      BY <1>2, <1>4, <2>1, <2>2, <3>1, <3>2, <3>3, StillRows DEF Loading
  <2>3. ASSUME \A p \in Pods : row[p] # "assigned" \/ owner[p] # user[c],
               Proceed(c, "claim", None)
        PROVE  Rows'
    <3>1. Moves(c, "claim", user[c], None)
      BY <2>3, ProceedEffect, "claim" \in Stages DEF Stages
    <3>2. QED
      BY <1>2, <1>4, <2>1, <2>3, <3>1, StillRows DEF Loading
  <2>4. QED
    BY <1>4, <1>6, <2>1, <2>2, <2>3 DEF Look
<1>7. CASE PingOk(c)
  <2>1. UNCHANGED <<row, owner, pod, served, maker, wanted, killer, ready>> /\ End(c)
    BY <1>7 DEF PingOk, database, warming
  <2>2. QED
    BY <1>2, <1>4, <2>1, EndRows
<1>8. CASE Claim(c)
  BY <1>1, <1>8, ClaimRows
<1>9. CASE Load(c)
  <2>1. /\ stage[c] = "load" /\ Exists(target[c]) /\ End(c)
        /\ served' = served \cup {target[c]}
        /\ UNCHANGED <<row, owner, pod, maker, wanted, killer, ready>>
    BY <1>9 DEF Load, database, warming
  <2>2. target[c] \in Pods /\ maker[target[c]] = "none" /\ row[target[c]] # "warm"
    BY <2>1 DEF Rows, AtInv, OfUser
  <2>3. OthersOK'
    BY <1>1, <1>3, <2>1, <2>2, QuietTypes
  <2>4. ASSUME NEW q \in Pods
        PROVE  Keeps(q)
    BY <2>1, <2>2 DEF Keeps, Exists, Rows, RowInv
  <2>5. QED
    BY <1>2, <2>1, <2>3, <2>4, EndRows
<1>10. CASE Demand(c)
  BY <1>1, <1>10, DemandRows
<1>11. CASE Create(c)
  <2> DEFINE p == target[c]
  <2>1. /\ stage[c] = "create" /\ Proceed(c, "boot", p)
        /\ pod' = [pod EXCEPT ![p] = "up"]
        /\ UNCHANGED <<row, owner, served, maker, wanted, killer, ready>>
    BY <1>11 DEF Create, database, warming
  <2>2. /\ p \in Pods /\ row[p] # "assigned" /\ OfUser("boot", user[c], p)
        /\ \A q \in Pods : row[q] = "assigned" /\ owner[q] = user[c] => q = p
    BY <2>1 DEF Rows, AtInv, OfUser, HoldInv
  <2>3. Moves(c, "boot", user[c], p)
    BY <2>1, <2>2, ProceedEffect, "boot" \in Stages DEF Stages
  <2> HIDE DEF p
  <2>4. OthersOK'
    BY <1>1, <1>3, <2>1, <2>2, QuietTypes
  <2>5. ASSUME NEW q \in Pods
        PROVE  Keeps(q)
    BY <1>3, <2>1, <2>2 DEF Keeps, Exists, Rows, RowInv
  <2>6. QED
    BY <1>2, <2>1, <2>2, <2>3, <2>4, <2>5, StillRows DEF Loading
<1>12. CASE Adopt(c)
  BY <1>1, <1>12, AdoptRows
<1>13. CASE PodFails(c)
  <2> DEFINE p == target[c]
  <2>1. PICK a \in Answers : Remove(p, a) /\ Proceed(c, a, p)
    BY <1>13 DEF PodFails
  <2>2. /\ stage[c] \in {"ping", "load", "create", "boot"}
        /\ UNCHANGED <<row, owner, maker, wanted, killer, ready>>
    BY <1>13 DEF PodFails, database, warming
  <2>3. /\ p \in Pods /\ OfUser(a, user[c], p)
        /\ \A q \in Pods : row[q] = "assigned" /\ owner[q] = user[c] => q = p
    BY <2>2 DEF Rows, AtInv, OfUser, HoldInv
  <2>4. Moves(c, a, user[c], p)
    BY <2>1, <2>3, ProceedEffect DEF Stages
  <2>5. /\ pod' \in [Pods -> {"none", "up", "gone"}] /\ served' \in SUBSET Pods
        /\ \A q \in Pods \ {p} : pod'[q] = pod[q] /\ (q \in served' <=> q \in served)
        /\ a = "gone" => pod'[p] = "gone" /\ p \notin served'
        /\ a = "kept" => pod'[p] = pod[p] /\ (p \in served' <=> p \in served)
    BY <2>1, <2>3, RemoveEffect
  <2> HIDE DEF p
  <2>6. OthersOK'
    BY <1>1, <2>2, <2>5, QuietTypes
  <2>7. ASSUME NEW q \in Pods
        PROVE  Keeps(q)
    BY <2>2, <2>5, KeepsEasy
  <2>8. stage[c] \in Loading => a \in Loading /\ p = target[c]
    BY DEF Loading, p
  <2>9. QED
    BY <1>2, <2>2, <2>3, <2>4, <2>6, <2>7, <2>8, StillRows
<1>14. CASE Killed(c)
  BY <1>1, <1>14, KilledRows
<1>15. CASE Throw(c)
  <2>1. UNCHANGED <<row, owner, pod, served, maker, wanted, killer, ready>> /\ End(c)
    BY <1>15 DEF Throw, database, warming
  <2>2. QED
    BY <1>2, <1>4, <2>1, EndRows
<1>16. QED
  BY <1>5, <1>6, <1>7, <1>8, <1>9, <1>10, <1>11, <1>12, <1>13, <1>14, <1>15 DEF CallStep

-------------------------------------------------------------------------------
(* Everything else that works on the pods.                                   *)

\* What the others may do to a row, to createWarmPod and to a pod.
RowStep(p) ==
    \/ row'[p] = row[p] /\ owner'[p] = owner[p]
    \/ /\ row[p] # "none" /\ row'[p] \in {"draining", "terminated"}
       /\ owner'[p] = owner[p]
    \/ /\ row[p] = "none" /\ maker[p] = "none" /\ p \notin served'
       /\ row'[p] = "starting" /\ owner'[p] = owner[p]
       /\ \A c \in Calls : target[c] # p
    \/ /\ maker[p] = "boot" /\ maker'[p] = "none"
       /\ row'[p] = "warm" /\ owner'[p] = owner[p]
    \/ /\ row'[p] = "none" /\ owner'[p] = None /\ maker[p] = "none"
       /\ \A c \in Calls : target[c] = p => stage[c] \notin {"create", "boot"}

MakerStep(p) ==
    \/ maker'[p] = "none"
    \/ maker[p] # "none"
    \/ row[p] = "none" /\ row'[p] = "starting"

PodChange(p) ==
    \/ pod'[p] = pod[p] /\ (p \in served' <=> p \in served)
    \/ pod'[p] # "up" /\ p \notin served'
    \/ maker[p] # "none" /\ (p \in served' <=> p \in served) /\ row'[p] = row[p]
    \/ pod'[p] = pod[p] /\ p \notin served' /\ row'[p] = "draining"

Background ==
    /\ UNCHANGED assigning
    /\ \A p \in Pods : RowStep(p) /\ MakerStep(p) /\ PodChange(p)

LEMMA BackgroundKeepsRows ==
    ASSUME AssigningOK, OthersOK, CallsInv, Rows, Left, Background
    PROVE  Rows'
<1> USE DEF AtPod, Locked, Answers
<1>1. /\ stage' = stage /\ user' = user /\ target' = target
      /\ \A p \in Pods : RowStep(p) /\ MakerStep(p) /\ PodChange(p)
  BY DEF Background, assigning
<1>2. ASSUME NEW p \in Pods, p \in served'
      PROVE  p \in served
  BY <1>1, <1>2 DEF PodChange
<1>3. ASSUME NEW p \in Pods
      PROVE  /\ row'[p] = "warm" => owner'[p] = None /\ p \notin served'
             /\ row'[p] = "assigned" => owner'[p] # None
             /\ row'[p] = "none" => owner'[p] = None
  BY <1>1, <1>2 DEF RowStep, Rows, RowInv
<1>4. ASSUME NEW p \in Pods, maker'[p] # "none"
      PROVE  owner'[p] = None /\ p \notin served' /\ row'[p] \notin {"none", "warm"}
  BY <1>1, <1>2, <1>4 DEF RowStep, MakerStep, Rows, RowInv
<1>5. ASSUME NEW p \in Pods, p \in served'
      PROVE  Exists(p)'
  BY <1>1, <1>2, <1>5 DEF PodChange, Exists, Rows, RowInv
<1>6. RowInv'
  BY <1>3, <1>4, <1>5 DEF RowInv
<1>7. ASSUME NEW p \in Pods, row'[p] = "assigned"
      PROVE  row[p] = "assigned" /\ owner'[p] = owner[p]
  BY <1>1, <1>7 DEF RowStep
<1>8. AtInv'
  <2>1. ASSUME NEW c \in Calls, stage[c] \in AtPod
        PROVE  OfUser(stage[c], user[c], target[c])'
    <3>1. OfUser(stage[c], user[c], target[c])
      BY <2>1 DEF Rows, AtInv
    <3>2. /\ target[c] \in Pods /\ RowStep(target[c]) /\ MakerStep(target[c])
      BY <1>1, <3>1 DEF OfUser
    <3>3. maker'[target[c]] = "none"
      BY <3>1, <3>2 DEF RowStep, MakerStep, OfUser
    <3>4. QED
      BY <1>1, <3>1, <3>2, <3>3 DEF RowStep, OfUser
  <2>2. QED
    BY <1>1, <2>1 DEF AtInv
<1>9. OneEditor'
  BY <1>7 DEF Rows, OneEditor
<1>10. HoldInv'
  BY <1>1, <1>7 DEF Rows, HoldInv
<1>11. LoadInv'
  <2>1. ASSUME NEW p \in Pods, row'[p] = "assigned", Exists(p)', p \notin served'
        PROVE  \/ p \in cutOff'
               \/ \E c \in Calls : target'[c] = p /\ stage'[c] \in Answers \cup {"load"}
    <3>1. row[p] = "assigned" /\ maker[p] = "none"
      BY <1>7, <2>1 DEF Rows, RowInv
    <3>2. Exists(p) /\ p \notin served
      BY <1>1, <2>1, <3>1 DEF PodChange, Exists
    <3>3. p \in cutOff \/ \E c \in Calls : target[c] = p /\ stage[c] \in Answers \cup {"load"}
      BY <3>1, <3>2 DEF Rows, LoadInv
    <3>4. QED
      BY <1>1, <2>1, <3>3 DEF Left
  <2>2. QED
    BY <2>1 DEF LoadInv
<1>12. QED
  BY <1>6, <1>8, <1>9, <1>10, <1>11 DEF Rows

\* The calls themselves stay as they are.
LEMMA BackgroundKeepsCalls ==
    ASSUME AssigningOK, CallsInv, Exclusive, UNCHANGED assigning
    PROVE  AssigningOK' /\ CallsInv' /\ Exclusive'
BY DEF AssigningOK, OnDemandCounted, CallsInv, Exclusive, assigning

\* A step that others than reconcile take keeps what reconcile knows.
LEMMA NotedScan ==
    ASSUME OthersOK, ScanInv, Noted
    PROVE  ScanInv'
<1>1. UNCHANGED <<scan, seen, todo>>
  BY NotedEffect
<1>2. CASE scan = "off"
  BY <1>1, <1>2 DEF ScanInv, Told
<1>3. CASE scan # "off"
  <2>1. ASSUME NEW p \in Pods, p \notin touched'
        PROVE  p \notin touched /\ row'[p] = row[p] /\ pod'[p] = pod[p]
    BY <1>3, <2>1 DEF Noted
  <2>2. QED
    BY <1>1, <2>1 DEF ScanInv, Told, Agree, Exists
<1>4. QED
  BY <1>2, <1>3

\* The pool is counted.
LEMMA PoolCount ==
    ASSUME NEW S \in SUBSET Pods
    PROVE  Cardinality(S) \in Nat
BY FS_Subset, FS_CardinalityType

\* fillPool, createWarmPod, deletions in the background, the cluster and its watch.
LEMMA PodStepEffect ==
    ASSUME OthersOK, Rows,
           (\E p \in Pods : PodStep(p)) \/ (FillPool /\ Noted) \/ (InsertWarm /\ Noted)
    PROVE  OthersOK' /\ Background
<1> USE DEF Statuses, Live, Makers, Killers, Answers
<1>1. Noted
  BY DEF PodStep
<1>2. /\ UNCHANGED <<scan, seen, todo>>
      /\ touched' \in SUBSET Pods /\ cutOff' \in SUBSET Pods
  BY <1>1, NotedEffect
<1>3. \A p \in Pods : maker[p] # "none" => row[p] # "none"
  BY DEF Rows, RowInv
<1>4. CASE FillPool
  <2>1. Cardinality({p \in Pods : row[p] \in {"warm", "starting"}}) \in Nat
    BY PoolCount
  <2>2. wanted' \in Nat
    BY <1>4, <2>1 DEF FillPool, OthersOK
  <2>3. UNCHANGED <<row, owner, pod, served, maker, killer, assigning, ready>>
    BY <1>4 DEF FillPool, database
  <2>4. OthersOK'
    BY <1>2, <2>2, <2>3 DEF OthersOK
  <2>5. Background
    BY <2>3 DEF Background, RowStep, MakerStep, PodChange
  <2>6. QED
    BY <2>4, <2>5
<1>5. CASE InsertWarm
  <2>1. /\ wanted' \in Nat
        /\ UNCHANGED <<owner, served, killer, assigning, ready>>
    BY <1>5 DEF InsertWarm, OthersOK
  <2>2. /\ row' \in [Pods -> Statuses] /\ maker' \in [Pods -> Makers]
        /\ pod' \in [Pods -> {"none", "up", "gone"}]
        /\ \A p \in Pods :
             \/ row'[p] = row[p] /\ maker'[p] = maker[p] /\ pod'[p] = pod[p]
             \/ /\ row[p] = "none" /\ maker[p] = "none" /\ row'[p] = "starting"
                /\ pod'[p] = "none" /\ ~Exists(p) /\ \A c \in Calls : target[c] # p
    BY <1>5 DEF InsertWarm, Fresh, OthersOK
  <2>3. OthersOK'
    BY <1>2, <2>1, <2>2 DEF OthersOK
  <2>4. Background
    <3>1. \A p \in Pods : maker'[p] = "none" \/ maker[p] # "none"
                          \/ (row[p] = "none" /\ row'[p] = "starting")
      BY <2>2 DEF OthersOK
    <3>2. \A p \in Pods : ~Exists(p) => p \notin served
      BY DEF Rows, RowInv
    <3>3. QED
      BY <2>1, <2>2, <3>1, <3>2 DEF Background, RowStep, MakerStep, PodChange
  <2>5. QED
    BY <2>3, <2>4
<1>6. ASSUME NEW p \in Pods, PodStep(p)
      PROVE  OthersOK' /\ Background
  <2>1. ASSUME NEW a \in Answers, Remove(p, a)
        PROVE  /\ pod' \in [Pods -> {"none", "up", "gone"}] /\ served' \in SUBSET Pods
               /\ \A q \in Pods : \/ pod'[q] = pod[q] /\ (q \in served' <=> q \in served)
                                  \/ pod'[q] # "up" /\ q \notin served'
    BY <2>1, RemoveEffect
  <2>2. CASE MakeCreate(p)
    <3>1. /\ maker[p] = "create" /\ maker' = [maker EXCEPT ![p] = "boot"]
          /\ pod' = [pod EXCEPT ![p] = "up"]
          /\ UNCHANGED <<row, owner, served, wanted, killer, assigning, ready>>
      BY <2>2 DEF MakeCreate, MakerGoes
    <3>2. OthersOK'
      BY <1>2, <3>1 DEF OthersOK
    <3>3. Background
      BY <3>1 DEF OthersOK, Background, RowStep, MakerStep, PodChange
    <3>4. QED
      BY <3>2, <3>3
  <2>3. CASE MakeWarm(p)
    <3>1. /\ maker[p] = "boot" /\ maker' = [maker EXCEPT ![p] = "none"]
          /\ row' = [row EXCEPT ![p] = "warm"]
          /\ UNCHANGED <<owner, pod, served, wanted, killer, assigning, ready>>
      BY <2>3 DEF MakeWarm, MakerGoes
    <3>2. OthersOK'
      BY <1>2, <3>1 DEF OthersOK
    <3>3. Background
      BY <3>1 DEF OthersOK, Background, RowStep, MakerStep, PodChange
    <3>4. QED
      BY <3>2, <3>3
  <2>4. CASE MakeFails(p)
    <3>1. /\ maker[p] # "none" /\ maker' \in [Pods -> Makers]
          /\ \A q \in Pods \ {p} : maker'[q] = maker[q] /\ row'[q] = row[q]
          /\ row' \in [Pods -> Statuses] /\ row'[p] \in {row[p], "terminated"}
          /\ UNCHANGED <<owner, pod, served, wanted, killer, assigning, ready>>
      BY <2>4 DEF MakeFails, MakerGoes, OthersOK
    <3>2. OthersOK'
      BY <1>2, <3>1 DEF OthersOK
    <3>3. Background
      <4>1. row[p] # "none"
        BY <1>3, <3>1
      <4>2. \A q \in Pods : RowStep(q)
        BY <3>1, <4>1 DEF RowStep
      <4>3. \A q \in Pods : MakerStep(q) /\ PodChange(q)
        BY <3>1 DEF MakerStep, PodChange
      <4>4. QED
        BY <3>1, <4>2, <4>3 DEF Background
    <3>4. QED
      BY <3>2, <3>3
  <2>5. CASE MakeUndone(p)
    <3>1. /\ maker' = [maker EXCEPT ![p] = "none"]
          /\ \E a \in Answers : Remove(p, a)
          /\ UNCHANGED <<row, owner, wanted, killer, assigning, ready>>
      BY <2>5 DEF MakeUndone, MakerGoes
    <3>2. OthersOK'
      BY <1>2, <2>1, <3>1 DEF OthersOK
    <3>3. Background
      BY <2>1, <3>1 DEF OthersOK, Background, RowStep, MakerStep, PodChange
    <3>4. QED
      BY <3>2, <3>3
  <2>6. CASE Release(p)
    <3>1. /\ row[p] = "assigned" /\ killer' = [killer EXCEPT ![p] = "kill"]
          /\ row' \in [Pods -> Statuses] /\ served' \in SUBSET Pods
          /\ UNCHANGED <<owner, pod, maker, wanted, assigning, ready>>
      BY <2>6 DEF Release, KillerGoes, OthersOK, warming
    <3>2. /\ \A q \in Pods \ {p} : row'[q] = row[q] /\ (q \in served' <=> q \in served)
          /\ \/ row'[p] = "draining" /\ (p \notin served' \/ served' = served)
             \/ row'[p] = row[p] /\ served' = served
      BY <2>6 DEF Release, OthersOK
    <3>3. OthersOK'
      BY <1>2, <3>1 DEF OthersOK
    <3>4. Background
      <4>1. \A q \in Pods : RowStep(q) /\ MakerStep(q)
        BY <3>1, <3>2 DEF RowStep, MakerStep
      <4>2. \A q \in Pods : PodChange(q)
        BY <3>1, <3>2 DEF PodChange
      <4>3. QED
        BY <3>1, <4>1, <4>2 DEF Background
    <3>5. QED
      BY <3>3, <3>4
  <2>7. CASE Discard(p)
    <3>1. /\ killer' = [killer EXCEPT ![p] = "kill"]
          /\ UNCHANGED <<row, owner, pod, served, maker, wanted, assigning, ready>>
      BY <2>7 DEF Discard, KillerGoes, warming
    <3>2. OthersOK'
      BY <1>2, <3>1 DEF OthersOK
    <3>3. Background
      BY <3>1 DEF Background, RowStep, MakerStep, PodChange
    <3>4. QED
      BY <3>2, <3>3
  <2>8. CASE BackgroundKill(p)
    <3>1. PICK a \in Answers : /\ killer' = [killer EXCEPT ![p] = a]
                               /\ Remove(p, a)
                               /\ UNCHANGED <<row, owner, maker, wanted, assigning, ready>>
      BY <2>8 DEF BackgroundKill, KillerGoes, warming
    <3>2. OthersOK'
      BY <1>2, <2>1, <3>1 DEF OthersOK
    <3>3. Background
      BY <2>1, <3>1 DEF Background, RowStep, MakerStep, PodChange
    <3>4. QED
      BY <3>2, <3>3
  <2>9. CASE BackgroundKilled(p)
    <3>1. /\ killer' = [killer EXCEPT ![p] = "none"] /\ killer[p] # "none"
          /\ row' \in [Pods -> Statuses]
          /\ \A q \in Pods \ {p} : row'[q] = row[q]
          /\ row'[p] = row[p] \/ (row[p] # "none" /\ row'[p] \in {"draining", "terminated"})
          /\ UNCHANGED <<owner, pod, served, maker, wanted, assigning, ready>>
      BY <2>9 DEF BackgroundKilled, KillerGoes, Update, DeletedStatus, OthersOK, warming
    <3>2. OthersOK'
      BY <1>2, <3>1 DEF OthersOK
    <3>3. Background
      BY <3>1 DEF Background, RowStep, MakerStep, PodChange
    <3>4. QED
      BY <3>2, <3>3
  <2>10. CASE Break(p)
    <3>1. /\ Remove(p, "gone")
          /\ UNCHANGED <<row, owner, maker, wanted, killer, assigning, ready>>
      BY <2>10 DEF Break, database, warming
    <3>2. OthersOK'
      BY <1>2, <2>1, <3>1, "gone" \in Answers DEF OthersOK
    <3>3. Background
      BY <2>1, <3>1, "gone" \in Answers DEF Background, RowStep, MakerStep, PodChange
    <3>4. QED
      BY <3>2, <3>3
  <2>11. CASE Watch(p)
    <3>1. /\ row[p] # "none" /\ row' = [row EXCEPT ![p] = "terminated"]
          /\ UNCHANGED <<owner, pod, served, maker, wanted, killer, assigning, ready>>
      BY <2>11 DEF Watch, warming
    <3>2. OthersOK'
      BY <1>2, <3>1 DEF OthersOK
    <3>3. Background
      BY <3>1 DEF OthersOK, Background, RowStep, MakerStep, PodChange
    <3>4. QED
      BY <3>2, <3>3
  <2>12. CASE Purge(p)
    <3>1. /\ maker[p] = "none"
          /\ \A c \in Calls : target[c] = p => stage[c] \notin {"create", "boot"}
          /\ row' = [row EXCEPT ![p] = "none"] /\ owner' = [owner EXCEPT ![p] = None]
          /\ UNCHANGED <<pod, served, maker, wanted, killer, assigning, ready>>
      BY <2>12 DEF Purge, warming
    <3>2. OthersOK'
      BY <1>2, <3>1 DEF OthersOK
    <3>3. Background
      BY <3>1 DEF OthersOK, Background, RowStep, MakerStep, PodChange
    <3>4. QED
      BY <3>2, <3>3
  <2>13. QED
    BY <1>6, <2>2, <2>3, <2>4, <2>5, <2>6, <2>7, <2>8, <2>9, <2>10, <2>11, <2>12
      DEF PodStep
<1>7. QED
  BY <1>4, <1>5, <1>6

-------------------------------------------------------------------------------
(* reconcile.                                                                *)

\* What reconcile knows holds through its own steps.
LEMMA ReconcileKeeps ==
    ASSUME OthersOK, Rows, ScanInv,
           \/ \E p \in Pods : ReconcileStep(p)
           \/ Reconcile /\ Left
           \/ List /\ Left
           \/ Finish /\ Left
           \/ Abandon /\ Left
    PROVE  OthersOK' /\ Background /\ Left /\ ScanInv'
<1> USE DEF Statuses, Live, Makers, Answers, Todos
<1>1. Left
  BY DEF ReconcileStep
<1>2. cutOff' \in SUBSET Pods
  BY <1>1 DEF Left
<1>3. ASSUME UNCHANGED <<row, owner, pod, served, others>>
      PROVE  Background
  BY <1>3 DEF Background, RowStep, MakerStep, PodChange, others, warming
<1>4. CASE Reconcile
  <2>1. /\ UNCHANGED <<row, owner, pod, served, todo, ready, others>>
        /\ scan' = "listing" /\ touched' = {}
        /\ seen' = [p \in Pods |-> CASE row[p] \in Live -> "live"
                                     [] row[p] = "draining" -> "draining"
                                     [] OTHER -> "no"]
    BY <1>4 DEF Reconcile, database
  <2>2. \A p \in Pods : /\ seen'[p] \in {"no", "live", "draining"}
                        /\ seen'[p] = "live" <=> row[p] \in Live
                        /\ seen'[p] = "draining" <=> row[p] = "draining"
    BY <2>1
  <2>3. OthersOK'
    <3>1. seen' \in [Pods -> {"no", "live", "draining"}]
      BY <2>1, <2>2
    <3>2. QED
      BY <1>2, <2>1, <3>1 DEF OthersOK, others, warming
  <2>4. ScanInv'
    BY <2>1, <2>2 DEF ScanInv, Told
  <2>5. QED
    BY <1>1, <1>3, <2>1, <2>3, <2>4
<1>5. CASE List
  <2>1. /\ UNCHANGED <<row, owner, pod, served, ready, touched, others>>
        /\ scan = "listing" /\ scan' = "working"
        /\ todo' = [p \in Pods |-> TodoOf(p)] /\ seen' = [p \in Pods |-> "no"]
    BY <1>5 DEF List, database
  <2>2. \A p \in Pods : TodoOf(p) \in {"mark", "remove", "retry", "none"}
    BY DEF TodoOf
  <2>3. OthersOK'
    BY <1>2, <2>1, <2>2 DEF OthersOK, others, warming
  <2>4. ASSUME NEW p \in Pods, p \notin touched
        PROVE  Told(p)'
    <3>1. /\ seen[p] = "live" <=> row[p] \in Live
          /\ seen[p] = "draining" <=> row[p] = "draining"
          /\ seen[p] \in {"no", "live", "draining"} /\ row[p] \in Statuses
      BY <2>1, <2>4 DEF ScanInv, Told, OthersOK
    <3>2. todo'[p] = TodoOf(p) /\ row' = row /\ pod' = pod /\ scan' = "working"
      BY <2>1
    <3>3. QED
      BY <3>1, <3>2 DEF Told, TodoOf, Agree, Exists
  <2>5. QED
    BY <1>1, <1>3, <2>1, <2>3, <2>4 DEF ScanInv
<1>6. CASE Finish
  <2>1. PICK old \in SUBSET {p \in Pods : row[p] = "starting"} :
          row' = [p \in Pods |-> IF p \in old THEN "terminated" ELSE row[p]]
    BY <1>6 DEF Finish
  <2>2. /\ UNCHANGED <<owner, pod, served, seen, todo, others>>
        /\ scan' = "off" /\ ready' = TRUE /\ touched' = {}
    BY <1>6 DEF Finish
  <2>3. OthersOK'
    BY <1>2, <2>1, <2>2 DEF OthersOK, others, warming
  <2>4. Background
    BY <2>1, <2>2 DEF Background, RowStep, MakerStep, PodChange, others, warming
  <2>5. ScanInv'
    BY <2>2 DEF ScanInv, Told
  <2>6. QED
    BY <1>1, <2>3, <2>4, <2>5
<1>7. CASE Abandon
  <2>1. /\ UNCHANGED <<row, owner, pod, served, others>>
        /\ scan' = "off" /\ ready' = TRUE /\ touched' = {}
        /\ seen' = [p \in Pods |-> "no"] /\ todo' = [p \in Pods |-> "none"]
    BY <1>7 DEF Abandon, database
  <2>2. OthersOK'
    BY <1>2, <2>1 DEF OthersOK, others, warming
  <2>3. ScanInv'
    BY <2>1 DEF ScanInv, Told
  <2>4. QED
    BY <1>1, <1>3, <2>1, <2>2, <2>3
<1>8. ASSUME NEW p \in Pods, ReconcileStep(p)
      PROVE  OthersOK' /\ Background /\ ScanInv'
  <2>1. ASSUME NEW a \in Answers, Remove(p, a)
        PROVE  /\ pod' \in [Pods -> {"none", "up", "gone"}] /\ served' \in SUBSET Pods
               /\ \A q \in Pods : \/ pod'[q] = pod[q] /\ (q \in served' <=> q \in served)
                                  \/ pod'[q] # "up" /\ q \notin served'
               /\ \A q \in Pods \ {p} : pod'[q] = pod[q]
               /\ a = "gone" => pod'[p] = "gone"
               /\ a = "kept" => pod'[p] = pod[p]
    BY <2>1, RemoveEffect
  <2>2. \A q \in Pods : q \notin touched => Told(q)
    BY DEF ScanInv
  <2>3. CASE MarkOrphan(p)
    <3>1. /\ scan = "working" /\ todo[p] = "mark" /\ todo' = [todo EXCEPT ![p] = "none"]
          /\ UNCHANGED <<owner, pod, served, scan, seen, ready, touched, others>>
      BY <2>3 DEF MarkOrphan, Done
    <3>2. /\ row' \in [Pods -> Statuses]
          /\ \A q \in Pods \ {p} : row'[q] = row[q]
          /\ row'[p] = IF row[p] = "none" THEN "none" ELSE "terminated"
      BY <2>3 DEF MarkOrphan, Update, OthersOK
    <3>3. OthersOK'
      BY <1>2, <3>1, <3>2 DEF OthersOK, others, warming
    <3>4. Background
      BY <3>1, <3>2 DEF Background, RowStep, MakerStep, PodChange, others, warming
    <3>5. ScanInv'
      <4>1. ASSUME NEW q \in Pods, q \notin touched
            PROVE  Told(q)'
        <5>1. Told(q)
          BY <2>2, <4>1
        <5>2. CASE q = p
          BY <3>1, <3>2, <5>1, <5>2 DEF Told, Agree, Exists, OthersOK
        <5>3. CASE q # p
          BY <3>1, <3>2, <5>1, <5>3 DEF Told, Agree, Exists, OthersOK
        <5>4. QED
          BY <5>2, <5>3
      <4>2. QED
        BY <3>1, <4>1 DEF ScanInv
    <3>6. QED
      BY <3>3, <3>4, <3>5
  <2>4. CASE RemoveOrphan(p)
    <3>1. /\ scan = "working" /\ todo[p] = "remove" /\ todo' = [todo EXCEPT ![p] = "none"]
          /\ UNCHANGED <<row, owner, scan, seen, ready, others>>
      BY <2>4 DEF RemoveOrphan, Done
    <3>2. PICK a \in Answers :
            /\ Remove(p, a)
            /\ touched' = IF a = "gone" THEN touched ELSE touched \cup {p}
      BY <2>4 DEF RemoveOrphan
    <3>3. OthersOK'
      BY <1>2, <2>1, <3>1, <3>2 DEF OthersOK, others, warming
    <3>4. Background
      BY <2>1, <3>1, <3>2 DEF Background, RowStep, MakerStep, PodChange, others, warming
    <3>5. ScanInv'
      <4>1. ASSUME NEW q \in Pods, q \notin touched'
            PROVE  Told(q)'
        <5>1. Told(q) /\ (q = p => a = "gone")
          BY <2>2, <3>2, <4>1
        <5>2. CASE q = p
          BY <2>1, <3>1, <3>2, <5>1, <5>2 DEF Told, Agree, Exists, OthersOK
        <5>3. CASE q # p
          BY <2>1, <3>1, <3>2, <5>1, <5>3 DEF Told, Agree, Exists, OthersOK
        <5>4. QED
          BY <5>2, <5>3
      <4>2. QED
        BY <4>1 DEF ScanInv
    <3>6. QED
      BY <3>3, <3>4, <3>5
  <2>5. CASE RetryDelete(p)
    <3>1. /\ scan = "working" /\ todo[p] = "retry"
          /\ UNCHANGED <<row, owner, scan, seen, ready, touched, others>>
      BY <2>5 DEF RetryDelete, database
    <3>2. PICK a \in Answers : Remove(p, a) /\ todo' = [todo EXCEPT ![p] = a]
      BY <2>5 DEF RetryDelete
    <3>3. OthersOK'
      BY <1>2, <2>1, <3>1, <3>2 DEF OthersOK, others, warming
    <3>4. Background
      BY <2>1, <3>1, <3>2 DEF Background, RowStep, MakerStep, PodChange, others, warming
    <3>5. ScanInv'
      <4>1. ASSUME NEW q \in Pods, q \notin touched
            PROVE  Told(q)'
        <5>1. Told(q)
          BY <2>2, <4>1
        <5>2. CASE q = p
          BY <2>1, <3>1, <3>2, <5>1, <5>2 DEF Told, Agree, Exists, OthersOK
        <5>3. CASE q # p
          BY <2>1, <3>1, <3>2, <5>1, <5>3 DEF Told, Agree, Exists, OthersOK
        <5>4. QED
          BY <5>2, <5>3
      <4>2. QED
        BY <3>1, <4>1 DEF ScanInv
    <3>6. QED
      BY <3>3, <3>4, <3>5
  <2>6. CASE Retried(p)
    <3>1. PICK a \in Answers :
            /\ scan = "working" /\ todo[p] = a /\ todo' = [todo EXCEPT ![p] = "none"]
            /\ Update(p, DeletedStatus(p, a))
            /\ UNCHANGED <<owner, pod, served, scan, seen, ready, touched, others>>
      BY <2>6 DEF Retried, Done
    <3>2. /\ row' \in [Pods -> Statuses]
          /\ \A q \in Pods \ {p} : row'[q] = row[q]
          /\ row'[p] = IF row[p] = "none" THEN "none"
                       ELSE IF a = "gone" THEN "terminated" ELSE "draining"
      BY <3>1 DEF Update, DeletedStatus, OthersOK
    <3>3. OthersOK'
      BY <1>2, <3>1, <3>2 DEF OthersOK, others, warming
    <3>4. Background
      BY <3>1, <3>2 DEF Background, RowStep, MakerStep, PodChange, others, warming
    <3>5. ScanInv'
      <4>1. ASSUME NEW q \in Pods, q \notin touched
            PROVE  Told(q)'
        <5>1. Told(q)
          BY <2>2, <4>1
        <5>2. CASE q = p
          BY <3>1, <3>2, <5>1, <5>2 DEF Told, Agree, Exists, OthersOK
        <5>3. CASE q # p
          BY <3>1, <3>2, <5>1, <5>3 DEF Told, Agree, Exists, OthersOK
        <5>4. QED
          BY <5>2, <5>3
      <4>2. QED
        BY <3>1, <4>1 DEF ScanInv
    <3>6. QED
      BY <3>3, <3>4, <3>5
  <2>7. QED
    BY <1>8, <2>3, <2>4, <2>5, <2>6 DEF ReconcileStep
<1>9. QED
  BY <1>1, <1>4, <1>5, <1>6, <1>7, <1>8

-------------------------------------------------------------------------------
(* The invariant.                                                            *)

Calling == AssigningOK /\ CallsInv /\ Exclusive

LEMMA InvParts == PodInv <=> Calling /\ OthersOK /\ Rows /\ ScanInv
BY TypeParts DEF PodInv, Calling, Rows, AssigningOK

\* The program starts with an empty table and an empty cluster.
LEMMA PodInit == Init => PodInv
<1> SUFFICES ASSUME Init PROVE PodInv
  OBVIOUS
<1>1. {c \in Calls : demand[c]} = {}
  BY DEF Init
<1>2. OnDemandCounted
  BY <1>1, FS_EmptySet DEF Init, OnDemandCounted
<1>3. AssigningOK
  BY <1>2 DEF Init, AssigningOK, Stages
<1>4. OthersOK
  BY DEF Init, OthersOK, Statuses, Makers, Killers, Todos
<1>5. CallsInv /\ Exclusive
  BY DEF Init, CallsInv, Exclusive, Locked, AtPod, Answers
<1>6. Rows
  BY DEF Init, Rows, RowInv, AtInv, OneEditor, HoldInv, LoadInv, Locked, AtPod, Answers
<1>7. ScanInv
  BY DEF Init, ScanInv, Told
<1>8. QED
  BY <1>3, <1>4, <1>5, <1>6, <1>7, InvParts DEF Calling

\* After a crash no call is at work, and the pods they were loading are cut off.
LEMMA CrashKeeps ==
    ASSUME AssigningOK, OthersOK, Rows, Crash, Left
    PROVE  Calling' /\ OthersOK' /\ Rows' /\ ScanInv'
<1> USE DEF Locked, AtPod, Answers
<1>1. /\ UNCHANGED <<row, owner, pod, served>>
      /\ maker' = [p \in Pods |-> "none"] /\ wanted' = 0
      /\ killer' = [p \in Pods |-> "none"]
      /\ stage' = [c \in Calls |-> "idle"]
      /\ user' = [c \in Calls |-> None] /\ target' = [c \in Calls |-> None]
      /\ tries' = [c \in Calls |-> 0] /\ demand' = [c \in Calls |-> FALSE]
      /\ onDemand' = 0 /\ ready' = FALSE /\ scan' = "off" /\ touched' = {}
      /\ seen' = [p \in Pods |-> "no"] /\ todo' = [p \in Pods |-> "none"]
  BY DEF Crash, database
<1>2. {c \in Calls : demand'[c]} = {}
  BY <1>1
<1>3. OnDemandCounted'
  BY <1>1, <1>2, FS_EmptySet DEF OnDemandCounted
<1>4. AssigningOK'
  BY <1>1, <1>3 DEF AssigningOK, Stages
<1>5. OthersOK'
  BY <1>1 DEF OthersOK, Left, Makers, Killers, Todos
<1>6. CallsInv' /\ Exclusive'
  BY <1>1 DEF CallsInv, Exclusive
<1>7. RowInv' /\ AtInv' /\ OneEditor' /\ HoldInv'
  BY <1>1 DEF Rows, RowInv, AtInv, OneEditor, HoldInv, Exists
<1>8. LoadInv'
  <2>1. ASSUME NEW p \in Pods, row'[p] = "assigned", Exists(p)', p \notin served'
        PROVE  p \in cutOff'
    <3>1. p \in cutOff \/ \E c \in Calls : target[c] = p /\ stage[c] \in Answers \cup {"load"}
      BY <1>1, <2>1 DEF Rows, LoadInv, Exists
    <3>2. QED
      BY <1>1, <2>1, <3>1 DEF Left
  <2>2. QED
    BY <2>1 DEF LoadInv
<1>9. ScanInv'
  BY <1>1 DEF ScanInv, Told
<1>10. QED
  BY <1>4, <1>5, <1>6, <1>7, <1>8, <1>9 DEF Calling, Rows

LEMMA PodStepInv == PodInv /\ [Next]_vars => PodInv'
<1> SUFFICES ASSUME PodInv, [Next]_vars PROVE PodInv'
  OBVIOUS
<1>1. Calling /\ OthersOK /\ Rows /\ ScanInv
  BY InvParts
<1>2. AssigningOK /\ CallsInv /\ Exclusive
  BY <1>1 DEF Calling
<1>3. ASSUME Calling' /\ OthersOK' /\ Rows' /\ ScanInv'
      PROVE  PodInv'
  BY <1>3, TypeParts DEF PodInv, Calling, Rows, AssigningOK, OthersOK, TypeOK
<1>4. ASSUME NEW c \in Calls, CallStep(c)
      PROVE  PodInv'
  <2>1. Noted
    BY <1>4 DEF CallStep
  <2>2. Calling'
    BY <1>2, <1>4, CallKeepsCalls DEF Calling
  <2>3. OthersOK' /\ Rows'
    BY <1>1, <1>2, <1>4, CallKeepsRows
  <2>4. ScanInv'
    BY <1>1, <2>1, NotedScan
  <2>5. QED
    BY <1>3, <2>2, <2>3, <2>4
<1>5. ASSUME Background, Left, OthersOK', ScanInv'
      PROVE  PodInv'
  <2>1. Calling'
    BY <1>2, <1>5, BackgroundKeepsCalls DEF Background, Calling
  <2>2. Rows'
    BY <1>1, <1>2, <1>5, BackgroundKeepsRows
  <2>3. QED
    BY <1>3, <1>5, <2>1, <2>2
<1>6. ASSUME (\E p \in Pods : PodStep(p)) \/ (FillPool /\ Noted) \/ (InsertWarm /\ Noted)
      PROVE  PodInv'
  <2>1. Noted
    BY <1>6 DEF PodStep
  <2>2. OthersOK' /\ Background
    BY <1>1, <1>6, PodStepEffect
  <2>3. Left /\ ScanInv'
    BY <1>1, <2>1, NotedEffect, NotedScan
  <2>4. QED
    BY <1>5, <2>2, <2>3
<1>7. ASSUME \/ \E p \in Pods : ReconcileStep(p)
             \/ Reconcile /\ Left
             \/ List /\ Left
             \/ Finish /\ Left
             \/ Abandon /\ Left
      PROVE  PodInv'
  BY <1>1, <1>5, <1>7, ReconcileKeeps
<1>8. CASE Crash /\ Left
  BY <1>1, <1>2, <1>3, <1>8, CrashKeeps
<1>9. CASE UNCHANGED vars
  BY <1>9 DEF PodInv, vars, TypeOK, OnDemandCounted, CallsInv, Exclusive, RowInv, AtInv,
              OfUser, OneEditor, HoldInv, LoadInv, ScanInv, Told, Agree, Exists
<1>10. QED
  BY <1>4, <1>6, <1>7, <1>8, <1>9 DEF Next

THEOREM PodInvariant == Spec => []PodInv
<1>1. Init => PodInv
  BY PodInit
<1>2. PodInv /\ [Next]_vars => PodInv'
  BY PodStepInv
<1>3. QED
  BY <1>1, <1>2, PTL DEF Spec

-------------------------------------------------------------------------------
(* The properties.                                                           *)

\* Rows, pods, handlers and counters have their types; there are never more on-demand
\* creations than MAX_CONCURRENT_ON_DEMAND (pod-manager.ts:264).
THEOREM PodTypes == Spec => []TypeOK
<1>1. PodInv => TypeOK
  BY DEF PodInv
<1>2. QED
  BY <1>1, PodInvariant, PTL

\* No user ever has two assigned pods (the lock of assignPod, pod-manager.ts:198).
THEOREM PodOneEditor == Spec => []OneEditor
<1>1. PodInv => OneEditor
  BY DEF PodInv
<1>2. QED
  BY <1>1, PodInvariant, PTL

\* A warm pod has never had a user's flows, and an assigned pod has an owner
\* (assignPod, createAndAssignPod, createWarmPod).
THEOREM PodPrivate == Spec => []Private
<1>1. PodInv => Private
  BY DEF PodInv, RowInv, Private
<1>2. QED
  BY <1>1, PodInvariant, PTL

\* onDemandCount is the number of calls inside createAndAssignPod
\* (pod-manager.ts:511, 548).
THEOREM PodOnDemandCounted == Spec => []OnDemandCounted
<1>1. PodInv => OnDemandCounted
  BY DEF PodInv
<1>2. QED
  BY <1>1, PodInvariant, PTL

\* assignPod returns a pod of its user, with flows, but for the races and cut-offs
\* that the property names (pod-manager.ts:201-258).
THEOREM PodHandedWithFlows == Spec => HandedWithFlows
<1>1. ASSUME PodInv, [Next]_vars, NEW c \in Calls, PingOk(c) \/ Load(c)
      PROVE  LET p == target[c]
             IN  row[p] = "assigned" =>
                   owner[p] = user[c] /\ (p \in served' \/ p \in cutOff)
  <2>1. stage[c] \in {"ping", "load"} /\ Exists(target[c])
    BY <1>1 DEF PingOk, Load
  <2>2. target[c] \in Pods /\ (row[target[c]] # "none" => owner[target[c]] = user[c])
    BY <1>1, <2>1 DEF PodInv, AtInv, OfUser, AtPod
  <2>3. CASE Load(c)
    BY <2>2, <2>3 DEF Load
  <2>4. CASE PingOk(c)
    <3>1. stage[c] = "ping" /\ served' = served
      BY <2>4 DEF PingOk
    <3>2. ASSUME NEW d \in Calls, target[d] = target[c], row[target[c]] = "assigned",
                 stage[d] \in Answers \cup {"load"}
          PROVE  FALSE
      <4>1. owner[target[d]] = user[d]
        BY <1>1, <3>2 DEF PodInv, AtInv, OfUser, AtPod
      <4>2. d = c
        BY <1>1, <2>2, <3>1, <3>2, <4>1 DEF PodInv, Exclusive, Locked, AtPod
      <4>3. QED
        BY <3>1, <3>2, <4>2 DEF Answers
    <3>3. QED
      BY <1>1, <2>1, <2>2, <3>1, <3>2 DEF PodInv, LoadInv
  <2>5. QED
    BY <1>1, <2>3, <2>4
<1>2. PodInv /\ [Next]_vars =>
        [\A c \in Calls : PingOk(c) \/ Load(c) =>
           LET p == target[c]
           IN  row[p] = "assigned" =>
                 owner[p] = user[c] /\ (p \in served' \/ p \in cutOff)]_vars
  BY <1>1
<1>3. QED
  BY <1>2, PodInvariant, PTL DEF Spec, HandedWithFlows

\* A reconcile that ends has repaired every pod that only it has changed, unless a
\* deletion failed or the row is new (pod-manager.ts:610-677).
THEOREM PodReconcileRepairs == Spec => ReconcileRepairs
<1>1. ASSUME PodInv, Finish, NEW p \in Pods, p \notin touched, row[p] # "starting"
      PROVE  Agree(p)'
  <2>1. Agree(p)
    BY <1>1 DEF Finish, PodInv, ScanInv, Told
  <2>2. row'[p] = row[p] /\ pod'[p] = pod[p]
    BY <1>1 DEF Finish
  <2>3. QED
    BY <2>1, <2>2 DEF Agree, Exists
<1>2. PodInv /\ [Next]_vars =>
        [Finish => \A p \in Pods : p \in touched \/ row[p] = "starting" \/ Agree(p)']_vars
  BY <1>1
<1>3. QED
  BY <1>2, PodInvariant, PTL DEF Spec, ReconcileRepairs
===============================================================================
