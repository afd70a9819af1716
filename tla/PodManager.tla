------------------------------ MODULE PodManager ------------------------------
(***************************************************************************)
(* The Node-RED pods of the gateway (osf-gateway/src/nodered/              *)
(* pod-manager.ts): the table nodered_pods, the pods of the cluster, and   *)
(* the handlers that work on both, each of them one await after the other: *)
(* assignPod, createWarmPod, deletePod and the handlers that end in it,    *)
(* the watch, and reconcile.                                               *)
(*                                                                         *)
(* A call of assignPod is an element of Calls.  A createWarmPod or a       *)
(* background deletion is identified by its pod.  Health checks, creations *)
(* and deletions may fail at any time, and time-outs and the K8s breaker   *)
(* are such failures.  pod_ip and nr_ready are left out: rows get them     *)
(* together with "warm" or "assigned".                                     *)
(***************************************************************************)
EXTENDS Naturals, FiniteSets

CONSTANTS
    Pods,           \* pod names; a name is used again when nothing knows it any more
    Users,
    Calls,          \* ids of calls of assignPod, used again
    None,           \* no user, no pod
    PoolSize,       \* NR_POOL_SIZE
    MaxHandlers,    \* bound: handlers in progress at once, of all kinds (see Handlers)
    MaxOnDemand,    \* MAX_CONCURRENT_ON_DEMAND
    MaxTries        \* MAX_RETRIES of assignPod

ASSUME PodConstants ==
    /\ None \notin Pods \cup Users
    /\ IsFiniteSet(Pods) /\ IsFiniteSet(Calls)
    /\ PoolSize \in Nat /\ MaxHandlers \in Nat
    /\ MaxOnDemand \in Nat /\ MaxTries \in Nat

VARIABLES
    row,        \* nodered_pods.status, "none" if the pod has no row
    owner,      \* nodered_pods.assigned_user_id, which is never cleared
    pod,        \* the pod in the cluster: "none" before its creation, "up" or "gone"
    served,     \* the pods in which the flows of a user were loaded
    maker,      \* how far createWarmPod has come with the pod
    wanted,     \* createWarmPod calls that fillPool has started and that have no row yet
    killer,     \* how far a background releasePod or deletePod has come with the pod
    stage,      \* how far each call of assignPod has come
    user,       \* its userId
    target,     \* the pod it is at work on
    tries,      \* the warm pods it has claimed
    demand,     \* is it inside createAndAssignPod?
    onDemand,   \* onDemandCount
    ready,      \* initialized
    scan,       \* of reconcile: "off", "listing" after its SELECT, "working"
    seen,       \* dbPods: what the SELECT found of each pod
    todo,       \* what is left to do about each pod
    \* History, read by the properties only:
    touched,    \* pods that others than reconcile changed since its SELECT
    cutOff      \* assigned pods that a call has left without flows

database == <<row, owner>>
warming == <<maker, wanted>>
assigning == <<stage, user, target, tries, demand, onDemand>>
scanning == <<scan, seen, todo>>
vars == <<row, owner, pod, served, maker, wanted, killer, stage, user, target, tries,
          demand, onDemand, ready, scan, seen, todo, touched, cutOff>>

Live == {"starting", "warm", "assigned"}
Statuses == Live \cup {"none", "draining", "terminated"}
Exists(p) == pod[p] = "up"      \* whether it answers shows when it is asked

\* A deletePod that has the answer of Kubernetes and awaits its UPDATE.
Answers == {"gone", "kept"}
\* Where a call holds the advisory lock of its user, and where it has a pod.
AtPod == Answers \cup {"ping", "load", "create", "boot"}
Locked == AtPod \cup {"claim"}
Stages == Locked \cup {"idle", "wait"}
Makers == {"none", "create", "boot", "undo"}
Killers == Answers \cup {"none", "kill"}
Todos == Answers \cup {"none", "mark", "remove", "retry"}

TypeOK ==
    /\ row \in [Pods -> Statuses]
    /\ owner \in [Pods -> Users \cup {None}]
    /\ pod \in [Pods -> {"none", "up", "gone"}]
    /\ served \in SUBSET Pods
    /\ maker \in [Pods -> Makers] /\ wanted \in Nat
    /\ killer \in [Pods -> Killers]
    /\ stage \in [Calls -> Stages]
    /\ user \in [Calls -> Users \cup {None}]
    /\ target \in [Calls -> Pods \cup {None}]
    /\ tries \in [Calls -> 0..MaxTries]
    /\ demand \in [Calls -> BOOLEAN] /\ onDemand \in 0..MaxOnDemand
    /\ ready \in BOOLEAN
    /\ scan \in {"off", "listing", "working"}
    /\ seen \in [Pods -> {"no", "live", "draining"}]
    /\ todo \in [Pods -> Todos]
    /\ touched \in SUBSET Pods /\ cutOff \in SUBSET Pods

Init ==
    /\ row = [p \in Pods |-> "none"] /\ owner = [p \in Pods |-> None]
    /\ pod = [p \in Pods |-> "none"] /\ served = {}
    /\ maker = [p \in Pods |-> "none"] /\ wanted = 0
    /\ killer = [p \in Pods |-> "none"]
    /\ stage = [c \in Calls |-> "idle"]
    /\ user = [c \in Calls |-> None] /\ target = [c \in Calls |-> None]
    /\ tries = [c \in Calls |-> 0] /\ demand = [c \in Calls |-> FALSE]
    /\ onDemand = 0 /\ ready = FALSE
    /\ scan = "off"
    /\ seen = [p \in Pods |-> "no"] /\ todo = [p \in Pods |-> "none"]
    /\ touched = {} /\ cutOff = {}

-------------------------------------------------------------------------------
(* Shared parts.                                                             *)

\* The number of handlers in progress; a reconcile counts twice.
Handlers ==
    Cardinality({c \in Calls : stage[c] # "idle"}) + wanted
      + Cardinality({p \in Pods : maker[p] # "none"})
      + Cardinality({p \in Pods : killer[p] # "none"})
      + (IF scan = "off" THEN 0 ELSE 2)

Room == Handlers < MaxHandlers

\* The API call of deletePod: the pod is deleted, or was gone already, or all
\* attempts fail.
Remove(p, answer) ==
    \/ answer = "gone" /\ pod' = [pod EXCEPT ![p] = "gone"] /\ served' = served \ {p}
    \/ answer = "kept" /\ UNCHANGED <<pod, served>>

\* Mutant: a pod that could not be deleted stays what it was.
FormerStatus(p, answer) == IF answer = "gone" THEN "terminated" ELSE row[p]

\* Mutant: a pod that could not be deleted goes back to the pool.
PooledStatus(p, answer) == IF answer = "gone" THEN "terminated" ELSE "warm"

\* The UPDATE of deletePod, whatever the row has become meanwhile.
DeletedStatus(p, answer) == IF answer = "gone" THEN "terminated" ELSE "draining"

\* An UPDATE of a row that may have been deleted.
Update(p, status) == row' = [row EXCEPT ![p] = IF @ = "none" THEN @ ELSE status]

\* A new pod name: nothing knows it.
Fresh(p) ==
    /\ row[p] = "none" /\ ~Exists(p) /\ maker[p] = "none" /\ killer[p] = "none"
    /\ seen[p] = "no" /\ todo[p] = "none" /\ \A c \in Calls : target[c] # p

\* Mutant: onDemandCount goes down at success only.
EndUncounted(c) ==
    /\ stage' = [stage EXCEPT ![c] = "idle"]
    /\ user' = [user EXCEPT ![c] = None]
    /\ target' = [target EXCEPT ![c] = None]
    /\ tries' = [tries EXCEPT ![c] = 0]
    /\ demand' = [demand EXCEPT ![c] = FALSE]
    /\ onDemand' = IF demand[c] /\ stage[c] = "load" THEN onDemand - 1 ELSE onDemand

\* A call ends, with the address or an error, and frees its lock.
End(c) ==
    /\ stage' = [stage EXCEPT ![c] = "idle"]
    /\ user' = [user EXCEPT ![c] = None]
    /\ target' = [target EXCEPT ![c] = None]
    /\ tries' = [tries EXCEPT ![c] = 0]
    /\ demand' = [demand EXCEPT ![c] = FALSE]
    /\ onDemand' = IF demand[c] THEN onDemand - 1 ELSE onDemand

\* A call goes on, at a pod.
Proceed(c, next, p) ==
    /\ stage' = [stage EXCEPT ![c] = next]
    /\ target' = [target EXCEPT ![c] = p]
    /\ UNCHANGED <<user, tries, demand, onDemand>>

-------------------------------------------------------------------------------
(* assignPod.                                                                *)

\* assignPod waits for the end of init.
Begin(c, u) ==
    /\ ready /\ stage[c] = "idle" /\ Room
    /\ stage' = [stage EXCEPT ![c] = "wait"]
    /\ user' = [user EXCEPT ![c] = u]
    /\ UNCHANGED <<database, pod, served, warming, killer, target, tries, demand,
                   onDemand, ready>>

\* Mutant: no lock, two calls of a user go on side by side.
Unlocked(c) == TRUE

\* Nobody else holds the advisory lock of the user.
LockFree(c) == \A d \in Calls \ {c} : user[d] = user[c] => stage[d] \notin Locked

\* The lock is taken, and the user's assigned pod selected.
Look(c) ==
    /\ stage[c] = "wait" /\ LockFree(c)
    /\ \/ \E p \in Pods :
             /\ row[p] = "assigned" /\ owner[p] = user[c]
             /\ Proceed(c, "ping", p)
       \/ /\ \A p \in Pods : row[p] # "assigned" \/ owner[p] # user[c]
          /\ Proceed(c, "claim", None)
    /\ UNCHANGED <<database, pod, served, warming, killer, ready>>

\* The pod answers /health, and its address is returned.
PingOk(c) ==
    /\ stage[c] = "ping" /\ Exists(target[c])
    /\ End(c)
    /\ UNCHANGED <<database, pod, served, warming, killer, ready>>

\* The oldest warm pod becomes the user's in one statement (ages are abstracted).
Claim(c) ==
    /\ stage[c] = "claim" /\ tries[c] < MaxTries
    /\ \E p \in Pods :
         /\ row[p] = "warm"
         /\ row' = [row EXCEPT ![p] = "assigned"]
         /\ owner' = [owner EXCEPT ![p] = user[c]]
         /\ stage' = [stage EXCEPT ![c] = "load"]
         /\ target' = [target EXCEPT ![c] = p]
    /\ tries' = [tries EXCEPT ![c] = @ + 1]
    /\ UNCHANGED <<pod, served, warming, killer, user, demand, onDemand, ready>>

\* The pod answers /health and takes the flows, and its address is returned.
Load(c) ==
    /\ stage[c] = "load" /\ Exists(target[c])
    /\ served' = served \cup {target[c]}
    /\ End(c)
    /\ UNCHANGED <<database, pod, warming, killer, ready>>

\* Mutant: any number of on-demand creations.
Unlimited == TRUE

MayCreate == onDemand < MaxOnDemand

\* No warm pod is left to try: createAndAssignPod, if there are not too many of
\* them, counts itself and inserts its row.
Demand(c) ==
    /\ stage[c] = "claim"
    /\ tries[c] = MaxTries \/ \A p \in Pods : row[p] # "warm"
    /\ MayCreate
    /\ onDemand' = onDemand + 1
    /\ demand' = [demand EXCEPT ![c] = TRUE]
    /\ \E p \in Pods :
         /\ Fresh(p)
         /\ row' = [row EXCEPT ![p] = "starting"]
         /\ owner' = [owner EXCEPT ![p] = user[c]]
         /\ pod' = [pod EXCEPT ![p] = "none"]
         /\ stage' = [stage EXCEPT ![c] = "create"]
         /\ target' = [target EXCEPT ![c] = p]
    /\ UNCHANGED <<served, warming, killer, user, tries, ready>>

Create(c) ==
    /\ stage[c] = "create"
    /\ pod' = [pod EXCEPT ![target[c]] = "up"]
    /\ Proceed(c, "boot", target[c])
    /\ UNCHANGED <<database, served, warming, killer, ready>>

\* waitForReady has seen the pod ready; the UPDATE makes it the user's, whatever the
\* row and the pod have become meanwhile.
Adopt(c) ==
    /\ stage[c] = "boot"
    /\ row' = [row EXCEPT ![target[c]] = "assigned"]
    /\ Proceed(c, "load", target[c])
    /\ UNCHANGED <<owner, pod, served, warming, killer, ready>>

\* The pod does not answer, or cannot be created, or does not take the flows:
\* deletePod.
PodFails(c) ==
    /\ stage[c] \in {"ping", "load", "create", "boot"}
    /\ \E answer \in Answers :
         Remove(target[c], answer) /\ Proceed(c, answer, target[c])
    /\ UNCHANGED <<database, warming, killer, ready>>

\* The UPDATE of deletePod.  The call goes on with the next warm pod, or throws.
Killed(c) ==
    /\ stage[c] \in Answers
    /\ Update(target[c], DeletedStatus(target[c], stage[c]))
    /\ IF demand[c] THEN End(c) ELSE Proceed(c, "claim", None)
    /\ UNCHANGED <<owner, pod, served, warming, killer, ready>>

\* A query of the call fails or times out, the breaker is open, or too many pods
\* are being created: the call throws.
Throw(c) ==
    /\ stage[c] \in Answers \cup {"wait", "ping", "claim"}
    /\ End(c)
    /\ UNCHANGED <<database, pod, served, warming, killer, ready>>

-------------------------------------------------------------------------------
(* fillPool and createWarmPod.                                               *)

\* fillPool counts once and then starts what is missing.  It is called at the end
\* of most handlers and by the idle check's timer, so it may come at any time.
FillPool ==
    LET have == Cardinality({p \in Pods : row[p] \in {"warm", "starting"}})
    IN  /\ have < PoolSize
        /\ Handlers + (PoolSize - have) <= MaxHandlers
        /\ wanted' = wanted + (PoolSize - have)
        /\ UNCHANGED <<database, pod, served, maker, killer, assigning, ready>>

\* The INSERT of createWarmPod, which may fail.
InsertWarm ==
    /\ wanted > 0 /\ wanted' = wanted - 1
    /\ \/ \E p \in Pods :
             /\ Fresh(p)
             /\ row' = [row EXCEPT ![p] = "starting"]
             /\ pod' = [pod EXCEPT ![p] = "none"]
             /\ maker' = [maker EXCEPT ![p] = "create"]
       \/ UNCHANGED <<row, pod, maker>>
    /\ UNCHANGED <<owner, served, killer, assigning, ready>>

MakerGoes(p, from, to) ==
    /\ maker[p] = from
    /\ maker' = [maker EXCEPT ![p] = to]
    /\ UNCHANGED <<owner, wanted, killer, assigning, ready>>

MakeCreate(p) ==
    /\ MakerGoes(p, "create", "boot")
    /\ pod' = [pod EXCEPT ![p] = "up"]
    /\ UNCHANGED <<row, served>>

\* waitForReady has seen the pod ready; the UPDATE makes it warm, whatever the row and
\* the pod have become meanwhile.
MakeWarm(p) ==
    /\ MakerGoes(p, "boot", "none")
    /\ row' = [row EXCEPT ![p] = "warm"]
    /\ UNCHANGED <<pod, served>>

\* Creating, waiting or the UPDATE fails.  The handler marks the row first; if that
\* query fails too, the pod is left behind.
MakeFails(p) ==
    /\ \E s \in {"create", "boot"} :
      \/ /\ MakerGoes(p, s, "undo")
         /\ row' = [row EXCEPT ![p] = "terminated"]
      \/ /\ MakerGoes(p, s, "none")
         /\ UNCHANGED row
    /\ UNCHANGED <<pod, served>>

\* Its deletion is tried once, and nobody looks at the answer.
MakeUndone(p) ==
    /\ MakerGoes(p, "undo", "none")
    /\ \E answer \in Answers : Remove(p, answer)
    /\ UNCHANGED row

-------------------------------------------------------------------------------
(* Deletions in the background.                                              *)

KillerGoes(p, from, to) ==
    /\ killer[p] = from
    /\ killer' = [killer EXCEPT ![p] = to]
    /\ UNCHANGED <<owner, warming, assigning, ready>>

\* releasePod of an assigned pod: idle, or not answering, or by an administrator, or
\* at shutdown.  drainPod marks the row and unloads the flows; either may fail.
Release(p) ==
    /\ row[p] = "assigned"
    /\ Room /\ KillerGoes(p, "none", "kill")
    /\ \/ /\ row' = [row EXCEPT ![p] = "draining"]
          /\ \/ served' = served \ {p}
             \/ UNCHANGED served
       \/ UNCHANGED <<row, served>>
    /\ UNCHANGED pod

\* deletePod of other pods: a warm pod that does not answer, a pod the watch sees in
\* a crash loop, and any pod at drainAll, at shutdown or by an administrator.
Discard(p) ==
    /\ row[p] \notin {"none", "assigned"}
    /\ Room /\ KillerGoes(p, "none", "kill")
    /\ UNCHANGED <<row, pod, served>>

BackgroundKill(p) ==
    /\ \E answer \in Answers :
         Remove(p, answer) /\ KillerGoes(p, "kill", answer)
    /\ UNCHANGED row

\* The UPDATE of deletePod, which may fail.
BackgroundKilled(p) ==
    \E answer \in Answers :
      /\ KillerGoes(p, answer, "none")
      /\ Update(p, DeletedStatus(p, answer)) \/ UNCHANGED row
      /\ UNCHANGED <<pod, served>>

-------------------------------------------------------------------------------
(* The cluster and its watch.                                                *)

\* A pod is evicted, or deleted by others.
Break(p) ==
    /\ Exists(p) /\ Remove(p, "gone")
    /\ UNCHANGED <<database, warming, killer, assigning, ready>>

\* The watch reports a pod that was deleted, or that has ended (phase Failed or
\* Succeeded: such a pod exists still).  It may come late, or not at all.
Watch(p) ==
    /\ pod[p] # "none" /\ row[p] \notin {"none", "terminated"}
    /\ row' = [row EXCEPT ![p] = "terminated"]
    /\ UNCHANGED <<owner, pod, served, warming, killer, assigning, ready>>

-------------------------------------------------------------------------------
(* reconcile.                                                                *)

others == <<warming, killer, assigning>>

Reconcile ==
    /\ Handlers + 2 <= MaxHandlers
    /\ scan = "off" /\ scan' = "listing"
    /\ seen' = [p \in Pods |-> CASE row[p] \in Live -> "live"
                                 [] row[p] = "draining" -> "draining"
                                 [] OTHER -> "no"]
    /\ touched' = {}
    /\ UNCHANGED <<database, pod, served, todo, ready, others>>

\* Mutant: only rows that claim to run are compared with the cluster.
TodoIfAssigned(p) ==
    CASE seen[p] = "live" /\ row[p] = "assigned" /\ ~Exists(p) -> "mark"
      [] seen[p] = "no" /\ Exists(p) -> "remove"
      [] seen[p] = "draining" /\ Exists(p) -> "retry"
      [] OTHER -> "none"

\* What the listing of the cluster says of a row read before.
TodoOf(p) ==
    CASE seen[p] # "no" /\ ~Exists(p) -> "mark"
      [] seen[p] = "no" /\ Exists(p) -> "remove"
      [] seen[p] = "draining" /\ Exists(p) -> "retry"
      [] OTHER -> "none"

List ==
    /\ scan = "listing" /\ scan' = "working"
    /\ todo' = [p \in Pods |-> TodoOf(p)]
    /\ seen' = [p \in Pods |-> "no"]
    /\ UNCHANGED <<database, pod, served, ready, touched, others>>

\* One pass over the pods after the other.
Turn(what) == \A p \in Pods :
    /\ what \in {"remove", "retry"} => todo[p] # "mark"
    /\ what = "retry" => todo[p] # "remove"

Done(p, what) ==
    /\ scan = "working" /\ todo[p] = what
    /\ todo' = [todo EXCEPT ![p] = "none"]
    /\ UNCHANGED <<owner, scan, seen, ready, others>>

MarkOrphan(p) ==
    /\ Turn("mark") /\ Done(p, "mark")
    /\ Update(p, "terminated")
    /\ UNCHANGED <<pod, served, touched>>

\* A failing deletion is ignored; the next reconcile will find the pod again.
RemoveOrphan(p) ==
    /\ Turn("remove") /\ Done(p, "remove")
    /\ \E answer \in Answers :
         /\ Remove(p, answer)
         /\ touched' = IF answer = "gone" THEN touched ELSE touched \cup {p}
    /\ UNCHANGED row

RetryDelete(p) ==
    /\ Turn("retry") /\ scan = "working" /\ todo[p] = "retry"
    /\ \E answer \in Answers :
         /\ Remove(p, answer)
         /\ todo' = [todo EXCEPT ![p] = answer]
    /\ UNCHANGED <<database, scan, seen, ready, touched, others>>

Retried(p) ==
    /\ Turn("retry")
    /\ \E answer \in Answers :
         /\ Done(p, answer)
         /\ Update(p, DeletedStatus(p, answer))
    /\ UNCHANGED <<pod, served, touched>>

\* Rows that have been starting for two minutes are given up, also while the pod is
\* still being created.
Finish ==
    /\ scan = "working" /\ \A p \in Pods : todo[p] = "none"
    /\ \E old \in SUBSET {p \in Pods : row[p] = "starting"} :
         row' = [p \in Pods |-> IF p \in old THEN "terminated" ELSE row[p]]
    /\ scan' = "off" /\ ready' = TRUE /\ touched' = {}
    /\ UNCHANGED <<owner, pod, served, seen, todo, others>>

\* A query or the listing fails; init goes on without it.
Abandon ==
    /\ scan # "off" /\ scan' = "off" /\ ready' = TRUE
    /\ seen' = [p \in Pods |-> "no"] /\ todo' = [p \in Pods |-> "none"]
    /\ touched' = {}
    /\ UNCHANGED <<database, pod, served, others>>

\* Terminated rows that are old enough are deleted, by the last query of reconcile or
\* by an administrator: old is seven days or five minutes from the INSERT, longer than
\* a creation takes.
Purge(p) ==
    /\ row[p] = "terminated" /\ maker[p] = "none"
    /\ \A c \in Calls : target[c] = p => stage[c] \notin {"create", "boot"}
    /\ row' = [row EXCEPT ![p] = "none"] /\ owner' = [owner EXCEPT ![p] = None]
    /\ UNCHANGED <<pod, served, warming, killer, assigning, ready>>

\* The gateway dies; the table and the cluster remain.
Crash ==
    /\ maker' = [p \in Pods |-> "none"] /\ wanted' = 0
    /\ killer' = [p \in Pods |-> "none"]
    /\ stage' = [c \in Calls |-> "idle"]
    /\ user' = [c \in Calls |-> None] /\ target' = [c \in Calls |-> None]
    /\ tries' = [c \in Calls |-> 0] /\ demand' = [c \in Calls |-> FALSE]
    /\ onDemand' = 0 /\ ready' = FALSE
    /\ scan' = "off" /\ touched' = {}
    /\ seen' = [p \in Pods |-> "no"] /\ todo' = [p \in Pods |-> "none"]
    /\ UNCHANGED <<database, pod, served>>

-------------------------------------------------------------------------------

\* An assigned pod that a call leaves without its user's flows, in any step.
Left == cutOff' = {p \in Pods :
    /\ row'[p] = "assigned" /\ p \notin served'
    /\ \/ p \in cutOff
       \/ \E c \in Calls : /\ target[c] = p /\ stage[c] \in AtPod
                           /\ stage'[c] = "idle"}

\* What a step of another handler changes is noted while reconcile runs.
Noted ==
    /\ UNCHANGED scanning
    /\ touched' = IF scan = "off" THEN touched
                  ELSE touched \cup {p \in Pods : row'[p] # row[p] \/ pod'[p] # pod[p]}
    /\ Left

CallStep(c) ==
    \/ (\E u \in Users : Begin(c, u)) /\ Noted
    \/ Look(c) /\ Noted
    \/ PingOk(c) /\ Noted
    \/ Claim(c) /\ Noted
    \/ Load(c) /\ Noted
    \/ Demand(c) /\ Noted
    \/ Create(c) /\ Noted
    \/ Adopt(c) /\ Noted
    \/ PodFails(c) /\ Noted
    \/ Killed(c) /\ Noted
    \/ Throw(c) /\ Noted

PodStep(p) ==
    \/ MakeCreate(p) /\ Noted
    \/ MakeWarm(p) /\ Noted
    \/ MakeFails(p) /\ Noted
    \/ MakeUndone(p) /\ Noted
    \/ Release(p) /\ Noted
    \/ Discard(p) /\ Noted
    \/ BackgroundKill(p) /\ Noted
    \/ BackgroundKilled(p) /\ Noted
    \/ Break(p) /\ Noted
    \/ Watch(p) /\ Noted
    \/ Purge(p) /\ Noted

ReconcileStep(p) ==
    \/ MarkOrphan(p) /\ Left
    \/ RemoveOrphan(p) /\ Left
    \/ RetryDelete(p) /\ Left
    \/ Retried(p) /\ Left

Next ==
    \/ \E c \in Calls : CallStep(c)
    \/ \E p \in Pods : PodStep(p) \/ ReconcileStep(p)
    \/ FillPool /\ Noted
    \/ InsertWarm /\ Noted
    \/ Reconcile /\ Left
    \/ List /\ Left
    \/ Finish /\ Left
    \/ Abandon /\ Left
    \/ Crash /\ Left

Spec == Init /\ [][Next]_vars

-------------------------------------------------------------------------------
(* Properties.                                                               *)

\* A user has one assigned pod at most, however calls for the same user, releases,
\* reconciliations and restarts interleave (the advisory lock of assignPod, and no
\* UPDATE that brings an old assignment back).
OneEditor == \A p, q \in Pods :
    row[p] = "assigned" /\ row[q] = "assigned" /\ owner[p] = owner[q] => p = q

\* A pod serves one user in its life: warm pods have belonged to nobody, and flows
\* are loaded only into the pod of their owner, also when a row is terminated and
\* comes back by a late UPDATE.
Private == \A p \in Pods :
    /\ row[p] = "warm" => owner[p] = None /\ p \notin served
    /\ row[p] = "assigned" => owner[p] # None

\* onDemandCount counts the calls inside createAndAssignPod, whichever way they end.
OnDemandCounted == onDemand = Cardinality({c \in Calls : demand[c]})

\* The address a call returns is that of a pod with the user's flows, unless the pod
\* has left the assigned state since the call looked it up, or an assignment of it
\* was cut off before by a crash or a failed query.
HandedWithFlows == [][\A c \in Calls : PingOk(c) \/ Load(c) =>
    LET p == target[c]
    IN  row[p] = "assigned" => owner[p] = user[c] /\ (p \in served' \/ p \in cutOff)]_vars

\* Where row and cluster agree.
Agree(p) == /\ row[p] \in Live => Exists(p)
            /\ Exists(p) => row[p] \notin {"none", "terminated"}

\* A reconcile that comes to its end repairs every pod that nobody else changed
\* since its SELECT, whatever had gone wrong before, unless a deletion failed or the
\* row was still starting.
ReconcileRepairs == [][Finish => \A p \in Pods :
    p \in touched \/ row[p] = "starting" \/ Agree(p)']_vars
===============================================================================
