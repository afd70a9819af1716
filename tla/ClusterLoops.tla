----------------------------- MODULE ClusterLoops -----------------------------
(***************************************************************************)
(* The check loop of one cluster of the Kubernetes sentinel                *)
(* (k8s-sentinel/agent/src/cluster-manager.ts, the cluster routes and      *)
(* checkLoopForCluster of index.ts).                                       *)
(*                                                                         *)
(* startClusterLoop sets a timeout; its callback awaits a first check and  *)
(* only then sets the interval that makes the later ones.  The map loops   *)
(* holds one handle, the timeout's or the interval's; stopClusterLoop can  *)
(* clear nothing else.  The routes write the cluster's row first and       *)
(* change the loop when the statement has returned, or the other way       *)
(* round.  The set loopRunning keeps two checks of a cluster apart.        *)
(***************************************************************************)
EXTENDS Naturals

CONSTANTS
    Timers,         \* bound: loops that can be alive at once
    None

ASSUME LoopConstants == None \notin Timers

VARIABLES
    row,        \* the cluster's row in the table clusters
    begun,      \* the requests that have changed one of row and loop only,
                \* by what they make of the row
    timer,      \* what has become of each startClusterLoop
    entry,      \* loops: the loop whose handle the map holds
    running,    \* the loops that have a check under way; loopRunning, if there is one
    requests,   \* bound: updates and deletions still to come
    mishaps     \* history: what has come between a row and its loop

loopVars == <<row, begun, timer, entry, running, requests, mishaps>>

Rows == {"enabled", "disabled", "deleted"}

\* "waiting" for the timeout, "checking" inside its callback, an "interval".
TimerStates == {"off", "waiting", "checking", "interval"}

Mishaps == {"overlapping requests", "failed deletion", "stopped in first check", "no client"}

LoopTypeOK ==
    /\ row \in Rows
    /\ begun \in [Rows -> Nat]
    /\ timer \in [Timers -> TimerStates]
    /\ entry \in Timers \cup {None}
    /\ running \subseteq Timers
    /\ \A t \in Timers : timer[t] = "checking" => t \in running
    /\ requests \in Nat
    /\ mishaps \subseteq Mishaps

Alive == {t \in Timers : timer[t] # "off"}

UnderWay == \E r \in Rows : begun[r] > 0

\* Nothing has come between row and loop, but a client that could not be made.
Orderly == \A m \in mishaps : m = "no client"

Overlapping == IF UnderWay THEN {"overlapping requests"} ELSE {}

\* main: the cluster is enabled, and its loop started.
LoopInit(bound) ==
    /\ row = "enabled"
    /\ begun = [r \in Rows |-> 0]
    /\ \E t \in Timers :
        /\ timer = [s \in Timers |-> IF s = t THEN "waiting" ELSE "off"]
        /\ entry = t
    /\ running = {}
    /\ requests = bound /\ mishaps = {}

-------------------------------------------------------------------------------

\* Mutant: only an interval is cleared.
StoppedInterval ==
    [t \in Timers |-> IF t = entry /\ timer[t] = "interval" THEN "off" ELSE timer[t]]

\* stopClusterLoop: clearing a timeout that has fired does nothing.
Stopped ==
    [t \in Timers |-> IF t = entry /\ timer[t] # "checking" THEN "off" ELSE timer[t]]

TooLate ==
    IF \E t \in Timers : t = entry /\ timer[t] = "checking"
    THEN {"stopped in first check"} ELSE {}

\* Mutant: startClusterLoop relies on the map being empty.
NotStopped == timer

BeforeStart == Stopped

\* PUT: the row is written; the loop follows when the statement has returned.
UpdateCluster(r) ==
    /\ row # "deleted" /\ requests > 0
    /\ row' = r
    /\ begun' = [begun EXCEPT ![r] = @ + 1]
    /\ requests' = requests - 1
    /\ mishaps' = mishaps \cup Overlapping
    /\ UNCHANGED <<timer, entry, running>>

\* The old loop is stopped, the client made, and the new loop started.
RestartLoop ==
    /\ begun["enabled"] > 0
    /\ begun' = [begun EXCEPT !["enabled"] = @ - 1]
    /\ \E t \in Timers :
        /\ BeforeStart[t] = "off" /\ t \notin running
        /\ timer' = [BeforeStart EXCEPT ![t] = "waiting"]
        /\ entry' = t
    /\ mishaps' = (mishaps \ {"no client"}) \cup TooLate
    /\ UNCHANGED <<row, running, requests>>

\* initClusterClient throws behind stopping the old loop, on a kubeconfig that cannot
\* be loaded: the row stays enabled.
RestartFails ==
    /\ begun["enabled"] > 0
    /\ begun' = [begun EXCEPT !["enabled"] = @ - 1]
    /\ timer' = Stopped
    /\ entry' = None
    /\ mishaps' = mishaps \cup TooLate \cup {"no client"}
    /\ UNCHANGED <<row, running, requests>>

StopLoop ==
    /\ begun["disabled"] > 0
    /\ begun' = [begun EXCEPT !["disabled"] = @ - 1]
    /\ timer' = Stopped
    /\ entry' = None
    /\ mishaps' = mishaps \cup TooLate
    /\ UNCHANGED <<row, running, requests>>

\* DELETE: the loop is stopped first.
DeleteCluster ==
    /\ row # "deleted" /\ requests > 0
    /\ begun' = [begun EXCEPT !["deleted"] = @ + 1]
    /\ timer' = Stopped
    /\ entry' = None
    /\ requests' = requests - 1
    /\ mishaps' = mishaps \cup Overlapping \cup TooLate
    /\ UNCHANGED <<row, running>>

\* The row goes, unless the statement fails: once a check has stored a snapshot
\* or an incident of the cluster, a foreign key keeps the row.
DeleteRow ==
    /\ begun["deleted"] > 0
    /\ begun' = [begun EXCEPT !["deleted"] = @ - 1]
    /\ \/ row' = "deleted" /\ UNCHANGED mishaps
       \/ mishaps' = mishaps \cup {"failed deletion"} /\ UNCHANGED row
    /\ UNCHANGED <<timer, entry, running, requests>>

-------------------------------------------------------------------------------

\* Mutant: nothing keeps two checks apart.
AlwaysFree == TRUE

Free == running = {}

\* The timeout fires and its callback calls the check.
FirstCheck(t) ==
    /\ timer[t] = "waiting" /\ Free
    /\ timer' = [timer EXCEPT ![t] = "checking"]
    /\ running' = running \cup {t}
    /\ UNCHANGED <<row, begun, entry, requests, mishaps>>

\* It fires during another check: that of an earlier loop.  checkLoopForCluster
\* returns at once, and the interval is set.
FirstCheckSkipped(t) ==
    /\ timer[t] = "waiting" /\ ~Free
    /\ timer' = [timer EXCEPT ![t] = "interval"]
    /\ entry' = t
    /\ UNCHANGED <<row, begun, running, requests, mishaps>>

Tick(t) ==
    /\ timer[t] = "interval" /\ t \notin running /\ Free
    /\ running' = running \cup {t}
    /\ UNCHANGED <<row, begun, timer, entry, requests, mishaps>>

BeginCheck(t) == FirstCheck(t) \/ Tick(t)

\* The check is over, loopRunning is cleared; behind a first check the interval
\* is set and its handle put into the map, whatever the map holds by now.
EndCheck(t) ==
    /\ t \in running
    /\ running' = running \ {t}
    /\ IF timer[t] = "checking"
       THEN timer' = [timer EXCEPT ![t] = "interval"] /\ entry' = t
       ELSE UNCHANGED <<timer, entry>>
    /\ UNCHANGED <<row, begun, requests, mishaps>>

\* The process ends and starts again.  (main exits for good while the client of an
\* enabled cluster cannot be made.)
RestartLoops ==
    /\ begun' = [r \in Rows |-> 0]
    /\ IF row = "enabled"
       THEN \E t \in Timers :
                /\ timer' = [s \in Timers |-> IF s = t THEN "waiting" ELSE "off"]
                /\ entry' = t
       ELSE /\ timer' = [s \in Timers |-> "off"]
            /\ entry' = None
    /\ running' = {}
    /\ mishaps' = {}
    /\ UNCHANGED <<row, requests>>

Manage ==
    \/ \E r \in {"enabled", "disabled"} : UpdateCluster(r)
    \/ RestartLoop \/ RestartFails \/ StopLoop \/ DeleteCluster \/ DeleteRow
    \/ \E t \in Timers : FirstCheckSkipped(t)

-------------------------------------------------------------------------------
(* Properties.                                                               *)

\* However updates overlap, the map holds the handle of the only loop there is,
\* unless a loop was stopped while it awaited its first check.
OneLoop == "stopped in first check" \notin mishaps => Alive \subseteq {entry}

\* When no request is under way the cluster is checked exactly if its row says so,
\* unless requests overlapped, a deletion failed behind stopping the loop, or a
\* loop was stopped while it awaited its first check.  Behind an update that found
\* no client it is not checked at all, and the next one that finds one repairs that.
LoopFollowsRow ==
    Orderly /\ ~UnderWay =>
        Alive = IF row = "enabled" /\ mishaps = {} THEN {entry} ELSE {}
===============================================================================
