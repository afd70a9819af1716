---------------------------- MODULE SentinelProofs ----------------------------
(***************************************************************************)
(* Proofs about ClusterLoops and Sentinel for any number of loops, issues, *)
(* incidents, approvals and requests.                                      *)
(***************************************************************************)
EXTENDS Sentinel, TLAPS

USE LoopConstants DEF Rows

-------------------------------------------------------------------------------
(* The loops.                                                                *)

\* At most one request is under way, and has done its first half.
OneRequest ==
    /\ \A r \in Rows : begun[r] > 0 => /\ begun[r] = 1
                                      /\ \A q \in Rows \ {r} : begun[q] = 0
    /\ \A r \in Rows \ {"deleted"} : begun[r] > 0 => row = r
    /\ begun["deleted"] > 0 => Alive = {}

RequestInv == Orderly => OneRequest

LoopInv == LoopTypeOK /\ OneLoop /\ RequestInv /\ LoopFollowsRow

LEMMA LoopInitInv == ASSUME NEW n \in Nat, LoopInit(n) PROVE LoopInv
<1>1. LoopTypeOK
  BY DEF LoopInit, LoopTypeOK, TimerStates
<1>2. /\ Alive = {entry} /\ ~UnderWay /\ mishaps = {} /\ row = "enabled"
  <2>1. PICK t \in Timers : entry = t /\ \A u \in Timers : timer[u] # "off" <=> u = t
    BY DEF LoopInit
  <2>2. Alive = {entry}
    BY <2>1 DEF Alive
  <2>3. ~UnderWay
    BY DEF LoopInit, UnderWay
  <2> QED BY <2>2, <2>3 DEF LoopInit
<1>3. OneRequest
  BY DEF LoopInit, OneRequest
<1> QED BY <1>1, <1>2, <1>3 DEF LoopInv, OneLoop, RequestInv, LoopFollowsRow

\* Unless it comes too late, a stop leaves no loop alive.
LEMMA StopEnds ==
    ASSUME LoopInv, "stopped in first check" \notin mishaps, TooLate = {}
    PROVE  \A t \in Timers : Stopped[t] = "off"
BY DEF LoopInv, LoopTypeOK, OneLoop, Alive, Stopped, TooLate

LEMMA StoppedType == LoopTypeOK => Stopped \in [Timers -> TimerStates]
BY DEF LoopTypeOK, Stopped, TimerStates

LEMMA NoRequest == ASSUME \A r \in Rows : begun'[r] = 0 PROVE OneRequest' /\ ~UnderWay'
BY DEF OneRequest, UnderWay

LEMMA LastRequest ==
    ASSUME OneRequest, begun \in [Rows -> Nat], NEW r \in Rows, begun[r] > 0,
           begun' = [begun EXCEPT ![r] = @ - 1]
    PROVE  /\ \A q \in Rows : begun'[q] = 0
           /\ IF r = "deleted" THEN Alive = {} ELSE row = r
BY DEF OneRequest

LEMMA RequestStays ==
    ASSUME RequestInv, UNCHANGED <<row, begun, mishaps>>, Alive' = Alive
    PROVE  RequestInv' /\ (UnderWay' <=> UnderWay) /\ (Orderly' <=> Orderly)
<1>1. OneRequest' <=> OneRequest
  BY DEF OneRequest
<1>2. (UnderWay' <=> UnderWay) /\ (Orderly' <=> Orderly)
  BY DEF UnderWay, Orderly
<1> QED BY <1>1, <1>2 DEF RequestInv

LEMMA OrderlyEarlier ==
    ASSUME NEW new, mishaps' = mishaps \cup new, Orderly'
    PROVE  Orderly
BY DEF Orderly

LEMMA MishapTypes == Overlapping \subseteq Mishaps /\ TooLate \subseteq Mishaps
BY DEF Overlapping, TooLate, Mishaps

LEMMA ManageInv == ASSUME LoopInv, Manage PROVE LoopInv'
<1> USE DEF LoopInv
<1>1. ASSUME NEW r \in Rows \ {"deleted"}, UpdateCluster(r) PROVE LoopInv'
  <2>1. LoopTypeOK'
    <3>1. begun' \in [Rows -> Nat] /\ requests' \in Nat /\ row' \in Rows
      BY <1>1 DEF UpdateCluster, LoopTypeOK
    <3>2. mishaps' \subseteq Mishaps
      BY <1>1, MishapTypes DEF UpdateCluster, LoopTypeOK
    <3> QED BY <1>1, <3>1, <3>2 DEF UpdateCluster, LoopTypeOK
  <2>2. Alive' = Alive /\ entry' = entry
    BY <1>1 DEF UpdateCluster, Alive
  <2>3. OneLoop'
    BY <1>1, <2>2 DEF UpdateCluster, OneLoop
  <2>4. begun'[r] = begun[r] + 1 /\ \A q \in Rows \ {r} : begun'[q] = begun[q]
    BY <1>1 DEF UpdateCluster, LoopTypeOK
  <2>5. UnderWay'
    BY <2>4 DEF UnderWay, LoopTypeOK
  <2>6. RequestInv'
    <3> SUFFICES ASSUME Orderly' PROVE RequestInv'
      BY DEF RequestInv
    <3>1. ~UnderWay
      BY <1>1 DEF UpdateCluster, Overlapping, Orderly
    <3>2. \A q \in Rows : begun[q] = 0
      BY <1>1, <3>1 DEF UnderWay, LoopTypeOK
    <3>3. row' = r
      BY <1>1 DEF UpdateCluster
    <3>4. OneRequest'
      BY <2>4, <3>2, <3>3 DEF OneRequest
    <3> QED BY <3>4 DEF RequestInv
  <2> QED BY <2>1, <2>3, <2>5, <2>6 DEF LoopFollowsRow
<1>2. CASE RestartLoop
  <2>1. PICK t \in Timers : /\ Stopped[t] = "off"
                            /\ timer' = [Stopped EXCEPT ![t] = "waiting"] /\ entry' = t
                            /\ t \notin running
    BY <1>2 DEF RestartLoop, BeforeStart
  <2>2. LoopTypeOK'
    <3>1. timer' \in [Timers -> TimerStates] /\ entry' \in Timers
      BY <2>1, StoppedType DEF TimerStates
    <3>2. \A u \in Timers : timer'[u] = "checking" => u \in running'
      BY <1>2, <2>1, StoppedType DEF RestartLoop, LoopTypeOK, Stopped
    <3>3. begun' \in [Rows -> Nat]
      <4>1. begun["enabled"] > 0 /\ begun' = [begun EXCEPT !["enabled"] = @ - 1]
        BY <1>2 DEF RestartLoop
      <4> QED BY <4>1 DEF LoopTypeOK
    <3>4. mishaps' \subseteq Mishaps
      BY <1>2, MishapTypes DEF RestartLoop, LoopTypeOK
    <3> QED BY <1>2, <3>1, <3>2, <3>3, <3>4 DEF RestartLoop, LoopTypeOK
  <2>3. "stopped in first check" \notin mishaps' => Alive' = {entry'}
    <3> SUFFICES ASSUME "stopped in first check" \notin mishaps' PROVE Alive' = {entry'}
      OBVIOUS
    <3>1. "stopped in first check" \notin mishaps /\ TooLate = {}
      BY <1>2 DEF RestartLoop, TooLate
    <3>2. \A u \in Timers : timer'[u] = IF u = t THEN "waiting" ELSE "off"
      BY <2>1, <3>1, StopEnds, StoppedType
    <3>3. \A u \in Timers : timer'[u] # "off" <=> u = t
      BY <3>2
    <3> QED BY <2>1, <3>3 DEF Alive
  <2>4. Orderly' =>
          mishaps' = {} /\ row' = "enabled" /\ \A r \in Rows : begun'[r] = 0
    <3> SUFFICES ASSUME Orderly'
                 PROVE  mishaps' = {} /\ row' = "enabled" /\ \A r \in Rows : begun'[r] = 0
      OBVIOUS
    <3>1. "no client" \notin mishaps' /\ Orderly
      BY <1>2 DEF RestartLoop, TooLate, Orderly
    <3>2. mishaps' = {}
      BY <3>1 DEF Orderly
    <3>3. OneRequest
      BY <3>1 DEF RequestInv
    <3>4. /\ begun["enabled"] > 0 /\ begun' = [begun EXCEPT !["enabled"] = @ - 1]
          /\ row' = row /\ begun \in [Rows -> Nat]
      BY <1>2 DEF RestartLoop, LoopTypeOK
    <3>5. row = "enabled" /\ \A r \in Rows : begun'[r] = 0
      BY <3>3, <3>4, LastRequest
    <3> QED BY <3>2, <3>4, <3>5
  <2>5. OneLoop'
    BY <2>2, <2>3, <2>4 DEF OneLoop
  <2>6. RequestInv'
    BY <2>4, NoRequest DEF RequestInv
  <2>7. LoopFollowsRow'
    <3> SUFFICES ASSUME Orderly' PROVE Alive' = {entry'} /\ row' = "enabled" /\ mishaps' = {}
      BY DEF LoopFollowsRow
    <3> QED BY <2>3, <2>4
  <2> QED BY <2>2, <2>5, <2>6, <2>7
<1>3. CASE StopLoop
  <2>1. LoopTypeOK'
    <3>1. timer' \in [Timers -> TimerStates] /\ entry' = None
      BY <1>3, StoppedType DEF StopLoop
    <3>2. \A u \in Timers : timer'[u] = "checking" => u \in running'
      BY <1>3 DEF StopLoop, LoopTypeOK, Stopped
    <3>3. begun' \in [Rows -> Nat]
      BY <1>3 DEF StopLoop, LoopTypeOK
    <3>4. mishaps' \subseteq Mishaps
      BY <1>3, MishapTypes DEF StopLoop, LoopTypeOK
    <3> QED BY <1>3, <3>1, <3>2, <3>3, <3>4 DEF StopLoop, LoopTypeOK
  <2>2. "stopped in first check" \notin mishaps' => Alive' = {}
    <3> SUFFICES ASSUME "stopped in first check" \notin mishaps' PROVE Alive' = {}
      OBVIOUS
    <3>1. "stopped in first check" \notin mishaps /\ TooLate = {}
      BY <1>3 DEF StopLoop, TooLate
    <3> QED BY <1>3, <3>1, StopEnds DEF StopLoop, Alive
  <2>3. Orderly' => row' = "disabled" /\ \A r \in Rows : begun'[r] = 0
    <3> SUFFICES ASSUME Orderly' PROVE row' = "disabled" /\ \A r \in Rows : begun'[r] = 0
      OBVIOUS
    <3>1. OneRequest
      BY <1>3, OrderlyEarlier DEF StopLoop, RequestInv
    <3>2. /\ begun["disabled"] > 0 /\ begun' = [begun EXCEPT !["disabled"] = @ - 1]
          /\ row' = row /\ begun \in [Rows -> Nat]
      BY <1>3 DEF StopLoop, LoopTypeOK
    <3> QED BY <3>1, <3>2, LastRequest
  <2>4. OneLoop'
    BY <2>1, <2>2 DEF OneLoop
  <2>5. RequestInv'
    BY <2>3, NoRequest DEF RequestInv
  <2>6. LoopFollowsRow'
    <3> SUFFICES ASSUME Orderly' PROVE Alive' = {} /\ row' = "disabled"
      BY DEF LoopFollowsRow
    <3>1. "stopped in first check" \notin mishaps'
      BY DEF Orderly
    <3> QED BY <2>2, <2>3, <3>1
  <2> QED BY <2>1, <2>4, <2>5, <2>6
<1>4. CASE DeleteCluster
  <2>1. LoopTypeOK'
    <3>1. timer' \in [Timers -> TimerStates] /\ entry' = None
      BY <1>4, StoppedType DEF DeleteCluster
    <3>2. \A u \in Timers : timer'[u] = "checking" => u \in running'
      BY <1>4 DEF DeleteCluster, LoopTypeOK, Stopped
    <3>3. mishaps' \subseteq Mishaps
      BY <1>4, MishapTypes DEF DeleteCluster, LoopTypeOK
    <3>4. requests' \in Nat
      BY <1>4 DEF DeleteCluster, LoopTypeOK
    <3> QED BY <1>4, <3>1, <3>2, <3>3, <3>4 DEF DeleteCluster, LoopTypeOK
  <2>2. "stopped in first check" \notin mishaps' => Alive' = {}
    <3> SUFFICES ASSUME "stopped in first check" \notin mishaps' PROVE Alive' = {}
      OBVIOUS
    <3>1. "stopped in first check" \notin mishaps /\ TooLate = {}
      BY <1>4 DEF DeleteCluster, TooLate
    <3> QED BY <1>4, <3>1, StopEnds DEF DeleteCluster, Alive
  <2>3. Orderly' => \A r \in Rows : begun[r] = 0
    <3>1. Orderly' => ~UnderWay
      BY <1>4 DEF DeleteCluster, Overlapping, Orderly
    <3> QED BY <3>1 DEF UnderWay, LoopTypeOK
  <2>4. /\ begun'["deleted"] = begun["deleted"] + 1
        /\ \A r \in Rows \ {"deleted"} : begun'[r] = begun[r]
    BY <1>4 DEF DeleteCluster, LoopTypeOK
  <2>5. UnderWay'
    BY <2>4 DEF UnderWay, LoopTypeOK
  <2>6. OneLoop'
    BY <2>1, <2>2 DEF OneLoop
  <2>7. RequestInv'
    <3> SUFFICES ASSUME Orderly' PROVE OneRequest'
      BY DEF RequestInv
    <3>1. Alive' = {}
      BY <2>2 DEF Orderly
    <3> QED BY <2>3, <2>4, <3>1 DEF OneRequest
  <2>8. LoopFollowsRow'
    BY <2>5 DEF LoopFollowsRow
  <2> QED BY <2>1, <2>6, <2>7, <2>8
<1>5. CASE DeleteRow
  <2>1. LoopTypeOK'
    <3>1. begun' \in [Rows -> Nat]
      <4>1. begun["deleted"] \in Nat /\ begun["deleted"] > 0
        BY <1>5 DEF DeleteRow, LoopTypeOK
      <4>2. begun' = [begun EXCEPT !["deleted"] = begun["deleted"] - 1]
        BY <1>5 DEF DeleteRow
      <4>3. begun["deleted"] - 1 \in Nat
        BY <4>1
      <4> QED BY <4>2, <4>3 DEF LoopTypeOK
    <3>3. row' \in Rows
      BY <1>5 DEF DeleteRow, LoopTypeOK
    <3>2. mishaps' \subseteq Mishaps
      BY <1>5 DEF DeleteRow, LoopTypeOK, Mishaps
    <3> QED BY <1>5, <3>1, <3>2, <3>3 DEF DeleteRow, LoopTypeOK
  <2>2. Alive' = Alive /\ entry' = entry
    BY <1>5 DEF DeleteRow, Alive
  <2>3. OneLoop'
    BY <1>5, <2>2 DEF DeleteRow, OneLoop
  <2>4. Orderly' =>
          row' = "deleted" /\ Alive = {} /\ \A r \in Rows : begun'[r] = 0
    <3> SUFFICES ASSUME Orderly'
                 PROVE  row' = "deleted" /\ Alive = {} /\ \A r \in Rows : begun'[r] = 0
      OBVIOUS
    <3>1. row' = "deleted" /\ Orderly
      <4>1. \/ row' = "deleted" /\ mishaps' = mishaps
            \/ "failed deletion" \in mishaps'
        BY <1>5 DEF DeleteRow
      <4> QED BY <4>1 DEF Orderly
    <3>2. OneRequest
      BY <3>1 DEF RequestInv
    <3>3. /\ begun["deleted"] > 0 /\ begun' = [begun EXCEPT !["deleted"] = @ - 1]
          /\ begun \in [Rows -> Nat]
      BY <1>5 DEF DeleteRow, LoopTypeOK
    <3> QED BY <3>1, <3>2, <3>3, LastRequest
  <2>5. RequestInv'
    BY <2>4, NoRequest DEF RequestInv
  <2>6. LoopFollowsRow'
    BY <2>2, <2>4 DEF LoopFollowsRow
  <2> QED BY <2>1, <2>3, <2>5, <2>6
<1>6. CASE RestartFails
  <2>1. LoopTypeOK'
    <3>1. timer' \in [Timers -> TimerStates] /\ entry' = None
      BY <1>6, StoppedType DEF RestartFails
    <3>2. \A u \in Timers : timer'[u] = "checking" => u \in running'
      BY <1>6 DEF RestartFails, LoopTypeOK, Stopped
    <3>3. begun' \in [Rows -> Nat]
      <4>1. begun["enabled"] > 0 /\ begun' = [begun EXCEPT !["enabled"] = @ - 1]
        BY <1>6 DEF RestartFails
      <4> QED BY <4>1 DEF LoopTypeOK
    <3>4. mishaps' \subseteq Mishaps
      BY <1>6, MishapTypes DEF RestartFails, LoopTypeOK, Mishaps
    <3> QED BY <1>6, <3>1, <3>2, <3>3, <3>4 DEF RestartFails, LoopTypeOK
  <2>2. "stopped in first check" \notin mishaps' => Alive' = {}
    <3> SUFFICES ASSUME "stopped in first check" \notin mishaps' PROVE Alive' = {}
      OBVIOUS
    <3>1. "stopped in first check" \notin mishaps /\ TooLate = {}
      BY <1>6 DEF RestartFails, TooLate
    <3> QED BY <1>6, <3>1, StopEnds DEF RestartFails, Alive
  <2>3. Orderly' => \A r \in Rows : begun'[r] = 0
    <3> SUFFICES ASSUME Orderly' PROVE \A r \in Rows : begun'[r] = 0
      OBVIOUS
    <3>1. Orderly
      BY <1>6 DEF RestartFails, Orderly
    <3>2. /\ begun["enabled"] > 0 /\ begun' = [begun EXCEPT !["enabled"] = @ - 1]
          /\ begun \in [Rows -> Nat]
      BY <1>6 DEF RestartFails, LoopTypeOK
    <3> QED BY <3>1, <3>2, LastRequest DEF RequestInv
  <2>4. mishaps' # {}
    BY <1>6 DEF RestartFails
  <2>5. OneLoop'
    BY <2>1, <2>2 DEF OneLoop
  <2>6. RequestInv'
    BY <2>3, NoRequest DEF RequestInv
  <2>7. LoopFollowsRow'
    <3> SUFFICES ASSUME Orderly' PROVE Alive' = {}
      BY <2>4 DEF LoopFollowsRow
    <3>1. "stopped in first check" \notin mishaps'
      BY DEF Orderly
    <3> QED BY <2>2, <3>1
  <2> QED BY <2>1, <2>5, <2>6, <2>7
<1>7. ASSUME NEW t \in Timers, FirstCheckSkipped(t) PROVE LoopInv'
  <2>1. LoopTypeOK'
    BY <1>7 DEF FirstCheckSkipped, LoopTypeOK, TimerStates
  <2>2. Alive' = Alive /\ t \in Alive /\ entry' = t
    BY <1>7 DEF FirstCheckSkipped, Alive, LoopTypeOK
  <2>3. OneLoop' /\ (Orderly => entry = t)
    BY <1>7, <2>2 DEF FirstCheckSkipped, OneLoop, Orderly
  <2>4. RequestInv'
    BY <1>7, <2>2, RequestStays DEF FirstCheckSkipped
  <2>5. LoopFollowsRow'
    BY <1>7, <2>2, <2>3 DEF FirstCheckSkipped, LoopFollowsRow, UnderWay, Orderly
  <2> QED BY <2>1, <2>3, <2>4, <2>5
<1> QED BY <1>1, <1>2, <1>3, <1>4, <1>5, <1>6, <1>7 DEF Manage

\* The loops that are alive stay so, and the map changes to one of them at most.
LEMMA CheckKeepsLoops ==
    ASSUME LoopInv, NEW t \in Timers, BeginCheck(t) \/ EndCheck(t)
    PROVE  LoopInv'
<1>1. LoopTypeOK'
  BY DEF LoopInv, BeginCheck, FirstCheck, Tick, EndCheck, LoopTypeOK, TimerStates
<1>2. Alive' = Alive /\ (entry' = entry \/ (entry' = t /\ t \in Alive))
  BY DEF LoopInv, BeginCheck, FirstCheck, Tick, EndCheck, LoopTypeOK, Alive
<1>3. UNCHANGED <<row, begun, mishaps>>
  BY DEF BeginCheck, FirstCheck, Tick, EndCheck
<1>4. "stopped in first check" \notin mishaps => entry' = entry
  BY <1>2 DEF LoopInv, OneLoop
<1>5. RequestInv' /\ (UnderWay' <=> UnderWay) /\ (Orderly' <=> Orderly)
  BY <1>2, <1>3, RequestStays DEF LoopInv
<1>6. OneLoop'
  BY <1>2, <1>3, <1>4 DEF LoopInv, OneLoop
<1>7. LoopFollowsRow'
  <2>1. Orderly => entry' = entry
    BY <1>4 DEF Orderly
  <2> QED BY <1>2, <1>3, <1>5, <2>1 DEF LoopInv, LoopFollowsRow
<1> QED BY <1>1, <1>5, <1>6, <1>7 DEF LoopInv

LEMMA RestartKeepsLoops == ASSUME LoopInv, RestartLoops PROVE LoopInv'
<1>1. LoopTypeOK'
  BY DEF LoopInv, RestartLoops, LoopTypeOK, TimerStates
<1>2. Alive' = IF row' = "enabled" THEN {entry'} ELSE {}
  <2>1. CASE row = "enabled"
    <3>1. PICK t \in Timers : /\ timer' = [s \in Timers |-> IF s = t THEN "waiting" ELSE "off"]
                              /\ entry' = t
      BY <2>1 DEF RestartLoops
    <3> QED BY <2>1, <3>1 DEF RestartLoops, Alive
  <2>2. CASE row # "enabled"
    BY <2>2 DEF RestartLoops, Alive
  <2> QED BY <2>1, <2>2
<1>3. \A r \in Rows : begun'[r] = 0
  BY DEF RestartLoops
<1>4. OneLoop'
  BY <1>1, <1>2, <1>3 DEF OneLoop
<1>5. RequestInv'
  BY <1>3, NoRequest DEF RequestInv
<1>6. LoopFollowsRow'
  BY <1>2 DEF RestartLoops, LoopFollowsRow
<1> QED BY <1>1, <1>4, <1>5, <1>6 DEF LoopInv

-------------------------------------------------------------------------------
(* The incidents.                                                            *)

USE SentinelConstants

AtIncident == {"guard", "lookup", "book", "book ok", "book failed", "standard", "fix", "mark"}

\* The fix of the incident in hand has not been tried, or tried in doubt.
Untried == {"guard", "lookup", "book", "standard", "fix"}

Exclusive == \A t, u \in running : t = u

\* A proposed incident is fixed only in the hand of the approval that did it.
RowsInv == \A i \in Incidents :
    /\ status[i] = "none" <=> issueOf[i] = None
    /\ status[i] = "none" => history[i] = "unfixed"
    /\ status[i] = "proposed" /\ history[i] = "fixed" =>
         \E c \in Clicks : click[c].incident = i /\ click[c].at # "fix"
    /\ history[i] # "fixed again"

\* A check about to insert knows of no open incident; one with an incident in hand
\* knows that it is the only one of its issue that may be open, and that no approval
\* has it.
CheckInv == \A t \in Timers :
    /\ check[t].at \in AtIncident <=> check[t].incident # None
    /\ check[t].at = "insert" =>
         check[t].issue \in Issues /\ ~HasOpenIncident(check[t].issue)
    /\ check[t].incident # None =>
         /\ status[check[t].incident] \notin {"none", "proposed"}
         /\ issueOf[check[t].incident] = check[t].issue
         /\ \A j \in OpenIncidents : issueOf[j] = check[t].issue => j = check[t].incident
         /\ \A c \in Clicks : click[c].incident # check[t].incident
         /\ check[t].at \in Untried => history[check[t].incident] \in {"unfixed", "doubtful"}

\* An approval, without doubt, has its incident to itself.
ClickInv == \A c \in Clicks :
    /\ click[c].at = "idle" <=> click[c].incident = None
    /\ click[c].incident # None =>
         /\ status[click[c].incident] # "none"
         /\ history[click[c].incident] # "doubtful" =>
              /\ click[c].at = "fix" => history[click[c].incident] = "unfixed"
              /\ \A d \in Clicks : click[d].incident = click[c].incident => d = c

IncidentInv == Exclusive /\ OneOpen /\ RowsInv /\ CheckInv /\ ClickInv

SentinelInv == LoopInv /\ TypeOK /\ IncidentInv

-------------------------------------------------------------------------------
(* Types.                                                                    *)

LEMMA TypeFacts ==
    ASSUME TypeOK
    PROVE  /\ check \in [Timers -> CheckRecords] /\ click \in [Clicks -> ClickRecords]
           /\ \A t \in Timers : check[t] # Idle <=> t \in running
           /\ Idle \in CheckRecords /\ [Idle EXCEPT !.at = "next"] \in CheckRecords
           /\ [Idle EXCEPT !.at = "next"] # Idle
           /\ [Idle EXCEPT !.at = "fetch"] \in CheckRecords
           /\ [Idle EXCEPT !.at = "fetch"] # Idle
           /\ Unclicked \in ClickRecords
BY DEF TypeOK, ChecksOK, RestOK, CheckRecords, ClickRecords, Idle, Unclicked, Stages

\* A check that is somewhere goes on to another stage.
LEMMA GoEffect ==
    ASSUME TypeOK, NEW t \in Timers, check[t].at # "idle", NEW s \in Stages, GoTo(t, s)
    PROVE  /\ check' \in [Timers -> CheckRecords]
           /\ \A u \in Timers : check'[u] # Idle <=> u \in running
           /\ \A u \in Timers \ {t} : check'[u] = check[u]
           /\ check'[t].at = s /\ check'[t].issue = check[t].issue
           /\ check'[t].incident = check[t].incident
<1> DEFINE n == [check[t] EXCEPT !.at = s]
<1>1. check[t] # Idle /\ check[t] \in CheckRecords
  BY TypeFacts DEF Idle
<1>2. n \in CheckRecords /\ n # Idle
  BY <1>1 DEF CheckRecords, Idle, Stages
<1>3. check' = [check EXCEPT ![t] = n]
  BY DEF GoTo
<1>4. n.at = s /\ n.issue = check[t].issue /\ n.incident = check[t].incident
  BY <1>1 DEF CheckRecords
<1> HIDE DEF n
<1> QED BY <1>1, <1>2, <1>3, <1>4, TypeFacts

\* Or it is done with its issue.
LEMMA DoneEffect ==
    ASSUME TypeOK, NEW t \in Timers, check[t].at # "idle", Done(t)
    PROVE  /\ check' \in [Timers -> CheckRecords]
           /\ \A u \in Timers : check'[u] # Idle <=> u \in running
           /\ \A u \in Timers \ {t} : check'[u] = check[u]
           /\ check'[t].at = "next" /\ check'[t].incident = None
<1> DEFINE n == [Idle EXCEPT !.at = "next"]
<1>1. check[t] # Idle
  BY DEF Idle
<1>2. n \in CheckRecords /\ n # Idle /\ n.at = "next" /\ n.incident = None
  BY TypeFacts DEF Idle
<1>3. check' = [check EXCEPT ![t] = n]
  BY DEF Done
<1> HIDE DEF n
<1> QED BY <1>1, <1>2, <1>3, TypeFacts

LEMMA RetoldEffect ==
    ASSUME TypeOK, NEW i \in Incidents, NEW effect \in Effects, history' = Retold(i, effect)
    PROVE  /\ history' \in [Incidents -> Tales]
           /\ \A j \in Incidents \ {i} : history'[j] = history[j]
           /\ history'[i] = "doubtful" <=> history[i] = "doubtful"
           /\ history[i] = "unfixed" => history'[i] \in {"unfixed", "fixed"}
           /\ effect = "unchanged" => history'[i] = history[i]
           /\ history[i] = "doubtful" => history'[i] = "doubtful"
BY DEF TypeOK, TablesOK, Retold, Tales, Effects

LEMMA DoubtEffect ==
    ASSUME TypeOK, NEW is, Doubt(is)
    PROVE  /\ history' \in [Incidents -> Tales]
           /\ \A i \in Incidents : history'[i] = IF i \in is THEN "doubtful" ELSE history[i]
BY DEF TypeOK, TablesOK, Doubt, Tales

-------------------------------------------------------------------------------
(* What the steps of a check keep.                                           *)

LEMMA OthersIdle ==
    ASSUME TypeOK, Exclusive, NEW t \in Timers, check[t].at # "idle"
    PROVE  \A u \in Timers \ {t} : check[u] = Idle
<1>1. check[t] # Idle
  BY DEF Idle
<1> QED BY <1>1, TypeFacts DEF Exclusive

\* The check writes the status of its incident and is done with it.
LEMMA WriteKeeps ==
    ASSUME TypeOK, IncidentInv, NEW t \in Timers, NEW i \in Incidents,
           check[t].incident = i, NEW s \in Open \cup Closed,
           s = "proposed" => history[i] # "fixed",
           SetStatus(i, s), Done(t), UNCHANGED <<issueOf, history, click, running>>
    PROVE  IncidentInv' /\ status' \in [Incidents -> Open \cup Closed \cup {"none"}]
<1> USE DEF IncidentInv
<1>1. check[t].at \in AtIncident /\ check[t].at # "idle" /\ None \notin Incidents
  BY DEF CheckInv, AtIncident
<1>2. /\ check'[t].at = "next" /\ check'[t].incident = None
      /\ \A u \in Timers \ {t} : check'[u] = Idle
  BY <1>1, DoneEffect, OthersIdle
<1>3. /\ status' \in [Incidents -> Open \cup Closed \cup {"none"}]
      /\ status'[i] = s /\ \A j \in Incidents \ {i} : status'[j] = status[j]
  BY DEF TypeOK, TablesOK, SetStatus
<1>4. s # "none"
  BY DEF Open, Closed
<1>5. Exclusive'
  BY DEF Exclusive
<1>6. OneOpen'
  <2> SUFFICES ASSUME NEW a \in OpenIncidents', NEW b \in OpenIncidents', issueOf[a] = issueOf[b],
                      a # b
               PROVE  FALSE
    BY DEF OneOpen
  <2>1. a \in Incidents /\ b \in Incidents
    BY DEF OpenIncidents
  <2>2. issueOf[i] = check[t].issue /\ \A j \in OpenIncidents : issueOf[j] = issueOf[i] => j = i
    BY <1>1 DEF CheckInv
  <2>3. \A j \in OpenIncidents' \ {i} : j \in OpenIncidents
    BY <1>3 DEF OpenIncidents
  <2> QED BY <2>1, <2>2, <2>3 DEF OneOpen
<1>7. RowsInv'
  <2>1. issueOf[i] # None
    BY <1>1 DEF CheckInv, RowsInv
  <2>2. /\ history[i] # "fixed again" /\ history' = history /\ issueOf' = issueOf
        /\ click' = click
    BY DEF RowsInv
  <2>3. ASSUME NEW j \in Incidents, j # i
        PROVE  /\ status'[j] = "none" <=> issueOf[j] = None
               /\ status'[j] = "none" => history[j] = "unfixed"
               /\ status'[j] = "proposed" /\ history[j] = "fixed" =>
                    \E c \in Clicks : click[c].incident = j /\ click[c].at # "fix"
               /\ history[j] # "fixed again"
    <3>1. status'[j] = status[j]
      BY <1>3, <2>3
    <3>2. /\ status[j] = "none" <=> issueOf[j] = None
          /\ status[j] = "none" => history[j] = "unfixed"
          /\ status[j] = "proposed" /\ history[j] = "fixed" =>
               \E c \in Clicks : click[c].incident = j /\ click[c].at # "fix"
          /\ history[j] # "fixed again"
      BY <2>3, Zenon DEF RowsInv
    <3> QED BY ONLY <3>1, <3>2
  <2>4. /\ status'[i] = "none" <=> issueOf[i] = None
        /\ status'[i] # "none"
        /\ ~(status'[i] = "proposed" /\ history[i] = "fixed")
        /\ history[i] # "fixed again"
    BY <1>3, <1>4, <2>1, <2>2
  <2>5. ASSUME NEW j \in Incidents
        PROVE  /\ status'[j] = "none" <=> issueOf[j] = None
               /\ status'[j] = "none" => history[j] = "unfixed"
               /\ status'[j] = "proposed" /\ history[j] = "fixed" =>
                    \E c \in Clicks : click[c].incident = j /\ click[c].at # "fix"
               /\ history[j] # "fixed again"
    <3>1. CASE j = i
      BY ONLY <2>4, <3>1
    <3> QED BY <2>3, <3>1, Zenon
  <2> QED BY ONLY <2>2, <2>5 DEF RowsInv
<1>8. CheckInv'
  <2>1. \A u \in Timers : check'[u].at \in {"idle", "next"} /\ check'[u].incident = None
    BY <1>2 DEF Idle
  <2> QED BY <2>1 DEF CheckInv, AtIncident
<1>9. ClickInv'
  <2>1. ASSUME NEW c \in Clicks, click[c].incident # None
        PROVE  status'[click[c].incident] # "none"
    <3>1. click[c].incident \in Incidents
      BY <2>1, TypeFacts DEF ClickRecords
    <3> QED BY <1>3, <1>4, <2>1, <3>1 DEF ClickInv
  <2> QED BY <2>1 DEF ClickInv
<1> QED BY <1>3, <1>5, <1>6, <1>7, <1>8, <1>9

\* The check goes on, with its incident or done with it; the fix may have been tried.
LEMMA MoveKeeps ==
    ASSUME TypeOK, IncidentInv, NEW t \in Timers, NEW i \in Incidents,
           check[t].incident = i,
           \/ /\ check'[t].at \in AtIncident
              /\ check'[t].incident = i /\ check'[t].issue = check[t].issue
           \/ check'[t].at = "next" /\ check'[t].incident = None,
           \A u \in Timers \ {t} : check'[u] = check[u],
           \A j \in Incidents \ {i} : history'[j] = history[j],
           history'[i] # "doubtful" =>
              /\ history[i] # "doubtful" /\ history'[i] \in {"unfixed", "fixed"}
              /\ check'[t].at \in Untried => history'[i] = "unfixed",
           history'[i] \in Tales,
           UNCHANGED <<status, issueOf, click, running>>
    PROVE  IncidentInv'
<1> USE DEF IncidentInv
<1>1. check[t].at \in AtIncident /\ check[t].at # "idle" /\ None \notin Incidents
  BY DEF CheckInv, AtIncident
<1>2. \A u \in Timers \ {t} : check'[u] = Idle
  BY <1>1, OthersIdle
<1>3. /\ status[i] # "none" /\ issueOf[i] = check[t].issue
      /\ \A j \in OpenIncidents : issueOf[j] = check[t].issue => j = i
      /\ status[i] # "proposed" /\ \A c \in Clicks : click[c].incident # i
  BY <1>1 DEF CheckInv
<1>4. OpenIncidents' = OpenIncidents
  BY DEF OpenIncidents
<1>5. Exclusive' /\ OneOpen'
  BY <1>4 DEF Exclusive, OneOpen
<1>6. RowsInv'
  <2>2. status[i] # "proposed"
    BY <1>3
  <2>3. history'[i] # "fixed again" /\ issueOf[i] # None
    BY <1>3 DEF RowsInv
  <2>4. status'[i] # "none" /\ issueOf'[i] # None /\ status'[i] = status[i]
    BY <1>3, <2>3
  <2>5. ASSUME NEW j \in Incidents, j # i
        PROVE  /\ status'[j] = "none" <=> issueOf'[j] = None
               /\ status'[j] = "none" => history'[j] = "unfixed"
               /\ status'[j] = "proposed" /\ history'[j] = "fixed" =>
                    \E c \in Clicks : click'[c].incident = j /\ click'[c].at # "fix"
               /\ history'[j] # "fixed again"
    <3>1. history'[j] = history[j]
      BY <2>5
    <3>2. status' = status /\ issueOf' = issueOf /\ click' = click
      OBVIOUS
    <3>3. RowsInv
      OBVIOUS
    <3> QED BY ONLY <2>5, <3>1, <3>2, <3>3 DEF RowsInv
  <2> QED BY <2>2, <2>3, <2>4, <2>5 DEF RowsInv
<1>7. CheckInv'
  <2>1. ASSUME NEW u \in Timers \ {t} PROVE check'[u].at = "idle" /\ check'[u].incident = None
    BY <1>2 DEF Idle
  <2>2. "idle" \notin AtIncident /\ "insert" \notin AtIncident /\ "next" \notin AtIncident
    BY DEF AtIncident
  <2>3. CASE check'[t].incident = None
    BY <1>1, <2>1, <2>2, <2>3 DEF CheckInv
  <2>4. CASE check'[t].incident # None
    BY <1>1, <1>3, <1>4, <2>1, <2>2, <2>4 DEF CheckInv
  <2> QED BY <2>3, <2>4
<1>8. ClickInv'
  <2>1. ASSUME NEW c \in Clicks, click[c].incident # None
        PROVE  history'[click[c].incident] = history[click[c].incident]
    <3>1. click[c].incident \in Incidents \ {i}
      BY <1>3, <2>1, TypeFacts DEF ClickRecords
    <3> QED BY <3>1
  <2> QED BY <2>1 DEF ClickInv
<1> QED BY <1>5, <1>6, <1>7, <1>8

LEMMA AtPlace ==
    ASSUME TypeOK, IncidentInv, NEW t \in Timers, check[t].at \in AtIncident
    PROVE  /\ check[t].incident \in Incidents /\ check[t].at # "idle"
           /\ check[t].issue \in Issues
<1>1. check[t].incident # None /\ check[t].at # "idle"
  BY DEF IncidentInv, CheckInv, AtIncident
<1>2. check[t].incident \in Incidents
  BY <1>1, TypeFacts DEF CheckRecords
<1>3. issueOf[check[t].incident] # None /\ issueOf[check[t].incident] = check[t].issue
  BY <1>1, <1>2 DEF IncidentInv, CheckInv, RowsInv
<1> QED BY <1>1, <1>2, <1>3 DEF TypeOK, TablesOK

LEMMA LoopsStay == ASSUME LoopInv, UNCHANGED loopVars PROVE LoopInv'
<1>1. UNCHANGED <<row, begun, timer, entry, running, requests, mishaps>>
  BY DEF loopVars
<1>2. Alive' = Alive
  BY <1>1 DEF Alive
<1>3. LoopTypeOK'
  BY <1>1 DEF LoopInv, LoopTypeOK
<1>4. RequestInv' /\ (UnderWay' <=> UnderWay) /\ (Orderly' <=> Orderly)
  BY <1>1, <1>2, RequestStays DEF LoopInv
<1>5. OneLoop' /\ LoopFollowsRow'
  BY <1>1, <1>2, <1>4 DEF LoopInv, OneLoop, LoopFollowsRow
<1> QED BY <1>3, <1>4, <1>5 DEF LoopInv

LEMMA WriteSteps ==
    ASSUME SentinelInv, NEW t \in Timers,
           Protected(t) \/ RunbookOver(t) \/ Propose(t) \/ Alert(t) \/ MarkFixed(t)
    PROVE  SentinelInv'
<1> USE DEF SentinelInv
<1>1. check[t].at \in AtIncident
  BY DEF Protected, RunbookOver, Propose, Alert, MarkFixed, AtIncident
<1>2. PICK i \in Incidents : check[t].incident = i /\ check[t].at # "idle"
  BY <1>1, AtPlace
<1>3. UNCHANGED <<loopVars, scope, mode, issueOf, history, click, count>> /\ Done(t)
  BY DEF Protected, RunbookOver, Propose, Alert, MarkFixed
<1>4. PICK s \in Open \cup Closed :
        /\ SetStatus(i, s)
        /\ s = "proposed" => check[t].at \in {"guard", "standard"}
  <2>1. CASE Protected(t)
    BY <1>2, <2>1 DEF SetStatus, Protected, Open, AtIncident
  <2>2. CASE RunbookOver(t)
    <3>1. CASE check[t].at = "book ok"
      <4>1. SetStatus(i, "fixed")
        BY <1>2, <2>2, <3>1 DEF RunbookOver
      <4> QED BY <4>1 DEF Closed
    <3>2. CASE check[t].at # "book ok"
      <4>1. SetStatus(i, "fix_failed")
        BY <1>2, <2>2, <3>2 DEF RunbookOver
      <4> QED BY <4>1 DEF Closed
    <3> QED BY <3>1, <3>2
  <2>3. CASE Propose(t)
    BY <1>2, <2>3 DEF SetStatus, Propose, Open
  <2>4. CASE Alert(t)
    BY <1>2, <2>4 DEF SetStatus, Alert, Open
  <2>5. CASE MarkFixed(t)
    BY <1>2, <2>5 DEF SetStatus, MarkFixed, Closed
  <2> QED BY <2>1, <2>2, <2>3, <2>4, <2>5
<1>5. s = "proposed" => history[i] # "fixed"
  <2>1. i # None
    BY <1>2
  <2>2. history[i] # "doubtful" /\ check[t].at \in {"guard", "standard"} => history[i] = "unfixed"
    BY <1>2, <2>1 DEF IncidentInv, CheckInv, Untried
  <2> QED BY <1>4, <2>2
<1>6. IncidentInv' /\ status' \in [Incidents -> Open \cup Closed \cup {"none"}]
  <2>1. UNCHANGED <<issueOf, history, click, running>>
    BY <1>3 DEF loopVars
  <2> QED BY <1>2, <1>3, <1>4, <1>5, <2>1, WriteKeeps
<1>7. ChecksOK'
  BY <1>2, <1>3, DoneEffect DEF ChecksOK, loopVars
<1>8. LoopInv'
  BY <1>3, LoopsStay
<1>9. TypeOK'
  <2>1. TablesOK' /\ RestOK'
    BY <1>3, <1>6 DEF TypeOK, TablesOK, RestOK
  <2>2. LoopTypeOK'
    BY <1>8 DEF LoopInv
  <2> QED BY <1>7, <2>1, <2>2 DEF TypeOK
<1> QED BY <1>6, <1>8, <1>9

LEMMA MoveStep ==
    ASSUME SentinelInv, NEW t \in Timers, check[t].at \in AtIncident,
           NEW i \in Incidents, check[t].incident = i,
           Done(t) \/ \E s \in AtIncident : GoTo(t, s),
           history' \in [Incidents -> Tales],
           \A j \in Incidents \ {i} : history'[j] = history[j],
           history'[i] # "doubtful" =>
              /\ history[i] # "doubtful" /\ history'[i] \in {"unfixed", "fixed"}
              /\ check'[t].at \in Untried => history'[i] = "unfixed",
           UNCHANGED <<loopVars, mode, status, issueOf, click>>,
           count' \in [Harmless -> 0..MaxPerHour]
    PROVE  SentinelInv'
<1> USE DEF SentinelInv
<1>1. check[t].at # "idle" /\ running' = running /\ AtIncident \subseteq Stages
  BY DEF AtIncident, Stages, loopVars
<1>2. /\ ChecksOK' /\ \A u \in Timers \ {t} : check'[u] = check[u]
      /\ \/ /\ check'[t].at \in AtIncident
            /\ check'[t].incident = i /\ check'[t].issue = check[t].issue
         \/ check'[t].at = "next" /\ check'[t].incident = None
  <2>1. CASE Done(t)
    BY <1>1, <2>1, DoneEffect DEF ChecksOK
  <2>2. CASE \E s \in AtIncident : GoTo(t, s)
    <3>1. PICK s \in AtIncident : GoTo(t, s)
      BY <2>2
    <3> QED BY <1>1, <3>1, GoEffect DEF ChecksOK
  <2> QED BY <2>1, <2>2
<1>3. IncidentInv'
  BY <1>1, <1>2, MoveKeeps
<1>4. LoopInv' /\ LoopTypeOK'
  BY LoopsStay DEF LoopInv
<1>5. TablesOK' /\ RestOK'
  BY DEF TypeOK, TablesOK, RestOK
<1> QED BY <1>2, <1>3, <1>4, <1>5 DEF TypeOK

LEMMA OneMore == ASSUME NEW n \in Nat, NEW k \in 0..n, k < n PROVE k + 1 \in 0..n
OBVIOUS

LEMMA MoveSteps ==
    ASSUME SentinelInv, NEW t \in Timers,
           \/ Unprotected(t) \/ RunbookMatches(t) \/ NoRunbook(t)
           \/ FixHarmless(t) \/ FixMedium(t)
           \/ \E effect \in Effects, end \in {"book ok", "book failed"} : RunSteps(t, effect, end)
           \/ \E effect \in Effects, end \in {"ok", "failed"} : ApplyFix(t, effect, end)
    PROVE  SentinelInv'
<1> USE DEF SentinelInv
<1>1. check[t].at \in AtIncident
  BY DEF Unprotected, RunbookMatches, NoRunbook, FixHarmless, FixMedium, RunSteps, ApplyFix,
         AtIncident
<1>2. PICK i \in Incidents : check[t].incident = i
  BY <1>1, AtPlace
<1>3. /\ history[i] # "doubtful" /\ check[t].at \in Untried => history[i] = "unfixed"
      /\ history[i] # "doubtful" => history[i] \in {"unfixed", "fixed"}
  <2>1. i # None
    BY <1>2
  <2>2. history[i] # "fixed again" /\ history[i] \in Tales
    BY DEF IncidentInv, RowsInv, TypeOK, TablesOK
  <2> QED BY <1>2, <2>1, <2>2 DEF IncidentInv, CheckInv, Tales
<1>4. history \in [Incidents -> Tales] /\ count \in [Harmless -> 0..MaxPerHour]
  BY DEF TypeOK, TablesOK, RestOK
<1>5. CASE Unprotected(t) \/ RunbookMatches(t) \/ FixMedium(t)
  <2>1. UNCHANGED <<loopVars, mode, status, issueOf, history, click, count>>
    BY <1>5 DEF Unprotected, RunbookMatches, FixMedium, incidentVars
  <2>2. /\ check[t].at \in Untried
        /\ \E s \in AtIncident : GoTo(t, s)
    BY <1>5 DEF Unprotected, RunbookMatches, FixMedium, Untried, AtIncident
  <2> QED BY <1>1, <1>2, <1>3, <1>4, <2>1, <2>2, MoveStep
<1>6. CASE FixHarmless(t)
  <2>1. UNCHANGED <<loopVars, mode, status, issueOf, history, click>>
    BY <1>6 DEF FixHarmless, incidentVars
  <2>2. count' \in [Harmless -> 0..MaxPerHour]
    <3>1. CASE count[check[t].issue] < MaxPerHour
      <4>3. check[t].issue \in Harmless
        BY <1>6 DEF FixHarmless
      <4>4. count[check[t].issue] \in 0..MaxPerHour
        BY <1>4, <4>3
      <4>1. count[check[t].issue] + 1 \in 0..MaxPerHour
        BY <3>1, <4>4, OneMore
      <4>2. count' = [count EXCEPT ![check[t].issue] = count[check[t].issue] + 1]
        BY <1>6, <3>1 DEF FixHarmless
      <4> QED BY <1>4, <4>1, <4>2, <4>3
    <3>2. CASE ~(count[check[t].issue] < MaxPerHour)
      BY <1>4, <1>6, <3>2 DEF FixHarmless
    <3> QED BY <3>1, <3>2
  <2>3. check[t].at \in Untried /\ (Done(t) \/ \E s \in AtIncident : GoTo(t, s))
    BY <1>6 DEF FixHarmless, Untried, AtIncident
  <2> QED BY <1>1, <1>2, <1>3, <1>4, <2>1, <2>2, <2>3, MoveStep
<1>7. CASE NoRunbook(t)
  <2>1. UNCHANGED <<loopVars, mode, status, issueOf, click, count>> /\ GoTo(t, "standard")
    BY <1>7 DEF NoRunbook
  <2>2. /\ history' \in [Incidents -> Tales]
        /\ \A j \in Incidents : history'[j] =
              IF j = i /\ history[j] # "unfixed" THEN "doubtful" ELSE history[j]
    <3>1. Doubt({i} \cap {j \in Incidents : history[j] # "unfixed"})
      BY <1>2, <1>7 DEF NoRunbook
    <3> QED BY <1>4, <3>1 DEF Doubt, Tales
  <2>3. "standard" \in AtIncident
    BY DEF AtIncident
  <2>4. history'[i] # "doubtful" => history[i] = "unfixed" /\ history'[i] = "unfixed"
    BY <2>2
  <2> QED BY <1>1, <1>2, <1>4, <2>1, <2>2, <2>3, <2>4, MoveStep
<1>8. ASSUME NEW effect \in Effects, NEW end \in {"book ok", "book failed"},
             RunSteps(t, effect, end)
      PROVE  SentinelInv'
  <2>1. /\ UNCHANGED <<loopVars, mode, status, issueOf, click, count>> /\ GoTo(t, end)
        /\ history' = Retold(i, effect) /\ check[t].at \in Untried
    BY <1>2, <1>8 DEF RunSteps, Untried
  <2>2. end \in AtIncident /\ end \in Stages /\ end \notin Untried /\ check[t].at # "idle"
    BY <2>1 DEF AtIncident, Stages, Untried
  <2>3. check'[t].at = end
    BY <2>1, <2>2, GoEffect
  <2> QED BY <1>1, <1>2, <1>3, <1>4, <2>1, <2>2, <2>3, RetoldEffect, MoveStep
<1>9. ASSUME NEW effect \in Effects, NEW end \in {"ok", "failed"}, ApplyFix(t, effect, end)
      PROVE  SentinelInv'
  <2>1. /\ UNCHANGED <<loopVars, mode, status, issueOf, click, count>>
        /\ GoTo(t, "mark") \/ Done(t)
        /\ history' = Retold(i, effect) /\ check[t].at \in Untried
    BY <1>2, <1>9 DEF ApplyFix, Untried
  <2>2. "mark" \in AtIncident /\ "mark" \in Stages /\ check[t].at # "idle"
    BY <2>1 DEF AtIncident, Stages, Untried
  <2>3. check'[t].at \notin Untried
    BY <2>1, <2>2, GoEffect, DoneEffect DEF Untried
  <2> QED BY <1>1, <1>2, <1>3, <1>4, <2>1, <2>2, <2>3, RetoldEffect, MoveStep
<1> QED BY <1>5, <1>6, <1>7, <1>8, <1>9

LEMMA RowsStay ==
    ASSUME RowsInv, UNCHANGED <<status, issueOf, history, click>>
    PROVE  RowsInv'
BY DEF RowsInv

\* Tables and approvals stay.
LEMMA QuietStep ==
    ASSUME SentinelInv, LoopInv', ChecksOK', Exclusive', CheckInv',
           UNCHANGED <<mode, incidentVars, click, count>>
    PROVE  SentinelInv'
<1> USE DEF SentinelInv, IncidentInv
<1>1. UNCHANGED <<mode, status, issueOf, history, click, count>>
  BY DEF incidentVars
<1>2. TypeOK'
  BY <1>1 DEF TypeOK, TablesOK, RestOK, LoopInv
<1>3. OpenIncidents' = OpenIncidents
  BY <1>1 DEF OpenIncidents
<1>4. OneOpen'
  BY <1>1, <1>3 DEF OneOpen
<1>5. RowsInv'
  BY <1>1, RowsStay
<1>6. ClickInv'
  BY <1>1 DEF ClickInv
<1> QED BY <1>2, <1>4, <1>5, <1>6

\* A check with nothing in hand and nothing to insert keeps CheckInv.
LEMMA NothingInHand ==
    ASSUME \A t \in Timers : check'[t].incident = None /\ check'[t].at \in {"idle", "fetch", "next"}
    PROVE  CheckInv'
BY DEF CheckInv, AtIncident

LEMMA StartKeeps ==
    ASSUME SentinelInv, NEW t \in Timers, StartCheck(t)
    PROVE  SentinelInv'
<1> USE DEF SentinelInv
<1>1. BeginCheck(t) /\ UNCHANGED <<mode, incidentVars, click, count>>
  BY DEF StartCheck
<1>2. running = {} /\ running' = {t}
  BY <1>1 DEF BeginCheck, FirstCheck, Tick, Free
<1>3. LoopInv'
  BY <1>1, CheckKeepsLoops
<1>4. check' = [check EXCEPT ![t] = [Idle EXCEPT !.at = "fetch"]]
  BY DEF StartCheck
<1>5. \A u \in Timers : check[u] = Idle
  BY <1>2, TypeFacts
<1>6. \A u \in Timers : check'[u] = IF u = t THEN [Idle EXCEPT !.at = "fetch"] ELSE Idle
  BY <1>4, <1>5, TypeFacts
<1>7. ChecksOK'
  BY <1>2, <1>4, <1>6, TypeFacts DEF ChecksOK
<1>8. Exclusive'
  BY <1>2 DEF Exclusive
<1>9. CheckInv'
  BY <1>6, NothingInHand DEF Idle
<1> QED BY <1>1, <1>3, <1>7, <1>8, <1>9, QuietStep

LEMMA FetchedKeeps ==
    ASSUME SentinelInv, NEW t \in Timers, Fetched(t)
    PROVE  SentinelInv'
<1> USE DEF SentinelInv
<1>1. /\ check[t].at # "idle" /\ Done(t)
      /\ UNCHANGED <<loopVars, mode, incidentVars, click, count>> /\ running' = running
  BY DEF Fetched, loopVars
<1>2. LoopInv'
  BY <1>1, LoopsStay
<1>3. ChecksOK'
  BY <1>1, DoneEffect DEF ChecksOK
<1>4. \A u \in Timers \ {t} : check'[u] = Idle
  BY <1>1, DoneEffect, OthersIdle DEF IncidentInv
<1>5. check'[t].at = "next" /\ check'[t].incident = None
  BY <1>1, DoneEffect
<1>6. CheckInv'
  BY <1>4, <1>5, NothingInHand DEF Idle
<1>7. Exclusive'
  BY <1>1 DEF IncidentInv, Exclusive
<1> QED BY <1>1, <1>2, <1>3, <1>6, <1>7, QuietStep

LEMMA FinishKeeps ==
    ASSUME SentinelInv, NEW t \in Timers, FinishCheck(t)
    PROVE  SentinelInv'
<1> USE DEF SentinelInv
<1>1. /\ check[t].at # "idle" /\ EndCheck(t) /\ check' = [check EXCEPT ![t] = Idle]
      /\ UNCHANGED <<mode, incidentVars, click, count>>
  BY DEF FinishCheck
<1>2. running' = running \ {t}
  BY <1>1 DEF EndCheck
<1>3. LoopInv'
  BY <1>1, CheckKeepsLoops
<1>4. \A u \in Timers : check'[u] = Idle
  BY <1>1, OthersIdle, TypeFacts DEF IncidentInv
<1>5. running' = {}
  BY <1>1, <1>2 DEF EndCheck, IncidentInv, Exclusive, LoopInv, LoopTypeOK
<1>6. ChecksOK'
  BY <1>1, <1>4, <1>5, TypeFacts DEF ChecksOK
<1>7. CheckInv'
  BY <1>4, NothingInHand DEF Idle
<1>8. Exclusive'
  BY <1>5 DEF Exclusive
<1> QED BY <1>1, <1>3, <1>6, <1>7, <1>8, QuietStep

LEMMA LookKeeps ==
    ASSUME SentinelInv, NEW t \in Timers, NEW p \in Issues, Look(t, p)
    PROVE  SentinelInv'
<1> USE DEF SentinelInv
<1> DEFINE n == [at |-> "insert", issue |-> p, incident |-> None]
<1>1. /\ check[t].at # "idle" /\ check' = [check EXCEPT ![t] = n] /\ ~HasOpenIncident(p)
      /\ UNCHANGED <<loopVars, mode, status, issueOf, history, click, count>> /\ running' = running
  BY DEF Look, loopVars, incidentVars
<1>2. n \in CheckRecords /\ n # Idle /\ n.at = "insert" /\ n.issue = p /\ n.incident = None
  BY DEF CheckRecords, Stages, Idle
<1> HIDE DEF n
<1>3. check'[t] = n /\ \A u \in Timers \ {t} : check'[u] = Idle
  BY <1>1, OthersIdle, TypeFacts DEF IncidentInv
<1>4. ChecksOK'
  <2>1. check[t] # Idle
    BY <1>1 DEF Idle
  <2> QED BY <1>1, <1>2, <1>3, <2>1, TypeFacts DEF ChecksOK
<1>5. CheckInv'
  <2>1. HasOpenIncident(p)' <=> HasOpenIncident(p)
    BY <1>1 DEF HasOpenIncident
  <2>2. \A u \in Timers : /\ check'[u].incident = None /\ check'[u].at \in {"idle", "insert"}
                          /\ check'[u].at = "insert" => check'[u].issue = p
    BY <1>2, <1>3 DEF Idle
  <2>3. ~HasOpenIncident(p)'
    BY <1>1, <2>1
  <2> QED BY <2>2, <2>3 DEF CheckInv, AtIncident, HasOpenIncident
<1>6. LoopInv'
  BY <1>1, LoopsStay
<1>7. Exclusive'
  BY <1>1 DEF IncidentInv, Exclusive
<1>8. UNCHANGED <<mode, incidentVars, click, count>>
  BY <1>1 DEF incidentVars
<1> QED BY <1>4, <1>5, <1>6, <1>7, <1>8, QuietStep

LEMMA InsertKeeps ==
    ASSUME SentinelInv, NEW t \in Timers, NEW i \in Incidents, InsertIncident(t, i)
    PROVE  SentinelInv'
<1> USE DEF SentinelInv
<1> DEFINE p == check[t].issue
<1> DEFINE n == [check[t] EXCEPT !.at = "guard", !.incident = i]
<1>1. /\ check[t].at = "insert" /\ status[i] = "none" /\ check[t].at # "idle"
      /\ status' = [status EXCEPT ![i] = "pending"]
      /\ issueOf' = [issueOf EXCEPT ![i] = p]
      /\ Done(t) \/ check' = [check EXCEPT ![t] = n]
      /\ UNCHANGED <<loopVars, mode, history, click, count>> /\ running' = running
  BY DEF InsertIncident, New, SetStatus, loopVars
<1>2. p \in Issues /\ ~HasOpenIncident(p) /\ None \notin Issues /\ None \notin Incidents
  BY <1>1 DEF IncidentInv, CheckInv
<1>3. /\ n \in CheckRecords /\ n # Idle /\ n.at = "guard" /\ n.incident = i /\ n.issue = p
      /\ check[t] # Idle
  BY <1>1, TypeFacts DEF CheckRecords, Stages, Idle
<1> HIDE DEF p, n
<1>4. /\ status' \in [Incidents -> Open \cup Closed \cup {"none"}] /\ status'[i] = "pending"
      /\ issueOf' \in [Incidents -> Issues \cup {None}] /\ issueOf'[i] = p
      /\ \A j \in Incidents \ {i} : status'[j] = status[j] /\ issueOf'[j] = issueOf[j]
  BY <1>1, <1>2 DEF TypeOK, TablesOK, Open
<1>5. /\ ChecksOK' /\ \A u \in Timers \ {t} : check'[u] = Idle
      /\ check'[t] = n \/ (check'[t].at = "next" /\ check'[t].incident = None)
  <2>1. CASE Done(t)
    BY <1>1, <2>1, DoneEffect, OthersIdle DEF ChecksOK, IncidentInv
  <2>2. CASE check' = [check EXCEPT ![t] = n]
    BY <1>1, <1>3, <2>2, OthersIdle, TypeFacts DEF ChecksOK, IncidentInv
  <2> QED BY <1>1, <2>1, <2>2
<1>6. OpenIncidents' = OpenIncidents \cup {i} /\ \A j \in OpenIncidents : issueOf[j] # p
  BY <1>2, <1>4 DEF OpenIncidents, HasOpenIncident, Open
<1>7. OneOpen'
  BY <1>1, <1>4, <1>6 DEF OneOpen, IncidentInv, OpenIncidents, Open
<1>8. RowsInv'
  <2>1. status'[i] = "pending" /\ history'[i] = "unfixed" /\ issueOf'[i] # None
    BY <1>1, <1>2, <1>4 DEF IncidentInv, RowsInv
  <2>2. ASSUME NEW j \in Incidents, j # i
        PROVE  /\ status'[j] = "none" <=> issueOf'[j] = None
               /\ status'[j] = "none" => history'[j] = "unfixed"
               /\ status'[j] = "proposed" /\ history'[j] = "fixed" =>
                    \E c \in Clicks : click'[c].incident = j /\ click'[c].at # "fix"
               /\ history'[j] # "fixed again"
    <3>1. status'[j] = status[j] /\ issueOf'[j] = issueOf[j] /\ history'[j] = history[j]
      BY <1>1, <1>4, <2>2
    <3>2. click' = click
      BY <1>1
    <3>3. /\ status[j] = "none" <=> issueOf[j] = None
          /\ status[j] = "none" => history[j] = "unfixed"
          /\ status[j] = "proposed" /\ history[j] = "fixed" =>
               \E c \in Clicks : click[c].incident = j /\ click[c].at # "fix"
          /\ history[j] # "fixed again"
      BY <2>2, Zenon DEF IncidentInv, RowsInv
    <3> QED BY ONLY <3>1, <3>2, <3>3
  <2> QED BY <2>1, <2>2 DEF RowsInv
<1>9. CheckInv'
  <2>1. \A u \in Timers \ {t} : check'[u].at = "idle" /\ check'[u].incident = None
    BY <1>5 DEF Idle
  <2>2. CASE check'[t].incident = None
    BY <1>2, <1>3, <1>5, <2>1, <2>2 DEF CheckInv, AtIncident
  <2>3. CASE check'[t] = n
    <3>1. history'[i] = "unfixed"
      BY <1>1 DEF IncidentInv, RowsInv
    <3>2. \A j \in OpenIncidents' : issueOf'[j] = p => j = i
      BY <1>4, <1>6 DEF OpenIncidents
    <3>3. i # None
      BY <1>2
    <3>4. /\ check'[t].at = "guard" /\ check'[t].incident = i /\ check'[t].issue = p
          /\ status'[i] = "pending" /\ issueOf'[i] = p
      BY <1>3, <1>4, <1>5, <2>3, TypeFacts
    <3>5. \A c \in Clicks : click'[c].incident # i
      BY <1>1, <3>3 DEF IncidentInv, ClickInv
    <3> QED BY <2>1, <3>1, <3>2, <3>3, <3>4, <3>5 DEF CheckInv, AtIncident
  <2> QED BY <1>5, <2>2, <2>3
<1>10. ClickInv'
  <2>1. ASSUME NEW c \in Clicks, click[c].incident # None
        PROVE  status'[click[c].incident] = status[click[c].incident]
    <3>1. click[c].incident \in Incidents /\ status[click[c].incident] # "none"
      BY <2>1, TypeFacts DEF ClickRecords, IncidentInv, ClickInv
    <3> QED BY <1>1, <1>4, <3>1
  <2>2. ClickInv /\ UNCHANGED <<click, history>>
    BY <1>1 DEF IncidentInv
  <2> QED BY ONLY <2>1, <2>2 DEF ClickInv
<1>11. LoopInv'
  BY <1>1, LoopsStay
<1>12. Exclusive'
  BY <1>1 DEF IncidentInv, Exclusive
<1>13. TypeOK'
  BY <1>1, <1>4, <1>5, <1>11 DEF TypeOK, TablesOK, RestOK, LoopInv
<1> QED BY <1>7, <1>8, <1>9, <1>10, <1>11, <1>12, <1>13 DEF IncidentInv

LEMMA CheckKeeps ==
    ASSUME SentinelInv, scope \in Scopes, NEW t \in Timers, CheckStep(t)
    PROVE  SentinelInv'
<1>1. ASSUME NEW p \in scope.issues, Look(t, p) PROVE SentinelInv'
  <2>1. p \in Issues
    BY SentinelConstants
  <2> QED BY <1>1, <2>1, LookKeeps
<1>2. ASSUME NEW i \in Incidents, InsertIncident(t, i) PROVE SentinelInv'
  BY <1>2, InsertKeeps
<1>3. CASE \/ Unprotected(t) \/ RunbookMatches(t) \/ NoRunbook(t)
           \/ FixHarmless(t) \/ FixMedium(t)
           \/ \E effect \in Effects, end \in {"book ok", "book failed"} : RunSteps(t, effect, end)
           \/ \E effect \in Effects, end \in {"ok", "failed"} : ApplyFix(t, effect, end)
  BY <1>3, MoveSteps
<1>4. CASE Protected(t) \/ RunbookOver(t) \/ Propose(t) \/ Alert(t) \/ MarkFixed(t)
  BY <1>4, WriteSteps
<1>5. CASE StartCheck(t) \/ Fetched(t) \/ FinishCheck(t)
  BY <1>5, StartKeeps, FetchedKeeps, FinishKeeps
<1> QED BY <1>1, <1>2, <1>3, <1>4, <1>5 DEF CheckStep

-------------------------------------------------------------------------------
(* What the requests keep.                                                   *)

LEMMA TableFacts ==
    ASSUME TypeOK
    PROVE  /\ status \in [Incidents -> Open \cup Closed \cup {"none"}]
           /\ history \in [Incidents -> Tales]
           /\ "none" \notin Open /\ "none" \notin Closed /\ Open \cap Closed = {}
           /\ None \notin Incidents
BY DEF TypeOK, TablesOK, Open, Closed

\* A request opens and proposes nothing, takes nothing out of a check's hand, and puts the
\* history it changes of what a check has in hand in doubt.
LEMMA ChecksKept ==
    ASSUME TypeOK, IncidentInv, UNCHANGED <<check, issueOf, running>>,
           \A i \in Incidents :
              /\ status'[i] = "none" <=> status[i] = "none"
              /\ status'[i] \in Open => status[i] \in Open
              /\ status'[i] = "proposed" => status[i] = "proposed",
           \A t \in Timers : check[t].incident # None =>
              /\ history'[check[t].incident] \in {history[check[t].incident], "doubtful"}
              /\ \A c \in Clicks : click'[c].incident # check[t].incident
    PROVE  Exclusive' /\ OneOpen' /\ CheckInv'
<1> USE DEF IncidentInv
<1>1. OpenIncidents' \subseteq OpenIncidents
  BY DEF OpenIncidents
<1>2. Exclusive' /\ OneOpen'
  BY <1>1 DEF Exclusive, OneOpen, OpenIncidents
<1>3. ASSUME NEW t \in Timers
      PROVE  /\ check[t].at = "insert" => ~(HasOpenIncident(check[t].issue)')
             /\ check[t].incident # None => check[t].incident \in Incidents
  <2>1. CASE check[t].at = "insert"
    BY <1>1, <2>1, TypeFacts DEF CheckInv, HasOpenIncident, CheckRecords
  <2>2. check[t] \in CheckRecords
    BY TypeFacts
  <2> QED BY <2>1, <2>2 DEF CheckRecords
<1>4. CheckInv'
  <2> SUFFICES ASSUME NEW t \in Timers
      PROVE  /\ check[t].at \in AtIncident <=> check[t].incident # None
             /\ check[t].at = "insert" => check[t].issue \in Issues
             /\ check[t].incident # None =>
                  /\ status'[check[t].incident] \notin {"none", "proposed"}
                  /\ issueOf[check[t].incident] = check[t].issue
                  /\ \A j \in OpenIncidents : issueOf[j] = check[t].issue => j = check[t].incident
                  /\ \A c \in Clicks : click'[c].incident # check[t].incident
                  /\ check[t].at \in Untried =>
                       history'[check[t].incident] \in {"unfixed", "doubtful"}
    BY <1>1, <1>3 DEF CheckInv, HasOpenIncident
  <2>1. CASE check[t].incident = None
    BY <2>1 DEF CheckInv
  <2>2. CASE check[t].incident # None
    <3>1. check[t].incident \in Incidents
      BY <1>3, <2>2
    <3> QED BY <2>2, <3>1 DEF CheckInv
  <2> QED BY <2>1, <2>2
<1> QED BY <1>2, <1>4

\* A check has nothing in hand that an approval has.
LEMMA Hands ==
    ASSUME SentinelInv, NEW t \in Timers, NEW c \in Clicks, check[t].incident # None
    PROVE  click[c].incident # check[t].incident
BY DEF SentinelInv, IncidentInv, CheckInv

LEMMA ClickFacts ==
    ASSUME SentinelInv, NEW c \in Clicks, click[c] # Unclicked
    PROVE  /\ click[c].incident \in Incidents /\ click[c].at # "idle"
           /\ click[c] \in ClickRecords
<1>1. click[c] \in ClickRecords
  BY TypeFacts DEF SentinelInv
<1>2. click[c].incident # None /\ click[c].at # "idle"
  BY <1>1 DEF SentinelInv, IncidentInv, ClickInv, ClickRecords, Unclicked
<1> QED BY <1>1, <1>2 DEF ClickRecords

\* The types behind a request.
LEMMA RequestTypes ==
    ASSUME SentinelInv, UNCHANGED <<loopVars, check>>,
           mode' \in Modes, count' \in [Harmless -> 0..MaxPerHour],
           status' \in [Incidents -> Open \cup Closed \cup {"none"}],
           issueOf' = issueOf, history' \in [Incidents -> Tales],
           click' \in [Clicks -> ClickRecords]
    PROVE  TypeOK' /\ LoopInv' /\ running' = running
<1>1. LoopInv' /\ running' = running
  BY LoopsStay DEF SentinelInv, loopVars
<1> QED BY <1>1 DEF SentinelInv, TypeOK, TablesOK, RestOK, ChecksOK, LoopInv

\* In RowsInv an incident depends on its row and on the approvals that have it.
LEMMA RowKept ==
    ASSUME SentinelInv, NEW i \in Incidents, issueOf' = issueOf,
           status'[i] = status[i], history'[i] = history[i],
           \A c \in Clicks : click[c].incident = i => click'[c] = click[c]
    PROVE  /\ status'[i] = "none" <=> issueOf'[i] = None
           /\ status'[i] = "none" => history'[i] = "unfixed"
           /\ status'[i] = "proposed" /\ history'[i] = "fixed" =>
                \E c \in Clicks : click'[c].incident = i /\ click'[c].at # "fix"
           /\ history'[i] # "fixed again"
<1>1. /\ status[i] = "none" <=> issueOf[i] = None
      /\ status[i] = "none" => history[i] = "unfixed"
      /\ history[i] # "fixed again"
  BY DEF SentinelInv, IncidentInv, RowsInv
<1>2. ASSUME status[i] = "proposed", history[i] = "fixed"
      PROVE  \E c \in Clicks : click'[c].incident = i /\ click'[c].at # "fix"
  <2>1. PICK c \in Clicks : click[c].incident = i /\ click[c].at # "fix"
    BY <1>2 DEF SentinelInv, IncidentInv, RowsInv
  <2>2. click'[c] = click[c]
    BY <2>1
  <2> QED BY <2>1, <2>2
<1> QED BY <1>1, <1>2

LEMMA ApproveKeeps ==
    ASSUME SentinelInv, NEW c \in Clicks, NEW i \in Incidents, Approve(c, i)
    PROVE  SentinelInv'
<1> USE DEF SentinelInv
<1> DEFINE n == [at |-> "fix", incident |-> i]
<1>1. /\ click[c] = Unclicked /\ status[i] = "proposed" /\ click' = [click EXCEPT ![c] = n]
      /\ Doubt({i} \cap {j \in Incidents : InHand(j)})
      /\ UNCHANGED <<loopVars, mode, status, issueOf, check, count>>
  BY DEF Approve, Approvable
<1>2. /\ n \in ClickRecords /\ n.at = "fix" /\ n.incident = i /\ i # None
      /\ click[c].incident = None /\ click[c].at = "idle"
  BY <1>1, TableFacts DEF ClickRecords, Unclicked
<1> HIDE DEF n
<1>3. /\ click' \in [Clicks -> ClickRecords] /\ click'[c] = n
      /\ \A d \in Clicks \ {c} : click'[d] = click[d]
  BY <1>1, <1>2, TypeFacts
<1>4. /\ history' \in [Incidents -> Tales]
      /\ \A j \in Incidents \ {i} : history'[j] = history[j]
      /\ history'[i] # "doubtful" => ~InHand(i) /\ history'[i] = history[i]
  BY <1>1, DoubtEffect
<1>5. TypeOK' /\ LoopInv' /\ running' = running
  BY <1>1, <1>3, <1>4, RequestTypes DEF TypeOK, RestOK, TablesOK
<1>6. Exclusive' /\ OneOpen' /\ CheckInv'
  <2>1. ASSUME NEW t \in Timers, check[t].incident # None
        PROVE  /\ history'[check[t].incident] \in {history[check[t].incident], "doubtful"}
               /\ \A d \in Clicks : click'[d].incident # check[t].incident
    <3>1. check[t].incident \in Incidents \ {i}
      BY <1>1, <2>1, TypeFacts DEF IncidentInv, CheckInv, CheckRecords
    <3>2. ASSUME NEW d \in Clicks PROVE click'[d].incident # check[t].incident
      <4>1. CASE d = c
        BY <1>2, <1>3, <3>1, <4>1
      <4>2. CASE d # c
        BY <1>3, <2>1, <4>2, Hands
      <4> QED BY <4>1, <4>2
    <3> QED BY <1>4, <3>1, <3>2
  <2> QED BY <1>1, <1>5, <2>1, ChecksKept
<1>7. history'[i] # "doubtful" => history'[i] = "unfixed"
  <2> SUFFICES ASSUME history'[i] # "doubtful" PROVE history[i] = "unfixed"
    BY <1>4
  <2>1. ~InHand(i) /\ history[i] # "doubtful"
    BY <1>4
  <2>2. history[i] # "fixed"
    BY <1>1, <2>1 DEF IncidentInv, RowsInv, InHand
  <2>3. history[i] \in Tales /\ history[i] # "fixed again"
    BY TableFacts DEF IncidentInv, RowsInv
  <2> QED BY <2>1, <2>2, <2>3 DEF Tales
<1>8. RowsInv'
  <2>1. ASSUME NEW j \in Incidents \ {i}
        PROVE  \A d \in Clicks : click[d].incident = j => click'[d] = click[d]
    BY <1>2, <1>3, TableFacts
  <2>2. \A j \in Incidents \ {i} : status'[j] = status[j] /\ history'[j] = history[j]
    BY <1>1, <1>4
  <2>3. status'[i] = "proposed" /\ issueOf'[i] # None
    BY <1>1 DEF IncidentInv, RowsInv
  <2>4. history'[i] # "fixed" /\ history'[i] # "fixed again"
    BY <1>7
  <2>5. ASSUME NEW j \in Incidents \ {i}
        PROVE  /\ status'[j] = "none" <=> issueOf'[j] = None
               /\ status'[j] = "none" => history'[j] = "unfixed"
               /\ status'[j] = "proposed" /\ history'[j] = "fixed" =>
                    \E d \in Clicks : click'[d].incident = j /\ click'[d].at # "fix"
               /\ history'[j] # "fixed again"
    <3>1. /\ issueOf' = issueOf /\ status'[j] = status[j] /\ history'[j] = history[j]
          /\ \A d \in Clicks : click[d].incident = j => click'[d] = click[d]
      BY <1>1, <2>1, <2>2
    <3> QED BY <3>1, RowKept
  <2> QED BY <2>3, <2>4, <2>5 DEF RowsInv
<1>9. ClickInv'
  <2> SUFFICES ASSUME NEW d \in Clicks
      PROVE  /\ click'[d].at = "idle" <=> click'[d].incident = None
             /\ click'[d].incident # None =>
                  /\ status'[click'[d].incident] # "none"
                  /\ history'[click'[d].incident] # "doubtful" =>
                       /\ click'[d].at = "fix" => history'[click'[d].incident] = "unfixed"
                       /\ \A e \in Clicks : click'[e].incident = click'[d].incident => e = d
    BY DEF ClickInv
  <2>1. CASE d = c
    <3>1. \A e \in Clicks \ {c} : history'[i] # "doubtful" => click'[e].incident # i
      BY <1>3, <1>4 DEF InHand
    <3> QED BY <1>1, <1>2, <1>3, <1>7, <2>1, <3>1
  <2>2. CASE d # c /\ click[d].incident # None
    <3>1. click[d].incident \in Incidents /\ click'[d] = click[d]
      BY <1>3, <2>2, TypeFacts DEF ClickRecords
    <3>2. click[d].incident = i => history'[i] = "doubtful"
      BY <1>4 DEF InHand
    <3>3. status' = status
      BY <1>1
    <3>4. CASE click[d].incident = i
      BY <1>1, <1>2, <2>2, <3>1, <3>2, <3>3, <3>4 DEF IncidentInv, ClickInv
    <3>5. CASE click[d].incident # i
      <4>1. history'[click[d].incident] = history[click[d].incident]
        BY <1>4, <3>1, <3>5
      <4>2. \A e \in Clicks : click'[e].incident = click[d].incident => click[e].incident = click[d].incident
        BY <1>2, <1>3, <3>5
      <4> QED BY <2>2, <3>1, <3>3, <4>1, <4>2 DEF IncidentInv, ClickInv
    <3> QED BY <3>4, <3>5
  <2>3. CASE d # c /\ click[d].incident = None
    BY <1>3, <2>3 DEF IncidentInv, ClickInv
  <2> QED BY <2>1, <2>2, <2>3
<1> QED BY <1>5, <1>6, <1>8, <1>9 DEF IncidentInv

\* An approval that stays where it is, of an incident that keeps its row or falls in doubt.
LEMMA ClickKept ==
    ASSUME SentinelInv, NEW c \in Clicks, click'[c] = click[c],
           \A i \in Incidents : click[c].incident = i =>
              /\ status'[i] # "none"
              /\ history'[i] # "doubtful" => history'[i] = history[i],
           \A d \in Clicks : click'[d].incident \in {None, click[d].incident}
    PROVE  /\ click'[c].at = "idle" <=> click'[c].incident = None
           /\ click'[c].incident # None =>
                /\ status'[click'[c].incident] # "none"
                /\ history'[click'[c].incident] # "doubtful" =>
                     /\ click'[c].at = "fix" => history'[click'[c].incident] = "unfixed"
                     /\ \A d \in Clicks : click'[d].incident = click'[c].incident => d = c
<1>1. CASE click[c].incident = None
  BY <1>1 DEF SentinelInv, IncidentInv, ClickInv
<1>2. CASE click[c].incident # None
  <2>1. PICK i \in Incidents : click[c].incident = i
    BY <1>2, TypeFacts DEF SentinelInv, ClickRecords
  <2>2. click[c].at # "idle" /\ status'[i] # "none" /\ i # None
    BY <1>2, <2>1 DEF SentinelInv, IncidentInv, ClickInv
  <2>3. ASSUME history'[i] # "doubtful"
        PROVE  /\ click[c].at = "fix" => history'[i] = "unfixed"
               /\ \A d \in Clicks : click'[d].incident = i => d = c
    <3>1. history'[i] = history[i]
      BY <2>1, <2>3
    <3>2. \A d \in Clicks : click'[d].incident = i => click[d].incident = i
      BY <2>2
    <3> QED BY <2>1, <2>2, <2>3, <3>1, <3>2 DEF SentinelInv, IncidentInv, ClickInv
  <2> QED BY <2>1, <2>2, <2>3
<1> QED BY <1>1, <1>2

LEMMA ApproveFixKeeps ==
    ASSUME SentinelInv, NEW c \in Clicks, NEW effect \in Effects, NEW end \in {"ok", "failed"},
           ApproveFix(c, effect, end)
    PROVE  SentinelInv'
<1> USE DEF SentinelInv
<1>1. click[c].at = "fix" /\ click[c] # Unclicked
  BY DEF ApproveFix, Unclicked
<1>2. PICK i \in Incidents : click[c].incident = i
  BY <1>1, ClickFacts
<1> DEFINE n == [click[c] EXCEPT !.at = end]
<1>3. /\ history' = Retold(i, effect) /\ click' = [click EXCEPT ![c] = n]
      /\ UNCHANGED <<loopVars, mode, status, issueOf, check, count>>
  BY <1>2 DEF ApproveFix
<1>4. n \in ClickRecords /\ n.at = end /\ n.incident = i
  BY <1>1, <1>2, ClickFacts DEF ClickRecords
<1> HIDE DEF n
<1>5. /\ click' \in [Clicks -> ClickRecords] /\ click'[c] = n
      /\ \A d \in Clicks \ {c} : click'[d] = click[d]
  BY <1>3, <1>4, TypeFacts
<1>6. /\ history' \in [Incidents -> Tales]
      /\ \A j \in Incidents \ {i} : history'[j] = history[j]
      /\ history'[i] = "doubtful" <=> history[i] = "doubtful"
      /\ history[i] = "unfixed" => history'[i] \in {"unfixed", "fixed"}
  BY <1>3, RetoldEffect
<1>7. TypeOK' /\ LoopInv' /\ running' = running
  BY <1>3, <1>5, <1>6, RequestTypes DEF TypeOK, RestOK, TablesOK
<1>8. /\ i # None /\ status[i] # "none"
      /\ history[i] # "doubtful" => /\ history[i] = "unfixed"
                                    /\ \A d \in Clicks : click[d].incident = i => d = c
  BY <1>1, <1>2, TableFacts DEF IncidentInv, ClickInv
<1>9. Exclusive' /\ OneOpen' /\ CheckInv'
  <2>1. ASSUME NEW t \in Timers, check[t].incident # None
        PROVE  /\ history'[check[t].incident] = history[check[t].incident]
               /\ \A d \in Clicks : click'[d].incident # check[t].incident
    <3>1. check[t].incident \in Incidents \ {i}
      BY <1>2, <2>1, Hands, TypeFacts DEF CheckRecords
    <3>2. \A d \in Clicks : click'[d].incident = click[d].incident
      BY <1>2, <1>4, <1>5
    <3> QED BY <1>6, <2>1, <3>1, <3>2, Hands
  <2> QED BY <1>3, <1>6, <1>7, <2>1, ChecksKept
<1>10. RowsInv'
  <2>1. ASSUME NEW j \in Incidents \ {i}
        PROVE  /\ status'[j] = "none" <=> issueOf'[j] = None
               /\ status'[j] = "none" => history'[j] = "unfixed"
               /\ status'[j] = "proposed" /\ history'[j] = "fixed" =>
                    \E d \in Clicks : click'[d].incident = j /\ click'[d].at # "fix"
               /\ history'[j] # "fixed again"
    <3>1. /\ issueOf' = issueOf /\ status'[j] = status[j] /\ history'[j] = history[j]
          /\ \A d \in Clicks : click[d].incident = j => click'[d] = click[d]
      BY <1>2, <1>3, <1>5, <1>6
    <3> QED BY <3>1, RowKept
  <2>2. status'[i] # "none" /\ issueOf'[i] # None /\ history'[i] # "fixed again"
    BY <1>3, <1>6, <1>8 DEF IncidentInv, RowsInv
  <2>3. click'[c].incident = i /\ click'[c].at # "fix"
    BY <1>4, <1>5
  <2> QED BY <2>1, <2>2, <2>3 DEF RowsInv
<1>11. ClickInv'
  <2>1. \A d \in Clicks : click'[d].incident = click[d].incident
    BY <1>2, <1>4, <1>5
  <2>2. ASSUME NEW d \in Clicks \ {c}
        PROVE  /\ click'[d].at = "idle" <=> click'[d].incident = None
               /\ click'[d].incident # None =>
                  /\ status'[click'[d].incident] # "none"
                  /\ history'[click'[d].incident] # "doubtful" =>
                       /\ click'[d].at = "fix" => history'[click'[d].incident] = "unfixed"
                       /\ \A e \in Clicks : click'[e].incident = click'[d].incident => e = d
    <3>1. ASSUME NEW j \in Incidents, click[d].incident = j
          PROVE  /\ status'[j] # "none"
                 /\ history'[j] # "doubtful" => history'[j] = history[j]
      <4>1. status[j] # "none" /\ j # None
        BY <3>1, TableFacts DEF IncidentInv, ClickInv
      <4>2. j = i => history'[j] = "doubtful"
        BY <1>6, <1>8, <3>1
      <4> QED BY <1>3, <1>6, <4>1, <4>2
    <3> QED BY <1>5, <2>1, <3>1, ClickKept
  <2>3. \A d \in Clicks : history'[i] # "doubtful" /\ click'[d].incident = i => d = c
    BY <1>6, <1>8, <2>1
  <2>4. /\ click'[c].at # "idle" /\ click'[c].at # "fix" /\ click'[c].incident = i
        /\ status'[i] # "none"
    BY <1>3, <1>4, <1>5, <1>6, <1>8
  <2> QED BY <1>8, <2>2, <2>3, <2>4 DEF ClickInv
<1> QED BY <1>7, <1>9, <1>10, <1>11 DEF IncidentInv

\* An approval ends: it writes the status, or leaves its fix in doubt.
LEMMA ApproveEndKeeps ==
    ASSUME SentinelInv, NEW c \in Clicks, ApproveMark(c) \/ ApproveError(c)
    PROVE  SentinelInv'
<1> USE DEF SentinelInv
<1>1. /\ click[c] # Unclicked /\ click' = [click EXCEPT ![c] = Unclicked]
      /\ UNCHANGED <<loopVars, mode, issueOf, check, count>>
  BY DEF ApproveMark, ApproveError, Unclicked
<1>2. PICK i \in Incidents : click[c].incident = i
  BY <1>1, ClickFacts
<1>3. /\ click' \in [Clicks -> ClickRecords]
      /\ click'[c].at = "idle" /\ click'[c].incident = None
      /\ \A d \in Clicks \ {c} : click'[d] = click[d]
  BY <1>1, TypeFacts DEF Unclicked
<1>4. /\ i # None /\ status[i] # "none"
      /\ history[i] # "doubtful" => \A d \in Clicks : click[d].incident = i => d = c
  BY <1>1, <1>2, TableFacts DEF IncidentInv, ClickInv
<1>5. /\ status' \in [Incidents -> Open \cup Closed \cup {"none"}]
      /\ history' \in [Incidents -> Tales]
      /\ \A j \in Incidents \ {i} : status'[j] = status[j] /\ history'[j] = history[j]
      /\ \/ status'[i] \in Closed /\ history'[i] = history[i]
         \/ /\ status'[i] = status[i]
            /\ history'[i] = IF history[i] # "unfixed" THEN "doubtful" ELSE "unfixed"
  <2>1. CASE ApproveMark(c)
    BY <1>2, <2>1, TableFacts DEF ApproveMark, SetStatus, Closed
  <2>2. CASE ApproveError(c)
    <3>1. Doubt({i} \cap {j \in Incidents : history[j] # "unfixed"}) /\ status' = status
      BY <1>2, <2>2 DEF ApproveError
    <3> QED BY <3>1, DoubtEffect, TableFacts
  <2> QED BY <2>1, <2>2
<1>6. TypeOK' /\ LoopInv' /\ running' = running
  BY <1>1, <1>3, <1>5, RequestTypes DEF TypeOK, RestOK, TablesOK
<1>7. /\ status'[i] # "none" /\ (status'[i] \in Open => status[i] \in Open)
      /\ status'[i] = "proposed" => status[i] = "proposed"
  BY <1>4, <1>5, TableFacts DEF Closed
<1>8. history'[i] # "doubtful" =>
        history[i] # "doubtful" /\ \A d \in Clicks \ {c} : click[d].incident # i
  BY <1>4, <1>5
<1>9. Exclusive' /\ OneOpen' /\ CheckInv'
  <2>1. ASSUME NEW t \in Timers, check[t].incident # None
        PROVE  /\ history'[check[t].incident] = history[check[t].incident]
               /\ \A d \in Clicks : click'[d].incident # check[t].incident
    <3>1. check[t].incident \in Incidents \ {i}
      BY <1>2, <2>1, Hands, TypeFacts DEF CheckRecords
    <3> QED BY <1>3, <1>5, <2>1, <3>1, Hands
  <2> QED BY <1>1, <1>4, <1>5, <1>6, <1>7, <2>1, ChecksKept
<1>10. RowsInv'
  <2>1. ASSUME NEW j \in Incidents \ {i}
        PROVE  /\ status'[j] = "none" <=> issueOf'[j] = None
               /\ status'[j] = "none" => history'[j] = "unfixed"
               /\ status'[j] = "proposed" /\ history'[j] = "fixed" =>
                    \E d \in Clicks : click'[d].incident = j /\ click'[d].at # "fix"
               /\ history'[j] # "fixed again"
    <3>1. /\ issueOf' = issueOf /\ status'[j] = status[j] /\ history'[j] = history[j]
          /\ \A d \in Clicks : click[d].incident = j => click'[d] = click[d]
      BY <1>1, <1>2, <1>3, <1>5
    <3> QED BY <3>1, RowKept
  <2>2. issueOf'[i] # None /\ history'[i] # "fixed again"
    BY <1>1, <1>4, <1>5 DEF IncidentInv, RowsInv
  <2>3. ~(status'[i] = "proposed" /\ history'[i] = "fixed")
    BY <1>5 DEF Closed
  <2> QED BY <1>7, <2>1, <2>2, <2>3 DEF RowsInv
<1>11. ClickInv'
  <2>1. \A d \in Clicks : click'[d].incident \in {None, click[d].incident}
    BY <1>3
  <2>2. ASSUME NEW d \in Clicks \ {c}
        PROVE  /\ click'[d].at = "idle" <=> click'[d].incident = None
               /\ click'[d].incident # None =>
                  /\ status'[click'[d].incident] # "none"
                  /\ history'[click'[d].incident] # "doubtful" =>
                       /\ click'[d].at = "fix" => history'[click'[d].incident] = "unfixed"
                       /\ \A e \in Clicks : click'[e].incident = click'[d].incident => e = d
    <3>1. ASSUME NEW j \in Incidents, click[d].incident = j
          PROVE  /\ status'[j] # "none"
                 /\ history'[j] # "doubtful" => history'[j] = history[j]
      <4>1. status[j] # "none"
        BY <3>1, TableFacts DEF IncidentInv, ClickInv
      <4> QED BY <1>5, <1>7, <1>8, <3>1, <4>1
    <3> QED BY <1>3, <2>1, <3>1, ClickKept
  <2> QED BY <1>3, <2>2 DEF ClickInv
<1> QED BY <1>6, <1>9, <1>10, <1>11 DEF IncidentInv

\* Reject and Resolve.
LEMMA CloseKeeps ==
    ASSUME SentinelInv, NEW is \in SUBSET Incidents, \A i \in is : status[i] # "none",
           NEW s \in Closed, status' = [i \in Incidents |-> IF i \in is THEN s ELSE status[i]],
           UNCHANGED <<loopVars, mode, issueOf, history, check, click, count>>
    PROVE  SentinelInv'
<1> USE DEF SentinelInv
<1>1. /\ status' \in [Incidents -> Open \cup Closed \cup {"none"}]
      /\ \A i \in Incidents : status'[i] = IF i \in is THEN s ELSE status[i]
  BY TableFacts
<1>2. history' \in [Incidents -> Tales]
  BY TableFacts
<1>3. TypeOK' /\ LoopInv' /\ running' = running
  BY <1>1, <1>2, RequestTypes DEF TypeOK, RestOK, TablesOK
<1>4. s # "none" /\ s # "proposed" /\ s \notin Open
  BY TableFacts DEF Open, Closed
<1>5. Exclusive' /\ OneOpen' /\ CheckInv'
  <2>1. \A i \in Incidents :
            /\ status'[i] = "none" <=> status[i] = "none"
            /\ status'[i] \in Open => status[i] \in Open
            /\ status'[i] = "proposed" => status[i] = "proposed"
    BY <1>1, <1>4
  <2>2. ASSUME NEW t \in Timers, check[t].incident # None
        PROVE  /\ history'[check[t].incident] = history[check[t].incident]
               /\ \A c \in Clicks : click'[c].incident # check[t].incident
    BY <2>2, Hands
  <2> QED BY <1>3, <2>1, <2>2, ChecksKept
<1>6. RowsInv'
  <2>1. ASSUME NEW j \in Incidents
        PROVE  /\ status'[j] = "none" <=> issueOf'[j] = None
               /\ status'[j] = "none" => history'[j] = "unfixed"
               /\ status'[j] = "proposed" /\ history'[j] = "fixed" =>
                    \E d \in Clicks : click'[d].incident = j /\ click'[d].at # "fix"
               /\ history'[j] # "fixed again"
    <3>1. CASE j \in is
      <4>1. status'[j] = s /\ issueOf'[j] # None
        BY <1>1, <3>1 DEF IncidentInv, RowsInv
      <4>2. history'[j] # "fixed again"
        BY DEF IncidentInv, RowsInv
      <4> QED BY <1>4, <4>1, <4>2
    <3>2. CASE j \notin is
      <4>1. /\ issueOf' = issueOf /\ status'[j] = status[j] /\ history'[j] = history[j]
            /\ \A d \in Clicks : click[d].incident = j => click'[d] = click[d]
        BY <1>1, <1>2, <3>2
      <4> QED BY <4>1, RowKept
    <3> QED BY <3>1, <3>2
  <2> QED BY <2>1 DEF RowsInv
<1>7. ClickInv'
  <2>1. \A d \in Clicks : click'[d].incident \in {None, click[d].incident} /\ click'[d] = click[d]
    OBVIOUS
  <2>2. ASSUME NEW d \in Clicks
        PROVE  /\ click'[d].at = "idle" <=> click'[d].incident = None
               /\ click'[d].incident # None =>
                  /\ status'[click'[d].incident] # "none"
                  /\ history'[click'[d].incident] # "doubtful" =>
                       /\ click'[d].at = "fix" => history'[click'[d].incident] = "unfixed"
                       /\ \A e \in Clicks : click'[e].incident = click'[d].incident => e = d
    <3>1. ASSUME NEW j \in Incidents, click[d].incident = j
          PROVE  /\ status'[j] # "none"
                 /\ history'[j] # "doubtful" => history'[j] = history[j]
      <4>1. status[j] # "none"
        BY <3>1, TableFacts DEF IncidentInv, ClickInv
      <4> QED BY <1>1, <1>4, <4>1
    <3> QED BY <2>1, <3>1, ClickKept
  <2> QED BY <2>2 DEF ClickInv
<1> QED BY <1>3, <1>5, <1>6, <1>7 DEF IncidentInv

\* The mode, the hour and the loops are nothing to the incidents.
LEMMA TablesStay ==
    ASSUME SentinelInv, LoopInv', mode' \in Modes, count' \in [Harmless -> 0..MaxPerHour],
           UNCHANGED <<running, incidentVars, check, click>>
    PROVE  SentinelInv'
<1> USE DEF SentinelInv, IncidentInv
<1>1. UNCHANGED <<running, status, issueOf, history, check, click>>
  BY DEF incidentVars
<1>2. TypeOK'
  BY <1>1 DEF TypeOK, TablesOK, RestOK, ChecksOK, LoopInv
<1>3. OpenIncidents' = OpenIncidents
  BY <1>1 DEF OpenIncidents
<1>4. Exclusive' /\ OneOpen'
  BY <1>1, <1>3 DEF Exclusive, OneOpen
<1>5. RowsInv'
  BY <1>1, RowsStay
<1>6. CheckInv'
  <2>1. \A t \in Timers : check[t].incident # None =>
            \A c \in Clicks : click'[c].incident # check[t].incident
    BY <1>1, Hands
  <2> QED BY <1>1, <2>1, ChecksKept
<1>7. ClickInv'
  BY <1>1 DEF ClickInv
<1> QED BY <1>2, <1>4, <1>5, <1>6, <1>7

LEMMA RestartKeeps == ASSUME SentinelInv, Restart PROVE SentinelInv'
<1> USE DEF SentinelInv
<1>1. /\ RestartLoops /\ running' = {} /\ mode' \in Modes
      /\ check' = [t \in Timers |-> Idle] /\ click' = [c \in Clicks |-> Unclicked]
      /\ count' = [p \in Harmless |-> 0] /\ UNCHANGED <<status, issueOf>>
      /\ Doubt({i \in Incidents : history[i] # "unfixed" /\ \E c \in Clicks : click[c].incident = i})
  BY DEF Restart, RestartLoops
<1>2. LoopInv'
  BY <1>1, RestartKeepsLoops
<1>3. /\ history' \in [Incidents -> Tales]
      /\ \A i \in Incidents : history'[i] =
            IF history[i] # "unfixed" /\ \E c \in Clicks : click[c].incident = i
            THEN "doubtful" ELSE history[i]
  BY <1>1, DoubtEffect
<1>4. TypeOK'
  <2>1. ChecksOK'
    BY <1>1, TypeFacts DEF ChecksOK
  <2>2. count' \in [Harmless -> 0..MaxPerHour]
    BY <1>1
  <2>3. click' \in [Clicks -> ClickRecords]
    BY <1>1, TypeFacts
  <2> QED BY <1>1, <1>2, <1>3, <2>1, <2>2, <2>3 DEF TypeOK, TablesOK, RestOK, LoopInv
<1>5. Exclusive'
  BY <1>1 DEF Exclusive
<1>6. OneOpen'
  BY <1>1 DEF IncidentInv, OneOpen, OpenIncidents
<1>7. RowsInv'
  <2>1. ASSUME NEW i \in Incidents
        PROVE  /\ status[i] = "none" <=> issueOf[i] = None
               /\ status[i] = "none" => history'[i] = "unfixed"
               /\ ~(status[i] = "proposed" /\ history'[i] = "fixed")
               /\ history'[i] # "fixed again"
    <3>1. /\ status[i] = "none" <=> issueOf[i] = None
          /\ status[i] = "none" => history[i] = "unfixed"
          /\ history[i] # "fixed again"
      BY DEF IncidentInv, RowsInv
    <3>2. status[i] = "proposed" /\ history[i] = "fixed" => \E c \in Clicks : click[c].incident = i
      BY DEF IncidentInv, RowsInv
    <3>3. history'[i] \in {"doubtful", history[i]} /\ (history[i] = "unfixed" => history'[i] = "unfixed")
      BY <1>3
    <3>4. ~(status[i] = "proposed" /\ history'[i] = "fixed")
      <4> SUFFICES ASSUME status[i] = "proposed", history'[i] = "fixed" PROVE FALSE
        OBVIOUS
      <4>1. history[i] = "fixed"
        BY <3>3
      <4>2. \E c \in Clicks : click[c].incident = i
        BY <3>2, <4>1
      <4> QED BY <1>3, <4>1, <4>2
    <3> QED BY <3>1, <3>3, <3>4
  <2> QED BY <1>1, <2>1 DEF RowsInv
<1>8. CheckInv'
  BY <1>1, NothingInHand DEF Idle
<1>9. ClickInv'
  BY <1>1 DEF ClickInv, Unclicked
<1> QED BY <1>2, <1>4, <1>5, <1>6, <1>7, <1>8, <1>9 DEF IncidentInv

LEMMA RequestKeeps == ASSUME SentinelInv, scope \in Scopes, Request PROVE SentinelInv'
<1>1. scope.clicks \subseteq Clicks
  BY SentinelConstants
<1>2. ASSUME NEW c \in Clicks, NEW i \in Incidents, Approve(c, i) PROVE SentinelInv'
  BY <1>2, ApproveKeeps
<1>3. ASSUME NEW c \in Clicks, NEW effect \in Effects, NEW end \in {"ok", "failed"},
             ApproveFix(c, effect, end)
      PROVE  SentinelInv'
  BY <1>3, ApproveFixKeeps
<1>4. ASSUME NEW c \in Clicks, ApproveMark(c) \/ ApproveError(c) PROVE SentinelInv'
  BY <1>4, ApproveEndKeeps
<1>5. ASSUME NEW i \in Incidents, Reject(i) PROVE SentinelInv'
  <2>1. /\ status[i] # "none" /\ SetStatus(i, "rejected")
        /\ UNCHANGED <<loopVars, mode, issueOf, history, check, click, count>>
    BY <1>5 DEF Reject
  <2>2. status' = [j \in Incidents |-> IF j \in {i} THEN "rejected" ELSE status[j]]
    BY <2>1, TableFacts DEF SetStatus, SentinelInv
  <2>3. "rejected" \in Closed /\ {i} \in SUBSET Incidents /\ \A j \in {i} : status[j] # "none"
    BY <2>1 DEF Closed
  <2> QED BY <2>1, <2>2, <2>3, CloseKeeps
<1>6. ASSUME NEW is \in {OpenIncidents, Duplicates}, Resolve(is) PROVE SentinelInv'
  <2>1. is \in SUBSET Incidents /\ \A i \in is : status[i] # "none"
    BY DEF OpenIncidents, Duplicates, Open
  <2>2. "resolved" \in Closed
    BY DEF Closed
  <2>3. /\ status' = [i \in Incidents |-> IF i \in is THEN "resolved" ELSE status[i]]
        /\ UNCHANGED <<loopVars, mode, issueOf, history, check, click, count>>
    BY <1>6 DEF Resolve
  <2> QED BY <2>1, <2>2, <2>3, CloseKeeps
<1>7. ASSUME NEW m \in Modes, SetMode(m) PROVE SentinelInv'
  <2>1. LoopInv' /\ running' = running
    BY <1>7, LoopsStay DEF SetMode, SentinelInv, loopVars
  <2> QED BY <1>7, <2>1, TablesStay DEF SetMode, SentinelInv, TypeOK, RestOK
<1>8. CASE Manage /\ UNCHANGED <<scope, mode, incidentVars, check, click, count>>
  <2>1. LoopInv'
    BY <1>8, ManageInv DEF SentinelInv
  <2>2. running' = running
    BY <1>8 DEF Manage, UpdateCluster, RestartLoop, RestartFails, StopLoop, DeleteCluster, DeleteRow,
               FirstCheckSkipped
  <2>3. mode \in Modes /\ count \in [Harmless -> 0..MaxPerHour]
    BY DEF SentinelInv, TypeOK, RestOK
  <2> QED BY <1>8, <2>1, <2>2, <2>3, TablesStay
<1> QED BY <1>1, <1>2, <1>3, <1>4, <1>5, <1>6, <1>7, <1>8 DEF Request

LEMMA HourKeeps == ASSUME SentinelInv, NEW p \in Harmless, HourPasses(p) PROVE SentinelInv'
<1>1. LoopInv' /\ running' = running
  BY LoopsStay DEF HourPasses, SentinelInv, loopVars
<1>2. mode' \in Modes /\ count' \in [Harmless -> 0..MaxPerHour]
  BY SentinelConstants DEF HourPasses, SentinelInv, TypeOK, RestOK
<1> QED BY <1>1, <1>2, TablesStay DEF HourPasses

LEMMA SentinelInitInv == ASSUME Init PROVE SentinelInv
<1>1. LoopInv
  <2>1. scope.requests \in Nat
    BY SentinelConstants DEF Init
  <2> QED BY <2>1, LoopInitInv DEF Init
<1>2. running = {} /\ LoopTypeOK
  BY <1>1 DEF Init, LoopInit, LoopInv
<1>3. ChecksOK
  BY <1>2 DEF Init, ChecksOK, CheckRecords, Idle
<1>4. TablesOK
  BY DEF Init, TablesOK, Tales
<1>5. RestOK
  BY SentinelConstants DEF Init, RestOK, ClickRecords, Unclicked
<1>6. Exclusive /\ OneOpen /\ RowsInv
  BY <1>2 DEF Init, Exclusive, OneOpen, OpenIncidents, Open, RowsInv
<1>7. CheckInv
  BY DEF Init, CheckInv, Idle, AtIncident
<1>8. ClickInv
  BY DEF Init, ClickInv, Unclicked
<1> QED BY <1>1, <1>2, <1>3, <1>4, <1>5, <1>6, <1>7, <1>8 DEF SentinelInv, TypeOK, IncidentInv

LEMMA ScopeStays == ASSUME [Next]_vars PROVE scope' = scope
<1>1. CASE \E t \in Timers : CheckStep(t)
  BY <1>1 DEF CheckStep, StartCheck, Fetched, Look, InsertIncident, Protected, Unprotected,
     RunbookMatches, RunSteps, RunbookOver, NoRunbook, FixHarmless, FixMedium, Propose, Alert,
     ApplyFix, MarkFixed, FinishCheck
<1>2. CASE Request
  BY <1>2 DEF Request, Approve, ApproveFix, ApproveMark, ApproveError, Reject, Resolve, SetMode
<1>3. CASE (\E p \in Harmless : HourPasses(p)) \/ Restart \/ UNCHANGED vars
  BY <1>3 DEF HourPasses, Restart, vars
<1> QED BY <1>1, <1>2, <1>3 DEF Next

LEMMA SentinelNextInv == ASSUME SentinelInv, scope \in Scopes, [Next]_vars PROVE SentinelInv'
<1>1. CASE UNCHANGED vars
  <2>1. LoopInv' /\ running' = running
    BY <1>1, LoopsStay DEF vars, SentinelInv, loopVars
  <2> QED BY <1>1, <2>1, TablesStay DEF vars, SentinelInv, TypeOK, RestOK
<1>2. CASE Next
  BY <1>2, CheckKeeps, RequestKeeps, HourKeeps, RestartKeeps DEF Next
<1> QED BY <1>1, <1>2

LEMMA SentinelInvariant == Spec => [](SentinelInv /\ scope \in Scopes)
<1>1. Init => SentinelInv /\ scope \in Scopes
  BY SentinelInitInv DEF Init
<1>2. SentinelInv /\ scope \in Scopes /\ [Next]_vars => (SentinelInv /\ scope \in Scopes)'
  BY SentinelNextInv, ScopeStays
<1> QED BY <1>1, <1>2, PTL DEF Spec

-------------------------------------------------------------------------------
(* Theorems.                                                                 *)

\* Type correctness, with what ties running to the checks under way.
THEOREM SentinelTypes == Spec => []TypeOK
<1>1. SentinelInv => TypeOK
  BY DEF SentinelInv
<1> QED BY <1>1, SentinelInvariant, PTL

\* stopClusterLoop before every start leaves one loop at most, and the map has it,
\* unless a loop was stopped while it awaited its first check.
THEOREM SentinelOneLoop == Spec => []OneLoop
<1>1. SentinelInv => OneLoop
  BY DEF SentinelInv, LoopInv
<1> QED BY <1>1, SentinelInvariant, PTL

\* Requests one at a time keep the loop of a cluster in step with its row; one that finds no
\* client ends the loop, until another one finds it.
THEOREM SentinelLoopFollowsRow == Spec => []LoopFollowsRow
<1>1. SentinelInv => LoopFollowsRow
  BY DEF SentinelInv, LoopInv
<1> QED BY <1>1, SentinelInvariant, PTL

\* hasOpenIncident and the insertion behind it are apart, and still no issue ever
\* has two open incidents: loopRunning keeps the checks of a cluster apart.
THEOREM SentinelOneOpen == Spec => []OneOpen
<1>1. SentinelInv => OneOpen
  BY DEF SentinelInv, IncidentInv
<1> QED BY <1>1, SentinelInvariant, PTL

\* Whatever checks, runbooks, answers and restarts do, a fix is carried out once at most,
\* where no two approvals overlapped and no outcome was lost.
THEOREM SentinelFixedOnce == Spec => []FixedOnce
<1>1. SentinelInv => FixedOnce
  BY DEF SentinelInv, IncidentInv, RowsInv, FixedOnce
<1> QED BY <1>1, SentinelInvariant, PTL

\* What a check has in hand behind its step, it had before, unless it inserted it.
LEMMA CheckHand ==
    ASSUME SentinelInv, NEW t \in Timers, CheckStep(t), NEW u \in Timers
    PROVE  \/ check'[u].incident \in {None, check[u].incident}
           \/ \E j \in Incidents : status[j] = "none" /\ check'[u].incident = j
<1> USE DEF SentinelInv
<1>1. ASSUME NEW n, n.incident = None, check' = [check EXCEPT ![t] = n]
      PROVE  check'[u].incident \in {None, check[u].incident}
  BY <1>1, TypeFacts
<1>2. ASSUME check[t].at # "idle", NEW s \in Stages, GoTo(t, s)
      PROVE  check'[u].incident = check[u].incident
  BY <1>2, GoEffect
<1>3. ASSUME Done(t) PROVE check'[u].incident \in {None, check[u].incident}
  BY <1>1, <1>3 DEF Done, Idle
<1>4. CASE \/ Fetched(t) \/ Protected(t) \/ RunbookOver(t) \/ Propose(t) \/ Alert(t) \/ MarkFixed(t)
  BY <1>3, <1>4 DEF Fetched, Protected, RunbookOver, Propose, Alert, MarkFixed
<1>5. CASE StartCheck(t) \/ FinishCheck(t)
  BY <1>1, <1>5 DEF StartCheck, FinishCheck, Idle
<1>6. ASSUME NEW p, Look(t, p) PROVE check'[u].incident \in {None, check[u].incident}
  BY <1>1, <1>6 DEF Look
<1>7. CASE Unprotected(t) \/ RunbookMatches(t) \/ NoRunbook(t) \/ FixMedium(t)
  <2>1. check[t].at # "idle" /\ \E s \in Stages : GoTo(t, s)
    BY <1>7 DEF Unprotected, RunbookMatches, NoRunbook, FixMedium, Stages
  <2> QED BY <1>2, <2>1
<1>8. CASE \/ FixHarmless(t)
           \/ \E effect \in Effects, end \in {"book ok", "book failed"} : RunSteps(t, effect, end)
           \/ \E effect \in Effects, end \in {"ok", "failed"} : ApplyFix(t, effect, end)
  <2>1. check[t].at # "idle" /\ (Done(t) \/ \E s \in Stages : GoTo(t, s))
    BY <1>8 DEF FixHarmless, RunSteps, ApplyFix, Stages
  <2> QED BY <1>2, <1>3, <2>1
<1>9. ASSUME NEW j \in Incidents, InsertIncident(t, j)
      PROVE  \/ check'[u].incident \in {None, check[u].incident}
             \/ check'[u].incident = j /\ status[j] = "none"
  <2> DEFINE n == [check[t] EXCEPT !.at = "guard", !.incident = j]
  <2>1. status[j] = "none" /\ (Done(t) \/ check' = [check EXCEPT ![t] = n])
    BY <1>9 DEF InsertIncident, New
  <2>2. n.incident = j
    BY TypeFacts DEF CheckRecords
  <2> HIDE DEF n
  <2> QED BY <1>3, <2>1, <2>2, TypeFacts
<1> QED BY <1>4, <1>5, <1>6, <1>7, <1>8, <1>9 DEF CheckStep

\* And what an approval has in hand behind a step, it had before, or it is proposed.
LEMMA ClickHand ==
    ASSUME SentinelInv, scope \in Scopes, [Next]_vars, NEW d \in Clicks
    PROVE  \/ click'[d].incident \in {None, click[d].incident}
           \/ \E j \in Incidents : status[j] = "proposed" /\ click'[d].incident = j
<1> USE DEF SentinelInv
<1>1. click \in [Clicks -> ClickRecords] /\ scope.clicks \subseteq Clicks
  BY TypeFacts, SentinelConstants
<1>2. ASSUME NEW c \in Clicks, NEW j \in Incidents, Approve(c, j)
      PROVE  \/ click'[d].incident = click[d].incident
             \/ status[j] = "proposed" /\ click'[d].incident = j
  BY <1>1, <1>2 DEF Approve, Approvable
<1>3. ASSUME NEW c \in Clicks, NEW effect, NEW end, ApproveFix(c, effect, end)
      PROVE  click'[d].incident = click[d].incident
  BY <1>1, <1>3 DEF ApproveFix, ClickRecords
<1>4. ASSUME NEW c \in Clicks, ApproveMark(c) \/ ApproveError(c)
      PROVE  click'[d].incident \in {None, click[d].incident}
  BY <1>1, <1>4 DEF ApproveMark, ApproveError, Unclicked
<1>5. CASE Restart
  BY <1>5 DEF Restart, Unclicked
<1>6. CASE \/ (\E i \in Incidents : Reject(i)) \/ (\E is : Resolve(is)) \/ (\E m \in Modes : SetMode(m))
           \/ Manage /\ UNCHANGED <<scope, mode, incidentVars, check, click, count>>
           \/ (\E p \in Harmless : HourPasses(p)) \/ UNCHANGED vars
  BY <1>6 DEF Reject, Resolve, SetMode, HourPasses, vars
<1>7. ASSUME NEW t \in Timers, CheckStep(t) PROVE click' = click
  BY <1>7 DEF CheckStep, StartCheck, Fetched, Look, InsertIncident, Protected, Unprotected,
     RunbookMatches, RunSteps, RunbookOver, NoRunbook, FixHarmless, FixMedium, Propose, Alert,
     ApplyFix, MarkFixed, FinishCheck
<1> QED BY <1>1, <1>2, <1>3, <1>4, <1>5, <1>6, <1>7 DEF Next, Request

\* Whoever has an incident in hand behind a step had it before, or found it new or proposed.
LEMMA HandsStay ==
    ASSUME SentinelInv, scope \in Scopes, [Next]_vars, NEW i \in Incidents,
           status[i] \in Closed, ~InHand(i)
    PROVE  ~InHand(i)'
<1>1. i # None /\ status[i] \notin {"none", "proposed"}
  BY TableFacts DEF Closed, SentinelInv
<1>2. \A c \in Clicks : click'[c].incident # i
  BY <1>1, ClickHand DEF InHand
<1>3. ASSUME NEW u \in Timers PROVE check'[u].incident # i
  <2>1. CASE \E t \in Timers : CheckStep(t)
    BY <1>1, <2>1, CheckHand DEF InHand
  <2>2. CASE Restart
    BY <1>1, <2>2 DEF Restart, Idle
  <2>3. CASE Request \/ (\E p \in Harmless : HourPasses(p)) \/ UNCHANGED vars
    <3>1. check' = check
      BY <2>3 DEF Request, Approve, ApproveFix, ApproveMark, ApproveError, Reject, Resolve,
         SetMode, HourPasses, vars
    <3> QED BY <3>1 DEF InHand
  <2> QED BY <2>1, <2>2, <2>3 DEF Next
<1> QED BY <1>2, <1>3 DEF InHand

LEMMA ClosedStays ==
    ASSUME SentinelInv, scope \in Scopes, [Next]_vars, NEW i \in Incidents,
           status[i] \in Closed, ~InHand(i)
    PROVE  status'[i] \in Closed /\ history'[i] = history[i]
<1> USE DEF SentinelInv
<1>1. /\ \A t \in Timers : check[t].incident # i
      /\ \A c \in Clicks : click[c].incident # i
  BY DEF InHand
<1>2. ASSUME NEW j \in Incidents \ {i}, NEW s, SetStatus(j, s) PROVE status'[i] = status[i]
  BY <1>2, TableFacts DEF SetStatus
<1>3. ASSUME NEW is, i \notin is, Doubt(is) PROVE history'[i] = history[i]
  BY <1>3, DoubtEffect
<1>4. ASSUME NEW t \in Timers, CheckStep(t)
      PROVE  status'[i] = status[i] /\ history'[i] = history[i]
  <2>1. check[t].at \in AtIncident => check[t].incident \in Incidents \ {i}
    BY <1>1, AtPlace
  <2>2. CASE \/ StartCheck(t) \/ Fetched(t) \/ Unprotected(t) \/ RunbookMatches(t)
             \/ FixHarmless(t) \/ FixMedium(t) \/ FinishCheck(t)
             \/ \E p \in scope.issues : Look(t, p)
    BY <2>2 DEF StartCheck, Fetched, Unprotected, RunbookMatches, FixHarmless, FixMedium,
                FinishCheck, Look, incidentVars
  <2>3. CASE Protected(t) \/ RunbookOver(t) \/ Propose(t) \/ Alert(t) \/ MarkFixed(t)
    <3>1. check[t].at \in AtIncident /\ history' = history
      BY <2>3 DEF Protected, RunbookOver, Propose, Alert, MarkFixed, AtIncident
    <3>2. \E s \in Open \cup Closed : SetStatus(check[t].incident, s)
      <4>1. CASE RunbookOver(t)
        BY <4>1 DEF RunbookOver, Closed
      <4>2. CASE Protected(t) \/ Propose(t) \/ Alert(t) \/ MarkFixed(t)
        BY <4>2 DEF Protected, Propose, Alert, MarkFixed, Open, Closed
      <4> QED BY <2>3, <4>1, <4>2
    <3> QED BY <1>2, <2>1, <3>1, <3>2
  <2>4. ASSUME NEW j \in Incidents, InsertIncident(t, j)
        PROVE  status'[i] = status[i] /\ history'[i] = history[i]
    <3>1. status[j] = "none" /\ SetStatus(j, "pending") /\ history' = history
      BY <2>4 DEF InsertIncident, New
    <3> QED BY <1>2, <3>1, TableFacts
  <2>5. ASSUME NEW effect \in Effects, NEW end,
               RunSteps(t, effect, end) \/ ApplyFix(t, effect, end)
        PROVE  status'[i] = status[i] /\ history'[i] = history[i]
    <3>1. /\ check[t].at \in AtIncident /\ status' = status
          /\ history' = Retold(check[t].incident, effect)
      BY <2>5 DEF RunSteps, ApplyFix, AtIncident
    <3> QED BY <2>1, <3>1, RetoldEffect
  <2>6. CASE NoRunbook(t)
    <3>1. /\ status' = status
          /\ Doubt({check[t].incident} \cap {j \in Incidents : history[j] # "unfixed"})
      BY <2>6 DEF NoRunbook
    <3> QED BY <1>1, <1>3, <3>1
  <2> QED BY <1>4, <2>2, <2>3, <2>4, <2>5, <2>6 DEF CheckStep
<1>5. scope.clicks \subseteq Clicks
  BY SentinelConstants
<1>6. ASSUME NEW c \in Clicks, NEW j \in Incidents, Approve(c, j)
      PROVE  status'[i] = status[i] /\ history'[i] = history[i]
  <2>1. j # i /\ Doubt({j} \cap {k \in Incidents : InHand(k)}) /\ status' = status
    BY <1>6, TableFacts DEF Approve, Approvable, Closed
  <2> QED BY <1>3, <2>1
<1>7. ASSUME NEW c \in Clicks, NEW effect \in Effects, NEW end, ApproveFix(c, effect, end)
      PROVE  status'[i] = status[i] /\ history'[i] = history[i]
  <2>1. click[c].incident \in Incidents \ {i}
    BY <1>1, <1>7, ClickFacts DEF ApproveFix, Unclicked
  <2> QED BY <1>7, <2>1, RetoldEffect DEF ApproveFix
<1>8. ASSUME NEW c \in Clicks, ApproveMark(c)
      PROVE  status'[i] = status[i] /\ history'[i] = history[i]
  <2>1. click[c].incident \in Incidents \ {i}
    BY <1>1, <1>8, ClickFacts DEF ApproveMark, Unclicked
  <2>2. \E s : SetStatus(click[c].incident, s)
    BY <1>8 DEF ApproveMark
  <2> QED BY <1>2, <1>8, <2>1, <2>2 DEF ApproveMark
<1>9. ASSUME NEW c \in Clicks, ApproveError(c)
      PROVE  status'[i] = status[i] /\ history'[i] = history[i]
  BY <1>1, <1>3, <1>9 DEF ApproveError
<1>10. ASSUME NEW j \in Incidents, Reject(j)
       PROVE  status'[i] \in Closed /\ history'[i] = history[i]
  <2>1. status'[i] \in {status[i], "rejected"}
    BY <1>10, TableFacts DEF Reject, SetStatus
  <2>2. history'[i] = history[i]
    BY <1>10 DEF Reject
  <2> QED BY <2>1, <2>2 DEF Closed
<1>11. ASSUME NEW is, Resolve(is)
       PROVE  status'[i] \in Closed /\ history'[i] = history[i]
  <2>1. status'[i] \in {status[i], "resolved"}
    BY <1>11, TableFacts DEF Resolve
  <2>2. history'[i] = history[i]
    BY <1>11 DEF Resolve
  <2> QED BY <2>1, <2>2 DEF Closed
<1>12. CASE Restart
  BY <1>1, <1>3, <1>12 DEF Restart
<1>13. CASE \/ (\E p \in Harmless : HourPasses(p)) \/ UNCHANGED vars \/ (\E m \in Modes : SetMode(m))
            \/ Manage /\ UNCHANGED <<scope, mode, incidentVars, check, click, count>>
  BY <1>13 DEF HourPasses, vars, SetMode, incidentVars
<1>14. CASE Request
  <2>1. CASE \E c \in scope.clicks :
                \/ \E j \in Incidents : Approve(c, j)
                \/ \E effect \in Effects, end \in {"ok", "failed"} : ApproveFix(c, effect, end)
                \/ ApproveMark(c) \/ ApproveError(c)
    BY <1>5, <1>6, <1>7, <1>8, <1>9, <2>1
  <2> QED BY <1>10, <1>11, <1>13, <1>14, <2>1 DEF Request
<1> QED BY <1>4, <1>12, <1>13, <1>14 DEF Next

\* Only who has an incident in hand opens it or carries out its fix, and nobody takes up
\* one that is closed.
THEOREM SentinelClosedForGood == Spec => ClosedForGood
<1>1. SentinelInv /\ scope \in Scopes /\ [Next]_vars =>
        [\A i \in Incidents :
            status[i] \in Closed /\ ~InHand(i) =>
                status'[i] \in Closed /\ history'[i] = history[i] /\ ~InHand(i)']_vars
  BY ClosedStays, HandsStay
<1> QED BY <1>1, SentinelInvariant, PTL DEF Spec, ClosedForGood
===============================================================================
