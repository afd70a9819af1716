------------------------------- MODULE Sentinel -------------------------------
(***************************************************************************)
(* The incidents of one cluster in the Kubernetes sentinel                 *)
(* (k8s-sentinel/agent/src): the checks that record and repair what they   *)
(* find (checkLoopForCluster of index.ts, remediateIssues of               *)
(* remediator.ts, executeRunbook of runbook-engine.ts), the operator's     *)
(* answers (approveIncident, rejectIncident, the bulk-resolve routes), and *)
(* the change of mode, on top of the loops that start the checks.          *)
(*                                                                         *)
(* A check takes its issues one after the other and awaits a query before  *)
(* and after everything it does; requests come in between, and await too.  *)
(* An issue is what hasOpenIncident tells apart, the type and the name of  *)
(* a resource; the type decides the severity.  A check's list may hold any *)
(* issues, the same one more than once.  Whether a pod is protected and    *)
(* whether a runbook matches is asked of tables that may change at any     *)
(* time, so both answers are always possible.                              *)
(***************************************************************************)
EXTENDS ClusterLoops

CONSTANTS
    Harmless, Medium, Critical,     \* the issues, by severity
    MaxIncidents,                   \* bound: rows of the table incidents
    Clicks,                         \* bound: approvals under way at once
    Scopes,                         \* bound: the issues and requests looked at together
    MaxPerHour                      \* maxPerHour of canAutoFix

Issues == Harmless \cup Medium \cup Critical
Incidents == 1..MaxIncidents        \* in the order of created_at

ASSUME SentinelConstants ==
    /\ MaxIncidents \in Nat /\ MaxPerHour \in Nat \ {0}
    /\ None \notin Issues \cup Incidents
    /\ Scopes \subseteq [issues : SUBSET Issues, clicks : SUBSET Clicks, requests : Nat]

VARIABLES
    scope,      \* the issues the cluster may have, and the requests made of it
    mode,       \* config.remediationMode
    status,     \* incidents.fix_status; "none": no such row yet
    issueOf,    \* the issue an incident is about
    check,      \* the check of each loop: where it waits, its issue, its incident
    click,      \* the approvals under way: how far, and for which incident
    count,      \* autoFixCounts: automatic fixes of an issue in its hour
    history     \* for the properties: how often an incident's fix was carried out

incidentVars == <<status, issueOf, history>>
vars == <<loopVars, scope, mode, incidentVars, check, click, count>>

Open == {"pending", "proposed", "alert"}
Closed == {"fixed", "fix_failed", "rejected", "resolved"}
Modes == {"auto", "hitl", "readonly"}

\* Where a check waits: for the snapshot; between two issues; for the insertion;
\* for the answer on protection; for the runbook's lookup; for its record; for
\* its end, with success or not; before standard remediation; for the fix; for
\* the status of a fixed incident.
Stages == {"fetch", "next", "insert", "guard", "lookup", "book", "book ok", "book failed",
           "standard", "fix", "mark"}

Idle == [at |-> "idle", issue |-> None, incident |-> None]
Unclicked == [at |-> "idle", incident |-> None]

\* "doubtful": two approvals overlapped, or the outcome of a fix could not be written.
Tales == {"unfixed", "fixed", "fixed again", "doubtful"}

CheckRecords ==
    [at : Stages \cup {"idle"}, issue : Issues \cup {None}, incident : Incidents \cup {None}]

ClickRecords == [at : {"idle", "fix", "ok", "failed"}, incident : Incidents \cup {None}]

TablesOK ==
    /\ status \in [Incidents -> Open \cup Closed \cup {"none"}]
    /\ issueOf \in [Incidents -> Issues \cup {None}]
    /\ history \in [Incidents -> Tales]

RestOK ==
    /\ mode \in Modes
    /\ click \in [Clicks -> ClickRecords]
    /\ count \in [Harmless -> 0..MaxPerHour]

ChecksOK ==
    /\ check \in [Timers -> CheckRecords]
    /\ \A t \in Timers : check[t] # Idle <=> t \in running

TypeOK == LoopTypeOK /\ TablesOK /\ RestOK /\ ChecksOK

Init ==
    /\ scope \in Scopes
    /\ LoopInit(scope.requests)
    /\ mode \in Modes
    /\ status = [i \in Incidents |-> "none"]
    /\ issueOf = [i \in Incidents |-> None]
    /\ check = [t \in Timers |-> Idle]
    /\ click = [c \in Clicks |-> Unclicked]
    /\ count = [p \in Harmless |-> 0]
    /\ history = [i \in Incidents |-> "unfixed"]

-------------------------------------------------------------------------------
(* Helpers.                                                                  *)

\* hasOpenIncident, whatever the namespace of the resource.
HasOpenIncident(p) == \E i \in Incidents : issueOf[i] = p /\ status[i] \in Open

\* The step of a check to another stage, for the issue and incident it is at.
GoTo(t, stage) == check' = [check EXCEPT ![t].at = stage]

\* Mutant: loopRunning is not cleared on this way out.
DoneForGood(t) == check' = [check EXCEPT ![t] = Idle]

\* It has finished with its issue.
Done(t) == check' = [check EXCEPT ![t] = [Idle EXCEPT !.at = "next"]]

\* updateIncidentStatus: unconditional, whatever the status has become.
SetStatus(i, s) == status' = [status EXCEPT ![i] = s]

InHand(i) == (\E t \in Timers : check[t].incident = i) \/ (\E c \in Clicks : click[c].incident = i)

Doubt(is) == history' = [i \in Incidents |-> IF i \in is THEN "doubtful" ELSE history[i]]

\* The history of i behind an attempt at its fix.
Effects == {"changed", "unchanged"}

Retold(i, effect) ==
    [history EXCEPT ![i] = IF effect = "unchanged" THEN @
                           ELSE IF @ = "unfixed" THEN "fixed"
                           ELSE IF @ = "fixed" THEN "fixed again" ELSE @]

-------------------------------------------------------------------------------
(* A check.                                                                  *)

StartCheck(t) ==
    /\ BeginCheck(t)
    /\ check' = [check EXCEPT ![t] = [Idle EXCEPT !.at = "fetch"]]
    /\ UNCHANGED <<scope, mode, incidentVars, click, count>>

\* The snapshot is in, and stored; the issues are known.
Fetched(t) ==
    /\ check[t].at = "fetch"
    /\ Done(t)
    /\ UNCHANGED <<loopVars, scope, mode, incidentVars, click, count>>

\* An issue with an open incident is passed over.
Look(t, p) ==
    /\ check[t].at = "next" /\ ~HasOpenIncident(p)
    /\ check' = [check EXCEPT ![t] = [at |-> "insert", issue |-> p, incident |-> None]]
    /\ UNCHANGED <<loopVars, scope, mode, incidentVars, click, count>>

\* Mutant: a closed incident is opened again in place of a new one.
NewOrClosed(i) == status[i] \in Closed \cup {"none"} /\ \A j \in 1..(i - 1) : status[j] # "none"

\* The row an INSERT makes.
New(i) == status[i] = "none" /\ \A j \in 1..(i - 1) : status[j] # "none"

\* insertIncident; in readonly mode that is all.
InsertIncident(t, i) ==
    /\ check[t].at = "insert" /\ New(i)
    /\ SetStatus(i, "pending")
    /\ issueOf' = [issueOf EXCEPT ![i] = check[t].issue]
    /\ IF mode = "readonly" THEN Done(t)
       ELSE check' = [check EXCEPT ![t] = [@ EXCEPT !.at = "guard", !.incident = i]]
    /\ UNCHANGED <<loopVars, scope, mode, history, click, count>>

\* isPodProtected: the fix is proposed.
Protected(t) ==
    /\ check[t].at = "guard"
    /\ SetStatus(check[t].incident, "proposed")
    /\ Done(t)
    /\ UNCHANGED <<loopVars, scope, mode, issueOf, history, click, count>>

Unprotected(t) ==
    /\ check[t].at = "guard"
    /\ GoTo(t, "lookup")
    /\ UNCHANGED <<loopVars, scope, mode, incidentVars, click, count>>

\* findMatchingRunbook: severity, mode and rate limit do not matter to a runbook.
RunbookMatches(t) ==
    /\ check[t].at = "lookup"
    /\ GoTo(t, "book")
    /\ UNCHANGED <<loopVars, scope, mode, incidentVars, click, count>>

\* The steps of the runbook, in one: it may fail having acted, or act on nothing.
RunSteps(t, effect, end) ==
    /\ check[t].at = "book"
    /\ history' = Retold(check[t].incident, effect)
    /\ GoTo(t, end)
    /\ UNCHANGED <<loopVars, scope, mode, status, issueOf, click, count>>

\* updateExecution, then the incident's status.
RunbookOver(t) ==
    /\ check[t].at \in {"book ok", "book failed"}
    /\ SetStatus(check[t].incident, IF check[t].at = "book ok" THEN "fixed" ELSE "fix_failed")
    /\ Done(t)
    /\ UNCHANGED <<loopVars, scope, mode, issueOf, history, click, count>>

\* No runbook matches, or a query on the way fails, even one behind the steps:
\* standard remediation takes over.
NoRunbook(t) ==
    /\ check[t].at \in {"lookup", "book", "book ok", "book failed"}
    /\ GoTo(t, "standard")
    /\ Doubt({check[t].incident} \cap {i \in Incidents : history[i] # "unfixed"})
    /\ UNCHANGED <<loopVars, scope, mode, status, issueOf, click, count>>

\* Standard remediation.  Above the rate limit the incident stays pending.
FixHarmless(t) ==
    /\ check[t].at = "standard" /\ check[t].issue \in Harmless
    /\ IF count[check[t].issue] < MaxPerHour
       THEN GoTo(t, "fix") /\ count' = [count EXCEPT ![check[t].issue] = @ + 1]
       ELSE Done(t) /\ UNCHANGED count
    /\ UNCHANGED <<loopVars, scope, mode, incidentVars, click>>

FixMedium(t) ==
    /\ check[t].at = "standard" /\ check[t].issue \in Medium /\ mode = "auto"
    /\ GoTo(t, "fix")
    /\ UNCHANGED <<loopVars, scope, mode, incidentVars, click, count>>

Propose(t) ==
    /\ check[t].at = "standard" /\ check[t].issue \in Medium /\ mode # "auto"
    /\ SetStatus(check[t].incident, "proposed")
    /\ Done(t)
    /\ UNCHANGED <<loopVars, scope, mode, issueOf, history, click, count>>

Alert(t) ==
    /\ check[t].at = "standard" /\ check[t].issue \in Critical
    /\ SetStatus(check[t].incident, "alert")
    /\ Done(t)
    /\ UNCHANGED <<loopVars, scope, mode, issueOf, history, click, count>>

\* applyFix: a failure, behind which the cluster may have changed all the same,
\* leaves the incident pending.
ApplyFix(t, effect, end) ==
    /\ check[t].at = "fix"
    /\ end = "ok" => effect = "changed"
    /\ history' = Retold(check[t].incident, effect)
    /\ IF end = "ok" THEN GoTo(t, "mark") ELSE Done(t)
    /\ UNCHANGED <<loopVars, scope, mode, status, issueOf, click, count>>

MarkFixed(t) ==
    /\ check[t].at = "mark"
    /\ SetStatus(check[t].incident, "fixed")
    /\ Done(t)
    /\ UNCHANGED <<loopVars, scope, mode, issueOf, history, click, count>>

\* The check has gone through its list, or a query outside the runbook's try fails.
FinishCheck(t) ==
    /\ check[t].at \in {"fetch", "next", "insert", "guard", "standard", "mark"}
    /\ EndCheck(t)
    /\ check' = [check EXCEPT ![t] = Idle]
    /\ UNCHANGED <<scope, mode, incidentVars, click, count>>

CheckStep(t) ==
    \/ StartCheck(t) \/ Fetched(t) \/ \E p \in scope.issues : Look(t, p)
    \/ \E i \in Incidents : InsertIncident(t, i)
    \/ Protected(t) \/ Unprotected(t)
    \/ RunbookMatches(t)
    \/ \E effect \in Effects, end \in {"book ok", "book failed"} : RunSteps(t, effect, end)
    \/ RunbookOver(t) \/ NoRunbook(t)
    \/ FixHarmless(t) \/ FixMedium(t) \/ Propose(t) \/ Alert(t)
    \/ \E effect \in Effects, end \in {"ok", "failed"} : ApplyFix(t, effect, end)
    \/ MarkFixed(t) \/ FinishCheck(t)

-------------------------------------------------------------------------------
(* Requests.                                                                 *)

\* Mutant: an approval does not look at the status.
AnyIncident(i) == status[i] # "none"

Approvable(i) == status[i] = "proposed"

\* approveIncident reads the incident, and then its cluster.
Approve(c, i) ==
    /\ click[c] = Unclicked /\ Approvable(i)
    /\ click' = [click EXCEPT ![c] = [at |-> "fix", incident |-> i]]
    /\ Doubt({i} \cap {j \in Incidents : InHand(j)})
    /\ UNCHANGED <<loopVars, scope, mode, status, issueOf, check, count>>

ApproveFix(c, effect, end) ==
    /\ click[c].at = "fix"
    /\ end = "ok" => effect = "changed"
    /\ history' = Retold(click[c].incident, effect)
    /\ click' = [click EXCEPT ![c].at = end]
    /\ UNCHANGED <<loopVars, scope, mode, status, issueOf, check, count>>

ApproveMark(c) ==
    /\ click[c].at \in {"ok", "failed"}
    /\ SetStatus(click[c].incident, IF click[c].at = "ok" THEN "fixed" ELSE "fix_failed")
    /\ click' = [click EXCEPT ![c] = Unclicked]
    /\ UNCHANGED <<loopVars, scope, mode, issueOf, history, check, count>>

\* A query of the approval fails; behind a fix the incident stays proposed.
ApproveError(c) ==
    /\ click[c] # Unclicked
    /\ click' = [click EXCEPT ![c] = Unclicked]
    /\ Doubt({click[c].incident} \cap {i \in Incidents : history[i] # "unfixed"})
    /\ UNCHANGED <<loopVars, scope, mode, status, issueOf, check, count>>

\* rejectIncident asks for no status, nor whether a check has the incident in hand.
Reject(i) ==
    /\ status[i] # "none"
    /\ SetStatus(i, "rejected")
    /\ UNCHANGED <<loopVars, scope, mode, issueOf, history, check, click, count>>

\* bulk-resolve-all, and bulk-resolve-duplicates, which keeps the newest open
\* incident of an issue.
Resolve(is) ==
    /\ is # {}
    /\ status' = [i \in Incidents |-> IF i \in is THEN "resolved" ELSE status[i]]
    /\ UNCHANGED <<loopVars, scope, mode, issueOf, history, check, click, count>>

OpenIncidents == {i \in Incidents : status[i] \in Open}

Duplicates == {i \in OpenIncidents :
                  \E j \in OpenIncidents : j > i /\ issueOf[j] = issueOf[i]}

SetMode(m) ==
    /\ mode' = m
    /\ UNCHANGED <<loopVars, scope, incidentVars, check, click, count>>

\* The hour of an issue's autoFixCounts is over.
HourPasses(p) ==
    /\ count' = [count EXCEPT ![p] = 0]
    /\ UNCHANGED <<loopVars, scope, mode, incidentVars, check, click>>

\* Only the tables survive; an approval cut off behind its fix leaves doubt.
Restart ==
    /\ RestartLoops
    /\ mode' \in Modes
    /\ check' = [t \in Timers |-> Idle]
    /\ click' = [c \in Clicks |-> Unclicked]
    /\ count' = [p \in Harmless |-> 0]
    /\ Doubt({i \in Incidents : history[i] # "unfixed" /\ \E c \in Clicks : click[c].incident = i})
    /\ UNCHANGED <<scope, status, issueOf>>

Request ==
    \/ \E c \in scope.clicks :
        \/ \E i \in Incidents : Approve(c, i)
        \/ \E effect \in Effects, end \in {"ok", "failed"} : ApproveFix(c, effect, end)
        \/ ApproveMark(c) \/ ApproveError(c)
    \/ \E i \in Incidents : Reject(i)
    \/ \E is \in {OpenIncidents, Duplicates} : Resolve(is)
    \/ \E m \in Modes : SetMode(m)
    \/ Manage /\ UNCHANGED <<scope, mode, incidentVars, check, click, count>>

Next ==
    \/ \E t \in Timers : CheckStep(t)
    \/ Request
    \/ \E p \in Harmless : HourPasses(p)
    \/ Restart

Spec == Init /\ [][Next]_vars

-------------------------------------------------------------------------------
(* Properties.                                                               *)

\* However loops are started, leaked and restarted, an issue has at most one open
\* incident: checks neither overlap nor pass over an incident that waits for an
\* answer.  (What hasOpenIncident and the insertion do apart is safe only by this.)
OneOpen ==
    \A i, j \in OpenIncidents : issueOf[i] = issueOf[j] => i = j

\* The fix of an incident is carried out at most once, whatever answers and checks
\* overlap, unless two of the answers were approvals or the outcome of a fix could not
\* be written.
FixedOnce == \A i \in Incidents : history[i] # "fixed again"

\* An incident that is closed, with no check or approval at work on it, is closed for
\* good: it is not opened or fixed again, and nothing gets to work on it.  (An answer
\* that comes while one is at work closes nothing for good: the unconditional UPDATE
\* behind it opens the incident again.)
ClosedForGood ==
    [][\A i \in Incidents :
          status[i] \in Closed /\ ~InHand(i) =>
              status'[i] \in Closed /\ history'[i] = history[i] /\ ~InHand(i)']_vars
===============================================================================
