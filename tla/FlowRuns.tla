------------------------------- MODULE FlowRuns -------------------------------
(***************************************************************************)
(* The life of flow runs (osf-gateway/src/flows): the rows of flow_runs    *)
(* and flow_pending_inputs, the engine calls that work on them             *)
(* (executeFlow and resumeFlow of engine.ts, each awaiting one query after *)
(* the other), the RunRegistry (run-registry.ts), and the graceful         *)
(* shutdown of the gateway (gracefulShutdown of index.ts).                 *)
(*                                                                         *)
(* A call is identified by an element of Calls, which bounds the number of *)
(* calls alive at once; ids are used again.  What the loop of a call does  *)
(* to its nodes is the subject of FlowTraversal; here the loop asks,       *)
(* completes, fails or dies.  A query that fails has had no effect.        *)
(***************************************************************************)
EXTENDS Naturals, FiniteSets

CONSTANTS
    Runs,       \* ids of runs
    Calls,      \* ids of engine calls
    None        \* no run, no call

ASSUME NoneIsNoId == None \notin Runs \cup Calls

VARIABLES
    phase,      \* of the gateway process
    row,        \* flow_runs.status of each run
    question,   \* runs with an unanswered row in flow_pending_inputs
    stage,      \* how far each call has come
    runOf,      \* the run a call works on
    registry,   \* RunRegistry.runs: the call registered for each run
    awaited,    \* the calls allSettled waits for in drainOrTimeout
    toMark,     \* the timed-out runs that are still to be marked as failed
    \* History, read by the properties only:
    irregular   \* what has happened to a run that excuses it, see below

vars == <<phase, row, question, stage, runOf, registry, awaited, toMark, irregular>>
gatewayVars == <<phase, awaited, toMark>>

Phases == {"up",        \* serving
           "stopping",  \* accepts no new flows; the pods are being shut down
           "closed",    \* accepts no requests; SSE connections drain
           "draining",  \* waits for the registered calls
           "marking",   \* marks the runs that timed out, then exits
           "down"}

\* Where a call is waiting.  A call drives its run while it runs its loop.
Driving == {"loading", "looping", "asking"}
Answering == {"selecting", "selected", "answered"}
Stages == {"idle", "checked", "inserted", "pausing", "failing", "closing"}
          \cup Answering \cup Driving

\* What excuses a run:
\*   "answered twice"  two answers found it paused
\*   "undriven"        its engine call died, or shutdown could not know of it
\*   "half answered"   an answer was cut off behind marking the question
\*   "overruled"       written to by shutdown, or after it had been resumed
Irregularities == {"answered twice", "undriven", "half answered", "overruled"}

Final == {"completed", "failed"}

TypeOK ==
    /\ phase \in Phases
    /\ row \in [Runs -> {"none", "running", "paused"} \cup Final]
    /\ question \subseteq Runs
    /\ stage \in [Calls -> Stages]
    /\ runOf \in [Calls -> Runs \cup {None}]
    /\ \A c \in Calls : stage[c] = "idle" <=> runOf[c] = None
    /\ registry \in [Runs -> Calls \cup {None}]
    /\ \A r \in Runs : registry[r] # None => runOf[registry[r]] = r
    /\ awaited \subseteq Calls /\ toMark \subseteq Runs
    /\ irregular \in [Runs -> SUBSET Irregularities]

CallsOn(r) == {c \in Calls : runOf[c] = r}

Init ==
    /\ phase = "up"
    /\ row = [r \in Runs |-> "none"]
    /\ question = {}
    /\ stage = [c \in Calls |-> "idle"]
    /\ runOf = [c \in Calls |-> None]
    /\ registry = [r \in Runs |-> None]
    /\ awaited = {} /\ toMark = {}
    /\ irregular = [r \in Runs |-> {}]

\* A step of a call from one stage to the next.
Moves(c, from, to) ==
    /\ phase # "down"
    /\ stage[c] = from
    /\ stage' = [stage EXCEPT ![c] = to]
    /\ UNCHANGED <<runOf, registry, gatewayVars>>

SetRow(c, status) == row' = [row EXCEPT ![runOf[c]] = status]

Tagged(R, tag) == [r \in Runs |-> irregular[r] \cup (IF r \in R THEN {tag} ELSE {})]

Tag(c, tag) == irregular' = Tagged({runOf[c]}, tag)

\* Mutant: nothing deletes the entry of a settled call.
KeptEntry(r) == registry

\* finally deletes the registry's entry for the run, whichever call it is for.
DeletedEntry(r) == [registry EXCEPT ![r] = None]

\* The promise of a call settles.  What is left of the run's other calls is not in
\* the registry any more.
Ends(c, from, tags) ==
    /\ phase # "down"
    /\ stage[c] = from
    /\ stage' = [stage EXCEPT ![c] = "idle"]
    /\ runOf' = [runOf EXCEPT ![c] = None]
    /\ registry' = DeletedEntry(runOf[c])
    /\ irregular' = [irregular EXCEPT ![runOf[c]] =
                        @ \cup tags \cup {"undriven" : d \in CallsOn(runOf[c]) \ {c}}]
    /\ UNCHANGED gatewayVars

-------------------------------------------------------------------------------
(* executeFlow.                                                              *)

\* The graph is built and the server accepts new flows; INSERT follows.
Start(c, r) ==
    /\ phase = "up"
    /\ stage[c] = "idle" /\ row[r] = "none" /\ CallsOn(r) = {}
    /\ stage' = [stage EXCEPT ![c] = "checked"]
    /\ runOf' = [runOf EXCEPT ![c] = r]
    /\ UNCHANGED <<row, question, registry, gatewayVars, irregular>>

InsertRun(c) ==
    /\ Moves(c, "checked", "inserted")
    /\ SetRow(c, "running")
    /\ UNCHANGED <<question, irregular>>

\* The INSERT fails: the request is answered with an error, nothing is left.
InsertFails(c) ==
    /\ phase # "down"
    /\ stage[c] = "checked"
    /\ stage' = [stage EXCEPT ![c] = "idle"]
    /\ runOf' = [runOf EXCEPT ![c] = None]
    /\ UNCHANGED <<row, question, registry, gatewayVars, irregular>>

\* runFlowAsync starts, and its promise is registered.
Launch(c) ==
    /\ phase # "down"
    /\ stage[c] = "inserted"
    /\ stage' = [stage EXCEPT ![c] = "looping"]
    /\ registry' = [registry EXCEPT ![runOf[c]] = c]
    /\ UNCHANGED <<row, question, runOf, gatewayVars, irregular>>

-------------------------------------------------------------------------------
(* resumeFlow.                                                               *)

\* drainOrTimeout has taken its list: shutdown cannot know of what comes now.
ListTaken == phase \in {"draining", "marking"}

\* POST respond, for any run of the user: resumeFlow is called and its promise
\* registered, over the entry of a call that may still be there.  A request that
\* was let in before the server closed may get here as late as during the drain.
Respond(c, r) ==
    /\ phase # "down"
    /\ stage[c] = "idle" /\ row[r] # "none"
    /\ stage' = [stage EXCEPT ![c] = "selecting"]
    /\ runOf' = [runOf EXCEPT ![c] = r]
    /\ registry' = [registry EXCEPT ![r] = c]
    /\ irregular' = Tagged(IF ListTaken THEN {r} ELSE {}, "undriven")
    /\ UNCHANGED <<row, question, gatewayVars>>

\* Mutant: the SELECT asks for the run only.
AnyStatus(c) == TRUE

\* Mutant: the SELECT asks for a run that is not running.
NotRunning(c) == row[runOf[c]] # "running"

\* What the SELECT asks for.
Resumable(c) == row[runOf[c]] = "paused"

\* The SELECT finds the run paused.
SelectRun(c) ==
    /\ Moves(c, "selecting", "selected")
    /\ Resumable(c)
    /\ IF \E d \in CallsOn(runOf[c]) : stage[d] \in {"selected", "answered"}
       THEN Tag(c, "answered twice")
       ELSE UNCHANGED irregular
    /\ UNCHANGED <<row, question>>

\* It does not, or it fails: "No paused run found".
SelectFails(c) ==
    /\ Ends(c, "selecting", {})
    /\ UNCHANGED <<row, question>>

\* All open questions of the run get the response.
AnswerQuestion(c) ==
    /\ Moves(c, "selected", "answered")
    /\ question' = question \ {runOf[c]}
    /\ UNCHANGED <<row, irregular>>

\* One of the two UPDATEs fails.
AnswerFails(c) ==
    /\ \/ Ends(c, "selected", {})
       \/ Ends(c, "answered", {"half answered"})
    /\ UNCHANGED <<row, question>>

\* The row is set to running, whatever it is by now.
SetRunning(c) ==
    /\ Moves(c, "answered", "loading")
    /\ SetRow(c, "running")
    /\ UNCHANGED <<question, irregular>>

\* The flow is loaded and its graph built, and the loop starts.
LoadFlow(c) ==
    /\ Moves(c, "loading", "looping")
    /\ UNCHANGED <<row, question, irregular>>

\* The paused node is not in the flow any more: the run is to fail.
NodeGone(c) ==
    /\ Moves(c, "loading", "failing")
    /\ UNCHANGED <<row, question, irregular>>

-------------------------------------------------------------------------------
(* The loop of either call.                                                  *)

\* A human-input node inserts its question.
Ask(c) ==
    /\ Moves(c, "looping", "asking")
    /\ question' = question \cup {runOf[c]}
    /\ UNCHANGED <<row, irregular>>

\* A human-input node inside a sub-flow inserts a question and goes on.
AskAside(c) ==
    /\ phase # "down" /\ stage[c] = "looping"
    /\ question' = question \cup {runOf[c]}
    /\ UNCHANGED <<row, stage, runOf, registry, gatewayVars, irregular>>

\* Mutant: the loop goes on behind the pause.
PauseAndGoOn(c) ==
    /\ Moves(c, "asking", "looping")
    /\ SetRow(c, "paused")
    /\ UNCHANGED <<question, irregular>>

\* The row is paused; the flow_paused event follows.
PauseRun(c) ==
    /\ Moves(c, "asking", "pausing")
    /\ SetRow(c, "paused")
    /\ UNCHANGED <<question, irregular>>

\* A node's executor, the pause, or an event of it throws.
NodeFails(c) ==
    /\ \E from \in {"looping", "asking"} : Moves(c, from, "failing")
    /\ UNCHANGED <<row, question, irregular>>

\* The flow_paused event throws, when the run may have been resumed already.
PauseFails(c) ==
    /\ Moves(c, "pausing", "failing")
    /\ Tag(c, "overruled")
    /\ UNCHANGED <<row, question>>

FailRun(c) ==
    /\ Moves(c, "failing", "closing")
    /\ SetRow(c, "failed")
    /\ UNCHANGED <<question, irregular>>

CompleteRun(c) ==
    /\ Moves(c, "looping", "closing")
    /\ SetRow(c, "completed")
    /\ UNCHANGED <<question, irregular>>

\* The last event is written, or not, and the promise settles.
Close(c) ==
    /\ Ends(c, "pausing", {}) \/ Ends(c, "closing", {})
    /\ UNCHANGED <<row, question>>

\* A query or the graph builder throws where nothing marks the run as failed:
\* "Async flow execution crashed", "Async flow resume crashed".
Die(c) ==
    /\ \E from \in {"loading", "looping", "failing"} : Ends(c, from, {"undriven"})
    /\ UNCHANGED <<row, question>>

-------------------------------------------------------------------------------
(* Shutdown, crash and start.                                                *)

\* gracefulShutdown: no new flows from here on.
Signal ==
    /\ phase = "up"
    /\ phase' = "stopping"
    /\ UNCHANGED <<row, question, stage, runOf, registry, awaited, toMark, irregular>>

\* The pods are shut down, and the HTTP server closes.
CloseServer ==
    /\ phase = "stopping"
    /\ phase' = "closed"
    /\ UNCHANGED <<row, question, stage, runOf, registry, awaited, toMark, irregular>>

Registered == {r \in Runs : registry[r] # None}

\* drainOrTimeout takes the registered calls, and returns at once if there are
\* none.  A run whose call has passed the check but is not registered yet is not
\* among them.
Drain ==
    /\ phase = "closed"
    /\ phase' = IF Registered = {} THEN "marking" ELSE "draining"
    /\ awaited' = {registry[r] : r \in Registered}
    /\ irregular' = Tagged({runOf[c] : c \in {d \in Calls :
                            stage[d] \in {"checked", "inserted"}}}, "undriven")
    /\ UNCHANGED <<row, question, stage, runOf, registry, toMark>>

\* Mutant: no timeout races with the calls.
NoTimeout == FALSE

\* The timeout can only win over calls that have not settled.
TimeoutFires == \E c \in awaited : stage[c] # "idle"

\* Mutant: nothing is returned after the timeout either.
NothingTimedOut == {}

\* The runs in the registry when the timeout has fired.
TimedOut == Registered

\* The calls have settled, or the timeout fires first.
Drained ==
    /\ phase = "draining"
    /\ phase' = "marking"
    /\ awaited' = {}
    /\ \/ /\ \A c \in awaited : stage[c] = "idle"
          /\ UNCHANGED toMark
       \/ /\ TimeoutFires
          /\ toMark' = TimedOut
    /\ UNCHANGED <<row, question, stage, runOf, registry, irregular>>

\* UPDATE ... AND status = 'running' of one run on the list, or its failure.  A
\* call that is still about to set the run to running is not stopped by it.
MarkFailed(r) ==
    /\ phase = "marking" /\ r \in toMark
    /\ toMark' = toMark \ {r}
    /\ \/ /\ row' = [row EXCEPT ![r] = IF @ = "running" THEN "failed" ELSE @]
          /\ irregular' = [irregular EXCEPT ![r] = @ \cup {"overruled"} \cup
                {"undriven" : c \in {d \in CallsOn(r) : stage[d] \in Answering}}]
       \/ /\ irregular' = Tagged({r}, "undriven")
          /\ UNCHANGED row
    /\ UNCHANGED <<phase, question, stage, runOf, registry, awaited>>

\* The process is gone, and its calls with it.
Gone(tags) ==
    /\ phase' = "down"
    /\ stage' = [c \in Calls |-> "idle"]
    /\ runOf' = [c \in Calls |-> None]
    /\ registry' = [r \in Runs |-> None]
    /\ awaited' = {} /\ toMark' = {}
    /\ irregular' = [r \in Runs |-> irregular[r]
         \cup {"half answered" : c \in {d \in CallsOn(r) : stage[d] = "answered"}}
         \cup {t \in tags : CallsOn(r) # {}}]
    /\ UNCHANGED <<row, question>>

Exit ==
    /\ phase = "marking" /\ toMark = {}
    /\ Gone({})

Crash ==
    /\ phase # "down"
    /\ Gone({"undriven"})

\* Nothing is done about runs of an earlier life.
Boot ==
    /\ phase = "down"
    /\ phase' = "up"
    /\ UNCHANGED <<row, question, stage, runOf, registry, awaited, toMark, irregular>>

-------------------------------------------------------------------------------

Shutdown == CloseServer \/ Drain \/ Drained \/ Exit \/ \E r \in Runs : MarkFailed(r)

Next ==
    \/ \E c \in Calls, r \in Runs : Start(c, r)
    \/ \E c \in Calls : InsertRun(c)
    \/ \E c \in Calls : InsertFails(c)
    \/ \E c \in Calls : Launch(c)
    \/ \E c \in Calls, r \in Runs : Respond(c, r)
    \/ \E c \in Calls : SelectRun(c)
    \/ \E c \in Calls : SelectFails(c)
    \/ \E c \in Calls : AnswerQuestion(c)
    \/ \E c \in Calls : AnswerFails(c)
    \/ \E c \in Calls : SetRunning(c)
    \/ \E c \in Calls : LoadFlow(c)
    \/ \E c \in Calls : NodeGone(c)
    \/ \E c \in Calls : Ask(c)
    \/ \E c \in Calls : AskAside(c)
    \/ \E c \in Calls : PauseRun(c)
    \/ \E c \in Calls : NodeFails(c)
    \/ \E c \in Calls : PauseFails(c)
    \/ \E c \in Calls : FailRun(c)
    \/ \E c \in Calls : CompleteRun(c)
    \/ \E c \in Calls : Close(c)
    \/ \E c \in Calls : Die(c)
    \/ Signal \/ CloseServer \/ Drain \/ Drained \/ Exit \/ Crash \/ Boot
    \/ \E r \in Runs : MarkFailed(r)

Spec == Init /\ [][Next]_vars

\* The steps of gracefulShutdown are taken: each awaits something bounded in
\* time.  No engine call has to make progress.
FairSpec == Spec /\ WF_vars(Shutdown)

-------------------------------------------------------------------------------
(* Properties.                                                               *)

Drives(c, r) == runOf[c] = r /\ stage[c] \in Driving

\* At most one engine call drives a run, whenever answers arrive (early, twice
\* in a row, during shutdown, after a restart) unless two of them found the run
\* paused before either set it to running.
OneDriver ==
    \A r \in Runs : "answered twice" \notin irregular[r] =>
        \A c, d \in Calls : Drives(c, r) /\ Drives(d, r) => c = d

\* A run the database calls running is driven by a call or about to be, at every
\* moment and also after a graceful exit, unless its call died or shutdown could
\* not know of it.
RunningIsDriven ==
    \A r \in Runs : row[r] = "running" /\ "undriven" \notin irregular[r] =>
        \E c \in Calls : runOf[c] = r /\ stage[c] \in Driving \cup {"inserted", "failing"}

\* A paused run has an open question, or the answer to it is just being taken: no
\* run waits for an answer nobody is asked for.  Question and status are written
\* by separate statements, in this order in both directions.
PausedIsAnswerable ==
    \A r \in Runs : row[r] = "paused"
                    /\ irregular[r] \cap {"answered twice", "half answered"} = {} =>
        \/ r \in question
        \/ \E c \in CallsOn(r) : stage[c] = "answered"

\* Once completed or failed a run stays so: no late answer revives it and no
\* late call rewrites it.
FinalStays ==
    [][\A r \in Runs :
            row[r] \in Final /\ irregular[r] \cap {"answered twice", "overruled"} = {} =>
                row'[r] = row[r]]_vars

\* The gateway goes down once it was told to, even if no engine call ever
\* settles.
ShutdownEnds == phase = "stopping" ~> phase = "down"

\* "Wait for all active runs to complete, or timeout" (run-registry.ts): when
\* drainOrTimeout takes its list, every run a call is driving is on it.
DrainWaitsForAll ==
    [][phase = "closed" /\ phase' \in {"draining", "marking"} =>
           \A c \in Calls : stage[c] \in Driving =>
               \E d \in awaited' : runOf[d] = runOf[c]]_vars
===============================================================================
