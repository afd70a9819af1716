-------------------------------- MODULE LlmGate --------------------------------
(***************************************************************************)
(* The gate in front of one LLM server (osf-gateway/src/chat/              *)
(* llm-client.ts): the Semaphore and the CircuitBreaker of its base URL,   *)
(* and the calls of callLlm and streamLlm that go through them.            *)
(*                                                                         *)
(* A call passes the breaker and acquires a slot in one synchronous step,  *)
(* or is queued for the slot; it then awaits the response's head, reads    *)
(* the body, and releases the slot.  Time is abstracted: the reset time of *)
(* the breaker passes at some moment after the last failure, and a queued  *)
(* call may time out or be aborted at any moment.                          *)
(***************************************************************************)
EXTENDS Naturals, FiniteSets, SequencesExt

CONSTANTS
    Calls,      \* bound: calls that are in progress at once; ids are used again
    Slots,      \* LLM_MAX_CONCURRENCY
    Threshold   \* circuitBreakerThreshold

ASSUME GateConstants ==
    /\ IsFiniteSet(Calls)
    /\ Slots \in Nat \ {0}
    /\ Threshold \in Nat \ {0}

VARIABLES
    stage,      \* of each call: "idle", "queued", "fetching", "reading"
    active,     \* Semaphore._active
    queue,      \* Semaphore.queue
    state,      \* CircuitBreaker.state
    failures,   \* CircuitBreaker.failures, which counts no further than Threshold
    probing,    \* CircuitBreaker.halfOpenProbeInFlight
    cooled,     \* has resetTimeMs passed since lastFailure?
    \* History, read by the properties only:
    tries       \* calls admitted since the breaker last opened or closed

semaphore == <<stage, active, queue>>
breaker == <<state, failures, probing, cooled, tries>>
vars == <<stage, active, queue, state, failures, probing, cooled, tries>>

Holders == {c \in Calls : stage[c] \in {"fetching", "reading"}}

TypeOK ==
    /\ stage \in [Calls -> {"idle", "queued", "fetching", "reading"}]
    /\ active \in 0..Slots
    /\ queue \in Seq(Calls)
    /\ state \in {"closed", "open", "half-open"}
    /\ failures \in 0..Threshold
    /\ probing \in BOOLEAN /\ cooled \in BOOLEAN
    /\ tries \in Nat

Init ==
    /\ stage = [c \in Calls |-> "idle"]
    /\ active = 0 /\ queue = <<>>
    /\ state = "closed" /\ failures = 0 /\ probing = FALSE
    /\ cooled = FALSE /\ tries = 0

-------------------------------------------------------------------------------
(* The circuit breaker.                                                      *)

\* Mutant: a half-open breaker lets everybody through.
AttemptAnyway == state = "half-open" \/ (state = "open" /\ cooled)

\* A breaker that is not closed lets a call through as its probe.
ProbeAllowed == (state = "half-open" /\ ~probing) \/ (state = "open" /\ cooled)

CanAttempt ==
    \/ /\ state = "closed"
       /\ UNCHANGED breaker
    \/ /\ ProbeAllowed
       /\ state' = "half-open" /\ probing' = TRUE
       /\ tries' = tries + 1
       /\ UNCHANGED <<failures, cooled>>

Refuses == state # "closed" /\ ~ProbeAllowed

RecordSuccess ==
    /\ failures' = 0 /\ state' = "closed" /\ probing' = FALSE
    /\ tries' = 0
    /\ UNCHANGED cooled

RecordFailure ==
    /\ failures' = IF failures < Threshold THEN failures + 1 ELSE failures
    /\ cooled' = FALSE /\ probing' = FALSE
    /\ IF failures' >= Threshold
       THEN state' = "open" /\ tries' = 0
       ELSE UNCHANGED <<state, tries>>

\* The reset time passes.
Cool ==
    /\ state = "open" /\ ~cooled
    /\ cooled' = TRUE
    /\ UNCHANGED <<semaphore, state, failures, probing, tries>>

-------------------------------------------------------------------------------
(* The semaphore.                                                            *)

\* A slot is taken, or the call is queued, or its caller has aborted it already.
Acquire(c) ==
    \/ /\ active < Slots
       /\ active' = active + 1
       /\ stage' = [stage EXCEPT ![c] = "fetching"]
       /\ UNCHANGED queue
    \/ /\ active >= Slots
       /\ queue' = Append(queue, c)
       /\ stage' = [stage EXCEPT ![c] = "queued"]
       /\ UNCHANGED active
    \/ UNCHANGED semaphore

\* Mutant: the queue is popped from its end.
GrantedLast == IF queue = <<>> THEN <<>> ELSE <<Len(queue)>>

\* The place in the queue that gets the slot, if there is one.
Granted == IF queue = <<>> THEN <<>> ELSE <<1>>

\* Mutant: the slot that is handed on is not counted again.
ActiveForgotten == active - 1

\* Mutant: the slot that is handed on is counted twice.
ActiveTwice == active + Len(Granted)

ActiveAfter == (active - 1) + Len(Granted)

\* The slot of c goes to the next in the queue.
Release(c) ==
    /\ active' = ActiveAfter
    /\ IF Granted = <<>>
       THEN /\ stage' = [stage EXCEPT ![c] = "idle"]
            /\ UNCHANGED queue
       ELSE /\ stage' = [stage EXCEPT ![c] = "idle", ![queue[Granted[1]]] = "fetching"]
            /\ queue' = RemoveAt(queue, Granted[1])

-------------------------------------------------------------------------------
(* Calls.                                                                    *)

\* The breaker lets the call through, which goes for its slot at once.
Begin(c) ==
    /\ stage[c] = "idle"
    /\ CanAttempt
    /\ Acquire(c)

\* "circuit breaker open": the call throws and leaves nothing behind.
Refuse(c) ==
    /\ stage[c] = "idle"
    /\ Refuses
    /\ UNCHANGED vars

\* The semaphore's timer fires, or the caller aborts: nothing is recorded.
LeaveQueue(c) ==
    /\ stage[c] = "queued"
    /\ \E i \in 1..Len(queue) : queue[i] = c /\ queue' = RemoveAt(queue, i)
    /\ stage' = [stage EXCEPT ![c] = "idle"]
    /\ UNCHANGED <<active, breaker>>

\* fetch throws, also on the request's timeout and on the caller's abort, or the
\* status is 500 or above.
ServerFails(c) ==
    /\ stage[c] = "fetching"
    /\ RecordFailure
    /\ Release(c)

\* Any other status that is not ok: nothing is recorded.
Rejected(c) ==
    /\ stage[c] = "fetching"
    /\ Release(c)
    /\ UNCHANGED breaker

\* The head of an ok response.
Responds(c) ==
    /\ stage[c] = "fetching"
    /\ RecordSuccess
    /\ stage' = [stage EXCEPT ![c] = "reading"]
    /\ UNCHANGED <<active, queue>>

\* The body is read, or reading it fails.
Finish(c) ==
    /\ stage[c] = "reading"
    /\ Release(c)
    /\ UNCHANGED breaker

Ends(c) == ServerFails(c) \/ Rejected(c) \/ Responds(c) \/ Finish(c)

Next ==
    \/ \E c \in Calls : Begin(c)
    \/ \E c \in Calls : Refuse(c)
    \/ \E c \in Calls : LeaveQueue(c)
    \/ \E c \in Calls : ServerFails(c)
    \/ \E c \in Calls : Rejected(c)
    \/ \E c \in Calls : Responds(c)
    \/ \E c \in Calls : Finish(c)
    \/ Cool

Spec == Init /\ [][Next]_vars

\* A call that holds a slot ends: the request is aborted after perRequestTimeoutMs,
\* and fetch itself gives up on a body that stalls.  No timer has to free the queue.
FairSpec == Spec /\ \A c \in Calls : WF_vars(Ends(c))

\* In addition time passes, and somebody keeps calling.
BusySpec == FairSpec /\ WF_vars(Cool) /\ SF_vars(\E c \in Calls : Begin(c))

-------------------------------------------------------------------------------
(* Properties.                                                               *)

\* Slots are neither leaked nor given twice, whatever mix of responses, failures,
\* timeouts and aborts frees them: active counts the calls that hold one, the queue
\* holds the waiting calls once each, and nobody waits while a slot is free.
SlotsHeld ==
    /\ active = Cardinality(Holders)
    /\ ToSet(queue) = {c \in Calls : stage[c] = "queued"}
    /\ IsInjective(queue)
    /\ queue # <<>> => active = Slots

\* The semaphore the calls of the gate go through, whatever becomes of them.
Gate == INSTANCE FairSemaphore WITH holding <- Holders, waiting <- queue

\* Counter, queue, time-outs, aborts and releases on every path of a call add up to a
\* fair counting semaphore.
ImplementsSemaphore == Gate!SemSpec

\* "Only allow one probe at a time in half-open state": until an outcome is
\* recorded, a breaker that has opened lets a single call through, also when late
\* outcomes of calls from before reopen or close it meanwhile.
OneProbe ==
    /\ state = "open" => tries = 0
    /\ state = "half-open" => tries = 1

\* Slots go to those who have waited longest: no newcomer and no later caller
\* overtakes a call in the queue.
FirstComeFirstServed ==
    [][\A c \in Calls : c \in Holders' \ Holders => queue = <<>> \/ c = Head(queue)]_vars

\* A call in the queue gets a slot or leaves, even if its timer never fires and new
\* calls keep arriving.
Served == \A c \in Calls : stage[c] = "queued" ~> stage[c] # "queued"

\* "LLM server is temporarily unavailable (circuit breaker open). Please try again
\* shortly." (llm-client.ts): the breaker does not stay half-open for good.
Recovers == state = "half-open" ~> state # "half-open"
===============================================================================
