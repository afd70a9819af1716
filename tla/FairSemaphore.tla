----------------------------- MODULE FairSemaphore -----------------------------
(***************************************************************************)
(* What a fair counting semaphore promises, without counters, breakers and *)
(* responses: a fixed number of slots, a line of those who wait because    *)
(* all slots are taken, and a slot that is given back goes to the head of  *)
(* the line in the same step.  LlmGate implements this module.             *)
(***************************************************************************)
EXTENDS Naturals, FiniteSets, SequencesExt

CONSTANTS
    Calls,      \* those who may want a slot
    Slots       \* how many may have one at once

VARIABLES
    holding,    \* the calls that have a slot
    waiting     \* the calls in the line, the first in front

semVars == <<holding, waiting>>

SemInit == holding = {} /\ waiting = <<>>

Outside == Calls \ (holding \cup ToSet(waiting))

\* A slot is free, so that nobody waits: a call takes it.
Take(c) ==
    /\ c \in Outside
    /\ waiting = <<>> /\ Cardinality(holding) < Slots
    /\ holding' = holding \cup {c}
    /\ UNCHANGED waiting

\* All slots are taken: a call goes to the end of the line.
Join(c) ==
    /\ c \in Outside
    /\ Cardinality(holding) = Slots
    /\ waiting' = Append(waiting, c)
    /\ UNCHANGED holding

\* A call in the line gives up.
LeaveLine(i) ==
    /\ i \in DOMAIN waiting
    /\ waiting' = RemoveAt(waiting, i)
    /\ UNCHANGED holding

\* A slot becomes free.
GiveBack(c) ==
    /\ c \in holding
    /\ waiting = <<>>
    /\ holding' = holding \ {c}
    /\ UNCHANGED waiting

\* A slot goes to the head of the line.
HandOver(c) ==
    /\ c \in holding
    /\ waiting # <<>>
    /\ holding' = (holding \ {c}) \cup {Head(waiting)}
    /\ waiting' = Tail(waiting)

SemNext ==
    \/ \E c \in Calls : Take(c) \/ Join(c) \/ GiveBack(c) \/ HandOver(c)
    \/ \E i \in DOMAIN waiting : LeaveLine(i)

SemSpec == SemInit /\ [][SemNext]_semVars
================================================================================
