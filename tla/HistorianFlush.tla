---------------------------- MODULE HistorianFlush ----------------------------
(***************************************************************************)
(* The write path of the historian (historian/src/flush-engine.ts,         *)
(* disk-buffer.ts and the start-up and shutdown sequences of index.ts).    *)
(*                                                                         *)
(* Every target table has an in-memory buffer and a timer.  A timer tick   *)
(* takes the whole buffer as one batch, appends the batch to a JSONL file, *)
(* and copies it to TimescaleDB chunk by chunk, awaiting each COPY.  The   *)
(* timer does not wait for the previous tick, so several flushes of one    *)
(* table can be in flight, and they share the table's retryCount.  A       *)
(* failed batch goes back into the buffer, or to the dead letters when     *)
(* retryCount has reached its limit.  At start-up the file is replayed and *)
(* its first lines are removed; at shutdown every buffer is flushed once.  *)
(*                                                                         *)
(* Abstractions: a reading is an element of Rows; a batch is the set of    *)
(* its readings, and a chunk any subset of the chunk size; a line of the   *)
(* file keeps the readings it can still be parsed into and whether it ends *)
(* in a newline (a torn write leaves a line without one); the file size    *)
(* limit counts lines.                                                     *)
(***************************************************************************)
EXTENDS Naturals, Sequences, FiniteSets

CONSTANTS
    Rows,           \* the MQTT readings that may arrive
    Tables,         \* the target tables of the category routes
    MaxChunk,       \* MAX_CHUNK
    MaxRetries,     \* MAX_RETRIES
    DiskLimit,      \* MAX_FILE_SIZE, in lines
    MaxFlights,     \* bound: flushes started by timers that are in flight at once
    MaxStops,       \* bound: times the process ends
    MaxDiskErrors   \* bound: failing writes to the buffer file

ASSUME FlushConstants ==
    /\ MaxChunk \in Nat \ {0}
    /\ MaxRetries \in Nat \ {0}
    /\ DiskLimit \in Nat
    /\ MaxFlights \in Nat \ {0}
    /\ MaxStops \in Nat
    /\ MaxDiskErrors \in Nat

VARIABLES
    phase,          \* "down", "replaying", "up", "stopping"
    toFlush,        \* tables flushAll has still to call flushTable for
    buf,            \* TableBuffer.rows of each table
    retryCount,     \* TableBuffer.retryCount of each table
    flights,        \* the flushTable calls that are awaiting
    disk,           \* the lines of pending.jsonl
    replayed,       \* lines of the file the start-up loop has gone through
    flushed,        \* `flushed` of the start-up loop
    stored,         \* readings in the database
    dropped,        \* readings of dead-lettered batches
    \* History, read by the properties only:
    accepted,       \* readings ever pushed
    live,           \* readings pushed in this life of the process
    written,        \* readings of batches whose append succeeded
    unwritten,      \* readings of batches whose append failed or was skipped
    retried,        \* readings that were put back after a failed COPY
    dup,            \* readings stored more than once
    replayGap,      \* has a replay of some line failed, or the trim crashed?
    stops, diskErrors

memoryVars  == <<buf, retryCount, flights>>
diskVars    == <<disk, written, unwritten, diskErrors>>
replayVars  == <<replayed, flushed, replayGap>>
arrivalVars == <<accepted, live>>
dbVars      == <<stored, dup>>
vars == <<phase, toFlush, buf, retryCount, flights, disk, replayed, flushed,
          stored, dropped, accepted, live, written, unwritten, retried, dup,
          replayGap, stops, diskErrors>>

Running == phase \in {"up", "stopping"}

\* A line of the file: the readings it parses into, none when it is damaged,
\* and whether a newline ends it.
Line == [rows : SUBSET Rows, closed : BOOLEAN]

\* A flushTable call in flight: its batch, what is still to be copied, whether
\* it is awaiting the dead-letter INSERT, and whether flushAll called it.
Flight == [table : Tables, batch : SUBSET Rows, rest : SUBSET Rows,
           dead : BOOLEAN, final : BOOLEAN]

LinesOf(log) == {log[i] : i \in 1..Len(log)}
RowsOn(log) == UNION {l.rows : l \in LinesOf(log)}
Buffered == UNION {buf[t] : t \in Tables}
InFlight == UNION {f.batch : f \in flights}
Memory == Buffered \cup InFlight

TypeOK ==
    /\ phase \in {"down", "replaying", "up", "stopping"}
    /\ toFlush \subseteq Tables
    /\ buf \in [Tables -> SUBSET Rows]
    /\ retryCount \in [Tables -> Nat]
    /\ flights \subseteq Flight
    /\ disk \in Seq(Line)
    /\ replayed \in Nat /\ flushed \in Nat
    /\ stored \subseteq Rows /\ dropped \subseteq Rows
    /\ accepted \subseteq Rows /\ live \subseteq Rows
    /\ written \subseteq Rows /\ unwritten \subseteq Rows
    /\ retried \subseteq Rows /\ dup \subseteq Rows
    /\ replayGap \in BOOLEAN
    /\ stops \in Nat /\ diskErrors \in Nat

Init ==
    /\ phase = "down" /\ toFlush = {}
    /\ buf = [t \in Tables |-> {}]
    /\ retryCount = [t \in Tables |-> 0]
    /\ flights = {}
    /\ disk = <<>> /\ replayed = 0 /\ flushed = 0
    /\ stored = {} /\ dropped = {}
    /\ accepted = {} /\ live = {} /\ written = {} /\ unwritten = {}
    /\ retried = {} /\ dup = {} /\ replayGap = FALSE
    /\ stops = 0 /\ diskErrors = 0

-------------------------------------------------------------------------------
(* The buffer file.                                                          *)

TornTail == disk # <<>> /\ ~disk[Len(disk)].closed

\* Mutant: writeFileSync for appendFileSync.
ExtendedOverwriting(line) == <<line>>

\* The file after appendFileSync of one line: text that lands behind a torn
\* line runs into it, and neither parses any more.
Extended(line) ==
    IF TornTail
    THEN [disk EXCEPT ![Len(disk)] = [rows |-> {}, closed |-> line.closed]]
    ELSE Append(disk, line)

\* appendBatch: skipped beyond the size limit; a failing write is only logged
\* and may have left part of its line behind.
AppendBatch(batch) ==
    \/ /\ Len(disk) > DiskLimit
       /\ unwritten' = unwritten \cup batch
       /\ UNCHANGED <<disk, written, diskErrors>>
    \/ /\ Len(disk) <= DiskLimit
       /\ disk' = Extended([rows |-> batch, closed |-> TRUE])
       /\ IF TornTail
          THEN unwritten' = unwritten \cup batch /\ UNCHANGED written
          ELSE written' = written \cup batch /\ UNCHANGED unwritten
       /\ UNCHANGED diskErrors
    \/ /\ Len(disk) <= DiskLimit
       /\ diskErrors < MaxDiskErrors
       /\ diskErrors' = diskErrors + 1
       /\ disk' \in {disk, Extended([rows |-> {}, closed |-> FALSE])}
       /\ unwritten' = unwritten \cup batch
       /\ UNCHANGED written

-------------------------------------------------------------------------------
(* The flush engine.                                                         *)

\* onMessage -> pushRow: one reading joins the buffer of its routed table.
PushRow(r, t) ==
    /\ phase = "up"
    /\ r \notin accepted
    /\ buf' = [buf EXCEPT ![t] = @ \cup {r}]
    /\ accepted' = accepted \cup {r}
    /\ live' = live \cup {r}
    /\ UNCHANGED <<phase, toFlush, retryCount, flights, diskVars, replayVars,
                   dbVars, dropped, retried, stops>>

\* Mutant: the batch is only sliced, and leaves the buffer when it is done.
SplicedLate(t) == buf

\* splice(0): the buffers once the whole buffer of t is taken.
Spliced(t) == [buf EXCEPT ![t] = {}]

\* flushTable up to its first await: take the whole buffer, append it to the
\* file, start copying.
StartFlight(t, final) ==
    /\ buf[t] # {}
    /\ buf' = Spliced(t)
    /\ AppendBatch(buf[t])
    /\ flights' = flights \cup {[table |-> t, batch |-> buf[t], rest |-> buf[t],
                                 dead |-> FALSE, final |-> final]}
    /\ UNCHANGED <<phase, retryCount, replayVars, dbVars, dropped, arrivalVars,
                   retried, stops>>

\* A tick of the table's timer.  Nothing stops it from firing while an earlier
\* flush of the table is still awaiting, or during shutdown.
TimerFlush(t) ==
    /\ Running
    /\ toFlush = {}
    /\ Cardinality(flights) < MaxFlights
    /\ StartFlight(t, FALSE)
    /\ UNCHANGED toFlush

Chunks(f) ==
    {c \in SUBSET f.rest : Cardinality(c) = MaxChunk}
        \cup (IF Cardinality(f.rest) <= MaxChunk THEN {f.rest} ELSE {})

StoreRows(S) ==
    /\ stored' = stored \cup S
    /\ dup' = dup \cup (stored \cap S)

\* One COPY commits; after the last one retryCount is reset and the call ends.
CopyDone(f) ==
    /\ ~f.dead
    /\ \E chunk \in Chunks(f) :
        LET rest == f.rest \ chunk IN
        /\ StoreRows(chunk)
        /\ flights' = (flights \ {f}) \cup
                          (IF rest = {} THEN {} ELSE {[f EXCEPT !.rest = rest]})
        /\ retryCount' = IF rest = {} THEN [retryCount EXCEPT ![f.table] = 0]
                                      ELSE retryCount
    /\ UNCHANGED <<phase, toFlush, buf, diskVars, replayVars, dropped,
                   arrivalVars, retried, stops>>

\* Mutant: counts the retries that are left.
CountedDown(t) == [retryCount EXCEPT ![t] = @ - 1]

Counted(t) == [retryCount EXCEPT ![t] = @ + 1]

\* Mutant: the buffer is assigned the batch, over what has arrived since.
PutBackOver(f) == [buf EXCEPT ![f.table] = f.batch]

\* Mutant: the batch is put back only into a buffer that is still empty.
PutBackIfEmpty(f) == [buf EXCEPT ![f.table] = IF @ = {} THEN f.batch ELSE @]

\* rows.unshift(...batch): the whole batch joins what has arrived since.
PutBack(f) == [buf EXCEPT ![f.table] = f.batch \cup @]

\* One COPY fails.  A connection lost after the commit also looks like this,
\* so the chunk may be in the database.  The whole batch, chunks already stored
\* included, is put back in front of the buffer or heads for the dead letters.
CopyFails(f) ==
    /\ ~f.dead
    /\ \E chunk \in Chunks(f) : \E kept \in {{}, chunk} : StoreRows(kept)
    /\ retryCount' = Counted(f.table)
    /\ IF retryCount'[f.table] >= MaxRetries
       THEN /\ flights' = (flights \ {f}) \cup {[f EXCEPT !.dead = TRUE]}
            /\ UNCHANGED <<buf, retried>>
       ELSE /\ flights' = flights \ {f}
            /\ buf' = PutBack(f)
            /\ retried' = retried \cup f.batch
    /\ UNCHANGED <<phase, toFlush, diskVars, replayVars, dropped, arrivalVars,
                   stops>>

\* recordDeadLetter returns, whether or not its INSERT worked (an error is only
\* logged), and the batch is dropped.
DeadLetter(f) ==
    /\ f.dead
    /\ flights' = flights \ {f}
    /\ dropped' = dropped \cup f.batch
    /\ retryCount' = [retryCount EXCEPT ![f.table] = 0]
    /\ UNCHANGED <<phase, toFlush, buf, diskVars, replayVars, dbVars,
                   arrivalVars, retried, stops>>

-------------------------------------------------------------------------------
(* Start-up, shutdown and crash.                                             *)

\* main: the buffer file is read before anything arrives.
Boot ==
    /\ phase = "down"
    /\ phase' = "replaying"
    /\ replayed' = 0 /\ flushed' = 0
    /\ UNCHANGED <<toFlush, memoryVars, diskVars, dbVars, dropped, arrivalVars,
                   retried, replayGap, stops>>

\* replayPendingBatches skips what does not parse.
SkipLine ==
    /\ phase = "replaying" /\ replayed < Len(disk)
    /\ disk[replayed + 1].rows = {}
    /\ replayed' = replayed + 1
    /\ UNCHANGED <<phase, toFlush, memoryVars, diskVars, flushed, replayGap,
                   dbVars, dropped, arrivalVars, retried, stops>>

\* replayBatch of one line: it all goes in, or it stops after some chunks.
ReplayLine ==
    /\ phase = "replaying" /\ replayed < Len(disk)
    /\ disk[replayed + 1].rows # {}
    /\ replayed' = replayed + 1
    /\ \/ /\ StoreRows(disk[replayed + 1].rows)
          /\ flushed' = flushed + 1
          /\ UNCHANGED replayGap
       \/ /\ \E kept \in SUBSET disk[replayed + 1].rows : StoreRows(kept)
          /\ replayGap' = TRUE
          /\ UNCHANGED flushed
    /\ UNCHANGED <<phase, toFlush, memoryVars, diskVars, dropped, arrivalVars,
                   retried, stops>>

\* removeFlushedBatches(n): the file without its first n lines.
Trimmed(n) ==
    IF n >= Len(disk) THEN <<>>
    ELSE [SubSeq(disk, n + 1, Len(disk)) EXCEPT ![Len(disk) - n].closed = TRUE]

\* The end of the start-up loop.  The file is trimmed unless it held no batch,
\* and stays as it was when the file system refuses.  Then the subscriber starts.
Ready ==
    /\ phase = "replaying" /\ replayed = Len(disk)
    /\ \/ /\ disk' = IF RowsOn(disk) = {} THEN disk ELSE Trimmed(flushed)
          /\ UNCHANGED diskErrors
       \/ /\ RowsOn(disk) # {}
          /\ diskErrors < MaxDiskErrors
          /\ diskErrors' = diskErrors + 1
          /\ UNCHANGED disk
    /\ phase' = "up"
    /\ UNCHANGED <<toFlush, memoryVars, written, unwritten, replayVars, dbVars,
                   dropped, arrivalVars, retried, stops>>

\* The process is gone, and its memory with it.
Down ==
    /\ phase' = "down"
    /\ toFlush' = {}
    /\ buf' = [t \in Tables |-> {}]
    /\ retryCount' = [t \in Tables |-> 0]
    /\ flights' = {}
    /\ live' = {}
    /\ stops' = stops + 1
    /\ UNCHANGED <<written, unwritten, diskErrors, replayed, flushed, dbVars,
                   dropped, accepted, retried>>

\* A crash at any point.
Crash ==
    /\ phase # "down"
    /\ stops < MaxStops
    /\ Down
    /\ UNCHANGED <<disk, replayGap>>

\* A crash inside writeFileSync of the trim: the file is truncated, and the
\* remaining lines are not written yet.
CrashInTrim ==
    /\ phase = "replaying" /\ replayed = Len(disk)
    /\ RowsOn(disk) # {} /\ flushed < Len(disk)
    /\ stops < MaxStops
    /\ disk' = <<>>
    /\ replayGap' = TRUE
    /\ Down

\* Mutant: a table with a flush in flight is left to it.
TablesWithoutFlight == {t \in Tables : \A f \in flights : f.table # t}

\* flushAll maps flushTable over every buffer.
FlushAllTables == Tables

\* shutdown: the subscriber stops, and flushAll calls flushTable for every
\* table.  The calls run without yielding; taking them one at a time, with
\* nothing but DB answers in between, adds no other behaviour.
Shutdown ==
    /\ phase = "up"
    /\ stops < MaxStops
    /\ phase' = "stopping"
    /\ toFlush' = FlushAllTables
    /\ UNCHANGED <<memoryVars, diskVars, replayVars, dbVars, dropped,
                   arrivalVars, retried, stops>>

FlushAtShutdown(t) ==
    /\ phase = "stopping" /\ t \in toFlush
    /\ toFlush' = toFlush \ {t}
    /\ \/ StartFlight(t, TRUE)
       \/ /\ buf[t] = {}
          /\ UNCHANGED <<phase, memoryVars, diskVars, replayVars, dbVars,
                         dropped, arrivalVars, retried, stops>>

\* Mutant: shutdown waits until every buffer is empty.
Drained == flights = {} /\ Buffered = {}

\* Promise.allSettled over the calls of flushAll.
AllSettled == \A f \in flights : ~f.final

\* process.exit once the calls of flushAll are settled; the flushes started by
\* timers are not waited for.
Exit ==
    /\ phase = "stopping" /\ toFlush = {}
    /\ AllSettled
    /\ Down
    /\ UNCHANGED <<disk, replayGap>>

-------------------------------------------------------------------------------

Engine == \E f \in flights : CopyDone(f) \/ CopyFails(f) \/ DeadLetter(f)

Startup == Boot \/ SkipLine \/ ReplayLine \/ Ready

Next ==
    \/ \E r \in Rows, t \in Tables : PushRow(r, t)
    \/ \E t \in Tables : TimerFlush(t)
    \/ \E f \in flights : CopyDone(f)
    \/ \E f \in flights : CopyFails(f)
    \/ \E f \in flights : DeadLetter(f)
    \/ Boot \/ SkipLine \/ ReplayLine \/ Ready
    \/ Shutdown
    \/ \E t \in Tables : FlushAtShutdown(t)
    \/ Exit \/ Crash \/ CrashInTrim

Spec == Init /\ [][Next]_vars

\* Every awaited COPY and INSERT returns one way or the other, the synchronous
\* parts of shutdown run, and the exit follows.
Fairness ==
    /\ WF_vars(Engine)
    /\ WF_vars(\E t \in Tables : FlushAtShutdown(t))
    /\ WF_vars(Exit)

FairSpec == Spec /\ Fairness

-------------------------------------------------------------------------------
(* Properties.                                                               *)

\* While the process lives, no reading it accepted disappears: it is in a
\* buffer, in a flush in flight, in the database or in a dead-lettered batch,
\* however timer flushes overlap, fail and put their batches back.
NoSilentLoss == live \subseteq Memory \cup stored \cup dropped

\* A batch that reached the file is not lost by any crash or restart as long as
\* every replay succeeded: each of its readings is in the database or still on
\* a line of the file, damaged lines in between notwithstanding.
Durable == ~replayGap => written \subseteq stored \cup RowsOn(disk)

\* Once shutdown has called flushTable for every table, the exit loses nothing
\* that is not on record: what is still in memory, put back by a failed flush
\* or in a timer's flush nobody waits for, is also in the file.
ShutdownSafe ==
    phase = "stopping" /\ toFlush = {} =>
        live \subseteq stored \cup dropped \cup unwritten \cup RowsOn(disk)

\* Until the first restart a reading is stored twice only if a batch holding it
\* failed: no two flushes in flight ever hold the same reading.
DuplicateOnlyAfterFailure ==
    /\ stops = 0 => dup \subseteq retried
    /\ \A f, g \in flights : f # g => f.batch \cap g.batch = {}

\* flushAll settles and the process exits once it was told to, whatever the
\* timers still start in the meantime.
ShutdownCompletes == phase = "stopping" ~> phase = "down"

\* "Rewrites the buffer file excluding already-flushed batches"
\* (disk-buffer.ts): the trim at the end of start-up removes from the file no
\* reading that is not in the database.
TrimKeepsUnflushed ==
    [][phase = "replaying" /\ phase' = "up" =>
           RowsOn(disk) \ stored \subseteq RowsOn(disk')]_vars

\* The refinement mapping onto RowDelivery.
StatusOf(r) ==
    CASE r \in stored -> "stored"
      [] r \in dropped \ stored -> "dropped"
      [] r \in (Memory \cup RowsOn(disk)) \ (stored \cup dropped) -> "pending"
      [] r \in accepted \ (stored \cup dropped \cup Memory \cup RowsOn(disk)) -> "gone"
      [] OTHER -> "new"

Delivery == INSTANCE RowDelivery
    WITH up <- Running, status <- [r \in Rows |-> StatusOf(r)]

\* The flush engine, its file and its restarts keep the promise of RowDelivery.
ImplementsDelivery == Delivery!DeliverySpec
===============================================================================
