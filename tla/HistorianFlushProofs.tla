-------------------------- MODULE HistorianFlushProofs --------------------------
(***************************************************************************)
(* Proofs about HistorianFlush for any readings, tables, chunk size, retry *)
(* limit and bounds.                                                       *)
(***************************************************************************)
EXTENDS HistorianFlush, SequenceTheorems, TLAPS

-------------------------------------------------------------------------------
(* Lemmas about the buffer file.                                             *)

\* Extending the file keeps it a sequence of lines.
LEMMA ExtendedType ==
    ASSUME disk \in Seq(Line), NEW line \in Line
    PROVE  Extended(line) \in Seq(Line)
<1>1. CASE TornTail
  <2>1. [rows |-> {}, closed |-> line.closed] \in Line
    BY DEF Line
  <2>2. Len(disk) \in 1..Len(disk)
    BY <1>1, LenProperties DEF TornTail
  <2>3. QED
    BY <1>1, <2>1, <2>2, ExceptSeq DEF Extended
<1>2. CASE ~TornTail
  BY <1>2, AppendProperties DEF Extended
<1>3. QED
  BY <1>1, <1>2

\* Trimming the file keeps it a sequence of lines.
LEMMA TrimmedType ==
    ASSUME disk \in Seq(Line), NEW n \in Nat
    PROVE  Trimmed(n) \in Seq(Line)
<1>1. CASE n >= Len(disk)
  BY <1>1, EmptySeq DEF Trimmed
<1>2. CASE ~(n >= Len(disk))
  <2> DEFINE kept == SubSeq(disk, n + 1, Len(disk))
             k == Len(disk) - n
  <2>1. Len(disk) \in Nat /\ \A i \in (n + 1)..Len(disk) : disk[i] \in Line
    BY LenProperties
  <2>2. kept \in Seq(Line) /\ Len(kept) = k /\ k \in 1..Len(kept)
    BY <1>2, <2>1, SubSeqProperties
  <2>3. [kept[k] EXCEPT !.closed = TRUE] \in Line
    <3>1. kept[k] \in Line
      BY <2>2
    <3>2. QED
      BY <3>1 DEF Line
  <2>4. Trimmed(n) = [kept EXCEPT ![k] = [kept[k] EXCEPT !.closed = TRUE]]
    BY <1>2, <2>2 DEF Trimmed
  <2> HIDE DEF kept, k
  <2>5. QED
    BY <2>2, <2>3, <2>4, ExceptSeq
<1>3. QED
  BY <1>1, <1>2

-------------------------------------------------------------------------------

\* The state always has its type: in particular retryCount never underflows and
\* every flush in flight holds readings of the right kind.
THEOREM TypeCorrect == Spec => []TypeOK
<1>1. Init => TypeOK
  <2> SUFFICES ASSUME Init
               PROVE  TypeOK
    OBVIOUS
  <2>1. disk \in Seq(Line)
    BY EmptySeq DEF Init
  <2>2. buf \in [Tables -> SUBSET Rows] /\ retryCount \in [Tables -> Nat]
    BY DEF Init
  <2>3. QED
    BY <2>1, <2>2 DEF Init, TypeOK
<1>2. TypeOK /\ [Next]_vars => TypeOK'
  <2> SUFFICES ASSUME TypeOK, [Next]_vars
               PROVE  TypeOK'
    OBVIOUS
  <2> USE FlushConstants DEF TypeOK, Flight
  <2>0. ASSUME NEW t \in Tables, NEW final \in BOOLEAN, StartFlight(t, final),
               phase' = phase, toFlush' \in SUBSET Tables
        PROVE  TypeOK'
    <3>1. buf[t] \subseteq Rows /\ buf' \in [Tables -> SUBSET Rows]
      BY <2>0 DEF StartFlight, Spliced
    <3>2. /\ disk' \in Seq(Line) /\ written' \subseteq Rows
          /\ unwritten' \subseteq Rows /\ diskErrors' \in Nat
      <4>1. /\ [rows |-> buf[t], closed |-> TRUE] \in Line
            /\ [rows |-> {}, closed |-> FALSE] \in Line
        BY <3>1 DEF Line
      <4>2. /\ Extended([rows |-> buf[t], closed |-> TRUE]) \in Seq(Line)
            /\ Extended([rows |-> {}, closed |-> FALSE]) \in Seq(Line)
        BY <4>1, ExtendedType
      <4>3. QED
        BY <2>0, <3>1, <4>2 DEF StartFlight, AppendBatch
    <3>3. flights' \subseteq Flight
      <4>1. [table |-> t, batch |-> buf[t], rest |-> buf[t],
             dead |-> FALSE, final |-> final] \in Flight
        BY <3>1
      <4>2. QED
        BY <2>0, <4>1 DEF StartFlight
    <3>4. QED
      BY <2>0, <3>1, <3>2, <3>3 DEF StartFlight, replayVars, dbVars, arrivalVars
  <2>1. ASSUME NEW r \in Rows, NEW t \in Tables, PushRow(r, t)
        PROVE  TypeOK'
    BY <2>1 DEF PushRow, diskVars, replayVars, dbVars
  <2>2. ASSUME NEW t \in Tables, TimerFlush(t)
        PROVE  TypeOK'
    BY <2>0, <2>2 DEF TimerFlush, StartFlight
  <2>3. ASSUME NEW f \in flights, CopyDone(f)
        PROVE  TypeOK'
    <3>1. PICK chunk \in Chunks(f) :
            /\ StoreRows(chunk)
            /\ flights' = (flights \ {f}) \cup
                 (IF f.rest \ chunk = {} THEN {}
                                         ELSE {[f EXCEPT !.rest = f.rest \ chunk]})
            /\ retryCount' = IF f.rest \ chunk = {}
                             THEN [retryCount EXCEPT ![f.table] = 0]
                             ELSE retryCount
      BY <2>3 DEF CopyDone
    <3>2. chunk \subseteq Rows
      BY DEF Chunks
    <3>3. flights' \subseteq Flight /\ retryCount' \in [Tables -> Nat]
      <4>1. f \in Flight /\ f.table \in Tables /\ f.rest \ chunk \subseteq Rows
        OBVIOUS
      <4>2. [f EXCEPT !.rest = f.rest \ chunk] \in Flight
        BY <4>1
      <4>3. QED
        BY <3>1, <4>1, <4>2
    <3>4. QED
      BY <2>3, <3>1, <3>2, <3>3
         DEF CopyDone, StoreRows, diskVars, replayVars, arrivalVars
  <2>4. ASSUME NEW f \in flights, CopyFails(f)
        PROVE  TypeOK'
    <3>1. stored' \subseteq Rows /\ dup' \subseteq Rows
      BY <2>4 DEF CopyFails, StoreRows, Chunks
    <3>2. retryCount' \in [Tables -> Nat]
      BY <2>4 DEF CopyFails, Counted
    <3>3. /\ flights' \subseteq Flight
          /\ buf' \in [Tables -> SUBSET Rows]
          /\ retried' \subseteq Rows
      <4>1. f \in Flight /\ f.table \in Tables /\ f.batch \subseteq Rows
        OBVIOUS
      <4>2. [f EXCEPT !.dead = TRUE] \in Flight
        BY <4>1
      <4>3. PutBack(f) \in [Tables -> SUBSET Rows]
        BY <4>1 DEF PutBack
      <4>4. QED
        BY <2>4, <4>1, <4>2, <4>3 DEF CopyFails
    <3>4. QED
      BY <2>4, <3>1, <3>2, <3>3 DEF CopyFails, diskVars, replayVars, arrivalVars
  <2>5. ASSUME NEW f \in flights, DeadLetter(f)
        PROVE  TypeOK'
    BY <2>5 DEF DeadLetter, diskVars, replayVars, dbVars, arrivalVars
  <2>6. CASE Boot
    BY <2>6 DEF Boot, memoryVars, diskVars, dbVars, arrivalVars
  <2>7. CASE SkipLine
    BY <2>7 DEF SkipLine, memoryVars, diskVars, dbVars, arrivalVars
  <2>8. CASE ReplayLine
    <3>1. disk[replayed + 1].rows \subseteq Rows
      <4>1. disk[replayed + 1] \in Line
        BY <2>8, LenProperties, ElementOfSeq DEF ReplayLine
      <4>2. QED
        BY <4>1 DEF Line
    <3>2. /\ stored' \subseteq Rows /\ dup' \subseteq Rows
          /\ flushed' \in Nat /\ replayGap' \in BOOLEAN
      <4>1. stored' \subseteq Rows /\ dup' \subseteq Rows
        <5>1. CASE StoreRows(disk[replayed + 1].rows)
          BY <3>1, <5>1 DEF StoreRows
        <5>2. CASE \E kept \in SUBSET disk[replayed + 1].rows : StoreRows(kept)
          <6>1. PICK kept \in SUBSET disk[replayed + 1].rows : StoreRows(kept)
            BY <5>2
          <6>2. kept \subseteq Rows
            BY <3>1
          <6>3. QED
            BY <6>1, <6>2 DEF StoreRows
        <5>3. \/ StoreRows(disk[replayed + 1].rows)
              \/ \E kept \in SUBSET disk[replayed + 1].rows : StoreRows(kept)
          BY <2>8, Zenon DEF ReplayLine
        <5>4. QED
          BY <5>1, <5>2, <5>3, Zenon
      <4>2. replayGap' \in BOOLEAN
        BY <2>8, Zenon DEF ReplayLine
      <4>3. flushed' = flushed + 1 \/ flushed' = flushed
        BY <2>8, Zenon DEF ReplayLine
      <4>4. QED
        BY <4>1, <4>2, <4>3
    <3>3. QED
      BY <2>8, <3>2 DEF ReplayLine, memoryVars, diskVars, arrivalVars
  <2>9. CASE Ready
    <3>1. disk' \in Seq(Line) /\ diskErrors' \in Nat
      <4>1. Trimmed(flushed) \in Seq(Line)
        BY TrimmedType
      <4>2. disk' \in {disk, Trimmed(flushed)}
        BY <2>9 DEF Ready
      <4>3. diskErrors' \in Nat
        BY <2>9 DEF Ready
      <4>4. QED
        BY <4>1, <4>2, <4>3
    <3>2. QED
      BY <2>9, <3>1 DEF Ready, memoryVars, replayVars, dbVars, arrivalVars
  <2>10. CASE Shutdown
    BY <2>10 DEF Shutdown, FlushAllTables, memoryVars, diskVars, replayVars,
                 dbVars, arrivalVars
  <2>11. ASSUME NEW t \in Tables, FlushAtShutdown(t)
         PROVE  TypeOK'
    <3>1. CASE StartFlight(t, TRUE)
      BY <2>0, <2>11, <3>1 DEF FlushAtShutdown, StartFlight
    <3>2. CASE ~StartFlight(t, TRUE)
      BY <2>11, <3>2 DEF FlushAtShutdown, memoryVars, diskVars, replayVars,
                         dbVars, arrivalVars
    <3>3. QED
      BY <3>1, <3>2
  <2>12. ASSUME Down, disk' \in Seq(Line), replayGap' \in BOOLEAN
         PROVE  TypeOK'
    BY <2>12 DEF Down, dbVars
  <2>13. CASE Exit
    BY <2>12, <2>13 DEF Exit
  <2>14. CASE Crash
    BY <2>12, <2>14 DEF Crash
  <2>15. CASE CrashInTrim
    BY <2>12, <2>15 DEF CrashInTrim
  <2>16. CASE UNCHANGED vars
    BY <2>16 DEF vars
  <2>17. QED
    BY <2>1, <2>2, <2>3, <2>4, <2>5, <2>6, <2>7, <2>8, <2>9, <2>10, <2>11,
       <2>13, <2>14, <2>15, <2>16 DEF Next
<1>3. QED
  BY <1>1, <1>2, PTL DEF Spec

-------------------------------------------------------------------------------
(* No silent loss.                                                           *)

\* What a flush has copied so far is in the database.
CopiedIsStored == \A f \in flights : f.batch \ f.rest \subseteq stored

LossInv == NoSilentLoss /\ CopiedIsStored

\* The invariant needs to know that what a flush has copied is stored: the batch
\* leaves memory when the last chunk is.
LEMMA LossInvariant == Spec => []LossInv
<1> USE DEF LossInv, NoSilentLoss, CopiedIsStored, Memory, Buffered, InFlight
<1>1. Init => LossInv
  BY DEF Init
<1>2. TypeOK /\ LossInv /\ [Next]_vars => LossInv'
  <2> SUFFICES ASSUME TypeOK, LossInv, [Next]_vars
               PROVE  LossInv'
    OBVIOUS
  <2>0. ASSUME NEW t \in Tables, NEW final \in BOOLEAN, StartFlight(t, final)
        PROVE  LossInv'
    <3>1. PICK g : /\ g.batch = buf[t] /\ g.rest = buf[t]
                   /\ flights' = flights \cup {g}
      BY <2>0 DEF StartFlight
    <3>2. \A s \in Tables : s # t => buf'[s] = buf[s]
      BY <2>0 DEF StartFlight, Spliced, TypeOK
    <3>3. /\ live' = live /\ stored' = stored /\ dropped' = dropped
      BY <2>0 DEF StartFlight, dbVars, arrivalVars
    <3>4. QED
      BY <3>1, <3>2, <3>3
  <2>1. ASSUME NEW r \in Rows, NEW t \in Tables, PushRow(r, t)
        PROVE  LossInv'
    <3>1. /\ r \in buf'[t]
          /\ \A s \in Tables : buf[s] \subseteq buf'[s]
      BY <2>1 DEF PushRow, TypeOK
    <3>2. /\ live' = live \cup {r} /\ flights' = flights
          /\ stored' = stored /\ dropped' = dropped
      BY <2>1 DEF PushRow, dbVars
    <3>3. QED
      BY <3>1, <3>2
  <2>2. ASSUME NEW t \in Tables, TimerFlush(t)
        PROVE  LossInv'
    BY <2>0, <2>2 DEF TimerFlush
  <2>3. ASSUME NEW f \in flights, CopyDone(f)
        PROVE  LossInv'
    <3>1. PICK chunk \in Chunks(f) :
            /\ stored' = stored \cup chunk
            /\ flights' = (flights \ {f}) \cup
                 (IF f.rest \ chunk = {} THEN {}
                                         ELSE {[f EXCEPT !.rest = f.rest \ chunk]})
      BY <2>3 DEF CopyDone, StoreRows
    <3>2. buf' = buf /\ live' = live /\ dropped' = dropped
      BY <2>3 DEF CopyDone, arrivalVars
    <3>3. f \in Flight
      BY DEF TypeOK
    <3>4. CASE f.rest \ chunk = {}
      BY <3>1, <3>2, <3>4
    <3>5. CASE f.rest \ chunk # {}
      <4> DEFINE g == [f EXCEPT !.rest = f.rest \ chunk]
      <4>1. g.batch = f.batch /\ g.rest = f.rest \ chunk
        BY <3>3 DEF Flight
      <4>2. flights' = (flights \ {f}) \cup {g}
        BY <3>1, <3>5
      <4> HIDE DEF g
      <4>3. QED
        BY <3>1, <3>2, <4>1, <4>2
    <3>6. QED
      BY <3>4, <3>5
  <2>4. ASSUME NEW f \in flights, CopyFails(f)
        PROVE  LossInv'
    <3>1. /\ stored \subseteq stored'
          /\ live' = live /\ dropped' = dropped
      BY <2>4 DEF CopyFails, StoreRows, arrivalVars
    <3>2. f \in Flight
      BY DEF TypeOK
    <3>3. CASE retryCount'[f.table] >= MaxRetries
      <4> DEFINE g == [f EXCEPT !.dead = TRUE]
      <4>1. g.batch = f.batch /\ g.rest = f.rest
        BY <3>2 DEF Flight
      <4>2. flights' = (flights \ {f}) \cup {g} /\ buf' = buf
        BY <2>4, <3>3 DEF CopyFails
      <4> HIDE DEF g
      <4>3. QED
        BY <3>1, <4>1, <4>2
    <3>4. CASE ~(retryCount'[f.table] >= MaxRetries)
      <4>1. flights' = flights \ {f} /\ buf' = PutBack(f)
        BY <2>4, <3>4 DEF CopyFails
      <4>2. /\ f.table \in Tables /\ f.batch \subseteq buf'[f.table]
            /\ \A s \in Tables : buf[s] \subseteq buf'[s]
        BY <3>2, <4>1 DEF PutBack, Flight, TypeOK
      <4>3. QED
        BY <3>1, <4>1, <4>2
    <3>5. QED
      BY <3>3, <3>4
  <2>5. ASSUME NEW f \in flights, DeadLetter(f)
        PROVE  LossInv'
    BY <2>5 DEF DeadLetter, dbVars, arrivalVars
  <2>6. CASE Boot
    BY <2>6 DEF Boot, memoryVars, dbVars, arrivalVars
  <2>7. CASE SkipLine
    BY <2>7 DEF SkipLine, memoryVars, dbVars, arrivalVars
  <2>8. CASE ReplayLine
    <3>1. stored \subseteq stored'
      BY <2>8 DEF ReplayLine, StoreRows
    <3>2. QED
      BY <2>8, <3>1 DEF ReplayLine, memoryVars, arrivalVars
  <2>9. CASE Ready
    BY <2>9 DEF Ready, memoryVars, dbVars, arrivalVars
  <2>10. CASE Shutdown
    BY <2>10 DEF Shutdown, memoryVars, dbVars, arrivalVars
  <2>11. ASSUME NEW t \in Tables, FlushAtShutdown(t)
         PROVE  LossInv'
    BY <2>0, <2>11 DEF FlushAtShutdown, memoryVars, dbVars, arrivalVars
  <2>12. CASE Exit \/ Crash \/ CrashInTrim
    BY <2>12 DEF Exit, Crash, CrashInTrim, Down
  <2>13. CASE UNCHANGED vars
    BY <2>13 DEF vars
  <2>14. QED
    BY <2>1, <2>2, <2>3, <2>4, <2>5, <2>6, <2>7, <2>8, <2>9, <2>10, <2>11,
       <2>12, <2>13 DEF Next
<1>3. QED
  BY <1>1, <1>2, TypeCorrect, PTL DEF Spec

\* While the process lives no reading it accepted disappears, for any number of
\* overlapping flushes.
THEOREM NoLoss == Spec => []NoSilentLoss
BY LossInvariant, PTL DEF LossInv

-------------------------------------------------------------------------------
(* The file keeps what the database lacks.                                   *)

\* Only a damaged line lacks its newline.
TornIsEmpty == \A i \in 1..Len(disk) : ~disk[i].closed => disk[i].rows = {}

\* Membership in RowsOn, by line number.
LEMMA OnLine ==
    ASSUME NEW log, NEW r
    PROVE  r \in RowsOn(log) <=> \E i \in 1..Len(log) : r \in log[i].rows
  BY DEF RowsOn, LinesOf

\* Extending the file loses no reading, and adds those of the line unless a torn
\* line swallows them.
LEMMA ExtendedRows ==
    ASSUME disk \in Seq(Line), TornIsEmpty, NEW line \in Line,
           ~line.closed => line.rows = {}
    PROVE  LET log == Extended(line) IN
           /\ RowsOn(disk) \subseteq RowsOn(log)
           /\ ~TornTail => line.rows \subseteq RowsOn(log)
           /\ \A i \in 1..Len(log) : ~log[i].closed => log[i].rows = {}
<1> DEFINE log == Extended(line)
           n == Len(disk)
<1>0. n \in Nat
  BY LenProperties
<1>1. CASE TornTail
  <2> DEFINE damaged == [rows |-> {}, closed |-> line.closed]
  <2>1. n \in 1..n /\ damaged \in Line
    BY <1>0, <1>1, LenProperties DEF TornTail, Line
  <2>2. /\ Len(log) = n
        /\ \A j \in 1..n : log[j] = IF j = n THEN damaged ELSE disk[j]
    BY <1>1, <2>1, ExceptSeq DEF Extended
  <2>3. disk[n].rows = {}
    BY <1>1, <2>1 DEF TornTail, TornIsEmpty
  <2>4. damaged.rows = {}
    OBVIOUS
  <2> HIDE DEF damaged, log, n
  <2>5. RowsOn(disk) \subseteq RowsOn(log)
    BY <2>2, <2>3, OnLine DEF n
  <2>6. \A i \in 1..Len(log) : ~log[i].closed => log[i].rows = {}
    BY <2>2, <2>4 DEF TornIsEmpty, n
  <2>7. QED
    BY <1>1, <2>5, <2>6 DEF log
<1>2. CASE ~TornTail
  <2>1. /\ Len(log) = n + 1 /\ log[n + 1] = line
        /\ \A j \in 1..n : log[j] = disk[j]
    BY <1>2, AppendProperties DEF Extended
  <2> HIDE DEF log
  <2>2. RowsOn(disk) \subseteq RowsOn(log)
    BY <1>0, <2>1, OnLine
  <2>3. line.rows \subseteq RowsOn(log)
    BY <1>0, <2>1, OnLine
  <2>4. \A i \in 1..Len(log) : ~log[i].closed => log[i].rows = {}
    <3>1. ASSUME NEW i \in 1..Len(log), ~log[i].closed
          PROVE  log[i].rows = {}
      <4>1. CASE i = n + 1
        BY <2>1, <3>1, <4>1
      <4>2. CASE i # n + 1
        BY <1>0, <2>1, <3>1, <4>2 DEF TornIsEmpty
      <4>3. QED
        BY <4>1, <4>2
    <3>2. QED
      BY <3>1
  <2>5. QED
    BY <2>2, <2>3, <2>4 DEF log
<1>3. QED
  BY <1>1, <1>2

\* What appendBatch does to the file and to its history, whether it succeeds,
\* fails or is skipped.
LEMMA AppendKeeps ==
    ASSUME TypeOK, TornIsEmpty, NEW batch \in SUBSET Rows, AppendBatch(batch)
    PROVE  /\ TornIsEmpty'
           /\ RowsOn(disk) \subseteq RowsOn(disk)'
           /\ written' \subseteq written \cup RowsOn(disk)'
           /\ unwritten \subseteq unwritten'
           /\ batch \subseteq unwritten' \cup RowsOn(disk)'
<1> DEFINE good == [rows |-> batch, closed |-> TRUE]
           torn == [rows |-> {}, closed |-> FALSE]
<1>1. /\ good \in Line /\ good.rows = batch /\ good.closed
      /\ torn \in Line /\ torn.rows = {}
  BY DEF Line
<1>2. disk \in Seq(Line)
  BY DEF TypeOK
<1> HIDE DEF good, torn
<1>3. CASE disk' = disk /\ unwritten' = unwritten \cup batch /\ written' = written
  BY <1>3 DEF TornIsEmpty, RowsOn, LinesOf
<1>4. CASE /\ disk' = Extended(torn)
           /\ unwritten' = unwritten \cup batch /\ written' = written
  <2>1. /\ RowsOn(disk) \subseteq RowsOn(Extended(torn))
        /\ \A i \in 1..Len(Extended(torn)) :
              ~Extended(torn)[i].closed => Extended(torn)[i].rows = {}
    BY <1>1, <1>2, ExtendedRows
  <2>2. TornIsEmpty' /\ RowsOn(disk) \subseteq RowsOn(disk)'
    BY <1>4, <2>1 DEF TornIsEmpty, RowsOn, LinesOf
  <2>3. QED
    BY <1>4, <2>2
<1>5. CASE /\ disk' = Extended(good)
           /\ IF TornTail THEN unwritten' = unwritten \cup batch /\ written' = written
                          ELSE written' = written \cup batch /\ unwritten' = unwritten
  <2>1. /\ RowsOn(disk) \subseteq RowsOn(Extended(good))
        /\ ~TornTail => batch \subseteq RowsOn(Extended(good))
        /\ \A i \in 1..Len(Extended(good)) :
              ~Extended(good)[i].closed => Extended(good)[i].rows = {}
    BY <1>1, <1>2, ExtendedRows
  <2>2. TornIsEmpty' /\ RowsOn(disk)' = RowsOn(Extended(good))
    BY <1>5, <2>1 DEF TornIsEmpty, RowsOn, LinesOf
  <2>3. QED
    BY <1>5, <2>1, <2>2
<1>6. \/ disk' = disk /\ unwritten' = unwritten \cup batch /\ written' = written
      \/ /\ disk' = Extended(torn)
         /\ unwritten' = unwritten \cup batch /\ written' = written
      \/ /\ disk' = Extended(good)
         /\ IF TornTail THEN unwritten' = unwritten \cup batch /\ written' = written
                        ELSE written' = written \cup batch /\ unwritten' = unwritten
  BY DEF AppendBatch, good, torn
<1>7. QED
  BY <1>3, <1>4, <1>5, <1>6

\* Removing lines from the front leaves no torn line behind.
LEMMA TrimmedClosed ==
    ASSUME disk \in Seq(Line), TornIsEmpty, NEW n \in Nat
    PROVE  LET log == Trimmed(n) IN
           \A i \in 1..Len(log) : ~log[i].closed => log[i].rows = {}
<1>1. CASE n >= Len(disk)
  <2>1. Trimmed(n) = <<>> /\ Len(<<>>) = 0
    BY <1>1, EmptySeq DEF Trimmed
  <2>2. QED
    BY <2>1
<1>2. CASE ~(n >= Len(disk))
  <2> DEFINE kept == SubSeq(disk, n + 1, Len(disk))
             k == Len(disk) - n
             last == [kept[k] EXCEPT !.closed = TRUE]
             log == [kept EXCEPT ![k] = last]
  <2>1. Len(disk) \in Nat /\ \A i \in (n + 1)..Len(disk) : disk[i] \in Line
    BY LenProperties
  <2>2. /\ kept \in Seq(Line) /\ Len(kept) = k /\ k \in 1..Len(kept)
        /\ \A i \in 1..k : kept[i] = disk[n + i]
    <3>1. \A i \in 1..(Len(disk) - (n + 1) + 1) : kept[i] = disk[n + 1 + i - 1]
      BY <2>1, SubSeqProperties
    <3>2. kept \in Seq(Line) /\ Len(kept) = k /\ k \in 1..Len(kept)
      BY <1>2, <2>1, SubSeqProperties
    <3>3. \A i \in 1..k : kept[i] = disk[n + i]
      <4>1. Len(disk) - (n + 1) + 1 = k
        BY <2>1
      <4> HIDE DEF kept, k
      <4>2. \A i \in 1..k : n + 1 + i - 1 = n + i
        OBVIOUS
      <4>3. QED
        BY <3>1, <4>1, <4>2
    <3>4. QED
      BY <3>2, <3>3
  <2>3. last \in Line /\ last.closed
    <3>1. kept[k] \in Line
      BY <2>2
    <3>2. QED
      BY <3>1 DEF Line
  <2>4. Trimmed(n) = log
    BY <1>2, <2>2 DEF Trimmed
  <2> HIDE DEF kept, k, last
  <2>5. Len(log) = k /\ \A j \in 1..k : log[j] = IF j = k THEN last ELSE kept[j]
    BY <2>2, <2>3, ExceptSeq
  <2>6. \A j \in 1..k : n + j \in 1..Len(disk)
    BY <2>1 DEF k
  <2>7. \A j \in 1..k : ~log[j].closed => log[j].rows = {}
    BY <2>2, <2>3, <2>5, <2>6 DEF TornIsEmpty
  <2>8. QED
    BY <2>4, <2>5, <2>7
<1>3. QED
  BY <1>1, <1>2

\* During replay, the lines gone through are in the database unless one failed.
ReplayedIsStored ==
    phase = "replaying" =>
        /\ replayed <= Len(disk)
        /\ ~replayGap => \A i \in 1..replayed : disk[i].rows \subseteq stored

DurableInv == Durable /\ TornIsEmpty /\ ReplayedIsStored

\* The invariant relates the file to the database line by line, which is what
\* the trim relies on.
LEMMA DurableInvariant == Spec => []DurableInv
<1>1. Init => DurableInv
  BY EmptySeq DEF Init, DurableInv, Durable, TornIsEmpty, ReplayedIsStored
<1>2. TypeOK /\ DurableInv /\ [Next]_vars => DurableInv'
  <2> SUFFICES ASSUME TypeOK, DurableInv, [Next]_vars
               PROVE  DurableInv'
    OBVIOUS
  <2>0. ASSUME stored \subseteq stored', disk' = disk, written' = written,
               replayGap' = replayGap,
               phase' # "replaying" \/ (phase' = phase /\ replayed' = replayed)
        PROVE  DurableInv'
    BY <2>0 DEF DurableInv, Durable, TornIsEmpty, ReplayedIsStored, RowsOn,
                LinesOf
  <2>1. ASSUME NEW t \in Tables, NEW final \in BOOLEAN, StartFlight(t, final),
               phase # "replaying"
        PROVE  DurableInv'
    <3>1. buf[t] \in SUBSET Rows /\ AppendBatch(buf[t])
      BY <2>1 DEF StartFlight, TypeOK
    <3>2. /\ TornIsEmpty' /\ RowsOn(disk) \subseteq RowsOn(disk)'
          /\ written' \subseteq written \cup RowsOn(disk)'
      BY <3>1, AppendKeeps DEF DurableInv
    <3>3. stored' = stored /\ phase' = phase /\ replayGap' = replayGap
      BY <2>1 DEF StartFlight, dbVars, replayVars
    <3>4. QED
      BY <2>1, <3>2, <3>3 DEF DurableInv, Durable, ReplayedIsStored
  <2>2. ASSUME NEW r \in Rows, NEW t \in Tables, PushRow(r, t)
        PROVE  DurableInv'
    BY <2>0, <2>2 DEF PushRow, diskVars, replayVars, dbVars
  <2>3. ASSUME NEW t \in Tables, TimerFlush(t)
        PROVE  DurableInv'
    BY <2>1, <2>3 DEF TimerFlush, Running
  <2>4. ASSUME NEW f \in flights, CopyDone(f)
        PROVE  DurableInv'
    BY <2>0, <2>4 DEF CopyDone, StoreRows, diskVars, replayVars
  <2>5. ASSUME NEW f \in flights, CopyFails(f)
        PROVE  DurableInv'
    BY <2>0, <2>5 DEF CopyFails, StoreRows, diskVars, replayVars
  <2>6. ASSUME NEW f \in flights, DeadLetter(f)
        PROVE  DurableInv'
    BY <2>0, <2>6 DEF DeadLetter, dbVars, diskVars, replayVars
  <2>7. CASE Boot
    <3>1. disk' = disk /\ written' = written /\ stored' = stored
          /\ replayGap' = replayGap /\ replayed' = 0
      BY <2>7 DEF Boot, diskVars, dbVars
    <3>2. Len(disk) \in Nat
      BY LenProperties DEF TypeOK
    <3>3. QED
      BY <3>1, <3>2 DEF DurableInv, Durable, TornIsEmpty, ReplayedIsStored,
                        RowsOn, LinesOf
  <2>8. CASE SkipLine
    <3>1. /\ disk' = disk /\ written' = written /\ stored' = stored
          /\ replayGap' = replayGap /\ phase' = phase /\ phase = "replaying"
          /\ replayed' = replayed + 1 /\ replayed < Len(disk)
          /\ disk[replayed + 1].rows = {}
      BY <2>8 DEF SkipLine, diskVars, dbVars
    <3>2. replayed \in Nat /\ Len(disk) \in Nat
      BY LenProperties DEF TypeOK
    <3>3. ReplayedIsStored'
      BY <3>1, <3>2 DEF DurableInv, ReplayedIsStored
    <3>4. QED
      BY <3>1, <3>3 DEF DurableInv, Durable, TornIsEmpty, RowsOn, LinesOf
  <2>9. CASE ReplayLine
    <3>1. /\ disk' = disk /\ written' = written /\ stored \subseteq stored'
          /\ phase' = phase /\ phase = "replaying"
          /\ replayed' = replayed + 1 /\ replayed < Len(disk)
      BY <2>9 DEF ReplayLine, StoreRows, diskVars
    <3>2. \/ disk[replayed + 1].rows \subseteq stored' /\ replayGap' = replayGap
          \/ replayGap' = TRUE
      BY <2>9 DEF ReplayLine, StoreRows
    <3>3. replayed \in Nat /\ Len(disk) \in Nat
      BY LenProperties DEF TypeOK
    <3>4. ReplayedIsStored'
      BY <3>1, <3>2, <3>3 DEF DurableInv, ReplayedIsStored
    <3>5. Durable'
      BY <3>1, <3>2 DEF DurableInv, Durable, RowsOn, LinesOf
    <3>6. QED
      BY <3>1, <3>4, <3>5 DEF DurableInv, TornIsEmpty
  <2>10. CASE Ready
    <3>1. /\ written' = written /\ stored' = stored /\ replayGap' = replayGap
          /\ phase' = "up"
          /\ disk' = disk \/ disk' = Trimmed(flushed)
      BY <2>10 DEF Ready, dbVars, replayVars
    <3>2. ~replayGap => RowsOn(disk) \subseteq stored
      BY <2>10, OnLine DEF Ready, DurableInv, ReplayedIsStored
    <3>3. Durable'
      BY <3>1, <3>2 DEF DurableInv, Durable
    <3>4. TornIsEmpty'
      <4>1. \A i \in 1..Len(Trimmed(flushed)) :
              ~Trimmed(flushed)[i].closed => Trimmed(flushed)[i].rows = {}
        BY TrimmedClosed DEF DurableInv, TypeOK
      <4>2. QED
        BY <3>1, <4>1 DEF DurableInv, TornIsEmpty
    <3>5. QED
      BY <3>1, <3>3, <3>4 DEF DurableInv, ReplayedIsStored
  <2>11. CASE Shutdown
    BY <2>0, <2>11 DEF Shutdown, diskVars, replayVars, dbVars
  <2>12. ASSUME NEW t \in Tables, FlushAtShutdown(t)
         PROVE  DurableInv'
    <3>1. CASE StartFlight(t, TRUE)
      BY <2>1, <2>12, <3>1 DEF FlushAtShutdown
    <3>2. CASE ~StartFlight(t, TRUE)
      BY <2>0, <2>12, <3>2 DEF FlushAtShutdown, diskVars, replayVars, dbVars
    <3>3. QED
      BY <3>1, <3>2
  <2>13. CASE Exit \/ Crash
    BY <2>0, <2>13 DEF Exit, Crash, Down, dbVars
  <2>14. CASE CrashInTrim
    <3>1. disk' = <<>> /\ replayGap' /\ phase' = "down"
      BY <2>14 DEF CrashInTrim, Down
    <3>2. QED
      BY <3>1, EmptySeq DEF DurableInv, Durable, TornIsEmpty, ReplayedIsStored
  <2>15. CASE UNCHANGED vars
    BY <2>0, <2>15 DEF vars
  <2>16. QED
    BY <2>2, <2>3, <2>4, <2>5, <2>6, <2>7, <2>8, <2>9, <2>10, <2>11, <2>12,
       <2>13, <2>14, <2>15 DEF Next
<1>3. QED
  BY <1>1, <1>2, TypeCorrect, PTL DEF Spec

\* A batch that reached the file survives every crash and restart as long as no
\* replay fails: the trim at the end of start-up removes lines the database has.
THEOREM DurableHolds == Spec => []Durable
BY DurableInvariant, PTL DEF DurableInv

-------------------------------------------------------------------------------
(* Shutdown.                                                                 *)

\* Readings whose fate no longer depends on memory.
OnRecord == stored \cup dropped \cup unwritten \cup RowsOn(disk)

\* The tables whose buffers may hold readings that never were in a batch: all
\* of them while the process serves, those not yet flushed while it stops.
Unflushed == CASE phase = "up" -> Tables
               [] phase = "stopping" -> toFlush
               [] OTHER -> {}

ShutdownInv ==
    /\ live \subseteq OnRecord \cup UNION {buf[t] : t \in Unflushed}
    /\ phase # "stopping" => toFlush = {}
    /\ ~Running => live = {}
    /\ TornIsEmpty

\* Nothing a stopping process still holds is only in memory once flushAll has
\* called flushTable for every table, also when the flushes fail or those of
\* the timers are cut off by the exit.  The invariant follows each reading from
\* a buffer that was never taken to the file its batch was appended to.
THEOREM ShutdownLosesNothing == Spec => []ShutdownSafe
<1> USE DEF Running, Unflushed
<1>1. Init => ShutdownInv
  BY EmptySeq DEF Init, ShutdownInv, TornIsEmpty
<1>2. TypeOK /\ ShutdownInv /\ [Next]_vars => ShutdownInv'
  <2> SUFFICES ASSUME TypeOK, ShutdownInv, [Next]_vars
               PROVE  ShutdownInv'
    OBVIOUS
  <2>0. ASSUME stored \subseteq stored', dropped \subseteq dropped',
               unwritten' = unwritten, disk' = disk, live' = live,
               phase' = phase, toFlush' = toFlush,
               \A t \in Tables : buf[t] \subseteq buf'[t]
        PROVE  ShutdownInv'
    <3>1. OnRecord \subseteq OnRecord'
      BY <2>0 DEF OnRecord, RowsOn, LinesOf
    <3>2. TornIsEmpty'
      BY <2>0 DEF ShutdownInv, TornIsEmpty
    <3>3. QED
      BY <2>0, <3>1, <3>2 DEF ShutdownInv, TypeOK
  <2>1. ASSUME NEW t \in Tables, NEW final \in BOOLEAN, StartFlight(t, final)
        PROVE  /\ OnRecord \cup buf[t] \subseteq OnRecord'
               /\ \A s \in Tables : s # t => buf'[s] = buf[s]
               /\ TornIsEmpty' /\ live' = live /\ phase' = phase
    <3>1. buf[t] \in SUBSET Rows /\ AppendBatch(buf[t])
      BY <2>1 DEF StartFlight, TypeOK
    <3>2. /\ TornIsEmpty' /\ RowsOn(disk) \subseteq RowsOn(disk)'
          /\ unwritten \subseteq unwritten'
          /\ buf[t] \subseteq unwritten' \cup RowsOn(disk)'
      BY <3>1, AppendKeeps DEF ShutdownInv
    <3>3. /\ stored' = stored /\ dropped' = dropped
          /\ live' = live /\ phase' = phase
      BY <2>1 DEF StartFlight, dbVars, arrivalVars
    <3>4. \A s \in Tables : s # t => buf'[s] = buf[s]
      BY <2>1 DEF StartFlight, Spliced, TypeOK
    <3>5. OnRecord \cup buf[t] \subseteq OnRecord'
      BY <3>2, <3>3 DEF OnRecord
    <3>6. QED
      BY <3>2, <3>3, <3>4, <3>5
  <2>2. ASSUME NEW r \in Rows, NEW t \in Tables, PushRow(r, t)
        PROVE  ShutdownInv'
    <3>1. /\ phase = "up" /\ phase' = phase /\ toFlush' = toFlush
          /\ live' = live \cup {r}
          /\ stored' = stored /\ dropped' = dropped
          /\ unwritten' = unwritten /\ disk' = disk
      BY <2>2 DEF PushRow, dbVars, diskVars
    <3>2. r \in buf'[t] /\ \A s \in Tables : buf[s] \subseteq buf'[s]
      BY <2>2 DEF PushRow, TypeOK
    <3>3. OnRecord' = OnRecord /\ TornIsEmpty'
      BY <3>1 DEF OnRecord, RowsOn, LinesOf, ShutdownInv, TornIsEmpty
    <3>4. QED
      BY <3>1, <3>2, <3>3 DEF ShutdownInv
  <2>3. ASSUME NEW t \in Tables, TimerFlush(t)
        PROVE  ShutdownInv'
    <3>1. /\ StartFlight(t, FALSE) /\ toFlush' = toFlush
          /\ phase \in {"up", "stopping"} /\ toFlush = {}
      BY <2>3 DEF TimerFlush
    <3>2. /\ OnRecord \cup buf[t] \subseteq OnRecord'
          /\ \A s \in Tables : s # t => buf'[s] = buf[s]
          /\ TornIsEmpty' /\ live' = live /\ phase' = phase
      BY <2>1, <3>1
    <3>3. Unflushed' = Unflushed /\ Unflushed \subseteq Tables
      BY <3>1, <3>2
    <3>4. UNION {buf[s] : s \in Unflushed}
            \subseteq buf[t] \cup UNION {buf'[s] : s \in Unflushed'}
      BY <3>2, <3>3
    <3>5. QED
      BY <3>1, <3>2, <3>4 DEF ShutdownInv
  <2>4. ASSUME NEW f \in flights, CopyDone(f)
        PROVE  ShutdownInv'
    BY <2>0, <2>4 DEF CopyDone, StoreRows, diskVars, arrivalVars
  <2>5. ASSUME NEW f \in flights, CopyFails(f)
        PROVE  ShutdownInv'
    <3>1. \A t \in Tables : buf[t] \subseteq buf'[t]
      BY <2>5 DEF CopyFails, PutBack, TypeOK
    <3>2. QED
      BY <2>0, <2>5, <3>1 DEF CopyFails, StoreRows, diskVars, arrivalVars
  <2>6. ASSUME NEW f \in flights, DeadLetter(f)
        PROVE  ShutdownInv'
    BY <2>0, <2>6 DEF DeadLetter, diskVars, dbVars, arrivalVars
  <2>7. ASSUME phase' \in {"replaying", "down"}, live' = {}, toFlush' = {},
               TornIsEmpty'
        PROVE  ShutdownInv'
    BY <2>7 DEF ShutdownInv
  <2>8. CASE Boot
    BY <2>7, <2>8 DEF Boot, diskVars, arrivalVars, ShutdownInv, TornIsEmpty
  <2>9. CASE SkipLine
    BY <2>7, <2>9 DEF SkipLine, diskVars, arrivalVars, ShutdownInv, TornIsEmpty
  <2>10. CASE ReplayLine
    <3>1. /\ phase = "replaying" /\ phase' = phase /\ toFlush' = toFlush
          /\ live' = live /\ disk' = disk
      BY <2>10, Zenon DEF ReplayLine, diskVars, arrivalVars
    <3>2. QED
      BY <2>7, <3>1 DEF ShutdownInv, TornIsEmpty
  <2>11. CASE Ready
    <3>1. live' = {} /\ phase' = "up" /\ toFlush' = {}
      BY <2>11 DEF Ready, arrivalVars, ShutdownInv
    <3>2. TornIsEmpty'
      <4>1. \A i \in 1..Len(Trimmed(flushed)) :
              ~Trimmed(flushed)[i].closed => Trimmed(flushed)[i].rows = {}
        BY TrimmedClosed DEF ShutdownInv, TypeOK
      <4>2. disk' = disk \/ disk' = Trimmed(flushed)
        BY <2>11 DEF Ready
      <4>3. QED
        BY <4>1, <4>2 DEF ShutdownInv, TornIsEmpty
    <3>3. QED
      BY <3>1, <3>2 DEF ShutdownInv
  <2>12. CASE Shutdown
    <3>1. /\ phase = "up" /\ phase' = "stopping" /\ toFlush' = Tables
          /\ live' = live /\ buf' = buf
          /\ stored' = stored /\ dropped' = dropped
          /\ unwritten' = unwritten /\ disk' = disk
      BY <2>12 DEF Shutdown, FlushAllTables, memoryVars, dbVars, diskVars,
                   arrivalVars
    <3>2. OnRecord' = OnRecord /\ TornIsEmpty'
      BY <3>1 DEF OnRecord, RowsOn, LinesOf, ShutdownInv, TornIsEmpty
    <3>3. QED
      BY <3>1, <3>2 DEF ShutdownInv
  <2>13. ASSUME NEW t \in Tables, FlushAtShutdown(t)
         PROVE  ShutdownInv'
    <3>1. phase = "stopping" /\ toFlush' = toFlush \ {t}
      BY <2>13 DEF FlushAtShutdown
    <3>2. CASE StartFlight(t, TRUE)
      <4>1. /\ OnRecord \cup buf[t] \subseteq OnRecord'
            /\ \A s \in Tables : s # t => buf'[s] = buf[s]
            /\ TornIsEmpty' /\ live' = live /\ phase' = phase
        BY <2>1, <3>2
      <4>2. /\ Unflushed = toFlush /\ toFlush \subseteq Tables
            /\ Unflushed' = toFlush \ {t}
        BY <3>1, <4>1 DEF TypeOK
      <4>3. UNION {buf[s] : s \in Unflushed}
              \subseteq buf[t] \cup UNION {buf'[s] : s \in Unflushed'}
        BY <4>1, <4>2
      <4>4. QED
        BY <3>1, <4>1, <4>3 DEF ShutdownInv
    <3>3. CASE ~StartFlight(t, TRUE)
      <4>1. /\ buf[t] = {} /\ buf' = buf /\ live' = live /\ phase' = phase
            /\ stored' = stored /\ dropped' = dropped
            /\ unwritten' = unwritten /\ disk' = disk
        BY <2>13, <3>3 DEF FlushAtShutdown, memoryVars, dbVars, diskVars,
                           arrivalVars
      <4>2. OnRecord' = OnRecord /\ TornIsEmpty'
        BY <4>1 DEF OnRecord, RowsOn, LinesOf, ShutdownInv, TornIsEmpty
      <4>3. QED
        BY <3>1, <4>1, <4>2 DEF ShutdownInv
    <3>4. QED
      BY <3>2, <3>3
  <2>14. CASE Exit \/ Crash
    BY <2>7, <2>14 DEF Exit, Crash, Down, ShutdownInv, TornIsEmpty
  <2>15. CASE CrashInTrim
    <3>1. disk' = <<>> /\ phase' = "down" /\ live' = {} /\ toFlush' = {}
      BY <2>15 DEF CrashInTrim, Down
    <3>2. QED
      BY <2>7, <3>1, EmptySeq DEF TornIsEmpty
  <2>16. CASE UNCHANGED vars
    BY <2>0, <2>16 DEF vars
  <2>17. QED
    BY <2>2, <2>3, <2>4, <2>5, <2>6, <2>8, <2>9, <2>10, <2>11, <2>12, <2>13,
       <2>14, <2>15, <2>16 DEF Next
<1>3. ShutdownInv => ShutdownSafe
  BY DEF ShutdownInv, ShutdownSafe, OnRecord
<1>4. QED
  BY <1>1, <1>2, <1>3, TypeCorrect, PTL DEF Spec

-------------------------------------------------------------------------------
(* Where a reading is.                                                       *)

\* A reading is held in one place at most, and only if it was accepted.
HeldApart ==
    /\ Memory \subseteq accepted
    /\ \A s, t \in Tables : s # t => buf[s] \cap buf[t] = {}
    /\ \A f \in flights, t \in Tables : f.batch \cap buf[t] = {}
    /\ \A f, g \in flights : f # g => f.batch \cap g.batch = {}
    /\ \A f \in flights : f.rest \subseteq f.batch

\* In the first life nothing is replayed, and what may be copied again was put back.
FirstLife == stops = 0 =>
    /\ ~Running => disk = <<>>
    /\ stored \subseteq accepted
    /\ dup \subseteq retried
    /\ \A t \in Tables : buf[t] \cap stored \subseteq retried
    /\ \A f \in flights : ~f.dead => f.rest \cap stored \subseteq retried

HeldInv == HeldApart /\ FirstLife

\* What a new flight does to the places.
LEMMA StartHolds ==
    ASSUME TypeOK, HeldInv, Running,
           NEW t \in Tables, NEW final \in BOOLEAN, StartFlight(t, final)
    PROVE  HeldInv'
<1> USE DEF HeldInv
<1>1. PICK g : /\ g.batch = buf[t] /\ g.rest = buf[t] /\ ~g.dead
               /\ flights' = flights \cup {g}
  BY DEF StartFlight
<1>2. /\ buf'[t] = {} /\ \A s \in Tables : s # t => buf'[s] = buf[s]
      /\ buf[t] # {}
  BY DEF StartFlight, Spliced, TypeOK
<1>3. /\ phase' = phase /\ stored' = stored /\ dup' = dup /\ accepted' = accepted
      /\ retried' = retried /\ stops' = stops
  BY DEF StartFlight, dbVars, arrivalVars
<1>4. HeldApart'
  BY <1>1, <1>2, <1>3 DEF HeldApart, Memory, Buffered, InFlight
<1>5. FirstLife'
  BY <1>1, <1>2, <1>3 DEF FirstLife, Running
<1> QED BY <1>4, <1>5

LEMMA HeldInvariant == Spec => []HeldInv
<1>1. Init => HeldInv
  BY DEF Init, HeldInv, HeldApart, FirstLife, Memory, Buffered, InFlight
<1>2. TypeOK /\ HeldInv /\ [Next]_vars => HeldInv'
  <2> SUFFICES ASSUME TypeOK, HeldInv, [Next]_vars PROVE HeldInv'
    OBVIOUS
  <2> USE DEF HeldInv
  <2>0. ASSUME UNCHANGED <<memoryVars, accepted, dbVars, retried, stops>>,
               stops = 0 /\ ~Running' => disk' = <<>>
        PROVE  HeldInv'
    BY <2>0 DEF HeldApart, FirstLife, Memory, Buffered, InFlight, memoryVars, dbVars
  <2>1. ASSUME NEW r \in Rows, NEW t \in Tables, PushRow(r, t)
        PROVE  HeldInv'
    <3>1. /\ buf'[t] = buf[t] \cup {r} /\ \A s \in Tables : s # t => buf'[s] = buf[s]
          /\ accepted' = accepted \cup {r} /\ r \notin accepted
          /\ flights' = flights /\ stored' = stored /\ dup' = dup
          /\ phase' = phase /\ retried' = retried /\ stops' = stops /\ disk' = disk
      BY <2>1 DEF PushRow, TypeOK, dbVars, diskVars
    <3>2. HeldApart'
      BY <3>1 DEF HeldApart, Memory, Buffered, InFlight
    <3>3. FirstLife'
      BY <3>1 DEF FirstLife, Running
    <3> QED BY <3>2, <3>3
  <2>2. ASSUME NEW t \in Tables, TimerFlush(t)
        PROVE  HeldInv'
    BY <2>2, StartHolds DEF TimerFlush
  <2>3. ASSUME NEW f \in flights, CopyDone(f)
        PROVE  HeldInv'
    <3>1. PICK chunk \in Chunks(f) :
            /\ stored' = stored \cup chunk /\ dup' = dup \cup (stored \cap chunk)
            /\ flights' = (flights \ {f}) \cup
                 (IF f.rest \ chunk = {} THEN {}
                                         ELSE {[f EXCEPT !.rest = f.rest \ chunk]})
      BY <2>3 DEF CopyDone, StoreRows
    <3>2. /\ buf' = buf /\ accepted' = accepted /\ retried' = retried
          /\ stops' = stops /\ phase' = phase /\ disk' = disk /\ ~f.dead
      BY <2>3 DEF CopyDone, arrivalVars, diskVars
    <3> DEFINE g == [f EXCEPT !.rest = f.rest \ chunk]
    <3>3. /\ f \in Flight /\ g.batch = f.batch /\ g.rest = f.rest \ chunk
          /\ g.dead = f.dead
      BY DEF TypeOK, Flight
    <3>4. chunk \subseteq f.rest
      BY DEF Chunks
    <3>5. flights' \subseteq (flights \ {f}) \cup {g}
      BY <3>1
    <3> HIDE DEF g
    <3>6. HeldApart'
      BY <3>2, <3>3, <3>5 DEF HeldApart, Memory, Buffered, InFlight
    <3>7. FirstLife'
      BY <3>1, <3>2, <3>3, <3>4, <3>5 DEF HeldApart, FirstLife, Running, Memory, InFlight
    <3> QED BY <3>6, <3>7
  <2>4. ASSUME NEW f \in flights, CopyFails(f)
        PROVE  HeldInv'
    <3>1. PICK kept : /\ kept \subseteq f.rest
                      /\ stored' = stored \cup kept /\ dup' = dup \cup (stored \cap kept)
      BY <2>4 DEF CopyFails, StoreRows, Chunks
    <3>2. /\ accepted' = accepted /\ stops' = stops /\ phase' = phase /\ disk' = disk
          /\ ~f.dead
      BY <2>4 DEF CopyFails, arrivalVars, diskVars
    <3>3. f \in Flight
      BY DEF TypeOK
    <3>4. CASE retryCount'[f.table] >= MaxRetries
      <4> DEFINE g == [f EXCEPT !.dead = TRUE]
      <4>1. g.batch = f.batch /\ g.rest = f.rest /\ g.dead
        BY <3>3 DEF Flight
      <4>2. flights' = (flights \ {f}) \cup {g} /\ buf' = buf /\ retried' = retried
        BY <2>4, <3>4 DEF CopyFails
      <4> HIDE DEF g
      <4>3. HeldApart'
        BY <3>2, <4>1, <4>2 DEF HeldApart, Memory, Buffered, InFlight
      <4>4. FirstLife'
        BY <3>1, <3>2, <4>1, <4>2 DEF HeldApart, FirstLife, Running, Memory, InFlight
      <4> QED BY <4>3, <4>4
    <3>5. CASE ~(retryCount'[f.table] >= MaxRetries)
      <4>1. /\ flights' = flights \ {f} /\ buf' = PutBack(f)
            /\ retried' = retried \cup f.batch
        BY <2>4, <3>5 DEF CopyFails
      <4>2. /\ f.table \in Tables /\ buf'[f.table] = f.batch \cup buf[f.table]
            /\ \A s \in Tables : s # f.table => buf'[s] = buf[s]
        BY <3>3, <4>1 DEF PutBack, Flight, TypeOK
      <4>3. HeldApart'
        BY <3>2, <4>1, <4>2 DEF HeldApart, Memory, Buffered, InFlight
      <4>4. FirstLife'
        BY <3>1, <3>2, <4>1, <4>2 DEF HeldApart, FirstLife, Running, Memory, InFlight
      <4> QED BY <4>3, <4>4
    <3> QED BY <3>4, <3>5
  <2>5. ASSUME NEW f \in flights, DeadLetter(f)
        PROVE  HeldInv'
    <3>1. /\ flights' = flights \ {f} /\ buf' = buf /\ accepted' = accepted
          /\ stored' = stored /\ dup' = dup /\ retried' = retried
          /\ stops' = stops /\ phase' = phase /\ disk' = disk
      BY <2>5 DEF DeadLetter, dbVars, arrivalVars, diskVars
    <3> QED BY <3>1 DEF HeldApart, FirstLife, Running, Memory, Buffered, InFlight
  <2>6. CASE Boot
    BY <2>0, <2>6 DEF Boot, diskVars, arrivalVars, FirstLife, Running
  <2>7. CASE SkipLine
    BY <2>0, <2>7 DEF SkipLine, diskVars, arrivalVars, FirstLife, Running
  <2>8. CASE ReplayLine
    <3>1. /\ UNCHANGED memoryVars /\ accepted' = accepted /\ stops' = stops
          /\ phase = "replaying" /\ replayed < Len(disk)
      BY <2>8, Zenon DEF ReplayLine, arrivalVars
    <3>2. stops # 0
      BY <3>1, EmptySeq DEF FirstLife, Running, TypeOK
    <3> QED
      BY <3>1, <3>2 DEF HeldApart, FirstLife, Memory, Buffered, InFlight, memoryVars
  <2>9. CASE Ready
    BY <2>0, <2>9 DEF Ready, arrivalVars, Running
  <2>10. CASE Shutdown
    BY <2>0, <2>10 DEF Shutdown, arrivalVars, Running
  <2>11. ASSUME NEW t \in Tables, FlushAtShutdown(t)
         PROVE  HeldInv'
    <3>1. Running
      BY <2>11 DEF FlushAtShutdown, Running
    <3>2. CASE StartFlight(t, TRUE)
      BY <3>1, <3>2, StartHolds
    <3>3. CASE ~StartFlight(t, TRUE)
      BY <2>0, <2>11, <3>1, <3>3 DEF FlushAtShutdown, arrivalVars, Running
    <3> QED BY <3>2, <3>3
  <2>12. CASE Exit \/ Crash \/ CrashInTrim
    <3>1. /\ buf' = [t \in Tables |-> {}] /\ flights' = {} /\ stops' = stops + 1
      BY <2>12 DEF Exit, Crash, CrashInTrim, Down
    <3>2. stops' # 0
      BY <3>1 DEF TypeOK
    <3> QED
      BY <3>1, <3>2 DEF HeldApart, FirstLife, Memory, Buffered, InFlight
  <2>13. CASE UNCHANGED vars
    BY <2>0, <2>13 DEF vars, memoryVars, dbVars, FirstLife, Running
  <2> QED
    BY <2>1, <2>2, <2>3, <2>4, <2>5, <2>6, <2>7, <2>8, <2>9, <2>10, <2>11,
       <2>12, <2>13 DEF Next
<1> QED BY <1>1, <1>2, TypeCorrect, PTL DEF Spec

\* Until the first restart the database gets a reading twice only behind a failed
\* COPY, for any number of overlapping flushes: none of them share a reading.
THEOREM TwiceOnlyAfterFailure == Spec => []DuplicateOnlyAfterFailure
<1>1. HeldInv => DuplicateOnlyAfterFailure
  BY DEF HeldInv, HeldApart, FirstLife, DuplicateOnlyAfterFailure
<1> QED BY <1>1, HeldInvariant, PTL

-------------------------------------------------------------------------------
(* HistorianFlush implements RowDelivery.                                    *)

\* Extending and trimming the file add no reading but those of the new line.
LEMMA ExtendedWithin ==
    ASSUME disk \in Seq(Line), NEW line \in Line
    PROVE  RowsOn(Extended(line)) \subseteq RowsOn(disk) \cup line.rows
<1> DEFINE log == Extended(line)
           n == Len(disk)
<1>0. n \in Nat
  BY LenProperties
<1>1. CASE TornTail
  <2> DEFINE damaged == [rows |-> {}, closed |-> line.closed]
  <2>1. n \in 1..n /\ damaged \in Line /\ damaged.rows = {}
    BY <1>0, <1>1, LenProperties DEF TornTail, Line
  <2>2. /\ Len(log) = n
        /\ \A j \in 1..n : log[j] = IF j = n THEN damaged ELSE disk[j]
    BY <1>1, <2>1, ExceptSeq DEF Extended
  <2> HIDE DEF damaged, log, n
  <2>3. RowsOn(log) \subseteq RowsOn(disk)
    BY <2>1, <2>2, OnLine DEF n
  <2> QED BY <2>3 DEF log
<1>2. CASE ~TornTail
  <2>1. /\ Len(log) = n + 1 /\ log[n + 1] = line
        /\ \A j \in 1..n : log[j] = disk[j]
    BY <1>2, AppendProperties DEF Extended
  <2> HIDE DEF log
  <2>2. RowsOn(log) \subseteq RowsOn(disk) \cup line.rows
    BY <1>0, <2>1, OnLine
  <2> QED BY <2>2 DEF log
<1> QED BY <1>1, <1>2

LEMMA AppendWithin ==
    ASSUME TypeOK, NEW batch \in SUBSET Rows, AppendBatch(batch)
    PROVE  RowsOn(disk)' \subseteq RowsOn(disk) \cup batch
<1> DEFINE good == [rows |-> batch, closed |-> TRUE]
           torn == [rows |-> {}, closed |-> FALSE]
<1>1. /\ good \in Line /\ good.rows = batch /\ torn \in Line /\ torn.rows = {}
  BY DEF Line
<1>2. disk' \in {disk, Extended(good), Extended(torn)}
  BY DEF AppendBatch
<1> HIDE DEF good, torn
<1>3. /\ RowsOn(Extended(good)) \subseteq RowsOn(disk) \cup batch
      /\ RowsOn(Extended(torn)) \subseteq RowsOn(disk) \cup batch
  BY <1>1, ExtendedWithin DEF TypeOK
<1>4. RowsOn(disk)' = RowsOn(disk')
  BY DEF RowsOn, LinesOf
<1> QED BY <1>2, <1>3, <1>4

LEMMA TrimmedWithin ==
    ASSUME disk \in Seq(Line), NEW n \in Nat
    PROVE  RowsOn(Trimmed(n)) \subseteq RowsOn(disk)
<1>1. CASE n >= Len(disk)
  BY <1>1, EmptySeq DEF Trimmed, RowsOn, LinesOf
<1>2. CASE ~(n >= Len(disk))
  <2> DEFINE kept == SubSeq(disk, n + 1, Len(disk))
             k == Len(disk) - n
             last == [kept[k] EXCEPT !.closed = TRUE]
             log == [kept EXCEPT ![k] = last]
  <2>1. Len(disk) \in Nat /\ \A i \in (n + 1)..Len(disk) : disk[i] \in Line
    BY LenProperties
  <2>2. kept \in Seq(Line) /\ Len(kept) = k /\ k \in 1..Len(kept)
    BY <1>2, <2>1, SubSeqProperties
  <2>3. \A i \in 1..k : kept[i] = disk[n + i]
    <3>1. \A i \in 1..(Len(disk) - (n + 1) + 1) : kept[i] = disk[n + 1 + i - 1]
      BY <2>1, SubSeqProperties
    <3>2. Len(disk) - (n + 1) + 1 = k
      BY <2>1
    <3> HIDE DEF kept, k
    <3>3. \A i \in 1..k : n + 1 + i - 1 = n + i
      OBVIOUS
    <3> QED BY <3>1, <3>2, <3>3
  <2>4. last \in Line /\ last.rows = kept[k].rows
    <3>1. kept[k] \in Line
      BY <2>2
    <3> QED BY <3>1 DEF Line
  <2>5. Trimmed(n) = log
    BY <1>2, <2>2 DEF Trimmed
  <2> HIDE DEF kept, k, last
  <2>6. Len(log) = k /\ \A j \in 1..k : log[j] = IF j = k THEN last ELSE kept[j]
    BY <2>2, <2>4, ExceptSeq
  <2>7. \A j \in 1..k : n + j \in 1..Len(disk)
    BY <2>1 DEF k
  <2>8. \A j \in 1..k : log[j].rows = disk[n + j].rows
    BY <2>2, <2>3, <2>4, <2>6
  <2> HIDE DEF log
  <2>9. RowsOn(log) \subseteq RowsOn(disk)
    BY <2>6, <2>7, <2>8, OnLine
  <2> QED BY <2>5, <2>9
<1> QED BY <1>1, <1>2

\* Where a pending reading may be.
Known == Memory \cup RowsOn(disk)

\* What is held, stored or given up was accepted; what is given up is not held;
\* flushes are in flight only while the process serves.
KnownInv ==
    /\ Known \cup stored \cup dropped \subseteq accepted
    /\ Memory \cap dropped = {}
    /\ ~Running => flights = {}

LEMMA StatusIs ==
    ASSUME NEW r
    PROVE  StatusOf(r) = IF r \in stored THEN "stored"
                         ELSE IF r \in dropped THEN "dropped"
                         ELSE IF r \in Known THEN "pending"
                         ELSE IF r \in accepted THEN "gone" ELSE "new"
<1>1. CASE r \in stored
  BY <1>1 DEF StatusOf
<1>2. CASE r \in dropped \ stored
  BY <1>2 DEF StatusOf
<1>3. CASE r \in Known \ (stored \cup dropped)
  BY <1>3 DEF StatusOf, Known
<1>4. CASE r \in accepted \ (stored \cup dropped \cup Known)
  BY <1>4 DEF StatusOf, Known
<1>5. CASE r \notin stored \cup dropped \cup Known \cup accepted
  BY <1>5 DEF StatusOf, Known
<1> QED BY <1>1, <1>2, <1>3, <1>4, <1>5

LEMMA StatusIsNext ==
    ASSUME NEW r
    PROVE  StatusOf(r)' = IF r \in stored' THEN "stored"
                          ELSE IF r \in dropped' THEN "dropped"
                          ELSE IF r \in Known' THEN "pending"
                          ELSE IF r \in accepted' THEN "gone" ELSE "new"
<1>1. CASE r \in stored'
  BY <1>1 DEF StatusOf
<1>2. CASE r \in dropped' \ stored'
  BY <1>2 DEF StatusOf
<1>3. CASE r \in Known' \ (stored' \cup dropped')
  BY <1>3 DEF StatusOf, Known
<1>4. CASE r \in accepted' \ (stored' \cup dropped' \cup Known')
  BY <1>4 DEF StatusOf, Known
<1>5. CASE r \notin stored' \cup dropped' \cup Known' \cup accepted'
  BY <1>5 DEF StatusOf, Known
<1> QED BY <1>1, <1>2, <1>3, <1>4, <1>5

\* The readings of S move to status s, the others stay.
LEMMA MovedTo ==
    ASSUME NEW S, NEW s,
           \A r \in Rows : StatusOf(r)' = IF r \in S THEN s ELSE StatusOf(r)
    PROVE  [r \in Rows |-> StatusOf(r)]' = Delivery!Moved(S, s)
BY DEF Delivery!Moved

\* A step that stores the readings of S.
LEMMA StoreStep ==
    ASSUME NEW S \in SUBSET Rows, KnownInv,
           stored' = stored \cup S, dropped' = dropped, accepted' = accepted,
           Running' = Running, S \subseteq Known, Running => S \cap dropped = {},
           \A r \in Rows \ stored' : r \in Known' <=> r \in Known
    PROVE  Delivery!Store
<1> DEFINE M == S \ stored
<1>1. \A r \in Rows : StatusOf(r)' = IF r \in M THEN "stored" ELSE StatusOf(r)
  BY StatusIs, StatusIsNext
<1>2. [r \in Rows |-> StatusOf(r)]' = Delivery!Moved(M, "stored")
  BY <1>1, MovedTo
<1>3. M \subseteq Delivery!InStatus("pending")
               \cup (IF Running THEN {} ELSE Delivery!InStatus("dropped"))
  BY StatusIs DEF Delivery!InStatus
<1> QED BY <1>2, <1>3 DEF Delivery!Store

\* A step that changes no status.
LEMMA StutterStep ==
    ASSUME stored' = stored, dropped' = dropped, accepted' = accepted,
           Running' = Running,
           \A r \in Rows \ stored : r \in Known' <=> r \in Known
    PROVE  UNCHANGED Delivery!deliveryVars
<1>1. \A r \in Rows : StatusOf(r)' = StatusOf(r)
  BY StatusIs, StatusIsNext
<1> QED BY <1>1 DEF Delivery!deliveryVars

\* A step in which the process ends or comes up, and readings go.
LEMMA RestartStep ==
    ASSUME KnownInv, stored' = stored, dropped' = dropped, accepted' = accepted,
           ~(Running /\ Running'), Known' \subseteq Known
    PROVE  Delivery!Restart
<1> DEFINE M == {r \in Rows : r \in Known \ (Known' \cup stored \cup dropped)}
<1>1. \A r \in Rows : StatusOf(r)' = IF r \in M THEN "gone" ELSE StatusOf(r)
  BY StatusIs, StatusIsNext DEF KnownInv
<1>2. [r \in Rows |-> StatusOf(r)]' = Delivery!Moved(M, "gone")
  BY <1>1, MovedTo
<1>3. M \in SUBSET Delivery!InStatus("pending")
  BY StatusIs DEF Delivery!InStatus
<1>4. Running' \in BOOLEAN
  BY DEF Running
<1> QED BY <1>2, <1>3, <1>4 DEF Delivery!Restart

\* A flush that starts moves readings between places, and to the file.
LEMMA StartKnown ==
    ASSUME TypeOK, DurableInv, KnownInv, Running,
           NEW t \in Tables, NEW final \in BOOLEAN, StartFlight(t, final)
    PROVE  /\ KnownInv' /\ UNCHANGED Delivery!deliveryVars
<1>1. PICK g : g.batch = buf[t] /\ flights' = flights \cup {g}
  BY DEF StartFlight
<1>2. buf'[t] = {} /\ \A s \in Tables : s # t => buf'[s] = buf[s]
  BY DEF StartFlight, Spliced, TypeOK
<1>3. Memory' = Memory /\ buf[t] \subseteq Memory
  BY <1>1, <1>2 DEF Memory, Buffered, InFlight
<1>4. /\ RowsOn(disk)' \subseteq RowsOn(disk) \cup buf[t]
      /\ RowsOn(disk) \subseteq RowsOn(disk)'
  BY AppendWithin, AppendKeeps DEF StartFlight, TypeOK, DurableInv
<1>5. Known' = Known
  BY <1>3, <1>4 DEF Known
<1>6. /\ phase' = phase /\ stored' = stored /\ dropped' = dropped
      /\ accepted' = accepted
  BY DEF StartFlight, dbVars, arrivalVars
<1>7. Running' = Running
  BY <1>6 DEF Running
<1>8. KnownInv'
  BY <1>3, <1>5, <1>6, <1>7 DEF KnownInv
<1> QED BY <1>5, <1>6, <1>7, <1>8, StutterStep

\* A COPY that is answered, one way or the other, stores what it has copied.
LEMMA CopyKnown ==
    ASSUME TypeOK, HeldInv, KnownInv, NEW f \in flights,
           NEW chunk \in SUBSET f.rest, StoreRows(chunk),
           dropped' = dropped, accepted' = accepted, phase' = phase, disk' = disk,
           Memory' \subseteq Memory, Memory \subseteq Memory' \cup stored'
    PROVE  /\ KnownInv' /\ Delivery!Store
<1>1. chunk \in SUBSET Rows /\ chunk \subseteq Memory
  BY DEF TypeOK, Flight, HeldInv, HeldApart, Memory, InFlight
<1>2. stored' = stored \cup chunk
  BY DEF StoreRows
<1>3. Running /\ Running' = Running
  BY DEF KnownInv, Running
<1>4. RowsOn(disk)' = RowsOn(disk)
  BY DEF RowsOn, LinesOf
<1>5. /\ Known' \subseteq Known /\ Known \subseteq Known' \cup stored'
      /\ chunk \subseteq Known /\ chunk \cap dropped = {}
  BY <1>1, <1>4 DEF Known, KnownInv
<1>6. KnownInv'
  BY <1>1, <1>2, <1>3, <1>5 DEF KnownInv
<1>7. Delivery!Store
  BY <1>1, <1>2, <1>3, <1>5, StoreStep
<1> QED BY <1>6, <1>7

DeliveryInv == TypeOK /\ LossInv /\ DurableInv /\ HeldInv /\ KnownInv

\* Every step of the historian is one of RowDelivery, or none, and keeps KnownInv.
LEMMA DeliveryStep ==
    ASSUME DeliveryInv, [Next]_vars
    PROVE  KnownInv' /\ [Delivery!DeliveryNext]_(Delivery!deliveryVars)
<1> USE DEF DeliveryInv
<1>0. ASSUME UNCHANGED <<memoryVars, disk, stored, dropped, accepted>>, Running' = Running
      PROVE  KnownInv' /\ UNCHANGED Delivery!deliveryVars
  <2>1. Memory' = Memory /\ Known' = Known
    BY <1>0 DEF memoryVars, Memory, Buffered, InFlight, Known, RowsOn, LinesOf
  <2>2. KnownInv'
    BY <1>0, <2>1 DEF KnownInv, memoryVars
  <2> QED BY <1>0, <2>1, <2>2, StutterStep
<1>1. ASSUME NEW r \in Rows, NEW t \in Tables, PushRow(r, t)
      PROVE  KnownInv' /\ Delivery!Accept
  <2>1. /\ buf'[t] = buf[t] \cup {r} /\ \A s \in Tables : s # t => buf'[s] = buf[s]
        /\ accepted' = accepted \cup {r} /\ r \notin accepted
        /\ flights' = flights /\ stored' = stored /\ dropped' = dropped
        /\ phase' = phase /\ phase = "up" /\ disk' = disk
    BY <1>1 DEF PushRow, TypeOK, dbVars, diskVars
  <2>2. Memory' = Memory \cup {r} /\ Known' = Known \cup {r}
    BY <2>1 DEF Memory, Buffered, InFlight, Known, RowsOn, LinesOf
  <2>3. KnownInv'
    BY <2>1, <2>2 DEF KnownInv, Running
  <2>4. \A q \in Rows : StatusOf(q)' = IF q \in {r} THEN "pending" ELSE StatusOf(q)
    BY <2>1, <2>2, StatusIs, StatusIsNext DEF KnownInv
  <2>5. [q \in Rows |-> StatusOf(q)]' = Delivery!Moved({r}, "pending")
    BY <2>4, MovedTo
  <2>6. r \in Delivery!InStatus("new")
    BY <2>1, StatusIs DEF Delivery!InStatus, KnownInv
  <2>7. Running /\ Running' = Running
    BY <2>1 DEF Running
  <2>8. Delivery!Accept
    BY <2>5, <2>6, <2>7 DEF Delivery!Accept
  <2> QED BY <2>3, <2>8
<1>2. ASSUME NEW t \in Tables, TimerFlush(t)
      PROVE  KnownInv' /\ UNCHANGED Delivery!deliveryVars
  BY <1>2, StartKnown DEF TimerFlush
<1>3. ASSUME NEW f \in flights, CopyDone(f)
      PROVE  KnownInv' /\ Delivery!Store
  <2>1. PICK chunk \in Chunks(f) :
          /\ StoreRows(chunk)
          /\ flights' = (flights \ {f}) \cup
               (IF f.rest \ chunk = {} THEN {}
                                       ELSE {[f EXCEPT !.rest = f.rest \ chunk]})
    BY <1>3 DEF CopyDone
  <2>2. /\ buf' = buf /\ dropped' = dropped /\ accepted' = accepted
        /\ phase' = phase /\ disk' = disk
    BY <1>3 DEF CopyDone, arrivalVars, diskVars
  <2>3. f \in Flight /\ chunk \in SUBSET f.rest
    BY DEF Chunks, TypeOK
  <2>4. f.batch \ (f.rest \ chunk) \subseteq stored'
    BY <2>1 DEF LossInv, CopiedIsStored, StoreRows
  <2> DEFINE g == [f EXCEPT !.rest = f.rest \ chunk]
  <2>5. g.batch = f.batch
    BY <2>3 DEF Flight
  <2>6. flights' = (flights \ {f}) \cup (IF f.rest \ chunk = {} THEN {} ELSE {g})
    BY <2>1
  <2> HIDE DEF g
  <2>7. Memory' \subseteq Memory /\ Memory \subseteq Memory' \cup stored'
    BY <2>2, <2>4, <2>5, <2>6 DEF Memory, Buffered, InFlight
  <2> QED BY <2>1, <2>2, <2>3, <2>7, CopyKnown
<1>4. ASSUME NEW f \in flights, CopyFails(f)
      PROVE  KnownInv' /\ Delivery!Store
  <2>1. PICK kept \in SUBSET f.rest : StoreRows(kept)
    BY <1>4 DEF CopyFails, Chunks
  <2>2. /\ dropped' = dropped /\ accepted' = accepted
        /\ phase' = phase /\ disk' = disk
    BY <1>4 DEF CopyFails, arrivalVars, diskVars
  <2>3. f \in Flight
    BY DEF TypeOK
  <2>4. Memory' = Memory
    <3>1. CASE retryCount'[f.table] >= MaxRetries
      <4> DEFINE g == [f EXCEPT !.dead = TRUE]
      <4>1. g.batch = f.batch
        BY <2>3 DEF Flight
      <4>2. flights' = (flights \ {f}) \cup {g} /\ buf' = buf
        BY <1>4, <3>1 DEF CopyFails
      <4> HIDE DEF g
      <4> QED BY <4>1, <4>2 DEF Memory, Buffered, InFlight
    <3>2. CASE ~(retryCount'[f.table] >= MaxRetries)
      <4>1. flights' = flights \ {f} /\ buf' = PutBack(f)
        BY <1>4, <3>2 DEF CopyFails
      <4>2. /\ f.table \in Tables /\ buf'[f.table] = f.batch \cup buf[f.table]
            /\ \A s \in Tables : s # f.table => buf'[s] = buf[s]
        BY <2>3, <4>1 DEF PutBack, Flight, TypeOK
      <4> QED BY <4>1, <4>2 DEF Memory, Buffered, InFlight
    <3> QED BY <3>1, <3>2
  <2> QED BY <2>1, <2>2, <2>4, CopyKnown
<1>5. ASSUME NEW f \in flights, DeadLetter(f)
      PROVE  KnownInv' /\ Delivery!GiveUp
  <2>1. /\ flights' = flights \ {f} /\ buf' = buf /\ dropped' = dropped \cup f.batch
        /\ accepted' = accepted /\ stored' = stored /\ phase' = phase /\ disk' = disk
    BY <1>5 DEF DeadLetter, dbVars, arrivalVars, diskVars
  <2>2. f.batch \subseteq Rows /\ f.batch \subseteq Memory
    BY DEF TypeOK, Flight, Memory, InFlight
  <2>3. Memory' = Memory \ f.batch
    BY <2>1 DEF HeldInv, HeldApart, Memory, Buffered, InFlight
  <2>4. Known' \subseteq Known /\ Known \subseteq Known' \cup f.batch
    BY <2>1, <2>3 DEF Known, RowsOn, LinesOf
  <2>5. Running /\ Running' = Running
    BY <2>1 DEF KnownInv, Running
  <2>6. KnownInv'
    BY <2>1, <2>2, <2>3, <2>4, <2>5 DEF KnownInv, Known
  <2> DEFINE M == f.batch \ stored
  <2>7. M \subseteq Known \ (stored \cup dropped)
    BY <2>2 DEF KnownInv, Known
  <2>8. \A r \in Rows : StatusOf(r)' = IF r \in M THEN "dropped" ELSE StatusOf(r)
    BY <2>1, <2>4, <2>7, StatusIs, StatusIsNext
  <2>9. [r \in Rows |-> StatusOf(r)]' = Delivery!Moved(M, "dropped")
    BY <2>8, MovedTo
  <2>10. M \in SUBSET Delivery!InStatus("pending")
    BY <2>2, <2>7, StatusIs DEF Delivery!InStatus
  <2> QED BY <2>5, <2>6, <2>9, <2>10 DEF Delivery!GiveUp
<1>6. ASSUME Boot PROVE KnownInv' /\ UNCHANGED Delivery!deliveryVars
  BY <1>0, <1>6 DEF Boot, diskVars, dbVars, arrivalVars, Running
<1>7. ASSUME SkipLine PROVE KnownInv' /\ UNCHANGED Delivery!deliveryVars
  BY <1>0, <1>7 DEF SkipLine, diskVars, dbVars, arrivalVars, Running
<1>8. ASSUME ReplayLine PROVE KnownInv' /\ Delivery!Store
  <2> DEFINE line == disk[replayed + 1]
  <2>1. PICK kept \in SUBSET line.rows : StoreRows(kept)
    BY <1>8, Zenon DEF ReplayLine
  <2>2. /\ UNCHANGED <<memoryVars, disk, dropped, accepted>> /\ phase' = phase
        /\ phase = "replaying" /\ replayed < Len(disk)
    BY <1>8, Zenon DEF ReplayLine, diskVars, arrivalVars
  <2>3. replayed + 1 \in 1..Len(disk)
    BY <2>2, LenProperties DEF TypeOK
  <2>4. kept \subseteq RowsOn(disk)
    BY <2>3, OnLine
  <2>5. RowsOn(disk) \subseteq Rows
    <3>1. \A i \in 1..Len(disk) : disk[i] \in Line
      BY ElementOfSeq DEF TypeOK
    <3>2. \A i \in 1..Len(disk) : disk[i].rows \subseteq Rows
      BY <3>1 DEF Line
    <3> QED BY <3>2, OnLine
  <2>6. Memory' = Memory /\ Known' = Known
    BY <2>2 DEF memoryVars, Memory, Buffered, InFlight, Known, RowsOn, LinesOf
  <2>7. ~Running /\ Running' = Running /\ stored' = stored \cup kept
    BY <2>1, <2>2 DEF Running, StoreRows
  <2> HIDE DEF line
  <2>8. KnownInv'
    BY <2>2, <2>4, <2>6, <2>7 DEF KnownInv, Known, memoryVars
  <2>9. Delivery!Store
    BY <2>2, <2>4, <2>5, <2>6, <2>7, StoreStep DEF Known
  <2> QED BY <2>8, <2>9
<1>9. ASSUME UNCHANGED <<stored, dropped, accepted>>, ~(Running /\ Running'),
             Memory' \subseteq Memory, RowsOn(disk)' \subseteq RowsOn(disk),
             ~Running' => flights' = {}
      PROVE  KnownInv' /\ Delivery!Restart
  <2>1. Known' \subseteq Known
    BY <1>9 DEF Known
  <2>2. KnownInv'
    BY <1>9, <2>1 DEF KnownInv
  <2> QED BY <1>9, <2>1, <2>2, RestartStep
<1>10. ASSUME Ready PROVE KnownInv' /\ Delivery!Restart
  <2>1. /\ UNCHANGED <<memoryVars, stored, dropped, accepted>>
        /\ phase = "replaying" /\ phase' = "up"
        /\ disk' \in {disk, Trimmed(flushed)}
    BY <1>10 DEF Ready, dbVars, arrivalVars
  <2>2. Memory' = Memory
    BY <2>1 DEF memoryVars, Memory, Buffered, InFlight
  <2>3. RowsOn(disk') \subseteq RowsOn(disk)
    BY <2>1, TrimmedWithin DEF TypeOK
  <2>4. RowsOn(disk)' = RowsOn(disk')
    BY DEF RowsOn, LinesOf
  <2>5. ~Running /\ Running'
    BY <2>1 DEF Running
  <2> QED BY <1>9, <2>1, <2>2, <2>3, <2>4, <2>5
<1>11. ASSUME Shutdown PROVE KnownInv' /\ UNCHANGED Delivery!deliveryVars
  BY <1>0, <1>11 DEF Shutdown, diskVars, dbVars, arrivalVars, Running
<1>12. ASSUME NEW t \in Tables, FlushAtShutdown(t)
       PROVE  KnownInv' /\ UNCHANGED Delivery!deliveryVars
  <2>1. Running
    BY <1>12 DEF FlushAtShutdown, Running
  <2>2. CASE StartFlight(t, TRUE)
    BY <2>1, <2>2, StartKnown
  <2>3. CASE ~StartFlight(t, TRUE)
    BY <1>0, <1>12, <2>3 DEF FlushAtShutdown, diskVars, dbVars, arrivalVars, Running
  <2> QED BY <2>2, <2>3
<1>13. ASSUME Exit \/ Crash \/ CrashInTrim PROVE KnownInv' /\ Delivery!Restart
  <2>1. /\ UNCHANGED <<stored, dropped, accepted>> /\ phase' = "down"
        /\ buf' = [t \in Tables |-> {}] /\ flights' = {}
        /\ disk' = disk \/ disk' = <<>>
    BY <1>13 DEF Exit, Crash, CrashInTrim, Down, dbVars
  <2>2. Memory' = {}
    BY <2>1 DEF Memory, Buffered, InFlight
  <2>3. RowsOn(disk)' \subseteq RowsOn(disk)
    <3>1. RowsOn(<<>>) = {}
      BY EmptySeq DEF RowsOn, LinesOf
    <3>2. RowsOn(disk)' = RowsOn(disk')
      BY DEF RowsOn, LinesOf
    <3> QED BY <2>1, <3>1, <3>2
  <2> QED BY <1>9, <2>1, <2>2, <2>3 DEF Running
<1>14. CASE UNCHANGED vars
  BY <1>0, <1>14 DEF vars, memoryVars, Running
<1> QED
  BY <1>1, <1>2, <1>3, <1>4, <1>5, <1>6, <1>7, <1>8, <1>10, <1>11, <1>12, <1>13, <1>14
     DEF Next, Delivery!DeliveryNext

\* The flush engine, its file and its restarts implement the abstract delivery: a
\* reading accepted is pending until it is stored or given up on record, can go only
\* while the process goes down or comes up, and what is stored stays stored.
THEOREM DeliveryImplemented == Spec => ImplementsDelivery
<1>1. Init => KnownInv /\ Delivery!DeliveryInit
  <2> SUFFICES ASSUME Init PROVE KnownInv /\ Delivery!DeliveryInit
    OBVIOUS
  <2>1. Known = {} /\ Memory = {}
    BY EmptySeq DEF Init, Known, Memory, Buffered, InFlight, RowsOn, LinesOf
  <2>2. KnownInv
    BY <2>1 DEF Init, KnownInv
  <2>3. \A r \in Rows : StatusOf(r) = "new"
    BY <2>1, StatusIs DEF Init
  <2>4. Delivery!DeliveryInit
    BY <2>3 DEF Delivery!DeliveryInit, Init, Running
  <2> QED BY <2>2, <2>4
<1>2. DeliveryInv /\ [Next]_vars
        => KnownInv' /\ [Delivery!DeliveryNext]_(Delivery!deliveryVars)
  BY DeliveryStep
<1> QED
  BY <1>1, <1>2, TypeCorrect, LossInvariant, DurableInvariant, HeldInvariant, PTL
     DEF DeliveryInv, Spec, ImplementsDelivery, Delivery!DeliverySpec
===============================================================================
