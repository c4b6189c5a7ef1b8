------------------------------ MODULE ColdStore ------------------------------
(***************************************************************************)
(* The writer behind the hot loop (signals/storage/coldstore.py): records  *)
(* go through a bounded queue into per-table buffers, and a worker thread  *)
(* inserts a swapped-out buffer, table by table.  The producer is the hot  *)
(* loop of stocks_live.py (blocking put) or the tap of pipeline.py (put or *)
(* drop); the owner stops the writer by cancelling its task.               *)
(*                                                                         *)
(* One action is one stretch of ColdStore.run between two awaits; the      *)
(* thread of asyncio.to_thread runs beside it and outlives a cancellation. *)
(***************************************************************************)
EXTENDS Loops, SequencesExt

CONSTANTS
    Tables,     \* the tables of the store
    MaxBatch,   \* max_batch
    QueueCap,   \* maxsize of the queue
    Blocking,   \* the producer waits for room instead of dropping
    MaxRecords  \* bound: records produced in a behaviour

ASSUME StoreAssumption ==
    /\ IsFiniteSet(Tables)
    /\ MaxBatch \in Nat \ {0} /\ QueueCap \in Nat \ {0}
    /\ Blocking \in BOOLEAN /\ MaxRecords \in Nat

VARIABLES
    queue,        \* the asyncio queue
    buffer,       \* ColdStore._buffers
    batch,        \* the swapped-out buffers a flush awaits
    orphan,       \* the same, when the flush awaiting them was cancelled
    db,           \* the rows of each table
    rows_written, \* ColdStore.rows_written
    batchRows,    \* rows in the batch when it was swapped out
    tap_dropped,  \* Pipeline.tap_dropped
    pc,           \* where ColdStore.run is
    drained,      \* whether the last pass drained anything
    due,          \* the flush deadline has passed
    owner,        \* where the owner of the writer is
    given,        \* observer: records accepted per table
    produced,     \* bound: records produced
    failed        \* observer: an insert raised

data == <<queue, buffer, batch, orphan, db, rows_written, batchRows>>
vars == <<data, tap_dropped, pc, drained, due, owner, given, produced, failed>>
-----------------------------------------------------------------------------
Records == [id : 1..MaxRecords, table : Tables]
Pcs == {"drain", "wait", "flush", "finally", "final", "gone"}
Owners == {"running", "stopping", "flushed", "closed"}

Empty == [t \in Tables |-> <<>>]
Smaller(a, b) == IF a < b THEN a ELSE b
Only(t, records) == Filter(records, {r \in Records : r.table = t})
RowCount(tables) == SumFunction([t \in Tables |-> Len(tables[t])])
Join(front, back) == [t \in Tables |-> front[t] \o back[t]]

Init ==
    /\ queue = <<>> /\ buffer = Empty /\ batch = Empty /\ orphan = Empty
    /\ db = Empty /\ rows_written = 0 /\ batchRows = 0 /\ tap_dropped = 0
    /\ pc = "drain" /\ drained = FALSE /\ due = FALSE
    /\ owner = "running"
    /\ given = Empty /\ produced = 0 /\ failed = FALSE
-----------------------------------------------------------------------------
(* The producer.                                                           *)

\* Fault: one more than the queue holds.
RoomForOneMore == Len(queue) <= QueueCap

Room == Len(queue) < QueueCap

Put(r) ==
    /\ Room
    /\ queue' = Append(queue, r)
    /\ given' = [given EXCEPT ![r.table] = Append(@, r)]
    /\ UNCHANGED tap_dropped

\* put_nowait on a full queue.
Drop ==
    /\ ~Blocking /\ ~Room
    /\ tap_dropped' = tap_dropped + 1
    /\ UNCHANGED <<queue, given>>

Produce(t) ==
    /\ owner = "running"
    /\ produced < MaxRecords
    /\ produced' = produced + 1
    /\ Put([id |-> produced + 1, table |-> t]) \/ Drop
    /\ UNCHANGED <<buffer, batch, orphan, db, rows_written, batchRows>>
    /\ UNCHANGED <<pc, drained, due, owner, failed>>
-----------------------------------------------------------------------------
(* run: the loop.                                                          *)

\* Fault: what was drained first is flushed last.
BufferedInFront(records) == [t \in Tables |-> Only(t, records) \o buffer[t]]

Buffered(records) == [t \in Tables |-> buffer[t] \o Only(t, records)]

\* One greedy pass: nothing is awaited until at most MaxBatch records have
\* moved.  Whether to flush is decided on what THIS pass drained.
Pass == Smaller(MaxBatch, Len(queue))

\* flush swaps the buffers before it hands them to the thread.
SwapOut(rows, next) ==
    /\ batch' = rows
    /\ batchRows' = RowCount(rows)
    /\ buffer' = Empty
    /\ pc' = next

\* Fault: the deadline does not count.
FlushWantedWhenFull(n) == n = MaxBatch

FlushWanted(n) == n = MaxBatch \/ due

AfterPass(any) == IF any THEN "drain" ELSE "wait"

DrainPass ==
    /\ pc = "drain"
    /\ LET rows == Buffered(SubSeq(queue, 1, Pass))
           flush == FlushWanted(Pass)
       IN  /\ IF flush /\ rows # Empty
              THEN SwapOut(rows, "flush") /\ UNCHANGED due
              ELSE /\ buffer' = rows
                   /\ pc' = AfterPass(Pass > 0)
                   /\ due' = (due /\ ~flush)
                   /\ UNCHANGED <<batch, batchRows>>
    /\ queue' = SubSeq(queue, Pass + 1, Len(queue))
    /\ drained' = (Pass > 0)
    /\ UNCHANGED <<orphan, db, rows_written, tap_dropped, owner, given, produced, failed>>

\* wait_for(queue.get(), timeout): a record, or the deadline.
Gets ==
    /\ pc = "wait"
    /\ \/ /\ queue # <<>>
          /\ buffer' = Buffered(<<Head(queue)>>)
          /\ queue' = Tail(queue)
       \/ /\ due
          /\ UNCHANGED <<buffer, queue>>
    /\ pc' = "drain"
    /\ UNCHANGED <<batch, orphan, db, rows_written, batchRows, tap_dropped>>
    /\ UNCHANGED <<drained, due, owner, given, produced, failed>>

DeadlinePasses ==
    /\ pc \in {"drain", "wait"} /\ ~due
    /\ due' = TRUE
    /\ UNCHANGED <<data, tap_dropped, pc, drained, owner, given, produced, failed>>

\* Fault: the batch is inserted and kept.
InsertTableKeeping(t) ==
    /\ batch[t] # <<>>
    /\ db' = [db EXCEPT ![t] = @ \o batch[t]]
    /\ batch' = [batch EXCEPT ![t] = Tail(@)]
    /\ UNCHANGED orphan

\* _flush_sync, in its thread: one table.
InsertTable(t) ==
    /\ batch[t] # <<>>
    /\ db' = [db EXCEPT ![t] = @ \o batch[t]]
    /\ batch' = [batch EXCEPT ![t] = <<>>]
    /\ UNCHANGED orphan

\* The thread of a cancelled flush; it works until the connection is closed.
InsertOrphan(t) ==
    /\ owner # "closed" /\ orphan[t] # <<>>
    /\ db' = [db EXCEPT ![t] = @ \o orphan[t]]
    /\ orphan' = [orphan EXCEPT ![t] = <<>>]
    /\ UNCHANGED batch

ThreadStep ==
    /\ \E t \in Tables : InsertTable(t) \/ InsertOrphan(t)
    /\ UNCHANGED <<queue, buffer, rows_written, batchRows>>
    /\ UNCHANGED <<tap_dropped, pc, drained, due, owner, given, produced, failed>>

\* Fault: the count is forgotten on the way back to the loop.
CountedNever(n) == rows_written

Counted(n) == rows_written + n

FlushReturns ==
    /\ pc \in {"flush", "final"} /\ batch = Empty
    /\ rows_written' = Counted(batchRows)
    /\ due' = FALSE
    /\ pc' = IF pc = "flush" THEN AfterPass(drained) ELSE "gone"
    /\ UNCHANGED <<queue, buffer, batch, orphan, db, batchRows>>
    /\ UNCHANGED <<tap_dropped, drained, owner, given, produced, failed>>

\* An INSERT raises: the rest of the batch is lost, and the exception ends
\* the writer by way of its finally clause.
InsertRaises ==
    /\ pc \in {"flush", "final"} /\ batch # Empty
    /\ failed' = TRUE
    /\ batch' = Empty
    /\ pc' = IF pc = "flush" THEN "finally" ELSE "gone"
    /\ UNCHANGED <<queue, buffer, orphan, db, rows_written, batchRows>>
    /\ UNCHANGED <<tap_dropped, drained, due, owner, given, produced>>

FinalFlush ==
    /\ pc = "finally"
    /\ IF buffer = Empty
       THEN pc' = "gone" /\ UNCHANGED <<batch, batchRows, buffer>>
       ELSE SwapOut(buffer, "final")

Finally ==
    /\ FinalFlush
    /\ UNCHANGED <<queue, orphan, db, rows_written>>
    /\ UNCHANGED <<tap_dropped, drained, due, owner, given, produced, failed>>

WriterStep == DrainPass \/ Gets \/ FlushReturns \/ Finally
-----------------------------------------------------------------------------
(* The owner stops producing, cancels the writer, flushes and closes.      *)

Cancel ==
    /\ owner = "running"
    /\ owner' = "stopping"
    /\ pc' = IF pc \in {"drain", "wait", "flush"} THEN "finally" ELSE pc
    /\ IF pc = "flush"
       THEN orphan' = batch /\ batch' = Empty
       ELSE UNCHANGED <<orphan, batch>>
    /\ UNCHANGED <<queue, buffer, db, rows_written, batchRows>>
    /\ UNCHANGED <<tap_dropped, drained, due, given, produced, failed>>

\* gather returned; store.flush finds whatever is buffered.
OwnerFlush ==
    /\ owner = "stopping" /\ pc = "gone"
    /\ owner' = "flushed"
    /\ db' = Join(db, buffer)
    /\ rows_written' = rows_written + RowCount(buffer)
    /\ buffer' = Empty
    /\ UNCHANGED <<queue, batch, orphan, batchRows>>
    /\ UNCHANGED <<tap_dropped, pc, drained, due, given, produced, failed>>

Close ==
    /\ owner = "flushed"
    /\ owner' = "closed"
    /\ UNCHANGED <<data, tap_dropped, pc, drained, due, given, produced, failed>>

OwnerStep == OwnerFlush \/ Close

Next ==
    \/ \E t \in Tables : Produce(t)
    \/ WriterStep \/ DeadlinePasses \/ ThreadStep \/ InsertRaises
    \/ Cancel \/ OwnerStep

Spec == Init /\ [][Next]_vars

\* The event loop runs what is ready, the thread works, and time passes.
Fairness ==
    WF_vars(WriterStep) /\ WF_vars(ThreadStep) /\ WF_vars(DeadlinePasses) /\ WF_vars(OwnerStep)

FairSpec == Spec /\ Fairness
-----------------------------------------------------------------------------
(* Properties.                                                             *)

TypeOK ==
    /\ queue \in Seq(Records) /\ Len(queue) <= QueueCap
    /\ \A rows \in {buffer, batch, orphan, db, given} : rows \in [Tables -> Seq(Records)]
    /\ rows_written \in Nat /\ batchRows \in Nat /\ tap_dropped \in Nat
    /\ pc \in Pcs /\ owner \in Owners
    /\ drained \in BOOLEAN /\ due \in BOOLEAN /\ failed \in BOOLEAN
    /\ produced \in 0..MaxRecords

\* As long as no insert raised, every accepted record of a table is in one
\* place only, and the places, put one after the other from the table back to
\* the queue, read as the records came: nothing is lost, doubled or overtaken,
\* even when a cancellation leaves a thread inserting beside the last flush.
Conserved ==
    ~failed => \A t \in Tables :
        given[t] = db[t] \o orphan[t] \o batch[t] \o buffer[t] \o Only(t, queue)

\* Back in its loop, the writer has counted exactly the rows in the tables.
RowsWrittenExact ==
    pc \in {"drain", "wait"} => rows_written = RowCount(db)

\* The store is an append log, whatever fails and whenever it is cancelled.
Log == INSTANCE AppendLog WITH stored <- db
ImplementsLog == Log!Spec

\* What was accepted reaches the tables, record by record, unless the writer
\* was stopped: bounded passes, deadlines and flushes starve no table.
EventuallyStored ==
    \A t \in Tables : \A k \in 1..MaxRecords :
        Len(given[t]) >= k ~> (Len(db[t]) >= k \/ pc \in {"finally", "final", "gone"})
=============================================================================
