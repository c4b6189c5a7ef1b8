-------------------------- MODULE ColdStoreProofs --------------------------
(***************************************************************************)
(* The cold store keeps every accepted record in one place and in order,   *)
(* counts what it wrote, and implements an append log, for any tables, any *)
(* batch and queue size, any producer, wherever it is cancelled and        *)
(* whichever insert raises.                                                *)
(***************************************************************************)
EXTENDS ColdStore, DataLemmas

Rows == [Tables -> Seq(Records)]

\* A batch is out only while a flush awaits it, and meanwhile nothing is
\* buffered: the loop is the only one to fill the buffers, and it waits.
BatchAwaited == pc \notin {"flush", "final"} => batch = Empty
BuffersSwapped == pc \in {"flush", "final"} => buffer = Empty

\* The batch of a cancelled flush is the last one.
OrphanIsLast ==
    orphan # Empty =>
        pc \in {"finally", "gone"} /\ owner # "running" /\ batch = Empty /\ buffer = Empty

\* What a flush will have written when it returns.
BatchCounted == pc = "flush" => rows_written + batchRows = RowCount(db) + RowCount(batch)

\* After an insert that raised nothing more is written, and what was written
\* is what was accepted first.
FailedIsOver ==
    failed => /\ pc \in {"finally", "gone"}
              /\ batch = Empty /\ buffer = Empty /\ orphan = Empty
              /\ \A t \in Tables : IsPrefix(db[t], given[t])

StoreInv ==
    /\ TypeOK /\ Conserved /\ RowsWrittenExact
    /\ BatchAwaited /\ BuffersSwapped /\ OrphanIsLast /\ BatchCounted /\ FailedIsOver
-----------------------------------------------------------------------------
(* Rows of tables.                                                         *)

LEMMA Typed ==
    ASSUME TypeOK
    PROVE  /\ queue \in Seq(Records)
           /\ buffer \in Rows /\ batch \in Rows /\ orphan \in Rows /\ db \in Rows /\ given \in Rows
           /\ rows_written \in Nat /\ batchRows \in Nat
  BY DEF TypeOK, Rows

LEMMA EmptyRows == Empty \in Rows /\ \A t \in Tables : Empty[t] = <<>>
<1>1. <<>> \in Seq(Records)
  BY EmptySeq
<1> QED
  BY <1>1 DEF Empty, Rows

LEMMA RowCountNatural ==
    ASSUME NEW rows \in Rows
    PROVE  RowCount(rows) \in Nat
<1>1. [t \in Tables |-> Len(rows[t])] \in [Tables -> Nat]
  BY LenProperties DEF Rows
<1> QED
  BY <1>1, SumNatural, StoreAssumption DEF RowCount

LEMMA RowCountEmpty == RowCount(Empty) = 0
<1> DEFINE f == [t \in Tables |-> Len(Empty[t])]
<1>1. \A t \in Tables : Len(Empty[t]) = 0
  BY EmptyRows, EmptySeq
<1>2. f \in [Tables -> Nat] /\ \A t \in Tables : f[t] = 0
  BY <1>1
<1> HIDE DEF f
<1>3. SumFunction(f) = 0
  BY <1>2, SumOfZeroes, StoreAssumption
<1> QED
  BY <1>3 DEF RowCount, f

LEMMA RowCountChange ==
    ASSUME NEW rows \in Rows, NEW others \in Rows, NEW t \in Tables,
           \A u \in Tables : u # t => others[u] = rows[u]
    PROVE  RowCount(others) + Len(rows[t]) = RowCount(rows) + Len(others[t])
<1> DEFINE f == [u \in Tables |-> Len(rows[u])]
           h == [u \in Tables |-> Len(others[u])]
<1>1. f \in [Tables -> Nat] /\ h \in [Tables -> Nat]
  BY LenProperties DEF Rows
<1>2. \A u \in Tables : u # t => h[u] = f[u]
  OBVIOUS
<1>3. f[t] = Len(rows[t]) /\ h[t] = Len(others[t])
  OBVIOUS
<1>4. RowCount(rows) = SumFunction(f) /\ RowCount(others) = SumFunction(h)
  BY DEF RowCount
<1> HIDE DEF f, h
<1>5. SumFunction(h) + f[t] = SumFunction(f) + h[t]
  BY <1>1, <1>2, SumChange, StoreAssumption
<1> QED
  BY <1>3, <1>4, <1>5
-----------------------------------------------------------------------------
(* The places of a table, one after the other.                             *)

Line(a, b, c, d, e) == a \o b \o c \o d \o e

\* Records move from the queue to the buffer, from there to a batch, from a
\* batch to an orphan, and from an orphan to the table, without moving along
\* the line.
Buffers(a, b, c, d, p, q) == Line(a, b, c, d, p \o q) = Line(a, b, c, d \o p, q)
Swaps(a, b, d, q) == Line(a, b, <<>>, d, q) = Line(a, b, d, <<>>, q)
Orphans(a, c, d, q) == Line(a, <<>>, c, d, q) = Line(a, c, <<>>, d, q)
Inserts(a, b, c, d, q) == Line(a, b, c, d, q) = Line(a \o b, <<>>, c, d, q)

LEMMA LineMoves ==
    ASSUME NEW a \in Seq(Records), NEW b \in Seq(Records), NEW c \in Seq(Records),
           NEW d \in Seq(Records), NEW p \in Seq(Records), NEW q \in Seq(Records)
    PROVE  Buffers(a, b, c, d, p, q)
<1>2. a \o b \o c \in Seq(Records) /\ a \o b \o c \o d \in Seq(Records)
  BY ConcatType
<1>3. Assoc(a \o b \o c \o d, p, q) /\ Assoc(a \o b \o c, d, p)
  BY <1>2, AssocHolds
<1> QED
  BY <1>3 DEF Assoc, Line, Buffers

LEMMA LineSwaps ==
    ASSUME NEW a \in Seq(Records), NEW b \in Seq(Records), NEW d \in Seq(Records),
           NEW q \in Seq(Records)
    PROVE  Swaps(a, b, d, q) /\ Orphans(a, b, d, q)
<1>2. a \o b \in Seq(Records) /\ a \o b \o d \in Seq(Records)
  BY ConcatType
<1>4. (a \o b) \o <<>> = a \o b /\ (a \o b \o d) \o <<>> = a \o b \o d /\ a \o <<>> = a
  BY <1>2, ConcatEmptySeq
<1> QED
  BY <1>4 DEF Line, Swaps, Orphans

LEMMA LineInserts ==
    ASSUME NEW a \in Seq(Records), NEW b \in Seq(Records), NEW c \in Seq(Records),
           NEW d \in Seq(Records), NEW q \in Seq(Records)
    PROVE  Inserts(a, b, c, d, q)
<1>2. a \o b \in Seq(Records)
  BY ConcatType
<1>4. (a \o b) \o <<>> = a \o b
  BY <1>2, ConcatEmptySeq
<1> QED
  BY <1>4 DEF Line, Inserts

\* What joins the end of the queue joins the end of the line.
Joins(a, b, c, d, q, r) == Line(a, b, c, d, Append(q, r)) = Append(Line(a, b, c, d, q), r)

LEMMA LineAppend ==
    ASSUME NEW a \in Seq(Records), NEW b \in Seq(Records), NEW c \in Seq(Records),
           NEW d \in Seq(Records), NEW q \in Seq(Records), NEW r \in Records
    PROVE  Joins(a, b, c, d, q, r)
<1>1. a \o b \o c \o d \in Seq(Records)
  BY ConcatType
<1> QED
  BY <1>1, AppendToConcat DEF Joins, Line

LEMMA LinePrefix ==
    ASSUME NEW a \in Seq(Records), NEW b \in Seq(Records), NEW c \in Seq(Records),
           NEW d \in Seq(Records), NEW q \in Seq(Records)
    PROVE  IsPrefix(a, Line(a, b, c, d, q))
<1>1. /\ d \o q \in Seq(Records) /\ c \o (d \o q) \in Seq(Records)
      /\ b \o (c \o (d \o q)) \in Seq(Records)
      /\ a \o b \in Seq(Records) /\ a \o b \o c \in Seq(Records)
  BY ConcatType
<1>2. /\ Assoc(a \o b \o c, d, q) /\ Assoc(a \o b, c, d \o q)
      /\ Assoc(a, b, c \o (d \o q))
  BY <1>1, AssocHolds
<1>3. Line(a, b, c, d, q) = a \o (b \o (c \o (d \o q)))
  BY <1>2 DEF Assoc, Line
<1> QED
  BY <1>1, <1>3, PrefixOfConcat

-----------------------------------------------------------------------------
(* What is in the queue for a table.                                       *)

LEMMA OnlyLaws ==
    ASSUME NEW t
    PROVE  /\ Only(t, <<>>) = <<>>
           /\ \A s \in Seq(Records) : Only(t, s) \in Seq(Records)
           /\ \A s \in Seq(Records), r \in Records :
                Only(t, Append(s, r)) = IF r.table = t THEN Append(Only(t, s), r) ELSE Only(t, s)
           /\ \A a, b \in Seq(Records) : Only(t, a \o b) = Only(t, a) \o Only(t, b)
  BY FilterEmpty, FilterType, FilterAppend, FilterConcat DEF Only

-----------------------------------------------------------------------------
(* Where the records of a table are.                                       *)

Places(t) == Line(db[t], orphan[t], batch[t], buffer[t], Only(t, queue))

LEMMA PlacesTyped ==
    ASSUME TypeOK, NEW t \in Tables
    PROVE  /\ db[t] \in Seq(Records) /\ orphan[t] \in Seq(Records) /\ batch[t] \in Seq(Records)
           /\ buffer[t] \in Seq(Records) /\ given[t] \in Seq(Records)
           /\ Only(t, queue) \in Seq(Records)
<1>1. /\ queue \in Seq(Records) /\ buffer \in Rows /\ batch \in Rows /\ orphan \in Rows
      /\ db \in Rows /\ given \in Rows
  BY Typed
<1>2. Only(t, queue) \in Seq(Records)
  BY <1>1, OnlyLaws
<1> QED
  BY <1>1, <1>2 DEF Rows

\* A step that accepts nothing conserves the records when it moves them
\* along none of the lines.
LEMMA ConservedStep ==
    ASSUME Conserved, given' = given, failed' = failed,
           ~failed => \A t \in Tables : Places(t)' = Places(t)
    PROVE  Conserved'
  BY DEF Conserved, Places, Line

\* What is in a table is what it was given first.
LEMMA GivenPrefix ==
    ASSUME StoreInv, NEW t \in Tables
    PROVE  IsPrefix(db[t], given[t])
<1>1. CASE failed
  BY <1>1 DEF StoreInv, FailedIsOver
<1>2. CASE ~failed
  <2>1. given[t] = Places(t)
    BY <1>2 DEF StoreInv, Conserved, Places, Line
  <2>2. IsPrefix(db[t], Places(t))
    BY PlacesTyped, LinePrefix DEF StoreInv, Places
  <2> QED
    BY <2>1, <2>2
<1> QED
  BY <1>1, <1>2

\* A loop that goes on has no batch out and has not failed.
LEMMA Looping ==
    ASSUME StoreInv, pc \in {"drain", "wait"}
    PROVE  ~failed /\ batch = Empty /\ orphan = Empty
  BY DEF StoreInv, FailedIsOver, BatchAwaited, OrphanIsLast
-----------------------------------------------------------------------------
(* The invariant holds at the start and across every action.               *)

LEMMA StoreInit == Init => StoreInv
<1> SUFFICES ASSUME Init PROVE StoreInv
  OBVIOUS
<1>1. /\ queue = <<>> /\ buffer = Empty /\ batch = Empty /\ orphan = Empty /\ db = Empty /\ given = Empty
      /\ rows_written = 0 /\ batchRows = 0 /\ pc = "drain" /\ owner = "running" /\ failed = FALSE
  BY DEF Init
<1>2. TypeOK
  <2>1. Empty \in [Tables -> Seq(Records)] /\ <<>> \in Seq(Records) /\ Len(<<>>) = 0
    BY EmptyRows, EmptySeq DEF Rows
  <2>2. queue \in Seq(Records) /\ Len(queue) <= QueueCap
    BY <1>1, <2>1, StoreAssumption
  <2>3. \A rows \in {buffer, batch, orphan, db, given} : rows \in [Tables -> Seq(Records)]
    BY <1>1, <2>1
  <2>4. /\ rows_written \in Nat /\ batchRows \in Nat /\ tap_dropped \in Nat
        /\ pc \in Pcs /\ owner \in Owners /\ produced \in 0..MaxRecords
    BY StoreAssumption DEF Init, Pcs, Owners
  <2>5. drained \in BOOLEAN /\ due \in BOOLEAN /\ failed \in BOOLEAN
    BY Zenon DEF Init
  <2> QED
    BY <2>2, <2>3, <2>4, <2>5 DEF TypeOK
<1>3. Conserved
  <2>1. \A t \in Tables : Empty[t] = <<>> /\ Only(t, <<>>) = <<>>
    BY EmptyRows, OnlyLaws
  <2>2. <<>> \o <<>> = <<>>
    BY EmptySeq, ConcatEmptySeq
  <2> QED
    BY <1>1, <2>1, <2>2 DEF Conserved
<1>4. RowsWrittenExact
  BY <1>1, RowCountEmpty DEF RowsWrittenExact
<1> QED
  BY <1>1, <1>2, <1>3, <1>4
     DEF StoreInv, BatchAwaited, BuffersSwapped, OrphanIsLast, BatchCounted, FailedIsOver

LEMMA ProduceInv ==
    ASSUME StoreInv, NEW t \in Tables, Produce(t)
    PROVE  StoreInv'
<1>0. /\ UNCHANGED <<buffer, batch, orphan, db, rows_written, batchRows, pc, drained, due, owner, failed>>
      /\ produced' = produced + 1 /\ produced < MaxRecords /\ owner = "running"
  BY DEF Produce
<1>1. /\ produced \in 0..MaxRecords /\ produced' \in 0..MaxRecords
      /\ [id |-> produced + 1, table |-> t] \in Records
  BY <1>0, StoreAssumption DEF StoreInv, TypeOK, Records
<1>4. PICK r \in Records : r = [id |-> produced + 1, table |-> t]
  BY <1>1
<1>5. r.table = t
  BY <1>4
<1>2. CASE Put(r)
  <2>1. /\ queue' = Append(queue, r) /\ Len(queue) < QueueCap
        /\ given' = [given EXCEPT ![t] = Append(given[t], r)] /\ tap_dropped' = tap_dropped
    BY <1>5, <1>2 DEF Put, Room
  <2>2. /\ queue \in Seq(Records) /\ buffer \in Rows /\ batch \in Rows /\ orphan \in Rows
        /\ db \in Rows /\ given \in Rows
    BY Typed DEF StoreInv
  <2>3. TypeOK'
    <3>1. queue' \in Seq(Records) /\ Len(queue') <= QueueCap
      <4>1. Len(queue') = Len(queue) + 1 /\ queue' \in Seq(Records) /\ Len(queue) \in Nat
        BY <1>1, <2>1, <2>2, AppendProperties, LenProperties
      <4> QED
        BY <2>1, <4>1, StoreAssumption
    <3>2. given' \in [Tables -> Seq(Records)]
      BY <1>1, <2>1, <2>2, AppendProperties DEF Rows
    <3> QED
      BY <1>0, <1>1, <2>1, <3>1, <3>2 DEF StoreInv, TypeOK
  <2>4. Conserved'
    <3> SUFFICES ASSUME ~failed, NEW u \in Tables
                 PROVE  given'[u] = Line(db[u], orphan[u], batch[u], buffer[u], Only(u, queue'))
      BY <1>0 DEF Conserved, Line
    <3>1. given[u] = Line(db[u], orphan[u], batch[u], buffer[u], Only(u, queue))
      BY DEF StoreInv, Conserved, Line
    <3>2. Only(u, queue') = IF u = t THEN Append(Only(u, queue), r) ELSE Only(u, queue)
      BY <1>5, <2>1, <2>2, OnlyLaws
    <3>3. /\ db[u] \in Seq(Records) /\ orphan[u] \in Seq(Records) /\ batch[u] \in Seq(Records)
          /\ buffer[u] \in Seq(Records) /\ Only(u, queue) \in Seq(Records)
      BY <2>2, OnlyLaws DEF Rows
    <3>4. Joins(db[u], orphan[u], batch[u], buffer[u], Only(u, queue), r)
      BY <3>3, LineAppend
    <3>5. given'[u] = IF u = t THEN Append(given[u], r) ELSE given[u]
      BY <2>1, <2>2 DEF Rows
    <3> QED
      BY <3>1, <3>2, <3>4, <3>5 DEF Joins
  <2>5. FailedIsOver'
    <3> SUFFICES ASSUME failed, NEW u \in Tables
                 PROVE  IsPrefix(db[u], given'[u])
      BY <1>0 DEF StoreInv, FailedIsOver
    <3>1. IsPrefix(db[u], given[u]) /\ db[u] \in Seq(Records) /\ given[u] \in Seq(Records)
      BY <2>2 DEF StoreInv, FailedIsOver, Rows
    <3>2. given'[u] = IF u = t THEN Append(given[u], r) ELSE given[u]
      BY <2>1, <2>2 DEF Rows
    <3>3. IsPrefix(db[u], Append(given[u], r))
      BY <1>1, <3>1, PrefixOfAppend
    <3> QED
      BY <3>1, <3>2, <3>3
  <2> QED
    BY <1>0, <2>3, <2>4, <2>5
       DEF StoreInv, RowsWrittenExact, BatchAwaited, BuffersSwapped, OrphanIsLast, BatchCounted, FailedIsOver
<1>3. CASE Drop
  <2>1. UNCHANGED <<queue, given>> /\ tap_dropped' = tap_dropped + 1
    BY <1>3 DEF Drop
  <2>2. TypeOK'
    BY <1>0, <1>1, <2>1 DEF StoreInv, TypeOK
  <2> QED
    BY <1>0, <2>1, <2>2
       DEF StoreInv, Conserved, RowsWrittenExact, BatchAwaited, BuffersSwapped, OrphanIsLast,
           BatchCounted, FailedIsOver
<1> QED
  BY <1>2, <1>3, <1>4 DEF Produce

\* Records out of the queue and into the buffers, the rest of the queue kept.
LEMMA BufferedTyped ==
    ASSUME TypeOK, NEW front \in Seq(Records)
    PROVE  /\ Buffered(front) \in Rows
           /\ \A t \in Tables : Buffered(front)[t] = buffer[t] \o Only(t, front)
<1>1. ASSUME NEW t \in Tables
      PROVE  buffer[t] \o Only(t, front) \in Seq(Records)
  <2>1. buffer[t] \in Seq(Records) /\ Only(t, front) \in Seq(Records)
    BY PlacesTyped, OnlyLaws
  <2> QED
    BY <2>1, ConcatType
<1> QED
  BY <1>1 DEF Buffered, Rows

LEMMA BufferedLine ==
    ASSUME TypeOK, NEW front \in Seq(Records), NEW back \in Seq(Records),
           queue = front \o back, NEW t \in Tables
    PROVE  Line(db[t], orphan[t], batch[t], Buffered(front)[t], Only(t, back)) = Places(t)
<1>1. Only(t, queue) = Only(t, front) \o Only(t, back)
  BY OnlyLaws
<1>2. Only(t, front) \in Seq(Records) /\ Only(t, back) \in Seq(Records)
  BY OnlyLaws
<1>3. Buffers(db[t], orphan[t], batch[t], buffer[t], Only(t, front), Only(t, back))
  BY <1>2, PlacesTyped, LineMoves
<1> QED
  BY <1>1, <1>3, BufferedTyped DEF Buffers, Places

LEMMA DrainPassInv ==
    ASSUME StoreInv, DrainPass
    PROVE  StoreInv'
<1> DEFINE rest == SubSeq(queue, Pass + 1, Len(queue))
           rows == Buffered(SubSeq(queue, 1, Pass))
           flush == FlushWanted(Pass)
<1>0. /\ pc = "drain" /\ queue' = rest
      /\ UNCHANGED <<orphan, db, rows_written, tap_dropped, owner, given, produced, failed>>
      /\ drained' = (Pass > 0)
  BY DEF DrainPass
<1>1. /\ ~failed /\ batch = Empty /\ orphan = Empty /\ TypeOK /\ Conserved
      /\ rows_written = RowCount(db)
  BY <1>0, Looping DEF StoreInv, RowsWrittenExact
<1>2. /\ queue \in Seq(Records) /\ db \in Rows /\ Len(queue) \in Nat /\ Len(queue) <= QueueCap
      /\ Pass \in 0..Len(queue)
  <2>1. queue \in Seq(Records) /\ db \in Rows /\ Len(queue) \in Nat /\ Len(queue) <= QueueCap
    BY <1>1, Typed, LenProperties DEF TypeOK
  <2> QED
    BY <2>1, StoreAssumption DEF Pass, Smaller
<1>3. PICK front \in Seq(Records), back \in Seq(Records) :
        /\ front = SubSeq(queue, 1, Pass) /\ back = rest /\ queue = front \o back
        /\ Len(back) <= Len(queue)
  BY <1>2, SequenceSplits
<1>4. /\ rows = Buffered(front) /\ rows \in Rows
      /\ \A t \in Tables : Line(db[t], <<>>, <<>>, rows[t], Only(t, back)) = Places(t)
  <2>1. rows = Buffered(front)
    BY <1>3
  <2>2. rows \in Rows
    BY <1>1, <2>1, BufferedTyped
  <2>3. \A t \in Tables :
          Line(db[t], orphan[t], batch[t], Buffered(front)[t], Only(t, back)) = Places(t)
    BY <1>1, <1>3, BufferedLine
  <2>4. \A t \in Tables : orphan[t] = <<>> /\ batch[t] = <<>>
    BY <1>1, EmptyRows
  <2> HIDE DEF rows
  <2> QED
    BY <2>1, <2>2, <2>3, <2>4
<1>5. \/ flush /\ rows # Empty /\ SwapOut(rows, "flush") /\ due' = due
      \/ /\ buffer' = rows /\ pc' = AfterPass(Pass > 0) /\ due' = (due /\ ~flush)
         /\ UNCHANGED <<batch, batchRows>>
  BY DEF DrainPass
<1>6. /\ queue' \in Seq(Records) /\ Len(queue') <= QueueCap /\ queue' = back
      /\ RowCount(rows) \in Nat /\ Empty \in Rows /\ drained' \in BOOLEAN
  <2>1. Len(back) \in Nat /\ QueueCap \in Nat
    BY <1>3, LenProperties, StoreAssumption
  <2>2. drained' \in BOOLEAN
    BY <1>0
  <2>3. queue' = back
    BY <1>0, <1>3
  <2> HIDE DEF rest, rows, flush
  <2>5. Len(back) <= QueueCap
    BY <1>2, <1>3, <2>1
  <2>4. RowCount(rows) \in Nat
    BY <1>4, RowCountNatural
  <2> QED
    BY <2>2, <2>3, <2>4, <2>5, EmptyRows
<1> HIDE DEF rest, rows, flush
<1>7. CASE SwapOut(rows, "flush") /\ due' = due
  <2>1. /\ batch' = rows /\ batchRows' = RowCount(rows) /\ buffer' = Empty /\ pc' = "flush"
        /\ due' = due
    BY <1>7 DEF SwapOut
  <2>2. TypeOK'
    BY <1>0, <1>1, <1>4, <1>6, <2>1 DEF TypeOK, Rows, Pcs
  <2>3. \A t \in Tables : Places(t)' = Places(t)
    <3>1. TAKE t \in Tables
    <3>2. Places(t)' = Line(db[t], <<>>, rows[t], <<>>, Only(t, back))
      BY <1>0, <1>1, <1>6, <2>1, EmptyRows DEF Places
    <3>3. /\ db[t] \in Seq(Records) /\ <<>> \in Seq(Records) /\ rows[t] \in Seq(Records)
          /\ Only(t, back) \in Seq(Records)
      BY <1>1, <1>4, PlacesTyped, EmptySeq, OnlyLaws DEF Rows
    <3>4. Swaps(db[t], <<>>, rows[t], Only(t, back))
      BY <3>3, LineSwaps
    <3> QED
      BY <1>4, <3>2, <3>4 DEF Swaps
  <2>4. Conserved'
    BY <1>0, <1>1, <2>3, ConservedStep
  <2> QED
    BY <1>0, <1>1, <2>1, <2>2, <2>4
       DEF StoreInv, RowsWrittenExact, BatchAwaited, BuffersSwapped, OrphanIsLast, BatchCounted, FailedIsOver
<1>8. CASE /\ buffer' = rows /\ pc' = AfterPass(Pass > 0) /\ due' = (due /\ ~flush)
           /\ UNCHANGED <<batch, batchRows>>
  <2>1. pc' \in {"drain", "wait"}
    BY <1>8 DEF AfterPass
  <2>2. TypeOK'
    <3>1. due' \in BOOLEAN
      BY <1>8
    <3> QED
      BY <1>0, <1>1, <1>4, <1>6, <1>8, <2>1, <3>1 DEF TypeOK, Rows, Pcs
  <2>3. \A t \in Tables : Places(t)' = Places(t)
    BY <1>0, <1>1, <1>4, <1>6, <1>8, EmptyRows DEF Places
  <2>4. Conserved'
    BY <1>0, <1>1, <2>3, ConservedStep
  <2> QED
    BY <1>0, <1>1, <1>8, <2>1, <2>2, <2>4
       DEF StoreInv, RowsWrittenExact, BatchAwaited, BuffersSwapped, OrphanIsLast, BatchCounted, FailedIsOver
<1> QED
  BY <1>5, <1>7, <1>8

LEMMA GetsInv ==
    ASSUME StoreInv, Gets
    PROVE  StoreInv'
<1>0. /\ pc = "wait" /\ pc' = "drain"
      /\ UNCHANGED <<batch, orphan, db, rows_written, batchRows, tap_dropped>>
      /\ UNCHANGED <<drained, due, owner, given, produced, failed>>
  BY DEF Gets
<1>1. /\ ~failed /\ batch = Empty /\ orphan = Empty /\ TypeOK /\ Conserved
      /\ rows_written = RowCount(db)
  BY <1>0, Looping DEF StoreInv, RowsWrittenExact
<1>2. /\ queue' \in Seq(Records) /\ Len(queue') <= QueueCap /\ buffer' \in Rows
      /\ \A t \in Tables : Places(t)' = Places(t)
  <2>1. CASE queue # <<>> /\ buffer' = Buffered(<<Head(queue)>>) /\ queue' = Tail(queue)
    <3>1. queue \in Seq(Records) /\ Len(queue) \in Nat /\ Len(queue) <= QueueCap /\ QueueCap \in Nat
      BY <1>1, Typed, LenProperties, StoreAssumption DEF TypeOK
    <3>2. PICK front \in Seq(Records), back \in Seq(Records) :
            /\ front = <<Head(queue)>> /\ back = Tail(queue) /\ queue = front \o back
            /\ Len(back) <= Len(queue)
      BY <2>1, <3>1, SequenceHead
    <3>3. Len(back) \in Nat
      BY LenProperties
    <3>4. buffer' = Buffered(front) /\ queue' = back
      BY <2>1, <3>2
    <3>5. \A t \in Tables :
            Line(db[t], orphan[t], batch[t], Buffered(front)[t], Only(t, back)) = Places(t)
      BY <1>1, <3>2, BufferedLine
    <3>6. \A t \in Tables : Places(t)' = Places(t)
      BY <1>0, <3>4, <3>5 DEF Places
    <3>7. buffer' \in Rows
      BY <1>1, <3>4, BufferedTyped
    <3> QED
      BY <3>1, <3>2, <3>3, <3>4, <3>6, <3>7
  <2>2. CASE UNCHANGED <<buffer, queue>>
    BY <1>0, <1>1, <2>2, Typed DEF TypeOK, Places
  <2> QED
    BY <2>1, <2>2 DEF Gets
<1>3. TypeOK'
  BY <1>0, <1>1, <1>2 DEF TypeOK, Rows, Pcs
<1>4. Conserved'
  BY <1>0, <1>1, <1>2, ConservedStep
<1> QED
  BY <1>0, <1>1, <1>3, <1>4
     DEF StoreInv, RowsWrittenExact, BatchAwaited, BuffersSwapped, OrphanIsLast, BatchCounted, FailedIsOver

LEMMA DeadlinePassesInv ==
    ASSUME StoreInv, DeadlinePasses
    PROVE  StoreInv'
<1>0. /\ UNCHANGED <<queue, buffer, batch, orphan, db, rows_written, batchRows>>
      /\ UNCHANGED <<tap_dropped, pc, drained, owner, given, produced, failed>> /\ due' \in BOOLEAN
  BY DEF DeadlinePasses, data
<1>1. TypeOK'
  BY <1>0 DEF StoreInv, TypeOK
<1> QED
  BY <1>0, <1>1
     DEF StoreInv, Conserved, RowsWrittenExact, BatchAwaited, BuffersSwapped, OrphanIsLast, BatchCounted,
         FailedIsOver

\* While a batch is out nothing is buffered and no other batch is.
LEMMA BatchAlone ==
    ASSUME StoreInv, batch # Empty
    PROVE  pc \in {"flush", "final"} /\ buffer = Empty /\ orphan = Empty /\ ~failed
  BY DEF StoreInv, BatchAwaited, BuffersSwapped, OrphanIsLast, FailedIsOver

LEMMA InsertTableInv ==
    ASSUME StoreInv, NEW t \in Tables, InsertTable(t),
           UNCHANGED <<queue, buffer, rows_written, batchRows>>,
           UNCHANGED <<tap_dropped, pc, drained, due, owner, given, produced, failed>>
    PROVE  StoreInv'
<1>1. /\ batch # Empty /\ orphan' = orphan /\ db' = [db EXCEPT ![t] = db[t] \o batch[t]]
      /\ batch' = [batch EXCEPT ![t] = <<>>]
  BY EmptyRows DEF InsertTable
<1>2. /\ pc \in {"flush", "final"} /\ buffer = Empty /\ orphan = Empty /\ ~failed
      /\ TypeOK /\ Conserved
  BY <1>1, BatchAlone DEF StoreInv
<1>3. /\ db \in Rows /\ batch \in Rows /\ db[t] \in Seq(Records) /\ batch[t] \in Seq(Records)
      /\ db[t] \o batch[t] \in Seq(Records) /\ <<>> \in Seq(Records)
  BY <1>2, Typed, PlacesTyped, ConcatType, EmptySeq
<1>4. /\ db' \in Rows /\ batch' \in Rows
      /\ \A u \in Tables : db'[u] = IF u = t THEN db[t] \o batch[t] ELSE db[u]
      /\ \A u \in Tables : batch'[u] = IF u = t THEN <<>> ELSE batch[u]
  BY <1>1, <1>3 DEF Rows
<1>5. TypeOK'
  BY <1>1, <1>2, <1>4 DEF TypeOK, Rows
<1>6. \A u \in Tables : Places(u)' = Places(u)
  <2>1. TAKE u \in Tables
  <2> DEFINE q == Only(u, queue)
  <2>2. Places(u) = Line(db[u], <<>>, batch[u], <<>>, q) /\ q \in Seq(Records)
    BY <1>2, EmptyRows, PlacesTyped DEF Places
  <2>3. Places(u)' = Line(db'[u], <<>>, batch'[u], <<>>, q)
    BY <1>1, <1>2, EmptyRows DEF Places
  <2> HIDE DEF q
  <2>4. CASE u = t
    <3>1. Orphans(db[t], batch[t], <<>>, q) /\ Inserts(db[t], batch[t], <<>>, <<>>, q)
      BY <1>3, <2>2, LineSwaps, LineInserts
    <3> QED
      BY <1>4, <2>2, <2>3, <2>4, <3>1 DEF Orphans, Inserts
  <2>5. CASE u # t
    BY <1>4, <2>2, <2>3, <2>5
  <2> QED
    BY <2>4, <2>5
<1>7. Conserved'
  BY <1>2, <1>6, ConservedStep
<1>8. RowCount(db') + RowCount(batch') = RowCount(db) + RowCount(batch)
  <2>1. /\ RowCount(db') + Len(db[t]) = RowCount(db) + Len(db'[t])
        /\ RowCount(batch') + Len(batch[t]) = RowCount(batch) + Len(batch'[t])
    <3>1. \A u \in Tables : u # t => db'[u] = db[u] /\ batch'[u] = batch[u]
      BY <1>4
    <3> QED
      BY <1>3, <1>4, <3>1, RowCountChange
  <2>2. /\ Len(db'[t]) = Len(db[t]) + Len(batch[t]) /\ Len(batch'[t]) = 0
        /\ Len(db[t]) \in Nat /\ Len(batch[t]) \in Nat
    BY <1>3, <1>4, ConcatProperties, LenProperties, EmptySeq
  <2>3. RowCount(db') \in Nat /\ RowCount(batch') \in Nat /\ RowCount(db) \in Nat /\ RowCount(batch) \in Nat
    BY <1>3, <1>4, RowCountNatural
  <2> DEFINE m == Len(db[t])  n == Len(batch[t])  a == RowCount(db')  b == RowCount(batch')
             c == RowCount(db)  d == RowCount(batch)
  <2>4. a + m = c + (m + n) /\ b + n = d + 0
    BY <2>1, <2>2
  <2>5. m \in Nat /\ n \in Nat /\ a \in Nat /\ b \in Nat /\ c \in Nat /\ d \in Nat
    BY <2>2, <2>3
  <2> HIDE DEF a, b, c, d, m, n
  <2>6. a + b = c + d
    BY <2>4, <2>5
  <2> QED
    BY <2>6 DEF a, b, c, d
<1>9. BatchCounted'
  BY <1>8 DEF StoreInv, BatchCounted, RowCount
<1> QED
  BY <1>1, <1>2, <1>5, <1>7, <1>9
     DEF StoreInv, RowsWrittenExact, BatchAwaited, BuffersSwapped, OrphanIsLast, FailedIsOver

LEMMA InsertOrphanInv ==
    ASSUME StoreInv, NEW t \in Tables, InsertOrphan(t),
           UNCHANGED <<queue, buffer, rows_written, batchRows>>,
           UNCHANGED <<tap_dropped, pc, drained, due, owner, given, produced, failed>>
    PROVE  StoreInv'
<1>1. /\ orphan # Empty /\ batch' = batch /\ db' = [db EXCEPT ![t] = db[t] \o orphan[t]]
      /\ orphan' = [orphan EXCEPT ![t] = <<>>]
  BY EmptyRows DEF InsertOrphan
<1>2. /\ pc \in {"finally", "gone"} /\ buffer = Empty /\ batch = Empty /\ owner # "running" /\ ~failed
      /\ TypeOK /\ Conserved
  BY <1>1 DEF StoreInv, OrphanIsLast, FailedIsOver
<1>3. /\ db \in Rows /\ orphan \in Rows /\ db[t] \in Seq(Records) /\ orphan[t] \in Seq(Records)
      /\ db[t] \o orphan[t] \in Seq(Records) /\ <<>> \in Seq(Records)
  BY <1>2, Typed, PlacesTyped, ConcatType, EmptySeq
<1>4. /\ db' \in Rows /\ orphan' \in Rows
      /\ \A u \in Tables : db'[u] = IF u = t THEN db[t] \o orphan[t] ELSE db[u]
      /\ \A u \in Tables : orphan'[u] = IF u = t THEN <<>> ELSE orphan[u]
  BY <1>1, <1>3 DEF Rows
<1>5. TypeOK'
  BY <1>1, <1>2, <1>4 DEF TypeOK, Rows
<1>6. \A u \in Tables : Places(u)' = Places(u)
  <2>1. TAKE u \in Tables
  <2> DEFINE q == Only(u, queue)
  <2>2. Places(u) = Line(db[u], orphan[u], <<>>, <<>>, q) /\ q \in Seq(Records)
    BY <1>2, EmptyRows, PlacesTyped DEF Places
  <2>3. Places(u)' = Line(db'[u], orphan'[u], <<>>, <<>>, q)
    BY <1>1, <1>2, EmptyRows DEF Places
  <2> HIDE DEF q
  <2>4. CASE u = t
    <3>1. Inserts(db[t], orphan[t], <<>>, <<>>, q)
      BY <1>3, <2>2, LineInserts
    <3> QED
      BY <1>4, <2>2, <2>3, <2>4, <3>1 DEF Inserts
  <2>5. CASE u # t
    BY <1>4, <2>2, <2>3, <2>5
  <2> QED
    BY <2>4, <2>5
<1>7. Conserved'
  BY <1>2, <1>6, ConservedStep
<1> QED
  BY <1>1, <1>2, <1>5, <1>7
     DEF StoreInv, RowsWrittenExact, BatchAwaited, BuffersSwapped, OrphanIsLast, BatchCounted, FailedIsOver

LEMMA FlushReturnsInv ==
    ASSUME StoreInv, FlushReturns
    PROVE  StoreInv'
<1>1. /\ pc \in {"flush", "final"} /\ batch = Empty /\ rows_written' = rows_written + batchRows
      /\ due' = FALSE
      /\ pc' = IF pc = "flush" THEN AfterPass(drained) ELSE "gone"
      /\ UNCHANGED <<queue, buffer, batch, orphan, db, batchRows>>
      /\ UNCHANGED <<tap_dropped, drained, owner, given, produced, failed>>
  BY DEF FlushReturns, Counted
<1>2. TypeOK /\ Conserved /\ ~failed /\ orphan = Empty
  BY <1>1 DEF StoreInv, OrphanIsLast, FailedIsOver
<1>3. /\ pc = "flush" => pc' \in {"drain", "wait"}
      /\ pc # "flush" => pc' = "gone"
  BY <1>1 DEF AfterPass
<1>4. TypeOK'
  <2>1. rows_written' \in Nat
    BY <1>1, <1>2 DEF TypeOK
  <2>2. pc' \in Pcs
    BY <1>3 DEF Pcs
  <2>3. due' \in BOOLEAN
    BY <1>1, Zenon
  <2> QED
    BY <1>1, <1>2, <2>1, <2>2, <2>3 DEF TypeOK
<1>5. Conserved'
  BY <1>1, <1>2 DEF Conserved
<1>6. pc = "flush" => rows_written' = RowCount(db)
  <2>1. RowCount(db) \in Nat
    BY <1>2, Typed, RowCountNatural
  <2> QED
    BY <1>1, <2>1, RowCountEmpty DEF StoreInv, BatchCounted
<1> QED
  BY <1>1, <1>2, <1>3, <1>4, <1>5, <1>6
     DEF StoreInv, RowsWrittenExact, BatchAwaited, BuffersSwapped, OrphanIsLast, BatchCounted, FailedIsOver

LEMMA InsertRaisesInv ==
    ASSUME StoreInv, InsertRaises
    PROVE  StoreInv'
<1>1. /\ pc \in {"flush", "final"} /\ batch # Empty /\ failed' = TRUE /\ batch' = Empty
      /\ pc' = IF pc = "flush" THEN "finally" ELSE "gone"
      /\ UNCHANGED <<queue, buffer, orphan, db, rows_written, batchRows>>
      /\ UNCHANGED <<tap_dropped, drained, due, owner, given, produced>>
  BY DEF InsertRaises
<1>2. buffer = Empty /\ orphan = Empty /\ TypeOK
  BY <1>1, BatchAlone DEF StoreInv
<1>3. pc' \in {"finally", "gone"} /\ Empty \in Rows
  BY <1>1, EmptyRows
<1>4. TypeOK'
  <2>1. failed' \in BOOLEAN
    BY <1>1, Zenon
  <2> QED
    BY <1>1, <1>2, <1>3, <2>1 DEF TypeOK, Rows, Pcs
<1>5. \A t \in Tables : IsPrefix(db'[t], given'[t])
  BY <1>1, GivenPrefix
<1> QED
  BY <1>1, <1>2, <1>3, <1>4, <1>5
     DEF StoreInv, Conserved, RowsWrittenExact, BatchAwaited, BuffersSwapped, OrphanIsLast, BatchCounted,
         FailedIsOver

LEMMA FinallyInv ==
    ASSUME StoreInv, Finally
    PROVE  StoreInv'
<1>1. /\ pc = "finally"
      /\ UNCHANGED <<queue, orphan, db, rows_written>>
      /\ UNCHANGED <<tap_dropped, drained, due, owner, given, produced, failed>>
  BY DEF Finally, FinalFlush
<1>2. batch = Empty /\ TypeOK /\ Conserved
  BY <1>1 DEF StoreInv, BatchAwaited
<1>3. CASE buffer = Empty /\ pc' = "gone" /\ UNCHANGED <<batch, batchRows, buffer>>
  <2>1. TypeOK'
    BY <1>1, <1>2, <1>3 DEF TypeOK, Pcs
  <2>2. Conserved'
    BY <1>1, <1>2, <1>3 DEF Conserved
  <2> QED
    BY <1>1, <1>2, <1>3, <2>1, <2>2
       DEF StoreInv, RowsWrittenExact, BatchAwaited, BuffersSwapped, OrphanIsLast, BatchCounted, FailedIsOver
<1>4. CASE buffer # Empty /\ SwapOut(buffer, "final")
  <2>1. /\ batch' = buffer /\ batchRows' = RowCount(buffer) /\ buffer' = Empty /\ pc' = "final"
        /\ orphan = Empty /\ ~failed
    BY <1>4 DEF SwapOut, StoreInv, OrphanIsLast, FailedIsOver
  <2>2. TypeOK'
    <3>1. buffer \in Rows /\ RowCount(buffer) \in Nat /\ Empty \in Rows
      BY <1>2, Typed, RowCountNatural, EmptyRows
    <3> QED
      BY <1>1, <1>2, <2>1, <3>1 DEF TypeOK, Rows, Pcs
  <2>3. \A t \in Tables : Places(t)' = Places(t)
    <3>1. TAKE t \in Tables
    <3>2. /\ Places(t) = Line(db[t], orphan[t], <<>>, buffer[t], Only(t, queue))
          /\ Places(t)' = Line(db[t], orphan[t], buffer[t], <<>>, Only(t, queue))
      BY <1>1, <1>2, <2>1, EmptyRows DEF Places
    <3>3. Swaps(db[t], orphan[t], buffer[t], Only(t, queue))
      BY <1>2, PlacesTyped, LineSwaps
    <3> QED
      BY <3>2, <3>3 DEF Swaps
  <2>4. Conserved'
    BY <1>1, <1>2, <2>3, ConservedStep
  <2> QED
    BY <1>1, <1>2, <2>1, <2>2, <2>4
       DEF StoreInv, RowsWrittenExact, BatchAwaited, BuffersSwapped, OrphanIsLast, BatchCounted, FailedIsOver
<1> QED
  BY <1>3, <1>4 DEF Finally, FinalFlush

LEMMA CancelInv ==
    ASSUME StoreInv, Cancel
    PROVE  StoreInv'
<1>1. /\ owner = "running" /\ owner' = "stopping"
      /\ pc' = IF pc \in {"drain", "wait", "flush"} THEN "finally" ELSE pc
      /\ UNCHANGED <<queue, buffer, db, rows_written, batchRows>>
      /\ UNCHANGED <<tap_dropped, drained, due, given, produced, failed>>
  BY DEF Cancel
<1>2. orphan = Empty /\ TypeOK /\ Conserved /\ Empty \in Rows
  BY <1>1, EmptyRows DEF StoreInv, OrphanIsLast
<1>3. CASE pc = "flush" /\ orphan' = batch /\ batch' = Empty
  <2>1. pc' = "finally" /\ buffer = Empty /\ ~failed
    BY <1>1, <1>3 DEF StoreInv, BuffersSwapped, FailedIsOver
  <2>2. TypeOK'
    BY <1>1, <1>2, <1>3, <2>1, Typed DEF TypeOK, Rows, Pcs, Owners
  <2>3. \A t \in Tables : Places(t)' = Places(t)
    <3>1. TAKE t \in Tables
    <3>2. /\ Places(t) = Line(db[t], <<>>, batch[t], buffer[t], Only(t, queue))
          /\ Places(t)' = Line(db[t], batch[t], <<>>, buffer[t], Only(t, queue))
      BY <1>1, <1>2, <1>3, EmptyRows DEF Places
    <3>3. Orphans(db[t], batch[t], buffer[t], Only(t, queue))
      BY <1>2, PlacesTyped, LineSwaps
    <3> QED
      BY <3>2, <3>3 DEF Orphans
  <2>4. Conserved'
    BY <1>1, <1>2, <2>3, ConservedStep
  <2> QED
    BY <1>1, <1>2, <1>3, <2>1, <2>2, <2>4
       DEF StoreInv, RowsWrittenExact, BatchAwaited, BuffersSwapped, OrphanIsLast, BatchCounted, FailedIsOver
<1>4. CASE pc # "flush" /\ UNCHANGED <<orphan, batch>>
  <2>1. pc' \in Pcs \ {"drain", "wait", "flush"} /\ (pc' \in {"final", "gone"} <=> pc \in {"final", "gone"})
    BY <1>1, <1>2, <1>4 DEF TypeOK, Pcs
  <2>2. TypeOK'
    BY <1>1, <1>2, <1>4, <2>1 DEF TypeOK, Owners
  <2>3. Conserved'
    BY <1>1, <1>2, <1>4 DEF Conserved
  <2> QED
    BY <1>1, <1>2, <1>4, <2>1, <2>2, <2>3
       DEF StoreInv, RowsWrittenExact, BatchAwaited, BuffersSwapped, OrphanIsLast, BatchCounted, FailedIsOver
<1> QED
  BY <1>3, <1>4 DEF Cancel

LEMMA OwnerFlushInv ==
    ASSUME StoreInv, OwnerFlush
    PROVE  StoreInv'
<1>1. /\ owner = "stopping" /\ pc = "gone" /\ owner' = "flushed" /\ db' = Join(db, buffer)
      /\ rows_written' = rows_written + RowCount(buffer) /\ buffer' = Empty
      /\ UNCHANGED <<queue, batch, orphan, batchRows>>
      /\ UNCHANGED <<tap_dropped, pc, drained, due, given, produced, failed>>
  BY DEF OwnerFlush
<1>2. batch = Empty /\ TypeOK /\ Conserved
  BY <1>1 DEF StoreInv, BatchAwaited
<1>3. \A t \in Tables : db'[t] = db[t] \o buffer[t] /\ db'[t] \in Seq(Records)
  BY <1>1, <1>2, PlacesTyped, ConcatType DEF Join
<1>4. TypeOK'
  <2>1. rows_written' \in Nat
    <3>1. RowCount(buffer) \in Nat
      BY <1>2, Typed, RowCountNatural
    <3> QED
      BY <1>1, <1>2, <3>1 DEF TypeOK
  <2>2. db' \in Rows
    BY <1>1, <1>3 DEF Join, Rows
  <2> QED
    BY <1>1, <1>2, <2>1, <2>2, EmptyRows DEF TypeOK, Owners, Rows
<1>5. \A t \in Tables : buffer[t] = <<>> => db'[t] = db[t]
  <2>1. ASSUME NEW t \in Tables, buffer[t] = <<>>
        PROVE  db'[t] = db[t]
    <3>1. db[t] \in Seq(Records) /\ db[t] \o <<>> = db[t]
      BY <1>2, PlacesTyped, ConcatEmptySeq
    <3> QED
      BY <1>3, <2>1, <3>1
  <2> QED
    BY <2>1
<1>6. \A t \in Tables : Places(t)' = Places(t)
  <2>1. TAKE t \in Tables
  <2> DEFINE q == Only(t, queue)
  <2>2. /\ Places(t) = Line(db[t], orphan[t], <<>>, buffer[t], q) /\ q \in Seq(Records)
        /\ Places(t)' = Line(db'[t], orphan[t], <<>>, <<>>, q)
    BY <1>1, <1>2, EmptyRows, PlacesTyped DEF Places
  <2> HIDE DEF q
  <2>3. CASE buffer = Empty
    BY <1>5, <2>2, <2>3, EmptyRows
  <2>4. CASE buffer # Empty
    <3>1. orphan[t] = <<>>
      BY <2>4, EmptyRows DEF StoreInv, OrphanIsLast
    <3>2. /\ db[t] \in Seq(Records) /\ buffer[t] \in Seq(Records) /\ <<>> \in Seq(Records)
      BY <1>2, PlacesTyped, EmptySeq
    <3>3. /\ Swaps(db[t], <<>>, buffer[t], q) /\ Orphans(db[t], buffer[t], <<>>, q)
          /\ Inserts(db[t], buffer[t], <<>>, <<>>, q)
      BY <2>2, <3>2, LineSwaps, LineInserts
    <3> QED
      BY <1>3, <2>2, <3>1, <3>3 DEF Swaps, Orphans, Inserts
  <2> QED
    BY <2>3, <2>4
<1>7. Conserved'
  BY <1>1, <1>2, <1>6, ConservedStep
<1>8. FailedIsOver'
  <2>1. failed => \A t \in Tables : db'[t] = db[t]
    BY <1>5, EmptyRows DEF StoreInv, FailedIsOver
  <2> QED
    BY <1>1, <2>1 DEF StoreInv, FailedIsOver
<1> QED
  BY <1>1, <1>2, <1>4, <1>7, <1>8
     DEF StoreInv, RowsWrittenExact, BatchAwaited, BuffersSwapped, OrphanIsLast, BatchCounted

LEMMA CloseInv ==
    ASSUME StoreInv, Close
    PROVE  StoreInv'
<1>0. /\ UNCHANGED <<queue, buffer, batch, orphan, db, rows_written, batchRows>>
      /\ UNCHANGED <<tap_dropped, pc, drained, due, given, produced, failed>>
      /\ owner' = "closed"
  BY DEF Close, data
<1>1. TypeOK'
  BY <1>0 DEF StoreInv, TypeOK, Owners
<1> QED
  BY <1>0, <1>1
     DEF StoreInv, Conserved, RowsWrittenExact, BatchAwaited, BuffersSwapped, OrphanIsLast, BatchCounted,
         FailedIsOver

LEMMA StoreStep == StoreInv /\ [Next]_vars => StoreInv'
<1> SUFFICES ASSUME StoreInv, [Next]_vars
             PROVE  StoreInv'
  OBVIOUS
<1>1. CASE \E t \in Tables : Produce(t)
  BY <1>1, ProduceInv
<1>2. CASE DrainPass
  BY <1>2, DrainPassInv
<1>3. CASE Gets
  BY <1>3, GetsInv
<1>4. CASE FlushReturns
  BY <1>4, FlushReturnsInv
<1>5. CASE Finally
  BY <1>5, FinallyInv
<1>6. CASE DeadlinePasses
  BY <1>6, DeadlinePassesInv
<1>7. CASE ThreadStep
  BY <1>7, InsertTableInv, InsertOrphanInv DEF ThreadStep
<1>8. CASE InsertRaises
  BY <1>8, InsertRaisesInv
<1>9. CASE Cancel
  BY <1>9, CancelInv
<1>10. CASE OwnerFlush
  BY <1>10, OwnerFlushInv
<1>11. CASE Close
  BY <1>11, CloseInv
<1>12. CASE UNCHANGED vars
  <2>1. TypeOK'
    BY <1>12 DEF StoreInv, TypeOK, vars, data
  <2> QED
    BY <1>12, <2>1
       DEF StoreInv, Conserved, RowsWrittenExact, BatchAwaited, BuffersSwapped, OrphanIsLast, BatchCounted,
           FailedIsOver, vars, data
<1> QED
  BY <1>1, <1>2, <1>3, <1>4, <1>5, <1>6, <1>7, <1>8, <1>9, <1>10, <1>11, <1>12
     DEF Next, WriterStep, OwnerStep

\* The inductive invariant: where a record is, and when a batch is out.
THEOREM StoreInvariant == Spec => []StoreInv
<1> QED
  BY StoreInit, StoreStep, PTL DEF Spec

\* The queue never holds more than its size, and every row is a record.
THEOREM StoreTypes == Spec => []TypeOK
<1>1. StoreInv => TypeOK
  BY DEF StoreInv
<1> QED
  BY <1>1, StoreInvariant, PTL

\* No accepted record is lost, doubled or overtaken while no insert raises:
\* not by a pass that drains, a flush, a cancellation or a shutdown
\* (ColdStore.run, flush, _flush_sync, close).
THEOREM RecordsConserved == Spec => []Conserved
<1>1. StoreInv => Conserved
  BY DEF StoreInv
<1> QED
  BY <1>1, StoreInvariant, PTL

\* Back in its loop, ColdStore.rows_written is the number of rows in the
\* tables, whatever the batches were.
THEOREM RowsCounted == Spec => []RowsWrittenExact
<1>1. StoreInv => RowsWrittenExact
  BY DEF StoreInv
<1> QED
  BY <1>1, StoreInvariant, PTL
-----------------------------------------------------------------------------
(* The store implements an append log.                                     *)

WrittenFirst == \A t \in Tables : IsPrefix(db[t], given[t])

LEMMA PrefixOfItself ==
    ASSUME NEW x
    PROVE  Len(x) \in Nat => IsPrefix(x, x)
  BY DEF IsPrefix

\* Tables only grow, at their end.
LEMMA TablesGrow ==
    ASSUME StoreInv, Next
    PROVE  \A t \in Tables : IsPrefix(db[t], db'[t])
<1>0. TypeOK
  BY DEF StoreInv
<1>1. \A t \in Tables : IsPrefix(db[t], db[t])
  BY <1>0, PlacesTyped, LenProperties, PrefixOfItself
<1>2. ASSUME NEW u \in Tables, InsertTable(u) \/ InsertOrphan(u), NEW t \in Tables
      PROVE  IsPrefix(db[t], db'[t])
  <2>1. /\ IsPrefix(db[u], db[u] \o batch[u])
        /\ IsPrefix(db[u], db[u] \o orphan[u])
    BY <1>0, PlacesTyped, PrefixOfConcat
  <2>2. \/ db' = [db EXCEPT ![u] = db[u] \o batch[u]]
        \/ db' = [db EXCEPT ![u] = db[u] \o orphan[u]]
    BY <1>2 DEF InsertTable, InsertOrphan
  <2>3. db \in Rows
    BY <1>0, Typed
  <2> QED
    BY <1>1, <2>1, <2>2, <2>3 DEF Rows
<1>3. ASSUME OwnerFlush, NEW t \in Tables
      PROVE  IsPrefix(db[t], db'[t])
  <2>1. IsPrefix(db[t], db[t] \o buffer[t])
    BY <1>0, PlacesTyped, PrefixOfConcat
  <2> QED
    BY <1>3, <2>1 DEF OwnerFlush, Join
<1>4. \/ db' = db
      \/ \E u \in Tables : InsertTable(u) \/ InsertOrphan(u)
      \/ OwnerFlush
  BY DEF Next, Produce, WriterStep, DrainPass, Gets, FlushReturns, Finally, DeadlinePasses, ThreadStep,
         InsertRaises, Cancel, OwnerStep, Close, data
<1> QED
  BY <1>1, <1>2, <1>3, <1>4

LEMMA LogStep ==
    StoreInv /\ TypeOK' /\ WrittenFirst' /\ [Next]_vars => [Log!Next]_(Log!logVars)
<1> SUFFICES ASSUME StoreInv, TypeOK', WrittenFirst', [Next]_vars
             PROVE  [Log!Next]_(Log!logVars)
  OBVIOUS
<1>1. CASE UNCHANGED vars
  BY <1>1 DEF vars, data, Log!logVars
<1>2. ASSUME NEW t \in Tables, Produce(t)
      PROVE  [Log!Next]_(Log!logVars)
  <2>1. db' = db /\ produced \in 0..MaxRecords /\ produced < MaxRecords
    BY <1>2 DEF Produce, StoreInv, TypeOK
  <2>2. [id |-> produced + 1, table |-> t] \in Records
    BY <2>1, StoreAssumption DEF Records
  <2>3. CASE Drop
    BY <2>1, <2>3 DEF Drop, Log!logVars
  <2>4. CASE Put([id |-> produced + 1, table |-> t])
    <3>1. Log!Accept(t, [id |-> produced + 1, table |-> t])
      BY <2>1, <2>4 DEF Put, Log!Accept
    <3> QED
      BY <2>2, <3>1 DEF Log!Next
  <2> QED
    BY <1>2, <2>3, <2>4 DEF Produce
<1>3. ASSUME Next, given' = given
      PROVE  [Log!Next]_(Log!logVars)
  <2>1. \A t \in Tables : IsPrefix(db[t], db'[t]) /\ IsPrefix(db'[t], given[t])
    BY <1>3, TablesGrow DEF WrittenFirst
  <2>2. DOMAIN db' = Tables
    BY DEF TypeOK
  <2>3. Log!Persist
    BY <1>3, <2>1, <2>2 DEF Log!Persist, IsPrefix, Log!IsPrefix
  <2> QED
    BY <2>3 DEF Log!Next
<1>4. (\E t \in Tables : Produce(t)) \/ given' = given \/ UNCHANGED vars
  BY DEF Next, WriterStep, DrainPass, Gets, FlushReturns, Finally, DeadlinePasses, ThreadStep,
         InsertTable, InsertOrphan, InsertRaises, Cancel, OwnerStep, OwnerFlush, Close, data
<1> QED
  BY <1>1, <1>2, <1>3, <1>4

\* Whatever fails and whenever it is cancelled, what the tables hold is what
\* they were given first: ColdStore implements the append log.
THEOREM StoreImplementsLog == Spec => ImplementsLog
<1>1. Init => Log!Init
  BY DEF Init, Log!Init, Empty
<1>2. StoreInv => WrittenFirst /\ TypeOK
  BY GivenPrefix DEF WrittenFirst, StoreInv
<1> QED
  BY <1>1, <1>2, LogStep, StoreInvariant, PTL DEF Spec, ImplementsLog, Log!Spec
=============================================================================
