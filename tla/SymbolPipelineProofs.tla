------------------------ MODULE SymbolPipelineProofs ------------------------
(***************************************************************************)
(* Theorems about the label queue, for any horizon and any burst width, of *)
(* the pipeline alone and of the session with its live shadow books.       *)
(***************************************************************************)
EXTENDS ShadowBook, DataLemmas

\* The loop of pop_ready is well defined: it pops the labels before the first
\* one that is still waiting.
LEMMA ReadyCountStops ==
    ASSUME NEW q \in Seq(Pending), NEW now \in Int
    PROVE  /\ ReadyCount(q, now) \in 0..Len(q)
           /\ \A i \in 1..ReadyCount(q, now) : Elapsed(q[i], now)
           /\ ReadyCount(q, now) < Len(q) => ~Elapsed(q[ReadyCount(q, now) + 1], now)
<1> DEFINE Stops(n) == /\ \A i \in 1..n : Elapsed(q[i], now)
                       /\ n < Len(q) => ~Elapsed(q[n + 1], now)
           W == {i \in 1..Len(q) : ~Elapsed(q[i], now)}
<1>0. Len(q) \in Nat
  BY LenProperties
<1>1. CASE W = {}
  <2>1. Stops(Len(q)) /\ Len(q) \in 0..Len(q)
    BY <1>0, <1>1
  <2> QED
    BY <2>1 DEF ReadyCount
<1>2. CASE W # {}
  <2>1. W \in SUBSET Nat
    BY <1>0
  <2>2. PICK m \in W : \A i \in W : m <= i
    BY <1>2, <2>1, LeastNatural
  <2>3. m - 1 \in 0..Len(q) /\ (m - 1) + 1 = m
    BY <1>0
  <2>4. \A i \in 1..(m - 1) : Elapsed(q[i], now)
    BY <1>0, <2>2, <2>3
  <2>5. ~Elapsed(q[(m - 1) + 1], now)
    BY <2>3
  <2>6. Stops(m - 1)
    BY <2>4, <2>5
  <2> HIDE DEF W
  <2> QED
    BY <2>3, <2>6 DEF ReadyCount
<1> QED
  BY <1>1, <1>2
-----------------------------------------------------------------------------
(* The queue across one quote.                                             *)

\* What is known of the queue between two quotes: it is in order, clamping
\* moved nothing far, and everything in it is from the past.
Ordered == Monotonic /\ ClampBounded
Past == \A i \in DOMAIN queue : queue[i].of.id <= last.id /\ queue[i].ts <= latest
IInv == TypeOK /\ Ordered /\ Past

\* The labels that a quote resolves and those it leaves, one by one.
LEMMA SplitsAny ==
    ASSUME NEW q \in Seq(Pending), NEW quote \in Quote
    PROVE  /\ Popped(q, quote) \in 0..Len(q)
           /\ Resolve(q, quote) \in Seq(Resolved)
           /\ Unresolved(q, quote) \in Seq(Pending)
           /\ Len(Unresolved(q, quote)) = Len(q) - Popped(q, quote)
           /\ \A i \in 1..(Len(q) - Popped(q, quote)) :
                Unresolved(q, quote)[i] = q[i + Popped(q, quote)]
<1> DEFINE n == Popped(q, quote)
<1>1. q \in Seq(Pending) /\ Len(q) \in Nat
  BY LenProperties
<1>2. n \in 0..Len(q)
  BY <1>1, ReadyCountStops DEF Popped, Quote
<1>3. \A i \in 1..Len(q) : q[i] \in Pending
  BY <1>1, ElementOfSeq
<1> HIDE DEF n
<1>4. \A i \in (n + 1)..Len(q) : q[i] \in Pending
  BY <1>1, <1>2, <1>3
<1>5. /\ SubSeq(q, n + 1, Len(q)) \in Seq(Pending)
      /\ Len(SubSeq(q, n + 1, Len(q))) =
           IF n + 1 <= Len(q) THEN Len(q) - (n + 1) + 1 ELSE 0
      /\ \A i \in 1..(Len(q) - (n + 1) + 1) :
           SubSeq(q, n + 1, Len(q))[i] = q[n + 1 + i - 1]
  BY <1>1, <1>2, <1>4, SubSeqProperties
<1>6. Resolve(q, quote) \in Seq(Resolved)
  <2>1. \A i \in 1..n : [of |-> q[i].of, ts |-> q[i].ts, at |-> quote] \in Resolved
    BY <1>1, <1>2, <1>3 DEF Resolved, Pending
  <2> QED
    BY <1>2, <2>1 DEF Resolve, n
<1> QED
  BY <1>1, <1>2, <1>5, <1>6 DEF Unresolved, n

LEMMA Splits ==
    ASSUME TypeOK, NEW quote \in Quote
    PROVE  /\ Popped(queue, quote) \in 0..Len(queue)
           /\ Resolve(queue, quote) \in Seq(Resolved)
           /\ Unresolved(queue, quote) \in Seq(Pending)
           /\ Len(Unresolved(queue, quote)) = Len(queue) - Popped(queue, quote)
           /\ \A i \in 1..(Len(queue) - Popped(queue, quote)) :
                Unresolved(queue, quote)[i] = queue[i + Popped(queue, quote)]
  BY SplitsAny DEF TypeOK

\* The queue a quote leaves: what it did not resolve, then its own label.
LEMMA Joins ==
    ASSUME NEW q \in Seq(Pending), NEW quote \in Quote
    PROVE  /\ Clamped(q, quote) \in 0..MaxTime
           /\ Add(q, quote) \in Seq(Pending)
           /\ \/ Add(q, quote) = q
              \/ /\ Len(Add(q, quote)) = Len(q) + 1
                 /\ \A i \in 1..Len(q) : Add(q, quote)[i] = q[i]
                 /\ Add(q, quote)[Len(q) + 1] =
                      [of |-> quote, ts |-> Clamped(q, quote)]
<1>1. Len(q) \in Nat /\ (q # <<>> => Len(q) \in 1..Len(q))
  BY EmptySeq, LenProperties
<1>2. Clamped(q, quote) \in 0..MaxTime
  <2>1. q # <<>> => q[Len(q)] \in Pending
    BY <1>1, ElementOfSeq
  <2>2. q # <<>> => q[Len(q)].ts \in 0..MaxTime
    BY <2>1 DEF Pending
  <2>3. quote.ts \in 0..MaxTime
    BY DEF Quote
  <2> QED
    BY <2>2, <2>3 DEF Clamped
<1> DEFINE label == [of |-> quote, ts |-> Clamped(q, quote)]
<1>3. label \in Pending
  BY <1>2 DEF Pending
<1> HIDE DEF label
<1>4. /\ Append(q, label) \in Seq(Pending)
      /\ Len(Append(q, label)) = Len(q) + 1
      /\ \A i \in 1..Len(q) : Append(q, label)[i] = q[i]
      /\ Append(q, label)[Len(q) + 1] = label
  BY <1>1, <1>3, AppendProperties
<1> QED
  BY <1>2, <1>4 DEF Add, label

\* A quote in pointwise form: the queue afterwards is a tail of the queue
\* before, and possibly one more label that is not before any of them.
LEMMA Event ==
    ASSUME IInv, NEW quote \in FeedQuotes, OnEvent(quote)
    PROVE  /\ TypeOK'
           /\ last' = quote /\ quote.id > last.id
           /\ latest' >= latest /\ latest' >= quote.ts /\ quote.ts + Burst >= latest'
           /\ \E n \in 0..Len(queue), m \in 0..1 :
                /\ n = Popped(queue, quote)
                /\ Len(queue') = Len(queue) - n + m
                /\ \A i \in 1..(Len(queue) - n) : queue'[i] = queue[i + n]
                /\ m = 1 =>
                     LET label == queue'[Len(queue) - n + 1]
                     IN  /\ label.of = quote
                         /\ label.ts >= quote.ts
                         /\ \A i \in 1..(Len(queue) - n) : queue[i + n].ts <= label.ts
                         /\ \/ label.ts = quote.ts
                            \/ \E i \in DOMAIN queue : label.ts = queue[i].ts
<1> DEFINE q == Unresolved(queue, quote)
           n == Popped(queue, quote)
<1>1. quote \in Quote /\ quote.id = last.id + 1 /\ quote.ts + Burst >= latest
  BY DEF FeedQuotes
<1>2. /\ quote.id \in Int /\ quote.ts \in 0..MaxTime
      /\ last.id \in Int /\ latest \in 0..MaxTime /\ Burst \in Nat /\ MaxTime \in Nat
  BY <1>1, PipelineAssumption DEF Quote, IInv, TypeOK
<1>3. latest' \in 0..MaxTime /\ latest' >= latest /\ latest' >= quote.ts
      /\ quote.ts + Burst >= latest'
  BY <1>1, <1>2 DEF OnEvent
<1>4. /\ q \in Seq(Pending) /\ n \in 0..Len(queue)
      /\ resolved' \in Seq(Resolved)
      /\ Len(q) = Len(queue) - n
      /\ \A i \in 1..(Len(queue) - n) : q[i] = queue[i + n]
  BY <1>1, Splits DEF IInv, OnEvent
<1>5. queue' = Add(q, quote)
  BY DEF OnEvent, NextQueue
<1>6. TypeOK'
  BY <1>1, <1>3, <1>4, <1>5, Joins DEF OnEvent, TypeOK
<1>7. Len(queue) \in Nat /\ DOMAIN queue = 1..Len(queue) /\ Len(q) \in Nat
  BY <1>4, LenProperties DEF IInv, TypeOK
<1>8. CASE Add(q, quote) = q
  <2> HIDE DEF q, n
  <2>1. /\ 0 \in 0..1
        /\ Len(queue') = Len(queue) - n + 0
        /\ \A i \in 1..(Len(queue) - n) : queue'[i] = queue[i + n]
    BY <1>4, <1>5, <1>7, <1>8
  <2> QED
    BY <1>1, <1>2, <1>3, <1>4, <1>6, <2>1 DEF OnEvent, n
<1>9. CASE /\ Len(Add(q, quote)) = Len(q) + 1
           /\ \A i \in 1..Len(q) : Add(q, quote)[i] = q[i]
           /\ Add(q, quote)[Len(q) + 1] = [of |-> quote, ts |-> Clamped(q, quote)]
  <2> DEFINE label == queue'[Len(queue) - n + 1]
  <2>1. label = [of |-> quote, ts |-> Clamped(q, quote)]
    BY <1>4, <1>5, <1>9
  <2>2. \A i \in 1..Len(q) : q[i] = queue[i + n] /\ i + n \in 1..Len(queue)
    BY <1>4, <1>7
  <2>3. \A i \in 1..Len(queue) : queue[i].ts \in Int
    <3>1. \A i \in 1..Len(queue) : queue[i] \in Pending
      BY ElementOfSeq DEF IInv, TypeOK
    <3> QED
      BY <1>2, <3>1 DEF Pending
  <2>4. q = <<>> <=> Len(q) = 0
    BY <1>4, EmptySeq
  <2> DEFINE top == q[Len(q)].ts
  <2>5. Len(q) > 0 => /\ top = queue[Len(q) + n].ts /\ Len(q) + n \in 1..Len(queue)
                      /\ top \in Int
                      /\ \A i \in 1..Len(q) : queue[i + n].ts <= top
    <3> SUFFICES ASSUME Len(q) > 0
                 PROVE  /\ top = queue[Len(q) + n].ts /\ Len(q) + n \in 1..Len(queue)
                        /\ top \in Int
                        /\ \A i \in 1..Len(q) : queue[i + n].ts <= top
      OBVIOUS
    <3>1. Len(q) \in 1..Len(q)
      BY <1>7
    <3>2. top = queue[Len(q) + n].ts /\ Len(q) + n \in 1..Len(queue) /\ top \in Int
      BY <2>2, <2>3, <3>1
    <3>3. ASSUME NEW i \in 1..Len(q)
          PROVE  queue[i + n].ts <= top
      <4>1. i + n \in DOMAIN queue /\ Len(q) + n \in DOMAIN queue
        BY <1>7, <2>2, <3>1
      <4>2. CASE i = Len(q)
        BY <2>3, <3>2, <4>2
      <4>3. CASE i < Len(q)
        <5>1. i + n < Len(q) + n
          BY <1>4, <1>7, <4>3
        <5> QED
          BY <3>2, <4>1, <5>1 DEF IInv, Ordered, Monotonic
      <4> QED
        BY <1>7, <4>2, <4>3
    <3> QED
      BY <3>2, <3>3
  <2> HIDE DEF q, n, label, top
  <2>6. label.ts = IF Len(q) > 0 /\ quote.ts < top THEN top ELSE quote.ts
    BY <1>7, <2>1, <2>4 DEF Clamped, top
  <2>7. label.of = quote
    BY <2>1
  <2>8. label.ts >= quote.ts
    BY <1>2, <2>5, <2>6
  <2>9. \A i \in 1..(Len(queue) - n) : queue[i + n].ts <= label.ts
    <3>1. Len(queue) - n = Len(q)
      BY <1>4, <1>7
    <3>2. ASSUME NEW i \in 1..Len(q)
          PROVE  queue[i + n].ts <= label.ts
      <4>1. Len(q) > 0
        BY <1>7
      <4>2. i + n \in 1..Len(queue)
        BY <2>2
      <4>3. queue[i + n].ts \in Int
        BY <2>3, <4>2
      <4>4. top \in Int /\ queue[i + n].ts <= top
        BY <2>5, <4>1
      <4>5. label.ts \in Int /\ top <= label.ts
        BY <1>2, <2>6, <4>1, <4>4
      <4> QED
        BY <4>3, <4>4, <4>5
    <3> QED
      BY <3>1, <3>2
  <2>10. label.ts = quote.ts \/ \E i \in DOMAIN queue : label.ts = queue[i].ts
    BY <1>7, <2>5, <2>6
  <2>11. /\ 1 \in 0..1
         /\ Len(queue') = Len(queue) - n + 1
         /\ \A i \in 1..(Len(queue) - n) : queue'[i] = queue[i + n]
    BY <1>4, <1>5, <1>7, <1>9
  <2>12. 1 = 1 => /\ label.of = quote /\ label.ts >= quote.ts
                  /\ \A i \in 1..(Len(queue) - n) : queue[i + n].ts <= label.ts
                  /\ label.ts = quote.ts \/ \E i \in DOMAIN queue : label.ts = queue[i].ts
    BY <2>7, <2>8, <2>9, <2>10
  <2>13. last' = quote /\ quote.id > last.id
    BY <1>1, <1>2 DEF OnEvent
  <2> QED
    BY <1>3, <1>4, <1>6, <2>11, <2>12, <2>13 DEF n, label
<1> QED
  BY <1>1, <1>4, <1>8, <1>9, Joins
-----------------------------------------------------------------------------
(* The inductive invariant.                                                *)

\* The numbers in quotes and labels are integers.
LEMMA QuoteFields ==
    ASSUME NEW quote \in Quote
    PROVE  quote.id \in Int /\ quote.ts \in Int
BY PipelineAssumption DEF Quote

\* The times a pending label carries are integers.
LEMMA PendingFields ==
    ASSUME NEW p \in Pending
    PROVE  p.ts \in Int /\ p.of.ts \in Int /\ p.of.id \in Int
<1>1. p.of \in Quote /\ p.ts \in 0..MaxTime
  BY DEF Pending
<1> QED
  BY <1>1, QuoteFields, PipelineAssumption

\* An empty queue satisfies the invariant.
LEMMA InitInv == Init => IInv
<1> SUFFICES ASSUME Init PROVE IInv
  OBVIOUS
<1>1. NoQuote \in Quote /\ 0 \in 0..MaxTime
  BY PipelineAssumption DEF NoQuote, Quote, Kinds
<1>2. TypeOK
  BY <1>1, EmptySeq DEF Init, TypeOK
<1>3. DOMAIN queue = {}
  BY DEF Init
<1> QED
  BY <1>2, <1>3 DEF IInv, Ordered, Past, Monotonic, ClampBounded

\* A quote, whatever its kind and timestamp, preserves the invariant.
LEMMA EventInv ==
    ASSUME IInv, NEW quote \in FeedQuotes, OnEvent(quote)
    PROVE  IInv'
<1>1. PICK n \in 0..Len(queue), m \in 0..1 :
        /\ Len(queue') = Len(queue) - n + m
        /\ \A i \in 1..(Len(queue) - n) : queue'[i] = queue[i + n]
        /\ m = 1 =>
             LET label == queue'[Len(queue) - n + 1]
             IN  /\ label.of = quote
                 /\ label.ts >= quote.ts
                 /\ \A i \in 1..(Len(queue) - n) : queue[i + n].ts <= label.ts
                 /\ \/ label.ts = quote.ts
                    \/ \E i \in DOMAIN queue : label.ts = queue[i].ts
  BY Event
<1>2. TypeOK' /\ last' = quote /\ quote.id > last.id
      /\ latest' >= latest /\ latest' >= quote.ts /\ quote.ts + Burst >= latest'
  BY Event
<1>3. /\ Len(queue) \in Nat /\ DOMAIN queue = 1..Len(queue)
      /\ Len(queue') \in Nat /\ DOMAIN queue' = 1..Len(queue')
  BY <1>2, LenProperties DEF IInv, TypeOK
<1>4. /\ \A i \in DOMAIN queue : queue[i] \in Pending
      /\ \A i \in DOMAIN queue' : queue'[i] \in Pending
  BY <1>2, <1>3, ElementOfSeq DEF IInv, TypeOK
<1>5. /\ \A i \in DOMAIN queue : queue[i].ts \in Int /\ queue[i].of.id \in Int
                               /\ queue[i].of.ts \in Int
      /\ \A i \in DOMAIN queue' : queue'[i].ts \in Int /\ queue'[i].of.id \in Int
                                /\ queue'[i].of.ts \in Int
      /\ quote.id \in Int /\ quote.ts \in Int /\ last.id \in Int
      /\ latest \in Int /\ latest' \in Int /\ Burst \in Int
  <2>1. quote \in Quote /\ last \in Quote
    BY DEF FeedQuotes, IInv, TypeOK
  <2>2. latest \in Int /\ latest' \in Int /\ Burst \in Int
    BY <1>2, PipelineAssumption DEF IInv, TypeOK
  <2> QED
    BY <1>4, <2>1, <2>2, QuoteFields, PendingFields
<1> DEFINE k == Len(queue) - n
<1>6. k \in Nat /\ n \in Nat /\ Len(queue') = k + m /\ \A i \in 1..k : i + n \in DOMAIN queue
  BY <1>1, <1>3
<1>7. \A i \in DOMAIN queue' : i \in 1..k \/ (m = 1 /\ i = k + 1)
  BY <1>3, <1>6
<1>8. \A i \in 1..k : queue'[i] = queue[i + n]
  BY <1>1
<1> DEFINE label == queue'[k + 1]
<1>9. m = 1 => /\ label.of = quote /\ label.ts >= quote.ts /\ k + 1 \in DOMAIN queue'
               /\ \A i \in 1..k : queue[i + n].ts <= label.ts
               /\ label.ts <= latest'
  <2>1. \A i \in DOMAIN queue : queue[i].ts <= latest
    BY DEF IInv, Past
  <2>2. \A i \in DOMAIN queue : queue[i].ts <= latest'
    BY <1>2, <1>5, <2>1
  <2>3. m = 1 => k + 1 \in DOMAIN queue'
    BY <1>3, <1>6
  <2> QED
    BY <1>1, <1>2, <2>2, <2>3
<1> HIDE DEF k, label
<1>10. Past'
  <2> SUFFICES ASSUME NEW i \in DOMAIN queue'
               PROVE  queue'[i].of.id <= last'.id /\ queue'[i].ts <= latest'
    BY DEF Past
  <2>1. CASE i \in 1..k
    <3>1. queue[i + n].of.id <= last.id /\ queue[i + n].ts <= latest
      BY <1>6, <2>1 DEF IInv, Past
    <3>2. queue'[i].of.id <= last.id /\ queue'[i].ts <= latest
      BY <1>8, <2>1, <3>1
    <3> QED
      BY <1>2, <1>5, <3>2
  <2>2. CASE m = 1 /\ i = k + 1
    BY <1>2, <1>5, <1>9, <2>2 DEF label
  <2> QED
    BY <1>7, <2>1, <2>2
<1>11. Monotonic'
  <2> SUFFICES ASSUME NEW i \in DOMAIN queue', NEW j \in DOMAIN queue', i < j
               PROVE  queue'[i].ts <= queue'[j].ts /\ queue'[i].of.id < queue'[j].of.id
    BY DEF Monotonic
  <2>1. CASE i \in 1..k /\ j \in 1..k
    <3>1. i + n < j + n
      BY <1>6, <2>1
    <3>2. i + n \in DOMAIN queue /\ j + n \in DOMAIN queue
      BY <1>6, <2>1
    <3>3. queue[i + n].ts <= queue[j + n].ts /\ queue[i + n].of.id < queue[j + n].of.id
      BY <3>1, <3>2 DEF IInv, Ordered, Monotonic
    <3> QED
      BY <1>8, <2>1, <3>3
  <2>2. CASE i \in 1..k /\ m = 1 /\ j = k + 1
    <3>1. queue[i + n].of.id <= last.id /\ queue[i + n].ts <= label.ts
      BY <1>6, <1>9, <2>2 DEF IInv, Past
    <3>2. queue'[i].of.id <= last.id /\ queue'[i].ts <= label.ts
      BY <1>8, <2>2, <3>1
    <3>3. queue'[j] = label /\ label.of.id = quote.id
      BY <1>9, <2>2 DEF label
    <3>4. queue'[i].of.id \in Int
      BY <1>5
    <3> QED
      BY <1>2, <1>5, <3>2, <3>3, <3>4
  <2> QED
    BY <1>3, <1>6, <1>7, <2>1, <2>2
<1>12. ClampBounded'
  <2> SUFFICES ASSUME NEW i \in DOMAIN queue'
               PROVE  /\ queue'[i].of.ts <= queue'[i].ts
                      /\ queue'[i].ts <= queue'[i].of.ts + Burst
    BY DEF ClampBounded
  <2>1. CASE i \in 1..k
    BY <1>6, <1>8, <2>1 DEF IInv, Ordered, ClampBounded
  <2>2. CASE m = 1 /\ i = k + 1
    BY <1>2, <1>5, <1>9, <2>2 DEF label
  <2> QED
    BY <1>7, <2>1, <2>2
<1> QED
  BY <1>2, <1>10, <1>11, <1>12 DEF IInv, Ordered

\* The label queue keeps its types, stays in order, and moves no label by
\* more than a burst, for any horizon and burst.
THEOREM QueueInvariant == Spec => []IInv
<1>1. IInv /\ [Next]_pipelineVars => IInv'
  <2> SUFFICES ASSUME IInv, [Next]_pipelineVars PROVE IInv'
    OBVIOUS
  <2>1. CASE UNCHANGED pipelineVars
    BY <2>1 DEF pipelineVars, IInv, TypeOK, Ordered, Monotonic, ClampBounded, Past
  <2>2. CASE Next
    BY <2>2, EventInv DEF Next
  <2> QED
    BY <2>1, <2>2
<1> QED
  BY <1>1, InitInv, PTL DEF Spec

\* LabelQueue keeps its labels in the order of their times and of the
\* predictions they were made with.
THEOREM QueueMonotonic == Spec => []Monotonic
<1>1. IInv => Monotonic
  BY DEF IInv, Ordered
<1> QED
  BY <1>1, QueueInvariant, PTL

\* The clamping in LabelQueue.add never moves a label back, and forward by no
\* more than exchange timestamps regress.
THEOREM ClampIsBounded == Spec => []ClampBounded
<1>1. IInv => ClampBounded
  BY DEF IInv, Ordered
<1> QED
  BY <1>1, QueueInvariant, PTL
-----------------------------------------------------------------------------
(* What a quote resolves, and what it leaves waiting.                      *)

\* No label is learnt from a price less than a horizon away from it, whatever
\* the timestamps do.
THEOREM NothingLooksAhead == Spec => []NoLookahead
<1>1. Init => NoLookahead
  BY DEF Init, NoLookahead
<1>2. IInv /\ NoLookahead /\ [Next]_pipelineVars => NoLookahead'
  <2> SUFFICES ASSUME IInv, NoLookahead, [Next]_pipelineVars PROVE NoLookahead'
    OBVIOUS
  <2>1. CASE UNCHANGED pipelineVars
    BY <2>1 DEF pipelineVars, NoLookahead
  <2>2. ASSUME NEW quote \in FeedQuotes, OnEvent(quote)
        PROVE  NoLookahead'
    <3> DEFINE n == Popped(queue, quote)
    <3>1. quote \in Quote /\ quote.id = last.id + 1
      BY <2>2 DEF FeedQuotes
    <3>2. n \in 0..Len(queue) /\ Len(queue) \in Nat /\ DOMAIN queue = 1..Len(queue)
      BY <3>1, Splits, LenProperties DEF IInv, TypeOK
    <3>3. n # 0 => n = ReadyCount(queue, quote.ts)
      BY DEF Popped
    <3>4. quote.ts \in Int /\ last.id \in Int /\ Horizon \in Int
      BY <3>1, PipelineAssumption DEF Quote, IInv, TypeOK
    <3>5. \A i \in 1..n : Elapsed(queue[i], quote.ts)
      <4>1. \A i \in 1..ReadyCount(queue, quote.ts) : Elapsed(queue[i], quote.ts)
        BY <3>4, ReadyCountStops DEF IInv, TypeOK
      <4> HIDE DEF n
      <4> QED
        BY <3>3, <4>1
    <3> HIDE DEF n
    <3>6. resolved' = [i \in 1..n |->
                         [of |-> queue[i].of, ts |-> queue[i].ts, at |-> quote]]
      BY <2>2 DEF OnEvent, Resolve, n
    <3> SUFFICES ASSUME NEW i \in 1..n
                 PROVE  /\ quote.ts >= queue[i].of.ts + Horizon
                        /\ queue[i].of.id < quote.id
      BY <3>6 DEF NoLookahead
    <3>7. i \in 1..Len(queue)
      BY <3>2
    <3>8. queue[i].of.ts \in Int /\ queue[i].ts \in Int /\ queue[i].of.id \in Int
      <4>1. queue[i] \in Pending
        BY <3>7, ElementOfSeq DEF IInv, TypeOK
      <4> QED
        BY <4>1 DEF Pending, Quote
    <3>9. queue[i].of.ts <= queue[i].ts /\ queue[i].of.id <= last.id
      BY <3>2, <3>7 DEF IInv, Ordered, ClampBounded, Past
    <3>10. quote.ts >= queue[i].ts + Horizon
      BY <3>5 DEF Elapsed
    <3> QED
      BY <3>1, <3>4, <3>8, <3>9, <3>10
  <2> QED
    BY <2>1, <2>2 DEF Next
<1> QED
  BY <1>1, <1>2, QueueInvariant, PTL DEF Spec

\* A quote with a mid leaves no label behind that is due: the price a label
\* is resolved with is the first one after its horizon.
THEOREM NothingIsOverdue == Spec => []NoneOverdue
<1>1. Init => NoneOverdue
  BY DEF Init, NoneOverdue
<1>2. IInv /\ NoneOverdue /\ [Next]_pipelineVars => NoneOverdue'
  <2> SUFFICES ASSUME IInv, NoneOverdue, [Next]_pipelineVars PROVE NoneOverdue'
    OBVIOUS
  <2>1. CASE UNCHANGED pipelineVars
    BY <2>1 DEF pipelineVars, NoneOverdue
  <2>2. ASSUME NEW quote \in FeedQuotes, OnEvent(quote), HasMid(quote)
        PROVE  \A i \in DOMAIN queue' : queue'[i].ts + Horizon > quote.ts
    <3>1. PICK n \in 0..Len(queue), m \in 0..1 :
            /\ n = Popped(queue, quote)
            /\ Len(queue') = Len(queue) - n + m
            /\ \A i \in 1..(Len(queue) - n) : queue'[i] = queue[i + n]
            /\ m = 1 => queue'[Len(queue) - n + 1].ts >= quote.ts
      BY <2>2, Event
    <3>2. TypeOK'
      BY <2>2, Event
    <3>3. /\ Len(queue) \in Nat /\ DOMAIN queue = 1..Len(queue)
          /\ Len(queue') \in Nat /\ DOMAIN queue' = 1..Len(queue')
      BY <3>2, LenProperties DEF IInv, TypeOK
    <3>4. /\ \A i \in DOMAIN queue : queue[i].ts \in Int
          /\ \A i \in DOMAIN queue' : queue'[i].ts \in Int
          /\ quote.ts \in Int /\ Horizon \in Nat \ {0}
      <4>1. /\ \A i \in DOMAIN queue : queue[i] \in Pending
            /\ \A i \in DOMAIN queue' : queue'[i] \in Pending
        BY <3>2, <3>3, ElementOfSeq DEF IInv, TypeOK
      <4> QED
        BY <4>1, QuoteFields, PendingFields, PipelineAssumption DEF FeedQuotes
    <3>5. n = ReadyCount(queue, quote.ts)
      BY <2>2, <3>1 DEF Popped
    <3>6. n < Len(queue) => ~Elapsed(queue[n + 1], quote.ts)
      BY <3>4, <3>5, ReadyCountStops DEF IInv, TypeOK
    <3>7. n < Len(queue) => quote.ts < queue[n + 1].ts + Horizon
      BY <3>3, <3>4, <3>6 DEF Elapsed
    <3> SUFFICES ASSUME NEW i \in DOMAIN queue'
                 PROVE  queue'[i].ts + Horizon > quote.ts
      OBVIOUS
    <3>8. CASE i \in 1..(Len(queue) - n)
      <4>1. n + 1 \in DOMAIN queue /\ i + n \in DOMAIN queue /\ n < Len(queue)
        BY <3>3, <3>8
      <4>2. n + 1 = i + n \/ n + 1 < i + n
        BY <3>3, <3>8
      <4>3. queue[n + 1].ts <= queue[i + n].ts
        BY <3>4, <4>1, <4>2 DEF IInv, Ordered, Monotonic
      <4>4. queue[n + 1].ts \in Int /\ queue[i + n].ts \in Int
        BY <3>4, <4>1
      <4>5. queue[i + n].ts + Horizon > quote.ts
        BY <3>4, <3>7, <4>1, <4>3, <4>4
      <4> QED
        BY <3>1, <3>8, <4>5
    <3>9. CASE m = 1 /\ i = Len(queue) - n + 1
      BY <3>1, <3>4, <3>9
    <3> QED
      BY <3>1, <3>3, <3>8, <3>9
  <2>3. CASE Next
    BY <2>2, <2>3 DEF Next, NoneOverdue, OnEvent
  <2> QED
    BY <2>1, <2>3
<1> QED
  BY <1>1, <1>2, QueueInvariant, PTL DEF Spec

\* Between two quotes the queue is sound: nothing due in it, in order, and
\* clamped by a burst at most.
THEOREM QueueIsSound == Spec => []QueueSound
BY NothingIsOverdue, QueueMonotonic, ClampIsBounded, PTL DEF QueueSound
-----------------------------------------------------------------------------
(* The session of stocks_live.py around the pipeline.                      *)

\* A session implements the pipeline: a frame that ends is a stutter, and the
\* books, which see every label on its way, have no part in the queue.
THEOREM SessionRunsPipeline == ShadowSpec => Spec
<1>1. ShadowInit => Init
  BY DEF ShadowInit
<1>2. [ShadowNext]_vars => [Next]_pipelineVars
  <2>1. ASSUME NEW quote \in FeedQuotes, QuoteArrives(quote)
        PROVE  Next
    BY <2>1 DEF QuoteArrives, Next
  <2>2. CASE FrameEnds
    BY <2>2 DEF FrameEnds
  <2>3. CASE UNCHANGED vars
    BY <2>3 DEF vars
  <2> QED
    BY <2>1, <2>2, <2>3 DEF ShadowNext
<1> QED
  BY <1>1, <1>2, PTL DEF Spec, ShadowSpec

\* So the labels the live books and the evaluation rest on look ahead in no
\* session, and its queue stays sound.
THEOREM SessionLabelsAreSound == ShadowSpec => [](NoLookahead /\ QueueSound)
BY SessionRunsPipeline, NothingLooksAhead, QueueIsSound, PTL
-----------------------------------------------------------------------------
(* The loops of the books and of the evaluation.                           *)

LEMMA ResolvedFields ==
    ASSUME NEW r \in Resolved
    PROVE  r.ts \in Nat /\ r.of \in Quote
<1>1. r.ts \in 0..MaxTime /\ r.of \in Quote
  BY DEF Resolved
<1> QED
  BY <1>1, PipelineAssumption

LEMMA HorizonIsInt == Horizon \in Int /\ Horizon > 0 /\ Never \in Int /\ Never = -Horizon
  BY PipelineAssumption DEF Never

LEMMA LastResolved ==
    ASSUME NEW s \in Seq(Resolved)
    PROVE  s # <<>> => s[Len(s)] \in Resolved /\ s[Len(s)].ts \in Nat
<1>1. s # <<>> => s[Len(s)] \in Resolved
  <2>1. s # <<>> => Len(s) \in 1..Len(s)
    BY EmptySeq, LenProperties
  <2> QED
    BY <2>1, ElementOfSeq
<1> QED
  BY <1>1, ResolvedFields

LEMMA BookLoops ==
    /\ Loop(Windowed, NewBook, Book, Resolved) /\ Loop(PerQuote, NewBook, Book, Resolved)
    /\ \A book \in Book, r \in Resolved :
         /\ Windowed[book][r] = OnResolvedWindowed(book, r)
         /\ PerQuote[book][r] = OnResolvedPerQuote(book, r)
         /\ OnResolvedWindowed(book, r) \in Book /\ OnResolvedPerQuote(book, r) \in Book
<1>1. NewBook \in Book
  BY EmptySeq, HorizonIsInt DEF NewBook, Book
<1>2. ASSUME NEW book \in Book, NEW r \in Resolved
      PROVE  Books(book, r) \in Book
  <2>1. Append(book.trades, r) \in Seq(Resolved) /\ BusyUntil(r) \in Int
    BY ResolvedFields, HorizonIsInt, AppendProperties DEF Book, BusyUntil
  <2> QED
    BY <2>1 DEF Books, Book
<1>3. ASSUME NEW book \in Book, NEW r \in Resolved
      PROVE  Samples(book, r) \in Book
  BY ResolvedFields DEF Samples, Book
<1>4. ASSUME NEW book \in Book, NEW r \in Resolved
      PROVE  OnResolvedWindowed(book, r) \in Book /\ OnResolvedPerQuote(book, r) \in Book
  BY <1>2, <1>3 DEF OnResolvedWindowed, OnResolvedPerQuote
<1> QED
  BY <1>1, <1>4 DEF Loop, Windowed, PerQuote

LEMMA RowLoops ==
    /\ Loop(Scoring, <<>>, Seq(Resolved), Resolved) /\ Loop(Trading, <<>>, Seq(Resolved), Resolved)
    /\ \A s \in Seq(Resolved), r \in Resolved :
         /\ Scoring[s][r] = IF Scores(s, r) THEN Append(s, r) ELSE s
         /\ Trading[s][r] = IF Enters(s, r) THEN Append(s, r) ELSE s
<1>1. <<>> \in Seq(Resolved)
  BY EmptySeq
<1>2. \A s \in Seq(Resolved), r \in Resolved : Append(s, r) \in Seq(Resolved)
  BY AppendProperties
<1> QED
  BY <1>1, <1>2 DEF Loop, Scoring, Trading

LEMMA Scored ==
    ASSUME NEW rows \in Seq(Resolved)
    PROVE  /\ NonOverlapping(rows) \in Seq(Resolved) /\ Simulate(rows) \in Seq(Resolved)
           /\ Through(Windowed, NewBook, rows) \in Book /\ Through(PerQuote, NewBook, rows) \in Book
           /\ \A r \in Resolved :
                /\ NonOverlapping(Append(rows, r)) =
                     (IF Scores(NonOverlapping(rows), r) THEN Append(NonOverlapping(rows), r) ELSE NonOverlapping(rows))
                /\ Simulate(Append(rows, r)) =
                     (IF Enters(Simulate(rows), r) THEN Append(Simulate(rows), r) ELSE Simulate(rows))
                /\ Through(Windowed, NewBook, Append(rows, r)) =
                     OnResolvedWindowed(Through(Windowed, NewBook, rows), r)
                /\ Through(PerQuote, NewBook, Append(rows, r)) =
                     OnResolvedPerQuote(Through(PerQuote, NewBook, rows), r)
<1>1. /\ NonOverlapping(rows) \in Seq(Resolved) /\ Simulate(rows) \in Seq(Resolved)
      /\ Through(Windowed, NewBook, rows) \in Book /\ Through(PerQuote, NewBook, rows) \in Book
  BY RowLoops, BookLoops, ThroughType DEF NonOverlapping, Simulate
<1>2. ASSUME NEW r \in Resolved
      PROVE  /\ NonOverlapping(Append(rows, r)) =
                  (IF Scores(NonOverlapping(rows), r) THEN Append(NonOverlapping(rows), r) ELSE NonOverlapping(rows))
             /\ Simulate(Append(rows, r)) =
                  (IF Enters(Simulate(rows), r) THEN Append(Simulate(rows), r) ELSE Simulate(rows))
  <2>1. /\ NonOverlapping(Append(rows, r)) = Scoring[NonOverlapping(rows)][r]
        /\ Simulate(Append(rows, r)) = Trading[Simulate(rows)][r]
    BY RowLoops, ThroughAppend DEF NonOverlapping, Simulate
  <2> QED
    BY <1>1, <2>1, RowLoops
<1>3. ASSUME NEW r \in Resolved
      PROVE  /\ Through(Windowed, NewBook, Append(rows, r)) =
                  OnResolvedWindowed(Through(Windowed, NewBook, rows), r)
             /\ Through(PerQuote, NewBook, Append(rows, r)) =
                  OnResolvedPerQuote(Through(PerQuote, NewBook, rows), r)
  <2>1. /\ Through(Windowed, NewBook, Append(rows, r)) = Windowed[Through(Windowed, NewBook, rows)][r]
        /\ Through(PerQuote, NewBook, Append(rows, r)) = PerQuote[Through(PerQuote, NewBook, rows)][r]
    BY BookLoops, ThroughAppend
  <2> QED
    BY <1>1, <2>1, BookLoops
<1> QED
  BY <1>1, <1>2, <1>3, Zenon
-----------------------------------------------------------------------------
(* A live book is a function of the rows it was given.                     *)

LastSeen(scored) == IF scored = <<>> THEN Never ELSE scored[Len(scored)].ts
FreeAgain(trades) == IF trades = <<>> THEN Never ELSE trades[Len(trades)].ts + Horizon

WindowedBook(rows) ==
    [trades |-> Simulate(NonOverlapping(rows)), busy_until |-> FreeAgain(Simulate(NonOverlapping(rows))),
     last_seen |-> LastSeen(NonOverlapping(rows))]
PerQuoteBook(rows) ==
    [trades |-> Simulate(rows), busy_until |-> FreeAgain(Simulate(rows)), last_seen |-> Never]

\* A book is free again a horizon after its last trade: what it books is what
\* simulate_trading takes.
LEMMA BooksAsSimulated ==
    ASSUME NEW trades \in Seq(Resolved), NEW r \in Resolved, NEW seen
    PROVE  LET after == IF Enters(trades, r) THEN Append(trades, r) ELSE trades
           IN  Books([trades |-> trades, busy_until |-> FreeAgain(trades), last_seen |-> seen], r) =
                 [trades |-> after, busy_until |-> FreeAgain(after), last_seen |-> seen]
<1>1. r.ts \in Nat /\ Horizon \in Int /\ Horizon > 0 /\ Never = -Horizon
  BY ResolvedFields, HorizonIsInt
<1>2. trades # <<>> => trades[Len(trades)].ts \in Nat
  BY LastResolved
<1> DEFINE more == Append(trades, r)
<1>3. more # <<>> /\ more[Len(more)] = r
  <2>1. Len(trades) \in Nat /\ Len(more) = Len(trades) + 1 /\ more[Len(trades) + 1] = r /\ more \in Seq(Resolved)
    BY AppendProperties, LenProperties
  <2> HIDE DEF more
  <2>2. more # <<>>
    BY <2>1, EmptySeq
  <2> QED
    BY <2>1, <2>2
<1> HIDE DEF more
<1>4. FreeAgain(more) = r.ts + Horizon
  BY <1>3 DEF FreeAgain
<1>5. r.ts >= FreeAgain(trades) /\ r.of.kind = "enter" <=> Enters(trades, r)
  <2>1. trades = <<>> => r.ts >= FreeAgain(trades)
    BY <1>1 DEF FreeAgain
  <2> QED
    BY <2>1 DEF FreeAgain, Enters
<1> QED
  BY <1>4, <1>5 DEF Books, BusyUntil, more

LEMMA LiveBooks ==
    ASSUME NEW rows \in Seq(Resolved)
    PROVE  /\ Through(Windowed, NewBook, rows) = WindowedBook(rows)
           /\ Through(PerQuote, NewBook, rows) = PerQuoteBook(rows)
<1> DEFINE Agree(s) == /\ Through(Windowed, NewBook, s) = WindowedBook(s)
                       /\ Through(PerQuote, NewBook, s) = PerQuoteBook(s)
           W == {s \in Seq(Resolved) : Agree(s)}
<1>1. <<>> \in W
  <2>1. <<>> \in Seq(Resolved)
    BY EmptySeq
  <2>2. Through(Windowed, NewBook, <<>>) = NewBook /\ Through(PerQuote, NewBook, <<>>) = NewBook
    BY BookLoops, ThroughEmpty
  <2>3. NonOverlapping(<<>>) = <<>> /\ Simulate(<<>>) = <<>>
    BY RowLoops, ThroughEmpty DEF NonOverlapping, Simulate
  <2>4. Agree(<<>>)
    BY <2>2, <2>3 DEF WindowedBook, PerQuoteBook, FreeAgain, LastSeen, NewBook
  <2> QED
    BY <2>1, <2>4
<1>2. ASSUME NEW s \in Seq(Resolved), NEW r \in Resolved, s \in W
      PROVE  Append(s, r) \in W
  <2> DEFINE nov == NonOverlapping(s)
             t == Append(s, r)
  <2>1. /\ t \in Seq(Resolved) /\ nov \in Seq(Resolved) /\ Simulate(nov) \in Seq(Resolved) /\ Simulate(s) \in Seq(Resolved)
    BY Scored, AppendProperties
  <2>2. /\ Through(Windowed, NewBook, t) = OnResolvedWindowed(WindowedBook(s), r)
        /\ Through(PerQuote, NewBook, t) = OnResolvedPerQuote(PerQuoteBook(s), r)
        /\ NonOverlapping(t) = IF Scores(nov, r) THEN Append(nov, r) ELSE nov
        /\ Simulate(t) = IF Enters(Simulate(s), r) THEN Append(Simulate(s), r) ELSE Simulate(s)
    BY <1>2, Scored
  <2>3. Simulate(Append(nov, r)) = IF Enters(Simulate(nov), r) THEN Append(Simulate(nov), r) ELSE Simulate(nov)
    BY <2>1, Scored
  <2> HIDE DEF nov, t
  <2>4. Through(PerQuote, NewBook, t) = PerQuoteBook(t)
    <3>1. Books(PerQuoteBook(s), r) = PerQuoteBook(t)
      BY <2>1, <2>2, BooksAsSimulated DEF PerQuoteBook
    <3> QED
      BY <2>2, <3>1 DEF OnResolvedPerQuote
  <2>5. Through(Windowed, NewBook, t) = WindowedBook(t)
    <3>1. r.ts < WindowedBook(s).last_seen + Horizon <=> ~Scores(nov, r)
      <4>1. r.ts \in Nat /\ Horizon \in Int /\ Never = -Horizon
        BY ResolvedFields, HorizonIsInt
      <4>2. nov # <<>> => nov[Len(nov)].ts \in Nat
        BY <2>1, LastResolved
      <4>3. WindowedBook(s).last_seen = LastSeen(nov)
        BY DEF WindowedBook, nov
      <4> QED
        BY <4>1, <4>2, <4>3 DEF LastSeen, Scores
    <3>2. CASE ~Scores(nov, r)
      <4>1. NonOverlapping(t) = nov
        BY <2>2, <3>2
      <4>2. WindowedBook(t) = WindowedBook(s)
        BY <4>1 DEF WindowedBook, nov
      <4> QED
        BY <2>2, <3>1, <3>2, <4>2 DEF OnResolvedWindowed
    <3>3. CASE Scores(nov, r)
      <4>1. NonOverlapping(t) = Append(nov, r)
        BY <2>2, <3>3
      <4>2. LastSeen(Append(nov, r)) = r.ts
        <5>1. Len(nov) \in Nat /\ Len(Append(nov, r)) = Len(nov) + 1 /\ Append(nov, r)[Len(nov) + 1] = r
              /\ Append(nov, r) \in Seq(Resolved)
          BY <2>1, AppendProperties, LenProperties
        <5>2. Append(nov, r) # <<>>
          BY <5>1, EmptySeq
        <5> QED
          BY <5>1, <5>2 DEF LastSeen
      <4>3. Samples(WindowedBook(s), r) =
              [trades |-> Simulate(nov), busy_until |-> FreeAgain(Simulate(nov)), last_seen |-> r.ts]
        BY DEF Samples, WindowedBook, nov
      <4>4. Books(Samples(WindowedBook(s), r), r) = WindowedBook(t)
        <5>1. Books(Samples(WindowedBook(s), r), r) =
                [trades |-> Simulate(Append(nov, r)), busy_until |-> FreeAgain(Simulate(Append(nov, r))), last_seen |-> r.ts]
          BY <2>1, <2>3, <4>3, BooksAsSimulated
        <5> QED
          BY <4>1, <4>2, <5>1 DEF WindowedBook
      <4> QED
        BY <2>2, <3>1, <3>3, <4>4 DEF OnResolvedWindowed
    <3> QED
      BY <3>2, <3>3
  <2> QED
    BY <2>1, <2>4, <2>5 DEF t
<1>3. rows \in W
  <2> HIDE DEF W
  <2> QED
    BY <1>1, <1>2, SequenceInduction
<1> QED
  BY <1>3
-----------------------------------------------------------------------------
(* The comparison of live_vs_backtest.py says of a replay what the live    *)
(* books and the evaluation say of it.                                     *)

LEMMA QueueStep ==
    ASSUME NEW q \in Seq(Pending), NEW quote \in Quote
    PROVE  NextQueue(q, quote) \in Seq(Pending) /\ Resolve(q, quote) \in Seq(Resolved)
<1>1. Unresolved(q, quote) \in Seq(Pending) /\ Resolve(q, quote) \in Seq(Resolved)
  BY SplitsAny
<1> QED
  BY <1>1, Joins DEF NextQueue

Start == [queue |-> <<>>, rows |-> <<>>]

LEMMA EvaluateLoop ==
    /\ Loop(Evaluating, Start, Run, Quote)
    /\ \A run \in Run, quote \in Quote :
         Evaluating[run][quote] = EvaluateStep(run, quote) /\ EvaluateStep(run, quote) \in Run
<1>1. Start \in Run
  BY EmptySeq DEF Run, Start
<1>2. ASSUME NEW run \in Run, NEW quote \in Quote
      PROVE  EvaluateStep(run, quote) \in Run
  <2>1. run.queue \in Seq(Pending) /\ run.rows \in Seq(Resolved)
    BY DEF Run
  <2>2. NextQueue(run.queue, quote) \in Seq(Pending) /\ Resolve(run.queue, quote) \in Seq(Resolved)
    BY <2>1, QueueStep
  <2>3. run.rows \o Resolve(run.queue, quote) \in Seq(Resolved)
    BY <2>1, <2>2, ConcatType
  <2> QED
    BY <2>2, <2>3 DEF EvaluateStep, Run
<1> QED
  BY <1>1, <1>2 DEF Loop, Evaluating

LEMMA EvaluateFields ==
    ASSUME NEW run, NEW quote
    PROVE  /\ EvaluateStep(run, quote).queue = NextQueue(run.queue, quote)
           /\ EvaluateStep(run, quote).rows = run.rows \o Resolve(run.queue, quote)
<1> DEFINE more == run.rows \o Resolve(run.queue, quote)
<1>1. EvaluateStep(run, quote) = [queue |-> NextQueue(run.queue, quote), rows |-> more]
  BY DEF EvaluateStep
<1> HIDE DEF more
<1>2. EvaluateStep(run, quote).queue = NextQueue(run.queue, quote) /\ EvaluateStep(run, quote).rows = more
  BY <1>1
<1> QED
  BY <1>2 DEF more

LEMMA EvaluateGrows ==
    /\ Evaluate(<<>>) = Start
    /\ \A quotes \in Seq(Quote) :
         /\ Evaluate(quotes) \in Run
         /\ \A quote \in Quote : Evaluate(Append(quotes, quote)) = EvaluateStep(Evaluate(quotes), quote)
<1>1. Evaluate(<<>>) = Start
  BY EvaluateLoop, ThroughEmpty DEF Evaluate, Start
<1>2. ASSUME NEW quotes \in Seq(Quote)
      PROVE  Evaluate(quotes) \in Run
  BY EvaluateLoop, ThroughType DEF Evaluate, Start
<1>3. ASSUME NEW quotes \in Seq(Quote), NEW quote \in Quote
      PROVE  Evaluate(Append(quotes, quote)) = EvaluateStep(Evaluate(quotes), quote)
  <2>1. Evaluate(Append(quotes, quote)) = Evaluating[Evaluate(quotes)][quote]
    BY EvaluateLoop, ThroughAppend DEF Evaluate, Start
  <2> QED
    BY <1>2, <2>1, EvaluateLoop
<1> QED
  BY <1>1, <1>2, <1>3, Zenon

\* ReplayResolved, field by field.
Known(q, w, p, all, nov, seen) ==
    [queue |-> q, live_w |-> w, live_pq |-> p, all_rows |-> all, nov_rows |-> nov, last_scored |-> seen]

LEMMA ReplayFields ==
    ASSUME NEW q, NEW w, NEW p, NEW all, NEW nov, NEW seen, NEW r
    PROVE  ReplayResolved(Known(q, w, p, all, nov, seen), r) =
             IF r.ts >= seen + Horizon
             THEN Known(q, OnResolvedWindowed(w, r), OnResolvedPerQuote(p, r), Append(all, r), Append(nov, r), r.ts)
             ELSE Known(q, OnResolvedWindowed(w, r), OnResolvedPerQuote(p, r), Append(all, r), nov, seen)
<1> DEFINE at == [queue |-> q, live_w |-> w, live_pq |-> p, all_rows |-> all, nov_rows |-> nov, last_scored |-> seen]
           apart == r.ts >= seen + Horizon
           more == Append(all, r)
           scored == Append(nov, r)
<1>1. CASE apart
  <2>1. ReplayResolved(at, r) =
          [at EXCEPT !.live_w = OnResolvedWindowed(w, r), !.live_pq = OnResolvedPerQuote(p, r),
                     !.all_rows = more, !.nov_rows = scored, !.last_scored = r.ts]
    BY <1>1 DEF ReplayResolved
  <2> HIDE DEF more, scored
  <2>2. ReplayResolved(at, r) = Known(q, OnResolvedWindowed(w, r), OnResolvedPerQuote(p, r), more, scored, r.ts)
    BY <2>1 DEF Known
  <2> QED
    BY <1>1, <2>2 DEF more, scored, Known
<1>2. CASE ~apart
  <2>1. ReplayResolved(at, r) =
          [at EXCEPT !.live_w = OnResolvedWindowed(w, r), !.live_pq = OnResolvedPerQuote(p, r),
                     !.all_rows = more, !.nov_rows = nov, !.last_scored = seen]
    BY <1>2 DEF ReplayResolved
  <2> HIDE DEF more
  <2>2. ReplayResolved(at, r) = Known(q, OnResolvedWindowed(w, r), OnResolvedPerQuote(p, r), more, nov, seen)
    BY <2>1 DEF Known
  <2> QED
    BY <1>2, <2>2 DEF more, Known
<1> QED
  BY <1>1, <1>2

\* What the comparison knows after the rows, with the queue q.
Compared(q, rows) ==
    Known(q, Through(Windowed, NewBook, rows), Through(PerQuote, NewBook, rows), rows,
          NonOverlapping(rows), LastSeen(NonOverlapping(rows)))

LEMMA ComparedType ==
    ASSUME NEW q \in Seq(Pending), NEW rows \in Seq(Resolved)
    PROVE  Compared(q, rows) \in Comparison
<1>1. LastSeen(NonOverlapping(rows)) \in Int
  BY Scored, LastResolved, HorizonIsInt DEF LastSeen
<1> QED
  BY <1>1, Scored DEF Compared, Known, Comparison

LEMMA ComparesRow ==
    ASSUME NEW q \in Seq(Pending), NEW rows \in Seq(Resolved), NEW r \in Resolved
    PROVE  ReplayResolved(Compared(q, rows), r) = Compared(q, Append(rows, r))
<1> DEFINE nov == NonOverlapping(rows)
<1>1. nov \in Seq(Resolved)
  BY Scored
<1>2. r.ts >= LastSeen(nov) + Horizon <=> Scores(nov, r)
  <2>1. r.ts \in Nat /\ Horizon \in Int /\ Never = -Horizon
    BY ResolvedFields, HorizonIsInt
  <2>2. nov # <<>> => nov[Len(nov)].ts \in Nat
    BY <1>1, LastResolved
  <2> HIDE DEF nov
  <2> QED
    BY <2>1, <2>2 DEF LastSeen, Scores
<1>3. LastSeen(Append(nov, r)) = r.ts
  <2> HIDE DEF nov
  <2>1. /\ Len(nov) \in Nat /\ Len(Append(nov, r)) = Len(nov) + 1 /\ Append(nov, r)[Len(nov) + 1] = r
        /\ Append(nov, r) \in Seq(Resolved)
    BY <1>1, AppendProperties, LenProperties
  <2>2. Append(nov, r) # <<>>
    BY <2>1, EmptySeq
  <2> QED
    BY <2>1, <2>2 DEF LastSeen
<1>4. /\ NonOverlapping(Append(rows, r)) = (IF Scores(nov, r) THEN Append(nov, r) ELSE nov)
      /\ Through(Windowed, NewBook, Append(rows, r)) = OnResolvedWindowed(Through(Windowed, NewBook, rows), r)
      /\ Through(PerQuote, NewBook, Append(rows, r)) = OnResolvedPerQuote(Through(PerQuote, NewBook, rows), r)
  BY Scored
<1> HIDE DEF nov
<1>5. ReplayResolved(Compared(q, rows), r) =
        IF Scores(nov, r)
        THEN Known(q, OnResolvedWindowed(Through(Windowed, NewBook, rows), r),
                   OnResolvedPerQuote(Through(PerQuote, NewBook, rows), r), Append(rows, r), Append(nov, r), r.ts)
        ELSE Known(q, OnResolvedWindowed(Through(Windowed, NewBook, rows), r),
                   OnResolvedPerQuote(Through(PerQuote, NewBook, rows), r), Append(rows, r), nov, LastSeen(nov))
  BY <1>2, ReplayFields DEF Compared, nov
<1> QED
  BY <1>3, <1>4, <1>5 DEF Compared

LEMMA ComparingLoop ==
    \A at \in Comparison :
        /\ Loop(Comparing, at, Comparison, Resolved)
        /\ \A r \in Resolved : Comparing[at][r] = ReplayResolved(at, r)
<1>1. ASSUME NEW at \in Comparison, NEW r \in Resolved
      PROVE  ReplayResolved(at, r) \in Comparison
  <2>1. /\ at.queue \in Seq(Pending) /\ at.live_w \in Book /\ at.live_pq \in Book
        /\ at.all_rows \in Seq(Resolved) /\ at.nov_rows \in Seq(Resolved) /\ at.last_scored \in Int
    BY DEF Comparison
  <2>2. /\ OnResolvedWindowed(at.live_w, r) \in Book /\ OnResolvedPerQuote(at.live_pq, r) \in Book
        /\ Append(at.all_rows, r) \in Seq(Resolved) /\ Append(at.nov_rows, r) \in Seq(Resolved)
        /\ r.ts \in Int
    BY <2>1, BookLoops, ResolvedFields, AppendProperties
  <2> QED
    BY <2>1, <2>2 DEF ReplayResolved, Comparison
<1> QED
  BY <1>1 DEF Loop, Comparing

LEMMA CompareLoop ==
    ASSUME NEW q \in Seq(Pending), NEW rows \in Seq(Resolved)
    PROVE  \A more \in Seq(Resolved) : Through(Comparing, Compared(q, rows), more) = Compared(q, rows \o more)
<1>2. Loop(Comparing, Compared(q, rows), Comparison, Resolved)
  BY ComparedType, ComparingLoop
<1> DEFINE W == {more \in Seq(Resolved) : Through(Comparing, Compared(q, rows), more) = Compared(q, rows \o more)}
<1>3. <<>> \in W
  <2>1. <<>> \in Seq(Resolved) /\ rows \o <<>> = rows
    BY EmptySeq, ConcatEmptySeq
  <2>2. Through(Comparing, Compared(q, rows), <<>>) = Compared(q, rows)
    BY <1>2, ThroughEmpty
  <2> QED
    BY <2>1, <2>2
<1>4. ASSUME NEW more \in Seq(Resolved), NEW r \in Resolved, more \in W
      PROVE  Append(more, r) \in W
  <2> DEFINE so_far == rows \o more
  <2>1. /\ so_far \in Seq(Resolved) /\ Append(more, r) \in Seq(Resolved)
        /\ rows \o Append(more, r) = Append(so_far, r)
    BY ConcatType, AppendProperties, AppendToConcat
  <2>2. Through(Comparing, Compared(q, rows), more) = Compared(q, so_far)
    BY <1>4
  <2> HIDE DEF so_far
  <2>3. Through(Comparing, Compared(q, rows), Append(more, r)) = Comparing[Compared(q, so_far)][r]
    BY <1>2, <2>2, ThroughAppend
  <2>4. Comparing[Compared(q, so_far)][r] = ReplayResolved(Compared(q, so_far), r)
    <3>1. Compared(q, so_far) \in Comparison
      BY <2>1, ComparedType
    <3> QED
      BY <3>1, ComparingLoop
  <2>5. ReplayResolved(Compared(q, so_far), r) = Compared(q, Append(so_far, r))
    BY <2>1, ComparesRow
  <2> QED
    BY <2>1, <2>3, <2>4, <2>5
<1> HIDE DEF W
<1>5. \A more \in Seq(Resolved) : more \in W
  BY <1>3, <1>4, SequenceInduction
<1> QED
  BY <1>5 DEF W

LEMMA ReplayCompares ==
    ASSUME NEW quotes \in Seq(Quote)
    PROVE  Replay(quotes) = Compared(Evaluate(quotes).queue, Evaluate(quotes).rows)
<1>1. ASSUME NEW q \in Seq(Pending), NEW rows \in Seq(Resolved), NEW quote \in Quote
      PROVE  /\ ReplayQuote(Compared(q, rows), quote) = Compared(NextQueue(q, quote), rows \o Resolve(q, quote))
             /\ ReplayQuote(Compared(q, rows), quote) \in Comparison
  <2>1. NextQueue(q, quote) \in Seq(Pending) /\ Resolve(q, quote) \in Seq(Resolved)
    BY QueueStep
  <2>2. /\ Compared(q, rows).queue = q
        /\ [Compared(q, rows) EXCEPT !.queue = NextQueue(q, quote)] = Compared(NextQueue(q, quote), rows)
    BY DEF Compared, Known
  <2> DEFINE q2 == NextQueue(q, quote)
             out == Resolve(q, quote)
  <2> HIDE DEF q2, out
  <2>3. ReplayQuote(Compared(q, rows), quote) = Compared(q2, rows \o out)
    <3>1. ReplayQuote(Compared(q, rows), quote) = Through(Comparing, Compared(q2, rows), out)
      BY <2>2 DEF ReplayQuote, q2, out
    <3>2. Through(Comparing, Compared(q2, rows), out) = Compared(q2, rows \o out)
      BY <2>1, CompareLoop DEF q2, out
    <3> QED
      BY <3>1, <3>2
  <2> USE DEF q2, out
  <2> QED
    BY <2>1, <2>3, ComparedType, ConcatType
<1>2. NoReplay = Compared(<<>>, <<>>)
  <2>1. NonOverlapping(<<>>) = <<>>
    BY RowLoops, ThroughEmpty DEF NonOverlapping
  <2>2. Through(Windowed, NewBook, <<>>) = NewBook /\ Through(PerQuote, NewBook, <<>>) = NewBook
    BY BookLoops, ThroughEmpty
  <2> QED
    BY <2>1, <2>2 DEF NoReplay, Compared, Known, LastSeen
<1>3. ASSUME NEW at \in Comparison, NEW quote \in Quote
      PROVE  ReplayQuote(at, quote) \in Comparison
  <2>1. at.queue \in Seq(Pending)
    BY DEF Comparison
  <2>2. NextQueue(at.queue, quote) \in Seq(Pending) /\ Resolve(at.queue, quote) \in Seq(Resolved)
    BY <2>1, QueueStep
  <2> DEFINE queued == [at EXCEPT !.queue = NextQueue(at.queue, quote)]
  <2>3. queued \in Comparison
    BY <2>2 DEF Comparison
  <2> HIDE DEF queued
  <2>4. Through(Comparing, queued, Resolve(at.queue, quote)) \in Comparison
    BY <2>2, <2>3, ComparingLoop, ThroughType
  <2> QED
    BY <2>4 DEF ReplayQuote, queued
<1>4. Loop(Replaying, NoReplay, Comparison, Quote)
  <2>1. NoReplay \in Comparison
    BY <1>2, EmptySeq, ComparedType
  <2> QED
    BY <1>3, <2>1 DEF Loop, Replaying
<1> DEFINE Same(s) == Replay(s) = Compared(Evaluate(s).queue, Evaluate(s).rows)
           W == {s \in Seq(Quote) : Same(s)}
<1>5. <<>> \in W
  <2>1. Replay(<<>>) = NoReplay
    BY <1>4, ThroughEmpty DEF Replay
  <2>2. <<>> \in Seq(Quote) /\ Evaluate(<<>>).queue = <<>> /\ Evaluate(<<>>).rows = <<>>
    BY EmptySeq, EvaluateGrows DEF Start
  <2> QED
    BY <1>2, <2>1, <2>2
<1>6. ASSUME NEW s \in Seq(Quote), NEW quote \in Quote, s \in W
      PROVE  Append(s, quote) \in W
  <2> DEFINE q == Evaluate(s).queue
             rows == Evaluate(s).rows
  <2>1. q \in Seq(Pending) /\ rows \in Seq(Resolved) /\ Replay(s) = Compared(q, rows) /\ Append(s, quote) \in Seq(Quote)
    BY <1>6, EvaluateGrows, AppendProperties DEF Run
  <2>2. /\ Evaluate(Append(s, quote)).queue = NextQueue(q, quote)
        /\ Evaluate(Append(s, quote)).rows = rows \o Resolve(q, quote)
    <3>1. Evaluate(Append(s, quote)) = EvaluateStep(Evaluate(s), quote)
      BY EvaluateGrows
    <3> QED
      BY <3>1, EvaluateFields
  <2> HIDE DEF q, rows
  <2>3. Replay(Append(s, quote)) = Replaying[Replay(s)][quote]
    BY <1>4, ThroughAppend DEF Replay
  <2>4. Replaying[Compared(q, rows)][quote] = ReplayQuote(Compared(q, rows), quote)
    <3>1. Compared(q, rows) \in Comparison
      BY <2>1, ComparedType
    <3> QED
      BY <3>1 DEF Replaying
  <2>5. ReplayQuote(Compared(q, rows), quote) = Compared(NextQueue(q, quote), rows \o Resolve(q, quote))
    BY <1>1, <2>1
  <2>6. Same(Append(s, quote))
    BY <2>1, <2>2, <2>3, <2>4, <2>5
  <2> QED
    BY <2>1, <2>6
<1>7. quotes \in W
  <2> HIDE DEF W
  <2> QED
    BY <1>5, <1>6, SequenceInduction
<1> QED
  BY <1>7
-----------------------------------------------------------------------------
(* ORDER BY, of the quotes of a frame.                                     *)

QuotesApart(f) == \A i, j \in 1..Len(f) : i # j => f[i].ts # f[j].ts
QuotesAscend(f) == \A i, j \in 1..Len(f) : i < j => f[i].ts < f[j].ts

Before(f, i) == {j \in DOMAIN f : Earlier(f[j], f[i])}

LEMMA SeqDomain ==
    ASSUME NEW f \in Seq(Quote)
    PROVE  /\ Len(f) \in Nat /\ DOMAIN f = 1..Len(f)
           /\ \A i \in 1..Len(f) : f[i] \in Quote /\ f[i].ts \in Int
<1>1. Len(f) \in Nat /\ DOMAIN f = 1..Len(f) /\ \A i \in 1..Len(f) : f[i] \in Quote
  BY LenProperties, ElementOfSeq
<1> QED
  BY <1>1, QuoteFields

\* Quotes at different times have different numbers of quotes before them, so
\* every place in the order is taken.
LEMMA RanksTaken ==
    ASSUME NEW f \in Seq(Quote), QuotesApart(f)
    PROVE  \A k \in 1..Len(f) : \E i \in 1..Len(f) : Cardinality(Before(f, i)) = k - 1
<1> DEFINE n == Len(f)
           rank == [i \in 1..n |-> Cardinality(Before(f, i))]
<1>0. n \in Nat /\ DOMAIN f = 1..n /\ \A i \in 1..n : f[i].ts \in Int
  BY SeqDomain
<1>1. IsFiniteSet(1..n) /\ Cardinality(1..n) = n
  BY <1>0, FS_Interval
<1>2. ASSUME NEW i \in 1..n
      PROVE  /\ Before(f, i) \in SUBSET (1..n) /\ i \notin Before(f, i)
             /\ IsFiniteSet(Before(f, i)) /\ Cardinality(Before(f, i)) \in 0..(n - 1)
  <2>1. Before(f, i) \in SUBSET (1..n) /\ i \notin Before(f, i)
    BY <1>0 DEF Before, Earlier
  <2>2. IsFiniteSet(Before(f, i)) /\ Cardinality(Before(f, i)) <= n /\ Cardinality(Before(f, i)) # n
    BY <1>1, <2>1, FS_Subset
  <2>3. Cardinality(Before(f, i)) \in Nat
    BY <2>2, FS_CardinalityType
  <2> HIDE DEF n
  <2> QED
    BY <1>0, <2>1, <2>2, <2>3
<1>3. ASSUME NEW i \in 1..n, NEW j \in 1..n, f[i].ts < f[j].ts
      PROVE  Cardinality(Before(f, i)) # Cardinality(Before(f, j))
  <2>1. Before(f, i) \in SUBSET Before(f, j)
    <3>1. \A m \in 1..n : f[m].ts < f[i].ts => f[m].ts < f[j].ts
      BY <1>0, <1>3
    <3> QED
      BY <1>0, <3>1 DEF Before, Earlier
  <2>2. i \in Before(f, j) /\ i \notin Before(f, i)
    BY <1>0, <1>2, <1>3 DEF Before, Earlier
  <2>3. IsFiniteSet(Before(f, j))
    BY <1>2
  <2> QED
    BY <2>1, <2>2, <2>3, FS_Subset
<1>4. rank \in Injection(1..n, 0..(n - 1))
  <2>1. ASSUME NEW i \in 1..n, NEW j \in 1..n, rank[i] = rank[j]
        PROVE  i = j
    <3>1. f[i].ts \in Int /\ f[j].ts \in Int /\ (i # j => f[i].ts # f[j].ts)
      BY <1>0 DEF QuotesApart
    <3>2. ~(f[i].ts < f[j].ts) /\ ~(f[j].ts < f[i].ts)
      BY <1>3, <2>1
    <3> QED
      BY <3>1, <3>2
  <2>2. rank \in [1..n -> 0..(n - 1)]
    BY <1>2
  <2> HIDE DEF rank
  <2> QED
    BY <2>1, <2>2 DEF Injection, IsInjective
<1>5. Cardinality(0..(n - 1)) = n /\ IsFiniteSet(0..(n - 1))
  <2> HIDE DEF n
  <2>1. 0 \in Int /\ n - 1 \in Int
    BY <1>0
  <2>2. Cardinality(0..(n - 1)) = (IF 0 > n - 1 THEN 0 ELSE (n - 1) - 0 + 1) /\ IsFiniteSet(0..(n - 1))
    BY <2>1, FS_Interval
  <2> QED
    BY <1>0, <2>2
<1>6. rank \in Surjection(1..n, 0..(n - 1))
  <2> HIDE DEF rank, n
  <2> QED
    BY <1>1, <1>4, <1>5, FS_Injection
<1>7. ASSUME NEW k \in 1..n
      PROVE  \E i \in 1..n : Cardinality(Before(f, i)) = k - 1
  <2>1. k - 1 \in 0..(n - 1)
    BY <1>0
  <2>2. PICK i \in 1..n : rank[i] = k - 1
    <3> HIDE DEF rank, n
    <3> QED
      BY <1>6, <2>1 DEF Surjection
  <2> QED
    BY <2>2
<1> QED
  BY <1>7

LEMMA InOrderType ==
    ASSUME NEW f \in Seq(Quote), QuotesApart(f)
    PROVE  InOrder(f) \in Seq(Quote)
<1>1. ASSUME NEW k \in 1..Len(f)
      PROVE  f[CHOOSE i \in DOMAIN f : Cardinality(Before(f, i)) = k - 1] \in Quote
  BY RanksTaken, SeqDomain
<1>2. InOrder(f) = [k \in 1..Len(f) |-> f[CHOOSE i \in DOMAIN f : Cardinality(Before(f, i)) = k - 1]]
  BY SeqDomain DEF InOrder, Before
<1>3. Len(f) \in Nat /\ InOrder(f) \in [1..Len(f) -> Quote]
  BY <1>1, <1>2, SeqDomain
<1> QED
  BY <1>3, SeqDef

\* Quotes that came in the order of their times stay as they came.
LEMMA InOrderAscending ==
    ASSUME NEW f \in Seq(Quote), QuotesAscend(f)
    PROVE  InOrder(f) = f
<1> DEFINE n == Len(f)
<1>0. n \in Nat /\ DOMAIN f = 1..n /\ \A i \in 1..n : f[i].ts \in Int
  BY SeqDomain
<1>1. ASSUME NEW i \in 1..n
      PROVE  Cardinality(Before(f, i)) = i - 1
  <2>1. ASSUME NEW j \in 1..n
        PROVE  f[j].ts < f[i].ts <=> j < i
    <3>1. (j < i => f[j].ts < f[i].ts) /\ (i < j => f[i].ts < f[j].ts)
      BY DEF QuotesAscend
    <3>2. f[j].ts \in Int /\ f[i].ts \in Int
      BY <1>0
    <3> QED
      BY <3>1, <3>2
  <2>2. Before(f, i) = 1..(i - 1)
    <3>1. \A j : j \in 1..(i - 1) <=> j \in 1..n /\ j < i
      BY <1>0
    <3>2. \A j : j \in Before(f, i) <=> j \in 1..n /\ f[j].ts < f[i].ts
      BY <1>0 DEF Before, Earlier
    <3> QED
      BY <2>1, <3>1, <3>2
  <2>3. 1 \in Int /\ i - 1 \in Int /\ i >= 1
    BY <1>0
  <2>4. Cardinality(1..(i - 1)) = (IF 1 > i - 1 THEN 0 ELSE (i - 1) - 1 + 1)
    BY <2>3, FS_Interval
  <2> QED
    BY <2>2, <2>3, <2>4
<1>2. ASSUME NEW k \in 1..n
      PROVE  (CHOOSE i \in DOMAIN f : Cardinality(Before(f, i)) = k - 1) = k
  <2>1. \A i \in 1..n : Cardinality(Before(f, i)) = k - 1 <=> i = k
    <3>1. \A i \in 1..n : i - 1 = k - 1 <=> i = k
      BY <1>0
    <3> QED
      BY <1>1, <3>1
  <2> QED
    BY <1>0, <2>1
<1>3. InOrder(f) = [k \in 1..n |-> f[CHOOSE i \in DOMAIN f : Cardinality(Before(f, i)) = k - 1]]
  BY <1>0 DEF InOrder, Before
<1>4. InOrder(f) = [k \in 1..n |-> f[k]]
  BY <1>2, <1>3
<1>5. f = [k \in 1..n |-> f[k]]
  BY <1>0, LenProperties
<1> QED
  BY <1>4, <1>5
-----------------------------------------------------------------------------
(* What the books and the recording hold, in every state of a session.     *)

Seen == recorded \o frame

FrameSound ==
    /\ windowed \in Book /\ per_quote \in Book
    /\ frame \in Seq(Quote) /\ recorded \in Seq(Quote)
    /\ QuotesApart(frame)
    /\ ~FrameRegress => QuotesAscend(frame)

\* Without regressions the session and the evaluation of what it has seen are
\* at the same point of the same computation.
BooksTrack ==
    ~FrameRegress =>
        /\ queue = Evaluate(Seen).queue
        /\ windowed = Through(Windowed, NewBook, Rows(Seen))
        /\ per_quote = Through(PerQuote, NewBook, Rows(Seen))

LEMMA FrameGrows ==
    ASSUME FrameSound, NEW quote \in FeedQuotes, QuoteArrives(quote)
    PROVE  /\ quote \in Quote /\ frame' = Append(frame, quote) /\ frame' \in Seq(Quote)
           /\ QuotesApart(frame') /\ (~FrameRegress => QuotesAscend(frame'))
<1> DEFINE n == Len(frame)
           g == Append(frame, quote)
<1>1. quote \in Quote /\ quote.ts \in Int /\ frame' = g
  BY QuoteFields DEF FeedQuotes, QuoteArrives
<1>2. /\ n \in Nat /\ g \in Seq(Quote) /\ Len(g) = n + 1 /\ g[n + 1] = quote
      /\ \A i \in 1..n : g[i] = frame[i] /\ frame[i].ts \in Int
  BY <1>1, SeqDomain, AppendProperties DEF FrameSound
<1>3. /\ \A i \in 1..n : frame[i].ts # quote.ts
      /\ ~FrameRegress => \A i \in 1..n : frame[i].ts < quote.ts
  <2>1. \A i \in 1..n : quote.ts > frame[i].ts \/ (FrameRegress /\ quote.ts # frame[i].ts)
    BY SeqDomain DEF QuoteArrives, FrameSound
  <2> QED
    BY <1>1, <1>2, <2>1
<1>4. /\ \A i, j \in 1..n : i # j => frame[i].ts # frame[j].ts
      /\ ~FrameRegress => \A i, j \in 1..n : i < j => frame[i].ts < frame[j].ts
  BY DEF FrameSound, QuotesApart, QuotesAscend
<1> HIDE DEF n, g
<1>5. \A i \in 1..(n + 1) : i \in 1..n \/ i = n + 1
  BY <1>2
<1>6. QuotesApart(g)
  <2>1. ASSUME NEW i \in 1..(n + 1), NEW j \in 1..(n + 1), i # j
        PROVE  g[i].ts # g[j].ts
    BY <1>2, <1>3, <1>4, <1>5, <2>1
  <2> QED
    BY <1>2, <2>1 DEF QuotesApart
<1>7. ~FrameRegress => QuotesAscend(g)
  <2>1. ASSUME ~FrameRegress, NEW i \in 1..(n + 1), NEW j \in 1..(n + 1), i < j
        PROVE  g[i].ts < g[j].ts
    <3>1. i \in 1..n
      BY <1>2, <2>1
    <3> QED
      BY <1>2, <1>3, <1>4, <1>5, <2>1, <3>1
  <2> QED
    BY <1>2, <2>1 DEF QuotesAscend
<1> QED
  BY <1>1, <1>2, <1>6, <1>7 DEF g

LEMMA NoQuotesYet == <<>> \in Seq(Quote) /\ QuotesApart(<<>>) /\ QuotesAscend(<<>>)
<1>1. <<>> \in Seq(Quote) /\ Len(<<>>) = 0
  BY EmptySeq
<1> QED
  BY <1>1 DEF QuotesApart, QuotesAscend

LEMMA FrameStep == TypeOK /\ FrameSound /\ [ShadowNext]_vars => FrameSound'
<1> SUFFICES ASSUME TypeOK, FrameSound, [ShadowNext]_vars PROVE FrameSound'
  OBVIOUS
<1>1. ASSUME NEW quote \in FeedQuotes, QuoteArrives(quote)
      PROVE  FrameSound'
  <2>1. /\ quote \in Quote /\ frame' \in Seq(Quote) /\ QuotesApart(frame') /\ (~FrameRegress => QuotesAscend(frame'))
        /\ recorded' = recorded
    BY <1>1, FrameGrows DEF QuoteArrives
  <2>2. resolved' \in Seq(Resolved)
    BY <1>1, <2>1, QueueStep DEF QuoteArrives, OnEvent, TypeOK
  <2>3. windowed' \in Book /\ per_quote' \in Book
    <3>1. Loop(Windowed, windowed, Book, Resolved) /\ Loop(PerQuote, per_quote, Book, Resolved)
      BY BookLoops DEF Loop, FrameSound
    <3> QED
      BY <1>1, <2>2, <3>1, ThroughType DEF QuoteArrives
  <2> QED
    BY <2>1, <2>3 DEF FrameSound
<1>2. CASE FrameEnds
  <2>1. InOrder(frame) \in Seq(Quote)
    BY InOrderType DEF FrameSound
  <2>2. recorded' \in Seq(Quote)
    BY <1>2, <2>1, ConcatType DEF FrameEnds, FrameSound
  <2> QED
    BY <1>2, <2>2, NoQuotesYet DEF FrameEnds, FrameSound
<1>3. CASE UNCHANGED vars
  BY <1>3 DEF vars, bookVars, FrameSound, QuotesApart, QuotesAscend
<1> QED
  BY <1>1, <1>2, <1>3 DEF ShadowNext

\* The live books hold no more than trades at times, in every state of every
\* session, frames that regress included.
THEOREM ShadowTypes == ShadowSpec => []ShadowTypeOK
<1>1. ShadowInit => FrameSound
  BY NoQuotesYet, BookLoops DEF ShadowInit, FrameSound, Loop
<1>2. ShadowSpec => []TypeOK
  <2>1. IInv => TypeOK
    BY DEF IInv
  <2> QED
    BY <2>1, SessionRunsPipeline, QueueInvariant, PTL
<1>3. TypeOK /\ FrameSound => ShadowTypeOK
  BY DEF FrameSound, ShadowTypeOK
<1> QED
  BY <1>1, <1>2, <1>3, FrameStep, PTL DEF ShadowSpec

THEOREM FrameInvariant == ShadowSpec => []FrameSound
<1>1. ShadowInit => FrameSound
  BY NoQuotesYet, BookLoops DEF ShadowInit, FrameSound, Loop
<1>2. ShadowTypeOK => TypeOK
  BY DEF ShadowTypeOK
<1> QED
  BY <1>1, <1>2, FrameStep, ShadowTypes, PTL DEF ShadowSpec

LEMMA TrackStep == TypeOK /\ FrameSound /\ BooksTrack /\ [ShadowNext]_vars => BooksTrack'
<1> SUFFICES ASSUME TypeOK, FrameSound, BooksTrack, [ShadowNext]_vars, ~FrameRegress
             PROVE  /\ queue' = Evaluate(Seen').queue
                    /\ windowed' = Through(Windowed, NewBook, Rows(Seen'))
                    /\ per_quote' = Through(PerQuote, NewBook, Rows(Seen'))
  BY DEF BooksTrack
<1>0. /\ queue = Evaluate(Seen).queue
      /\ windowed = Through(Windowed, NewBook, Rows(Seen)) /\ per_quote = Through(PerQuote, NewBook, Rows(Seen))
  BY DEF BooksTrack
<1>1. ASSUME NEW quote \in FeedQuotes, QuoteArrives(quote)
      PROVE  /\ queue' = Evaluate(Seen').queue
             /\ windowed' = Through(Windowed, NewBook, Rows(Seen'))
             /\ per_quote' = Through(PerQuote, NewBook, Rows(Seen'))
  <2>1. quote \in Quote /\ frame' = Append(frame, quote) /\ recorded' = recorded
    BY <1>1, FrameGrows DEF QuoteArrives
  <2>2. Seen' = Append(Seen, quote) /\ Seen \in Seq(Quote)
    BY <2>1, AppendToConcat, ConcatType DEF Seen, FrameSound
  <2> DEFINE run == Evaluate(Seen)
             more == Resolve(queue, quote)
  <2>3. run \in Run /\ Evaluate(Seen') = EvaluateStep(run, quote)
    BY <2>1, <2>2, EvaluateGrows
  <2>4. Evaluate(Seen').queue = NextQueue(queue, quote) /\ Evaluate(Seen').rows = run.rows \o more
    BY <1>0, <2>3, EvaluateFields
  <2>5. queue' = NextQueue(queue, quote) /\ resolved' = more
    BY <1>1 DEF QuoteArrives, OnEvent
  <2>6. more \in Seq(Resolved) /\ run.rows \in Seq(Resolved)
    BY <2>1, <2>3, QueueStep DEF TypeOK, Run
  <2> HIDE DEF run, more
  <2>7. Rows(Seen') = run.rows \o more /\ Rows(Seen) = run.rows
    BY <2>4 DEF Rows, run
  <2>8. /\ windowed' = Through(Windowed, Through(Windowed, NewBook, run.rows), more)
        /\ per_quote' = Through(PerQuote, Through(PerQuote, NewBook, run.rows), more)
    BY <1>0, <1>1, <2>5, <2>7 DEF QuoteArrives
  <2>9. /\ Through(Windowed, NewBook, run.rows \o more) = Through(Windowed, Through(Windowed, NewBook, run.rows), more)
        /\ Through(PerQuote, NewBook, run.rows \o more) = Through(PerQuote, Through(PerQuote, NewBook, run.rows), more)
    BY <2>6, BookLoops, ThroughConcat
  <2> QED
    BY <2>4, <2>5, <2>7, <2>8, <2>9
<1>2. CASE FrameEnds
  <2>1. InOrder(frame) = frame
    BY InOrderAscending DEF FrameSound
  <2>2. Seen' = Seen
    <3>1. recorded' = Seen /\ frame' = <<>> /\ Seen \in Seq(Quote)
      BY <1>2, <2>1, ConcatType DEF FrameEnds, Seen, FrameSound
    <3> QED
      BY <3>1, ConcatEmptySeq DEF Seen
  <2> QED
    BY <1>0, <1>2, <2>2 DEF FrameEnds, pipelineVars
<1>3. CASE UNCHANGED vars
  BY <1>0, <1>3 DEF vars, bookVars, pipelineVars, Seen
<1> QED
  BY <1>1, <1>2, <1>3 DEF ShadowNext

THEOREM BooksTracked == ShadowSpec => []BooksTrack
<1>1. ShadowInit => BooksTrack
  <2> SUFFICES ASSUME ShadowInit PROVE BooksTrack
    OBVIOUS
  <2>1. Seen = <<>>
    <3>1. <<>> \in Seq(Quote)
      BY EmptySeq
    <3> QED
      BY <3>1, ConcatEmptySeq DEF ShadowInit, Seen
  <2>2. Evaluate(<<>>).queue = <<>> /\ Rows(<<>>) = <<>>
    BY EvaluateGrows DEF Start, Rows
  <2>3. Through(Windowed, NewBook, <<>>) = NewBook /\ Through(PerQuote, NewBook, <<>>) = NewBook
    BY BookLoops, ThroughEmpty
  <2> QED
    BY <2>1, <2>2, <2>3 DEF ShadowInit, Init, BooksTrack
<1>2. ShadowTypeOK => TypeOK
  BY DEF ShadowTypeOK
<1> QED
  BY <1>1, <1>2, TrackStep, ShadowTypes, FrameInvariant, PTL DEF ShadowSpec

\* "If this ever disagrees with the nightly digest, that is a bug": whatever
\* the horizon and however quotes arrive, as long as no frame regresses, the
\* live books are trade for trade what the backtest finds in the recording,
\* and the comparison script says so.
THEOREM BooksMatch == ASSUME ~FrameRegress PROVE ShadowSpec => []BooksMatchBacktest
<1>1. FrameSound /\ BooksTrack => BooksMatchBacktest
  <2> SUFFICES ASSUME FrameSound, BooksTrack, frame = <<>>
               PROVE  /\ windowed.trades = Simulate(NonOverlapping(Rows(recorded)))
                      /\ per_quote.trades = Simulate(Rows(recorded))
                      /\ all_ok(Replay(recorded))
                      /\ Replay(recorded).live_w = windowed /\ Replay(recorded).live_pq = per_quote
    BY DEF BooksMatchBacktest
  <2>1. recorded \in Seq(Quote) /\ Seen = recorded
    BY ConcatEmptySeq DEF FrameSound, Seen
  <2> DEFINE rows == Rows(recorded)
             q == Evaluate(recorded).queue
  <2>2. rows \in Seq(Resolved)
    BY <2>1, EvaluateGrows DEF Rows, Run
  <2>3. Replay(recorded) = Compared(q, rows)
    BY <2>1, ReplayCompares DEF Rows
  <2>4. windowed = Through(Windowed, NewBook, rows) /\ per_quote = Through(PerQuote, NewBook, rows)
    BY <2>1 DEF BooksTrack
  <2> HIDE DEF rows, q
  <2>5. windowed.trades = Simulate(NonOverlapping(rows)) /\ per_quote.trades = Simulate(rows)
    BY <2>2, <2>4, LiveBooks DEF WindowedBook, PerQuoteBook
  <2>6. /\ Compared(q, rows).live_w = windowed /\ Compared(q, rows).live_pq = per_quote
        /\ Compared(q, rows).nov_rows = NonOverlapping(rows) /\ Compared(q, rows).all_rows = rows
    BY <2>4 DEF Compared, Known
  <2> QED
    BY <2>3, <2>5, <2>6 DEF all_ok, rows
<1> QED
  BY <1>1, FrameInvariant, BooksTracked, PTL
-----------------------------------------------------------------------------
(* Every prediction is resolved or waiting, in the order they were made.   *)

OfQuotes(T) == \A x \in T : x.of \in Quote

LEMMA QuotesOfType ==
    ASSUME NEW T, OfQuotes(T), NEW s \in Seq(T)
    PROVE  /\ QuotesOf(s) \in Seq(Quote) /\ Len(QuotesOf(s)) = Len(s)
           /\ \A i \in 1..Len(s) : QuotesOf(s)[i] = s[i].of
<1>1. Len(s) \in Nat /\ DOMAIN s = 1..Len(s) /\ \A i \in 1..Len(s) : s[i] \in T
  BY LenProperties, ElementOfSeq
<1> DEFINE n == Len(s)
           f == [i \in 1..n |-> s[i].of]
<1>2. QuotesOf(s) = f
  BY <1>1 DEF QuotesOf
<1>3. f \in [1..n -> Quote]
  BY <1>1 DEF OfQuotes
<1>4. f \in Seq(Quote) /\ Len(f) \in Nat /\ DOMAIN f = 1..Len(f)
  <2>1. f \in Seq(Quote)
    <3> HIDE DEF f, n
    <3> QED
      BY <1>1, <1>3, SeqDef DEF n
  <2> QED
    BY <2>1, LenProperties
<1>5. Len(f) = n
  <2>1. n \in Nat
    BY <1>1
  <2> HIDE DEF n
  <2> QED
    BY <2>1
<1> QED
  BY <1>2, <1>4, <1>5

LEMMA QuotesOfSame ==
    ASSUME NEW S, OfQuotes(S), NEW T, OfQuotes(T), NEW s \in Seq(S), NEW t \in Seq(T),
           Len(s) = Len(t), \A i \in 1..Len(s) : s[i].of = t[i].of
    PROVE  QuotesOf(s) = QuotesOf(t)
<1>1. /\ QuotesOf(s) \in Seq(Quote) /\ Len(QuotesOf(s)) = Len(s) /\ \A i \in 1..Len(s) : QuotesOf(s)[i] = s[i].of
      /\ QuotesOf(t) \in Seq(Quote) /\ Len(QuotesOf(t)) = Len(s) /\ \A i \in 1..Len(s) : QuotesOf(t)[i] = t[i].of
  BY QuotesOfType
<1> QED
  BY <1>1, SeqEqual

LEMMA QuotesOfAppend ==
    ASSUME NEW T, OfQuotes(T), NEW s \in Seq(T), NEW x \in T
    PROVE  QuotesOf(Append(s, x)) = Append(QuotesOf(s), x.of)
<1> DEFINE n == Len(s)
           a == Append(s, x)
           left == QuotesOf(a)
           right == Append(QuotesOf(s), x.of)
<1>1. /\ n \in Nat /\ a \in Seq(T) /\ Len(a) = n + 1 /\ a[n + 1] = x
      /\ \A i \in 1..n : a[i] = s[i]
  BY LenProperties, AppendProperties
<1>2. left \in Seq(Quote) /\ Len(left) = Len(a) /\ \A i \in 1..Len(a) : left[i] = a[i].of
  BY <1>1, QuotesOfType
<1>3. QuotesOf(s) \in Seq(Quote) /\ Len(QuotesOf(s)) = n /\ \A i \in 1..n : QuotesOf(s)[i] = s[i].of
  BY QuotesOfType
<1>4. /\ right \in Seq(Quote) /\ Len(right) = n + 1 /\ right[n + 1] = x.of
      /\ \A i \in 1..n : right[i] = QuotesOf(s)[i]
  <2>1. x.of \in Quote
    BY DEF OfQuotes
  <2> QED
    BY <1>3, <2>1, AppendProperties
<1> HIDE DEF n, a, left, right
<1>5. \A i \in 1..(n + 1) : i \in 1..n \/ i = n + 1
  BY <1>1
<1>6. \A i \in 1..(n + 1) : left[i] = right[i]
  BY <1>1, <1>2, <1>3, <1>4, <1>5
<1>7. left = right
  BY <1>1, <1>2, <1>4, <1>6, SeqEqual
<1> QED
  BY <1>7 DEF left, right, a

LEMMA QuotesOfConcat ==
    ASSUME NEW T, OfQuotes(T), NEW a \in Seq(T), NEW b \in Seq(T)
    PROVE  QuotesOf(a \o b) = QuotesOf(a) \o QuotesOf(b)
<1> DEFINE m == Len(a)
           n == Len(b)
           c == a \o b
           left == QuotesOf(c)
           right == QuotesOf(a) \o QuotesOf(b)
<1>1. /\ m \in Nat /\ n \in Nat /\ c \in Seq(T) /\ Len(c) = m + n
      /\ \A i \in 1..(m + n) : c[i] = IF i <= m THEN a[i] ELSE b[i - m]
  BY LenProperties, ConcatProperties
<1>2. left \in Seq(Quote) /\ Len(left) = Len(c) /\ \A i \in 1..Len(c) : left[i] = c[i].of
  BY <1>1, QuotesOfType
<1>3. /\ QuotesOf(a) \in Seq(Quote) /\ Len(QuotesOf(a)) = m /\ \A i \in 1..m : QuotesOf(a)[i] = a[i].of
      /\ QuotesOf(b) \in Seq(Quote) /\ Len(QuotesOf(b)) = n /\ \A i \in 1..n : QuotesOf(b)[i] = b[i].of
  BY QuotesOfType
<1>4. /\ right \in Seq(Quote) /\ Len(right) = m + n
      /\ \A i \in 1..(m + n) : right[i] = IF i <= m THEN QuotesOf(a)[i] ELSE QuotesOf(b)[i - m]
  <2> DEFINE qa == QuotesOf(a)
             qb == QuotesOf(b)
  <2>1. qa \in Seq(Quote) /\ qb \in Seq(Quote) /\ Len(qa) = m /\ Len(qb) = n
    BY <1>3
  <2> HIDE DEF qa, qb, m, n
  <2>2. /\ qa \o qb \in Seq(Quote) /\ Len(qa \o qb) = m + n
        /\ \A i \in 1..(m + n) : (qa \o qb)[i] = IF i <= m THEN qa[i] ELSE qb[i - m]
    BY <2>1, ConcatProperties
  <2> QED
    BY <2>2 DEF qa, qb
<1> HIDE DEF m, n, c, left, right
<1>5. ASSUME NEW i \in 1..(m + n)
      PROVE  left[i] = right[i]
  <2>1. CASE i <= m
    <3>1. i \in 1..m
      BY <1>1, <2>1
    <3> QED
      BY <1>1, <1>2, <1>3, <1>4, <2>1, <3>1
  <2>2. CASE ~(i <= m)
    <3>1. i - m \in 1..n
      BY <1>1, <2>2
    <3> QED
      BY <1>1, <1>2, <1>3, <1>4, <2>2, <3>1
  <2> QED
    BY <2>1, <2>2
<1>6. left = right
  BY <1>1, <1>2, <1>4, <1>5, SeqEqual
<1> QED
  BY <1>6 DEF left, right, c

LEMMA LabelsOfQuotes == OfQuotes(Pending) /\ OfQuotes(Resolved)
BY DEF OfQuotes, Pending, Resolved

\* A quote resolves the front of the queue, in order.
LEMMA ResolvesFront ==
    ASSUME NEW q \in Seq(Pending), NEW quote \in Quote
    PROVE  QuotesOf(q) = QuotesOf(Resolve(q, quote)) \o QuotesOf(Unresolved(q, quote))
<1> DEFINE n == Popped(q, quote)
           front == SubSeq(q, 1, n)
           back == SubSeq(q, n + 1, Len(q))
           out == Resolve(q, quote)
<1>1. n \in 0..Len(q) /\ out \in Seq(Resolved) /\ Len(q) \in Nat
  BY SplitsAny, LenProperties
<1>2. front \in Seq(Pending) /\ back \in Seq(Pending) /\ q = front \o back
  BY <1>1, SequenceSplits
<1>3. Len(front) = n /\ \A i \in 1..n : front[i] = q[i]
  <2> HIDE DEF n
  <2>1. \A i \in 1..n : q[i] \in Pending
    BY <1>1, ElementOfSeq
  <2>2. front = [i \in 1..n |-> q[i]]
    BY <1>1
  <2> QED
    BY <1>1, <2>2
<1>4. Len(out) = n /\ \A i \in 1..n : out[i].of = q[i].of
  <2>1. out = [i \in 1..n |-> [of |-> q[i].of, ts |-> q[i].ts, at |-> quote]]
    BY DEF Resolve
  <2> HIDE DEF n
  <2> QED
    BY <1>1, <2>1
<1>5. QuotesOf(front) = QuotesOf(out)
  <2> HIDE DEF front, out, n
  <2>1. Len(front) = Len(out) /\ \A i \in 1..Len(front) : front[i].of = out[i].of
    BY <1>3, <1>4
  <2> QED
    BY <1>1, <1>2, <2>1, LabelsOfQuotes, QuotesOfSame
<1>6. QuotesOf(front \o back) = QuotesOf(front) \o QuotesOf(back)
  <2> HIDE DEF front, back
  <2> QED
    BY <1>2, LabelsOfQuotes, QuotesOfConcat
<1>7. back = Unresolved(q, quote)
  BY DEF Unresolved
<1> HIDE DEF front, back, out
<1> QED
  BY <1>2, <1>5, <1>6, <1>7 DEF out

LEMMA PredictionsKept ==
    \A s \in Seq(Quote) :
        QuotesOf(Evaluate(s).rows) \o QuotesOf(Evaluate(s).queue) = Filter(s, Predicted)
<1> DEFINE Kept(s) == QuotesOf(Evaluate(s).rows) \o QuotesOf(Evaluate(s).queue) = Filter(s, Predicted)
           W == {s \in Seq(Quote) : Kept(s)}
<1>1. <<>> \in W
  <2>1. <<>> \in Seq(Quote) /\ Evaluate(<<>>).queue = <<>> /\ Evaluate(<<>>).rows = <<>>
    BY EmptySeq, EvaluateGrows DEF Start
  <2>2. QuotesOf(<<>>) = <<>>
    <3>1. <<>> \in Seq(Pending) /\ Len(<<>>) = 0
      BY EmptySeq
    <3>2. QuotesOf(<<>>) \in Seq(Quote) /\ Len(QuotesOf(<<>>)) = 0
      BY <3>1, LabelsOfQuotes, QuotesOfType
    <3> QED
      BY <3>2, EmptySeq
  <2>3. Filter(<<>>, Predicted) = <<>> /\ <<>> \o <<>> = <<>>
    BY <2>1, FilterEmpty, ConcatEmptySeq
  <2> QED
    BY <2>1, <2>2, <2>3
<1>2. ASSUME NEW s \in Seq(Quote), NEW quote \in Quote, s \in W
      PROVE  Append(s, quote) \in W
  <2> DEFINE t == Append(s, quote)
             q == Evaluate(s).queue
             rows == Evaluate(s).rows
             out == Resolve(q, quote)
             rest == Unresolved(q, quote)
  <2>1. q \in Seq(Pending) /\ rows \in Seq(Resolved) /\ t \in Seq(Quote)
    BY EvaluateGrows, AppendProperties DEF Run
  <2>2. /\ Evaluate(t).queue = NextQueue(q, quote)
        /\ Evaluate(t).rows = rows \o out
    <3>1. Evaluate(t) = EvaluateStep(Evaluate(s), quote)
      BY EvaluateGrows
    <3> QED
      BY <3>1, EvaluateFields
  <2>3. out \in Seq(Resolved) /\ rest \in Seq(Pending)
    BY <2>1, SplitsAny
  <2>4. QuotesOf(rows) \o QuotesOf(q) = Filter(s, Predicted)
    BY <1>2
  <2> DEFINE A == QuotesOf(rows)
             B == QuotesOf(out)
             C == QuotesOf(rest)
  <2>5. A \in Seq(Quote) /\ B \in Seq(Quote) /\ C \in Seq(Quote)
    <3> HIDE DEF rows, q, out, rest
    <3> QED
      BY <2>1, <2>3, LabelsOfQuotes, QuotesOfType
  <2>6. QuotesOf(q) = B \o C
    <3> HIDE DEF q
    <3> QED
      BY <2>1, ResolvesFront
  <2>7. QuotesOf(rows \o out) = A \o B
    <3> HIDE DEF rows, out
    <3> QED
      BY <2>1, <2>3, LabelsOfQuotes, QuotesOfConcat
  <2>8. QuotesOf(NextQueue(q, quote)) = IF HasVector(quote) THEN Append(C, quote) ELSE C
    <3> HIDE DEF rest, q
    <3>1. CASE HasVector(quote)
      <4> DEFINE p == [of |-> quote, ts |-> Clamped(rest, quote)]
      <4>1. NextQueue(q, quote) = Append(rest, p)
        BY <3>1 DEF NextQueue, Add, rest
      <4>2. p \in Pending /\ p.of = quote
        BY <2>3, Joins DEF Pending
      <4> HIDE DEF p
      <4>3. QuotesOf(Append(rest, p)) = Append(C, p.of)
        BY <2>3, <4>2, LabelsOfQuotes, QuotesOfAppend
      <4> QED
        BY <3>1, <4>1, <4>2, <4>3
    <3>2. CASE ~HasVector(quote)
      BY <3>2 DEF NextQueue, Add, rest
    <3> QED
      BY <3>1, <3>2
  <2>9. Filter(t, Predicted) = IF HasVector(quote) THEN Append(Filter(s, Predicted), quote) ELSE Filter(s, Predicted)
    <3>1. quote \in Predicted <=> HasVector(quote)
      BY DEF Predicted
    <3> QED
      BY <3>1, FilterAppend
  <2> HIDE DEF A, B, C
  <2>10. (A \o B) \o C = Filter(s, Predicted)
    <3>1. Assoc(A, B, C)
      BY <2>5, AssocHolds
    <3> QED
      BY <2>4, <2>6, <3>1 DEF Assoc, A
  <2>11. (A \o B) \o Append(C, quote) = Append(Filter(s, Predicted), quote)
    <3>1. A \o B \in Seq(Quote)
      BY <2>5, ConcatType
    <3> DEFINE ab == A \o B
    <3> HIDE DEF ab
    <3>2. ab \o Append(C, quote) = Append(ab \o C, quote)
      BY <2>5, <3>1, AppendToConcat DEF ab
    <3> QED
      BY <2>10, <3>2 DEF ab
  <2>12. Kept(t)
    <3> HIDE DEF t, q, rows, out
    <3>1. QuotesOf(Evaluate(t).rows) \o QuotesOf(Evaluate(t).queue) =
            (A \o B) \o (IF HasVector(quote) THEN Append(C, quote) ELSE C)
      BY <2>2, <2>7, <2>8
    <3> QED
      BY <2>9, <2>10, <2>11, <3>1
  <2> QED
    BY <2>1, <2>12
<1>3. \A s \in Seq(Quote) : s \in W
  <2> HIDE DEF W
  <2> QED
    BY <1>1, <1>2, SequenceInduction
<1> QED
  BY <1>3

\* Between frames no prediction has been lost, doubled or overtaken, whatever
\* the horizon, the timestamps and the number of quotes.
THEOREM LabelsAreConserved == ShadowSpec => []LabelsConserved
<1>1. FrameSound /\ BooksTrack => LabelsConserved
  <2> SUFFICES ASSUME FrameSound, BooksTrack, frame = <<>>, ~FrameRegress
               PROVE  QuotesOf(Rows(recorded)) \o QuotesOf(queue) = Filter(recorded, Predicted)
    BY DEF LabelsConserved
  <2>1. recorded \in Seq(Quote) /\ Seen = recorded
    BY ConcatEmptySeq DEF FrameSound, Seen
  <2> QED
    BY <2>1, PredictionsKept DEF BooksTrack, Rows
<1> QED
  BY <1>1, FrameInvariant, BooksTracked, PTL
=============================================================================
