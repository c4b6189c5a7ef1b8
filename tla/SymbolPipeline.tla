--------------------------- MODULE SymbolPipeline ---------------------------
(***************************************************************************)
(* The prediction core of one symbol (core.py) and its queue of labels     *)
(* (model/labels.py): a prediction made on a quote waits until a quote at  *)
(* least a horizon later supplies the price that was realized.             *)
(*                                                                         *)
(* A price is named by the quote that carried it, so a label remembers the *)
(* quote it was made on and, once resolved, the quote that resolved it.    *)
(***************************************************************************)
EXTENDS Integers, Sequences

CONSTANTS
    Horizon,    \* horizon_ns
    Burst,      \* how far back an exchange timestamp may fall
    MaxTime,    \* bound: the last timestamp
    MaxQuotes   \* bound: quotes in a behaviour

ASSUME PipelineAssumption ==
    /\ Horizon \in Nat \ {0}
    /\ Burst \in Nat
    /\ MaxTime \in Nat \ {0}
    /\ MaxQuotes \in Nat

VARIABLES
    queue,     \* LabelQueue._pending
    resolved,  \* the labels resolved by the last quote, in order
    last,      \* the last quote
    latest     \* observer: the latest timestamp of a quote so far

pipelineVars == <<queue, resolved, last, latest>>
-----------------------------------------------------------------------------
\* empty: no positive mid; blind: a mid but no feature vector, the quote is
\* crossed or the engine is warming up; flat and enter: a vector, on which
\* the trade rule stands aside or takes a side.
Kinds == {"empty", "blind", "flat", "enter"}

\* id numbers the quotes as they arrive.
Quote == [id : 0..MaxQuotes, ts : 0..MaxTime, kind : Kinds]
NoQuote == [id |-> 0, ts |-> 0, kind |-> "empty"]

Pending == [of : Quote, ts : 0..MaxTime]
Resolved == [of : Quote, ts : 0..MaxTime, at : Quote]

HasMid(quote) == quote.kind # "empty"
HasVector(quote) == quote.kind \in {"flat", "enter"}

Init ==
    /\ queue = <<>> /\ resolved = <<>>
    /\ last = NoQuote /\ latest = 0
-----------------------------------------------------------------------------
(* pop_ready: from the left, as long as the horizon has elapsed.           *)

\* Fault: a label is ready a tick before its horizon.
ElapsedEarly(p, now) == now >= p.ts + Horizon - 1

Elapsed(p, now) == now >= p.ts + Horizon

\* How many labels the loop pops.
ReadyCount(q, now) ==
    CHOOSE n \in 0..Len(q) :
        /\ \A i \in 1..n : Elapsed(q[i], now)
        /\ n < Len(q) => ~Elapsed(q[n + 1], now)

Popped(q, quote) == IF HasMid(quote) THEN ReadyCount(q, quote.ts) ELSE 0

Resolve(q, quote) ==
    [i \in 1..Popped(q, quote) |->
        [of |-> q[i].of, ts |-> q[i].ts, at |-> quote]]

\* Fault: the labels popped stay queued when the quote makes no prediction.
UnresolvedSticky(q, quote) ==
    IF HasVector(quote) THEN SubSeq(q, Popped(q, quote) + 1, Len(q)) ELSE q

Unresolved(q, quote) == SubSeq(q, Popped(q, quote) + 1, Len(q))
-----------------------------------------------------------------------------
(* add: the timestamp is clamped to the last label's.                      *)

\* Fault: the timestamp is taken as it comes.
ClampedNot(q, quote) == quote.ts

\* Fault: a clamped label is put beyond the last one.
ClampedBeyond(q, quote) ==
    IF q # <<>> /\ quote.ts <= q[Len(q)].ts THEN q[Len(q)].ts + 1 ELSE quote.ts

Clamped(q, quote) ==
    IF q # <<>> /\ quote.ts < q[Len(q)].ts THEN q[Len(q)].ts ELSE quote.ts

Add(q, quote) ==
    IF HasVector(quote)
    THEN Append(q, [of |-> quote, ts |-> Clamped(q, quote)])
    ELSE q
-----------------------------------------------------------------------------
(* on_event: resolve, then predict.                                        *)

NextQueue(q, quote) == Add(Unresolved(q, quote), quote)

OnEvent(quote) ==
    /\ resolved' = Resolve(queue, quote)
    /\ queue' = NextQueue(queue, quote)
    /\ last' = quote
    /\ latest' = IF quote.ts > latest THEN quote.ts ELSE latest

\* The quotes the feed can bring next.
FeedQuotes ==
    {quote \in Quote : /\ quote.id = last.id + 1
                       /\ quote.ts + Burst >= latest}

Next == \E quote \in FeedQuotes : OnEvent(quote)

Spec == Init /\ [][Next]_pipelineVars
-----------------------------------------------------------------------------
(* Properties.                                                             *)

TypeOK ==
    /\ queue \in Seq(Pending)
    /\ resolved \in Seq(Resolved)
    /\ last \in Quote
    /\ latest \in 0..MaxTime

\* "The core guard against lookahead": a label is resolved by a quote whose
\* exchange time is a horizon or more after the quote it was made on, however
\* timestamps regress, and is never resolved by a quote that came before.
NoLookahead ==
    \A i \in DOMAIN resolved :
        /\ resolved[i].at.ts >= resolved[i].of.ts + Horizon
        /\ resolved[i].of.id < resolved[i].at.id

\* The realized price is the first one observed after the horizon: a quote
\* with a mid leaves no label behind that is due at its time.
NoneOverdue ==
    HasMid(last) => \A i \in DOMAIN queue : queue[i].ts + Horizon > last.ts

\* The queue stays monotonic, in time and in the order of the predictions.
Monotonic ==
    \A i, j \in DOMAIN queue :
        i < j => queue[i].ts <= queue[j].ts /\ queue[i].of.id < queue[j].of.id

\* "The distortion is bounded by the burst width": clamping moves a label by
\* no more than timestamps regress, and never back.
ClampBounded ==
    \A i \in DOMAIN queue :
        /\ queue[i].of.ts <= queue[i].ts
        /\ queue[i].ts <= queue[i].of.ts + Burst

\* The queue of labels, between two quotes: nothing due is left in it, it is
\* in order, and clamping distorts it by a burst at most (labels.py:50).
QueueSound == NoneOverdue /\ Monotonic /\ ClampBounded
=============================================================================
