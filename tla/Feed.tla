-------------------------------- MODULE Feed --------------------------------
(***************************************************************************)
(* Market data, from the websocket to the queue: AlpacaSource and          *)
(* CoinbaseSource (connect, handshake, frames, reconnection with backoff), *)
(* IngestStage (ring buffers, then a put that waits for room), and the     *)
(* recorder that owns them (scripts/record_dual.py: two sources, one       *)
(* queue).                                                                 *)
(*                                                                         *)
(* phase[s] is where source s is suspended in stream().  A frame is        *)
(* handled without suspension unless the put has to wait: while a source   *)
(* is in phase "frame" nothing else of the event loop moves.               *)
(***************************************************************************)
EXTENDS Loops, SequencesExt

CONSTANTS
    Sources,       \* the sources of the recorder
    Keyed,         \* those that authenticate: AlpacaSource
    Products,      \* what each of them is subscribed to
    Answers,       \* what a server may put into a frame
    Depth,         \* buffer_depth
    QueueCap,      \* maxsize of the queue
    BackoffCap,    \* reconnect_cap_s; the initial delay is 1, the factor 2
    MaxExponent,   \* largest e for which 2.0**e is a float
    MaxEvents      \* bound: events yielded in a behaviour

Kinds == {"trade", "quote", "bar"}
Bodies == Kinds \cup {"both", "control", "garbled"}

\* One source per venue, and no product of Alpaca's reads like one of
\* Coinbase's symbols.
ASSUME FeedAssumption ==
    /\ Keyed \subseteq Sources
    /\ \A s, t \in Sources : (s \in Keyed <=> t \in Keyed) => s = t
    /\ \A p, q \in Products : p # <<"CB", q>>
    /\ Answers \subseteq [body : Bodies, product : Products]
    /\ Depth \in Nat \ {0} /\ QueueCap \in Nat \ {0}
    /\ BackoffCap \in Nat \ {0} /\ MaxExponent \in Nat
    /\ MaxEvents \in Nat

VARIABLES
    phase,     \* where stream() of a source is
    closed,    \* _closed
    attempt,   \* ExponentialBackoff._attempt
    delay,     \* what it sleeps before the next connection
    frame,     \* messages of the current frame not yet parsed
    ready,     \* events parsed from a message and not yet yielded
    ring,      \* IngestStage.buffers: a ring of ticks per product
    events,    \* IngestStage.events
    queue,     \* the queue both stages put into
    owner,     \* the recorder: "recording" or "stopped"
    yielded,   \* observer: what each source yielded
    taken,     \* observer: what the consumer got
    fails      \* observer: failures since the last handshake

link == <<phase, closed, attempt, delay, fails>>
flow == <<frame, ready, ring, events, queue, yielded, taken>>
vars == <<link, flow, owner>>

R == INSTANCE RingBuffer WITH Capacity <- Depth
-----------------------------------------------------------------------------
Down == {"opening", "handshake", "sleep"}
Gone == {"ended", "unauthorized", "malformed", "overflow", "cancelled"}
Quiet == \A s \in Sources : phase[s] # "frame"
Phases == Down \cup {"up", "frame", "put"} \cup Gone

Smaller(a, b) == IF a < b THEN a ELSE b

\* Fault: the venue left out.
BareSymbolOf(s, p) == p

\* Alpaca's symbols as they are, Coinbase's with the venue in front.
SymbolOf(s, p) == IF s \in Keyed THEN p ELSE <<"CB", p>>

Event(s, p, kind, n) == [source |-> s, product |-> p, sym |-> SymbolOf(s, p), kind |-> kind, n |-> n]

Symbols == {SymbolOf(s, p) : s \in Sources, p \in Products}
Events ==
    {e \in [source : Sources, product : Products, sym : Symbols, kind : Kinds, n : Nat] :
        e.sym = SymbolOf(e.source, e.product)}
EventsOf(s) == {e \in Events : e.source = s}

\* What one message becomes.  An Alpaca message is a trade, a quote, a bar or
\* a control message; a Coinbase ticker carries a quote, a trade, or both.
parse_message(s, m) ==
    IF m.body \in Kinds THEN <<Event(s, m.product, m.body, m.n)>> ELSE <<>>

parse_ticker(s, m) ==
    (IF m.body \in {"quote", "both"} THEN <<Event(s, m.product, "quote", m.n)>> ELSE <<>>)
    \o (IF m.body \in {"trade", "both"} THEN <<Event(s, m.product, "trade", m.n)>> ELSE <<>>)

Parse(s, m) == IF s \in Keyed THEN parse_message(s, m) ELSE parse_ticker(s, m)

Init ==
    /\ phase = [s \in Sources |-> "opening"]
    /\ closed = [s \in Sources |-> FALSE]
    /\ attempt = [s \in Sources |-> 0] /\ delay = [s \in Sources |-> 0]
    /\ fails = [s \in Sources |-> 0]
    /\ frame = [s \in Sources |-> <<>>] /\ ready = [s \in Sources |-> <<>>]
    /\ ring = [s \in Sources |-> [p \in Products |-> R!EmptyRing]]
    /\ events = [s \in Sources |-> 0]
    /\ queue = <<>> /\ taken = <<>>
    /\ yielded = [s \in Sources |-> <<>>]
    /\ owner = "recording"
-----------------------------------------------------------------------------
(* stream: the connection.                                                 *)

\* Fault: a source that woke sleeps on.
LoopHeadAsleep(s) == phase' = [phase EXCEPT ![s] = IF closed[s] THEN "ended" ELSE "sleep"]

\* The head of the while loop.
LoopHead(s) == phase' = [phase EXCEPT ![s] = IF closed[s] THEN "ended" ELSE "opening"]

Opened(s) ==
    /\ phase[s] = "opening"
    /\ phase' = [phase EXCEPT ![s] = "handshake"]
    /\ UNCHANGED <<closed, attempt, delay, fails, flow, owner>>

\* 2.0 ** e is not a float any more.
Overflows(k) == k > MaxExponent

\* Fault: the exponent is raised before it is used.
EagerDelay(k) == Smaller(BackoffCap, 2^(k + 1))

\* Fault: the delay has no cap.
UncappedDelay(k) == 2^k

\* ExponentialBackoff.next: the delay is capped, the exponent is not.  Its
\* jitter, a factor of at most 1.25 before the cap, is left out.
NextDelay(k) == Smaller(BackoffCap, 2^k)

\* Refused, dropped, timed out, or an answer of the handshake that may be
\* retried.  _backoff.next() is evaluated in the except clause: if it raises,
\* the exception leaves stream().
ConnectionLost(s) ==
    /\ phase[s] \in {"opening", "handshake", "up"}
    /\ IF closed[s]
       THEN /\ phase' = [phase EXCEPT ![s] = "ended"]
            /\ UNCHANGED <<attempt, delay, fails>>
       ELSE IF Overflows(attempt[s])
       THEN /\ phase' = [phase EXCEPT ![s] = "overflow"]
            /\ UNCHANGED <<attempt, delay, fails>>
       ELSE /\ phase' = [phase EXCEPT ![s] = "sleep"]
            /\ delay' = [delay EXCEPT ![s] = NextDelay(attempt[s])]
            /\ attempt' = [attempt EXCEPT ![s] = @ + 1]
            /\ fails' = [fails EXCEPT ![s] = @ + 1]
    /\ UNCHANGED <<closed, flow, owner>>

Wake(s) ==
    /\ phase[s] = "sleep"
    /\ LoopHead(s)
    /\ delay' = [delay EXCEPT ![s] = 0]
    /\ UNCHANGED <<closed, attempt, fails, flow, owner>>

\* Fault: a later outage goes on where the last one stopped.
HandshakeNoReset(s) ==
    /\ phase[s] = "handshake"
    /\ phase' = [phase EXCEPT ![s] = "up"]
    /\ fails' = [fails EXCEPT ![s] = 0]
    /\ UNCHANGED <<closed, attempt, delay, flow, owner>>

\* The banner and the login of Alpaca, or the acknowledgement of Coinbase,
\* then the backoff's reset.
HandshakeDone(s) ==
    /\ phase[s] = "handshake"
    /\ phase' = [phase EXCEPT ![s] = "up"]
    /\ attempt' = [attempt EXCEPT ![s] = 0]
    /\ fails' = [fails EXCEPT ![s] = 0]
    /\ UNCHANGED <<closed, delay, flow, owner>>

\* An answer of the handshake that is not JSON: json.loads raises ValueError,
\* which stream() does not catch.
HandshakeGarbled(s) ==
    /\ phase[s] = "handshake"
    /\ phase' = [phase EXCEPT ![s] = "malformed"]
    /\ UNCHANGED <<closed, attempt, delay, fails, flow, owner>>

\* Codes 401 and 402 are fatal; Coinbase's error is a RuntimeError like any
\* other, and retried by ConnectionLost.
AuthRefused(s) ==
    /\ s \in Keyed /\ phase[s] = "handshake"
    /\ phase' = [phase EXCEPT ![s] = "unauthorized"]
    /\ UNCHANGED <<closed, attempt, delay, fails, flow, owner>>

\* The peer closes in good order: the iteration over frames ends without an
\* exception and the loop connects again at once.
PeerEnds(s) ==
    /\ phase[s] = "up"
    /\ LoopHead(s)
    /\ UNCHANGED <<closed, attempt, delay, fails, flow, owner>>
-----------------------------------------------------------------------------
(* stream and IngestStage.run: a frame.                                    *)

\* Alpaca sends lists of messages, Coinbase one at a time.
Receive(s, first, second) ==
    /\ phase[s] = "up"
    /\ FoldFunction(+, 0, events) < MaxEvents
    /\ LET n == Len(yielded[s]) + 1
           Msg(a, k) == [body |-> a.body, product |-> a.product, n |-> n + k]
       IN  \/ frame' = [frame EXCEPT ![s] = <<Msg(first, 0)>>]
           \/ s \in Keyed /\ frame' = [frame EXCEPT ![s] = <<Msg(first, 0), Msg(second, 1)>>]
    /\ phase' = [phase EXCEPT ![s] = "frame"]
    /\ UNCHANGED <<closed, attempt, delay, fails>>
    /\ UNCHANGED <<ready, ring, events, queue, yielded, taken, owner>>

\* A message that is not what the parser expects raises ValueError or
\* KeyError, which stream() does not catch.
ParseNext(s) ==
    /\ phase[s] = "frame" /\ ready[s] = <<>> /\ frame[s] # <<>>
    /\ frame' = [frame EXCEPT ![s] = Tail(@)]
    /\ IF Head(frame[s]).body = "garbled"
       THEN phase' = [phase EXCEPT ![s] = "malformed"] /\ UNCHANGED ready
       ELSE ready' = [ready EXCEPT ![s] = Parse(s, Head(frame[s]))] /\ UNCHANGED phase
    /\ UNCHANGED <<closed, attempt, delay, fails>>
    /\ UNCHANGED <<ring, events, queue, yielded, taken, owner>>

FrameDone(s) ==
    /\ phase[s] = "frame" /\ ready[s] = <<>> /\ frame[s] = <<>>
    /\ phase' = [phase EXCEPT ![s] = "up"]
    /\ UNCHANGED <<closed, attempt, delay, fails, flow, owner>>

QueueFull == Len(queue) >= QueueCap

Store(s, e) ==
    ring' = IF e.kind = "trade"
            THEN [ring EXCEPT ![s][e.product] = R!Push(@, e.n)]
            ELSE ring

\* Fault: a full queue drops the event.
IngestDrops(s) ==
    /\ phase[s] = "frame" /\ ready[s] # <<>>
    /\ LET e == Head(ready[s]) IN
        /\ Store(s, e)
        /\ yielded' = [yielded EXCEPT ![s] = Append(@, e)]
        /\ events' = [events EXCEPT ![s] = @ + 1]
        /\ queue' = IF QueueFull THEN queue ELSE Append(queue, e)
        /\ ready' = [ready EXCEPT ![s] = Tail(@)]
    /\ UNCHANGED <<phase, closed, attempt, delay, fails, frame, taken, owner>>

\* One turn of IngestStage.run.  The event is in the ring and counted before
\* the put; a put without room leaves it first in `ready', in hand.
Ingest(s) ==
    /\ phase[s] = "frame" /\ ready[s] # <<>>
    /\ LET e == Head(ready[s]) IN
        /\ Store(s, e)
        /\ yielded' = [yielded EXCEPT ![s] = Append(@, e)]
        /\ events' = [events EXCEPT ![s] = @ + 1]
        /\ IF QueueFull
           THEN phase' = [phase EXCEPT ![s] = "put"] /\ UNCHANGED <<queue, ready>>
           ELSE /\ queue' = Append(queue, e)
                /\ ready' = [ready EXCEPT ![s] = Tail(@)]
                /\ UNCHANGED phase
    /\ UNCHANGED <<closed, attempt, delay, fails, frame, taken, owner>>

PutResumes(s) ==
    /\ Quiet /\ phase[s] = "put" /\ ~QueueFull
    /\ queue' = Append(queue, Head(ready[s]))
    /\ ready' = [ready EXCEPT ![s] = Tail(@)]
    /\ phase' = [phase EXCEPT ![s] = "frame"]
    /\ UNCHANGED <<closed, attempt, delay, fails>>
    /\ UNCHANGED <<frame, ring, events, yielded, taken, owner>>
-----------------------------------------------------------------------------
(* The consumer of the queue, and the recorder.                            *)

Take ==
    /\ Quiet /\ owner = "recording" /\ queue # <<>>
    /\ taken' = Append(taken, Head(queue))
    /\ queue' = Tail(queue)
    /\ UNCHANGED <<link, frame, ready, ring, events, yielded, owner>>

Close(s) ==
    /\ ~closed[s] /\ owner = "recording"
    /\ closed' = [closed EXCEPT ![s] = TRUE]
    /\ UNCHANGED <<phase, attempt, delay, fails, flow, owner>>

\* The finally clause of main_async: every source closed, every task
\* cancelled where it is suspended, no await in between.
StopRecording ==
    /\ Quiet /\ owner = "recording"
    /\ owner' = "stopped"
    /\ closed' = [s \in Sources |-> TRUE]
    /\ phase' = [s \in Sources |-> IF phase[s] \in Gone THEN phase[s] ELSE "cancelled"]
    /\ UNCHANGED <<attempt, delay, fails, flow>>

Connection(s) ==
    /\ Quiet
    /\ Opened(s) \/ HandshakeDone(s) \/ ConnectionLost(s) \/ Wake(s)

Handle(s) == ParseNext(s) \/ FrameDone(s) \/ Ingest(s)

Next ==
    \/ \E s \in Sources : Handle(s) \/ Connection(s) \/ PutResumes(s)
    \/ Quiet /\ \E s \in Sources : AuthRefused(s) \/ HandshakeGarbled(s) \/ PeerEnds(s) \/ Close(s)
    \/ Quiet /\ \E s \in Sources, a, b \in Answers : Receive(s, a, b)
    \/ Take \/ StopRecording

Spec == Init /\ [][Next]_vars

\* Every await of the handshake is limited in time, a sleep ends and a frame's
\* handling goes on.  Whether an attempt succeeds is not assumed: to lose the
\* connection is one way for it to go on.  Strong fairness, because the frames
\* of the other source take the event loop again and again: its ready queue is
\* first in first out.
FairSpec ==
    /\ Spec
    /\ \A s \in Sources : SF_vars(Connection(s)) /\ WF_vars(Handle(s))
-----------------------------------------------------------------------------
(* validate_ingest.py: the report of a soak.                               *)

\* SymbolStats.trades: what the consumer counted, by symbol.
TradesCounted(sym) == Len(Filter(taken, {e \in Events : e.sym = sym /\ e.kind = "trade"}))

CountsOk(s, p) == ring[s][p].count = Smaller(TradesCounted(SymbolOf(s, p)), Depth)

FinalReport == \A s \in Sources, p \in Products : CountsOk(s, p)
-----------------------------------------------------------------------------
FeedTypeOK ==
    /\ phase \in [Sources -> Phases]
    /\ closed \in [Sources -> BOOLEAN]
    /\ attempt \in [Sources -> Nat] /\ delay \in [Sources -> 0..BackoffCap]
    /\ fails \in [Sources -> Nat]
    /\ events \in [Sources -> Nat]
    /\ owner \in {"recording", "stopped"}

\* In hand: counted and in the ring, waiting for room in the queue.
InHand(s) ==
    IF phase[s] = "put" \/ (phase[s] = "cancelled" /\ ready[s] # <<>>) THEN <<Head(ready[s])>> ELSE <<>>

\* Nothing a source yielded is lost, doubled or overtaken on its way through
\* the shared queue, whoever waits for room and however often the connection
\* was made anew; a cancelled source loses at most the event in hand
\* (ingest.py:44), and the counter of events counts just these.
QueueKeepsOrder ==
    \A s \in Sources :
        /\ Filter(taken \o queue, EventsOf(s)) \o InHand(s) = yielded[s]
        /\ events[s] = Len(yielded[s])

\* A ring holds the last ticks of its symbol, oldest first, for every length
\* that may be asked for, before and after it wraps (ringbuffer.py:44).
Ticks(s, p) == Filter(yielded[s], {e \in Events : e.kind = "trade" /\ e.product = p})

RingsHoldTheTail ==
    \A s \in Sources, p \in Products :
        LET ticks == Ticks(s, p)
            r == ring[s][p]
        IN  /\ r.count = Smaller(Len(ticks), Depth)
            /\ \A n \in 0..r.count :
                 R!LastValues(r, n) = [k \in 1..n |-> ticks[Len(ticks) - n + k].n]
            /\ r.count > 0 => R!Latest(r) = Last(ticks).n

\* The soak's integrity report (validate_ingest.py:119) is right once the
\* queue is drained and no event is in hand: two venues quoting the same asset
\* are counted apart.
SoakReportSound ==
    (queue = <<>> /\ \A s \in Sources : InHand(s) = <<>>) => FinalReport

\* The rings are right, and the report that compares them with what the
\* consumer counted says so.
RingsSound == RingsHoldTheTail /\ SoakReportSound

\* The k-th failure in a row sleeps min(cap, 2^(k-1)), the first after a
\* successful handshake starts over, however many outages came before, and
\* next() raises only after as many failures in a row as there are exponents
\* (backoff.py:11, alpaca.py:166).
BackoffFollowsFailures ==
    \A s \in Sources :
        /\ phase[s] = "sleep" => fails[s] > 0 /\ delay[s] = Smaller(BackoffCap, 2^(fails[s] - 1))
        /\ phase[s] = "overflow" => fails[s] = MaxExponent + 1

\* From some moment on the venue loses no connection of s and fails no attempt.
VenueRecovers(s) == <>[][~ConnectionLost(s)]_vars

\* A source whose venue recovers is connected again, however long the outage
\* was, unless it was closed or refused for good.  Nothing is promised of a
\* stream that an exception left: EndsOnlyWhenTold is about those.
Reconnects ==
    \A s \in Sources :
        VenueRecovers(s) /\ [](phase[s] \notin {"malformed", "overflow"}) =>
            (phase[s] \in Down ~> phase[s] \in {"up", "frame", "put", "unauthorized"} \/ closed[s])

\* "Ends only when close() is called (or on fatal auth errors)" (data/base.py).
EndsOnlyWhenTold == \A s \in Sources : phase[s] \in Gone => closed[s] \/ phase[s] = "unauthorized"
=============================================================================
