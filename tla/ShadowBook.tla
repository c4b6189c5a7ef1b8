----------------------------- MODULE ShadowBook -----------------------------
(***************************************************************************)
(* The live shadow books of one symbol (livesim.py), fed by the session    *)
(* loop of scripts/stocks_live.py, and what the evaluation of the recorded *)
(* session (data/replay.py, evaluation.py) says of the same quotes.        *)
(*                                                                         *)
(* A frame of the websocket brings several quotes that share one recv_ns.  *)
(* The live books see them as they come; the replay reads them back ordered*)
(* by recv_ns and, within a frame, by exchange time.                       *)
(***************************************************************************)
EXTENDS SymbolPipeline, Loops, FiniteSets

CONSTANT
    FrameRegress  \* whether timestamps may regress within a frame

ASSUME ShadowAssumption == FrameRegress \in BOOLEAN

VARIABLES
    windowed,   \* the book of LiveSim(windowed=True)
    per_quote,  \* the book of LiveSim(windowed=False)
    frame,      \* the quotes of the frame being read, as they came
    recorded    \* the complete frames, in the order a replay yields them

bookVars == <<windowed, per_quote, frame, recorded>>
vars == <<pipelineVars, bookVars>>
-----------------------------------------------------------------------------
\* Before any timestamp, with room for a horizon (-10**18 in the code).
Never == -Horizon

\* Fault: the window that was looked at does not count.
SamplesNot(book, r) == book

BusyUntil(r) == r.ts + Horizon

NewBook == [trades |-> <<>>, busy_until |-> Never, last_seen |-> Never]

\* decide, then the trade is booked.
Books(book, r) ==
    IF r.ts >= book.busy_until /\ r.of.kind = "enter"
    THEN [book EXCEPT !.trades = Append(@, r), !.busy_until = BusyUntil(r)]
    ELSE book

Samples(book, r) == [book EXCEPT !.last_seen = r.ts]

\* on_resolved, in the two cadences.
OnResolvedWindowed(book, r) ==
    IF r.ts < book.last_seen + Horizon THEN book ELSE Books(Samples(book, r), r)
OnResolvedPerQuote(book, r) == Books(book, r)

Book == [trades : Seq(Resolved), busy_until : Int, last_seen : Int]
Windowed == [book \in Book |-> [r \in Resolved |-> OnResolvedWindowed(book, r)]]
PerQuote == [book \in Book |-> [r \in Resolved |-> OnResolvedPerQuote(book, r)]]

ShadowInit ==
    /\ Init
    /\ windowed = NewBook /\ per_quote = NewBook
    /\ frame = <<>> /\ recorded = <<>>

\* One turn of the session loop: the pipeline, then the books.
QuoteArrives(quote) ==
    /\ \A i \in DOMAIN frame :
         quote.ts > frame[i].ts \/ (FrameRegress /\ quote.ts # frame[i].ts)
    /\ OnEvent(quote)
    /\ windowed' = Through(Windowed, windowed, resolved')
    /\ per_quote' = Through(PerQuote, per_quote, resolved')
    /\ frame' = Append(frame, quote)
    /\ UNCHANGED recorded

\* ORDER BY recv_ns, ts_ns, of a frame: its k-th quote has k - 1 before it.
Earlier(a, b) == a.ts < b.ts
InOrder(quotes) ==
    [k \in DOMAIN quotes |->
        quotes[CHOOSE i \in DOMAIN quotes :
                 Cardinality({j \in DOMAIN quotes : Earlier(quotes[j], quotes[i])}) = k - 1]]

FrameEnds ==
    /\ frame # <<>>
    /\ recorded' = recorded \o InOrder(frame)
    /\ frame' = <<>>
    /\ UNCHANGED <<pipelineVars, windowed, per_quote>>

ShadowNext ==
    \/ \E quote \in FeedQuotes : QuoteArrives(quote)
    \/ FrameEnds

ShadowSpec == ShadowInit /\ [][ShadowNext]_vars
-----------------------------------------------------------------------------
(* The evaluation of the recording.                                        *)

\* evaluate(non_overlapping=False): the rows of a replay through a pipeline.
Run == [queue : Seq(Pending), rows : Seq(Resolved)]
EvaluateStep(run, quote) ==
    [queue |-> NextQueue(run.queue, quote),
     rows |-> run.rows \o Resolve(run.queue, quote)]
Evaluating == [run \in Run |-> [quote \in Quote |-> EvaluateStep(run, quote)]]
Evaluate(quotes) == Through(Evaluating, [queue |-> <<>>, rows |-> <<>>], quotes)
Rows(quotes) == Evaluate(quotes).rows

\* evaluate(non_overlapping=True): rows at least a horizon apart.
Scores(scored, r) ==
    scored = <<>> \/ r.ts >= scored[Len(scored)].ts + Horizon
Scoring ==
    [scored \in Seq(Resolved) |-> [r \in Resolved |->
        IF Scores(scored, r) THEN Append(scored, r) ELSE scored]]
NonOverlapping(rows) == Through(Scoring, <<>>, rows)

\* simulate_trading: the trades of a sequence of rows.
Enters(trades, r) ==
    /\ trades = <<>> \/ r.ts >= trades[Len(trades)].ts + Horizon
    /\ r.of.kind = "enter"
Trading ==
    [trades \in Seq(Resolved) |-> [r \in Resolved |->
        IF Enters(trades, r) THEN Append(trades, r) ELSE trades]]
Simulate(rows) == Through(Trading, <<>>, rows)
-----------------------------------------------------------------------------
(* live_vs_backtest.py: the books and the rows, from one replay.           *)

Comparison ==
    [queue : Seq(Pending), live_w : Book, live_pq : Book,
     all_rows : Seq(Resolved), nov_rows : Seq(Resolved), last_scored : Int]
NoReplay ==
    [queue |-> <<>>, live_w |-> NewBook, live_pq |-> NewBook,
     all_rows |-> <<>>, nov_rows |-> <<>>, last_scored |-> Never]

ReplayResolved(at, r) ==
    LET apart == r.ts >= at.last_scored + Horizon
    IN  [at EXCEPT !.live_w = OnResolvedWindowed(@, r),
                   !.live_pq = OnResolvedPerQuote(@, r),
                   !.all_rows = Append(@, r),
                   !.nov_rows = IF apart THEN Append(@, r) ELSE @,
                   !.last_scored = IF apart THEN r.ts ELSE @]

Comparing == [at \in Comparison |-> [r \in Resolved |-> ReplayResolved(at, r)]]

ReplayQuote(at, quote) ==
    Through(Comparing, [at EXCEPT !.queue = NextQueue(at.queue, quote)], Resolve(at.queue, quote))
Replaying == [at \in Comparison |-> [quote \in Quote |-> ReplayQuote(at, quote)]]
Replay(quotes) == Through(Replaying, NoReplay, quotes)

\* The verdict; the trades are compared one by one, not by their mean.
all_ok(replay) ==
    /\ replay.live_w.trades = Simulate(replay.nov_rows)
    /\ replay.live_pq.trades = Simulate(replay.all_rows)
-----------------------------------------------------------------------------
(* Properties.                                                             *)

ShadowTypeOK ==
    /\ TypeOK
    /\ windowed \in Book /\ per_quote \in Book
    /\ frame \in Seq(Quote) /\ recorded \in Seq(Quote)

\* "If this ever disagrees with the nightly digest, that is a bug": between
\* two frames, both live books hold, trade for trade, what the backtest finds
\* in the recording, each at its own cadence; and the script that compares
\* them by a replay says so of the session's own books.
BooksMatchBacktest ==
    frame = <<>> =>
        /\ windowed.trades = Simulate(NonOverlapping(Rows(recorded)))
        /\ per_quote.trades = Simulate(Rows(recorded))
        /\ LET replay == Replay(recorded)
           IN  all_ok(replay) /\ replay.live_w = windowed /\ replay.live_pq = per_quote

QuotesOf(labels) == [i \in DOMAIN labels |-> labels[i].of]
Predicted == {quote \in Quote : HasVector(quote)}

\* Every prediction is resolved at most once, in the order the predictions
\* were made, and until then it is in the queue.
LabelsConserved ==
    frame = <<>> /\ ~FrameRegress =>
        QuotesOf(Rows(recorded)) \o QuotesOf(queue) = Filter(recorded, Predicted)
=============================================================================
