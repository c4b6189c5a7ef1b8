------------------------------ MODULE Research ------------------------------
(***************************************************************************)
(* The simulations that judge a recorded session: the evaluation and its   *)
(* baselines (signals/evaluation.py, scripts/gap_baseline.py), the nightly *)
(* digest's independent rows (scripts/equities_digest.py), fills that come *)
(* late (scripts/latency_sweep.py) and passive orders                      *)
(* (scripts/maker_sim.py).                                                 *)
(*                                                                         *)
(* The session is a tape of quotes, each with the prediction made on it.   *)
(* Prices are in half ticks, so a mid is whole, and a return is a          *)
(* difference of prices; fees are left out.                                *)
(***************************************************************************)
EXTENDS Loops, SequencesExt, FiniteSetsExt

CONSTANTS
    horizon,      \* horizon_ns
    wait,         \* wait_ns of a passive order
    dead_zone,    \* dead_zone_bps
    max_spread,   \* max_spread_bps
    Bids,         \* bids of a quote
    Spreads,      \* ask - bid; 0 is a locked quote
    Predictions,  \* forward returns predicted
    Gaps,         \* time between two quotes
    MaxTape       \* bound: quotes

ASSUME ResearchAssumption ==
    /\ horizon \in Nat \ {0} /\ wait \in Nat /\ dead_zone \in Nat /\ max_spread \in Nat
    /\ Bids \subseteq Nat \ {0} /\ Spreads \subseteq Nat /\ Predictions \subseteq Int
    /\ Gaps \subseteq Nat /\ MaxTape \in Nat

VARIABLE recording  \* the quotes of the recording

Mid(quote) == (quote.bid + quote.ask) \div 2

ResearchInit == recording = <<>>

QuoteRecorded(bid, spread, predicted, gap) ==
    /\ Len(recording) < MaxTape
    /\ recording' = Append(recording,
         [ts |-> (IF recording = <<>> THEN 0 ELSE recording[Len(recording)].ts) + gap,
          bid |-> 2 * bid, ask |-> 2 * (bid + spread), predicted |-> 2 * predicted])

ResearchNext ==
    \E bid \in Bids, spread \in Spreads, predicted \in Predictions, gap \in Gaps :
        QuoteRecorded(bid, spread, predicted, gap)

ResearchSpec == ResearchInit /\ [][ResearchNext]_recording
-----------------------------------------------------------------------------
(* The rows of an evaluation.                                              *)

\* The prediction on quote i is resolved by the first quote a horizon later.
Resolvers(i) == {j \in (i + 1)..Len(recording) : recording[j].ts >= recording[i].ts + horizon}

Row(i) ==
    [ts |-> recording[i].ts, prediction |-> recording[i].predicted,
     realized |-> Mid(recording[Min(Resolvers(i))]) - Mid(recording[i]),
     spread |-> recording[i].ask - recording[i].bid, persistence |-> 0]

\* Time goes forward, so what is resolved is what was recorded first.
Resolved == {i \in DOMAIN recording : Resolvers(i) # {}}
ResolvedRows == [i \in Resolved |-> Row(i)]

Rows == [ts : Nat, prediction : Int, realized : Int, spread : Int, persistence : Int]
Evaluations == [rows : Seq(Rows), last_ts : Int, last_realized : Int]
NoRows == [rows |-> <<>>, last_ts |-> -horizon, last_realized |-> 0]

Scored(at, r) ==
    [rows |-> Append(at.rows, [r EXCEPT !.persistence = at.last_realized]),
     last_ts |-> r.ts, last_realized |-> r.realized]

Evaluating(non_overlapping) ==
    [at \in Evaluations |-> [r \in Rows |->
        IF non_overlapping /\ r.ts < at.last_ts + horizon THEN at ELSE Scored(at, r)]]

\* evaluate: a row and the baseline known before it.
evaluate(non_overlapping) == Through(Evaluating(non_overlapping), NoRows, ResolvedRows).rows

\* equities_digest: a row of the independent ones, its baseline made anew.
Rebased(at, r) == [r EXCEPT !.persistence = at.last_realized]

Thinning ==
    [at \in Evaluations |-> [r \in Rows |->
        IF r.ts >= at.last_ts + horizon
        THEN [rows |-> Append(at.rows, Rebased(at, r)), last_ts |-> r.ts, last_realized |-> r.realized]
        ELSE at]]

_non_overlapping(rows) == Through(Thinning, NoRows, rows).rows

\* equities_digest and latency_sweep: the first row of each bucket of time.
Gridding(phase) ==
    [at \in [rows : Seq(Rows), bucket : Int] |-> [r \in Rows |->
        LET bucket == (r.ts + phase) \div horizon
        IN  IF bucket = at.bucket THEN at ELSE [rows |-> Append(at.rows, r), bucket |-> bucket]]]

_on_grid(rows, phase) == Through(Gridding(phase), [rows |-> <<>>, bucket |-> -1], rows).rows
-----------------------------------------------------------------------------
(* One position at a time, held for the horizon.                           *)

Sides == {-1, 1}
Rules == [Rows -> Sides \cup {0}]

\* simrule.decide and simrule.net_bps; threshold and prediction are doubled.
simrule_decide ==
    [r \in Rows |->
        IF r.spread > max_spread THEN 0
        ELSE IF 2 * r.prediction > r.spread + 2 * dead_zone THEN 1
        ELSE IF -2 * r.prediction > r.spread + 2 * dead_zone THEN -1
        ELSE 0]

net_bps(side, realized, spread) == side * realized - spread

\* A trade of a row's move, and one of a passive order, with the quotes at
\* which its position was opened and closed.
Trades ==
    [ts : Nat, side : Sides, net : Int, busy_until : Int]
    \cup [ts : Nat, side : Sides, opened : Nat, closed : Nat, net : Int, busy_until : Int]
Books == [trades : Seq(Trades), busy_until : Int]
NoTrades == [trades |-> <<>>, busy_until |-> -horizon]

\* The loop all of them share: a trade of each row the rule takes while no
\* position is held.  trade[r][side] has the trade, or is empty.
Sequencing(rule, trade) ==
    [at \in Books |-> [r \in Rows |->
        IF r.ts < at.busy_until \/ rule[r] = 0 \/ trade[r][rule[r]] = {} THEN at
        ELSE LET t == CHOOSE x \in trade[r][rule[r]] : TRUE
             IN  [trades |-> Append(at.trades, t), busy_until |-> t.busy_until]]]

Sequential(rows, rule, trade) == Through(Sequencing(rule, trade), NoTrades, rows).trades

Plain ==
    [r \in Rows |-> [side \in Sides |->
        {[ts |-> r.ts, side |-> side, net |-> net_bps(side, r.realized, r.spread), busy_until |-> r.ts + horizon]}]]

simulate_trading(rows) == Sequential(rows, simrule_decide, Plain)

\* allow_short=False.
LongOnly == [r \in Rows |-> IF simrule_decide[r] = 1 THEN 1 ELSE 0]

SignOf(x) == IF x > 0 THEN 1 ELSE IF x < 0 THEN -1 ELSE 0

\* evaluation: against the last independent move, whatever its size.
simulate_fade_rule(rows) ==
    LET against == [r \in Rows |-> IF r.persistence = 0 THEN 0 ELSE IF r.persistence > 0 THEN -1 ELSE 1]
    IN  Sequential(rows, against, Plain)

\* gap_baseline: any rule that names a side.
_net_bps(rows, rule) == Sequential(rows, rule, Plain)
fade_side == [r \in Rows |-> -SignOf(r.persistence)]

\* gap_baseline: how often a side is that of the move, of those that have one.
_acc(rows, side_of) ==
    LET counted == Filter(rows, {r \in Rows : side_of[r] # 0 /\ r.realized # 0})
    IN  [n |-> Len(counted), hits |-> Len(Filter(counted, {r \in Rows : side_of[r] = SignOf(r.realized)}))]

\* evaluation: the rows from lo up to hi, counted from 0.
segment(rows, lo, hi) ==
    LET seg == SubSeq(rows, lo + 1, hi)
        right(r, x) == r.realized # 0 /\ (x > 0) = (r.realized > 0)
        nz == Filter(seg, {r \in Rows : r.prediction # 0 /\ r.realized # 0})
        nzp == Filter(seg, {r \in Rows : r.persistence # 0 /\ r.realized # 0})
    IN  [n |-> Len(seg), decided |-> Len(nz), persisting |-> Len(nzp),
         dir_hits |-> Len(Filter(nz, {r \in Rows : right(r, r.prediction)})),
         persistence_hits |-> Len(Filter(nzp, {r \in Rows : right(r, r.persistence)}))]

overall(rows) == segment(rows, 0, Len(rows))

\* round() of n/4, half to even.
Rounded(n) ==
    IF n % 4 < 2 \/ (n % 4 = 2 /\ (n \div 4) % 2 = 0) THEN n \div 4 ELSE n \div 4 + 1

quartiles(rows) ==
    [q \in 1..4 |-> segment(rows, Rounded((q - 1) * Len(rows)), Rounded(q * Len(rows)))]

\* latency_sweep: the two-sided quotes, and the first at or after a time.
TwoSided == {i \in DOMAIN recording : recording[i].ask > recording[i].bid}
FirstOf(quotes) == {i \in quotes : \A j \in quotes : i <= j}
FirstAt(t) == FirstOf({i \in TwoSided : recording[i].ts >= t})

\* Fault: the exit is a horizon's move away from the fill.
ExitFromFill(signal, fill, r) == Mid(recording[fill]) + r.realized

ExitPrice(signal, fill, r) == Mid(recording[signal]) + r.realized

\* A fill that is late by latency.
Late(latency) ==
    [r \in Rows |-> [side \in Sides |->
        {[ts |-> r.ts, side |-> side,
          net |-> net_bps(side, ExitPrice(i, j, r) - Mid(recording[j]), r.spread),
          busy_until |-> r.ts + horizon] : i \in FirstAt(r.ts), j \in FirstAt(r.ts + latency)}]]

sim_with_latency(rows, latency) == Sequential(rows, simrule_decide, Late(latency))
-----------------------------------------------------------------------------
(* The sweeps, at every offset of the grid.                                *)

Phases == 0..(horizon - 1)

cadence_sweep(rows) ==
    [per_quote |-> simulate_trading(rows),
     windowed |-> [phase \in Phases |-> simulate_trading(_on_grid(rows, phase))]]

latency_sweep(rows) ==
    [latency \in 0..horizon |-> [phase \in Phases |-> sim_with_latency(_on_grid(rows, phase), latency)]]

\* equities_digest: a symbol that is not tracked has one grid.
_score_symbol(tracked, rows) ==
    LET grids == [phase \in (IF tracked THEN Phases ELSE {0}) |-> _on_grid(rows, phase)]
    IN  [dir |-> overall(_non_overlapping(rows)),
         net |-> [phase \in DOMAIN grids |-> simulate_trading(grids[phase])],
         net_lo |-> [phase \in DOMAIN grids |-> Sequential(grids[phase], LongOnly, Plain)],
         net_pq |-> simulate_trading(rows)]
-----------------------------------------------------------------------------
(* maker_sim: the order is passive, and waits for the mid to come to it.   *)

\* touch_long (a buy) and touch_short (a sell): the first quote in (t, t + wait].
Touches(side, t, limit) ==
    {i \in TwoSided :
        /\ recording[i].ts > t /\ recording[i].ts <= t + wait
        /\ IF side = 1 THEN Mid(recording[i]) <= limit ELSE Mid(recording[i]) >= limit}

Near(side, i) == IF side = 1 THEN recording[i].bid ELSE recording[i].ask
Far(side, i) == IF side = 1 THEN recording[i].ask ELSE recording[i].bid

Trade(r, side, opened, closed, entry, exit, busy_until) ==
    [ts |-> r.ts, side |-> side, opened |-> opened, closed |-> closed, net |-> side * (exit - entry), busy_until |-> busy_until]

\* Bought at the ask and sold at the bid of the first quote a horizon later.
Taker ==
    [r \in Rows |-> [side \in Sides |->
        {Trade(r, side, i, j, Far(side, i), Near(side, j), r.ts + horizon) :
            i \in FirstAt(r.ts), j \in FirstAt(r.ts + horizon)}]]

\* The quote an order is placed at, and the one it fills at.
Entries(r, side) ==
    {e \in TwoSided \X TwoSided :
        e[1] \in FirstAt(r.ts) /\ e[2] \in FirstOf(Touches(side, r.ts, Near(side, e[1])))}

\* An entry, and the first quote a horizon after it.
Holdings(r, side) ==
    {h \in Entries(r, side) \X TwoSided : h[2] \in FirstAt(recording[h[1][2]].ts + horizon)}

\* A passive entry, crossed out of.
MakerTaker ==
    [r \in Rows |-> [side \in Sides |->
        {Trade(r, side, h[1][2], h[2], Near(side, h[1][1]), Near(side, h[2]), recording[h[1][2]].ts + horizon) :
            h \in Holdings(r, side)}]]

\* A passive exit at the far touch, crossed out at once if it never fills;
\* busy_until is the time it was posted.
MakerExit(r, side, e, j) ==
    LET posted == recording[e[2]].ts + horizon
        fills == FirstOf(Touches(-side, posted, Far(side, j)))
    IN  IF fills = {} THEN Trade(r, side, e[2], j, Near(side, e[1]), Near(side, j), posted)
        ELSE Trade(r, side, e[2], Min(fills), Near(side, e[1]), Far(side, j), posted)

MakerMaker ==
    [r \in Rows |-> [side \in Sides |-> {MakerExit(r, side, h[1], h[2]) : h \in Holdings(r, side)}]]

SideOf == [r \in Rows |-> SignOf(r.prediction)]

simulate(rows, mode) ==
    CASE mode = "taker" -> Sequential(rows, SideOf, Taker)
      [] mode = "maker_taker" -> Sequential(rows, SideOf, MakerTaker)
      [] mode = "maker_maker" -> Sequential(rows, SideOf, MakerMaker)

maker_sim(rows) == [mode \in {"taker", "maker_taker", "maker_maker"} |-> simulate(rows, mode)]
-----------------------------------------------------------------------------
(* Properties.                                                             *)

AllRows == evaluate(FALSE)

\* Two programs pick the independent rows of a recording, one while it replays
\* and one afterwards: they are the same rows with the same baseline, that of
\* the window before and not of an overlapping one (equities_digest.py:160).
RowsAgree == _non_overlapping(AllRows) = evaluate(TRUE)

\* Fills that are not late are the backtest's, on the rows of every grid, if
\* the tape does not end on a locked quote; and the fade rule of the
\* evaluation is that of the baseline script (latency_sweep.py:69).
SimsAgree ==
    /\ recording # <<>> /\ Len(recording) \in TwoSided =>
         latency_sweep(AllRows)[0] = cadence_sweep(AllRows).windowed
    /\ simulate_fade_rule(evaluate(TRUE)) = _net_bps(evaluate(TRUE), fade_side)

\* The accuracy of the evaluation and that of the baseline script are the same
\* counts, and the quartiles, whose bounds are rounded, leave no row out and
\* take none twice (evaluation.py:178).
AccuraciesAgree ==
    LET rows == evaluate(TRUE)
        total == overall(rows)
        quarter == quartiles(rows)
    IN  /\ _acc(rows, SideOf) = [n |-> total.decided, hits |-> total.dir_hits]
        /\ quarter[1].n + quarter[2].n + quarter[3].n + quarter[4].n = total.n
        /\ quarter[1].dir_hits + quarter[2].dir_hits + quarter[3].dir_hits + quarter[4].dir_hits
             = total.dir_hits

\* Taking no shorts makes room for longs and costs none: a book that may only
\* buy buys at least as often, on every grid and on all rows
\* (equities_digest.py:223).
LongsKept ==
    LET longs(trades) == Len(Filter(trades, {t \in Trades : t.side = 1}))
        score == _score_symbol(TRUE, AllRows)
    IN  /\ \A phase \in Phases : Len(score.net_lo[phase]) >= longs(score.net[phase])
        /\ Len(Sequential(AllRows, LongOnly, Plain)) >= longs(score.net_pq)

\* A fill that comes late pays just the move it missed: the position is left
\* at the mid a horizon after the signal, not after the fill
\* (latency_sweep.py:98), on tapes without a locked quote and with no two
\* quotes at one time: the later of two is not the one looked up.
LateFillsPayTheMove ==
    TwoSided = DOMAIN recording /\ (\A i \in TwoSided, j \in TwoSided : i < j => recording[i].ts < recording[j].ts) =>
        \A latency \in 0..horizon : \A t \in Range(sim_with_latency(AllRows, latency)) :
            \E i \in FirstAt(t.ts), j \in FirstAt(t.ts + latency), k \in FirstAt(t.ts + horizon) :
                t.net = t.side * (Mid(recording[k]) - Mid(recording[j]))
                        - (recording[i].ask - recording[i].bid)

\* A passive order fills strictly after its signal and within its wait, on a
\* quote that came to its price, and what is crossed out is held for the
\* horizon at least: no fill of the past, none assumed (maker_sim.py:11).
FillsAreLater ==
    \A mode \in {"maker_taker", "maker_maker"} :
        \A t \in Range(simulate(AllRows, mode)) :
            /\ recording[t.opened].ts > t.ts /\ recording[t.opened].ts <= t.ts + wait
            /\ recording[t.closed].ts >= recording[t.opened].ts + horizon
            /\ \E i \in FirstAt(t.ts) : t.side * (Near(t.side, i) - Mid(recording[t.opened])) >= 0

\* No position is opened before the one before it is closed, though a row may
\* be of a locked quote and the orders see none.
OneAtATime(trades) ==
    \A i \in 2..Len(trades) : trades[i].opened >= trades[i - 1].closed
CrossedInTurn == \A mode \in {"taker", "maker_taker"} : OneAtATime(simulate(AllRows, mode))

\* Both columns of passive entries are of the same entries: how a position
\* is left has no influence on the next, so they can be compared.
SameEntries ==
    LET entries(trades) == [i \in DOMAIN trades |-> <<trades[i].ts, trades[i].opened>>]
    IN  entries(maker_sim(AllRows)["maker_taker"]) = entries(maker_sim(AllRows)["maker_maker"])

\* What the programs that judge a session say of it agrees where they say the
\* same, and is possible where they say how an order fills.
ResearchSound ==
    recording # <<>> =>
        /\ RowsAgree /\ SimsAgree /\ AccuraciesAgree /\ LongsKept
        /\ LateFillsPayTheMove /\ FillsAreLater /\ CrossedInTurn /\ SameEntries
=============================================================================
