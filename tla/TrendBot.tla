------------------------------ MODULE TrendBot ------------------------------
(***************************************************************************)
(* The trend filter (scripts/trend_bot.py): one short process, started by  *)
(* cron once or several times a day, that reads the clock, the closes and  *)
(* the position, may submit one market order, sends a message and then     *)
(* notes the day in data/trend_bot_state.json.  A run may be cut off at    *)
(* any step: by a kill, a request that raises, a file that cannot be       *)
(* written.  Shares are counted in units of one buy.                       *)
(***************************************************************************)
EXTENDS Naturals

CONSTANTS
    MaxDate,   \* bound: days
    MaxRuns    \* bound: runs on one day

ASSUME TrendAssumption == MaxDate \in Nat /\ MaxRuns \in Nat

VARIABLES
    date,      \* the day
    clock,     \* of the session: "before", "closing" (its last minutes), "after"
    held,      \* broker: shares of QQQ
    buys,      \* broker: units of buy orders that work
    sells,     \* broker: units of sell orders that work
    last_day,  \* the state file
    run,       \* the process
    runs,      \* bound
    orders,    \* observer: orders accepted today
    cuts       \* observer: the days of a run that was cut after its order

trendVars == <<date, clock, held, buys, sells, last_day, run, runs, orders, cuts>>

NotRunning == [stage |-> "none"]

TrendInit ==
    /\ date = 1 /\ clock = "before"
    /\ held = 0 /\ buys = 0 /\ sells = 0 /\ last_day = 0
    /\ run = NotRunning /\ runs = 0 /\ orders = 0 /\ cuts = {}
-----------------------------------------------------------------------------
(* The broker and the exchange.                                            *)

\* A day order that is not filled by the close expires; one left from the
\* evening before fills when the market opens.
MarketMoves ==
    \/ /\ clock = "before" /\ buys = 0 /\ sells = 0 /\ clock' = "closing"
       /\ UNCHANGED <<buys, sells, date, held, last_day, run, runs, orders, cuts>>
    \/ /\ clock = "closing" /\ clock' = "after" /\ buys' = 0 /\ sells' = 0
       /\ UNCHANGED <<date, held, last_day, run, runs, orders, cuts>>

NextDate ==
    /\ clock = "after" /\ run = NotRunning /\ date < MaxDate
    /\ date' = date + 1 /\ clock' = "before" /\ orders' = 0 /\ runs' = 0
    /\ UNCHANGED <<held, buys, sells, last_day, run, cuts>>

BuyFills ==
    /\ buys > 0 /\ held' = held + 1 /\ buys' = buys - 1
    /\ UNCHANGED <<date, clock, sells, last_day, run, runs, orders, cuts>>

SellFills ==
    /\ sells > 0 /\ held' = held - sells /\ sells' = 0
    /\ UNCHANGED <<date, clock, buys, last_day, run, runs, orders, cuts>>

\* The stocks trader shares the account, and QQQ is in its universe: its sweep
\* cancels what works in QQQ and sells what is held.
Swept ==
    /\ held + buys + sells > 0
    /\ held' = 0 /\ buys' = 0 /\ sells' = 0
    /\ UNCHANGED <<date, clock, last_day, run, runs, orders, cuts>>
-----------------------------------------------------------------------------
(* A run.                                                                  *)

\* decide: a close without an average, and a close of NaN, trade nothing.
decide(trend, holding) ==
    IF trend = "above" /\ ~holding THEN "buy"
    ELSE IF trend = "below" /\ holding THEN "sell" ELSE "hold"

\* Fault: only a day with a trade is remembered as done.
AlreadyRanNever == FALSE

AlreadyRan == last_day = date

\* main, up to the decision: the day and the clock are looked at first.  A dry
\* run (--no-send) ends here, it orders and notes nothing.
RunStarts(trend) ==
    /\ run = NotRunning /\ runs < MaxRuns /\ runs' = runs + 1
    /\ clock = "closing" /\ ~AlreadyRan
    /\ run' = [stage |-> "decided", action |-> decide(trend, held > 0), qty |-> held]
    /\ UNCHANGED <<date, clock, held, buys, sells, last_day, orders, cuts>>

\* submit.  The broker refuses a sell of more than is held and not for sale
\* already, and any order may be refused or the request raise: the run ends.
RunSubmits ==
    /\ run.stage = "decided"
    /\ \/ /\ run.action = "hold" /\ run' = [run EXCEPT !.stage = "noting"]
          /\ UNCHANGED <<buys, sells, orders>>
       \/ /\ run.action = "buy" /\ buys' = buys + 1 /\ orders' = orders + 1
          /\ run' = [run EXCEPT !.stage = "noting"] /\ UNCHANGED sells
       \/ /\ run.action = "sell" /\ run.qty <= held - sells
          /\ sells' = sells + run.qty /\ orders' = orders + 1
          /\ run' = [run EXCEPT !.stage = "noting"] /\ UNCHANGED buys
       \/ /\ run.action # "hold" /\ run' = NotRunning
          /\ UNCHANGED <<buys, sells, orders>>
    /\ UNCHANGED <<date, clock, held, last_day, runs, cuts>>

\* The message, whose failure is swallowed, and the state file.
RunNotes ==
    /\ run.stage = "noting"
    /\ last_day' = date /\ run' = NotRunning
    /\ UNCHANGED <<date, clock, held, buys, sells, runs, orders, cuts>>

\* A cut between the order and the note: the order was taken, the day is not
\* done.  The answer to the order may be lost as well.
RunCut ==
    /\ run # NotRunning /\ run' = NotRunning
    /\ cuts' = IF run.stage = "noting" /\ run.action # "hold" THEN cuts \cup {date} ELSE cuts
    /\ UNCHANGED <<date, clock, held, buys, sells, last_day, runs, orders>>

TrendNext ==
    \/ MarketMoves \/ NextDate \/ BuyFills \/ SellFills \/ Swept
    \/ \E trend \in {"above", "below", "unknown"} : RunStarts(trend)
    \/ RunSubmits \/ RunNotes \/ RunCut

TrendSpec == TrendInit /\ [][TrendNext]_trendVars
-----------------------------------------------------------------------------
\* "At most once per day" (trend_bot.py:29), and one unit at a time: a day
\* sees a second order, and the account a second unit, only through a run cut
\* off between its order and its note, however late orders fill, whatever
\* expires and whoever sweeps the account; and no more is for sale than held.
OneOrderADay ==
    /\ orders > 1 => date \in cuts
    /\ held + buys > 1 => cuts # {}
    /\ sells <= held
=============================================================================
