---------------------------- MODULE StocksTrader ----------------------------
(***************************************************************************)
(* The live paper equities trader (signals/stockstrader.py) and the        *)
(* session that owns it (scripts/stocks_live.py), on the paper account.    *)
(*                                                                         *)
(* Every symbol has at most one round trip, an asyncio task that submits a *)
(* market order, polls for its fill, holds for the horizon and submits the *)
(* opposite order.  One action is one stretch of code between two awaits.  *)
(***************************************************************************)
EXTENDS PaperBroker

CONSTANTS
    MaxOpen,     \* max_open
    LossCap,     \* daily_loss_cap_usd
    Pnls,        \* the P&L a close may realize
    MaxLoss,     \* the worst of them, as a positive number
    AllowShort,  \* allow_short
    MaxEntries,  \* bound: round trips started in a behaviour
    MaxRestarts  \* bound: process starts after the first one

ASSUME TraderAssumption ==
    /\ MaxOpen \in Nat
    /\ LossCap \in Nat
    /\ Pnls \subseteq Int
    /\ MaxLoss \in Nat
    /\ \A p \in Pnls : p >= -MaxLoss
    /\ AllowShort \in BOOLEAN
    /\ MaxEntries \in Nat
    /\ MaxRestarts \in Nat

VARIABLES
    pending,      \* StocksTrader.pending
    open_pos,     \* the symbols of StocksTrader.open_pos (side and qty: task)
    looked,       \* symbols looked at less than a horizon ago (last_seen_ns)
    halted,       \* StocksTrader.halted
    realized,     \* StocksTrader.realized_usd
    order_errors, \* the symbols whose round trip counted an order error
    saved,        \* stocks_book.json holds book_pnl_cum
    task,         \* the round trip of each symbol
    phase,        \* where the session is
    entries,      \* bound: round trips started
    restarts,     \* bound: process restarts
    startPnl,     \* observer: realized when trading began
    lost          \* observer: round trips of a symbol that ended without a
                  \* confirmed exit since a sweep last cleared the symbol

traderVars  == <<pending, open_pos, looked, halted, realized, order_errors, saved>>
sessionVars == <<phase, startPnl, restarts>>
vars == <<traderVars, task, sessionVars, brokerVars, entries, lost>>
-----------------------------------------------------------------------------
Directions == IF AllowShort THEN Dirs ELSE {Long}

EntryPcs == {"submit_entry", "poll_entry"}
ExitPcs  == {"submit_exit", "poll_exit"}
Pcs == {"idle", "hold"} \cup EntryPcs \cup ExitPcs

\* left: the lots of the order being followed that have not filled;
\* dead: the order was canceled, rejected or expired.
Task == [pc : Pcs, dir : Dirs, left : 0..Qty, dead : BOOLEAN]
Idle == [pc |-> "idle", dir |-> Long, left |-> 0, dead |-> FALSE]

Phases == {"startup", "trading", "settling", "ended"}

\* Fault: the exit is placed on the side of the entry.
EntryDirAlways(s) == task[s].dir

\* The direction of the order the task of s has placed.
OrderDir(s) == IF task[s].pc \in EntryPcs THEN task[s].dir ELSE -task[s].dir

Working(s) == task[s].pc \in {"poll_entry", "poll_exit"} /\ ~task[s].dead

Init ==
    /\ pending = {} /\ open_pos = {} /\ looked = {}
    /\ halted = FALSE /\ realized = 0 /\ order_errors = {} /\ saved = TRUE
    /\ task = [s \in Symbols |-> Idle]
    /\ phase = "startup" /\ BrokerInit
    /\ entries = 0 /\ restarts = 0 /\ startPnl = 0
    /\ lost = [s \in Symbols |-> 0]
-----------------------------------------------------------------------------
(* on_prediction: the hot path.                                            *)

\* Fault: counts the confirmed positions only.
RoomIgnoringPending == Cardinality(open_pos) < MaxOpen

\* A held symbol is in both sets, so it counts twice.
Room == Cardinality(open_pos) + Cardinality(pending) < MaxOpen

MayLook(s) == ~halted /\ s \notin looked

\* The prediction is refused: already managed, no room, or no direction.
Refuse == UNCHANGED <<pending, task, entries>>

Enter(s) ==
    /\ s \notin open_pos /\ s \notin pending
    /\ Room
    /\ entries < MaxEntries
    /\ \E d \in Directions :
         task' = [task EXCEPT ![s] = [pc |-> "submit_entry", dir |-> d,
                                      left |-> Qty, dead |-> FALSE]]
    /\ pending' = pending \cup {s}
    /\ entries' = entries + 1

OnPrediction(s) ==
    /\ phase = "trading"
    /\ MayLook(s)
    /\ looked' = looked \cup {s}
    /\ Refuse \/ Enter(s)
    /\ UNCHANGED <<open_pos, halted, realized, order_errors, saved>>
    /\ UNCHANGED <<sessionVars, brokerVars, lost>>

\* The horizon window of s has passed in event time.
WindowElapses(s) ==
    /\ phase = "trading" /\ s \in looked
    /\ looked' = looked \ {s}
    /\ UNCHANGED <<pending, open_pos, halted, realized, order_errors, saved>>
    /\ UNCHANGED <<task, sessionVars, brokerVars, entries, lost>>
-----------------------------------------------------------------------------
(* _round_trip and _exit: the order path.                                  *)

\* Fault: the finally clause forgets the lock.
FinishKeepingPending(s) ==
    /\ pending' = pending
    /\ open_pos' = open_pos \ {s}
    /\ task' = [task EXCEPT ![s] = Idle]

\* The finally clause of _round_trip.
Finish(s) ==
    /\ pending' = pending \ {s}
    /\ open_pos' = open_pos \ {s}
    /\ task' = [task EXCEPT ![s] = Idle]

\* The working remainder of the order is left at the broker.
Abandon(s) ==
    stray' = IF Working(s) THEN AddLots(stray, s, OrderDir(s), task[s].left)
             ELSE stray

\* The trader is done with a round trip whose exit was never confirmed.
Loses(S) == lost' = [s \in Symbols |-> lost[s] + IF s \in S THEN 1 ELSE 0]

\* market_order returns: the broker has the order.
Submitted(s) ==
    /\ task[s].pc \in {"submit_entry", "submit_exit"}
    /\ task' = [task EXCEPT ![s].pc =
                  IF @ = "submit_entry" THEN "poll_entry" ELSE "poll_exit"]
    /\ UNCHANGED <<traderVars, sessionVars, brokerVars, entries, lost>>

\* Fault: a position is booked on whatever part of the order has filled.
EntryFilledOnAnyFill(s) == task[s].pc = "poll_entry" /\ task[s].left < Qty

EntryFilled(s) == task[s].pc = "poll_entry" /\ task[s].left = 0

EntryConfirmed(s) ==
    /\ EntryFilled(s)
    /\ open_pos' = open_pos \cup {s}
    /\ task' = [task EXCEPT ![s].pc = "hold"]
    /\ UNCHANGED <<pending, looked, halted, realized, order_errors, saved>>
    /\ UNCHANGED <<sessionVars, brokerVars, entries, lost>>

\* Fault: an exit that did not fill is tried again beside its first order.
GivesUpRetrying(s) ==
    /\ task[s].pc \in {"poll_entry", "poll_exit"}
    /\ task[s].left > 0
    /\ order_errors' = order_errors \cup {s}
    /\ Abandon(s)
    /\ IF task[s].pc = "poll_exit"
       THEN /\ task' = [task EXCEPT ![s].pc = "submit_exit", ![s].left = Qty, ![s].dead = FALSE]
            /\ UNCHANGED <<pending, open_pos, lost>>
       ELSE Finish(s) /\ Loses({s})
    /\ UNCHANGED <<looked, halted, realized, saved>>
    /\ UNCHANGED <<sessionVars, position, limbo, sweep, outlived, entries>>

\* poll_fill came back without a fill: attempts used up, or a dead order.
GivesUp(s) ==
    /\ task[s].pc \in {"poll_entry", "poll_exit"}
    /\ task[s].left > 0
    /\ order_errors' = order_errors \cup {s}
    /\ Abandon(s)
    /\ Finish(s) /\ Loses({s})
    /\ UNCHANGED <<looked, halted, realized, saved>>
    /\ UNCHANGED <<sessionVars, position, limbo, sweep, outlived, entries>>

\* A broker call raises.  A submission whose answer was lost may have landed.
CallRaises(s) ==
    /\ order_errors' = order_errors \cup {s}
    /\ \/ /\ task[s].pc \in {"poll_entry", "poll_exit"}
          /\ Abandon(s)
       \/ /\ task[s].pc \in {"submit_entry", "submit_exit"}
          /\ \/ UNCHANGED stray
             \/ stray' = AddLots(stray, s, OrderDir(s), Qty)
    /\ Finish(s) /\ Loses({s})
    /\ UNCHANGED <<looked, halted, realized, saved>>
    /\ UNCHANGED <<sessionVars, position, limbo, sweep, outlived, entries>>

\* Fault: the exit order is larger than the position.
HoldElapsesOverselling(s) ==
    /\ task[s].pc = "hold"
    /\ task' = [task EXCEPT ![s].pc = "submit_exit", ![s].left = Qty + 1]
    /\ UNCHANGED <<traderVars, sessionVars, brokerVars, entries, lost>>

HoldElapses(s) ==
    /\ task[s].pc = "hold"
    /\ task' = [task EXCEPT ![s].pc = "submit_exit", ![s].left = Qty]
    /\ UNCHANGED <<traderVars, sessionVars, brokerVars, entries, lost>>

\* Fault: the cap is compared with the P&L before this trade.
CapHitBefore(pnl) == realized <= -LossCap

CapHit(pnl) == realized + pnl <= -LossCap

\* The exit is booked.  When the book file cannot be written the exception
\* leaves _exit before the trade is listed and before the cap is looked at.
ExitConfirmed(s) ==
    /\ task[s].pc = "poll_exit" /\ task[s].left = 0
    /\ \E pnl \in Pnls :
         /\ realized' = realized + pnl
         /\ \/ /\ saved' = TRUE
               /\ halted' = (halted \/ CapHit(pnl))
               /\ UNCHANGED order_errors
            \/ /\ saved' = FALSE
               /\ order_errors' = order_errors \cup {s}
               /\ UNCHANGED halted
    /\ Finish(s)
    /\ UNCHANGED <<looked, sessionVars, brokerVars, entries, lost>>

RoundTripStep(s) ==
    \/ Submitted(s) \/ EntryConfirmed(s) \/ GivesUp(s) \/ CallRaises(s)
    \/ HoldElapses(s) \/ ExitConfirmed(s)
-----------------------------------------------------------------------------
(* The broker, on the order a task follows.                                *)

FollowedLotFills(s) ==
    /\ Working(s) /\ task[s].left > 0 /\ CanFill(s, OrderDir(s))
    /\ position' = [position EXCEPT ![s] = @ + OrderDir(s)]
    /\ task' = [task EXCEPT ![s].left = @ - 1]
    /\ UNCHANGED <<traderVars, sessionVars, stray, limbo, sweep, outlived, entries, lost>>

FollowedOrderDies(s) ==
    /\ Working(s) /\ task[s].left > 0
    /\ task' = [task EXCEPT ![s].dead = TRUE]
    /\ UNCHANGED <<traderVars, sessionVars, brokerVars, entries, lost>>

BrokerStep(s) ==
    \/ FollowedLotFills(s) \/ FollowedOrderDies(s)
    \/ AccountMoves(s) /\ UNCHANGED <<traderVars, task, sessionVars, entries, lost>>
-----------------------------------------------------------------------------
(* flatten_on_start, close_all, and the life of the process.               *)

Sweeping ==
    /\ SweepRequest
    /\ UNCHANGED <<traderVars, task, sessionVars, entries, lost>>

\* _record_reconciliation_closes, one close at a time; it never looks at the
\* cap, and stops at a book file that cannot be written.
SweepRecords(s) ==
    /\ sweep.pc = "record" /\ s \in sweep.closed
    /\ \E pnl \in Pnls :
         /\ realized' = realized + pnl
         /\ \/ /\ saved' = TRUE
               /\ sweep' = [sweep EXCEPT !.closed = @ \ {s}]
            \/ /\ saved' = FALSE
               /\ sweep' = [sweep EXCEPT !.closed = {}]
    /\ UNCHANGED <<pending, open_pos, looked, halted, order_errors>>
    /\ UNCHANGED <<task, sessionVars, accountVars, outlived, entries, lost>>

\* Fault: the session does not get past its final sweep.
PhaseAfterSweepStuck == IF phase = "startup" THEN "trading" ELSE phase

PhaseAfterSweep == IF phase = "startup" THEN "trading" ELSE "ended"

\* The session goes on, whether the sweep worked or not.
SweepDone ==
    /\ sweep.pc = "record" /\ sweep.closed = {}
    /\ sweep' = [sweep EXCEPT !.pc = "off"]
    /\ phase' = PhaseAfterSweep
    /\ startPnl' = IF phase = "startup" THEN realized ELSE startPnl
    /\ lost' = [s \in Symbols |-> IF sweep.failed \/ s \in outlived THEN lost[s] ELSE 0]
    /\ UNCHANGED <<traderVars, task, restarts, accountVars, outlived, entries>>

SweepStep == Sweeping \/ SweepDone \/ \E s \in Symbols : SweepRecords(s)

\* The stream ended, the session is over: no new entries.
CloseAll ==
    /\ phase = "trading"
    /\ phase' = "settling" /\ halted' = TRUE
    /\ UNCHANGED <<pending, open_pos, looked, realized, order_errors, saved>>
    /\ UNCHANGED <<task, startPnl, restarts, brokerVars, entries, lost>>

Running == {s \in Symbols : task[s].pc # "idle"}

\* Fault: the sweep does not wait for the round trips.
SettledAtOnce == TRUE

Settled == Running = {}

StartFinalSweep ==
    /\ phase = "settling" /\ sweep.pc = "off"
    /\ Settled
    /\ sweep' = StartSweep
    /\ UNCHANGED <<traderVars, task, sessionVars, accountVars, outlived, entries, lost>>

\* The lots of the running tasks' orders: polled, or in a submission thread.
Polled == [s \in Symbols |-> [d \in Dirs |->
    IF Working(s) /\ d = OrderDir(s) THEN task[s].left ELSE 0]]
Threaded == [s \in Symbols |-> [d \in Dirs |->
    IF task[s].pc \in {"submit_entry", "submit_exit"} /\ d = OrderDir(s)
    THEN Qty ELSE 0]]

\* asyncio.wait timed out: the stragglers are cancelled.  CancelledError is
\* not an Exception, so no order error is counted; finally still runs.
CancelStragglers ==
    /\ phase = "settling" /\ sweep.pc = "off" /\ Running # {}
    /\ TasksCancelled(Polled, Threaded) /\ Loses(Running)
    /\ task' = [s \in Symbols |-> Idle]
    /\ pending' = pending \ Running
    /\ open_pos' = open_pos \ Running
    /\ UNCHANGED <<looked, halted, realized, order_errors, saved>>
    /\ UNCHANGED <<sessionVars, entries>>

\* The process dies, or ends, and a new one starts: the trader is new and the
\* book is read back from its file.
Restart ==
    /\ restarts < MaxRestarts
    /\ restarts' = restarts + 1
    /\ ProcessReplaced(Polled, Threaded) /\ Loses(Running)
    /\ pending' = {} /\ open_pos' = {} /\ looked' = {}
    /\ halted' = FALSE /\ realized' = 0 /\ order_errors' = {} /\ saved' = TRUE
    /\ task' = [s \in Symbols |-> Idle]
    /\ phase' = "startup" /\ startPnl' = 0
    /\ UNCHANGED entries

SettleStep == StartFinalSweep \/ CancelStragglers

Next ==
    \/ \E s \in Symbols :
         OnPrediction(s) \/ WindowElapses(s) \/ RoundTripStep(s) \/ BrokerStep(s)
    \/ SweepStep \/ CloseAll \/ SettleStep \/ Restart

Spec == Init /\ [][Next]_vars

\* Polling and sleeping are bounded and broker calls return, so every task
\* keeps moving; the session code awaits nothing else.
Fairness ==
    /\ \A s \in Symbols : WF_vars(RoundTripStep(s))
    /\ WF_vars(SweepStep)
    /\ WF_vars(SettleStep)

FairSpec == Spec /\ Fairness
-----------------------------------------------------------------------------
(* Properties.                                                             *)

TypeOK ==
    /\ pending \subseteq Symbols /\ open_pos \subseteq Symbols /\ looked \subseteq Symbols
    /\ halted \in BOOLEAN /\ saved \in BOOLEAN
    /\ realized \in Int /\ startPnl \in Int
    /\ order_errors \subseteq Symbols
    /\ task \in [Symbols -> Task]
    /\ phase \in Phases
    /\ BrokerTypeOK
    /\ entries \in 0..MaxEntries /\ restarts \in 0..MaxRestarts
    /\ lost \in [Symbols -> Nat]

\* The locks of the book are the running tasks: `pending` is exactly the set
\* of symbols with a round trip, and a confirmed position is always locked.
LocksMatchTasks ==
    /\ pending = Running
    /\ open_pos = {s \in Symbols : task[s].pc \in {"hold"} \cup ExitPcs}

\* "max_open in total": never more round trips than max_open, counting the
\* entries that are still unconfirmed.
CapacityRespected == Cardinality(pending) <= MaxOpen

\* What the broker holds of s when the book is right about it.
Expected(s) ==
    CASE task[s].pc \in {"idle", "submit_entry"} -> 0
      [] task[s].pc = "poll_entry" -> task[s].dir * (Qty - task[s].left)
      [] task[s].pc \in {"hold", "submit_exit"} -> task[s].dir * Qty
      [] task[s].pc = "poll_exit" -> task[s].dir * task[s].left

\* Since a clean start, a symbol that never counted an order error has at the
\* broker exactly the position the book says, and no order working besides
\* the one its task follows, through every interleaving of the round trips.
BrokerMatchesBook ==
    phase = "trading" /\ ~sweep.failed =>
        \A s \in Symbols \ (order_errors \cup outlived) :
            position[s] = Expected(s) /\ Untangled(s)

\* close_all leaves every symbol flat once its sweep has worked, except those
\* with an order the sweep could not see or could not cancel.
SweptFlat ==
    phase = "ended" /\ ~sweep.failed =>
        \A s \in Symbols \ outlived : position[s] = 0

\* Once the P&L of the exits reaches the cap the trader is halted, unless it
\* was already there at the start or a round trip ended in an error.
LossCapHalts ==
    phase = "trading" /\ realized <= -LossCap =>
        halted \/ startPnl <= -LossCap \/ order_errors # {}

\* The cap can be overshot, but by no more than the round trips that were
\* in flight when it was hit: max_open of them, each at the worst loss.
LossFloor == IF startPnl < 1 - LossCap THEN startPnl ELSE 1 - LossCap
OvershootBounded ==
    phase \in {"trading", "settling"} /\ sweep.pc = "off" /\ order_errors = {} =>
        realized >= LossFloor - MaxOpen * MaxLoss

\* What the daily loss cap is worth: it stops the trader, and bounds the loss.
CapHolds == LossCapHalts /\ OvershootBounded

\* The lots that can still be bought (d = Long) or sold in s.
AtWork(s, d) == stray[s][d] + limbo[s][d] + Polled[s][d] + Threaded[s][d]

\* What errors, cancellations and restarts leave at the broker is bounded: a
\* symbol is long, or short, by at most one order for its round trip and one
\* for each that was lost since a sweep last cleared it, even if every order
\* still at work fills.  No retry, sweep or late order ever doubles one.
ExposureOwed ==
    \A s \in Symbols :
        LET owed == Qty * (lost[s] + IF s \in Running THEN 1 ELSE 0)
        IN  position[s] + AtWork(s, Long) <= owed /\ AtWork(s, Short) - position[s] <= owed

\* "entries halt at the daily loss cap" (the module's docstring): in a session
\* without order errors, whatever brought the day's P&L down to the cap.
EntriesHaltAtCap ==
    phase = "trading" /\ realized <= -LossCap /\ order_errors = {} => halted

\* Every round trip ends, whatever the broker does, and its lock is released.
RoundTripEnds == \A s \in Symbols : s \in pending ~> s \notin pending

\* close_all comes to an end (unless the process is replaced first).
CloseAllEnds == phase = "settling" ~> phase \in {"ended", "startup"}
=============================================================================
