--------------------------- MODULE CryptoPipeline ---------------------------
(***************************************************************************)
(* The order path of the live crypto pipeline: Pipeline in                 *)
(* signals/pipeline.py, with PositionBook (signal/positions.py) and        *)
(* RiskManager (signal/risk.py), on the paper account.                     *)
(*                                                                         *)
(* The hot loop turns a signal into an order intent and spawns _execute,   *)
(* which runs beside it; `inflight` is the per-symbol lock between them.   *)
(* The book is long only and learns of a position only when _execute sees  *)
(* the order filled.                                                       *)
(***************************************************************************)
EXTENDS PaperBroker

CONSTANTS
    Fee,         \* lots of a buy the broker keeps as its fee, paid in the asset
    MaxOpen,     \* RiskLimits.max_open_positions
    LossLimit,   \* RiskLimits.daily_loss_limit_usd
    Pnls,        \* the P&L a sell may realize
    MaxOrders,   \* bound: orders intended in a behaviour
    MaxDays,     \* bound: UTC midnights in a behaviour
    MaxRestarts  \* bound: process starts after the first one

ASSUME PipelineAssumption ==
    /\ ~Marginable
    /\ Fee \in 0..(Qty - 1)
    /\ MaxOpen \in Nat /\ LossLimit \in Nat
    /\ Pnls \subseteq Int
    /\ MaxOrders \in Nat /\ MaxDays \in Nat /\ MaxRestarts \in Nat

VARIABLES
    book,        \* PositionBook.positions: the symbols held
    pnlToday,    \* RiskManager.realized_pnl_today
    inflight,    \* Pipeline._inflight
    task,        \* the _execute task of each symbol
    phase,       \* where Pipeline.run is
    newDay,      \* a UTC midnight the status loop has not noticed
    troubled,    \* symbols with an order error or an order NOT FILLED
    orders,      \* bound: orders intended
    days,        \* bound: UTC midnights
    restarts,    \* bound: process restarts
    wasTripped,  \* observer: the breaker tripped since the last reset_day
    unsettled,   \* observer: symbols in flight when the hot loop was cancelled
    lost         \* observer: buys of a symbol the book never learned of, or
                 \* forgot, since a startup sweep last cleared the symbol

riskVars == <<pnlToday, newDay, wasTripped, days>>
runVars  == <<phase, unsettled, restarts>>
vars == <<book, inflight, task, troubled, orders, riskVars, runVars, brokerVars, lost>>
-----------------------------------------------------------------------------
Pcs == {"idle", "read", "submit", "poll"}

\* side as a direction; left: lots of the order that have not filled.
Task == [pc : Pcs, side : Dirs, left : 0..Qty, dead : BOOLEAN]
Idle == [pc |-> "idle", side |-> Long, left |-> 0, dead |-> FALSE]

Phases == {"startup", "running", "closing", "stopped", "flattening", "saving", "done"}

\* The hot loop consumes events until its task is cancelled: closing the
\* source does not end its stream.
Consuming == phase \in {"running", "closing"}
Executing == phase \notin {"startup", "done"}

Running == {s \in Symbols : task[s].pc # "idle"}
Buying(s) == task[s].pc # "idle" /\ task[s].side = Long
Buyers == {s \in Symbols : Buying(s)}
Working(s) == task[s].pc = "poll" /\ ~task[s].dead

Polled == [s \in Symbols |-> [d \in Dirs |->
    IF Working(s) /\ d = task[s].side THEN task[s].left ELSE 0]]
Threaded == [s \in Symbols |-> [d \in Dirs |->
    IF task[s].pc = "submit" /\ d = task[s].side THEN task[s].left ELSE 0]]

Init ==
    /\ book = {} /\ inflight = {} /\ troubled = {}
    /\ task = [s \in Symbols |-> Idle]
    /\ pnlToday = 0 /\ newDay = FALSE /\ wasTripped = FALSE /\ days = 0
    /\ phase = "startup" /\ BrokerInit
    /\ orders = 0 /\ restarts = 0 /\ unsettled = {}
    /\ lost = [s \in Symbols |-> 0]
-----------------------------------------------------------------------------
(* RiskManager and PositionBook.                                           *)

TrippedAt(pnl) == pnl <= -LossLimit

Tripped == TrippedAt(pnlToday)

EntryAllowed == ~Tripped /\ Cardinality(book) < MaxOpen

Intend(s, d, pc, lots) ==
    /\ orders < MaxOrders
    /\ orders' = orders + 1
    /\ inflight' = inflight \cup {s}
    /\ task' = [task EXCEPT ![s] = [pc |-> pc, side |-> d, left |-> lots, dead |-> FALSE]]

\* _on_event, for a signal that leads to an order: LONG enters when flat (the
\* size may also come out as zero: no order), SHORT exits what is held.
OnSignal(s) ==
    /\ Consuming
    /\ s \notin inflight
    /\ \/ s \notin book /\ EntryAllowed /\ Intend(s, Long, "submit", Qty)
       \/ s \in book /\ Intend(s, Short, "read", Qty)
    /\ UNCHANGED <<book, troubled, riskVars, runVars, brokerVars, lost>>
-----------------------------------------------------------------------------
(* _execute.                                                               *)

\* Fault: the finally clause forgets the lock.
FinishNever(s) ==
    /\ task' = [task EXCEPT ![s] = Idle]
    /\ inflight' = inflight

\* The finally clause.
Finish(s) ==
    /\ task' = [task EXCEPT ![s] = Idle]
    /\ inflight' = inflight \ {s}

\* Fault: max where min was meant.
AtLeast(a, b) == IF a < b THEN b ELSE a

AtMost(a, b) == IF a < b THEN a ELSE b

\* position_qty answered.  Nothing held: the book forgets its position.
ReadsPosition(s) ==
    /\ task[s].pc = "read"
    /\ IF position[s] <= 0
       THEN book' = book \ {s} /\ Finish(s)
       ELSE /\ task' = [task EXCEPT ![s].pc = "submit",
                                    ![s].left = AtMost(Qty, position[s])]
            /\ UNCHANGED <<book, inflight>>
    /\ UNCHANGED <<troubled, orders, riskVars, runVars, brokerVars, lost>>

Submitted(s) ==
    /\ task[s].pc = "submit"
    /\ task' = [task EXCEPT ![s].pc = "poll"]
    /\ UNCHANGED <<book, inflight, troubled, orders, riskVars, runVars, brokerVars, lost>>

Book(pnl) ==
    /\ pnlToday' = pnlToday + pnl
    /\ wasTripped' = (wasTripped \/ TrippedAt(pnlToday'))

\* Fault: a part of the order is taken for all of it.
DoneOnAnyFill(s) == task[s].pc = "poll" /\ task[s].left < Qty

Done(s) == task[s].pc = "poll" /\ task[s].left = 0

\* The fill is booked: on_fill.
Filled(s) ==
    /\ Done(s)
    /\ IF task[s].side = Long
       THEN book' = book \cup {s} /\ UNCHANGED <<pnlToday, wasTripped>>
       ELSE book' = book \ {s} /\ \E pnl \in Pnls : Book(pnl)
    /\ Finish(s)
    /\ UNCHANGED <<troubled, orders, newDay, days, runVars, brokerVars, lost>>

\* The process is done with a buy, or a position, that its book does not hold.
Loses(S) == lost' = [s \in Symbols |-> lost[s] + IF s \in S THEN 1 ELSE 0]

Abandon(s) ==
    stray' = IF Working(s) THEN AddLots(stray, s, task[s].side, task[s].left)
             ELSE stray

\* Fault: an order that did not fill is placed again beside the first one.
NotFilledRetrying(s) ==
    /\ task[s].pc = "poll" /\ task[s].left > 0
    /\ troubled' = troubled \cup {s}
    /\ Abandon(s)
    /\ task' = [task EXCEPT ![s].pc = "submit", ![s].dead = FALSE]
    /\ UNCHANGED <<book, inflight, orders, riskVars, runVars>>
    /\ UNCHANGED <<position, limbo, sweep, outlived, lost>>

\* The polls ran out or the order died: NOT FILLED, and nothing is booked.
NotFilled(s) ==
    /\ task[s].pc = "poll" /\ task[s].left > 0
    /\ troubled' = troubled \cup {s}
    /\ Abandon(s)
    /\ Finish(s) /\ Loses(Buyers \cap {s})
    /\ UNCHANGED <<book, orders, riskVars, runVars>>
    /\ UNCHANGED <<position, limbo, sweep, outlived>>

\* A broker call raises; a submission whose answer was lost may have landed.
CallRaises(s) ==
    /\ \/ task[s].pc = "read" /\ UNCHANGED stray
       \/ task[s].pc = "submit" /\ UNCHANGED stray
       \/ /\ task[s].pc = "submit"
          /\ stray' = AddLots(stray, s, task[s].side, task[s].left)
       \/ task[s].pc = "poll" /\ Abandon(s)
    /\ troubled' = troubled \cup {s}
    /\ Finish(s) /\ Loses(Buyers \cap {s})
    /\ UNCHANGED <<book, orders, riskVars, runVars>>
    /\ UNCHANGED <<position, limbo, sweep, outlived>>

ExecuteStep(s) ==
    /\ Executing
    /\ ReadsPosition(s) \/ Submitted(s) \/ Filled(s) \/ NotFilled(s) \/ CallRaises(s)
-----------------------------------------------------------------------------
(* The broker, on the order a task follows.                                *)

\* The last Fee lots of a buy never reach the account.
Delivered(s) == IF Buying(s) /\ task[s].left <= Fee THEN 0 ELSE task[s].side

FollowedLotFills(s) ==
    /\ Working(s) /\ task[s].left > 0 /\ CanFill(s, task[s].side)
    /\ position' = [position EXCEPT ![s] = @ + Delivered(s)]
    /\ task' = [task EXCEPT ![s].left = @ - 1]
    /\ UNCHANGED <<book, inflight, troubled, orders, riskVars, runVars>>
    /\ UNCHANGED <<stray, limbo, sweep, outlived, lost>>

FollowedOrderDies(s) ==
    /\ Working(s) /\ task[s].left > 0
    /\ task' = [task EXCEPT ![s].dead = TRUE]
    /\ UNCHANGED <<book, inflight, troubled, orders, riskVars, runVars, brokerVars, lost>>

BrokerStep(s) ==
    \/ FollowedLotFills(s) \/ FollowedOrderDies(s)
    \/ /\ AccountMoves(s)
       /\ UNCHANGED <<book, inflight, task, troubled, orders, riskVars, runVars, lost>>
-----------------------------------------------------------------------------
(* The status loop and the clock.                                          *)

Midnight ==
    /\ days < MaxDays
    /\ days' = days + 1
    /\ newDay' = TRUE
    /\ UNCHANGED <<book, inflight, task, troubled, orders, pnlToday, wasTripped>>
    /\ UNCHANGED <<runVars, brokerVars, lost>>

\* A tick of the status loop after a midnight: reset_day.
StatusTick ==
    /\ Consuming /\ newDay
    /\ newDay' = FALSE /\ pnlToday' = 0 /\ wasTripped' = TrippedAt(0)
    /\ UNCHANGED <<book, inflight, task, troubled, orders, days, runVars, brokerVars, lost>>
-----------------------------------------------------------------------------
(* run: startup, shutdown and the life of the process.                     *)

Sweeping ==
    /\ SweepRequest
    /\ UNCHANGED <<book, inflight, task, troubled, orders, riskVars, runVars, lost>>

\* Fault: the shutdown does not get past its sweep.
PhaseAfterSweepStuck == IF phase = "startup" THEN "running" ELSE phase

PhaseAfterSweep == IF phase = "startup" THEN "running" ELSE "saving"

\* flatten_symbols is back, or raised; the closes go to the order log only.
SweepDone ==
    /\ sweep.pc = "record"
    /\ sweep' = [sweep EXCEPT !.pc = "off", !.closed = {}]
    /\ phase' = PhaseAfterSweep
    /\ lost' = [s \in Symbols |->
                  IF phase = "startup" /\ ~sweep.failed /\ s \notin outlived THEN 0 ELSE lost[s]]
    /\ UNCHANGED <<book, inflight, task, troubled, orders, riskVars>>
    /\ UNCHANGED <<unsettled, restarts, accountVars, outlived>>

\* The duration is over, or a task of the pipeline failed.
CloseSource ==
    /\ phase = "running"
    /\ phase' = "closing"
    /\ UNCHANGED <<book, inflight, task, troubled, orders, riskVars>>
    /\ UNCHANGED <<unsettled, restarts, brokerVars, lost>>

\* The order tasks settled, or 15 s went by: the hot loop is cancelled.
CancelLoops ==
    /\ phase = "closing"
    /\ phase' = "stopped"
    /\ unsettled' = inflight
    /\ UNCHANGED <<book, inflight, task, troubled, orders, riskVars>>
    /\ UNCHANGED <<restarts, brokerVars, lost>>

\* Fault: the account is left as it is.
NothingOpen == TRUE

BookEmpty == book = {}

FlattenOnExit ==
    /\ phase = "stopped"
    /\ IF BookEmpty
       THEN phase' = "saving" /\ UNCHANGED sweep
       ELSE phase' = "flattening" /\ sweep' = StartSweep
    /\ UNCHANGED <<book, inflight, task, troubled, orders, riskVars>>
    /\ UNCHANGED <<unsettled, restarts, accountVars, outlived, lost>>

\* State saved, store flushed; asyncio.run cancels what is left.
Exit ==
    /\ phase = "saving"
    /\ phase' = "done"
    /\ TasksCancelled(Polled, Threaded) /\ Loses(Buyers)
    /\ task' = [s \in Symbols |-> Idle]
    /\ inflight' = {}
    /\ UNCHANGED <<book, troubled, orders, riskVars, unsettled, restarts>>

\* The process was killed, or had ended, and the service starts it again.
Restart ==
    /\ restarts < MaxRestarts
    /\ restarts' = restarts + 1
    /\ ProcessReplaced(Polled, Threaded) /\ Loses(book \cup Buyers)
    /\ book' = {} /\ inflight' = {} /\ troubled' = {} /\ unsettled' = {}
    /\ task' = [s \in Symbols |-> Idle]
    /\ pnlToday' = 0 /\ wasTripped' = TrippedAt(0) /\ newDay' = FALSE
    /\ phase' = "startup"
    /\ UNCHANGED <<orders, days>>

RunStep == Sweeping \/ SweepDone \/ CancelLoops \/ FlattenOnExit \/ Exit

Next ==
    \/ \E s \in Symbols : OnSignal(s) \/ ExecuteStep(s) \/ BrokerStep(s)
    \/ Midnight \/ StatusTick \/ RunStep \/ CloseSource \/ Restart

Spec == Init /\ [][Next]_vars

\* Broker calls return and polls are bounded; run awaits only those.
Fairness ==
    /\ \A s \in Symbols : WF_vars(ExecuteStep(s))
    /\ WF_vars(RunStep)

FairSpec == Spec /\ Fairness
-----------------------------------------------------------------------------
(* Properties.                                                             *)

TypeOK ==
    /\ book \subseteq Symbols /\ inflight \subseteq Symbols
    /\ troubled \subseteq Symbols /\ unsettled \subseteq Symbols
    /\ task \in [Symbols -> Task]
    /\ pnlToday \in Int /\ newDay \in BOOLEAN /\ wasTripped \in BOOLEAN
    /\ phase \in Phases
    /\ BrokerTypeOK
    /\ orders \in 0..MaxOrders /\ days \in 0..MaxDays /\ restarts \in 0..MaxRestarts
    /\ lost \in [Symbols -> Nat]

\* A symbol is locked exactly while an order of it is being executed, buys
\* are for symbols not held and sells for symbols held: no double entry, no
\* sell of what was already sold.
LockedWhileExecuting ==
    /\ inflight = Running
    /\ \A s \in Running : Buying(s) <=> s \notin book

\* The lots the account holds when the book is right about it.
Expected(s) ==
    LET net == Qty - Fee
        sold == AtMost(net, task[s].left)
    IN  IF Buying(s)
        THEN IF task[s].pc = "poll" THEN AtMost(net, Qty - task[s].left) ELSE 0
        ELSE IF s \notin book THEN 0
             ELSE IF task[s].pc = "poll" THEN sold ELSE net

\* Since a clean start, a symbol none of whose orders errored or came back
\* NOT FILLED has at the broker exactly what the book and the order in
\* flight account for, and no other order at work.
BookMatchesBroker ==
    Consuming /\ ~sweep.failed =>
        \A s \in Symbols \ (troubled \cup outlived) :
            position[s] = Expected(s) /\ Untangled(s)

\* A shutdown that swept, or had nothing to sweep, leaves nothing behind in a
\* symbol whose orders had settled and never failed.
ShutdownFlat ==
    phase = "done" /\ ~sweep.failed =>
        \A s \in Symbols \ (troubled \cup outlived \cup unsettled) : position[s] = 0

\* The lots that can still be bought in s.
BuysAtWork(s) ==
    stray[s][Long] + limbo[s][Long] + Polled[s][Long] + Threaded[s][Long]

\* What NOT FILLED orders, errors and restarts leave in the account is bounded:
\* of a symbol it holds, or may still buy, at most one order for the position
\* the book has or the buy in flight, and one for each buy the book never
\* learned of or forgot since a startup sweep last cleared the symbol.
ExposureOwed ==
    \A s \in Symbols :
        position[s] + BuysAtWork(s) <= Qty * (lost[s] + IF s \in book \cup Buyers THEN 1 ELSE 0)

\* "Hard limits: max open positions" (risk.py).
MaxOpenRespected == Cardinality(book) <= MaxOpen

\* "A tripped breaker blocks all new entries until reset_day()" (risk.py), in
\* the life of one process.
BreakerHoldsUntilReset ==
    [][wasTripped /\ wasTripped' => \A s \in Symbols : Buying(s)' => Buying(s)]_vars

\* The lock of a symbol is always released, so its exits stay possible.
LockReleased == \A s \in Symbols : s \in inflight ~> s \notin inflight

\* A shutdown once begun ends (unless the process is replaced first).
ShutdownEnds == phase = "closing" ~> phase \in {"done", "startup"}
=============================================================================
