# A verification project for intraday-ml-signals

TLA+ models of `intraday-ml-signals`: the market data sources, the features,
the models and the label queue, the equities paper trader and the crypto
pipeline's order path, the cold store, the shadow books, and the jobs around
them: recorders, archive, digest, alert bots, trend bot, dashboards' history and
the offline simulations. TLC checks them on small instances; the modules ending
in `Proofs` hold theorems that TLAPS proves for every value of the constants.
Paths below are relative to the repository.

## 1. The system

| Component | State it keeps | Operations | Talks to |
|---|---|---|---|
| Market data (`src/signals/data/`) | connection, backoff, closed flag, ring buffers, queue high-water mark | `stream`, `_handshake`, `close`, `IngestStage.run` | hot loop, through a bounded queue |
| Prediction core (`core.py`, `model/labels.py`) | pending labels, feature engine, model | `on_event` = resolve, learn, update features, predict, enqueue | called by the pipeline, the session and the replay |
| Features and model (`features/`, `model/online.py`) | windowed statistics, leader states, model weights | `update`, `learn_one`, `predict_one` | core; leaders through `CrossFeed` |
| Crypto pipeline (`pipeline.py`, `signal/`) | position book, day's P&L, in-flight locks, order tasks, tap counter | `_on_event`, `_execute`, `_status_loop`, `run`, `_save_state`/`_load_state` | executor, cold store (put or drop), status file |
| Equities trader (`stockstrader.py`) | locks, open positions, windows, realized P&L, halt flag, tasks | `on_prediction`, `_round_trip`, `_exit`, `flatten_on_start`, `close_all` | executor, book file, blotter hook |
| Equities session (`scripts/stocks_live.py`) | event loop, queue, two shadow books, status file | `main_async` | source, cold store (blocking put), trader |
| Shadow books (`livesim.py`) | per symbol: trades, end of position, last look | `on_resolved` in two cadences | fed by the session; compared with `evaluation.py` |
| Executor (`execution/alpaca_exec.py`) | none of its own: the broker's account | `market_order`, `poll_fill`, `position_qty`, `flatten_symbols` | Alpaca, through threads |
| Cold store (`storage/coldstore.py`) | per-table buffers, row count | `append`, `flush`, `run`, `close` | DuckDB, through threads |
| Sub-accounts (`books.py`) | `stocks_book.json` | read, write | trader, alerts, reports |
| Trend bot (`scripts/trend_bot.py`) | the last day it ran, in a file | one run per cron tick: decide, submit, note the day | the account it shares with the equities trader |
| Alert bots (`scripts/alerts.py`, `stocks_alerts.py`) | what they saw last, in a file | one look per cron tick | `status*.json`, process table, Telegram |
| Recorders, archive, retention, digest | session databases, archive files, a history file | record; export, verify, delete; score and append; purge by age | each other, through the directory only |
| Dashboards (`gen_dashboard.py`, `gen_stocks_app.py`) | a history file | append and prune, then render | `status*.json` |
| Research (`evaluation.py`, `scripts/*_sweep.py`, `maker_sim.py`, ...) | none | simulate on a recording | recorded sessions |

What makes each of them correct, and what is hard about it:

- **Order paths.** asyncio tasks run beside the hot loop and await the broker,
  whose orders fill partly, late, or never. The local book must agree with the
  account, a symbol must be locked while an order of it is at work, limits must
  count what is in flight, and shutdown must end and leave nothing behind. Tasks
  can be cancelled, their threads cannot.
- **Restart.** Nothing of the books survives a process; a sweep of the account
  stands in for recovery.
- **Storage.** Records are drained, buffered, swapped out and inserted by a
  thread, while the owner may cancel at any await. No record may be lost, doubled
  or reordered, and none may wait for ever.
- **Labels.** Timestamps regress, quotes are crossed or empty. A label must be
  resolved by the first price at or after its horizon and by no earlier one.
- **Parity.** The live books, fed event by event, must hold the trades the
  backtest finds in the recording of the same session; the scripts that sequence
  trades with loops of their own must agree where they compute the same thing.
- **Connections.** A source is refused, dropped or closed in any phase; it must
  come back with a delay that follows its failures, and lose or reorder nothing
  on its way into a queue it shares.
- **Online computation.** Statistics are maintained by adding and removing,
  leaders may be stale, and a prediction is graded when the model has already
  learned from later labels.
- **Files between processes.** Jobs are killed at any step, started twice, or
  race each other over files none of them locks. The tape must not be lost, a day
  not be counted twice, a day's order not be sent twice, and a watcher must report
  what it can only see through a status that may be stale.

`PROJECT.json` lists the hazards one by one, each at its line, with the
properties that would catch it.

## 2. The modules

```
PaperBroker ──────┬── StocksTrader ──── MCStocksTrader
                  └── CryptoPipeline ── MCCryptoPipeline
AppendLog <─refines─ ColdStore ──────── MCColdStore
SymbolPipeline <─refines─ ShadowBook ── MCShadowBook
RingBuffer ────────── Feed ──────────── MCFeed
Sessions, ModelState, CryptoAlerts, StocksAlerts, TrendBot, ┐
Features, OnlineModel, Research, History                    ┴── Jobs ── MCJobs
Loops: used by ColdStore, Feed, ShadowBook, Features, OnlineModel, Research, History

PaperBrokerProofs ─┬─ StocksTraderProofs      DataLemmas ─┬─ ColdStoreProofs
                   └─ CryptoPipelineProofs                ├─ FeedProofs
                                                          ├─ SymbolPipelineProofs
                                                          └─ JobsProofs
```

**PaperBroker** is the account: signed lots held per symbol (`position`), working
lots of orders no task follows any more (`stray`), submissions whose task was
cancelled while a thread was making them (`limbo`), and the `flatten_symbols`
call under way (`sweep`). An order fills lot by lot, dies, or keeps working.
`flatten_symbols` is one action per broker request, because requests fail one by
one and the list of what was closed is lost when one raises. `outlived` is an
observer: the symbols with an order the last sweep could not cancel or could not
see.

**StocksTrader** adds the trader and its session. `task[s]` is the round trip of
a symbol (`submit_entry`, `poll_entry`, `hold`, `submit_exit`, `poll_exit`); one
action is one stretch of code between two awaits. `pending` and `open_pos` are
kept apart from `task` as in the code, so that their agreement can be checked.
`on_prediction` marks its window and enters or refuses in one action; the
`finally` clause is part of every action that ends a task. A close may fail to
write the book file, which skips the cap check. `CloseAll`, `CancelStragglers`,
`StartFinalSweep` and the sweep are `close_all`. `Restart` is a kill or an end at
any point, followed by a new process that sweeps. `lost` is an observer: the round
trips of a symbol that ended without a confirmed exit since a sweep last cleared it.

**CryptoPipeline** adds the long-only book, the breaker and `run`. A buy is
submitted at once; a sell first reads the held quantity, clamps to it, and forgets
the position if there is none. The broker keeps `Fee` lots of a buy. The book
changes only when an order is seen filled. The hot loop goes on in phase
`closing`, because closing the source does not end its stream. `lost` counts, per
symbol, the buys the book never learned of or forgot since a startup sweep cleared
the symbol.

**ColdStore** has the queue, `_buffers`, the swapped-out batch, and the batch of a
flush that was cancelled (`orphan`), whose thread goes on inserting. A pass of
the drain loop is one action, since it awaits nothing. **AppendLog** is what the
store promises: each table is always a prefix of what it was given.

**SymbolPipeline** names prices by the quotes that carried them: a label knows
the quote it was made on and the quote that resolved it, which is all lookahead
is about. Quotes are classed by what the feature engine and trade rule make of
them (`empty`, `blind`, `flat`, `enter`). **ShadowBook** adds both cadences of the
live books, the frames of the websocket, and the backtest of the recording as a
pure function of it, so that live and backtest are compared trade for trade;
`Replay` is `live_vs_backtest.py`, which replays the recording through a pipeline
of its own and compares the directions.

**Feed** is the two sources and their ingest stages. `phase[s]` is where `stream`
is suspended; a frame is handled without suspension unless the put has to wait,
so while a source is in phase `frame` nothing else moves. The venues differ in
`Parse` (a list of messages, or a ticker that is a quote and a trade at once), in
`SymbolOf` and in which refusals are fatal. `ConnectionLost` evaluates
`_backoff.next()` as the except clause does: when the power overflows the
exception leaves `stream`. **RingBuffer** is the circular buffer as operators on
a record, with the slice in one or two pieces.

**Features** maintains Welford with removal, lagged mids, a volatility-scaled
return, tick persistence and the leader's state, in integers chosen so that every
division is exact; an exponential average is named by its samples. **OnlineModel**
keeps the four kinds of model, whose heads answer anything, of every vector anew;
what is modelled is which answer is emitted, when a classifier or an interval
abstains, which prediction a label is graded with, and the figures kept of both.
**ModelState** is the process and its pickle: starts under one of several
signatures, the save every few status ticks and at the end, a kill in the midst
of it, and the queue of labels that is restored, a horizon of them, of which the
first quote after the outage resolves all that are due.

**Sessions** has a database per day and the four jobs on them. A digest that
screens a day has read `already_recorded` long before it appends; the backfill
reads the recorded days once, then goes through the list of databases it was
given, in which a day may occur twice, and does not look again; `again` counts the
times a day was taken in hand that already was; the archive copies table by table, and a copy is
`torn`, `short` or `whole`. `JobKilled` ends any of them between two steps, and a
killed copy stays torn. `cumulative_tally` and `rolling_green` are computed as in
the code, without fractions. **TrendBot** has runs that decide, submit and note;
its orders fill or expire late; `Swept` is the equities session closing the symbol
both trade. **CryptoAlerts** and **StocksAlerts** are a watcher beside the process
it watches, which restarts, stops writing its status, or blocks; `told`, `said`,
`alarmed` are observers of what was sent. **History** is the dashboards' file:
append, prune at a limit, a write cut short by a kill at the end of a line or
within it, and a glued line that is no longer JSON.

**Research** takes a recorded tape and says what each program computes from it:
`evaluate` with all and with independent rows, `simulate_trading`, the fade rule
and `gap_baseline`, long-only, quartiles, the cadence and latency sweeps on their
grids, and the passive orders of `maker_sim`, over integer prices. The programs
with a loop of their own get one of their own here: `Thinning` and `Gridding` keep
rows, `Sequential` is what all the simulations of one position share, given the
rule that decides a side and the trade an entry leads to. A quote may carry the
timestamp of the one before; the programs then price the later of the two from the
earlier, which is why `LateFillsPayTheMove` is said of tapes without such quotes.

**Jobs** puts nine of these modules side by side. They share no variable, so a
behaviour picks its `subject` at the start and only that module moves: the state
spaces add up instead of multiplying, and nothing of one occurs in another's
properties. **MCJobs** gives it its constants.

**Loops** holds the two shapes of iteration the code uses where something is to be
proved: `Through`, the state a loop ends in, whose step is a function of the state
and the element, and `Filter`, a comprehension that keeps the members of a set.
The folds of the community modules take operators, of which no induction can be
instantiated; with functions and sets the laws of a loop are theorems.

Data is abstracted: quantities are lots, P&L is one of a few values, records are
numbers with a table, symbols are model values. Every condition, early return,
error path and their order are kept. Operators marked *Fault* are variations of a
definition used to confirm that a property notices a mistake; no specification
uses them.

## 3. What the runs show

| Run | Instance | States | What it shows |
|---|---|---|---|
| `stocks_safety` | 3 symbols, 2 slots, 3 round trips, 1 restart, P&L of -2 or 1, cap 2 | 2.3 M | Locks are tasks; capacity counts unconfirmed entries; a symbol without an order error has at the broker what the book says; the final sweep flattens; the cap halts and its overshoot is bounded by the round trips in flight (`CapHolds`); what errors leave at the broker is bounded by the round trips lost (`ExposureOwed`) |
| `stocks_live` | 2 symbols, 2 lots, shorts allowed | 253 k | Round trips and `close_all` end whatever the broker does; partial fills keep a clean book right |
| `stocks_cap` | 2 symbols, 1 restart | violated | A startup sweep can realize the daily cap and trading goes on |
| `crypto` | 2 symbols, 2 lots with a fee of 1, 3 orders, 1 midnight, 1 restart | 731 k | Locks, book against broker, a shutdown that ends and is flat, a bound on what failed orders leave in the account (`ExposureOwed`), locks always released |
| `crypto_maxopen` | 2 symbols, limit 1 | violated | Two buys in flight together exceed the limit |
| `crypto_breaker` | 2 symbols, limit 2 | violated | A later gain un-trips the breaker |
| `coldstore` | 2 tables, batch and queue of 2, 4 records | 32 k | Records are conserved in order, the row count is exact, the tables refine `AppendLog`, everything accepted is stored unless the writer is stopped |
| `shadow` | 5 quotes, times 0..5, horizon 2, regression of 1 | 3.0 M | No lookahead; the queue is ordered, its clamping bounded and nothing overdue (`QueueSound`); live books equal the backtest in both cadences and the replay of `live_vs_backtest.py` agrees; labels are conserved |
| `shadow_replay` | the same, regressing inside a frame | violated | Replay sorts a frame by timestamp, the live books saw it as it came |
| `feed` | 2 sources (one keyed), 1 product, rings of 2, queue of 1, 3 events, exponents up to 2 | 569 k | Events enter the queue in the order each source read them; rings hold the last samples after they wrapped; the delay follows the failures in a row; once the venue recovers, a lost connection is made again |
| `feed_ends` | the same | violated | A garbled answer ends a stream nobody closed |
| `jobs` | nine subjects, bounds in `MCJobs.cfg` | 4.1 M | See the next table |

The run `jobs` explores nine modules, one per behaviour, chosen by `subject`:

| Property | Module | What it says |
|---|---|---|
| `TapeKept` | Sessions | A database is deleted as archived only when every filled table was copied whole, and as old only when enough newer sessions exist, wherever the archive is killed |
| `TallyHonest` | Sessions | A day is counted twice no more often than a day was taken in hand that already was, by the other job or by one backfill twice; but for those, a verdict and the rolling figure rest on as many sessions as they say |
| `LearningSound` | ModelState, OnlineModel | A process has learned all that the last save of its configuration held, in that order; no label is learned twice or out of turn, whatever was restored, and none waits on once it is due; the figures of a model are those of the predictions it made in time |
| `ReportsTruthful` | CryptoAlerts, History | No order is reported twice nor the newest missed, and what was said last of OFFLINE or LIVE is what was seen last, short of the named causes; the dashboards' history is ordered, bounded, and misses no more than kills explain |
| `BlockedReported` | StocksAlerts | A session blocked on its queue and looked at since has been reported, although its status is frozen |
| `OneOrderADay` | TrendBot | A second order of a day, or a second unit held, takes a run cut off between its order and its note |
| `FeaturesExact` | Features | The statistics maintained by adding and removing are those of the window, no leader state is used past its staleness, and trades change no vector of a model without micro features |
| `ResearchSound` | Research | The programs that sequence rows and trades with loops of their own agree where they compute the same, and a passive fill is possible and later than its order |

`BrokerMatchesBook` and `BookMatchesBroker` except the symbols whose order
errored or was not confirmed: the code forgets such an order while the broker may
still fill it, a documented risk (`stockstrader.py:230`), and the exception is as
narrow as the code allows: per symbol, since the last clean start. What such an
order may leave is the subject of `ExposureOwed`, which excepts nothing: a symbol
is never exposed, even if every order still at work fills, by more than one order
for what the book knows of and one for each round trip or buy that was lost since
a sweep cleared it. A retry beside the first order, or an order submitted twice,
would break it. `SweptFlat` and
`ShutdownFlat` except the symbols with an order the sweep could not have
cancelled, and `ExposureOwed` holds of those too. `CapHolds` excepts sessions with an order error, because an unwritable
book file skips the cap check.

The five violated runs are listed under `findings` with the lines they disagree
with.

**Bounds.** `MaxEntries`, `MaxOrders`, `MaxRecords` and `MaxQuotes` limit how much
happens in a behaviour, `MaxRestarts`, `MaxStarts` and `MaxDays` how often the
surroundings change, and `MaxTime` the clock of the quotes. Three round trips on
three symbols for two slots make one symbol wait, and let one be entered twice;
two symbols suffice for the crypto book, whose only coupling between symbols is
the count and the day's P&L. Two lots make a partial fill possible, one lot
suffices where only the order of events matters. Four records for batches of two
fill the queue, make it drop, take two flushes and leave a remainder. Five quotes
with a horizon of two give a label that resolves, one that is clamped, one that
overshoots and one that stays pending. Three events through rings of two make a
ring wrap, and a queue of one makes the second source wait. Connections fail
without bound; four failures in a row, with a largest exponent of two, reach the
overflow of the backoff, and three the cap of the delay. Four days with two kept
make retention act twice; a backfill is told up to `MaxPaths` databases, two, which
may be of one day; a horizon of two in five moments (`MaxMoment`) leaves two labels
in the queue that is saved, which both fall due in the outage; three starts under two signatures include one that
returns to a signature abandoned in between; five inputs overfill every window of
two. Symbols are symmetric where only safety of sets and counts is checked
(`stocks_safety`).

**Fairness.** Weak fairness of each order task: polls are bounded
(`attempts`), sleeps finite, and broker calls are taken to return or raise. Weak
fairness of the sweep and of the steps of `close_all` and `run`: they await only
such calls, or time-limited waits. For the store, that the event loop runs what is
ready, that the thread works, and that deadlines pass. For `Feed`, weak fairness
of `Handle` and strong fairness of the steps of a connection: frames of the other
source take the loop again and again, which disables the step for a moment, but
the loop's ready queue is first in, first out, so a step that is ready again and
again is run; to lose a connection is one of these steps, so none need succeed.
Nothing is assumed of the broker, the venues or the network: no order need ever
fill. `Reconnects` has its hypothesis in the formula: a source is connected again
if from some moment on the venue refuses and drops no connection of it
(`VenueRecovers`), and if no exception ends the stream, which is what
`EndsOnlyWhenTold` is about. Deadlock is not checked, because a
session may end for good once its bounds are used up.

**Taken from the surroundings.** Orders fill only while they are working. A
position is closed at the request of the sweep; that the closing order may take a
second to fill is not represented. An error of a submission leaves the whole order
at the broker or none of it. Quotes that share a receive time and an exchange time
are not distinguished by any order, so frames with equal timestamps are left out.
The recordings of `Research` may have equal timestamps (`Gaps` with 0): the theorem
covers them, and so did a run of `MCJobs` with gaps 0, 1 and 2; the run kept has
gaps 1 and 2, to stay within minutes.

## 4. What is proved

`tlapm` checks every proof to its leaves; the assumptions are those named
`...Assumption` in the modules. Those worth knowing: the tables of a store and the
symbols of a session are finite, a venue has one source and the products of one
source are not those of another, retention keeps at least one session, and `Scale`
and `Unit` make the divisions of the online figures exact. Bounds (`MaxEvents`,
`MaxDay`, `MaxJobs`, ...) are any numbers.

- **StocksTraderProofs**, for any finite set of symbols, any order size, limits and
  P&L values. `TypeCorrect`; from it `LocksAreTasks`, by showing that a task
  enters only through `Enter`, which locks, and leaves only through `Finish`,
  `CancelStragglers` or `Restart`, which unlock. `LocksMatchTasks` is inductive
  together with the types. `CapacityIsRespected` follows from the types and one
  lemma (`PendingGrows`): only `Enter` makes `pending` larger, by one, and `Room`,
  its guard, bounds `open_pos` and `pending` together.

  `BookIsRight` and `SweepLeavesNothing` come from one invariant, `BookInv`. Its
  first part (`Stages`) says what may run beside what: no round trip beside a
  sweep of the account, no sweep while the session trades. Its second part
  (`Tracked`) follows one symbol through the stages: the sweep clears it step by
  step (`Swept`: its orders are gone, then it is on the list or flat, then it is
  flat), while the session trades the account holds what the round trip accounts
  for, and in the end it is flat. Without the steps in between, the property at
  the end of a sweep is not inductive; without the size of an order yet to be
  submitted (`OrderSized`), the account of an exit is not.

  `CapIsWorth` needs the bound on the loss to be exact at every moment
  (`LossKept`): after the halt a round trip that ends may lose `MaxLoss` and uses
  up a slot, so the loss beyond the floor is bounded by the slots no longer in
  use, `MaxOpen - Cardinality(pending)` of them.

  `ExposureIsOwed` excepts no symbol, so it cannot rest on the account being what
  the book says. Its invariant bounds, for each symbol and stage of its round trip,
  what the position, the strays, the threads and the order in hand can still come
  to in each direction; giving up, cancelling and restarting move an order's lots
  from the task to the strays and one round trip to `lost` in the same step.
- **CryptoPipelineProofs**, for any symbols, sizes, fees and limits: `PipelineTyped`
  and `LocksCover` (a symbol is locked exactly while an order of it is executed,
  buys are for symbols not held and sells for symbols held). `ExposureIsOwed` is
  the bound on buys, by the same argument as the trader's.
  `BookIsRight` and `ShutdownLeavesNothing` rest on an invariant of the same form
  as the trader's (`Stages`, `Settled`). Here orders of symbols in flight when the
  hot loop was cancelled (`unsettled`) are executed beside the final sweep; the
  invariant says of each phase which symbols may still change.
- **ColdStoreProofs**, for any finite set of tables, any batch and queue size and any
  records. `StoreInv` keeps, per table, one line of records: those in the table, in
  the batch of a cancelled flush, in the batch a flush awaits, in the buffer and in
  the queue, read in this order, are what was given. A step moves records from one
  place to the next (`LineMoves`, `LineSwaps`, `LineInserts`) and leaves the line
  as it is. For that to be inductive it takes when a batch may be out and a buffer
  filled (`BatchAwaited`, `BuffersSwapped`): a record buffered while an earlier
  one is swapped back would overtake it. From it `RecordsConserved`, `RowsCounted`
  and `StoreImplementsLog`, the refinement of `AppendLog`: whatever fails, a table
  is what it was given first, and grows at its end.
- **SymbolPipelineProofs**, for any horizon and any width of regression. The
  queue's invariant `IInv` adds to the types that the queue is ordered, that
  clamping moved no label by more than `Burst`, and that everything in it is from
  the past. Without the last part the clamp bound is not inductive: a label is
  clamped to the time of an earlier one, which must be known not to exceed the
  latest time seen. `NothingLooksAhead` and `NothingIsOverdue` follow from what
  `pop_ready` pops (`ReadyCountStops`) and from the order of the queue, and
  `QueueIsSound` gathers all of it into the property the run checks.
  `SessionRunsPipeline` shows that `ShadowBook`, the session with its frames and
  books, implements `SymbolPipeline`, so that `SessionLabelsAreSound` has the same
  of every session.

  `BooksMatch` is the parity of live books and backtest. The books see an event at
  a time and the evaluation runs over the whole recording, so the invariant
  (`BooksTracked`) compares them at every moment: what the session holds is where
  the loop of the evaluation, run over what has been recorded and the frame at
  hand, stands. Then each book is the result of `simulate_trading` on the rows it
  was given (`LiveBooks`), and the replay of `live_vs_backtest.py` says so
  (`ReplayCompares`). It needs frames whose quotes ascend, and is stated under
  `~FrameRegress`: the run `shadow_replay` shows that it fails otherwise. That
  sorting a frame by time is then the identity is a lemma on `ORDER BY`, by
  counting the quotes before each (`RanksTaken`). `LabelsAreConserved` holds with
  regressions too: the predictions resolved, followed by those in the queue, are
  the predictions made.
- **FeedProofs**, for any sources, cap and largest exponent: `DelaysFollowFailures`.
  The invariant ties the attempt counter of each source to its failures in a row:
  they agree and exceed the largest exponent by at most one. Steps that leave the
  backoff alone are shown to bring no source to sleep. `FlowInvariant` follows an
  event from the frame to the consumer: events are left over only in a frame that
  is handled, in a put that waits and where a put was cancelled, so what is yet to
  be put always follows what was; `OrderKept` is its consequence for each source,
  whatever the others put in between. `RingsRight` has the ring as a function of
  the position counted back from its head, so that a push moves every value one
  place (`PushHolds`) and the two pieces of a slice across the seam are the last
  values in order (`LastHolds`).
- **JobsProofs** has the nine modules of `Jobs`, of which `JobsRunEach` shows that
  each behaves in the company of the others as it does alone.
  - `TapeIsKept`: a session once captured is in its database, whole in the
    archive, or old enough. The flag of the archive job stands for what it has
    verified (`ArchiveKnows`: the tables it is done with are whole while the flag is
    up), and the number of newer sessions of a day never falls.
  - `TallyIsHonest`: the rows of the history and the days in the hands of the two
    jobs are taken together; of these there are at most `again` more than there are
    different days, for a job takes a day in hand that is not in the history or
    counts it in `again`, and appending moves it from a hand to the history. A
    report is of the history and the day in hand, a part of these.
  - `ReportsAreTruthful` is `AlertsAreTruthful` and `HistoryIsKept`. For the alerts:
    what a look saw is no later than the status, and that no later than the process
    (`LooksInOrder`), across restarts of both. For the history: of the statuses
    logged since the file was pruned last, each append cut short costs at most the
    one it wrote and the one whose line it ran into, and a broken end of the file
    may still cost what the next append will find (`Tracked`). Without the charge
    for the broken end the count is not inductive.
  - `LearningIsSound` is `LearningSurvives` and `FiguresAreHonest`. The first is
    inductive once the file on disk is related to what was last saved: it is that
    save or, until the first, nothing, because the file is replaced in one step.
    What was learned followed by what waits is one ascending sequence of times, in
    the process and in the file; a quote moves the due ones from the front of the
    queue to the end of what was learned (`DueCounted`), and leaves none overdue.
    For the second, each deque is the
    end of a full recomputation over the predictions graded (`FiguresTrack`,
    `WindowMoves`), each sum all of it; that the running mean is exact takes the
    divisibility of `Scale` (`MeanExact`).
  - `FeaturesAreExact`, for any window, lag, warm-up and staleness. Each engine
    answers for the valid quotes it was given (`Answers`): it has counted them, it
    knows the last mid, and its statistic is that of the last returns (`Follows`).
    The squared deviations are kept as what they are before the division,
    `Unit * (Unit * squares - mean * total)`, which one more return and one less
    change by the product of its distances from the old and the new mean
    (`DeviationAdds`); both divisions are exact because `Unit` is a multiple of
    every count. For the trades the invariant carries a second session, replayed
    without them: it ends in the same engines but for the flow (`Bare`), which no
    vector shows (`BareVector`).
  - `BlockedIsReported`, for any queue, warning level and cadence of the status with
    `QueueWarn + StatusEvery =< QueueCap`. A blocked session writes no status, so the
    argument is about the last one it wrote: either it warns already, or the backlog
    is below the warning level plus the events handled since (`StatusKeepsUp`), which
    is too few to be blocked. What a status warned of is reported by the first look
    after it (`SeenIsReported`).
  - `ResearchIsSound`, for any horizon, wait, thresholds and prices, and recordings
    of any length. All it needs of a recording is that time does not go back
    (`RecordingInv`): the quotes whose horizon has passed are then the first of the
    tape (`ResolvedFirst`), and the rows of every program are one sequence, rebased
    to its own start. The rest is induction over that sequence, one lemma for each
    part of the property. `Sequential` never enters before the last trade ended
    (`BookInTurn`). A fill that is not late is the plain trade of its row
    (`AtOnceIsPlain`), so the latency sweep and the backtest agree on the rows of
    any grid, which are rows of the tape in its order (`GridRows`). `LongsAhead` is the greedy argument: after every row the book that only buys
    has bought more often than the other, or as often and is free no later; without
    the second half the count alone is not inductive. The entries of the two passive
    modes are the same because both books are busy until the exit is posted, not
    until it fills (`AlikeEntered`). The counts of the quartiles add up to all rows for any number
    of rows, because the rounded bounds ascend from none to all (`QuartersAdd`).
  - `TrendOneOrderADay`: a run acts on what it read at its start, so the invariant
    carries that to the order and the order to the note: a run in progress found the
    day undone, and an order of today is noted, about to be, or was cut off.
- **PaperBrokerProofs**: lemmas on the account used by both order paths: its
  types, that a symbol without orders at work rests (`UntangledRests`), and that
  every request of a sweep brings each symbol a step further
  (`SweepRequestSwept`).
- **DataLemmas**: induction over numbers, sequences and finite sets, stated with a
  set in the place of the predicate, because a theorem that takes an operator
  cannot be instantiated; and by it the laws of `Through`, `Filter`, comprehensions
  and sums: the empty sequence, one more element, what is kept, and the type.

Every invariant of the passing runs is stated by a theorem. Only model-checked:
liveness under fairness (`EventuallyStored`, `Reconnects`, and that locks are
released and round trips and shutdowns end), which the prover does not handle.
There are no recursive operators in the project.

## 5. What is left

1. The account as several strategies share it: sweeps by symbol of the equities
   session and the trend bot's orders at once, closing orders that take time to
   fill, and the two books of `books.py`. `TrendBot` has the sweep as an event only.
2. A session restarted in its midst, with a recording in two parts and books that
   start again.

## 6. Not modelled

- Floating point: the learners' weights, their step and their calibration.
  Statistics are modelled in integers chosen so that divisions are exact;
  rounding and cancellation are not.
- Rendering: dashboards, digests' text, charts, the notebooks. Credentials,
  logging, deployment files.
- The mains of the offline sweeps, which load recordings and print tables; the
  computations they call are in `Research`.
- Figures that steer nothing: the ingest queue's high-water mark, the jitter of the
  backoff, the check that timestamps are monotonic.

Where the code does something a reader may not expect, seen while modelling and
not made a run of its own:

- The equities watcher may say "recovered" while the producer is blocked, as it
  reads the last status.
- The digest's backfill does not look at `excluded_sessions`, and the recorder's
  retention deletes old tapes whether or not they were archived.
- After a restore, the labels that fell due in the outage are all resolved by the
  first quote and measure a return over it.
- A backfill told two databases of one day scores the day twice; the digest's own
  runs never name one twice.
- In mode `maker_maker` the passive exit is posted at the horizon and may fill
  later, while the slot is free from the horizon on (`maker_sim.py:159`): two
  positions may be open at once, though `maker_sim.py:109` says "One position at a
  time."
- `live_vs_backtest.py` counts its non-overlapping rows for persistence from all
  rows; `evaluate` counts them from its own selection.
- `latency_sweep.py` looks the price at a signal up by its time: of two quotes with
  one timestamp it takes the earlier, for the row of the later too
  (`latency_sweep.py:92`), while the spread it charges is the row's own.
- `report.py` cuts quartiles with `qcut`, `evaluation.py` by rank.
- Two renders of a dashboard started together may interleave their writes.

## 7. Running it

```
tlc -workers 2 -config MCStocksTrader.cfg MCStocksTrader.tla
tlapm StocksTraderProofs.tla
```

Each `.cfg` belongs to the MC module that `PROJECT.json` names beside it.
