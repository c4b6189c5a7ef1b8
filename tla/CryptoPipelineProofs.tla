------------------------ MODULE CryptoPipelineProofs ------------------------
(***************************************************************************)
(* Theorems about the order path of the crypto pipeline, for any symbols,  *)
(* order size, fee, limits and P&L.                                        *)
(***************************************************************************)
EXTENDS CryptoPipeline, PaperBrokerProofs

\* A symbol nothing is executed for is a legal state of its task.
LEMMA IdleType == Idle \in Task
BY BrokerAssumption DEF Idle, Task, Pcs, Dirs

\* The lots that a shutdown or a crash hands to the broker are counts.
LEMMA PolledType == TypeOK => Polled \in Lots /\ Threaded \in Lots
BY BrokerAssumption DEF TypeOK, Task, Polled, Threaded, Lots

\* The lots left behind by an order that is given up.
LEMMA AbandonType ==
    ASSUME TypeOK, NEW s \in Symbols, Abandon(s)
    PROVE  stray' \in Lots
<1>1. stray \in Lots /\ task[s].left \in Nat /\ task[s].side \in Dirs
  BY DEF TypeOK, BrokerTypeOK, Lots, Task
<1>2. stray[s][task[s].side] + task[s].left >= 0
  BY <1>1 DEF Lots
<1>3. AddLots(stray, s, task[s].side, task[s].left) \in Lots
  BY <1>1, <1>2, AddLotsType
<1> QED
  BY <1>1, <1>3 DEF Abandon

\* Counting buys and positions the book does not hold.
LEMMA LosesType ==
    ASSUME TypeOK, NEW S, Loses(S)
    PROVE  /\ lost' \in [Symbols -> Nat]
           /\ \A s \in Symbols : lost'[s] = lost[s] + IF s \in S THEN 1 ELSE 0
BY DEF TypeOK, Loses
-----------------------------------------------------------------------------
(* Types.                                                                  *)

\* Whether a P&L trips the breaker is a truth value.
LEMMA TrippedType == ASSUME NEW pnl \in Int PROVE TrippedAt(pnl) \in BOOLEAN
BY PipelineAssumption DEF TrippedAt

\* A first process starts well typed.
LEMMA InitType == Init => TypeOK
<1> SUFFICES ASSUME Init PROVE TypeOK
  OBVIOUS
<1>1. BrokerTypeOK
  BY BrokerInitType DEF Init
<1>2. task \in [Symbols -> Task]
  BY IdleType DEF Init
<1>3. orders \in 0..MaxOrders /\ days \in 0..MaxDays /\ restarts \in 0..MaxRestarts
  BY PipelineAssumption DEF Init
<1>4. phase \in Phases /\ pnlToday \in Int
  BY DEF Init, Phases
<1>6. newDay \in BOOLEAN /\ wasTripped \in BOOLEAN
  BY Zenon DEF Init
<1>5. book \subseteq Symbols /\ inflight \subseteq Symbols
      /\ troubled \subseteq Symbols /\ unsettled \subseteq Symbols
      /\ lost \in [Symbols -> Nat]
  BY DEF Init
<1> QED
  BY <1>1, <1>2, <1>3, <1>4, <1>5, <1>6 DEF TypeOK

\* A signal that leads to an order.
LEMMA OnSignalType ==
    ASSUME TypeOK, NEW s \in Symbols, OnSignal(s)
    PROVE  TypeOK'
<1>1. PICK d \in Dirs, pc \in {"submit", "read"} : Intend(s, d, pc, Qty)
  BY DEF OnSignal, Dirs
<1>2. [pc |-> pc, side |-> d, left |-> Qty, dead |-> FALSE] \in Task
  BY BrokerAssumption DEF Task, Pcs
<1>3. task' \in [Symbols -> Task]
  BY <1>1, <1>2 DEF Intend, TypeOK
<1>4. orders' \in 0..MaxOrders /\ inflight' \subseteq Symbols
  BY <1>1, PipelineAssumption DEF Intend, TypeOK
<1> QED
  BY <1>3, <1>4 DEF OnSignal, TypeOK, BrokerTypeOK, riskVars, runVars, brokerVars,
                    accountVars

\* A step of _execute.
LEMMA ExecuteType ==
    ASSUME TypeOK, NEW s \in Symbols, ExecuteStep(s)
    PROVE  TypeOK'
<1> USE DEF TypeOK
<1>1. ASSUME Finish(s)
      PROVE  task' \in [Symbols -> Task] /\ inflight' \subseteq Symbols
  BY <1>1, IdleType DEF Finish
<1>2. CASE ReadsPosition(s)
  <2>1. CASE position[s] <= 0
    BY <1>1, <1>2, <2>1 DEF ReadsPosition, BrokerTypeOK, riskVars, runVars, brokerVars,
                            accountVars
  <2>2. CASE ~(position[s] <= 0)
    <3>1. AtMost(Qty, position[s]) \in 0..Qty
      BY <2>2, BrokerAssumption DEF AtMost, BrokerTypeOK
    <3>2. task' = [task EXCEPT ![s] = [task[s] EXCEPT !.pc = "submit",
                                         !.left = AtMost(Qty, position[s])]]
      BY <1>2, <2>2 DEF ReadsPosition
    <3>3. [task[s] EXCEPT !.pc = "submit", !.left = AtMost(Qty, position[s])] \in Task
      <4>1. task[s] \in Task
        OBVIOUS
      <4> QED
        BY <3>1, <4>1 DEF Task, Pcs
    <3>4. task' \in [Symbols -> Task]
      BY <3>2, <3>3
    <3> QED
      BY <1>2, <2>2, <3>4 DEF ReadsPosition, BrokerTypeOK, riskVars, runVars, brokerVars,
                              accountVars
  <2> QED
    BY <2>1, <2>2
<1>3. CASE Submitted(s)
  <2>1. task' \in [Symbols -> Task]
    BY <1>3 DEF Submitted, Task, Pcs
  <2> QED
    BY <1>3, <2>1 DEF Submitted, BrokerTypeOK, riskVars, runVars, brokerVars, accountVars
<1>4. CASE Filled(s)
  <2>1. pnlToday' \in Int
    BY <1>4, PipelineAssumption DEF Filled, Book
  <2>3. wasTripped' \in BOOLEAN
    <3>1. TrippedAt(pnlToday') \in BOOLEAN
      BY <2>1, TrippedType
    <3>2. wasTripped' = wasTripped \/ wasTripped' = (wasTripped \/ TrippedAt(pnlToday'))
      BY <1>4, Zenon DEF Filled, Book
    <3> QED
      BY <3>1, <3>2, Zenon
  <2>2. book' \subseteq Symbols
    BY <1>4 DEF Filled
  <2> QED
    BY <1>1, <1>4, <2>1, <2>2, <2>3 DEF Filled, BrokerTypeOK, runVars, brokerVars, accountVars
<1>5. CASE NotFilled(s)
  <2>1. stray' \in Lots
    BY <1>5, AbandonType DEF NotFilled
  <2> QED
    BY <1>1, <1>5, <2>1, LosesType DEF NotFilled, BrokerTypeOK, Lots, riskVars, runVars
<1>6. CASE CallRaises(s)
  <2>1. stray' \in Lots
    <3>1. CASE UNCHANGED stray
      BY <3>1 DEF BrokerTypeOK, Lots
    <3>2. CASE Abandon(s)
      BY <3>2, AbandonType
    <3>3. CASE stray' = AddLots(stray, s, task[s].side, task[s].left)
      <4>1. stray \in Lots /\ task[s].left \in Nat /\ task[s].side \in Dirs
        BY DEF BrokerTypeOK, Lots, Task
      <4>2. stray[s][task[s].side] + task[s].left >= 0
        BY <4>1 DEF Lots
      <4> QED
        BY <3>3, <4>1, <4>2, AddLotsType
    <3> QED
      BY <1>6, <3>1, <3>2, <3>3 DEF CallRaises
  <2> QED
    BY <1>1, <1>6, <2>1, LosesType DEF CallRaises, BrokerTypeOK, Lots, riskVars, runVars
<1> QED
  BY <1>2, <1>3, <1>4, <1>5, <1>6 DEF ExecuteStep

\* A step of the broker.
LEMMA BrokerStepType ==
    ASSUME TypeOK, NEW s \in Symbols, BrokerStep(s)
    PROVE  TypeOK'
<1>1. CASE FollowedLotFills(s)
  <2>1. task' \in [Symbols -> Task]
    <3>1. task[s] \in Task /\ task[s].left \in 1..Qty
      BY <1>1, BrokerAssumption DEF FollowedLotFills, TypeOK, Task
    <3>2. [task[s] EXCEPT !.left = task[s].left - 1] \in Task
      BY <3>1, BrokerAssumption DEF Task
    <3>3. task' = [task EXCEPT ![s] = [task[s] EXCEPT !.left = task[s].left - 1]]
      BY <1>1 DEF FollowedLotFills
    <3> QED
      BY <3>2, <3>3 DEF TypeOK
  <2>2. Delivered(s) \in Int
    BY DEF Delivered, TypeOK, Task, Dirs, Long, Short
  <2>3. position' \in [Symbols -> Int]
    BY <1>1, <2>2 DEF FollowedLotFills, TypeOK, BrokerTypeOK
  <2> QED
    BY <1>1, <2>1, <2>3 DEF FollowedLotFills, TypeOK, BrokerTypeOK, riskVars, runVars
<1>2. CASE FollowedOrderDies(s)
  <2>1. task' \in [Symbols -> Task]
    BY <1>2 DEF FollowedOrderDies, TypeOK, Task
  <2> QED
    BY <1>2, <2>1 DEF FollowedOrderDies, TypeOK, BrokerTypeOK, riskVars, runVars,
                      brokerVars, accountVars
<1>3. CASE AccountMoves(s)
           /\ UNCHANGED <<book, inflight, task, troubled, orders, riskVars, runVars, lost>>
  <2>1. BrokerTypeOK'
    BY <1>3, AccountMovesType DEF TypeOK
  <2> QED
    BY <1>3, <2>1 DEF TypeOK, riskVars, runVars
<1> QED
  BY <1>1, <1>2, <1>3 DEF BrokerStep

\* The status loop, the stages of run, and the life of the process.
LEMMA RunType ==
    ASSUME TypeOK, Midnight \/ StatusTick \/ RunStep \/ CloseSource \/ Restart
    PROVE  TypeOK'
<1> USE DEF TypeOK
<1>1. CASE Midnight
  BY <1>1, PipelineAssumption DEF Midnight, BrokerTypeOK, runVars, brokerVars, accountVars
<1>2. CASE StatusTick
  <2>1. pnlToday' \in Int
    BY <1>2 DEF StatusTick
  <2>2. newDay' \in BOOLEAN /\ wasTripped' \in BOOLEAN
    <3>1. newDay' = FALSE /\ wasTripped' = TrippedAt(0)
      BY <1>2, Zenon DEF StatusTick
    <3>2. TrippedAt(0) \in BOOLEAN
      BY TrippedType
    <3> QED
      BY <3>1, <3>2, Zenon
  <2> QED
    BY <1>2, <2>1, <2>2 DEF StatusTick, BrokerTypeOK, runVars, brokerVars, accountVars
<1>3. CASE Sweeping
  <2>1. BrokerTypeOK'
    BY <1>3, SweepRequestType DEF Sweeping
  <2> QED
    BY <1>3, <2>1 DEF Sweeping, riskVars, runVars
<1>4. CASE SweepDone
  <2>1. sweep' \in Sweep
    BY <1>4 DEF SweepDone, BrokerTypeOK, Sweep, SweepPcs
  <2>2. phase' \in Phases
    BY <1>4 DEF SweepDone, PhaseAfterSweep, Phases
  <2> QED
    BY <1>4, <2>1, <2>2 DEF SweepDone, BrokerTypeOK, riskVars, accountVars
<1>5. CASE CloseSource
  BY <1>5 DEF CloseSource, Phases, BrokerTypeOK, riskVars, brokerVars, accountVars
<1>6. CASE CancelLoops
  BY <1>6 DEF CancelLoops, Phases, BrokerTypeOK, riskVars, brokerVars, accountVars
<1>7. CASE FlattenOnExit
  <2>1. sweep' \in Sweep
    <3>1. StartSweep \in Sweep
      BY DEF StartSweep, Sweep, SweepPcs
    <3>2. sweep' = sweep \/ sweep' = StartSweep
      BY <1>7 DEF FlattenOnExit
    <3> QED
      BY <3>1, <3>2 DEF BrokerTypeOK
  <2>2. phase' \in Phases
    BY <1>7 DEF FlattenOnExit, Phases
  <2> QED
    BY <1>7, <2>1, <2>2 DEF FlattenOnExit, BrokerTypeOK, riskVars, accountVars
<1>8. CASE Exit
  <2>1. BrokerTypeOK'
    BY <1>8, PolledType, TasksCancelledType DEF Exit
  <2>2. task' \in [Symbols -> Task] /\ phase' \in Phases
    BY <1>8, IdleType DEF Exit, Phases
  <2> QED
    BY <1>8, <2>1, <2>2, LosesType DEF Exit, riskVars
<1>9. CASE Restart
  <2>1. BrokerTypeOK'
    BY <1>9, PolledType, ProcessReplacedType DEF Restart
  <2>2. task' \in [Symbols -> Task] /\ phase' \in Phases
    BY <1>9, IdleType DEF Restart, Phases
  <2>3. restarts' \in 0..MaxRestarts
    BY <1>9, PipelineAssumption DEF Restart
  <2>4. pnlToday' \in Int
    BY <1>9 DEF Restart
  <2>5. newDay' \in BOOLEAN /\ wasTripped' \in BOOLEAN
    <3>1. newDay' = FALSE /\ wasTripped' = TrippedAt(0)
      BY <1>9, Zenon DEF Restart
    <3>2. TrippedAt(0) \in BOOLEAN
      BY TrippedType
    <3> QED
      BY <3>1, <3>2, Zenon
  <2> QED
    BY <1>9, <2>1, <2>2, <2>3, <2>4, <2>5, LosesType DEF Restart
<1> QED
  BY <1>1, <1>2, <1>3, <1>4, <1>5, <1>6, <1>7, <1>8, <1>9 DEF RunStep

\* No step of the pipeline, of the broker or of the clock breaks the types.
LEMMA StepType == TypeOK /\ [Next]_vars => TypeOK'
<1> SUFFICES ASSUME TypeOK, [Next]_vars PROVE TypeOK'
  OBVIOUS
<1>1. CASE UNCHANGED vars
  BY <1>1 DEF vars, riskVars, runVars, brokerVars, accountVars, TypeOK, BrokerTypeOK
<1>2. CASE Next
  BY <1>2, OnSignalType, ExecuteType, BrokerStepType, RunType DEF Next
<1> QED
  BY <1>1, <1>2

\* The pipeline, its book and the account keep their types in every behaviour
\* of Pipeline.run.
THEOREM PipelineTyped == Spec => []TypeOK
<1>1. Init => TypeOK
  BY InitType
<1>2. TypeOK /\ [Next]_vars => TypeOK'
  BY StepType
<1> QED
  BY <1>1, <1>2, PTL DEF Spec
-----------------------------------------------------------------------------
(* The life of an order task.                                              *)

\* Whether a symbol has a task, and on which side.
SameTask(r) == (task'[r].pc = "idle") = (task[r].pc = "idle") /\ task'[r].side = task[r].side

\* A step of _execute concerns its own symbol: it ends the task by way of the
\* finally clause, or leaves its side and its lock as they are.
LEMMA ExecuteFate ==
    ASSUME TypeOK, NEW s \in Symbols, ExecuteStep(s)
    PROVE  /\ \A r \in Symbols \ {s} : SameTask(r)
           /\ \/ Finish(s) /\ task[s].pc # "idle"
              \/ SameTask(s) /\ UNCHANGED <<inflight, book>>
           /\ book' \ {s} = book \ {s}
<1>1. CASE Finish(s)
  BY <1>1 DEF Finish, SameTask, ExecuteStep, ReadsPosition, Submitted, Filled, Done,
              NotFilled, CallRaises, TypeOK
<1>2. CASE ReadsPosition(s) /\ ~Finish(s)
  <2>1. /\ task[s].pc = "read" /\ UNCHANGED <<inflight, book>>
        /\ task' = [task EXCEPT ![s] = [task[s] EXCEPT !.pc = "submit",
                                          !.left = AtMost(Qty, position[s])]]
    BY <1>2 DEF ReadsPosition
  <2> QED
    BY <2>1 DEF SameTask, TypeOK, Task
<1>3. CASE Submitted(s)
  <2>1. /\ task[s].pc = "submit" /\ UNCHANGED <<inflight, book>>
        /\ task' = [task EXCEPT ![s] = [task[s] EXCEPT !.pc = "poll"]]
    BY <1>3 DEF Submitted
  <2> QED
    BY <2>1 DEF SameTask, TypeOK, Task
<1> QED
  BY <1>1, <1>2, <1>3 DEF ExecuteStep, Filled, NotFilled, CallRaises

\* The broker starts and ends no task.
LEMMA BrokerFate ==
    ASSUME TypeOK, NEW s \in Symbols, BrokerStep(s)
    PROVE  /\ \A r \in Symbols : SameTask(r)
           /\ UNCHANGED <<inflight, book, pnlToday>>
BY DEF BrokerStep, FollowedLotFills, FollowedOrderDies, SameTask, TypeOK, Task, riskVars

\* Nor does the status loop or a stage of run, but for the two that end them
\* all.
LEMMA RunFate ==
    ASSUME TypeOK, Midnight \/ StatusTick \/ RunStep \/ CloseSource \/ Restart
    PROVE  \/ UNCHANGED <<task, inflight, book>>
           \/ task' = [s \in Symbols |-> Idle] /\ inflight' = {}
BY DEF Midnight, StatusTick, RunStep, Sweeping, SweepDone, CancelLoops, FlattenOnExit,
       Exit, CloseSource, Restart

\* Whatever leaves the tasks, the locks and the book alone keeps them in step.
LEMMA LocksUntouched ==
    ASSUME LockedWhileExecuting, UNCHANGED <<inflight, book>>,
           \A r \in Symbols : SameTask(r)
    PROVE  LockedWhileExecuting'
BY DEF LockedWhileExecuting, Running, Buying, SameTask

\* No step separates the locks from the tasks, or lets an order and the book
\* be on the same side.
LEMMA StepLocks ==
    TypeOK /\ LockedWhileExecuting /\ [Next]_vars => LockedWhileExecuting'
<1> SUFFICES ASSUME TypeOK, LockedWhileExecuting, [Next]_vars
             PROVE  LockedWhileExecuting'
  OBVIOUS
<1>1. CASE UNCHANGED vars
  BY <1>1, LocksUntouched DEF vars, SameTask
<1>2. ASSUME NEW s \in Symbols, OnSignal(s)
      PROVE  LockedWhileExecuting'
  <2>1. PICK d \in Dirs, pc \in {"submit", "read"} :
          Intend(s, d, pc, Qty) /\ (d = Long <=> s \notin book)
    BY <1>2 DEF OnSignal, Dirs, Long, Short
  <2>2. \A r \in Symbols :
          task'[r] = IF r = s THEN [pc |-> pc, side |-> d, left |-> Qty, dead |-> FALSE]
                     ELSE task[r]
    BY <2>1 DEF Intend, TypeOK
  <2>3. inflight' = inflight \cup {s} /\ book' = book /\ pc # "idle"
    BY <1>2, <2>1 DEF Intend, OnSignal
  <2> QED
    BY <2>1, <2>2, <2>3 DEF LockedWhileExecuting, Running, Buying
<1>3. ASSUME NEW s \in Symbols, ExecuteStep(s)
      PROVE  LockedWhileExecuting'
  <2>1. CASE Finish(s)
    <3>1. \A r \in Symbols : task'[r].pc = (IF r = s THEN "idle" ELSE task[r].pc)
                             /\ (r # s => task'[r].side = task[r].side)
      BY <2>1 DEF Finish, Idle, TypeOK
    <3>2. inflight' = inflight \ {s} /\ \A r \in Symbols \ {s} : r \in book' <=> r \in book
      BY <1>3, <2>1, ExecuteFate DEF Finish
    <3> QED
      BY <3>1, <3>2 DEF LockedWhileExecuting, Running, Buying
  <2>2. CASE ~Finish(s)
    BY <1>3, <2>2, ExecuteFate, LocksUntouched
  <2> QED
    BY <2>1, <2>2
<1>4. ASSUME NEW s \in Symbols, BrokerStep(s)
      PROVE  LockedWhileExecuting'
  BY <1>4, BrokerFate, LocksUntouched
<1>5. CASE Midnight \/ StatusTick \/ RunStep \/ CloseSource \/ Restart
  <2>1. CASE UNCHANGED <<task, inflight, book>>
    BY <2>1, LocksUntouched DEF SameTask
  <2>2. CASE task' = [s \in Symbols |-> Idle] /\ inflight' = {}
    BY <2>2 DEF LockedWhileExecuting, Running, Buying, Idle
  <2> QED
    BY <1>5, <2>1, <2>2, RunFate
<1> QED
  BY <1>1, <1>2, <1>3, <1>4, <1>5 DEF Next

\* A symbol is in flight exactly while an order of it is executed; no second
\* buy of what is held and no second sell of what was sold is ever made.
THEOREM LocksCover == Spec => []LockedWhileExecuting
<1>1. Init => LockedWhileExecuting
  BY DEF Init, LockedWhileExecuting, Running, Idle
<1>2. TypeOK /\ LockedWhileExecuting /\ [Next]_vars => LockedWhileExecuting'
  BY StepLocks
<1> QED
  BY <1>1, <1>2, PipelineTyped, PTL DEF Spec
-----------------------------------------------------------------------------
(* Book against broker.                                                    *)

\* Only a sell reads the position; an order that is still to be submitted has
\* its size, and a sell at the broker is no larger than what a buy delivered.
OrderSized(s) ==
    /\ task[s].pc = "read" => task[s].side = Short
    /\ task[s].pc = "submit" => task[s].left = IF task[s].side = Long THEN Qty ELSE Qty - Fee
    /\ task[s].pc = "poll" /\ task[s].side = Short => task[s].left <= Qty - Fee

Accounted(s) == position[s] = Expected(s) /\ Untangled(s) /\ OrderSized(s)

Trading == phase \in {"running", "closing", "stopped"}

\* What each phase may still change: nothing is executed before the first
\* signal and after the end, the account is swept in two phases only, and
\* after the hot loop is cancelled no order begins.
Stages ==
    /\ phase \in {"startup", "done"} => \A s \in Symbols : task[s].pc = "idle"
    /\ phase = "startup" => book = {}
    /\ phase \notin {"startup", "flattening"} => sweep.pc = "off"
    /\ phase \in {"stopped", "flattening", "saving"} => inflight \subseteq unsettled

\* What is known of a symbol: how far the sweep has cleared it, that the book
\* accounts for it while signals are executed, and that it is flat in the end.
Settled(s) ==
    /\ phase = "startup" => Swept(s)
    /\ Trading /\ ~sweep.failed /\ s \notin troubled \cup outlived => Accounted(s)
    /\ phase = "flattening" /\ s \notin unsettled => Swept(s)
    /\ phase \in {"saving", "done"} /\ ~sweep.failed
       /\ s \notin troubled \cup outlived \cup unsettled => position[s] = 0 /\ Untangled(s)

BookInv == Stages /\ \A s \in Symbols : Settled(s)

\* A step that leaves a symbol alone leaves it as settled as it was.
LEMMA SettledKept ==
    ASSUME NEW r \in Symbols, Settled(r), troubled \subseteq troubled',
           task'[r] = task[r], position'[r] = position[r],
           stray'[r] = stray[r], limbo'[r] = limbo[r], r \in book' <=> r \in book,
           UNCHANGED <<phase, sweep, outlived, unsettled>>
    PROVE  Settled(r)'
BY DEF Settled, Trading, Accounted, Expected, Buying, OrderSized, Untangled, Swept, Cleared

\* A signal begins the order its size of which the book has booked.
LEMMA OnSignalSettles ==
    ASSUME TypeOK, LockedWhileExecuting, NEW s \in Symbols, OnSignal(s), NEW r \in Symbols,
           Settled(r)
    PROVE  Settled(r)'
<1>1. PICK d \in Dirs, pc \in {"submit", "read"} :
        Intend(s, d, pc, Qty) /\ (d = Long => s \notin book /\ pc = "submit")
                              /\ (d = Short => s \in book /\ pc = "read")
  BY DEF OnSignal, Dirs, Long, Short
<1>2. task'[r] = IF r = s THEN [pc |-> pc, side |-> d, left |-> Qty, dead |-> FALSE]
                 ELSE task[r]
  BY <1>1 DEF Intend, TypeOK
<1>3. /\ UNCHANGED <<book, troubled, phase, sweep, outlived, unsettled>>
      /\ UNCHANGED <<position, stray, limbo>> /\ Consuming
  BY DEF OnSignal, runVars, brokerVars, accountVars
<1>4. CASE r # s
  BY <1>2, <1>3, <1>4, SettledKept
<1>5. CASE r = s
  <2>1. task[s].pc = "idle"
    BY DEF OnSignal, LockedWhileExecuting, Running
  <2>2. Accounted(s) => Accounted(s)'
    BY <1>1, <1>2, <1>3, <1>5, <2>1
       DEF Accounted, Expected, Buying, OrderSized, Untangled, Long, Short, Dirs
  <2> QED
    BY <1>3, <1>5, <2>2 DEF Settled, Trading, Consuming
<1> QED
  BY <1>4, <1>5

\* A step of _execute of s leaves the other symbols alone, and the book
\* accounts for s after it, unless it failed.
LEMMA ExecuteApart ==
    ASSUME TypeOK, NEW s \in Symbols, ExecuteStep(s)
    PROVE  /\ UNCHANGED <<phase, sweep, outlived, unsettled, position, limbo>>
           /\ troubled \subseteq troubled'
           /\ \A r \in Symbols \ {s} :
                task'[r] = task[r] /\ stray'[r] = stray[r] /\ (r \in book' <=> r \in book)
<1>1. /\ UNCHANGED <<phase, sweep, outlived, unsettled, position, limbo>>
      /\ troubled \subseteq troubled'
  BY DEF ExecuteStep, ReadsPosition, Submitted, Filled, NotFilled, CallRaises, runVars,
         brokerVars, accountVars
<1>2. ASSUME NEW r \in Symbols \ {s}
      PROVE  task'[r] = task[r] /\ (r \in book' <=> r \in book)
  BY <1>2 DEF ExecuteStep, ReadsPosition, Submitted, Filled, NotFilled, CallRaises, Finish,
              TypeOK
<1>3. ASSUME NEW r \in Symbols \ {s}
      PROVE  stray'[r] = stray[r]
  BY <1>3 DEF ExecuteStep, ReadsPosition, Submitted, Filled, NotFilled, CallRaises, Abandon,
              AddLots, brokerVars, accountVars, TypeOK, BrokerTypeOK
<1> QED
  BY <1>1, <1>2, <1>3

LEMMA ExecuteSettles ==
    ASSUME TypeOK, LockedWhileExecuting, Stages, NEW s \in Symbols, ExecuteStep(s),
           NEW r \in Symbols, Settled(r)
    PROVE  Settled(r)'
<1>1. CASE r # s
  BY <1>1, ExecuteApart, SettledKept
<1>2. CASE r = s
  <2>1. task[s].pc # "idle" /\ phase # "startup" /\ phase # "done"
    BY DEF ExecuteStep, ReadsPosition, Submitted, Filled, Done, NotFilled, CallRaises, Executing
  <2>2. CASE ~Trading
    <3>1. s \in unsettled
      BY <2>1, <2>2 DEF Stages, Trading, LockedWhileExecuting, Running, TypeOK, Phases
    <3> QED
      BY <1>2, <2>1, <2>2, <3>1, ExecuteApart DEF Settled, Trading
  <2>3. ASSUME Accounted(s), s \notin troubled'
        PROVE  Accounted(s)'
    <3>1. /\ position[s] = Expected(s) /\ Untangled(s) /\ OrderSized(s)
          /\ task[s] \in Task /\ position[s] \in Int
      BY <2>3 DEF Accounted, TypeOK, BrokerTypeOK
    <3>2. Buying(s) <=> s \notin book
      BY <2>1 DEF LockedWhileExecuting, Running
    <3>3. Qty \in Nat /\ Fee \in Nat /\ Fee < Qty
      BY BrokerAssumption, PipelineAssumption
    <3>4. CASE ReadsPosition(s)
      <4>1. position[s] = Qty - Fee /\ task[s].side = Short
        BY <2>1, <3>1, <3>2, <3>4 DEF ReadsPosition, Expected, Buying, OrderSized, Long, Short
      <4>2. task' = [task EXCEPT ![s] = [task[s] EXCEPT !.pc = "submit",
                                           !.left = AtMost(Qty, position[s])]]
            /\ UNCHANGED book /\ UNCHANGED brokerVars
        <5>1. ~(position[s] <= 0)
          BY <3>3, <4>1
        <5> QED
          BY <3>4, <5>1 DEF ReadsPosition
      <4>3. task'[s].pc = "submit" /\ task'[s].side = Short /\ task'[s].left = Qty - Fee
        BY <3>1, <3>3, <4>1, <4>2 DEF AtMost, Task, TypeOK
      <4> QED
        BY <3>1, <3>2, <4>1, <4>2, <4>3
           DEF Accounted, Expected, Buying, OrderSized, Untangled, brokerVars, accountVars, Long, Short
    <3>5. CASE Submitted(s)
      <4>1. task' = [task EXCEPT ![s] = [task[s] EXCEPT !.pc = "poll"]]
            /\ UNCHANGED <<book, brokerVars>> /\ task[s].pc = "submit"
        BY <3>5 DEF Submitted
      <4>2. task'[s].pc = "poll" /\ task'[s].side = task[s].side /\ task'[s].left = task[s].left
        BY <3>1, <4>1 DEF Task, TypeOK
      <4>3. task[s].side = Long \/ task[s].side = Short
        BY <3>1 DEF Task, Dirs
      <4> QED
        BY <3>1, <3>2, <3>3, <4>1, <4>2, <4>3
           DEF Accounted, Expected, Buying, OrderSized, Untangled, AtMost, brokerVars,
               accountVars, Long, Short
    <3>6. CASE Filled(s)
      <4>1. task' = [task EXCEPT ![s] = Idle] /\ UNCHANGED brokerVars
            /\ task[s].pc = "poll" /\ task[s].left = 0
            /\ (s \in book' <=> task[s].side = Long)
        BY <3>6 DEF Filled, Finish, Done
      <4>2. task'[s].pc = "idle"
        BY <4>1 DEF Idle, TypeOK
      <4>3. task[s].side = Long \/ task[s].side = Short
        BY <3>1 DEF Task, Dirs
      <4> QED
        BY <3>1, <3>2, <3>3, <4>1, <4>2, <4>3
           DEF Accounted, Expected, Buying, OrderSized, Untangled, AtMost, brokerVars,
               accountVars, Long, Short
    <3>7. CASE NotFilled(s) \/ CallRaises(s)
      BY <2>3, <3>7 DEF NotFilled, CallRaises
    <3> QED
      BY <3>4, <3>5, <3>6, <3>7 DEF ExecuteStep
  <2> QED
    BY <1>2, <2>2, <2>3, ExecuteApart DEF Settled, Trading
<1> QED
  BY <1>1, <1>2

\* A lot that fills, and an order that dies, are in the account of the order.
LEMMA FollowedSettles ==
    ASSUME TypeOK, LockedWhileExecuting, Stages, NEW s \in Symbols,
           FollowedLotFills(s) \/ FollowedOrderDies(s), NEW r \in Symbols, Settled(r)
    PROVE  Settled(r)'
<1>1. /\ UNCHANGED <<phase, sweep, outlived, unsettled, troubled, book, stray, limbo>>
      /\ \A t \in Symbols \ {s} : task'[t] = task[t] /\ position'[t] = position[t]
  BY DEF FollowedLotFills, FollowedOrderDies, runVars, brokerVars, accountVars, TypeOK,
         BrokerTypeOK
<1>2. CASE r # s
  BY <1>1, <1>2, SettledKept
<1>3. CASE r = s
  <2>1. task[s].pc = "poll" /\ task[s].left > 0
    BY DEF FollowedLotFills, FollowedOrderDies, Working
  <2>2. CASE ~Trading
    <3>1. s \in unsettled /\ phase # "startup" /\ phase # "done"
      BY <2>1, <2>2 DEF Stages, Trading, LockedWhileExecuting, Running, TypeOK, Phases
    <3> QED
      BY <1>1, <1>3, <2>2, <3>1 DEF Settled, Trading
  <2>3. ASSUME Accounted(s)
        PROVE  Accounted(s)'
    <3>1. /\ position[s] = Expected(s) /\ Untangled(s) /\ OrderSized(s)
          /\ task[s] \in Task /\ position[s] \in Int /\ task[s].left \in 1..Qty
      BY <2>1, <2>3 DEF Accounted, TypeOK, BrokerTypeOK, Task
    <3>2. Buying(s) <=> s \notin book
      BY <2>1 DEF LockedWhileExecuting, Running
    <3>3. Qty \in Nat /\ Fee \in Nat /\ Fee < Qty
      BY BrokerAssumption, PipelineAssumption
    <3>4. task[s].side = Long \/ task[s].side = Short
      BY <3>1 DEF Task, Dirs
    <3>5. CASE FollowedLotFills(s)
      <4>1. /\ task' = [task EXCEPT ![s] = [task[s] EXCEPT !.left = task[s].left - 1]]
            /\ position'[s] = position[s] + Delivered(s)
        BY <3>5 DEF FollowedLotFills, TypeOK, BrokerTypeOK
      <4>2. /\ task'[s].pc = "poll" /\ task'[s].side = task[s].side
            /\ task'[s].left = task[s].left - 1
        BY <2>1, <3>1, <4>1 DEF Task, TypeOK
      <4>3. CASE task[s].side = Long
        <5>1. Delivered(s) = IF task[s].left <= Fee THEN 0 ELSE 1
          BY <2>1, <4>3 DEF Delivered, Buying, Long
        <5>2. Expected(s) = AtMost(Qty - Fee, Qty - task[s].left)
          BY <2>1, <4>3 DEF Expected, Buying
        <5>3. Expected(s)' = AtMost(Qty - Fee, Qty - (task[s].left - 1))
          BY <2>1, <4>2, <4>3 DEF Expected, Buying
        <5>4. Expected(s)' = position'[s]
          BY <3>1, <3>3, <4>1, <5>1, <5>2, <5>3 DEF AtMost
        <5> QED
          BY <1>1, <3>1, <4>2, <4>3, <5>4 DEF Accounted, OrderSized, Untangled, Long, Short
      <4>4. CASE task[s].side = Short
        <5>1. Delivered(s) = -1 /\ s \in book
          BY <2>1, <3>2, <4>4 DEF Delivered, Buying, Long, Short
        <5>2. Expected(s) = AtMost(Qty - Fee, task[s].left)
          BY <2>1, <4>4, <5>1 DEF Expected, Buying, Long, Short
        <5>3. Expected(s)' = AtMost(Qty - Fee, task[s].left - 1)
          BY <1>1, <2>1, <4>2, <4>4, <5>1 DEF Expected, Buying, Long, Short
        <5>4. task[s].left <= Qty - Fee
          BY <2>1, <3>1, <4>4 DEF OrderSized
        <5>5. Expected(s)' = position'[s]
          BY <3>1, <3>3, <4>1, <5>1, <5>2, <5>3, <5>4 DEF AtMost
        <5>6. OrderSized(s)'
          BY <3>1, <3>3, <4>2, <5>4 DEF OrderSized
        <5> QED
          BY <1>1, <3>1, <5>5, <5>6 DEF Accounted, Untangled
      <4> QED
        BY <3>4, <4>3, <4>4
    <3>6. CASE FollowedOrderDies(s)
      <4>1. task' = [task EXCEPT ![s] = [task[s] EXCEPT !.dead = TRUE]] /\ UNCHANGED position
        BY <3>6 DEF FollowedOrderDies, brokerVars, accountVars
      <4>2. /\ task'[s].pc = task[s].pc /\ task'[s].side = task[s].side
            /\ task'[s].left = task[s].left
        BY <3>1, <4>1 DEF Task, TypeOK
      <4> QED
        BY <1>1, <3>1, <4>1, <4>2 DEF Accounted, Expected, Buying, OrderSized, Untangled
    <3> QED
      BY <3>5, <3>6
  <2> QED
    BY <1>1, <1>3, <2>1, <2>2, <2>3 DEF Settled, Trading
<1> QED
  BY <1>2, <1>3

\* What the account does of its own accord concerns symbols with orders no
\* task follows only.
LEMMA AccountSettles ==
    ASSUME TypeOK, Stages, NEW s \in Symbols, AccountMoves(s),
           UNCHANGED <<book, task, troubled, phase, unsettled>>,
           NEW r \in Symbols, Settled(r)
    PROVE  Settled(r)'
<1>1. BrokerTypeOK /\ UNCHANGED <<sweep, outlived>>
  BY DEF TypeOK, AccountMoves, StrayLotEnds, LimboLands
<1>2. Swept(r) => Swept(r)'
  BY <1>1, AccountMovesSwept
<1>3. Untangled(r) => position'[r] = position[r] /\ Untangled(r)'
  BY <1>1, UntangledRests
<1>4. Accounted(r) => Accounted(r)'
  BY <1>3 DEF Accounted, Expected, Buying, OrderSized
<1> QED
  BY <1>1, <1>2, <1>3, <1>4 DEF Settled, Trading

LEMMA BrokerSettles ==
    ASSUME TypeOK, LockedWhileExecuting, Stages, NEW s \in Symbols, BrokerStep(s),
           NEW r \in Symbols, Settled(r)
    PROVE  Settled(r)'
<1>1. CASE FollowedLotFills(s) \/ FollowedOrderDies(s)
  BY <1>1, FollowedSettles
<1>2. CASE ~(FollowedLotFills(s) \/ FollowedOrderDies(s))
  BY <1>2, AccountSettles DEF BrokerStep, runVars
<1> QED
  BY <1>1, <1>2

\* The stages of run: a sweep that returns leaves what is accounted for at the
\* start, and nothing at the end; an empty book needs no sweep.
LEMMA RunSettles ==
    ASSUME TypeOK, LockedWhileExecuting, Stages,
           Midnight \/ StatusTick \/ RunStep \/ CloseSource \/ Restart,
           NEW r \in Symbols, Settled(r)
    PROVE  Settled(r)'
<1>1. CASE Midnight \/ StatusTick
  BY <1>1, SettledKept DEF Midnight, StatusTick, runVars, brokerVars, accountVars
<1>2. CASE Sweeping
  <2>1. UNCHANGED <<phase, troubled, unsettled>> /\ BrokerTypeOK /\ SweepRequest
    BY <1>2 DEF Sweeping, runVars, TypeOK
  <2>2. phase \in {"startup", "flattening"}
    BY <2>1 DEF Stages, SweepRequest, SweepCancels, SweepLists, SweepCloses, SweepReturns,
                SweepRaises
  <2>3. Swept(r) => Swept(r)'
    BY <2>1, SweepRequestSwept
  <2> QED
    BY <2>1, <2>2, <2>3 DEF Settled, Trading
<1>3. CASE SweepDone
  <2>1. /\ sweep.pc = "record" /\ sweep'.failed = sweep.failed /\ phase' = PhaseAfterSweep
        /\ UNCHANGED <<book, task, troubled, unsettled, outlived, position, stray, limbo>>
    BY <1>3 DEF SweepDone, accountVars, TypeOK, BrokerTypeOK, Sweep
  <2>2. Swept(r) /\ ~sweep.failed /\ r \notin outlived => position[r] = 0 /\ Untangled(r)
    BY <2>1 DEF Swept, Cleared
  <2>3. CASE phase = "startup"
    <3>1. phase' = "running" /\ task[r].pc = "idle" /\ r \notin book
      BY <2>1, <2>3 DEF PhaseAfterSweep, Stages
    <3>2. Swept(r)
      BY <2>3 DEF Settled
    <3> QED
      BY <2>1, <2>2, <3>1, <3>2 DEF Settled, Trading, Accounted, Expected, Buying, OrderSized, Untangled
  <2>4. CASE phase = "flattening"
    BY <2>1, <2>2, <2>4 DEF Settled, Trading, PhaseAfterSweep, Untangled
  <2> QED
    BY <2>1, <2>3, <2>4 DEF Stages
<1>4. CASE CancelLoops
  BY <1>4 DEF CancelLoops, Settled, Trading, Accounted, Expected, Buying, OrderSized, Untangled,
              brokerVars, accountVars
<1>5. CASE FlattenOnExit
  <2>1. /\ phase = "stopped"
        /\ UNCHANGED <<book, task, troubled, unsettled, outlived, position, stray, limbo>>
    BY <1>5 DEF FlattenOnExit, accountVars
  <2>2. CASE book = {}
    <3>1. phase' = "saving" /\ sweep' = sweep
      BY <1>5, <2>2 DEF FlattenOnExit, BookEmpty
    <3>2. r \notin unsettled => task[r].pc = "idle"
      BY <2>1 DEF Stages, LockedWhileExecuting, Running
    <3> QED
      BY <2>1, <2>2, <3>1, <3>2 DEF Settled, Trading, Accounted, Expected, Buying, Untangled
  <2>3. CASE book # {}
    <3>1. phase' = "flattening" /\ sweep'.pc = "cancel"
      BY <1>5, <2>3 DEF FlattenOnExit, BookEmpty, StartSweep
    <3> QED
      BY <3>1 DEF Settled, Trading, Swept, Cleared
  <2> QED
    BY <2>2, <2>3
<1>6. CASE Exit
  <2>1. /\ phase = "saving" /\ phase' = "done"
        /\ UNCHANGED <<troubled, unsettled, position, sweep, outlived>>
    BY <1>6 DEF Exit, TasksCancelled
  <2>2. ASSUME r \notin unsettled, Untangled(r)
        PROVE  Untangled(r)'
    <3>1. task[r].pc = "idle"
      BY <2>1, <2>2 DEF Stages, LockedWhileExecuting, Running
    <3>2. \A d \in Dirs : Polled[r][d] = 0 /\ Threaded[r][d] = 0
      BY <3>1 DEF Polled, Threaded, Working
    <3>3. /\ stray'[r] = [d \in Dirs |-> stray[r][d] + Polled[r][d]]
          /\ limbo'[r] = [d \in Dirs |-> limbo[r][d] + Threaded[r][d]]
      BY <1>6 DEF Exit, TasksCancelled, Orphan
    <3> QED
      BY <2>2, <3>2, <3>3 DEF Untangled, NoLots
  <2> QED
    BY <2>1, <2>2 DEF Settled, Trading
<1>7. CASE CloseSource
  BY <1>7 DEF CloseSource, Settled, Trading, Accounted, Expected, Buying, OrderSized, Untangled,
              brokerVars, accountVars
<1>8. CASE Restart
  <2>1. phase' = "startup" /\ sweep'.pc = "cancel"
    BY <1>8 DEF Restart, ProcessReplaced, StartSweep
  <2> QED
    BY <2>1 DEF Settled, Trading, Swept, Cleared
<1> QED
  BY <1>1, <1>2, <1>3, <1>4, <1>5, <1>6, <1>7, <1>8 DEF RunStep

\* No step begins what its stage excludes.
LEMMA StepStages ==
    ASSUME TypeOK, LockedWhileExecuting, Stages, [Next]_vars
    PROVE  Stages'
<1>1. CASE UNCHANGED vars
  BY <1>1 DEF vars, runVars, brokerVars, Stages
<1>2. ASSUME NEW s \in Symbols, OnSignal(s)
      PROVE  Stages'
  BY <1>2 DEF OnSignal, Consuming, Stages, runVars, brokerVars
<1>3. ASSUME NEW s \in Symbols, ExecuteStep(s)
      PROVE  Stages'
  <2>1. UNCHANGED <<phase, sweep, unsettled>> /\ inflight' \subseteq inflight
    BY <1>3, ExecuteFate, ExecuteApart DEF Finish
  <2>2. phase # "startup" /\ phase # "done"
    BY <1>3 DEF ExecuteStep, Executing
  <2> QED
    BY <2>1, <2>2 DEF Stages
<1>4. ASSUME NEW s \in Symbols, BrokerStep(s)
      PROVE  Stages'
  <2>1. \A r \in Symbols : SameTask(r)
    BY <1>4, BrokerFate
  <2>2. UNCHANGED <<phase, sweep, unsettled, inflight, book>>
    BY <1>4 DEF BrokerStep, FollowedLotFills, FollowedOrderDies, AccountMoves, StrayLotEnds,
                LimboLands, runVars, brokerVars
  <2> QED
    BY <2>1, <2>2 DEF Stages, SameTask
<1>5. CASE Midnight \/ StatusTick \/ CloseSource
  BY <1>5 DEF Midnight, StatusTick, CloseSource, Stages, runVars, brokerVars
<1>6. CASE Sweeping
  <2>1. phase \in {"startup", "flattening"} /\ UNCHANGED <<phase, unsettled, inflight, book, task>>
    BY <1>6 DEF Sweeping, Stages, SweepRequest, SweepCancels, SweepLists, SweepCloses,
                SweepReturns, SweepRaises, runVars
  <2> QED
    BY <2>1 DEF Stages
<1>7. CASE SweepDone
  <2>1. sweep'.pc = "off" /\ UNCHANGED <<unsettled, inflight, book, task>>
        /\ phase' = PhaseAfterSweep /\ phase \in {"startup", "flattening"}
    BY <1>7 DEF SweepDone, Stages, TypeOK, BrokerTypeOK, Sweep
  <2> QED
    BY <2>1 DEF Stages, PhaseAfterSweep
<1>8. CASE CancelLoops \/ FlattenOnExit
  BY <1>8 DEF CancelLoops, FlattenOnExit, Stages, brokerVars, accountVars
<1>9. CASE Exit \/ Restart
  <2>1. \A s \in Symbols : task'[s].pc = "idle"
    BY <1>9 DEF Exit, Restart, Idle
  <2>2. \/ phase' = "startup" /\ book' = {}
        \/ phase' = "done" /\ sweep'.pc = "off"
    BY <1>9 DEF Exit, Restart, TasksCancelled, Stages
  <2> QED
    BY <2>1, <2>2 DEF Stages
<1> QED
  BY <1>1, <1>2, <1>3, <1>4, <1>5, <1>6, <1>7, <1>8, <1>9 DEF Next, RunStep

LEMMA BookInvInit == Init => BookInv
BY DEF Init, BookInv, Stages, Settled, Trading, Swept, Cleared, BrokerInit, StartSweep, Idle

LEMMA BookInvStep ==
    TypeOK /\ LockedWhileExecuting /\ BookInv /\ [Next]_vars => BookInv'
<1> SUFFICES ASSUME TypeOK, LockedWhileExecuting, Stages, [Next]_vars,
                    NEW r \in Symbols, Settled(r)
             PROVE  Settled(r)'
  BY StepStages DEF BookInv
<1>1. CASE UNCHANGED vars
  BY <1>1, SettledKept DEF vars, runVars, brokerVars, accountVars
<1> QED
  BY <1>1, OnSignalSettles, ExecuteSettles, BrokerSettles, RunSettles DEF Next

LEMMA BookInvHolds == Spec => []BookInv
<1> QED
  BY BookInvInit, BookInvStep, PipelineTyped, LocksCover, PTL DEF Spec

\* Since a clean start the account holds, of every symbol whose orders never
\* failed, what the book and the order in flight say, however fills, failures
\* of other symbols, midnights and the close of the source interleave.
THEOREM BookIsRight == Spec => []BookMatchesBroker
<1>1. BookInv => BookMatchesBroker
  BY DEF BookInv, Settled, Trading, Accounted, BookMatchesBroker, Consuming
<1> QED
  BY <1>1, BookInvHolds, PTL

\* A shutdown leaves nothing of a symbol whose orders had settled and never
\* failed, whether it swept the account or found nothing to sweep.
THEOREM ShutdownLeavesNothing == Spec => []ShutdownFlat
<1>1. BookInv => ShutdownFlat
  BY DEF BookInv, Settled, ShutdownFlat
<1> QED
  BY <1>1, BookInvHolds, PTL
-----------------------------------------------------------------------------
(* What the book does not know of.                                         *)

\* The lots of buys nobody follows, and of the buy in flight.
Adrift(s) == stray[s][Long] + limbo[s][Long]
Own(s) == Polled[s][Long] + Threaded[s][Long]

\* The lots the book answers for at most: a position or a buy is one order, a
\* position that is being sold no more than is left of its sell.
Due(s) ==
    IF Buying(s) \/ (s \in book /\ task[s].pc \in {"idle", "read"}) THEN Qty
    ELSE IF s \in book THEN task[s].left ELSE 0

\* Beyond that the account has one order for each buy that was lost, of which
\* the buys that nobody follows are a part.
Exposed(s) ==
    /\ Adrift(s) <= Qty * lost[s]
    /\ position[s] + Adrift(s) + Own(s) <= Qty * lost[s] + Due(s)

\* Numbers of lots are numbers; the buy in flight is within what is due.
LEMMA LotsType ==
    ASSUME TypeOK, NEW s \in Symbols
    PROVE  /\ position[s] \in Int /\ lost[s] \in Nat /\ Qty \in Nat /\ Qty * lost[s] \in Nat
           /\ Qty * (lost[s] + 1) = Qty * lost[s] + Qty
           /\ \A d \in Dirs : /\ stray[s][d] \in Nat /\ limbo[s][d] \in Nat
                             /\ Polled[s][d] \in Nat /\ Threaded[s][d] \in Nat
           /\ Adrift(s) \in Nat /\ Own(s) \in 0..Qty /\ Due(s) \in 0..Qty
           /\ Own(s) = IF Buying(s) /\ (Working(s) \/ task[s].pc = "submit")
                       THEN task[s].left ELSE 0
           /\ Buying(s) => Due(s) = Qty
           /\ task[s] \in Task /\ task[s].left \in 0..Qty
           /\ Long \in Dirs /\ Short \in Dirs /\ Long = 1 /\ Short = -1
<1>1. position[s] \in Int /\ lost[s] \in Nat /\ Qty \in Nat
  BY BrokerAssumption DEF TypeOK, BrokerTypeOK
<1>2. Qty * lost[s] \in Nat /\ Qty * (lost[s] + 1) = Qty * lost[s] + Qty
  BY <1>1
<1>3. Long \in Dirs /\ Short \in Dirs /\ Long = 1 /\ Short = -1
  BY DEF Dirs, Long, Short
<1>4. \A d \in Dirs : /\ stray[s][d] \in Nat /\ limbo[s][d] \in Nat
                      /\ Polled[s][d] \in Nat /\ Threaded[s][d] \in Nat
  BY PolledType DEF TypeOK, BrokerTypeOK, Lots
<1>5. task[s] \in Task /\ task[s].left \in 0..Qty
  BY DEF TypeOK, Task
<1>6. Own(s) = IF Buying(s) /\ (Working(s) \/ task[s].pc = "submit") THEN task[s].left ELSE 0
  BY <1>1, <1>3, <1>5 DEF Own, Polled, Threaded, Buying, Working
<1>7. Due(s) \in 0..Qty /\ (Buying(s) => Due(s) = Qty)
  BY <1>1, <1>5 DEF Due
<1>8. Adrift(s) \in Nat /\ Own(s) \in 0..Qty
  BY <1>1, <1>3, <1>4, <1>5, <1>6 DEF Adrift
<1> QED
  BY <1>1, <1>2, <1>3, <1>4, <1>5, <1>6, <1>7, <1>8

\* A step that leaves a symbol alone, or takes lots of it off the account.
LEMMA ExposedKept ==
    ASSUME TypeOK, TypeOK', NEW s \in Symbols, Exposed(s), UNCHANGED <<task[s], lost[s]>>,
           s \in book' <=> s \in book, Adrift(s)' <= Adrift(s),
           position'[s] = position[s] \/ position'[s] = 0
    PROVE  Exposed(s)'
<1>1. Due(s)' = Due(s) /\ Own(s)' = Own(s)
  BY DEF Due, Own, Buying, Polled, Threaded, Working
<1>2. Adrift(s) \in Nat /\ Adrift(s)' \in Nat
  BY LotsType DEF Adrift, TypeOK, BrokerTypeOK
<1>3. /\ Own(s) \in Nat /\ Due(s) \in Nat /\ Own(s) <= Due(s) /\ Qty * lost[s] \in Nat
      /\ position[s] \in Int /\ Qty * lost'[s] = Qty * lost[s]
  BY LotsType
<1>4. Adrift(s) <= Qty * lost[s] /\ position[s] + Adrift(s) + Own(s) <= Qty * lost[s] + Due(s)
  BY DEF Exposed
<1>5. CASE position'[s] = position[s]
  BY <1>1, <1>2, <1>3, <1>4, <1>5 DEF Exposed
<1>6. CASE position'[s] = 0
  BY <1>1, <1>2, <1>3, <1>4, <1>6 DEF Exposed
<1> QED
  BY <1>5, <1>6

\* Only a sell asks for the position.
ReadsToSell == \A s \in Symbols : task[s].pc = "read" => task[s].side = Short

LEMMA StepReads == TypeOK /\ ReadsToSell /\ [Next]_vars => ReadsToSell'
<1> SUFFICES ASSUME TypeOK, ReadsToSell, [Next]_vars, NEW r \in Symbols, task'[r].pc = "read"
             PROVE  task'[r].side = Short
  BY DEF ReadsToSell
<1>1. CASE UNCHANGED vars
  BY <1>1 DEF vars, ReadsToSell
<1>2. ASSUME NEW s \in Symbols, OnSignal(s)
      PROVE  task'[r].side = Short
  <2>1. PICK d \in Dirs, pc \in {"submit", "read"} :
          Intend(s, d, pc, Qty) /\ (pc = "read" => d = Short)
    BY <1>2 DEF OnSignal, Dirs
  <2>2. task'[r] = IF r = s THEN [pc |-> pc, side |-> d, left |-> Qty, dead |-> FALSE]
                   ELSE task[r]
    BY <2>1 DEF Intend, TypeOK
  <2> QED
    BY <2>1, <2>2 DEF ReadsToSell
<1>3. ASSUME NEW s \in Symbols, ExecuteStep(s)
      PROVE  task'[r].side = Short
  <2>1. task'[r] = task[r] \/ task'[r] = Idle \/ task'[r].pc \in {"submit", "poll"}
    BY <1>3 DEF ExecuteStep, ReadsPosition, Submitted, Filled, NotFilled, CallRaises, Finish, TypeOK,
                Task
  <2> QED
    BY <2>1 DEF ReadsToSell, Idle
<1>4. ASSUME NEW s \in Symbols, BrokerStep(s)
      PROVE  task'[r].side = Short
  <2>1. task'[r].pc = task[r].pc /\ task'[r].side = task[r].side
    BY <1>4 DEF BrokerStep, FollowedLotFills, FollowedOrderDies, TypeOK, Task
  <2> QED
    BY <2>1 DEF ReadsToSell
<1>5. CASE Midnight \/ StatusTick \/ RunStep \/ CloseSource \/ Restart
  BY <1>5, RunFate DEF ReadsToSell, Idle
<1> QED
  BY <1>1, <1>2, <1>3, <1>4, <1>5 DEF Next

\* A buy is signalled only for a symbol of which nothing is due.
LEMMA OnSignalExposes ==
    ASSUME TypeOK, TypeOK', LockedWhileExecuting, NEW s \in Symbols, OnSignal(s),
           NEW r \in Symbols, Exposed(r)
    PROVE  Exposed(r)'
<1>1. PICK d \in Dirs, pc \in {"submit", "read"} :
        Intend(s, d, pc, Qty) /\ (d = Long => s \notin book /\ pc = "submit")
                              /\ (d = Short => s \in book /\ pc = "read")
  BY DEF OnSignal, Dirs, Long, Short
<1>2. task'[r] = IF r = s THEN [pc |-> pc, side |-> d, left |-> Qty, dead |-> FALSE]
                 ELSE task[r]
  BY <1>1 DEF Intend, TypeOK
<1>3. UNCHANGED <<book, position, stray, limbo, lost>> /\ Adrift(r)' = Adrift(r)
  BY DEF OnSignal, brokerVars, accountVars, Adrift
<1>4. Adrift(r) \in Nat /\ position[r] \in Int /\ Qty * lost[r] \in Nat /\ Qty \in Nat
  BY LotsType
<1>5. CASE r # s
  BY <1>2, <1>3, <1>4, <1>5, ExposedKept
<1>6. CASE r = s
  <2>1. task[s].pc = "idle"
    BY DEF OnSignal, LockedWhileExecuting, Running
  <2>2. Own(s) = 0 /\ Due(s) = IF s \in book THEN Qty ELSE 0
    BY <2>1, LotsType DEF Due, Buying
  <2>3. Due(s)' = Qty
    BY <1>1, <1>2, <1>3, <1>6 DEF Due, Buying, Dirs
  <2>4. Own(s)' = IF d = Long THEN Qty ELSE 0
    <3>1. \A e \in Dirs : Polled'[s][e] = 0
      BY <1>2, <1>6 DEF Polled, Working
    <3>2. Threaded'[s][Long] = IF d = Long THEN Qty ELSE 0
      BY <1>1, <1>2, <1>6 DEF Threaded, Dirs
    <3> QED
      BY <1>4, <3>1, <3>2 DEF Own, Dirs
  <2> QED
    BY <1>1, <1>3, <1>4, <1>6, <2>2, <2>3, <2>4 DEF Exposed, Dirs, Long, Short
<1> QED
  BY <1>5, <1>6

\* A buy is booked or lost; a sell leaves the book with all its lots, and
\* otherwise the position stays in the book.
LEMMA ExecuteExposes ==
    ASSUME TypeOK, TypeOK', LockedWhileExecuting, ReadsToSell, NEW s \in Symbols,
           ExecuteStep(s), NEW r \in Symbols, Exposed(r)
    PROVE  Exposed(r)'
<1>1. /\ UNCHANGED <<position, limbo>>
      /\ \A t \in Symbols \ {s} :
           task'[t] = task[t] /\ stray'[t] = stray[t] /\ (t \in book' <=> t \in book)
  BY ExecuteApart
<1>2. \A t \in Symbols \ {s} : lost'[t] = lost[t]
  BY DEF ExecuteStep, ReadsPosition, Submitted, Filled, NotFilled, CallRaises, Loses, TypeOK
<1>3. CASE r # s
  <2>1. Adrift(r)' <= Adrift(r) /\ lost'[r] = lost[r]
    BY <1>1, <1>2, <1>3, LotsType DEF Adrift
  <2> QED
    BY <1>1, <1>3, <2>1, ExposedKept
<1>4. CASE r = s
  <2>1. /\ position[s] \in Int /\ lost[s] \in Nat /\ Qty \in Nat /\ Qty * lost[s] \in Nat
        /\ Qty * (lost[s] + 1) = Qty * lost[s] + Qty
        /\ Adrift(s) \in Nat /\ Own(s) \in 0..Qty /\ Due(s) \in 0..Qty
        /\ Own(s) = IF Buying(s) /\ (Working(s) \/ task[s].pc = "submit") THEN task[s].left ELSE 0
        /\ task[s] \in Task /\ task[s].left \in 0..Qty
    BY LotsType
  <2>2. Adrift(s) <= Qty * lost[s] /\ position[s] + Adrift(s) + Own(s) <= Qty * lost[s] + Due(s)
    BY <1>4 DEF Exposed
  <2>3. Buying(s) <=> s \notin book
    BY DEF LockedWhileExecuting, Running, ExecuteStep, ReadsPosition, Submitted, Filled, Done,
           NotFilled, CallRaises
  <2>4. Finish(s) => task'[s].pc = "idle" /\ Own(s)' = 0 /\ Due(s)' = IF s \in book' THEN Qty ELSE 0
    <3>1. SUFFICES ASSUME Finish(s) PROVE task'[s].pc = "idle"
      BY DEF Own, Polled, Threaded, Working, Due, Buying, Long, Dirs
    <3> QED
      BY <3>1 DEF Finish, Idle, TypeOK
  <2>5. CASE ReadsPosition(s)
    <3>1. UNCHANGED <<stray, lost>> /\ Adrift(s)' = Adrift(s)
      BY <1>1, <2>5 DEF ReadsPosition, brokerVars, accountVars, Adrift
    <3>2. CASE position[s] <= 0
      <4>1. Finish(s) /\ s \notin book'
        BY <2>5, <3>2 DEF ReadsPosition
      <4> QED
        BY <1>1, <1>4, <2>1, <2>2, <2>4, <3>1, <3>2, <4>1 DEF Exposed
    <3>3. CASE ~(position[s] <= 0)
      <4>1. /\ task' = [task EXCEPT ![s] = [task[s] EXCEPT !.pc = "submit",
                                              !.left = AtMost(Qty, position[s])]]
            /\ UNCHANGED book /\ task[s].pc = "read"
        BY <2>5, <3>3 DEF ReadsPosition
      <4>2. /\ task'[s].pc = "submit" /\ task'[s].side = task[s].side
            /\ task'[s].left = AtMost(Qty, position[s])
        BY <2>1, <4>1 DEF Task, TypeOK
      <4>3. task[s].side # Long /\ s \in book
        BY <2>3, <4>1 DEF ReadsToSell, Buying, Long, Short
      <4>4. Due(s) = Qty /\ Due(s)' = AtMost(Qty, position[s]) /\ Own(s) = 0 /\ Own(s)' = 0
        BY <2>1, <4>1, <4>2, <4>3 DEF Due, Buying, Own, Polled, Threaded, Working, Dirs
      <4> QED
        BY <1>1, <1>4, <2>1, <2>2, <3>1, <3>3, <4>4 DEF Exposed, AtMost
    <3> QED
      BY <3>2, <3>3
  <2>6. CASE Submitted(s)
    <3>1. /\ task' = [task EXCEPT ![s] = [task[s] EXCEPT !.pc = "poll"]]
          /\ UNCHANGED <<book, stray, lost>> /\ task[s].pc = "submit"
      BY <2>6 DEF Submitted, brokerVars, accountVars
    <3>2. task'[s].pc = "poll" /\ task'[s].side = task[s].side /\ task'[s].left = task[s].left
      BY <2>1, <3>1 DEF Task, TypeOK
    <3>3. Due(s)' = Due(s) /\ (Buying(s)' <=> Buying(s)) /\ Adrift(s)' = Adrift(s)
      BY <1>1, <3>1, <3>2 DEF Due, Buying, Adrift
    <3>4. Own(s)' \in Nat /\ Own(s)' <= Own(s)
      BY <2>1, <3>1, <3>2 DEF Own, Polled, Threaded, Buying, Working, Dirs
    <3> QED
      BY <1>1, <1>4, <2>1, <2>2, <3>1, <3>3, <3>4 DEF Exposed
  <2>7. CASE Filled(s)
    <3>1. /\ Finish(s) /\ task[s].pc = "poll" /\ task[s].left = 0 /\ UNCHANGED <<stray, lost>>
          /\ (s \in book' <=> task[s].side = Long)
      BY <2>7 DEF Filled, Done, brokerVars, accountVars
    <3>2. Adrift(s)' = Adrift(s) /\ Due(s) <= Due(s)' /\ Due(s)' \in Nat
      BY <1>1, <2>1, <2>3, <2>4, <3>1 DEF Adrift, Due, Buying
    <3> QED
      BY <1>1, <1>4, <2>1, <2>2, <2>4, <3>1, <3>2 DEF Exposed
  <2>8. CASE NotFilled(s) \/ CallRaises(s)
    <3>1. Finish(s) /\ book' = book /\ task[s].pc # "idle"
      BY <2>8 DEF NotFilled, CallRaises
    <3>2. lost'[s] = lost[s] + IF Buying(s) THEN 1 ELSE 0
      BY <2>8, LosesType DEF NotFilled, CallRaises, Buyers
    <3>3. /\ Adrift(s)' \in Nat
          /\ Adrift(s)' <= Adrift(s) + Own(s)
      <4>1. stray[s][Long] \in Nat /\ limbo[s][Long] \in Nat /\ Long \in Dirs
        BY LotsType
      <4>2. CASE UNCHANGED stray
        BY <1>1, <2>1, <4>1, <4>2 DEF Adrift
      <4>3. CASE stray' = AddLots(stray, s, task[s].side, task[s].left)
                 /\ (Working(s) \/ task[s].pc = "submit")
        <5>1. stray'[s][Long] = stray[s][Long] + IF task[s].side = Long THEN task[s].left ELSE 0
          BY <2>1, <4>1, <4>3 DEF AddLots, TypeOK, BrokerTypeOK, Task
        <5> QED
          BY <1>1, <2>1, <3>1, <4>1, <4>3, <5>1 DEF Adrift, Buying
      <4> QED
        BY <2>8, <4>2, <4>3 DEF NotFilled, CallRaises, Abandon
    <3>4. CASE Buying(s)
      <4>1. Due(s) = Qty /\ Due(s)' = 0 /\ Own(s)' = 0 /\ Qty * lost'[s] = Qty * lost[s] + Qty
        BY <2>1, <2>3, <2>4, <3>1, <3>2, <3>4 DEF Due
      <4> QED
        BY <1>1, <1>4, <2>1, <2>2, <3>3, <4>1 DEF Exposed
    <3>5. CASE ~Buying(s)
      <4>1. Own(s) = 0 /\ Due(s)' = Qty /\ Own(s)' = 0 /\ Qty * lost'[s] = Qty * lost[s]
        BY <2>1, <2>3, <2>4, <3>1, <3>2, <3>5
      <4> QED
        BY <1>1, <1>4, <2>1, <2>2, <3>3, <4>1 DEF Exposed
    <3> QED
      BY <3>4, <3>5
  <2> QED
    BY <2>5, <2>6, <2>7, <2>8 DEF ExecuteStep
<1> QED
  BY <1>3, <1>4

\* The broker fills or kills what is at work: nothing is added.
LEMMA BrokerExposes ==
    ASSUME TypeOK, TypeOK', LockedWhileExecuting, NEW s \in Symbols, BrokerStep(s),
           NEW r \in Symbols, Exposed(r)
    PROVE  Exposed(r)'
<1>1. CASE FollowedLotFills(s) \/ FollowedOrderDies(s)
  <2>1. /\ UNCHANGED <<book, stray, limbo, lost>> /\ Adrift(r)' = Adrift(r)
        /\ task[s].pc = "poll" /\ ~task[s].dead /\ task[s].left > 0
        /\ \A t \in Symbols \ {s} : task'[t] = task[t] /\ position'[t] = position[t]
    BY <1>1 DEF FollowedLotFills, FollowedOrderDies, Working, brokerVars, accountVars, TypeOK,
                BrokerTypeOK, Adrift
  <2>2. CASE r # s
    BY <2>1, <2>2, LotsType, ExposedKept
  <2>3. CASE r = s
    <3>1. /\ position[s] \in Int /\ Qty * lost[s] \in Nat /\ Qty \in Nat /\ Adrift(s) \in Nat
          /\ Own(s) = IF Buying(s) /\ (Working(s) \/ task[s].pc = "submit") THEN task[s].left ELSE 0
          /\ task[s] \in Task /\ task[s].left \in 0..Qty /\ Due(s) \in Nat
      BY LotsType
    <3>2. Buying(s) <=> s \notin book
      BY <2>1 DEF LockedWhileExecuting, Running
    <3>3. Adrift(s) <= Qty * lost[s] /\ position[s] + Adrift(s) + Own(s) <= Qty * lost[s] + Due(s)
      BY <2>3 DEF Exposed
    <3>4. CASE FollowedLotFills(s)
      <4>1. /\ task' = [task EXCEPT ![s] = [task[s] EXCEPT !.left = task[s].left - 1]]
            /\ position'[s] = position[s] + Delivered(s)
        BY <3>4 DEF FollowedLotFills, TypeOK, BrokerTypeOK
      <4>2. /\ task'[s].pc = "poll" /\ task'[s].side = task[s].side
            /\ task'[s].left = task[s].left - 1 /\ task'[s].dead = FALSE
        BY <2>1, <3>1, <4>1 DEF Task, TypeOK
      <4>3. task[s].side = Long \/ task[s].side = Short
        BY <3>1 DEF Task, Dirs
      <4>4. CASE task[s].side = Long
        <5>1. Delivered(s) \in {0, 1}
          BY <2>1, <4>4 DEF Delivered, Buying, Long
        <5>2. Own(s) = task[s].left /\ Due(s) = Qty /\ Due(s)' = Qty
          BY <2>1, <3>1, <4>2, <4>4 DEF Due, Buying, Working
        <5>3. Own(s)' = task[s].left - 1
          BY <2>1, <2>3, <3>1, <4>2, <4>4 DEF Own, Polled, Threaded, Working, Dirs
        <5> QED
          BY <2>1, <2>3, <3>1, <3>3, <4>1, <5>1, <5>2, <5>3 DEF Exposed
      <4>5. CASE task[s].side = Short
        <5>1. Delivered(s) = -1 /\ s \in book
          BY <3>2, <4>5 DEF Delivered, Buying, Long, Short
        <5>2. Own(s) = 0 /\ Due(s) = task[s].left /\ Due(s)' = task[s].left - 1
          BY <2>1, <3>1, <4>2, <4>5, <5>1 DEF Due, Buying, Long, Short
        <5>3. Own(s)' = 0
          BY <2>3, <4>2, <4>5 DEF Own, Polled, Threaded, Working, Dirs, Long, Short
        <5> QED
          BY <2>1, <2>3, <3>1, <3>3, <4>1, <5>1, <5>2, <5>3 DEF Exposed
      <4> QED
        BY <4>3, <4>4, <4>5
    <3>5. CASE FollowedOrderDies(s)
      <4>1. task' = [task EXCEPT ![s] = [task[s] EXCEPT !.dead = TRUE]] /\ UNCHANGED position
        BY <3>5 DEF FollowedOrderDies, brokerVars, accountVars
      <4>2. /\ task'[s].pc = "poll" /\ task'[s].side = task[s].side
            /\ task'[s].left = task[s].left /\ task'[s].dead = TRUE
        BY <2>1, <3>1, <4>1 DEF Task, TypeOK
      <4>3. Due(s)' = Due(s)
        BY <2>1, <4>2 DEF Due, Buying
      <4>4. Own(s)' = 0
        BY <2>3, <4>2 DEF Own, Polled, Threaded, Working, Dirs, Long
      <4>5. Own(s) \in Nat
        BY <3>1
      <4> QED
        BY <2>1, <2>3, <3>1, <3>3, <4>1, <4>3, <4>4, <4>5 DEF Exposed
    <3> QED
      BY <1>1, <3>4, <3>5
  <2> QED
    BY <2>2, <2>3
<1>2. CASE AccountMoves(s)
           /\ UNCHANGED <<book, inflight, task, troubled, orders, riskVars, runVars, lost>>
  <2>1. PICK d \in Dirs : StrayLotEnds(s, d) \/ LimboLands(s, d)
    BY <1>2 DEF AccountMoves
  <2>2. /\ \A c \in Dirs : stray[s][c] \in Nat /\ limbo[s][c] \in Nat
        /\ Long \in Dirs /\ Long = 1 /\ (d = 1 \/ d = -1) /\ Adrift(r) \in Nat
        /\ position[s] \in Int /\ Qty * lost[s] \in Nat /\ Own(s) \in Nat /\ Due(s) \in Nat
    BY LotsType DEF Dirs, Long, Short
  <2>3. CASE r # s
    <3>1. /\ stray'[r] = stray[r] /\ limbo'[r] = limbo[r] /\ position'[r] = position[r]
      BY <2>1, <2>3 DEF StrayLotEnds, LimboLands, AddLots, TypeOK, BrokerTypeOK
    <3> QED
      BY <1>2, <2>2, <3>1, ExposedKept DEF Adrift
  <2>4. CASE r = s /\ LimboLands(s, d)
    <3>1. /\ limbo'[s][Long] = IF Long = d THEN 0 ELSE limbo[s][Long]
          /\ \/ stray'[s][Long] = stray[s][Long]
             \/ stray'[s][Long] = stray[s][Long] + IF Long = d THEN limbo[s][d] ELSE 0
      BY <2>2, <2>4 DEF LimboLands, AddLots, TypeOK, BrokerTypeOK
    <3>2. Adrift(s)' <= Adrift(s)
      BY <2>2, <3>1 DEF Adrift
    <3> QED
      BY <1>2, <2>4, <3>2, ExposedKept DEF LimboLands
  <2>5. CASE r = s /\ StrayLotEnds(s, d)
    <3>1. UNCHANGED limbo /\ stray'[s][Long] = stray[s][Long] - IF Long = d THEN 1 ELSE 0
      BY <2>2, <2>5 DEF StrayLotEnds, AddLots, TypeOK, BrokerTypeOK
    <3>2. Adrift(s)' = Adrift(s) - IF Long = d THEN 1 ELSE 0
      BY <2>2, <3>1 DEF Adrift
    <3>3. CASE UNCHANGED position
      BY <1>2, <2>2, <2>5, <3>2, <3>3, ExposedKept
    <3>4. CASE position' = [position EXCEPT ![s] = @ + d]
      <4>1. position'[s] = position[s] + d
        BY <3>4 DEF TypeOK, BrokerTypeOK
      <4>2. Due(s)' = Due(s) /\ Own(s)' = Own(s) /\ Qty * lost'[s] = Qty * lost[s]
        BY <1>2 DEF Due, Own, Buying, Polled, Threaded, Working
      <4>3. Adrift(s) <= Qty * lost[s] /\ position[s] + Adrift(s) + Own(s) <= Qty * lost[s] + Due(s)
        BY <2>5 DEF Exposed
      <4> QED
        BY <2>2, <2>5, <3>2, <4>1, <4>2, <4>3 DEF Exposed
    <3> QED
      BY <2>5, <3>3, <3>4 DEF StrayLotEnds
  <2> QED
    BY <2>1, <2>3, <2>4, <2>5
<1> QED
  BY <1>1, <1>2 DEF BrokerStep

\* The stages of run: a sweep takes lots off; the last stage and the end of the
\* process lose what is at work, and the latter what the book held.
LEMMA RunExposes ==
    ASSUME TypeOK, TypeOK', Stages, Midnight \/ StatusTick \/ RunStep \/ CloseSource \/ Restart,
           NEW r \in Symbols, Settled(r), Exposed(r)
    PROVE  Exposed(r)'
<1>1. /\ position[r] \in Int /\ lost[r] \in Nat /\ Qty \in Nat /\ Qty * lost[r] \in Nat
      /\ Qty * (lost[r] + 1) = Qty * lost[r] + Qty
      /\ stray[r][Long] \in Nat /\ limbo[r][Long] \in Nat
      /\ Polled[r][Long] \in Nat /\ Threaded[r][Long] \in Nat
      /\ Adrift(r) \in Nat /\ Own(r) \in 0..Qty /\ Due(r) \in 0..Qty /\ Long \in Dirs
      /\ Own(r) = IF Buying(r) /\ (Working(r) \/ task[r].pc = "submit") THEN task[r].left ELSE 0
  BY LotsType
<1>2. Adrift(r) <= Qty * lost[r] /\ position[r] + Adrift(r) + Own(r) <= Qty * lost[r] + Due(r)
  BY DEF Exposed
<1>3. CASE UNCHANGED <<book, task, position, stray, limbo, lost[r]>>
  BY <1>1, <1>3, ExposedKept DEF Adrift
<1>4. CASE Sweeping
  <2>1. UNCHANGED <<limbo, book, task, lost>>
        /\ (stray'[r][Long] = stray[r][Long] \/ stray'[r][Long] = 0)
        /\ (position'[r] = position[r] \/ position'[r] = 0)
    <3>1. CASE SweepCancels
      <4>1. PICK kept \in SUBSET Symbols :
              stray' = [s \in Symbols |-> IF s \in kept THEN stray[s] ELSE NoLots]
        BY <3>1 DEF SweepCancels
      <4> QED
        BY <1>1, <1>4, <3>1, <4>1 DEF Sweeping, SweepCancels, NoLots
    <3>2. CASE ~SweepCancels
      BY <1>4, <3>2 DEF Sweeping, SweepRequest, SweepLists, SweepCloses, SweepReturns, SweepRaises,
                        accountVars, TypeOK, BrokerTypeOK
    <3> QED
      BY <3>1, <3>2
  <2>2. Adrift(r)' <= Adrift(r)
    BY <1>1, <2>1 DEF Adrift
  <2> QED
    BY <2>1, <2>2, ExposedKept
<1>5. CASE SweepDone /\ lost'[r] # lost[r]
  <2>1. /\ phase = "startup" /\ sweep.pc = "record" /\ ~sweep.failed /\ r \notin outlived
        /\ lost'[r] = 0 /\ UNCHANGED <<book, task, position, stray, limbo>>
    BY <1>5 DEF SweepDone, accountVars, TypeOK
  <2>2. position[r] = 0 /\ Untangled(r) /\ task[r].pc = "idle" /\ r \notin book
    BY <2>1 DEF Settled, Swept, Cleared, Stages
  <2>3. Adrift(r)' = 0
    BY <1>1, <2>1, <2>2 DEF Adrift, Untangled, NoLots
  <2>4. Own(r)' = 0 /\ Due(r)' = 0
    BY <2>1, <2>2 DEF Own, Polled, Threaded, Working, Due, Buying, Dirs, Long
  <2>5. Qty * 0 = 0
    BY <1>1
  <2> QED
    BY <2>1, <2>2, <2>3, <2>4, <2>5 DEF Exposed
<1>6. CASE Exit \/ Restart
  <2>1. task'[r].pc = "idle" /\ UNCHANGED position
    BY <1>6 DEF Exit, Restart, TasksCancelled, ProcessReplaced, Idle
  <2>2. Own(r)' = 0 /\ Due(r)' = IF r \in book' THEN Qty ELSE 0
    BY <2>1 DEF Own, Polled, Threaded, Working, Due, Buying, Dirs, Long
  <2>3. Adrift(r)' \in Nat /\ Adrift(r)' <= Adrift(r) + Own(r)
    <3>1. CASE Exit
      <4>1. /\ stray'[r][Long] = stray[r][Long] + Polled[r][Long]
            /\ limbo'[r][Long] = limbo[r][Long] + Threaded[r][Long]
        BY <1>1, <3>1 DEF Exit, TasksCancelled, Orphan
      <4> QED
        BY <1>1, <4>1 DEF Adrift, Own
    <3>2. CASE Restart
      <4>1. PICK landed \in SUBSET Symbols :
              Orphan([s \in Symbols |-> [d \in Dirs |->
                        Polled[s][d] + IF s \in landed
                                       THEN limbo[s][d] + Threaded[s][d] ELSE 0]])
        BY <3>2 DEF Restart, ProcessReplaced
      <4>2. stray'[r][Long] = stray[r][Long] + (Polled[r][Long]
              + IF r \in landed THEN limbo[r][Long] + Threaded[r][Long] ELSE 0)
        BY <1>1, <4>1 DEF Orphan
      <4>3. limbo'[r][Long] = 0
        BY <1>1, <3>2 DEF Restart, ProcessReplaced, NoLots
      <4> QED
        BY <1>1, <4>2, <4>3 DEF Adrift, Own
    <3> QED
      BY <1>6, <3>1, <3>2
  <2>4. \/ lost'[r] = lost[r] + 1 /\ r \in book \cup Buyers
        \/ lost'[r] = lost[r] /\ ~Buying(r) /\ (r \in book => r \in book')
    <3>1. CASE Exit
      <4>1. lost'[r] = lost[r] + (IF r \in Buyers THEN 1 ELSE 0) /\ book' = book
        BY <3>1, LosesType DEF Exit
      <4> QED
        BY <1>1, <4>1 DEF Buyers
    <3>2. CASE Restart
      <4>1. lost'[r] = lost[r] + IF r \in book \cup Buyers THEN 1 ELSE 0
        BY <3>2, LosesType DEF Restart
      <4> QED
        BY <1>1, <4>1 DEF Buyers
    <3> QED
      BY <1>6, <3>1, <3>2
  <2>5. CASE lost'[r] = lost[r] + 1
    BY <1>1, <1>2, <2>1, <2>2, <2>3, <2>5 DEF Exposed
  <2>6. CASE lost'[r] = lost[r] /\ ~Buying(r) /\ (r \in book => r \in book')
    <3>1. Own(r) = 0 /\ Due(r) <= Due(r)' /\ Due(r)' \in Nat
      BY <1>1, <2>2, <2>6 DEF Due
    <3> QED
      BY <1>1, <1>2, <2>1, <2>2, <2>3, <2>6, <3>1 DEF Exposed
  <2> QED
    BY <2>4, <2>5, <2>6
<1> QED
  BY <1>3, <1>4, <1>5, <1>6 DEF Midnight, StatusTick, RunStep, SweepDone, CancelLoops,
     FlattenOnExit, CloseSource, brokerVars, accountVars

\* Whatever is lost to errors, orders NOT FILLED, the end of the process and
\* restarts, the account is long by one order for each, and no more.
THEOREM ExposureIsOwed == Spec => []ExposureOwed
<1> DEFINE Inv == ReadsToSell /\ \A s \in Symbols : Exposed(s)
<1>1. Init => Inv
  <2> SUFFICES ASSUME Init PROVE ReadsToSell /\ \A s \in Symbols : Exposed(s)
    OBVIOUS
  <2>0. ReadsToSell
    BY DEF Init, ReadsToSell, Idle
  <2> SUFFICES ASSUME NEW s \in Symbols PROVE Exposed(s)
    BY <2>0
  <2>1. position[s] = 0 /\ lost[s] = 0 /\ task[s].pc = "idle" /\ s \notin book /\ Adrift(s) = 0
    BY DEF Init, BrokerInit, NoLots, Idle, Adrift, Dirs
  <2>2. Own(s) = 0 /\ Due(s) = 0
    BY <2>1 DEF Own, Polled, Threaded, Working, Due, Buying, Dirs, Long
  <2>3. Qty * 0 = 0
    BY BrokerAssumption
  <2> QED
    BY <2>1, <2>2, <2>3 DEF Exposed
<1>2. TypeOK /\ TypeOK' /\ LockedWhileExecuting /\ BookInv /\ Inv /\ [Next]_vars => Inv'
  <2> SUFFICES ASSUME TypeOK, TypeOK', LockedWhileExecuting, BookInv, ReadsToSell,
                      [Next]_vars, NEW r \in Symbols, Exposed(r)
               PROVE  Exposed(r)'
    BY StepReads
  <2>1. CASE UNCHANGED vars
    BY <2>1 DEF vars, brokerVars, accountVars, Exposed, Adrift, Own, Due, Buying, Polled, Threaded,
                Working
  <2> QED
    BY <2>1, OnSignalExposes, ExecuteExposes, BrokerExposes, RunExposes DEF Next, BookInv
<1>3. TypeOK /\ Inv => ExposureOwed
  <2> SUFFICES ASSUME TypeOK, NEW s \in Symbols, Exposed(s)
               PROVE  position[s] + BuysAtWork(s)
                        <= Qty * (lost[s] + IF s \in book \cup Buyers THEN 1 ELSE 0)
    BY DEF ExposureOwed
  <2>1. BuysAtWork(s) = Adrift(s) + Own(s)
    BY LotsType DEF BuysAtWork, Adrift, Own
  <2>2. /\ Qty * (lost[s] + 1) = Qty * lost[s] + Qty /\ lost[s] + 0 = lost[s]
        /\ Qty * lost[s] \in Nat /\ Qty \in Nat /\ Due(s) \in 0..Qty
        /\ position[s] \in Int /\ Adrift(s) \in Nat /\ Own(s) \in Nat
    BY LotsType
  <2>3. s \notin book \cup Buyers => Due(s) = 0
    BY DEF Due, Buyers
  <2>4. position[s] + Adrift(s) + Own(s) <= Qty * lost[s] + Due(s)
    BY DEF Exposed
  <2>5. CASE s \in book \cup Buyers
    BY <2>1, <2>2, <2>4, <2>5
  <2>6. CASE s \notin book \cup Buyers
    BY <2>1, <2>2, <2>3, <2>4, <2>6
  <2> QED
    BY <2>5, <2>6
<1> QED
  BY <1>1, <1>2, <1>3, PipelineTyped, LocksCover, BookInvHolds, PTL DEF Spec
=============================================================================
