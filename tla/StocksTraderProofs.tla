------------------------- MODULE StocksTraderProofs -------------------------
(***************************************************************************)
(* Theorems about the stocks trader, for any symbols, quantity, limits and *)
(* P&L, and without the bounds of the runs mattering.                      *)
(***************************************************************************)
EXTENDS StocksTrader, PaperBrokerProofs, FiniteSetTheorems

\* A symbol without a round trip is a legal state of its task.
LEMMA IdleType == Idle \in Task
BY BrokerAssumption DEF Idle, Task, Pcs, Dirs

\* What the lots of running tasks look like to the broker.
LEMMA OrderDirType ==
    ASSUME TypeOK, NEW s \in Symbols
    PROVE  OrderDir(s) \in Dirs
BY DEF TypeOK, Task, OrderDir, Dirs, Long, Short

\* The lots that cancellations hand to the broker are counts per direction.
LEMMA PolledType == TypeOK => Polled \in Lots /\ Threaded \in Lots
BY BrokerAssumption DEF TypeOK, Task, Polled, Threaded, Lots

\* The lots left behind by a round trip that gives up.
LEMMA AbandonType ==
    ASSUME TypeOK, NEW s \in Symbols, Abandon(s)
    PROVE  stray' \in Lots
<1>1. CASE Working(s)
  <2>1. stray \in Lots /\ task[s].left \in Int /\ OrderDir(s) \in Dirs
    BY OrderDirType DEF TypeOK, BrokerTypeOK, Lots, Task
  <2>2. stray[s][OrderDir(s)] \in Nat /\ task[s].left \in Nat
    BY <2>1 DEF Lots, TypeOK, Task
  <2>3. AddLots(stray, s, OrderDir(s), task[s].left) \in Lots
    BY <2>1, <2>2, AddLotsType
  <2> QED
    BY <1>1, <2>3 DEF Abandon
<1>2. CASE ~Working(s)
  BY <1>2 DEF Abandon, TypeOK, BrokerTypeOK, Lots
<1> QED
  BY <1>1, <1>2

\* Counting round trips that were lost.
LEMMA LosesType ==
    ASSUME TypeOK, NEW S, Loses(S)
    PROVE  /\ lost' \in [Symbols -> Nat]
           /\ \A s \in Symbols : lost'[s] = lost[s] + IF s \in S THEN 1 ELSE 0
BY DEF TypeOK, Loses
-----------------------------------------------------------------------------
(* Types.                                                                  *)

\* A first process starts well typed.
LEMMA InitType == Init => TypeOK
<1> SUFFICES ASSUME Init PROVE TypeOK
  OBVIOUS
<1>1. BrokerTypeOK
  BY BrokerInitType DEF Init
<1>2. Idle \in Task
  BY IdleType
<1>3. task \in [Symbols -> Task]
  BY <1>2 DEF Init
<1>4. entries \in 0..MaxEntries /\ restarts \in 0..MaxRestarts
  BY TraderAssumption DEF Init
<1>5. halted \in BOOLEAN /\ saved \in BOOLEAN
  BY DEF Init
<1>6. phase \in Phases /\ realized \in Int /\ startPnl \in Int
  BY DEF Init, Phases
<1>7. pending \subseteq Symbols /\ open_pos \subseteq Symbols
      /\ looked \subseteq Symbols /\ order_errors \subseteq Symbols
      /\ lost \in [Symbols -> Nat]
  BY DEF Init
<1> QED
  BY <1>1, <1>3, <1>4, <1>5, <1>6, <1>7 DEF TypeOK

\* on_prediction and the passing of its window.
LEMMA HotPathType ==
    ASSUME TypeOK, NEW s \in Symbols, OnPrediction(s) \/ WindowElapses(s)
    PROVE  TypeOK'
<1>1. BrokerTypeOK'
  BY DEF TypeOK, BrokerTypeOK, OnPrediction, WindowElapses, brokerVars, accountVars
<1>2. CASE WindowElapses(s)
  BY <1>1, <1>2 DEF WindowElapses, TypeOK, sessionVars
<1>3. CASE OnPrediction(s) /\ Refuse
  BY <1>1, <1>3 DEF OnPrediction, Refuse, TypeOK, sessionVars
<1>4. CASE OnPrediction(s) /\ Enter(s)
  <2>1. PICK d \in Directions :
          task' = [task EXCEPT ![s] = [pc |-> "submit_entry", dir |-> d,
                                       left |-> Qty, dead |-> FALSE]]
    BY <1>4 DEF Enter
  <2>2. task' \in [Symbols -> Task]
    BY <2>1, BrokerAssumption
    DEF TypeOK, Task, Pcs, EntryPcs, Directions, Dirs, Long, Short
  <2>3. entries' \in 0..MaxEntries
    BY <1>4, TraderAssumption DEF Enter, TypeOK
  <2> QED
    BY <1>1, <1>4, <2>2, <2>3 DEF OnPrediction, Enter, TypeOK, sessionVars
<1> QED
  BY <1>2, <1>3, <1>4 DEF OnPrediction

\* A step of a round trip.
LEMMA RoundTripType ==
    ASSUME TypeOK, NEW s \in Symbols, RoundTripStep(s)
    PROVE  TypeOK'
<1> USE DEF TypeOK
<1>1. ASSUME Finish(s)
      PROVE  /\ task' \in [Symbols -> Task]
             /\ pending' \subseteq Symbols /\ open_pos' \subseteq Symbols
  BY <1>1, IdleType DEF Finish
<1>2. CASE Submitted(s)
  <2>1. task' \in [Symbols -> Task]
    BY <1>2 DEF Submitted, Task, Pcs, EntryPcs, ExitPcs
  <2> QED
    BY <1>2, <2>1 DEF Submitted, traderVars, sessionVars, brokerVars, accountVars,
                      BrokerTypeOK
<1>3. CASE EntryConfirmed(s)
  <2>1. task' \in [Symbols -> Task]
    BY <1>3 DEF EntryConfirmed, Task, Pcs
  <2> QED
    BY <1>3, <2>1 DEF EntryConfirmed, sessionVars, brokerVars, accountVars, BrokerTypeOK
<1>4. CASE GivesUp(s)
  <2>1. stray' \in Lots
    BY <1>4, AbandonType DEF GivesUp
  <2> QED
    BY <1>1, <1>4, <2>1, LosesType DEF GivesUp, sessionVars, BrokerTypeOK, Lots
<1>5. CASE CallRaises(s)
  <2>1. stray' \in Lots
    <3>1. CASE UNCHANGED stray
      BY <3>1 DEF BrokerTypeOK, Lots
    <3>2. CASE Abandon(s)
      BY <3>2, AbandonType
    <3>3. CASE stray' = AddLots(stray, s, OrderDir(s), Qty)
      <4>1. stray \in Lots /\ OrderDir(s) \in Dirs /\ Qty \in Int
        BY OrderDirType, BrokerAssumption DEF BrokerTypeOK, Lots
      <4>2. stray[s][OrderDir(s)] + Qty >= 0
        BY <4>1, BrokerAssumption DEF Lots
      <4> QED
        BY <3>3, <4>1, <4>2, AddLotsType
    <3> QED
      BY <1>5, <3>1, <3>2, <3>3 DEF CallRaises
  <2> QED
    BY <1>1, <1>5, <2>1, LosesType DEF CallRaises, sessionVars, BrokerTypeOK, Lots
<1>6. CASE HoldElapses(s)
  <2>1. task' \in [Symbols -> Task]
    <3>1. task' = [task EXCEPT ![s] = [task[s] EXCEPT !.pc = "submit_exit",
                                                      !.left = Qty]]
      BY <1>6 DEF HoldElapses
    <3>2. [task[s] EXCEPT !.pc = "submit_exit", !.left = Qty] \in Task
      <4>1. task[s] \in Task /\ Qty \in 0..Qty /\ "submit_exit" \in Pcs
        BY BrokerAssumption DEF Pcs, ExitPcs
      <4> QED
        BY <4>1 DEF Task
    <3> QED
      BY <3>1, <3>2
  <2> QED
    BY <1>6, <2>1 DEF HoldElapses, traderVars, sessionVars, brokerVars, accountVars,
                      BrokerTypeOK
<1>7. CASE ExitConfirmed(s)
  <2>1. realized' \in Int
    BY <1>7, TraderAssumption DEF ExitConfirmed
  <2>2. halted' \in BOOLEAN /\ saved' \in BOOLEAN /\ order_errors' \subseteq Symbols
    BY <1>7 DEF ExitConfirmed
  <2> QED
    BY <1>1, <1>7, <2>1, <2>2 DEF ExitConfirmed, sessionVars, brokerVars,
                                  accountVars, BrokerTypeOK
<1> QED
  BY <1>2, <1>3, <1>4, <1>5, <1>6, <1>7 DEF RoundTripStep

\* A step of the broker.
LEMMA BrokerStepType ==
    ASSUME TypeOK, NEW s \in Symbols, BrokerStep(s)
    PROVE  TypeOK'
<1>1. CASE FollowedLotFills(s)
  <2>1. task' \in [Symbols -> Task]
    <3>1. task[s] \in Task /\ task[s].left \in 1..Qty
      BY <1>1, BrokerAssumption DEF FollowedLotFills, TypeOK, Task
    <3>2. [task[s] EXCEPT !.left = task[s].left - 1] \in Task
      BY <3>1, BrokerAssumption DEF Task
    <3>3. task' = [task EXCEPT ![s] = [task[s] EXCEPT !.left = task[s].left - 1]]
      BY <1>1 DEF FollowedLotFills
    <3> QED
      BY <3>2, <3>3 DEF TypeOK
  <2>2. position' \in [Symbols -> Int]
    BY <1>1, OrderDirType DEF FollowedLotFills, TypeOK, BrokerTypeOK, Dirs, Long, Short
  <2> QED
    BY <1>1, <2>1, <2>2 DEF FollowedLotFills, TypeOK, BrokerTypeOK, traderVars, sessionVars
<1>2. CASE FollowedOrderDies(s)
  <2>1. task' \in [Symbols -> Task]
    BY <1>2 DEF FollowedOrderDies, TypeOK, Task
  <2> QED
    BY <1>2, <2>1 DEF FollowedOrderDies, TypeOK, BrokerTypeOK, traderVars, sessionVars,
                      brokerVars, accountVars
<1>3. CASE AccountMoves(s) /\ UNCHANGED <<traderVars, task, sessionVars, entries, lost>>
  <2>1. BrokerTypeOK'
    BY <1>3, AccountMovesType DEF TypeOK
  <2> QED
    BY <1>3, <2>1 DEF TypeOK, traderVars, sessionVars
<1> QED
  BY <1>1, <1>2, <1>3 DEF BrokerStep

\* A step of the sweep.
LEMMA SweepStepType ==
    ASSUME TypeOK, SweepStep
    PROVE  TypeOK'
<1>1. CASE Sweeping
  <2>1. BrokerTypeOK'
    BY <1>1, SweepRequestType DEF Sweeping, TypeOK
  <2> QED
    BY <1>1, <2>1 DEF Sweeping, TypeOK, traderVars, sessionVars
<1>2. CASE SweepDone
  <2>1. sweep' \in Sweep
    BY <1>2 DEF SweepDone, TypeOK, BrokerTypeOK, Sweep, SweepPcs
  <2>2. phase' \in Phases /\ startPnl' \in Int
    BY <1>2 DEF SweepDone, PhaseAfterSweep, Phases, TypeOK
  <2>3. lost' \in [Symbols -> Nat]
    BY <1>2 DEF SweepDone, TypeOK
  <2> QED
    BY <1>2, <2>1, <2>2, <2>3 DEF SweepDone, TypeOK, BrokerTypeOK, traderVars, accountVars
<1>3. ASSUME NEW s \in Symbols, SweepRecords(s)
      PROVE  TypeOK'
  <2>1. sweep' \in Sweep
    <3>1. CASE sweep' = [sweep EXCEPT !.closed = sweep.closed \ {s}]
      BY <3>1 DEF TypeOK, BrokerTypeOK, Sweep
    <3>2. CASE sweep' = [sweep EXCEPT !.closed = {}]
      BY <3>2 DEF TypeOK, BrokerTypeOK, Sweep
    <3> QED
      BY <1>3, <3>1, <3>2 DEF SweepRecords
  <2>2. realized' \in Int /\ saved' \in BOOLEAN
    <3>1. PICK pnl \in Pnls : realized' = realized + pnl
      BY <1>3 DEF SweepRecords
    <3>2. realized' \in Int
      BY <3>1, TraderAssumption DEF TypeOK
    <3> QED
      BY <1>3, <3>2 DEF SweepRecords
  <2> QED
    BY <1>3, <2>1, <2>2 DEF SweepRecords, TypeOK, BrokerTypeOK, sessionVars, accountVars
<1> QED
  BY <1>1, <1>2, <1>3 DEF SweepStep

\* The session and the process.
LEMMA SessionType ==
    ASSUME TypeOK, CloseAll \/ SettleStep \/ Restart
    PROVE  TypeOK'
<1>1. CASE CloseAll
  BY <1>1 DEF CloseAll, TypeOK, BrokerTypeOK, Phases, brokerVars, accountVars
<1>2. CASE StartFinalSweep
  <2>1. sweep' \in Sweep
    BY <1>2 DEF StartFinalSweep, StartSweep, Sweep, SweepPcs
  <2> QED
    BY <1>2, <2>1 DEF StartFinalSweep, TypeOK, BrokerTypeOK, traderVars, sessionVars,
                      accountVars
<1>3. CASE CancelStragglers
  <2>1. BrokerTypeOK'
    BY <1>3, PolledType, TasksCancelledType DEF CancelStragglers, TypeOK
  <2>2. task' \in [Symbols -> Task]
    BY <1>3, IdleType DEF CancelStragglers
  <2> QED
    BY <1>3, <2>1, <2>2, LosesType DEF CancelStragglers, TypeOK, sessionVars
<1>4. CASE Restart
  <2>1. BrokerTypeOK'
    BY <1>4, PolledType, ProcessReplacedType DEF Restart, TypeOK
  <2>2. task' \in [Symbols -> Task]
    BY <1>4, IdleType DEF Restart
  <2>3. restarts' \in 0..MaxRestarts
    BY <1>4, TraderAssumption DEF Restart, TypeOK
  <2>4. halted' \in BOOLEAN /\ saved' \in BOOLEAN
    BY <1>4 DEF Restart
  <2>5. phase' \in Phases /\ realized' \in Int /\ startPnl' \in Int
    BY <1>4 DEF Restart, Phases
  <2>6. pending' \subseteq Symbols /\ open_pos' \subseteq Symbols
        /\ looked' \subseteq Symbols /\ order_errors' \subseteq Symbols
    BY <1>4 DEF Restart
  <2>7. entries' \in 0..MaxEntries
    BY <1>4 DEF Restart, TypeOK
  <2>8. lost' \in [Symbols -> Nat]
    BY <1>4, LosesType DEF Restart
  <2> QED
    BY <2>1, <2>2, <2>3, <2>4, <2>5, <2>6, <2>7, <2>8 DEF TypeOK
<1> QED
  BY <1>1, <1>2, <1>3, <1>4 DEF SettleStep

\* No step of the trader, of the broker or of the session breaks the types.
LEMMA StepType == TypeOK /\ [Next]_vars => TypeOK'
<1> SUFFICES ASSUME TypeOK, [Next]_vars PROVE TypeOK'
  OBVIOUS
<1>1. CASE UNCHANGED vars
  BY <1>1 DEF vars, traderVars, sessionVars, brokerVars, accountVars, TypeOK, BrokerTypeOK
<1>2. CASE Next
  BY <1>2, HotPathType, RoundTripType, BrokerStepType, SweepStepType, SessionType DEF Next
<1> QED
  BY <1>1, <1>2

\* The trader keeps its types in every behaviour.
THEOREM TypeCorrect == Spec => []TypeOK
<1>1. Init => TypeOK
  BY InitType
<1>2. TypeOK /\ [Next]_vars => TypeOK'
  BY StepType
<1> QED
  BY <1>1, <1>2, PTL DEF Spec
-----------------------------------------------------------------------------
(* Locks.                                                                  *)

\* A step that leaves the locks and the stages of the tasks alone.
LEMMA LocksUntouched ==
    ASSUME TypeOK, LocksMatchTasks, UNCHANGED <<pending, open_pos>>,
           \A s \in Symbols : task'[s].pc = task[s].pc
    PROVE  LocksMatchTasks'
BY DEF LocksMatchTasks, Running, ExitPcs

\* The finally clause releases exactly the lock of its task.
LEMMA FinishUnlocks ==
    ASSUME TypeOK, LocksMatchTasks, NEW s \in Symbols, Finish(s)
    PROVE  LocksMatchTasks'
<1>1. \A r \in Symbols : task'[r] = IF r = s THEN Idle ELSE task[r]
  BY DEF Finish, TypeOK
<1>2. Idle.pc = "idle"
  BY DEF Idle
<1> QED
  BY <1>1, <1>2 DEF Finish, LocksMatchTasks, Running, ExitPcs

\* on_prediction locks the symbol it starts a round trip for.
LEMMA EnterLocks ==
    ASSUME TypeOK, LocksMatchTasks, NEW s \in Symbols, Enter(s),
           UNCHANGED open_pos
    PROVE  LocksMatchTasks'
<1>1. PICK d \in Directions :
        task' = [task EXCEPT ![s] = [pc |-> "submit_entry", dir |-> d,
                                     left |-> Qty, dead |-> FALSE]]
  BY DEF Enter
<1>2. \A r \in Symbols :
        task'[r].pc = IF r = s THEN "submit_entry" ELSE task[r].pc
  BY <1>1 DEF TypeOK
<1>3. s \notin open_pos /\ pending' = pending \cup {s}
  BY DEF Enter
<1> QED
  BY <1>2, <1>3 DEF LocksMatchTasks, Running, ExitPcs

\* A step of a round trip keeps its lock, or releases it and ends the task.
LEMMA RoundTripLocks ==
    ASSUME TypeOK, LocksMatchTasks, NEW s \in Symbols, RoundTripStep(s)
    PROVE  LocksMatchTasks'
<1>1. CASE Finish(s)
  BY <1>1, FinishUnlocks
<1>2. CASE Submitted(s)
  <2>1. \A r \in Symbols : task'[r].pc =
          IF r # s THEN task[r].pc
          ELSE IF task[s].pc = "submit_entry" THEN "poll_entry" ELSE "poll_exit"
    BY <1>2 DEF Submitted, TypeOK, Task
  <2>2. UNCHANGED <<pending, open_pos>>
    BY <1>2 DEF Submitted, traderVars
  <2> QED
    BY <1>2, <2>1, <2>2 DEF Submitted, LocksMatchTasks, Running, ExitPcs
<1>3. CASE EntryConfirmed(s)
  <2>1. \A r \in Symbols : task'[r].pc = IF r = s THEN "hold" ELSE task[r].pc
    BY <1>3 DEF EntryConfirmed, TypeOK, Task
  <2>2. task[s].pc = "poll_entry" /\ pending' = pending /\ open_pos' = open_pos \cup {s}
    BY <1>3 DEF EntryConfirmed, EntryFilled
  <2> QED
    BY <2>1, <2>2 DEF LocksMatchTasks, Running, ExitPcs
<1>4. CASE HoldElapses(s)
  <2>1. \A r \in Symbols : task'[r].pc = IF r = s THEN "submit_exit" ELSE task[r].pc
    BY <1>4 DEF HoldElapses, TypeOK, Task
  <2>2. task[s].pc = "hold" /\ UNCHANGED <<pending, open_pos>>
    BY <1>4 DEF HoldElapses, traderVars
  <2> QED
    BY <2>1, <2>2 DEF LocksMatchTasks, Running, ExitPcs
<1> QED
  BY <1>1, <1>2, <1>3, <1>4 DEF RoundTripStep, GivesUp, CallRaises, ExitConfirmed

\* The broker changes no lock and no stage of a task.
LEMMA BrokerStepLocks ==
    ASSUME TypeOK, LocksMatchTasks, NEW s \in Symbols, BrokerStep(s)
    PROVE  LocksMatchTasks'
<1>1. \A r \in Symbols : task'[r].pc = task[r].pc
  BY DEF BrokerStep, FollowedLotFills, FollowedOrderDies, TypeOK, Task
<1>2. UNCHANGED <<pending, open_pos>>
  BY DEF BrokerStep, FollowedLotFills, FollowedOrderDies, traderVars
<1> QED
  BY <1>1, <1>2, LocksUntouched

\* Whenever every task is gone, so are the locks.
LEMMA AllGoneUnlocks ==
    ASSUME LocksMatchTasks, task' = [s \in Symbols |-> Idle],
           pending' = {}, open_pos' = {}
    PROVE  LocksMatchTasks'
BY DEF LocksMatchTasks, Running, ExitPcs, Idle

\* No step separates the locks from the tasks.
LEMMA StepLocks == TypeOK /\ LocksMatchTasks /\ [Next]_vars => LocksMatchTasks'
<1> SUFFICES ASSUME TypeOK, LocksMatchTasks, [Next]_vars PROVE LocksMatchTasks'
  OBVIOUS
<1>1. CASE UNCHANGED vars
  BY <1>1, LocksUntouched DEF vars, traderVars
<1>2. ASSUME NEW s \in Symbols, OnPrediction(s) \/ WindowElapses(s)
      PROVE  LocksMatchTasks'
  BY <1>2, EnterLocks, LocksUntouched DEF OnPrediction, WindowElapses, Refuse
<1>3. CASE SweepStep \/ CloseAll \/ StartFinalSweep
  BY <1>3, LocksUntouched
  DEF SweepStep, Sweeping, SweepDone, SweepRecords, CloseAll, StartFinalSweep, traderVars
<1>4. CASE CancelStragglers
  <2>1. pending \ Running = {} /\ open_pos \ Running = {}
    BY DEF LocksMatchTasks, Running, ExitPcs
  <2> QED
    BY <1>4, <2>1, AllGoneUnlocks DEF CancelStragglers
<1>5. CASE Restart
  BY <1>5, AllGoneUnlocks DEF Restart
<1> QED
  BY <1>1, <1>2, <1>3, <1>4, <1>5, RoundTripLocks, BrokerStepLocks DEF Next, SettleStep

\* The locks of the book are the running round trips, however their steps
\* interleave with predictions, cancellations and restarts.
THEOREM LocksAreTasks == Spec => []LocksMatchTasks
<1>1. Init => LocksMatchTasks
  BY DEF Init, LocksMatchTasks, Running, Idle, ExitPcs
<1>2. TypeOK /\ LocksMatchTasks /\ [Next]_vars => LocksMatchTasks'
  BY StepLocks
<1> QED
  BY <1>1, <1>2, TypeCorrect, PTL DEF Spec
-----------------------------------------------------------------------------
(* Capacity.                                                               *)

\* Locks are only ever added one at a time, by Enter; all else removes.
LEMMA PendingGrows ==
    ASSUME TypeOK, [Next]_vars
    PROVE  \/ pending' \subseteq pending
           \/ /\ ~halted /\ Room
              /\ \E s \in Symbols : pending' = pending \cup {s}
<1>1. CASE UNCHANGED vars
  BY <1>1 DEF vars, traderVars
<1>2. ASSUME NEW s \in Symbols, OnPrediction(s)
      PROVE  \/ pending' \subseteq pending
             \/ /\ ~halted /\ Room
                /\ \E r \in Symbols : pending' = pending \cup {r}
  BY <1>2 DEF OnPrediction, Refuse, Enter, MayLook
<1>3. ASSUME NEW s \in Symbols, WindowElapses(s) \/ RoundTripStep(s) \/ BrokerStep(s)
      PROVE  pending' \subseteq pending
  BY <1>3 DEF WindowElapses, RoundTripStep, Submitted, EntryConfirmed, GivesUp, CallRaises,
              HoldElapses, ExitConfirmed, Finish, BrokerStep, FollowedLotFills,
              FollowedOrderDies, traderVars
<1>4. CASE SweepStep \/ CloseAll \/ SettleStep \/ Restart
  BY <1>4 DEF SweepStep, Sweeping, SweepDone, SweepRecords, CloseAll, SettleStep,
              StartFinalSweep, CancelStragglers, Restart, traderVars
<1> QED
  BY <1>1, <1>2, <1>3, <1>4 DEF Next

\* max_open bounds the round trips, counting unconfirmed entries, for any
\* number of symbols.
THEOREM CapacityIsRespected == Spec => []CapacityRespected
<1>1. Init => CapacityRespected
  BY TraderAssumption, FS_EmptySet DEF Init, CapacityRespected
<1>2. TypeOK /\ CapacityRespected /\ [Next]_vars => CapacityRespected'
  <2> SUFFICES ASSUME TypeOK, CapacityRespected, [Next]_vars
               PROVE  Cardinality(pending') <= MaxOpen
    BY DEF CapacityRespected
  <2>1. IsFiniteSet(pending) /\ IsFiniteSet(open_pos)
    BY BrokerAssumption, FS_Subset DEF TypeOK
  <2>2. Cardinality(pending) \in Nat /\ Cardinality(open_pos) \in Nat
    BY <2>1, FS_CardinalityType
  <2>3. CASE pending' \subseteq pending
    <3>1. Cardinality(pending') <= Cardinality(pending) /\ Cardinality(pending') \in Nat
      BY <2>1, <2>3, FS_Subset, FS_CardinalityType
    <3> QED
      BY <2>2, <3>1, TraderAssumption DEF CapacityRespected
  <2>4. ASSUME Room, NEW s \in Symbols, pending' = pending \cup {s}
        PROVE  Cardinality(pending') <= MaxOpen
    <3>1. Cardinality(pending') =
            IF s \in pending THEN Cardinality(pending) ELSE Cardinality(pending) + 1
      BY <2>1, <2>4, FS_AddElement
    <3> QED
      BY <2>2, <2>4, <3>1, TraderAssumption DEF Room
  <2> QED
    BY <2>3, <2>4, PendingGrows
<1> QED
  BY <1>1, <1>2, TypeCorrect, PTL DEF Spec

-----------------------------------------------------------------------------
(* Book against broker.                                                    *)

OrderSized(s) == task[s].pc \in {"submit_entry", "submit_exit"} => task[s].left = Qty

Accounted(s) == position[s] = Expected(s) /\ Untangled(s) /\ OrderSized(s)

\* Round trips run while the session trades or settles, and never beside a
\* sweep of the account.
Stages ==
    /\ phase \in {"startup", "ended"} \/ sweep.pc # "off" =>
         \A s \in Symbols : task[s].pc = "idle"
    /\ phase \in {"trading", "ended"} => sweep.pc = "off"

\* What is known of a symbol: how far a sweep has cleared it, that the book
\* accounts for it while the session trades, and that it is flat in the end.
Tracked(s) ==
    /\ sweep.pc # "off" => Swept(s)
    /\ phase = "trading" /\ ~sweep.failed /\ s \notin order_errors \cup outlived => Accounted(s)
    /\ phase = "ended" /\ ~sweep.failed /\ s \notin outlived => position[s] = 0 /\ Untangled(s)

BookInv == Stages /\ \A s \in Symbols : Tracked(s)

\* A step that leaves a symbol alone leaves what is known of it.
LEMMA TrackedKept ==
    ASSUME NEW r \in Symbols, Tracked(r), order_errors \subseteq order_errors',
           task'[r] = task[r], position'[r] = position[r],
           stray'[r] = stray[r], limbo'[r] = limbo[r],
           UNCHANGED <<phase, sweep, outlived>>
    PROVE  Tracked(r)'
BY DEF Tracked, Accounted, Expected, OrderSized, Untangled, Swept, Cleared

LEMMA HotPathTracks ==
    ASSUME TypeOK, LocksMatchTasks, NEW s \in Symbols, OnPrediction(s) \/ WindowElapses(s),
           NEW r \in Symbols, Tracked(r)
    PROVE  Tracked(r)'
<1>1. UNCHANGED <<order_errors, phase, sweep, outlived, position, stray, limbo>>
  BY DEF OnPrediction, WindowElapses, sessionVars, brokerVars, accountVars
<1>2. CASE task'[r] = task[r]
  BY <1>1, <1>2, TrackedKept
<1>3. CASE task'[r] # task[r]
  <2>1. OnPrediction(s) /\ Enter(s)
    BY <1>3 DEF OnPrediction, WindowElapses, Refuse
  <2>2. PICK d \in Directions :
          task' = [task EXCEPT ![s] = [pc |-> "submit_entry", dir |-> d,
                                       left |-> Qty, dead |-> FALSE]]
    BY <2>1 DEF Enter
  <2>3. r = s /\ task'[r].pc = "submit_entry" /\ task'[r].left = Qty
    BY <1>3, <2>2 DEF TypeOK
  <2>4. task[r].pc = "idle" /\ phase = "trading"
    BY <2>1, <2>3 DEF Enter, OnPrediction, LocksMatchTasks, Running
  <2> QED
    BY <1>1, <2>3, <2>4 DEF Tracked, Accounted, Expected, OrderSized, Untangled, Swept, Cleared
<1> QED
  BY <1>2, <1>3

\* A step of a round trip leaves the other symbols and the account alone, but
\* for the rest of an order it gives up.
LEMMA RoundTripApart ==
    ASSUME TypeOK, NEW s \in Symbols, RoundTripStep(s)
    PROVE  /\ UNCHANGED <<phase, sweep, outlived, position, limbo>>
           /\ order_errors \subseteq order_errors' /\ task[s].pc # "idle"
           /\ \A r \in Symbols \ {s} : task'[r] = task[r] /\ stray'[r] = stray[r]
<1>1. /\ UNCHANGED <<phase, sweep, outlived, position, limbo>>
      /\ order_errors \subseteq order_errors' /\ task[s].pc # "idle"
  BY DEF RoundTripStep, Submitted, EntryConfirmed, EntryFilled, GivesUp, CallRaises,
         HoldElapses, ExitConfirmed, traderVars, sessionVars, brokerVars, accountVars
<1>2. ASSUME NEW r \in Symbols \ {s}
      PROVE  task'[r] = task[r]
  BY <1>2 DEF RoundTripStep, Submitted, EntryConfirmed, GivesUp, CallRaises, HoldElapses,
              ExitConfirmed, Finish, TypeOK
<1>3. ASSUME NEW r \in Symbols \ {s}
      PROVE  stray'[r] = stray[r]
  BY <1>3 DEF RoundTripStep, Submitted, EntryConfirmed, GivesUp, CallRaises, HoldElapses,
              ExitConfirmed, Abandon, AddLots, brokerVars, accountVars, TypeOK, BrokerTypeOK
<1> QED
  BY <1>1, <1>2, <1>3

\* The book accounts for a symbol after a step of its round trip, unless the
\* step counted an error.
LEMMA RoundTripAccounts ==
    ASSUME TypeOK, NEW s \in Symbols, RoundTripStep(s), Accounted(s), s \notin order_errors'
    PROVE  Accounted(s)'
<1>1. /\ position[s] = Expected(s) /\ Untangled(s) /\ OrderSized(s)
      /\ task[s] \in Task /\ position[s] \in Int
  BY DEF Accounted, TypeOK, BrokerTypeOK
<1>2. Qty \in Nat /\ (task[s].dir = 1 \/ task[s].dir = -1)
  BY <1>1, BrokerAssumption DEF Task, Dirs, Long, Short
<1>3. UNCHANGED position /\ limbo' = limbo
  BY RoundTripApart
<1>4. CASE Submitted(s)
  <2>1. /\ task[s].pc \in {"submit_entry", "submit_exit"} /\ UNCHANGED stray
        /\ task' = [task EXCEPT ![s] = [task[s] EXCEPT !.pc =
             IF task[s].pc = "submit_entry" THEN "poll_entry" ELSE "poll_exit"]]
    BY <1>4 DEF Submitted, brokerVars, accountVars
  <2>2. /\ task'[s].dir = task[s].dir /\ task'[s].left = Qty
        /\ task'[s].pc = IF task[s].pc = "submit_entry" THEN "poll_entry" ELSE "poll_exit"
    BY <1>1, <2>1 DEF OrderSized, Task, TypeOK
  <2> QED
    BY <1>1, <1>2, <1>3, <2>1, <2>2 DEF Accounted, Expected, OrderSized, Untangled
<1>5. CASE EntryConfirmed(s)
  <2>1. /\ task[s].pc = "poll_entry" /\ task[s].left = 0 /\ UNCHANGED stray
        /\ task' = [task EXCEPT ![s] = [task[s] EXCEPT !.pc = "hold"]]
    BY <1>5 DEF EntryConfirmed, EntryFilled, brokerVars, accountVars
  <2>2. task'[s].dir = task[s].dir /\ task'[s].pc = "hold"
    BY <1>1, <2>1 DEF Task, TypeOK
  <2> QED
    BY <1>1, <1>2, <1>3, <2>1, <2>2 DEF Accounted, Expected, OrderSized, Untangled
<1>6. CASE GivesUp(s) \/ CallRaises(s)
  BY <1>6 DEF GivesUp, CallRaises
<1>7. CASE HoldElapses(s)
  <2>1. /\ task[s].pc = "hold" /\ UNCHANGED stray
        /\ task' = [task EXCEPT ![s] = [task[s] EXCEPT !.pc = "submit_exit", !.left = Qty]]
    BY <1>7 DEF HoldElapses, brokerVars, accountVars
  <2>2. task'[s].dir = task[s].dir /\ task'[s].pc = "submit_exit" /\ task'[s].left = Qty
    BY <1>1, <2>1 DEF Task, TypeOK
  <2> QED
    BY <1>1, <1>2, <1>3, <2>1, <2>2 DEF Accounted, Expected, OrderSized, Untangled
<1>8. CASE ExitConfirmed(s)
  <2>1. /\ task[s].pc = "poll_exit" /\ task[s].left = 0 /\ UNCHANGED stray
        /\ task'[s].pc = "idle"
    BY <1>8 DEF ExitConfirmed, Finish, Idle, brokerVars, accountVars, TypeOK
  <2> QED
    BY <1>1, <1>2, <1>3, <2>1 DEF Accounted, Expected, OrderSized, Untangled
<1> QED
  BY <1>4, <1>5, <1>6, <1>7, <1>8 DEF RoundTripStep

LEMMA RoundTripTracks ==
    ASSUME TypeOK, Stages, NEW s \in Symbols, RoundTripStep(s), NEW r \in Symbols, Tracked(r)
    PROVE  Tracked(r)'
<1>1. CASE r # s
  BY <1>1, RoundTripApart, TrackedKept
<1>2. CASE r = s
  <2>1. phase # "ended" /\ sweep.pc = "off"
    BY RoundTripApart DEF Stages
  <2> QED
    BY <1>2, <2>1, RoundTripApart, RoundTripAccounts DEF Tracked
<1> QED
  BY <1>1, <1>2

\* A lot that fills, and an order that dies, are in the account of the order.
LEMMA FollowedTracks ==
    ASSUME TypeOK, Stages, NEW s \in Symbols, FollowedLotFills(s) \/ FollowedOrderDies(s),
           NEW r \in Symbols, Tracked(r)
    PROVE  Tracked(r)'
<1>1. /\ UNCHANGED <<phase, sweep, outlived, order_errors, stray, limbo>>
      /\ \A t \in Symbols \ {s} : task'[t] = task[t] /\ position'[t] = position[t]
  BY DEF FollowedLotFills, FollowedOrderDies, traderVars, sessionVars, brokerVars, accountVars,
         TypeOK, BrokerTypeOK
<1>2. task[s].pc \in {"poll_entry", "poll_exit"} /\ task[s].left > 0
  BY DEF FollowedLotFills, FollowedOrderDies, Working
<1>3. CASE r # s
  BY <1>1, <1>3, TrackedKept
<1>4. CASE r = s
  <2>1. phase # "ended" /\ sweep.pc = "off"
    BY <1>2 DEF Stages
  <2>2. ASSUME Accounted(s)
        PROVE  Accounted(s)'
    <3>1. /\ position[s] = Expected(s) /\ Untangled(s)
          /\ task[s] \in Task /\ position[s] \in Int /\ task[s].left \in 1..Qty
      BY <1>2, <2>2 DEF Accounted, TypeOK, BrokerTypeOK, Task
    <3>2. Qty \in Nat /\ (task[s].dir = 1 \/ task[s].dir = -1)
      BY <3>1, BrokerAssumption DEF Task, Dirs, Long, Short
    <3>3. CASE FollowedLotFills(s)
      <4>1. /\ task' = [task EXCEPT ![s] = [task[s] EXCEPT !.left = task[s].left - 1]]
            /\ position'[s] = position[s] + OrderDir(s)
        BY <3>3 DEF FollowedLotFills, TypeOK, BrokerTypeOK
      <4>2. /\ task'[s].pc = task[s].pc /\ task'[s].dir = task[s].dir
            /\ task'[s].left = task[s].left - 1
        BY <3>1, <4>1 DEF Task, TypeOK
      <4>3. OrderDir(s) = IF task[s].pc = "poll_entry" THEN task[s].dir ELSE -task[s].dir
        BY <1>2 DEF OrderDir, EntryPcs
      <4>4. position'[s] = Expected(s)'
        BY <1>2, <3>1, <3>2, <4>1, <4>2, <4>3 DEF Expected
      <4> QED
        BY <1>1, <1>2, <3>1, <4>2, <4>4 DEF Accounted, OrderSized, Untangled
    <3>4. CASE FollowedOrderDies(s)
      <4>1. task' = [task EXCEPT ![s] = [task[s] EXCEPT !.dead = TRUE]] /\ UNCHANGED position
        BY <3>4 DEF FollowedOrderDies, brokerVars, accountVars
      <4>2. /\ task'[s].pc = task[s].pc /\ task'[s].dir = task[s].dir
            /\ task'[s].left = task[s].left
        BY <3>1, <4>1 DEF Task, TypeOK
      <4> QED
        BY <1>1, <2>2, <4>1, <4>2 DEF Accounted, Expected, OrderSized, Untangled
    <3> QED
      BY <3>3, <3>4
  <2> QED
    BY <1>1, <1>4, <2>1, <2>2 DEF Tracked
<1> QED
  BY <1>3, <1>4

LEMMA BrokerTracks ==
    ASSUME TypeOK, Stages, NEW s \in Symbols, BrokerStep(s), NEW r \in Symbols, Tracked(r)
    PROVE  Tracked(r)'
<1>1. CASE FollowedLotFills(s) \/ FollowedOrderDies(s)
  BY <1>1, FollowedTracks
<1>2. CASE AccountMoves(s) /\ UNCHANGED <<traderVars, task, sessionVars, entries, lost>>
  <2>1. BrokerTypeOK /\ UNCHANGED <<sweep, outlived, task, order_errors, phase>>
    BY <1>2 DEF TypeOK, AccountMoves, StrayLotEnds, LimboLands, traderVars, sessionVars
  <2>2. Swept(r) => Swept(r)'
    BY <1>2, <2>1, AccountMovesSwept
  <2>3. Untangled(r) => position'[r] = position[r] /\ Untangled(r)'
    BY <1>2, <2>1, UntangledRests
  <2>4. Accounted(r) => Accounted(r)'
    BY <2>1, <2>3 DEF Accounted, Expected, OrderSized
  <2> QED
    BY <2>1, <2>2, <2>3, <2>4 DEF Tracked
<1> QED
  BY <1>1, <1>2 DEF BrokerStep

\* A sweep that returns leaves what is accounted for at the start, and nothing
\* at the end.
LEMMA SweepTracks ==
    ASSUME TypeOK, Stages, SweepStep, NEW r \in Symbols, Tracked(r)
    PROVE  Tracked(r)'
<1>1. CASE Sweeping
  <2>1. UNCHANGED <<phase, order_errors>> /\ BrokerTypeOK /\ SweepRequest
    BY <1>1 DEF Sweeping, traderVars, sessionVars, TypeOK
  <2>2. sweep.pc # "off"
    BY <2>1 DEF SweepRequest, SweepCancels, SweepLists, SweepCloses, SweepReturns, SweepRaises
  <2>3. Swept(r) => Swept(r)'
    BY <2>1, SweepRequestSwept
  <2> QED
    BY <2>1, <2>2, <2>3 DEF Tracked, Stages
<1>2. ASSUME NEW s \in Symbols, SweepRecords(s)
      PROVE  Tracked(r)'
  <2>1. /\ sweep.pc = "record" /\ sweep'.pc = "record" /\ sweep'.failed = sweep.failed
        /\ sweep'.left = sweep.left
        /\ UNCHANGED <<phase, outlived, position, stray, limbo>>
    BY <1>2 DEF SweepRecords, sessionVars, accountVars, TypeOK, BrokerTypeOK, Sweep
  <2> QED
    BY <2>1 DEF Tracked, Stages, Swept, Cleared, Untangled
<1>3. CASE SweepDone
  <2>1. /\ sweep.pc = "record" /\ sweep'.pc = "off" /\ sweep'.failed = sweep.failed
        /\ UNCHANGED <<task, outlived, position, stray, limbo>>
    BY <1>3 DEF SweepDone, accountVars, TypeOK, BrokerTypeOK, Sweep
  <2>2. task[r].pc = "idle" /\ Swept(r)
    BY <2>1 DEF Stages, Tracked
  <2>3. ~sweep.failed /\ r \notin outlived => position[r] = 0 /\ Untangled(r)
    BY <2>1, <2>2 DEF Swept, Cleared
  <2> QED
    BY <2>1, <2>2, <2>3 DEF Tracked, Accounted, Expected, OrderSized, Untangled
<1> QED
  BY <1>1, <1>2, <1>3 DEF SweepStep

LEMMA SessionTracks ==
    ASSUME Stages, CloseAll \/ SettleStep \/ Restart, NEW r \in Symbols, Tracked(r)
    PROVE  Tracked(r)'
<1>1. CASE CloseAll
  BY <1>1 DEF CloseAll, Tracked, Stages, brokerVars
<1>2. CASE StartFinalSweep
  <2>1. phase' = "settling" /\ sweep'.pc = "cancel"
    BY <1>2 DEF StartFinalSweep, StartSweep, sessionVars
  <2> QED
    BY <2>1 DEF Tracked, Swept, Cleared
<1>3. CASE CancelStragglers
  <2>1. phase' = "settling" /\ sweep'.pc = "off"
    BY <1>3 DEF CancelStragglers, TasksCancelled, sessionVars
  <2> QED
    BY <2>1 DEF Tracked
<1>4. CASE Restart
  <2>1. phase' = "startup" /\ sweep'.pc = "cancel"
    BY <1>4 DEF Restart, ProcessReplaced, StartSweep
  <2> QED
    BY <2>1 DEF Tracked, Swept, Cleared
<1> QED
  BY <1>1, <1>2, <1>3, <1>4 DEF SettleStep

\* No step begins what its stage excludes.
LEMMA StepStages ==
    ASSUME TypeOK, Stages, [Next]_vars
    PROVE  Stages'
<1>1. CASE UNCHANGED vars
  BY <1>1 DEF vars, sessionVars, brokerVars, Stages
<1>2. ASSUME NEW s \in Symbols, OnPrediction(s) \/ WindowElapses(s)
      PROVE  Stages'
  BY <1>2 DEF OnPrediction, WindowElapses, Stages, sessionVars, brokerVars
<1>3. ASSUME NEW s \in Symbols, RoundTripStep(s)
      PROVE  Stages'
  BY <1>3, RoundTripApart DEF Stages
<1>4. ASSUME NEW s \in Symbols, BrokerStep(s)
      PROVE  Stages'
  <2>1. UNCHANGED <<phase, sweep>> /\ \A r \in Symbols : task'[r].pc = task[r].pc
    BY <1>4 DEF BrokerStep, FollowedLotFills, FollowedOrderDies, AccountMoves, StrayLotEnds,
                LimboLands, sessionVars, brokerVars, TypeOK, Task
  <2> QED
    BY <2>1 DEF Stages
<1>5. CASE SweepStep
  <2>1. sweep.pc # "off" /\ UNCHANGED task
    BY <1>5 DEF SweepStep, Sweeping, SweepRecords, SweepDone, SweepRequest, SweepCancels,
                SweepLists, SweepCloses, SweepReturns, SweepRaises
  <2>2. UNCHANGED phase \/ sweep'.pc = "off"
    BY <1>5 DEF SweepStep, Sweeping, SweepRecords, SweepDone, sessionVars, TypeOK, BrokerTypeOK,
                Sweep
  <2> QED
    BY <2>1, <2>2 DEF Stages
<1>6. CASE CloseAll \/ StartFinalSweep
  BY <1>6 DEF CloseAll, StartFinalSweep, Settled, Running, Stages, sessionVars, brokerVars
<1>7. CASE CancelStragglers \/ Restart
  <2>1. \A s \in Symbols : task'[s].pc = "idle"
    BY <1>7 DEF CancelStragglers, Restart, Idle
  <2>2. phase' \in {"settling", "startup"}
    BY <1>7 DEF CancelStragglers, Restart, sessionVars
  <2> QED
    BY <2>1, <2>2 DEF Stages
<1> QED
  BY <1>1, <1>2, <1>3, <1>4, <1>5, <1>6, <1>7 DEF Next, SettleStep

LEMMA BookInvInit == Init => BookInv
BY DEF Init, BookInv, Stages, Tracked, Swept, Cleared, BrokerInit, StartSweep, Idle

LEMMA BookInvStep == TypeOK /\ LocksMatchTasks /\ BookInv /\ [Next]_vars => BookInv'
<1> SUFFICES ASSUME TypeOK, LocksMatchTasks, Stages, [Next]_vars,
                    NEW r \in Symbols, Tracked(r)
             PROVE  Tracked(r)'
  BY StepStages DEF BookInv
<1>1. CASE UNCHANGED vars
  BY <1>1, TrackedKept DEF vars, traderVars, sessionVars, brokerVars, accountVars
<1> QED
  BY <1>1, HotPathTracks, RoundTripTracks, BrokerTracks, SweepTracks, SessionTracks DEF Next

LEMMA BookInvHolds == Spec => []BookInv
<1> QED
  BY BookInvInit, BookInvStep, TypeCorrect, LocksAreTasks, PTL DEF Spec

\* Since a clean start the account holds, of every symbol without an order
\* error, what the book and its round trip say, however fills, errors of other
\* symbols and windows interleave.
THEOREM BookIsRight == Spec => []BrokerMatchesBook
<1>1. BookInv => BrokerMatchesBook
  BY DEF BookInv, Tracked, Accounted, BrokerMatchesBook
<1> QED
  BY <1>1, BookInvHolds, PTL

\* A final sweep that worked leaves every symbol flat, but for those with an
\* order it could not see or could not cancel.
THEOREM SweepLeavesNothing == Spec => []SweptFlat
<1>1. BookInv => SweptFlat
  BY DEF BookInv, Tracked, SweptFlat
<1> QED
  BY <1>1, BookInvHolds, PTL
-----------------------------------------------------------------------------
(* What lost round trips leave.                                            *)

\* The lots of orders nobody follows, and those of the order of a round trip.
Adrift(s, d) == stray[s][d] + limbo[s][d]
Own(s, d) == Polled[s][d] + Threaded[s][d]

\* The book is off by one order for each round trip lost, and the orders that
\* nobody follows make no more than those.  While a round trip runs its own
\* order is accounted for by Expected, which is why that is in the bound.
Exposed(s) ==
    LET owed == Qty * lost[s]
    IN  /\ OrderSized(s)
        /\ \A d \in Dirs : Adrift(s, d) <= owed
        /\ position[s] + Adrift(s, Long) <= owed + Expected(s)
        /\ Adrift(s, Short) - position[s] <= owed - Expected(s)

\* Numbers of lots are numbers.
LEMMA LotsType ==
    ASSUME TypeOK, NEW s \in Symbols
    PROVE  /\ position[s] \in Int /\ lost[s] \in Nat /\ Qty \in Nat /\ Qty * lost[s] \in Nat
           /\ Qty * (lost[s] + 1) = Qty * lost[s] + Qty
           /\ \A d \in Dirs : Adrift(s, d) \in Nat
           /\ Long \in Dirs /\ Short \in Dirs /\ Long = 1 /\ Short = -1
<1>1. position[s] \in Int /\ lost[s] \in Nat /\ Qty \in Nat
  BY BrokerAssumption DEF TypeOK, BrokerTypeOK
<1>2. Qty * lost[s] \in Nat /\ Qty * (lost[s] + 1) = Qty * lost[s] + Qty
  BY <1>1
<1>3. \A d \in Dirs : Adrift(s, d) \in Nat
  BY DEF TypeOK, BrokerTypeOK, Adrift
<1> QED
  BY <1>1, <1>2, <1>3 DEF Dirs, Long, Short

\* The order of a round trip never takes it past one order, in or out.
LEMMA OwnBounded ==
    ASSUME TypeOK, NEW s \in Symbols, OrderSized(s)
    PROVE  /\ Expected(s) \in Int /\ Expected(s) <= Qty /\ -Expected(s) <= Qty
           /\ \A d \in Dirs : Own(s, d) \in 0..Qty
           /\ Expected(s) + Own(s, Long) <= Qty /\ Own(s, Short) - Expected(s) <= Qty
           /\ task[s].pc = "idle" => Expected(s) = 0 /\ \A d \in Dirs : Own(s, d) = 0
<1>1. task[s] \in Task /\ Qty \in Nat
  BY BrokerAssumption DEF TypeOK
<1>2. /\ task[s].left \in 0..Qty /\ (task[s].dir = 1 \/ task[s].dir = -1)
      /\ task[s].pc \in {"idle", "hold", "submit_entry", "poll_entry", "submit_exit", "poll_exit"}
  BY <1>1 DEF Task, Dirs, Long, Short, Pcs, EntryPcs, ExitPcs
<1>3. task[s].left \in 0..Qty
  BY <1>1 DEF Task
<1>4. \A d \in Dirs : Own(s, d) =
        (IF Working(s) /\ d = OrderDir(s) THEN task[s].left ELSE 0)
        + (IF task[s].pc \in {"submit_entry", "submit_exit"} /\ d = OrderDir(s) THEN Qty ELSE 0)
  BY DEF Own, Polled, Threaded
<1>5. Long \in Dirs /\ Short \in Dirs /\ Long = 1 /\ Short = -1
  BY DEF Dirs, Long, Short
<1>6. CASE task[s].pc \in {"idle", "hold"}
  BY <1>1, <1>2, <1>3, <1>4, <1>5, <1>6 DEF Expected, Working
<1>7. CASE task[s].pc = "submit_entry"
  BY <1>1, <1>2, <1>3, <1>4, <1>5, <1>7 DEF Expected, Working, OrderDir, EntryPcs
<1>8. CASE task[s].pc = "submit_exit"
  BY <1>1, <1>2, <1>3, <1>4, <1>5, <1>8 DEF Expected, Working, OrderDir, EntryPcs
<1>9. CASE task[s].pc = "poll_entry"
  BY <1>1, <1>2, <1>3, <1>4, <1>5, <1>9 DEF Expected, Working, OrderDir, EntryPcs
<1>10. CASE task[s].pc = "poll_exit"
  BY <1>1, <1>2, <1>3, <1>4, <1>5, <1>10 DEF Expected, Working, OrderDir, EntryPcs
<1> QED
  BY <1>2, <1>6, <1>7, <1>8, <1>9, <1>10

\* A step that leaves a symbol alone, or takes lots of it off the books.
LEMMA ExposedKept ==
    ASSUME TypeOK, TypeOK', NEW s \in Symbols, Exposed(s), UNCHANGED <<task[s], lost[s], position[s]>>,
           \A d \in Dirs : Adrift(s, d)' <= Adrift(s, d)
    PROVE  Exposed(s)'
<1>1. Expected(s)' = Expected(s) /\ OrderSized(s)'
  BY DEF Expected, OrderSized, Exposed
<1>2. Expected(s) \in Int
  BY OwnBounded DEF Exposed
<1>3. \A d \in Dirs : Adrift(s, d) \in Nat /\ Adrift(s, d)' \in Nat
  BY LotsType DEF TypeOK, BrokerTypeOK, Adrift
<1>4. Qty * lost[s] \in Nat /\ Qty * lost'[s] = Qty * lost[s]
  BY LotsType
<1>5. position[s] \in Int /\ Long \in Dirs /\ Short \in Dirs
  BY LotsType
<1> QED
  BY <1>1, <1>2, <1>3, <1>4, <1>5 DEF Exposed

\* A round trip that is over, confirmed or lost, leaves no more than its order.
LEMMA LeftBehind ==
    ASSUME TypeOK, TypeOK', NEW s \in Symbols, Exposed(s), task'[s].pc = "idle",
           position'[s] = position[s],
           lost'[s] = lost[s] + (IF task[s].pc = "idle" THEN 0 ELSE 1),
           \A d \in Dirs : Adrift(s, d)' <= Adrift(s, d) + Own(s, d)
    PROVE  Exposed(s)'
<1>1. Expected(s)' = 0 /\ OrderSized(s)'
  BY DEF Expected, OrderSized
<1>2. /\ Expected(s) \in Int /\ Expected(s) <= Qty /\ -Expected(s) <= Qty
      /\ \A d \in Dirs : Own(s, d) \in 0..Qty
      /\ Expected(s) + Own(s, Long) <= Qty /\ Own(s, Short) - Expected(s) <= Qty
      /\ task[s].pc = "idle" => Expected(s) = 0 /\ \A d \in Dirs : Own(s, d) = 0
  BY OwnBounded DEF Exposed
<1>3. \A d \in Dirs : Adrift(s, d) \in Nat /\ Adrift(s, d)' \in Nat
  BY LotsType DEF TypeOK, BrokerTypeOK, Adrift
<1>4. /\ Qty * lost[s] \in Nat /\ Qty \in Nat /\ position[s] \in Int
      /\ Long \in Dirs /\ Short \in Dirs
  BY LotsType
<1>5. Qty * lost'[s] = Qty * lost[s] + (IF task[s].pc = "idle" THEN 0 ELSE Qty)
  BY LotsType
<1>6. /\ position[s] + Adrift(s, Long) <= Qty * lost[s] + Expected(s)
      /\ Adrift(s, Short) - position[s] <= Qty * lost[s] - Expected(s)
      /\ \A d \in Dirs : Adrift(s, d) <= Qty * lost[s]
  BY DEF Exposed
<1>7. SUFFICES /\ \A d \in Dirs : Adrift(s, d)' <= Qty * lost'[s]
               /\ position[s] + Adrift(s, Long)' <= Qty * lost'[s]
               /\ Adrift(s, Short)' - position[s] <= Qty * lost'[s]
  BY <1>1, <1>3, <1>4, <1>5 DEF Exposed
<1>8. CASE task[s].pc = "idle"
  <2>1. Expected(s) = 0 /\ Qty * lost'[s] = Qty * lost[s]
    <3>1. Expected(s) = 0
      BY <1>2, <1>8
    <3>2. lost'[s] = lost[s]
      BY <1>8, LotsType
    <3> QED
      BY <3>1, <3>2
  <2>2. \A d \in Dirs : Own(s, d) = 0
    BY <1>2, <1>8
  <2>3. \A d \in Dirs : Adrift(s, d)' <= Adrift(s, d)
    BY <1>3, <2>2
  <2> QED
    BY <1>3, <1>4, <1>6, <2>1, <2>3
<1>9. CASE task[s].pc # "idle"
  BY <1>2, <1>3, <1>4, <1>5, <1>6, <1>9
<1> QED
  BY <1>8, <1>9

\* on_prediction begins a round trip with an order of the right size.
LEMMA HotPathExposes ==
    ASSUME TypeOK, TypeOK', LocksMatchTasks, NEW s \in Symbols,
           OnPrediction(s) \/ WindowElapses(s), NEW r \in Symbols, Exposed(r)
    PROVE  Exposed(r)'
<1>1. UNCHANGED <<position, stray, limbo, lost>>
  BY DEF OnPrediction, WindowElapses, brokerVars, accountVars
<1>2. CASE task'[r] = task[r]
  <2>1. \A d \in Dirs : Adrift(r, d)' <= Adrift(r, d)
    BY <1>1, LotsType DEF Adrift
  <2> QED
    BY <1>1, <1>2, <2>1, ExposedKept
<1>3. CASE task'[r] # task[r]
  <2>1. OnPrediction(s) /\ Enter(s)
    BY <1>3 DEF OnPrediction, WindowElapses, Refuse
  <2>2. PICK d \in Directions :
          task' = [task EXCEPT ![s] = [pc |-> "submit_entry", dir |-> d,
                                       left |-> Qty, dead |-> FALSE]]
    BY <2>1 DEF Enter
  <2>3. r = s /\ task'[r].pc = "submit_entry" /\ task'[r].left = Qty
    BY <1>3, <2>2 DEF TypeOK
  <2>4. task[r].pc = "idle"
    BY <2>1, <2>3 DEF Enter, LocksMatchTasks, Running
  <2>5. Expected(r) = 0 /\ Expected(r)' = 0 /\ OrderSized(r)'
    BY <2>3, <2>4 DEF Expected, OrderSized
  <2> QED
    BY <1>1, <2>5 DEF Exposed, Adrift
<1> QED
  BY <1>2, <1>3

\* A round trip ends with its exit confirmed, or counts as lost; until then
\* its order is as Expected says.
LEMMA RoundTripExposes ==
    ASSUME TypeOK, TypeOK', NEW s \in Symbols, RoundTripStep(s), NEW r \in Symbols, Exposed(r)
    PROVE  Exposed(r)'
<1>1. /\ UNCHANGED <<position, limbo>> /\ task[s].pc # "idle"
      /\ \A t \in Symbols \ {s} : task'[t] = task[t] /\ stray'[t] = stray[t]
  BY RoundTripApart
<1>2. \A d \in Dirs : Adrift(r, d) \in Nat
  BY LotsType
<1>3. \A t \in Symbols \ {s} : lost'[t] = lost[t]
  BY DEF RoundTripStep, Submitted, EntryConfirmed, GivesUp, CallRaises, HoldElapses,
         ExitConfirmed, Loses, TypeOK
<1>4. CASE r # s
  <2>1. \A d \in Dirs : Adrift(r, d)' <= Adrift(r, d)
    BY <1>1, <1>2, <1>4 DEF Adrift
  <2> QED
    BY <1>1, <1>3, <1>4, <2>1, ExposedKept
<1>5. CASE r = s /\ (GivesUp(s) \/ CallRaises(s))
  <2>1. task'[s].pc = "idle" /\ lost'[s] = lost[s] + 1
    BY <1>5 DEF GivesUp, CallRaises, Finish, Loses, Idle, TypeOK
  <2>2. \A d \in Dirs : stray[s][d] \in Nat /\ Polled[s][d] \in Nat /\ Threaded[s][d] \in Nat
    BY PolledType DEF Lots, TypeOK, BrokerTypeOK
  <2>3. \A d \in Dirs : stray'[s][d] <= stray[s][d] + Polled[s][d] + Threaded[s][d]
    <3>1. CASE UNCHANGED stray
      BY <2>2, <3>1
    <3>2. CASE Abandon(s)
      <4>1. CASE Working(s)
        <5>1. \A d \in Dirs : Polled[s][d] = IF d = OrderDir(s) THEN task[s].left ELSE 0
          BY <4>1 DEF Polled
        <5>2. \A d \in Dirs : stray'[s][d] =
                stray[s][d] + IF d = OrderDir(s) THEN task[s].left ELSE 0
          BY <2>2, <3>2, <4>1, OrderDirType DEF Abandon, AddLots, TypeOK, BrokerTypeOK
        <5> QED
          BY <2>2, <5>1, <5>2
      <4>2. CASE ~Working(s)
        BY <2>2, <3>2, <4>2 DEF Abandon
      <4> QED
        BY <4>1, <4>2
    <3>3. CASE /\ task[s].pc \in {"submit_entry", "submit_exit"}
               /\ stray' = AddLots(stray, s, OrderDir(s), Qty)
      <4>1. \A d \in Dirs : Threaded[s][d] = IF d = OrderDir(s) THEN Qty ELSE 0
        BY <3>3 DEF Threaded
      <4>2. \A d \in Dirs : stray'[s][d] = stray[s][d] + IF d = OrderDir(s) THEN Qty ELSE 0
        BY <2>2, <3>3, OrderDirType DEF AddLots, TypeOK, BrokerTypeOK
      <4> QED
        BY <2>2, <4>1, <4>2
    <3> QED
      BY <1>5, <3>1, <3>2, <3>3 DEF GivesUp, CallRaises
  <2>4. \A d \in Dirs : Adrift(s, d)' <= Adrift(s, d) + Own(s, d)
    <3>1. \A d \in Dirs : limbo[s][d] \in Nat /\ stray'[s][d] \in Nat
      BY DEF TypeOK, BrokerTypeOK
    <3> QED
      BY <1>1, <2>2, <2>3, <3>1 DEF Adrift, Own
  <2> QED
    BY <1>1, <1>5, <2>1, <2>4, LeftBehind
<1>6. CASE r = s /\ ~GivesUp(s) /\ ~CallRaises(s)
  <2>1. UNCHANGED stray /\ lost' = lost
    BY <1>6 DEF RoundTripStep, Submitted, EntryConfirmed, HoldElapses, ExitConfirmed,
                brokerVars, accountVars
  <2>2. task[s] \in Task /\ Qty \in Nat /\ OrderSized(s)
    BY <1>6, BrokerAssumption DEF TypeOK, Exposed
  <2>3. (task[s].dir = 1 \/ task[s].dir = -1) /\ task[s].left \in 0..Qty
    BY <2>2 DEF Task, Dirs, Long, Short
  <2>4. Expected(s)' = Expected(s) /\ OrderSized(s)'
    <3>1. CASE Submitted(s)
      <4>1. /\ task[s].pc \in {"submit_entry", "submit_exit"}
            /\ task' = [task EXCEPT ![s] = [task[s] EXCEPT !.pc =
                 IF task[s].pc = "submit_entry" THEN "poll_entry" ELSE "poll_exit"]]
        BY <3>1 DEF Submitted
      <4>2. /\ task'[s].dir = task[s].dir /\ task'[s].left = Qty
            /\ task'[s].pc = IF task[s].pc = "submit_entry" THEN "poll_entry" ELSE "poll_exit"
        BY <2>2, <4>1 DEF OrderSized, Task, TypeOK
      <4> QED
        BY <2>2, <2>3, <4>1, <4>2 DEF Expected, OrderSized
    <3>2. CASE EntryConfirmed(s)
      <4>1. /\ task[s].pc = "poll_entry" /\ task[s].left = 0
            /\ task' = [task EXCEPT ![s] = [task[s] EXCEPT !.pc = "hold"]]
        BY <3>2 DEF EntryConfirmed, EntryFilled
      <4>2. task'[s].dir = task[s].dir /\ task'[s].pc = "hold"
        BY <2>2, <4>1 DEF Task, TypeOK
      <4> QED
        BY <2>2, <2>3, <4>1, <4>2 DEF Expected, OrderSized
    <3>3. CASE HoldElapses(s)
      <4>1. /\ task[s].pc = "hold"
            /\ task' = [task EXCEPT ![s] = [task[s] EXCEPT !.pc = "submit_exit", !.left = Qty]]
        BY <3>3 DEF HoldElapses
      <4>2. task'[s].dir = task[s].dir /\ task'[s].pc = "submit_exit" /\ task'[s].left = Qty
        BY <2>2, <4>1 DEF Task, TypeOK
      <4> QED
        BY <2>2, <2>3, <4>1, <4>2 DEF Expected, OrderSized
    <3>4. CASE ExitConfirmed(s)
      <4>1. task[s].pc = "poll_exit" /\ task[s].left = 0 /\ task'[s].pc = "idle"
        BY <3>4 DEF ExitConfirmed, Finish, Idle, TypeOK
      <4> QED
        BY <2>2, <2>3, <4>1 DEF Expected, OrderSized
    <3> QED
      BY <1>6, <3>1, <3>2, <3>3, <3>4 DEF RoundTripStep
  <2> QED
    BY <1>1, <1>6, <2>1, <2>4 DEF Exposed, Adrift
<1> QED
  BY <1>4, <1>5, <1>6

\* The broker fills or kills what is at work: nothing is added.
LEMMA BrokerExposes ==
    ASSUME TypeOK, TypeOK', NEW s \in Symbols, BrokerStep(s), NEW r \in Symbols, Exposed(r)
    PROVE  Exposed(r)'
<1>1. \A d \in Dirs : Adrift(r, d) \in Nat
  BY LotsType
<1>2. CASE FollowedLotFills(s) \/ FollowedOrderDies(s)
  <2>1. /\ UNCHANGED <<stray, limbo, lost>>
        /\ task[s].pc \in {"poll_entry", "poll_exit"} /\ task[s].left > 0
        /\ \A t \in Symbols \ {s} : task'[t] = task[t] /\ position'[t] = position[t]
    BY <1>2 DEF FollowedLotFills, FollowedOrderDies, Working, brokerVars, accountVars, TypeOK,
                BrokerTypeOK
  <2>2. \A d \in Dirs : Adrift(r, d)' <= Adrift(r, d)
    BY <1>1, <2>1 DEF Adrift
  <2>3. CASE r # s
    BY <2>1, <2>2, <2>3, ExposedKept
  <2>4. CASE r = s
    <3>1. task[s] \in Task /\ Qty \in Nat /\ position[s] \in Int
      BY BrokerAssumption DEF TypeOK, BrokerTypeOK
    <3>2. (task[s].dir = 1 \/ task[s].dir = -1) /\ task[s].left \in 1..Qty
      BY <2>1, <3>1 DEF Task, Dirs, Long, Short
    <3>3. CASE FollowedLotFills(s)
      <4>1. /\ task' = [task EXCEPT ![s] = [task[s] EXCEPT !.left = task[s].left - 1]]
            /\ position'[s] = position[s] + OrderDir(s)
        BY <3>3 DEF FollowedLotFills, TypeOK, BrokerTypeOK
      <4>2. /\ task'[s].pc = task[s].pc /\ task'[s].dir = task[s].dir
            /\ task'[s].left = task[s].left - 1
        BY <3>1, <4>1 DEF Task, TypeOK
      <4>3. OrderDir(s) = IF task[s].pc = "poll_entry" THEN task[s].dir ELSE -task[s].dir
        BY <2>1 DEF OrderDir, EntryPcs
      <4>4. Expected(s)' = Expected(s) + OrderDir(s)
        BY <2>1, <3>1, <3>2, <4>2, <4>3 DEF Expected
      <4>5. Expected(s) \in Int /\ OrderDir(s) \in Int /\ OrderSized(s)'
        BY <2>1, <3>1, <3>2, <4>2, <4>3 DEF Expected, OrderSized
      <4>6. /\ Qty * lost[s] \in Nat /\ Long \in Dirs /\ Short \in Dirs
            /\ Adrift(s, Long) \in Nat /\ Adrift(s, Short) \in Nat
        BY LotsType
      <4>7. \A d \in Dirs : Adrift(s, d)' = Adrift(s, d)
        BY <2>1 DEF Adrift
      <4>8. Qty * lost'[s] = Qty * lost[s]
        BY <2>1
      <4>9. /\ position[s] + Adrift(s, Long) <= Qty * lost[s] + Expected(s)
            /\ Adrift(s, Short) - position[s] <= Qty * lost[s] - Expected(s)
            /\ \A d \in Dirs : Adrift(s, d) <= Qty * lost[s]
        BY <2>4 DEF Exposed
      <4>10. /\ position'[s] + Adrift(s, Long)' <= Qty * lost'[s] + Expected(s)'
             /\ Adrift(s, Short)' - position'[s] <= Qty * lost'[s] - Expected(s)'
        BY <3>1, <4>1, <4>4, <4>5, <4>6, <4>7, <4>8, <4>9
      <4> QED
        BY <2>4, <4>5, <4>7, <4>8, <4>9, <4>10 DEF Exposed
    <3>4. CASE FollowedOrderDies(s)
      <4>1. task' = [task EXCEPT ![s] = [task[s] EXCEPT !.dead = TRUE]] /\ UNCHANGED position
        BY <3>4 DEF FollowedOrderDies, brokerVars, accountVars
      <4>2. /\ task'[s].pc = task[s].pc /\ task'[s].dir = task[s].dir
            /\ task'[s].left = task[s].left
        BY <3>1, <4>1 DEF Task, TypeOK
      <4>3. Expected(s)' = Expected(s) /\ (OrderSized(s) => OrderSized(s)')
        BY <4>2 DEF Expected, OrderSized
      <4> QED
        BY <2>1, <2>4, <4>1, <4>3 DEF Exposed, Adrift
    <3> QED
      BY <1>2, <3>3, <3>4
  <2> QED
    BY <2>3, <2>4
<1>3. CASE AccountMoves(s) /\ UNCHANGED <<traderVars, task, sessionVars, entries, lost>>
  <2>1. PICK d \in Dirs : StrayLotEnds(s, d) \/ LimboLands(s, d)
    BY <1>3 DEF AccountMoves
  <2>2. \A c \in Dirs : stray[s][c] \in Nat /\ limbo[s][c] \in Nat
    BY DEF TypeOK, BrokerTypeOK
  <2>3. CASE r # s
    <3>1. /\ stray'[r] = stray[r] /\ limbo'[r] = limbo[r] /\ position'[r] = position[r]
          /\ UNCHANGED <<task, lost>>
      BY <1>3, <2>1, <2>3 DEF StrayLotEnds, LimboLands, AddLots, TypeOK, BrokerTypeOK
    <3>2. \A c \in Dirs : Adrift(r, c)' <= Adrift(r, c)
      BY <1>1, <3>1 DEF Adrift
    <3> QED
      BY <3>1, <3>2, ExposedKept
  <2>4. CASE r = s /\ LimboLands(s, d)
    <3>1. \A c \in Dirs : /\ limbo'[s][c] = IF c = d THEN 0 ELSE limbo[s][c]
                          /\ \/ stray'[s][c] = stray[s][c]
                             \/ stray'[s][c] = stray[s][c] + IF c = d THEN limbo[s][d] ELSE 0
      BY <2>2, <2>4 DEF LimboLands, AddLots, TypeOK, BrokerTypeOK
    <3>2. \A c \in Dirs : Adrift(s, c)' <= Adrift(s, c)
      BY <2>2, <3>1 DEF Adrift
    <3>3. UNCHANGED <<position, task, lost>>
      BY <1>3, <2>4 DEF LimboLands
    <3> QED
      BY <2>4, <3>2, <3>3, ExposedKept
  <2>5. CASE r = s /\ StrayLotEnds(s, d)
    <3>1. /\ UNCHANGED <<limbo, task, lost>>
          /\ \A c \in Dirs : stray'[s][c] = stray[s][c] - IF c = d THEN 1 ELSE 0
      BY <1>3, <2>2, <2>5 DEF StrayLotEnds, AddLots, TypeOK, BrokerTypeOK
    <3>2. \A c \in Dirs : Adrift(s, c)' = Adrift(s, c) - IF c = d THEN 1 ELSE 0
      BY <2>2, <3>1 DEF Adrift
    <3>3. CASE UNCHANGED position
      <4>1. \A c \in Dirs : Adrift(s, c)' <= Adrift(s, c)
        BY <1>1, <2>5, <3>2
      <4> QED
        BY <2>5, <3>1, <3>3, <4>1, ExposedKept
    <3>4. CASE position' = [position EXCEPT ![s] = @ + d]
      <4>1. position'[s] = position[s] + d /\ position[s] \in Int /\ (d = 1 \/ d = -1)
        BY <3>4 DEF TypeOK, BrokerTypeOK, Dirs, Long, Short
      <4>2. Expected(s)' = Expected(s) /\ OrderSized(s)' /\ Expected(s) \in Int
        BY <2>5, <3>1, OwnBounded DEF Exposed, Expected, OrderSized
      <4>3. /\ Qty * lost[s] \in Nat /\ Long \in Dirs /\ Short \in Dirs /\ Long = 1
            /\ Short = -1 /\ Adrift(s, Long) \in Nat /\ Adrift(s, Short) \in Nat
        BY LotsType
      <4>4. /\ position[s] + Adrift(s, Long) <= Qty * lost[s] + Expected(s)
            /\ Adrift(s, Short) - position[s] <= Qty * lost[s] - Expected(s)
            /\ \A c \in Dirs : Adrift(s, c) <= Qty * lost[s]
        BY <2>5 DEF Exposed
      <4>5. Qty * lost'[s] = Qty * lost[s]
        BY <3>1
      <4>6. /\ position'[s] + Adrift(s, Long)' <= Qty * lost[s] + Expected(s)
            /\ Adrift(s, Short)' - position'[s] <= Qty * lost[s] - Expected(s)
        BY <3>2, <4>1, <4>2, <4>3, <4>4
      <4>7. \A c \in Dirs : Adrift(s, c)' <= Qty * lost[s]
        BY <1>1, <2>5, <3>2, <4>3, <4>4
      <4> QED
        BY <2>5, <4>2, <4>5, <4>6, <4>7 DEF Exposed
    <3> QED
      BY <2>5, <3>3, <3>4 DEF StrayLotEnds
  <2> QED
    BY <2>1, <2>3, <2>4, <2>5
<1> QED
  BY <1>2, <1>3 DEF BrokerStep

\* A sweep cancels and closes; when it has worked, nothing of a symbol is
\* left that could be owed.
LEMMA SweepExposes ==
    ASSUME TypeOK, TypeOK', Stages, SweepStep, NEW r \in Symbols, Tracked(r), Exposed(r)
    PROVE  Exposed(r)'
<1>1. \A d \in Dirs : Adrift(r, d) \in Nat
  BY LotsType
<1>2. sweep.pc # "off" /\ UNCHANGED task
  BY DEF SweepStep, Sweeping, SweepRecords, SweepDone, SweepRequest, SweepCancels,
         SweepLists, SweepCloses, SweepReturns, SweepRaises
<1>3. task[r].pc = "idle"
  BY <1>2 DEF Stages
<1>4. CASE SweepRequest /\ UNCHANGED <<task, lost>>
  <2>1. UNCHANGED limbo /\ \A d \in Dirs : stray'[r][d] = stray[r][d] \/ stray'[r][d] = 0
    <3>1. CASE SweepCancels
      <4>1. PICK kept \in SUBSET Symbols :
              stray' = [s \in Symbols |-> IF s \in kept THEN stray[s] ELSE NoLots]
        BY <3>1 DEF SweepCancels
      <4> QED
        BY <3>1, <4>1 DEF SweepCancels, NoLots
    <3>2. CASE ~SweepCancels
      <4>1. UNCHANGED <<stray, limbo>>
        BY <1>4, <3>2 DEF SweepRequest, SweepLists, SweepCloses, SweepReturns, SweepRaises,
                          accountVars
      <4> QED
        BY <4>1
    <3> QED
      BY <3>1, <3>2
  <2>2. \A d \in Dirs : stray[r][d] \in Nat /\ limbo[r][d] \in Nat
    BY DEF TypeOK, BrokerTypeOK
  <2>3. \A d \in Dirs : Adrift(r, d)' <= Adrift(r, d)
    BY <2>1, <2>2 DEF Adrift
  <2>4. CASE position'[r] = position[r]
    BY <1>4, <2>3, <2>4, ExposedKept
  <2>5. CASE position'[r] # position[r]
    <3>1. position'[r] = 0
      BY <1>4, <2>5 DEF SweepRequest, SweepCancels, SweepLists, SweepCloses, SweepReturns,
                        SweepRaises, accountVars, TypeOK, BrokerTypeOK
    <3>2. Expected(r)' = 0 /\ OrderSized(r)'
      BY <1>3, <1>4 DEF Expected, OrderSized
    <3>3. /\ Qty * lost[r] \in Nat /\ Long \in Dirs /\ Short \in Dirs
          /\ Qty * lost'[r] = Qty * lost[r]
      BY <1>4, LotsType
    <3>4. \A d \in Dirs : Adrift(r, d) <= Qty * lost[r]
      BY DEF Exposed
    <3>5. \A d \in Dirs : Adrift(r, d)' \in Nat
      BY LotsType DEF TypeOK, BrokerTypeOK, Adrift
    <3>6. \A d \in Dirs : Adrift(r, d)' <= Qty * lost[r]
      BY <1>1, <2>3, <3>3, <3>4, <3>5
    <3> QED
      BY <3>1, <3>2, <3>3, <3>5, <3>6 DEF Exposed
  <2> QED
    BY <2>4, <2>5
<1>5. CASE UNCHANGED <<position, stray, limbo, lost[r]>>
  <2>1. \A d \in Dirs : Adrift(r, d)' <= Adrift(r, d)
    BY <1>1, <1>5 DEF Adrift
  <2> QED
    BY <1>2, <1>5, <2>1, ExposedKept
<1>6. CASE SweepDone /\ lost'[r] # lost[r]
  <2>1. /\ sweep.pc = "record" /\ ~sweep.failed /\ r \notin outlived /\ lost'[r] = 0
        /\ UNCHANGED <<position, stray, limbo>>
    BY <1>6 DEF SweepDone, accountVars, TypeOK
  <2>2. position[r] = 0 /\ Untangled(r)
    BY <2>1 DEF Tracked, Swept, Cleared
  <2>3. \A d \in Dirs : Adrift(r, d)' = 0
    BY <2>1, <2>2 DEF Adrift, Untangled, NoLots
  <2>4. Expected(r)' = 0 /\ OrderSized(r)'
    BY <1>2, <1>3 DEF Expected, OrderSized
  <2>5. Long \in Dirs /\ Short \in Dirs /\ Qty * 0 = 0
    BY LotsType
  <2> QED
    BY <2>1, <2>2, <2>3, <2>4, <2>5 DEF Exposed
<1> QED
  BY <1>4, <1>5, <1>6 DEF SweepStep, Sweeping, SweepRecords, SweepDone, accountVars

\* Cancelling the round trips, or replacing the process, loses those at work.
LEMMA SessionExposes ==
    ASSUME TypeOK, TypeOK', CloseAll \/ SettleStep \/ Restart, NEW r \in Symbols, Exposed(r)
    PROVE  Exposed(r)'
<1>1. \A d \in Dirs : Adrift(r, d) \in Nat
  BY LotsType
<1>2. CASE CloseAll \/ StartFinalSweep
  <2>1. UNCHANGED <<task, position, stray, limbo, lost>>
    BY <1>2 DEF CloseAll, StartFinalSweep, brokerVars, accountVars
  <2>2. \A d \in Dirs : Adrift(r, d)' <= Adrift(r, d)
    BY <1>1, <2>1 DEF Adrift
  <2> QED
    BY <2>1, <2>2, ExposedKept
<1>3. CASE CancelStragglers \/ Restart
  <2>1. task'[r].pc = "idle" /\ UNCHANGED position /\ Loses(Running)
    BY <1>3 DEF CancelStragglers, Restart, TasksCancelled, ProcessReplaced, Idle
  <2>2. lost'[r] = lost[r] + (IF task[r].pc = "idle" THEN 0 ELSE 1)
    BY <2>1, LosesType DEF Running
  <2>3. \A d \in Dirs : /\ stray[r][d] \in Nat /\ limbo[r][d] \in Nat
                        /\ Polled[r][d] \in Nat /\ Threaded[r][d] \in Nat
    BY PolledType DEF Lots, TypeOK, BrokerTypeOK
  <2>4. \A d \in Dirs : Adrift(r, d)' <= Adrift(r, d) + Own(r, d)
    <3>1. CASE CancelStragglers
      <4>1. \A d \in Dirs : /\ stray'[r][d] = stray[r][d] + Polled[r][d]
                            /\ limbo'[r][d] = limbo[r][d] + Threaded[r][d]
        BY <3>1 DEF CancelStragglers, TasksCancelled, Orphan
      <4> QED
        BY <2>3, <4>1 DEF Adrift, Own
    <3>2. CASE Restart
      <4>1. PICK landed \in SUBSET Symbols :
              Orphan([s \in Symbols |-> [d \in Dirs |->
                        Polled[s][d] + IF s \in landed
                                       THEN limbo[s][d] + Threaded[s][d] ELSE 0]])
        BY <3>2 DEF Restart, ProcessReplaced
      <4>2. \A d \in Dirs : stray'[r][d] = stray[r][d] + (Polled[r][d]
              + IF r \in landed THEN limbo[r][d] + Threaded[r][d] ELSE 0)
        BY <4>1 DEF Orphan
      <4>3. \A d \in Dirs : limbo'[r][d] = 0
        BY <3>2 DEF Restart, ProcessReplaced, NoLots
      <4> QED
        BY <2>3, <4>2, <4>3 DEF Adrift, Own
    <3> QED
      BY <1>3, <3>1, <3>2
  <2> QED
    BY <2>1, <2>2, <2>4, LeftBehind
<1> QED
  BY <1>2, <1>3 DEF SettleStep

\* What errors, cancellations and restarts leave at the broker is one order
\* for each round trip lost, for any number of them and any quantity.
THEOREM ExposureIsOwed == Spec => []ExposureOwed
<1> DEFINE Inv == \A s \in Symbols : Exposed(s)
<1>1. Init => Inv
  <2> SUFFICES ASSUME Init, NEW s \in Symbols PROVE Exposed(s)
    OBVIOUS
  <2>1. /\ position[s] = 0 /\ lost[s] = 0 /\ Expected(s) = 0 /\ OrderSized(s)
        /\ \A d \in Dirs : Adrift(s, d) = 0
    BY DEF Init, BrokerInit, NoLots, Idle, Expected, OrderSized, Adrift
  <2>2. Qty * 0 = 0 /\ Long \in Dirs /\ Short \in Dirs
    BY BrokerAssumption DEF Dirs
  <2> QED
    BY <2>1, <2>2 DEF Exposed
<1>2. TypeOK /\ TypeOK' /\ LocksMatchTasks /\ BookInv /\ Inv /\ [Next]_vars => Inv'
  <2> SUFFICES ASSUME TypeOK, TypeOK', LocksMatchTasks, BookInv, [Next]_vars,
                      NEW r \in Symbols, Exposed(r)
               PROVE  Exposed(r)'
    OBVIOUS
  <2>1. CASE UNCHANGED vars
    BY <2>1 DEF vars, traderVars, sessionVars, brokerVars, accountVars, Exposed, Expected,
                OrderSized, Adrift
  <2> QED
    BY <2>1, HotPathExposes, RoundTripExposes, BrokerExposes, SweepExposes, SessionExposes
       DEF Next, BookInv
<1>3. TypeOK /\ Inv => ExposureOwed
  <2> SUFFICES ASSUME TypeOK, NEW s \in Symbols, Exposed(s)
               PROVE  LET owed == Qty * (lost[s] + IF s \in Running THEN 1 ELSE 0)
                      IN  /\ position[s] + AtWork(s, Long) <= owed
                          /\ AtWork(s, Short) - position[s] <= owed
    BY DEF ExposureOwed
  <2>1. \A d \in Dirs : AtWork(s, d) = Adrift(s, d) + Own(s, d)
    BY PolledType DEF AtWork, Adrift, Own, TypeOK, BrokerTypeOK, Lots
  <2>2. /\ Expected(s) \in Int /\ \A d \in Dirs : Own(s, d) \in 0..Qty
        /\ Expected(s) + Own(s, Long) <= Qty /\ Own(s, Short) - Expected(s) <= Qty
        /\ task[s].pc = "idle" => Expected(s) = 0 /\ \A d \in Dirs : Own(s, d) = 0
    BY OwnBounded DEF Exposed
  <2>3. /\ position[s] \in Int /\ Qty \in Nat /\ Qty * lost[s] \in Nat
        /\ Qty * (lost[s] + 1) = Qty * lost[s] + Qty /\ lost[s] + 0 = lost[s]
        /\ Adrift(s, Long) \in Nat /\ Adrift(s, Short) \in Nat /\ Long \in Dirs /\ Short \in Dirs
    BY LotsType
  <2>4. /\ position[s] + Adrift(s, Long) <= Qty * lost[s] + Expected(s)
        /\ Adrift(s, Short) - position[s] <= Qty * lost[s] - Expected(s)
    BY DEF Exposed
  <2>5. CASE s \in Running
    BY <2>1, <2>2, <2>3, <2>4, <2>5
  <2>6. CASE s \notin Running
    <3>1. Expected(s) = 0 /\ Own(s, Long) = 0 /\ Own(s, Short) = 0
      BY <2>2, <2>3, <2>6 DEF Running
    <3>2. AtWork(s, Long) = Adrift(s, Long) /\ AtWork(s, Short) = Adrift(s, Short)
      BY <2>1, <2>3, <3>1
    <3> QED
      BY <2>3, <2>4, <2>6, <3>1, <3>2
  <2> QED
    BY <2>5, <2>6
<1> QED
  BY <1>1, <1>2, <1>3, TypeCorrect, LocksAreTasks, BookInvHolds, PTL DEF Spec
-----------------------------------------------------------------------------
(* The daily loss cap.                                                     *)

\* While no error was counted: a trader that goes on has not lost more than
\* the floor, and each round trip that ended after the halt lost MaxLoss at
\* most.  The round trips still in flight are the slots not yet used up.
LossKept ==
    phase \in {"trading", "settling"} /\ sweep.pc = "off" /\ order_errors = {} =>
        /\ ~halted => realized >= LossFloor
        /\ realized >= LossFloor - (MaxOpen - Cardinality(pending)) * MaxLoss

CapInv == LossCapHalts /\ LossKept

\* Slots not in use, worth MaxLoss each.
LEMMA SlotsScale ==
    ASSUME NEW a \in Nat, NEW b \in Nat, a <= b
    PROVE  a * MaxLoss <= b * MaxLoss /\ a * MaxLoss \in Nat
<1>1. MaxLoss \in Nat
  BY TraderAssumption
<1>2. b * MaxLoss = a * MaxLoss + (b - a) * MaxLoss
  BY <1>1
<1>3. (b - a) \in Nat /\ (b - a) * MaxLoss \in Nat /\ a * MaxLoss \in Nat /\ b * MaxLoss \in Nat
  BY <1>1
<1> QED
  BY <1>2, <1>3

LEMMA PendingFinite ==
    ASSUME NEW p \in SUBSET Symbols
    PROVE  IsFiniteSet(p) /\ Cardinality(p) \in Nat
BY BrokerAssumption, FS_Subset, FS_CardinalityType

\* A step that moves no P&L keeps the bound, whether it ends round trips or,
\* before the halt, starts one.
LEMMA LossUnmoved ==
    ASSUME TypeOK, TypeOK', CapacityRespected, CapacityRespected', LossKept,
           UNCHANGED <<realized, startPnl>>, halted => halted',
           halted => pending' \subseteq pending,
           order_errors \subseteq order_errors',
           phase' \in {"trading", "settling"} /\ sweep'.pc = "off" =>
               phase \in {"trading", "settling"} /\ sweep.pc = "off"
    PROVE  LossKept'
<1> DEFINE m == Cardinality(pending)
           n == Cardinality(pending')
<1>1. /\ m \in Nat /\ n \in Nat /\ IsFiniteSet(pending) /\ IsFiniteSet(pending')
      /\ m <= MaxOpen /\ n <= MaxOpen /\ MaxOpen \in Nat
  BY PendingFinite, TraderAssumption DEF CapacityRespected, TypeOK
<1>2. realized \in Int /\ LossFloor \in Int /\ LossFloor' = LossFloor
  BY TraderAssumption DEF TypeOK, LossFloor
<1>3. SUFFICES ASSUME phase \in {"trading", "settling"}, sweep.pc = "off", order_errors = {}
               PROVE  /\ ~halted' => realized >= LossFloor
                      /\ realized >= LossFloor - (MaxOpen - n) * MaxLoss
  BY <1>2 DEF LossKept
<1>4. CASE halted
  <2>1. n <= m
    BY <1>1, <1>4, FS_Subset
  <2>2. (MaxOpen - m) * MaxLoss <= (MaxOpen - n) * MaxLoss
        /\ (MaxOpen - m) * MaxLoss \in Nat /\ (MaxOpen - n) * MaxLoss \in Nat
    <3>1. MaxOpen - m \in Nat /\ MaxOpen - n \in Nat /\ MaxOpen - m <= MaxOpen - n
      BY <1>1, <2>1
    <3> HIDE DEF m, n
    <3> QED
      BY <3>1, SlotsScale
  <2>3. realized >= LossFloor - (MaxOpen - m) * MaxLoss
    BY <1>3 DEF LossKept
  <2> HIDE DEF m, n
  <2> QED
    BY <1>2, <1>4, <2>2, <2>3
<1>5. CASE ~halted
  <2>1. (MaxOpen - n) * MaxLoss \in Nat
    <3>1. MaxOpen - n \in Nat
      BY <1>1
    <3> HIDE DEF m, n
    <3> QED
      BY <3>1, SlotsScale
  <2>2. realized >= LossFloor
    BY <1>3, <1>5 DEF LossKept
  <2> HIDE DEF m, n
  <2> QED
    BY <1>2, <2>1, <2>2
<1> QED
  BY <1>4, <1>5, Zenon DEF TypeOK

\* A booked exit: one round trip less, and one loss more at most.
LEMMA ExitKeepsCap ==
    ASSUME TypeOK, LocksMatchTasks, CapacityRespected, Stages, CapInv,
           NEW s \in Symbols, ExitConfirmed(s)
    PROVE  CapInv'
<1> DEFINE m == Cardinality(pending)
<1>1. PICK pnl \in Pnls :
        /\ realized' = realized + pnl
        /\ \/ halted' = (halted \/ CapHit(pnl)) /\ UNCHANGED order_errors
           \/ order_errors' = order_errors \cup {s} /\ UNCHANGED halted
  BY DEF ExitConfirmed
<1>2. /\ pnl \in Int /\ pnl >= -MaxLoss /\ MaxLoss \in Nat /\ LossCap \in Nat /\ MaxOpen \in Nat
      /\ realized \in Int /\ LossFloor \in Int /\ realized' \in Int
  BY <1>1, TraderAssumption DEF TypeOK, LossFloor
<1>3. UNCHANGED <<phase, sweep, startPnl>> /\ LossFloor' = LossFloor /\ pending' = pending \ {s}
  BY DEF ExitConfirmed, Finish, sessionVars, brokerVars, LossFloor
<1>4. s \in pending
  BY DEF ExitConfirmed, LocksMatchTasks, Running
<1>5. IsFiniteSet(pending) /\ m \in Nat /\ m <= MaxOpen /\ m > 0 /\ Cardinality(pending') = m - 1
  <2>1. IsFiniteSet(pending) /\ m \in Nat /\ m <= MaxOpen
    BY PendingFinite DEF CapacityRespected, TypeOK
  <2>2. Cardinality(pending \ {s}) = m - 1
    BY <1>4, <2>1, FS_RemoveElement
  <2>3. Cardinality(pending \ {s}) \in Nat
    BY PendingFinite DEF TypeOK
  <2> HIDE DEF m
  <2> QED
    BY <1>3, <2>1, <2>2, <2>3
<1>6. CapHit(pnl) <=> realized' <= -LossCap
  BY <1>1 DEF CapHit
<1>7. LossCapHalts'
  BY <1>1, <1>3, <1>6, Zenon DEF LossCapHalts
<1>8. LossKept'
  <2>1. SUFFICES ASSUME phase \in {"trading", "settling"}, sweep.pc = "off", order_errors = {},
                        UNCHANGED order_errors, halted' <=> halted \/ realized' <= -LossCap
                 PROVE  /\ ~halted' => realized' >= LossFloor
                        /\ realized' >= LossFloor - (MaxOpen - (m - 1)) * MaxLoss
    BY <1>1, <1>3, <1>5, <1>6 DEF LossKept
  <2>2. (MaxOpen - (m - 1)) * MaxLoss = (MaxOpen - m) * MaxLoss + MaxLoss
    BY <1>2, <1>5
  <2>3. (MaxOpen - m) * MaxLoss \in Nat
    <3>1. MaxOpen - m \in Nat
      BY <1>2, <1>5
    <3> HIDE DEF m
    <3> QED
      BY <3>1, SlotsScale
  <2>4. realized >= LossFloor - (MaxOpen - m) * MaxLoss
    BY <2>1 DEF CapInv, LossKept
  <2>5. ~halted' => realized' >= LossFloor
    BY <1>2, <2>1 DEF LossFloor
  <2> HIDE DEF m
  <2> QED
    BY <1>1, <1>2, <2>2, <2>3, <2>4, <2>5
<1> QED
  BY <1>7, <1>8 DEF CapInv

\* Every other step that books no P&L.
LEMMA QuietKeepsCap ==
    ASSUME TypeOK, TypeOK', CapacityRespected, CapacityRespected', Stages, CapInv,
           UNCHANGED <<realized, startPnl>>, halted => halted',
           halted => pending' \subseteq pending,
           order_errors \subseteq order_errors', phase' = "trading" => phase = "trading",
           phase' \in {"trading", "settling"} /\ sweep'.pc = "off" =>
               phase \in {"trading", "settling"} /\ sweep.pc = "off"
    PROVE  CapInv'
<1>1. LossKept'
  BY LossUnmoved DEF CapInv
<1>2. LossCapHalts'
  BY DEF CapInv, LossCapHalts
<1> QED
  BY <1>1, <1>2 DEF CapInv

\* The halt is for good while the process lives.
LEMMA StepCap ==
    ASSUME TypeOK, TypeOK', LocksMatchTasks, CapacityRespected, CapacityRespected', Stages,
           CapInv, [Next]_vars
    PROVE  CapInv'
<1>1. CASE UNCHANGED vars
  BY <1>1, QuietKeepsCap DEF vars, traderVars, sessionVars, brokerVars
<1>2. ASSUME NEW s \in Symbols, OnPrediction(s) \/ WindowElapses(s)
      PROVE  CapInv'
  <2>1. /\ UNCHANGED <<realized, startPnl, halted, order_errors, phase, sweep>>
        /\ halted => pending' \subseteq pending
    BY <1>2 DEF OnPrediction, MayLook, Refuse, WindowElapses, sessionVars, brokerVars
  <2> QED
    BY <2>1, QuietKeepsCap
<1>3. ASSUME NEW s \in Symbols, RoundTripStep(s)
      PROVE  CapInv'
  <2>1. CASE ExitConfirmed(s)
    BY <2>1, ExitKeepsCap
  <2>2. CASE ~ExitConfirmed(s)
    <3>1. /\ UNCHANGED <<realized, startPnl, halted>> /\ pending' \subseteq pending
      BY <1>3, <2>2 DEF RoundTripStep, Submitted, EntryConfirmed, GivesUp, CallRaises,
                        HoldElapses, Finish, traderVars, sessionVars
    <3> QED
      BY <1>3, <3>1, RoundTripApart, QuietKeepsCap
  <2> QED
    BY <2>1, <2>2
<1>4. ASSUME NEW s \in Symbols, BrokerStep(s)
      PROVE  CapInv'
  <2>1. UNCHANGED <<realized, startPnl, halted, pending, order_errors, phase, sweep>>
    BY <1>4 DEF BrokerStep, FollowedLotFills, FollowedOrderDies, AccountMoves, StrayLotEnds,
                LimboLands, traderVars, sessionVars, brokerVars
  <2> QED
    BY <2>1, QuietKeepsCap
<1>5. CASE Sweeping
  <2>1. UNCHANGED <<realized, startPnl, halted, pending, order_errors, phase>>
    BY <1>5 DEF Sweeping, traderVars, sessionVars
  <2>2. sweep'.pc # "off"
    <3>1. sweep \in Sweep /\ SweepRequest
      BY <1>5 DEF Sweeping, TypeOK, BrokerTypeOK
    <3>2. ASSUME NEW s \in Symbols, SweepCloses(s)
          PROVE  sweep'.pc # "off"
      <4>1. sweep.pc = "close"
            /\ sweep' = [sweep EXCEPT !.left = sweep.left \ {s}, !.closed = sweep.closed \cup {s}]
        BY <3>2 DEF SweepCloses
      <4> QED
        BY <3>1, <4>1 DEF Sweep
    <3>3. CASE SweepCancels
      BY <3>1, <3>3 DEF SweepCancels, Sweep
    <3>4. CASE SweepLists
      BY <3>1, <3>4 DEF SweepLists, Sweep
    <3>5. CASE SweepReturns
      BY <3>1, <3>5 DEF SweepReturns, Sweep
    <3>6. CASE SweepRaises
      BY <3>6 DEF SweepRaises
    <3> QED
      BY <3>1, <3>2, <3>3, <3>4, <3>5, <3>6 DEF SweepRequest
  <2> QED
    BY <2>1, <2>2, QuietKeepsCap
<1>6. ASSUME NEW s \in Symbols, SweepRecords(s)
      PROVE  CapInv'
  <2>1. sweep.pc = "record" /\ sweep'.pc = "record" /\ phase' = phase
    BY <1>6 DEF SweepRecords, sessionVars, TypeOK, BrokerTypeOK, Sweep
  <2> QED
    BY <2>1 DEF CapInv, LossCapHalts, LossKept, Stages
<1>7. CASE SweepDone
  <2>1. /\ UNCHANGED <<realized, pending, order_errors>> /\ phase' = PhaseAfterSweep
        /\ startPnl' = IF phase = "startup" THEN realized ELSE startPnl
    BY <1>7 DEF SweepDone, traderVars
  <2>2. CASE phase = "startup"
    <3>1. startPnl' = realized' /\ realized' \in Int
      BY <2>1, <2>2 DEF TypeOK
    <3>2. realized' >= LossFloor' /\ LossFloor' \in Int
      BY <3>1, TraderAssumption DEF LossFloor
    <3>3. (MaxOpen - Cardinality(pending')) * MaxLoss \in Nat
      <4>1. Cardinality(pending') \in Nat /\ Cardinality(pending') <= MaxOpen /\ MaxOpen \in Nat
        BY PendingFinite, TraderAssumption DEF TypeOK, CapacityRespected
      <4>2. MaxOpen - Cardinality(pending') \in Nat
        BY <4>1
      <4> QED
        BY <4>2, SlotsScale
    <3>4. realized' >= LossFloor' - (MaxOpen - Cardinality(pending')) * MaxLoss
      BY <3>1, <3>2, <3>3
    <3>5. LossKept'
      BY <3>2, <3>4 DEF LossKept
    <3>6. LossCapHalts'
      BY <3>1 DEF LossCapHalts
    <3> QED
      BY <3>5, <3>6 DEF CapInv
  <2>3. CASE phase # "startup"
    <3>1. phase' = "ended"
      BY <2>1, <2>3 DEF PhaseAfterSweep
    <3> QED
      BY <3>1 DEF CapInv, LossCapHalts, LossKept
  <2> QED
    BY <2>2, <2>3
<1>8. CASE CloseAll
  <2>1. /\ UNCHANGED <<realized, startPnl, pending, order_errors, sweep>>
        /\ phase = "trading" /\ phase' = "settling" /\ halted'
    BY <1>8 DEF CloseAll, brokerVars
  <2> QED
    BY <2>1, QuietKeepsCap
<1>9. CASE SettleStep
  <2>1. /\ UNCHANGED <<realized, startPnl, halted, order_errors, phase>>
        /\ pending' \subseteq pending /\ sweep.pc = "off"
    BY <1>9 DEF SettleStep, StartFinalSweep, CancelStragglers, traderVars, sessionVars
  <2> QED
    BY <2>1, QuietKeepsCap
<1>10. CASE Restart
  <2>1. phase' = "startup"
    BY <1>10 DEF Restart
  <2> QED
    BY <2>1 DEF CapInv, LossCapHalts, LossKept
<1> QED
  BY <1>1, <1>2, <1>3, <1>4, <1>5, <1>6, <1>7, <1>8, <1>9, <1>10 DEF Next, SweepStep

\* The daily cap halts the trader, and the loss goes past it by no more than
\* the round trips that were in flight, max_open of them, each at its worst:
\* for any cap, any number of slots and any P&L of a trade.
THEOREM CapIsWorth == Spec => []CapHolds
<1>1. Init => CapInv
  BY DEF Init, CapInv, LossCapHalts, LossKept
<1>2. TypeOK /\ TypeOK' /\ LocksMatchTasks /\ CapacityRespected /\ CapacityRespected'
        /\ BookInv /\ CapInv /\ [Next]_vars => CapInv'
  BY StepCap DEF BookInv
<1>3. TypeOK /\ LocksMatchTasks /\ CapacityRespected /\ CapInv => CapHolds
  <2> SUFFICES ASSUME TypeOK, CapacityRespected, CapInv
               PROVE  OvershootBounded
    BY DEF CapInv, CapHolds
  <2>1. Cardinality(pending) \in Nat /\ Cardinality(pending) <= MaxOpen /\ MaxOpen \in Nat
    BY PendingFinite, TraderAssumption DEF TypeOK, CapacityRespected
  <2>2. (MaxOpen - Cardinality(pending)) * MaxLoss <= MaxOpen * MaxLoss
        /\ (MaxOpen - Cardinality(pending)) * MaxLoss \in Nat
    <3>1. MaxOpen - Cardinality(pending) \in Nat /\ MaxOpen - Cardinality(pending) <= MaxOpen
      BY <2>1
    <3> QED
      BY <2>1, <3>1, SlotsScale
  <2>3. MaxOpen * MaxLoss \in Nat
    BY <2>1, SlotsScale
  <2>4. realized \in Int /\ LossFloor \in Int
    BY TraderAssumption DEF TypeOK, LossFloor
  <2> QED
    BY <2>2, <2>3, <2>4 DEF CapInv, LossKept, OvershootBounded
<1> QED
  BY <1>1, <1>2, <1>3, TypeCorrect, LocksAreTasks, CapacityIsRespected, BookInvHolds, PTL
     DEF Spec
=============================================================================
