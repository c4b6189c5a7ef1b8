----------------------------- MODULE PaperBroker -----------------------------
(***************************************************************************)
(* The shared Alpaca paper account as the executor sees it                 *)
(* (signals/execution/alpaca_exec.py).  The broker itself is external: it  *)
(* fills an order lot by lot, kills it, or leaves it working.  An order    *)
(* that no task follows any more is a stray.  A submission whose task was  *)
(* cancelled while asyncio.to_thread was running it is in limbo: threads   *)
(* are not cancellable, so it may still reach the broker.                  *)
(*                                                                         *)
(* flatten_symbols is the one call made of several broker requests; each   *)
(* request is an action here.  The components that call it add what the    *)
(* caller does before and after.                                           *)
(***************************************************************************)
EXTENDS Integers, FiniteSets

CONSTANTS
    Symbols,     \* the symbols of one strategy
    Qty,         \* lots of one entry order
    Marginable   \* whether the account may hold a short position in them

ASSUME BrokerAssumption ==
    /\ IsFiniteSet(Symbols)
    /\ Qty \in Nat \ {0}
    /\ Marginable \in BOOLEAN

VARIABLES
    position,  \* signed lots held
    stray,     \* working lots of orders no task follows, per direction
    limbo,     \* lots of submissions still in a thread whose task is gone
    sweep,     \* the flatten_symbols call under way
    outlived   \* observer: symbols with an order that survived the last sweep

accountVars == <<position, stray, limbo>>
brokerVars == <<accountVars, sweep, outlived>>
-----------------------------------------------------------------------------
Long == 1
Short == -1
Dirs == {Long, Short}

NoLots == [d \in Dirs |-> 0]
AddLots(lots, s, d, n) == [lots EXCEPT ![s][d] = @ + n]

SweepPcs == {"off", "cancel", "list", "close", "record"}
Sweep == [pc : SweepPcs, left : SUBSET Symbols, closed : SUBSET Symbols,
          failed : BOOLEAN]
StartSweep == [pc |-> "cancel", left |-> {}, closed |-> {}, failed |-> FALSE]

BrokerTypeOK ==
    /\ position \in [Symbols -> Int]
    /\ stray \in [Symbols -> [Dirs -> Nat]]
    /\ limbo \in [Symbols -> [Dirs -> Nat]]
    /\ sweep \in Sweep
    /\ outlived \subseteq Symbols

\* A process starts on an account nothing was ever done on, by sweeping it.
BrokerInit ==
    /\ position = [s \in Symbols |-> 0]
    /\ stray = [s \in Symbols |-> NoLots]
    /\ limbo = [s \in Symbols |-> NoLots]
    /\ sweep = StartSweep
    /\ outlived = {}

\* Nothing of s is at work at the broker besides the order a task follows.
Untangled(s) == stray[s] = NoLots /\ limbo[s] = NoLots
-----------------------------------------------------------------------------
CanFill(s, d) == Marginable \/ position[s] + d >= 0

\* A lot of an abandoned order fills, or the broker kills it.
StrayLotEnds(s, d) ==
    /\ stray[s][d] > 0
    /\ stray' = AddLots(stray, s, d, -1)
    /\ \/ CanFill(s, d) /\ position' = [position EXCEPT ![s] = @ + d]
       \/ UNCHANGED position
    /\ UNCHANGED <<limbo, sweep, outlived>>

\* A thread that outlived its task finishes: its order lands, or was refused.
LimboLands(s, d) ==
    /\ limbo[s][d] > 0
    /\ limbo' = [limbo EXCEPT ![s][d] = 0]
    /\ \/ stray' = AddLots(stray, s, d, limbo[s][d])
       \/ UNCHANGED stray
    /\ UNCHANGED <<position, sweep, outlived>>

AccountMoves(s) == \E d \in Dirs : StrayLotEnds(s, d) \/ LimboLands(s, d)
-----------------------------------------------------------------------------
(* flatten_symbols(symbols).                                               *)

\* Open orders are cancelled one by one; a cancel that fails is only logged.
SweepCancels ==
    /\ sweep.pc = "cancel"
    /\ sweep' = [sweep EXCEPT !.pc = "list"]
    /\ \E kept \in SUBSET {s \in Symbols : stray[s] # NoLots} :
         /\ stray' = [s \in Symbols |-> IF s \in kept THEN stray[s] ELSE NoLots]
         /\ outlived' = kept \cup {s \in Symbols : limbo[s] # NoLots}
    /\ UNCHANGED <<position, limbo>>

\* get_all_positions, of which the strategy's own are kept.
SweepLists ==
    /\ sweep.pc = "list"
    /\ sweep' = [sweep EXCEPT !.pc = "close",
                              !.left = {s \in Symbols : position[s] # 0}]
    /\ UNCHANGED <<accountVars, outlived>>

\* The close is noted, then asked for.
SweepCloses(s) ==
    /\ sweep.pc = "close" /\ s \in sweep.left
    /\ position' = [position EXCEPT ![s] = 0]
    /\ sweep' = [sweep EXCEPT !.left = @ \ {s}, !.closed = @ \cup {s}]
    /\ UNCHANGED <<stray, limbo, outlived>>

\* The list of what was closed is returned to the caller.
SweepReturns ==
    /\ sweep.pc = "close" /\ sweep.left = {}
    /\ sweep' = [sweep EXCEPT !.pc = "record"]
    /\ UNCHANGED <<accountVars, outlived>>

\* A broker request raises: the list of what was already closed is lost.
SweepRaises ==
    /\ sweep.pc \in {"cancel", "list", "close"}
    /\ sweep' = [pc |-> "record", left |-> {}, closed |-> {}, failed |-> TRUE]
    /\ UNCHANGED <<accountVars, outlived>>

SweepRequest ==
    \/ SweepCancels \/ SweepLists \/ SweepReturns \/ SweepRaises
    \/ \E s \in Symbols : SweepCloses(s)
-----------------------------------------------------------------------------
(* What becomes of the orders of tasks that are gone: polled[s][d] lots    *)
(* stay at the broker, threaded[s][d] lots are still in a thread.          *)

Orphan(polled) ==
    stray' = [s \in Symbols |-> [d \in Dirs |-> stray[s][d] + polled[s][d]]]

\* The tasks are cancelled but the process, with its threads, lives on.
TasksCancelled(polled, threaded) ==
    /\ Orphan(polled)
    /\ limbo' = [s \in Symbols |-> [d \in Dirs |-> limbo[s][d] + threaded[s][d]]]
    /\ UNCHANGED <<position, sweep, outlived>>

\* The process dies: what was in its threads has landed, or never will.  The
\* next process begins with a sweep.
ProcessReplaced(polled, threaded) ==
    /\ \E landed \in SUBSET Symbols :
         Orphan([s \in Symbols |-> [d \in Dirs |->
                   polled[s][d] + IF s \in landed
                                  THEN limbo[s][d] + threaded[s][d] ELSE 0]])
    /\ limbo' = [s \in Symbols |-> NoLots]
    /\ sweep' = StartSweep
    /\ outlived' = {}
    /\ UNCHANGED position
=============================================================================
