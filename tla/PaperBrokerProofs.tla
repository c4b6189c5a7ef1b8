-------------------------- MODULE PaperBrokerProofs --------------------------
(***************************************************************************)
(* What the requests to the paper account preserve, for the traders that   *)
(* use it.                                                                 *)
(***************************************************************************)
EXTENDS PaperBroker, TLAPS

\* The types of lots per symbol and direction.
Lots == [Symbols -> [Dirs -> Nat]]

\* Taking a lot from, or adding lots to, one direction of one symbol.
LEMMA AddLotsType ==
    ASSUME NEW lots \in Lots, NEW s \in Symbols, NEW d \in Dirs, NEW n \in Int,
           lots[s][d] + n >= 0
    PROVE  AddLots(lots, s, d, n) \in Lots
BY DEF AddLots, Lots

\* The account a first process finds has the right type.
LEMMA BrokerInitType == BrokerInit => BrokerTypeOK
BY DEF BrokerInit, BrokerTypeOK, NoLots, Sweep, StartSweep, SweepPcs

\* What the broker does of its own accord preserves the types.
LEMMA AccountMovesType ==
    ASSUME BrokerTypeOK, NEW s \in Symbols, AccountMoves(s)
    PROVE  BrokerTypeOK'
<1>1. PICK d \in Dirs : StrayLotEnds(s, d) \/ LimboLands(s, d)
  BY DEF AccountMoves
<1>2. CASE StrayLotEnds(s, d)
  <2>1. stray' \in Lots
    <3>1. stray \in Lots /\ stray[s][d] + (-1) >= 0
      BY <1>2 DEF StrayLotEnds, BrokerTypeOK, Lots
    <3>2. AddLots(stray, s, d, -1) \in Lots
      BY <3>1, AddLotsType
    <3> QED
      BY <3>2, <1>2 DEF StrayLotEnds
  <2>2. position' \in [Symbols -> Int]
    BY <1>2 DEF StrayLotEnds, BrokerTypeOK, Dirs, Long, Short
  <2> QED
    BY <2>1, <2>2, <1>2 DEF StrayLotEnds, BrokerTypeOK, Lots
<1>3. CASE LimboLands(s, d)
  <2>1. limbo' \in Lots
    BY <1>3 DEF LimboLands, BrokerTypeOK, Lots
  <2>2. stray' \in Lots
    <3>1. stray \in Lots /\ limbo[s][d] \in Int /\ stray[s][d] + limbo[s][d] >= 0
      BY DEF BrokerTypeOK, Lots
    <3>2. AddLots(stray, s, d, limbo[s][d]) \in Lots
      BY <3>1, AddLotsType
    <3> QED
      BY <3>1, <3>2, <1>3 DEF LimboLands
  <2> QED
    BY <2>1, <2>2, <1>3 DEF LimboLands, BrokerTypeOK, Lots
<1> QED
  BY <1>1, <1>2, <1>3

\* Every request of flatten_symbols preserves the types.
LEMMA SweepRequestType ==
    ASSUME BrokerTypeOK, SweepRequest
    PROVE  BrokerTypeOK'
<1>1. CASE SweepCancels
  <2>1. sweep' \in Sweep
    BY <1>1 DEF SweepCancels, BrokerTypeOK, Sweep, SweepPcs
  <2>2. PICK kept \in SUBSET Symbols :
          /\ stray' = [s \in Symbols |-> IF s \in kept THEN stray[s] ELSE NoLots]
          /\ outlived' = kept \cup {s \in Symbols : limbo[s] # NoLots}
    BY <1>1 DEF SweepCancels
  <2>3. NoLots \in [Dirs -> Nat]
    BY DEF NoLots
  <2>4. stray' \in Lots /\ outlived' \subseteq Symbols
    BY <2>2, <2>3 DEF BrokerTypeOK, Lots
  <2> QED
    BY <1>1, <2>1, <2>4 DEF SweepCancels, BrokerTypeOK, Lots
<1>2. CASE SweepLists
  BY <1>2 DEF SweepLists, BrokerTypeOK, accountVars, Sweep, SweepPcs
<1>3. CASE SweepReturns
  BY <1>3 DEF SweepReturns, BrokerTypeOK, accountVars, Sweep, SweepPcs
<1>4. CASE SweepRaises
  BY <1>4 DEF SweepRaises, BrokerTypeOK, accountVars, Sweep, SweepPcs
<1>5. ASSUME NEW s \in Symbols, SweepCloses(s)
      PROVE  BrokerTypeOK'
  <2>1. sweep' = [sweep EXCEPT !.left = sweep.left \ {s},
                               !.closed = sweep.closed \cup {s}]
    BY <1>5 DEF SweepCloses
  <2>2. sweep' \in Sweep
    BY <2>1 DEF BrokerTypeOK, Sweep
  <2>3. position' \in [Symbols -> Int]
    BY <1>5 DEF SweepCloses, BrokerTypeOK
  <2> QED
    BY <1>5, <2>2, <2>3 DEF SweepCloses, BrokerTypeOK
<1> QED
  BY <1>1, <1>2, <1>3, <1>4, <1>5 DEF SweepRequest

\* So does leaving the orders of tasks that are gone at the broker.
LEMMA TasksCancelledType ==
    ASSUME BrokerTypeOK, NEW polled \in Lots, NEW threaded \in Lots,
           TasksCancelled(polled, threaded)
    PROVE  BrokerTypeOK'
BY DEF TasksCancelled, Orphan, BrokerTypeOK, Lots

\* And so does the replacement of the process, whatever of it had landed.
LEMMA ProcessReplacedType ==
    ASSUME BrokerTypeOK, NEW polled \in Lots, NEW threaded \in Lots,
           ProcessReplaced(polled, threaded)
    PROVE  BrokerTypeOK'
<1>1. PICK landed \in SUBSET Symbols :
        Orphan([s \in Symbols |-> [d \in Dirs |->
                  polled[s][d] + IF s \in landed
                                 THEN limbo[s][d] + threaded[s][d] ELSE 0]])
  BY DEF ProcessReplaced
<1> DEFINE left == [s \in Symbols |-> [d \in Dirs |->
                      polled[s][d] + IF s \in landed
                                     THEN limbo[s][d] + threaded[s][d] ELSE 0]]
<1>2. left \in Lots
  BY DEF Lots, BrokerTypeOK
<1>3. stray' \in Lots
  <2>1. stray' = [s \in Symbols |-> [d \in Dirs |-> stray[s][d] + left[s][d]]]
    BY <1>1 DEF Orphan
  <2> HIDE DEF left
  <2> QED
    BY <2>1, <1>2 DEF Lots, BrokerTypeOK
<1>4. limbo' \in Lots /\ sweep' \in Sweep /\ outlived' \subseteq Symbols
  BY DEF ProcessReplaced, NoLots, Lots, StartSweep, Sweep, SweepPcs
<1> QED
  BY <1>3, <1>4 DEF ProcessReplaced, BrokerTypeOK, Lots
-----------------------------------------------------------------------------
(* What a sweep that works leaves of the symbols whose orders it cancelled.*)

\* A symbol as far as the sweep has come: no order of it is at work, then the
\* sweep has it on its list or it is flat, then it is flat.
Cleared(s) ==
    /\ sweep.pc \in {"list", "close", "record"} => Untangled(s)
    /\ sweep.pc = "close" => s \in sweep.left \/ position[s] = 0
    /\ sweep.pc = "record" => position[s] = 0

\* Unless a request of the sweep failed, or an order of s outlived it.
Swept(s) == ~sweep.failed /\ s \notin outlived => Cleared(s)

\* The account does not move in a symbol without orders at work.
LEMMA UntangledRests ==
    ASSUME BrokerTypeOK, NEW s \in Symbols, AccountMoves(s), NEW r \in Symbols, Untangled(r)
    PROVE  position'[r] = position[r] /\ Untangled(r)'
<1>1. PICK d \in Dirs : StrayLotEnds(s, d) \/ LimboLands(s, d)
  BY DEF AccountMoves
<1>2. s # r
  BY <1>1 DEF StrayLotEnds, LimboLands, Untangled, NoLots
<1>3. CASE StrayLotEnds(s, d)
  BY <1>2, <1>3 DEF StrayLotEnds, AddLots, Untangled, BrokerTypeOK
<1>4. CASE LimboLands(s, d)
  BY <1>2, <1>4 DEF LimboLands, AddLots, Untangled, BrokerTypeOK
<1> QED
  BY <1>1, <1>3, <1>4

LEMMA AccountMovesSwept ==
    ASSUME BrokerTypeOK, NEW s \in Symbols, AccountMoves(s), NEW r \in Symbols, Swept(r)
    PROVE  Swept(r)'
<1>1. UNCHANGED <<sweep, outlived>>
  BY DEF AccountMoves, StrayLotEnds, LimboLands
<1>2. ASSUME Cleared(r)
      PROVE  Cleared(r)'
  <2>1. CASE Untangled(r)
    BY <1>1, <1>2, <2>1, UntangledRests DEF Cleared
  <2>2. CASE ~Untangled(r)
    BY <1>1, <1>2, <2>2 DEF Cleared
  <2> QED
    BY <2>1, <2>2
<1> QED
  BY <1>1, <1>2 DEF Swept

\* Each request of the sweep brings every symbol but those that outlive it a
\* step further.
LEMMA SweepRequestSwept ==
    ASSUME BrokerTypeOK, SweepRequest, NEW r \in Symbols, Swept(r)
    PROVE  Swept(r)'
<1>0. sweep \in Sweep
  BY DEF BrokerTypeOK
<1>1. CASE SweepCancels
  <2>1. /\ sweep'.pc = "list" /\ UNCHANGED limbo
        /\ r \notin outlived' => stray'[r] = NoLots /\ limbo[r] = NoLots
    BY <1>0, <1>1 DEF SweepCancels, Sweep
  <2> QED
    BY <2>1 DEF Swept, Cleared, Untangled
<1>2. CASE SweepLists
  <2>1. /\ sweep.pc = "list" /\ sweep'.pc = "close" /\ sweep'.failed = sweep.failed
        /\ sweep'.left = {s \in Symbols : position[s] # 0}
        /\ UNCHANGED <<position, stray, limbo, outlived>>
    BY <1>0, <1>2 DEF SweepLists, Sweep, accountVars
  <2> QED
    BY <2>1 DEF Swept, Cleared, Untangled
<1>3. CASE SweepReturns
  <2>1. /\ sweep.pc = "close" /\ sweep'.pc = "record" /\ sweep'.failed = sweep.failed
        /\ sweep.left = {} /\ UNCHANGED <<position, stray, limbo, outlived>>
    BY <1>0, <1>3 DEF SweepReturns, Sweep, accountVars
  <2> QED
    BY <2>1 DEF Swept, Cleared, Untangled
<1>4. CASE SweepRaises
  BY <1>4 DEF SweepRaises, Swept
<1>5. ASSUME NEW s \in Symbols, SweepCloses(s)
      PROVE  Swept(r)'
  <2>1. /\ sweep.pc = "close" /\ sweep'.pc = "close" /\ sweep'.failed = sweep.failed
        /\ sweep'.left = sweep.left \ {s} /\ UNCHANGED <<stray, limbo, outlived>>
    BY <1>0, <1>5 DEF SweepCloses, Sweep
  <2>2. position'[r] = IF r = s THEN 0 ELSE position[r]
    BY <1>5 DEF SweepCloses, BrokerTypeOK
  <2> QED
    BY <2>1, <2>2 DEF Swept, Cleared, Untangled
<1> QED
  BY <1>1, <1>2, <1>3, <1>4, <1>5 DEF SweepRequest
=============================================================================
