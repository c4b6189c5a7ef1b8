----------------------------- MODULE JobsProofs -----------------------------
(***************************************************************************)
(* What the jobs beside the traders promise, each proved of its own        *)
(* specification, and that a behaviour of them all is a behaviour of each. *)
(***************************************************************************)
EXTENDS Jobs, DataLemmas

-----------------------------------------------------------------------------
(* The trend bot: one order a day.  What a run may do rests on what it saw
   at its start, and on the note of the run before it. *)

Runs == {NotRunning} \cup [stage : {"decided", "noting"}, action : {"buy", "sell", "hold"}, qty : Nat]

TrendTypeOK ==
    /\ date \in Nat /\ clock \in {"before", "closing", "after"}
    /\ held \in Nat /\ buys \in Nat /\ sells \in Nat
    /\ last_day \in Nat /\ run \in Runs /\ runs \in Nat /\ orders \in Nat
    /\ cuts \subseteq Nat

\* A run in progress found the day undone; there is none before the closing
\* minutes.
RunToday ==
    /\ run # NotRunning => last_day # date
    /\ clock = "before" => run = NotRunning

\* An order of today has been noted, is about to be, or was cut off.
OrderNoted ==
    orders > 0 => \/ last_day = date
                  \/ date \in cuts
                  \/ run.stage = "noting" /\ run.action # "hold"

\* What works in the closing minutes was ordered today.
WorksToday == clock = "closing" /\ buys + sells > 0 => orders > 0

\* As long as no run was cut off, a run that decided to buy has nothing.
BuysFromNothing ==
    cuts = {} /\ run.stage = "decided" /\ run.action = "buy" => held + buys = 0

TrendInv ==
    TrendTypeOK /\ RunToday /\ OrderNoted /\ WorksToday /\ BuysFromNothing /\ OneOrderADay

\* What the run's fields are, whichever run it is.
LEMMA RunFields ==
    ASSUME run \in Runs
    PROVE  /\ run = NotRunning => run.stage = "none"
           /\ run # NotRunning =>
                /\ run.stage \in {"decided", "noting"}
                /\ run.action \in {"buy", "sell", "hold"} /\ run.qty \in Nat
                /\ \A s \in {"decided", "noting"} :
                     [run EXCEPT !.stage = s] \in Runs /\ [run EXCEPT !.stage = s] # NotRunning
                     /\ [run EXCEPT !.stage = s].stage = s
                     /\ [run EXCEPT !.stage = s].action = run.action
  BY DEF Runs, NotRunning

LEMMA TrendInitInv == TrendInit => TrendInv
  BY DEF TrendInit, TrendInv, TrendTypeOK, RunToday, OrderNoted, WorksToday, BuysFromNothing,
         OneOrderADay, Runs, NotRunning

\* The market, the date and the orders that fill or are swept.
LEMMA WorldInv ==
    ASSUME TrendInv, MarketMoves \/ NextDate \/ BuyFills \/ SellFills \/ Swept
    PROVE  TrendInv'
  <1>1. CASE MarketMoves
    BY <1>1, RunFields DEF MarketMoves, TrendInv, TrendTypeOK, RunToday, OrderNoted, WorksToday,
                BuysFromNothing, OneOrderADay
  <1>2. CASE NextDate
    BY <1>2, RunFields DEF NextDate, TrendInv, TrendTypeOK, RunToday, OrderNoted, WorksToday,
                BuysFromNothing, OneOrderADay
  <1>3. CASE BuyFills
    BY <1>3, RunFields DEF BuyFills, TrendInv, TrendTypeOK, RunToday, OrderNoted, WorksToday,
                BuysFromNothing, OneOrderADay
  <1>4. CASE SellFills
    BY <1>4, RunFields DEF SellFills, TrendInv, TrendTypeOK, RunToday, OrderNoted, WorksToday,
                BuysFromNothing, OneOrderADay
  <1>5. CASE Swept
    BY <1>5, RunFields DEF Swept, TrendInv, TrendTypeOK, RunToday, OrderNoted, WorksToday,
                BuysFromNothing, OneOrderADay
  <1> QED BY <1>1, <1>2, <1>3, <1>4, <1>5

LEMMA RunStartsInv ==
    ASSUME TrendInv, NEW trend \in {"above", "below", "unknown"}, RunStarts(trend)
    PROVE  TrendInv'
  <1>1. run' \in Runs /\ run' # NotRunning /\ run'.stage = "decided" /\ run'.action = decide(trend, held > 0)
    BY DEF RunStarts, TrendInv, TrendTypeOK, Runs, NotRunning, decide
  <1>2. run = NotRunning /\ run.stage # "noting" /\ last_day # date /\ clock = "closing"
    BY DEF RunStarts, AlreadyRan, NotRunning
  <1>3. cuts = {} => buys + sells = 0
    BY <1>2 DEF TrendInv, TrendTypeOK, WorksToday, OrderNoted
  <1>4. decide(trend, held > 0) = "buy" => held = 0
    BY DEF decide, TrendInv, TrendTypeOK
  <1> QED BY <1>1, <1>2, <1>3, <1>4 DEF RunStarts, TrendInv, TrendTypeOK, RunToday, OrderNoted,
             WorksToday, BuysFromNothing, OneOrderADay

LEMMA RunSubmitsInv ==
    ASSUME TrendInv, RunSubmits
    PROVE  TrendInv'
  <1>1. run # NotRunning /\ run.stage = "decided" /\ last_day # date /\ clock # "before"
    BY DEF RunSubmits, TrendInv, RunToday, NotRunning
  <1>2. orders > 0 => date \in cuts
    BY <1>1 DEF TrendInv, OrderNoted
  <1>3. CASE run.action = "hold" /\ run' = [run EXCEPT !.stage = "noting"] /\ UNCHANGED <<buys, sells, orders>>
    BY <1>1, <1>2, <1>3, RunFields DEF RunSubmits, TrendInv, TrendTypeOK, RunToday, OrderNoted,
       WorksToday, BuysFromNothing, OneOrderADay
  <1>4. CASE /\ run.action = "buy" /\ buys' = buys + 1 /\ orders' = orders + 1
             /\ run' = [run EXCEPT !.stage = "noting"] /\ UNCHANGED sells
    BY <1>1, <1>2, <1>4, RunFields DEF RunSubmits, TrendInv, TrendTypeOK, RunToday, OrderNoted,
       WorksToday, BuysFromNothing, OneOrderADay
  <1>5. CASE /\ run.action = "sell" /\ run.qty <= held - sells
             /\ sells' = sells + run.qty /\ orders' = orders + 1
             /\ run' = [run EXCEPT !.stage = "noting"] /\ UNCHANGED buys
    BY <1>1, <1>2, <1>5, RunFields DEF RunSubmits, TrendInv, TrendTypeOK, RunToday, OrderNoted,
       WorksToday, BuysFromNothing, OneOrderADay
  <1>6. CASE run.action # "hold" /\ run' = NotRunning /\ UNCHANGED <<buys, sells, orders>>
    BY <1>1, <1>2, <1>6, RunFields DEF RunSubmits, TrendInv, TrendTypeOK, RunToday, OrderNoted,
       WorksToday, BuysFromNothing, OneOrderADay, Runs, NotRunning
  <1> QED BY <1>3, <1>4, <1>5, <1>6 DEF RunSubmits

LEMMA RunEndsInv ==
    ASSUME TrendInv, RunNotes \/ RunCut
    PROVE  TrendInv'
  <1>1. NotRunning \in Runs /\ NotRunning.stage = "none"
    BY DEF Runs, NotRunning
  <1>2. CASE RunNotes
    BY <1>1, <1>2, RunFields DEF RunNotes, TrendInv, TrendTypeOK, RunToday, OrderNoted, WorksToday,
       BuysFromNothing, OneOrderADay
  <1>3. CASE RunCut
    BY <1>1, <1>3, RunFields DEF RunCut, TrendInv, TrendTypeOK, RunToday, OrderNoted, WorksToday,
       BuysFromNothing, OneOrderADay
  <1> QED BY <1>2, <1>3

\* A second order of a day, and a second unit, only through a run cut off
\* between its order and its note: "at most once per day" (trend_bot.py:29).
THEOREM TrendOneOrderADay == TrendSpec => []OneOrderADay
  <1>1. TrendInv /\ [TrendNext]_trendVars => TrendInv'
    <2> SUFFICES ASSUME TrendInv, [TrendNext]_trendVars PROVE TrendInv'
      OBVIOUS
    <2>1. CASE UNCHANGED trendVars
      BY <2>1 DEF trendVars, TrendInv, TrendTypeOK, RunToday, OrderNoted, WorksToday,
         BuysFromNothing, OneOrderADay
    <2> QED BY <2>1, WorldInv, RunStartsInv, RunSubmitsInv, RunEndsInv DEF TrendNext
  <1>2. TrendInv => OneOrderADay
    BY DEF TrendInv
  <1> QED BY TrendInitInv, <1>1, <1>2, PTL DEF TrendSpec
-----------------------------------------------------------------------------
(* The model on disk: learning survives restarts. *)

\* What a pipe holds: labels learned and labels waiting, of quotes until m.
PipeSound(l, q, m) ==
    /\ l \in Seq(Nat) /\ q \in Seq(Nat) /\ OnceEach(l \o q)
    /\ \A i \in DOMAIN (l \o q) : (l \o q)[i] <= m
    /\ \A i, j \in DOMAIN q : q[i] + LabelHorizon > q[j]

Running == [up : {TRUE}, sig : Signatures, ticks : Nat, learned : Seq(Nat), queue : Seq(Nat)]
Processes == {Down} \cup Running
Pickles == [sig : Signatures, learned : Seq(Nat), queue : Seq(Nat)]

\* The file is the last save, of whatever configuration.
ModelInv ==
    /\ moment \in Nat /\ proc \in Processes /\ saved \in {NoFile} \cup Pickles /\ durable = saved
    /\ saved \in Pickles => PipeSound(saved.learned, saved.queue, moment)
    /\ proc.up => /\ PipeSound(proc.learned, proc.queue, moment)
                  /\ saved.sig = proc.sig => IsPrefix(saved.learned, proc.learned)

LEMMA ProcessFields ==
    ASSUME NEW p \in Processes
    PROVE  (p.up => p \in Running) /\ (p \in Running => p.up = TRUE) /\ (~p.up => p = Down)
  <1>1. Down.up = FALSE
    BY DEF Down
  <1>2. \A q \in Running : q.up = TRUE
    BY DEF Running
  <1> QED BY <1>1, <1>2 DEF Processes

LEMMA RunningFields ==
    ASSUME NEW p \in Running
    PROVE  /\ p \in Processes /\ p.up /\ p.sig \in Signatures /\ p.ticks \in Nat
           /\ p.learned \in Seq(Nat) /\ p.queue \in Seq(Nat)
  BY DEF Running, Processes

\* A file that is there is not the one that is missing, and is whole.
LEMMA FileFields ==
    ASSUME NEW f \in {NoFile} \cup Pickles
    PROVE  /\ f \in Pickles => f # NoFile /\ f.sig \in Signatures /\ f.learned \in Seq(Nat) /\ f.queue \in Seq(Nat)
           /\ f.sig \in Signatures => f \in Pickles
  BY ModelStateAssumption DEF NoFile, Pickles

LEMMA PipeStarts ==
    ASSUME NEW m \in Nat
    PROVE  PipeSound(<<>>, <<>>, m)
  <1>1. <<>> \in Seq(Nat) /\ <<>> \o <<>> = <<>> /\ DOMAIN <<>> = {}
    BY ConcatEmptySeq
  <1> QED
    BY <1>1 DEF PipeSound, OnceEach

LEMMA ModelInitInv == ModelInit => ModelInv
  BY DEF ModelInit, ModelInv, Processes, Down, NoFile, Pickles

\* What a start finds: all that was saved under its configuration, or nothing.
LEMMA StartsInv ==
    ASSUME ModelInv, NEW sig \in Signatures, Starts(sig)
    PROVE  ModelInv'
  <1>1. /\ proc' = _load_state(sig) /\ UNCHANGED <<moment, saved, durable>>
        /\ moment \in Nat /\ saved \in {NoFile} \cup Pickles
    BY DEF Starts, ModelInv
  <1>2. CASE saved.sig = sig
    <2>1. saved \in Pickles /\ saved.learned \in Seq(Nat) /\ saved.queue \in Seq(Nat)
      BY <1>1, <1>2, FileFields
    <2>2. proc' = [up |-> TRUE, sig |-> sig, ticks |-> 0, learned |-> saved.learned, queue |-> saved.queue]
      BY <1>1, <1>2 DEF _load_state, Usable, Fresh
    <2>3. proc' \in Running /\ proc'.learned = saved.learned /\ proc'.queue = saved.queue
      BY <2>1, <2>2 DEF Running
    <2>4. IsPrefix(saved.learned, saved.learned)
      <3>1. <<>> \in Seq(Nat) /\ saved.learned \o <<>> = saved.learned
        BY <2>1, ConcatEmptySeq
      <3> QED
        BY <2>1, <3>1, PrefixOfConcat
    <2> QED
      BY <1>1, <2>1, <2>3, <2>4 DEF ModelInv, Processes
  <1>3. CASE saved.sig # sig
    <2>1. proc' = [up |-> TRUE, sig |-> sig, ticks |-> 0, learned |-> <<>>, queue |-> <<>>]
      BY <1>1, <1>3 DEF _load_state, Usable, Fresh
    <2>2. proc' \in Running /\ proc'.learned = <<>> /\ proc'.queue = <<>> /\ proc'.sig = sig
      BY <2>1 DEF Running
    <2> QED
      BY <1>1, <1>3, <2>2, PipeStarts DEF ModelInv, Processes
  <1> QED BY <1>2, <1>3

\* How many labels a quote resolves.
LEMMA DueCounted ==
    ASSUME NEW q \in Seq(Nat), NEW at \in Nat
    PROVE  /\ DueCount(q, at) \in 0..Len(q)
           /\ \A i \in 1..DueCount(q, at) : at >= q[i] + LabelHorizon
           /\ DueCount(q, at) < Len(q) => ~(at >= q[DueCount(q, at) + 1] + LabelHorizon)
  <1> DEFINE Due(i) == at >= q[i] + LabelHorizon
             Stops == {n \in 0..Len(q) : n = Len(q) \/ ~Due(n + 1)}
  <1>1. Len(q) \in Nat
    BY LenProperties
  <1>2. Stops \in SUBSET Nat /\ Len(q) \in Stops
    BY <1>1
  <1>3. PICK n \in Stops : \A k \in Stops : n <= k
    BY <1>2, LeastNatural
  <1>4. n \in 0..Len(q) /\ (n < Len(q) => ~Due(n + 1))
    BY <1>1, <1>3
  <1>5. ASSUME NEW i \in 1..n PROVE Due(i)
    <2>1. i - 1 \in 0..Len(q) /\ i - 1 # Len(q) /\ ~(n <= i - 1) /\ (i - 1) + 1 = i
      BY <1>1, <1>4
    <2>2. i - 1 \notin Stops
      BY <1>3, <2>1
    <2> QED
      BY <2>1, <2>2
  <1>6. /\ \A i \in 1..n : at >= q[i] + LabelHorizon
        /\ n < Len(q) => ~(at >= q[n + 1] + LabelHorizon)
    BY <1>4, <1>5
  <1> QED
    BY <1>4, <1>6 DEF DueCount

\* The labels that stay are later than one that is not due.
LEMMA PipeMoves ==
    ASSUME NEW l, NEW q, NEW m \in Nat, NEW at \in Nat, m < at, PipeSound(l, q, m), NEW predicts \in BOOLEAN
    PROVE  LET n == DueCount(q, at)
               rest == SubSeq(q, n + 1, Len(q))
               more == l \o SubSeq(q, 1, n)
           IN  /\ PipeSound(more, IF predicts THEN Append(rest, at) ELSE rest, at)
               /\ SubSeq(q, 1, n) \in Seq(Nat)
  <1> DEFINE n == DueCount(q, at)
             front == SubSeq(q, 1, n)
             rest == SubSeq(q, n + 1, Len(q))
             more == l \o front
             all == l \o q
  <1>1. /\ l \in Seq(Nat) /\ q \in Seq(Nat) /\ OnceEach(all)
        /\ \A i \in DOMAIN all : all[i] <= m
        /\ \A i, j \in DOMAIN q : q[i] + LabelHorizon > q[j]
    BY DEF PipeSound
  <1>2. n \in 0..Len(q) /\ (n < Len(q) => ~(at >= q[n + 1] + LabelHorizon)) /\ Len(q) \in Nat /\ n \in Nat
    <2>1. Len(q) \in Nat
      BY <1>1, LenProperties
    <2>2. n \in 0..Len(q) /\ (n < Len(q) => ~(at >= q[n + 1] + LabelHorizon))
      BY <1>1, DueCounted
    <2> QED
      BY <2>1, <2>2
  <1> HIDE DEF n
  <1>3. front \in Seq(Nat) /\ rest \in Seq(Nat) /\ q = front \o rest
    BY <1>1, <1>2, SequenceSplits
  <1>4. more \in Seq(Nat) /\ all \in Seq(Nat) /\ more \o rest = all
    <2>1. more \in Seq(Nat) /\ all \in Seq(Nat)
      BY <1>1, <1>3, ConcatType
    <2>2. Assoc(l, front, rest)
      BY <1>1, <1>3, AssocHolds
    <2> QED
      BY <1>3, <2>1, <2>2 DEF Assoc
  <1>5. /\ Len(all) = Len(l) + Len(q) /\ Len(l) \in Nat /\ DOMAIN all = 1..Len(all) /\ DOMAIN q = 1..Len(q)
        /\ \A i \in 1..Len(q) : all[Len(l) + i] = q[i] /\ q[i] \in Nat
        /\ \A i \in 1..Len(all) : all[i] \in Nat /\ all[i] <= m
    <2>1. /\ Len(all) = Len(l) + Len(q) /\ Len(l) \in Nat /\ DOMAIN all = 1..Len(all) /\ DOMAIN q = 1..Len(q)
          /\ \A i \in 1..(Len(l) + Len(q)) : all[i] = IF i <= Len(l) THEN l[i] ELSE q[i - Len(l)]
      BY <1>1, <1>4, ConcatProperties, LenProperties
    <2>2. \A i \in 1..Len(q) : /\ Len(l) + i \in 1..(Len(l) + Len(q))
                               /\ ~(Len(l) + i <= Len(l)) /\ (Len(l) + i) - Len(l) = i
      BY <1>2, <2>1
    <2>3. \A i \in 1..Len(q) : all[Len(l) + i] = q[i]
      BY <2>1, <2>2
    <2> QED
      BY <1>1, <1>4, <2>1, <2>3, ElementOfSeq
  <1> HIDE DEF front, rest, more, all
  <1>6. /\ Len(rest) = Len(q) - n /\ DOMAIN rest = 1..(Len(q) - n)
        /\ \A i \in 1..(Len(q) - n) : rest[i] = q[n + i] /\ n + i \in 1..Len(q) /\ rest[i] \in Nat
    <2>1. \A i \in (n + 1)..Len(q) : q[i] \in Nat
      BY <1>2, <1>5
    <2>2. /\ Len(rest) = IF n + 1 <= Len(q) THEN Len(q) - (n + 1) + 1 ELSE 0
          /\ \A i \in 1..(Len(q) - (n + 1) + 1) : rest[i] = q[(n + 1) + i - 1]
      BY <1>2, <2>1, SubSeqProperties DEF rest
    <2>3. /\ Len(q) - (n + 1) + 1 = Len(q) - n /\ \A i \in 1..(Len(q) - n) : (n + 1) + i - 1 = n + i
          /\ \A i \in 1..(Len(q) - n) : n + i \in 1..Len(q)
      BY <1>2
    <2>4. Len(rest) = Len(q) - n
      BY <1>2, <2>2
    <2>5. DOMAIN rest = 1..(Len(q) - n)
      BY <1>3, <2>4, LenProperties
    <2>6. ASSUME NEW i \in 1..(Len(q) - n)
          PROVE  rest[i] = q[n + i] /\ n + i \in 1..Len(q) /\ rest[i] \in Nat
      <3>1. rest[i] = q[(n + 1) + i - 1] /\ (n + 1) + i - 1 = n + i /\ n + i \in 1..Len(q)
        BY <2>2, <2>3
      <3> QED
        BY <1>5, <3>1
    <2> QED
      BY <2>4, <2>5, <2>6
  <1>7. \A i \in 1..(Len(q) - n) : rest[i] + LabelHorizon > at /\ rest[i] <= m
    <2> SUFFICES ASSUME NEW i \in 1..(Len(q) - n)
                 PROVE  rest[i] + LabelHorizon > at /\ rest[i] <= m
      OBVIOUS
    <2> DEFINE a == Len(l) + (n + 1)
               b == Len(l) + (n + i)
    <2>1. /\ n < Len(q) /\ n + 1 \in 1..Len(q) /\ n + i \in 1..Len(q)
          /\ a \in 1..Len(all) /\ b \in 1..Len(all) /\ (a = b \/ a < b)
      <3> DEFINE k == Len(q)
                 h == Len(l)
      <3>1. k \in Nat /\ h \in Nat /\ n \in Nat /\ i \in 1..(k - n) /\ Len(all) = h + k
        BY <1>2, <1>5
      <3> HIDE DEF k, h
      <3>2. n < k /\ n + 1 \in 1..k /\ n + i \in 1..k
        BY <3>1
      <3>3. h + (n + 1) \in 1..(h + k) /\ h + (n + i) \in 1..(h + k) /\ (i = 1 \/ h + (n + 1) < h + (n + i))
        BY <3>1, <3>2
      <3> QED
        BY <3>1, <3>2, <3>3 DEF k, h
    <2>2. all[a] = q[n + 1] /\ all[b] = q[n + i] /\ all[b] = rest[i]
      BY <1>5, <1>6, <2>1
    <2>3. all[a] <= all[b] /\ all[b] <= m /\ all[a] \in Nat /\ all[b] \in Nat
      BY <1>1, <1>5, <2>1 DEF OnceEach
    <2>4. ~(at >= all[a] + LabelHorizon)
      BY <1>2, <2>1, <2>2
    <2> HIDE DEF a, b
    <2> QED
      BY <2>2, <2>3, <2>4, ModelStateAssumption
  <1>8. PipeSound(more, rest, at)
    <2>1. \A i \in DOMAIN all : all[i] <= at
      BY <1>5
    <2>2. \A i, j \in DOMAIN rest : rest[i] + LabelHorizon > rest[j]
      BY <1>6, <1>7, ModelStateAssumption
    <2> QED
      BY <1>1, <1>3, <1>4, <2>1, <2>2 DEF PipeSound
  <1>9. PipeSound(more, Append(rest, at), at)
    <2> DEFINE longer == Append(all, at)
               next == Append(rest, at)
    <2>1. next \in Seq(Nat) /\ more \o next = longer /\ longer \in Seq(Nat)
      <3>1. rest \in Seq(Nat) /\ more \in Seq(Nat) /\ all \in Seq(Nat)
        BY <1>3, <1>4
      <3>2. next \in Seq(Nat) /\ longer \in Seq(Nat)
        BY <3>1, AppendProperties
      <3>3. more \o Append(rest, at) = Append(more \o rest, at)
        <4>1. at \in Nat
          OBVIOUS
        <4> QED
          BY <3>1, <4>1, AppendToConcat
      <3> QED
        BY <1>4, <3>2, <3>3
    <2>2. /\ DOMAIN longer = 1..(Len(all) + 1) /\ longer[Len(all) + 1] = at /\ Len(all) \in Nat
          /\ \A i \in 1..Len(all) : longer[i] = all[i]
      <3>1. Len(all) \in Nat /\ at \in Nat /\ Len(longer) = Len(all) + 1
            /\ longer[Len(all) + 1] = at /\ \A i \in 1..Len(all) : longer[i] = all[i]
        BY <1>4, AppendProperties, LenProperties
      <3> QED
        BY <2>1, <3>1, LenProperties
    <2>3. /\ DOMAIN next = 1..((Len(q) - n) + 1) /\ next[(Len(q) - n) + 1] = at /\ Len(q) - n \in Nat
          /\ \A i \in 1..(Len(q) - n) : next[i] = rest[i]
      <3>1. Len(next) = Len(rest) + 1 /\ next[Len(rest) + 1] = at /\ \A i \in 1..Len(rest) : next[i] = rest[i]
        BY <1>3, AppendProperties
      <3>2. DOMAIN next = 1..Len(next) /\ Len(rest) = Len(q) - n /\ Len(rest) \in Nat
        BY <1>3, <1>6, <2>1, LenProperties
      <3> QED
        BY <3>1, <3>2
    <2> HIDE DEF longer, next
    <2>4. OnceEach(longer) /\ \A i \in DOMAIN longer : longer[i] <= at
      <3>1. \A i, j \in 1..Len(all) : i < j => all[i] < all[j]
        BY <1>1, <1>5 DEF OnceEach
      <3>2. \A i \in 1..(Len(all) + 1) : i \in 1..Len(all) \/ i = Len(all) + 1
        BY <2>2
      <3>3. \A i \in 1..Len(all) : longer[i] = all[i] /\ longer[i] < at /\ longer[i] \in Nat
        <4> SUFFICES ASSUME NEW i \in 1..Len(all)
                     PROVE  longer[i] = all[i] /\ longer[i] < at /\ longer[i] \in Nat
          OBVIOUS
        <4>1. longer[i] = all[i] /\ all[i] \in Nat /\ all[i] <= m
          BY <1>5, <2>2
        <4> QED
          BY <4>1
      <3> QED
        BY <2>2, <3>1, <3>2, <3>3 DEF OnceEach
    <2>5. \A i, j \in DOMAIN next : next[i] + LabelHorizon > next[j]
      <3>1. \A i \in 1..((Len(q) - n) + 1) : i \in 1..(Len(q) - n) \/ i = (Len(q) - n) + 1
        BY <2>3
      <3>2. \A i \in DOMAIN next : next[i] \in Nat /\ next[i] <= at /\ next[i] + LabelHorizon > at
        <4>1. \A i \in 1..(Len(q) - n) :
                  next[i] \in Nat /\ next[i] <= m /\ next[i] + LabelHorizon > at
          BY <1>6, <1>7, <2>3
        <4>2. \A i \in 1..(Len(q) - n) : next[i] <= at
          BY <4>1
        <4>3. /\ next[(Len(q) - n) + 1] = at /\ at + LabelHorizon > at
              /\ DOMAIN next = 1..((Len(q) - n) + 1)
          BY <2>3, ModelStateAssumption
        <4> QED
          BY <3>1, <4>1, <4>2, <4>3
      <3> QED
        BY <3>2, ModelStateAssumption
    <2> QED
      BY <1>4, <2>1, <2>4, <2>5 DEF PipeSound, next
  <1> QED
    BY <1>3, <1>8, <1>9 DEF front, rest, more, n

LEMMA PrefixGrows ==
    ASSUME NEW R, NEW a \in Seq(R), NEW g \in Seq(R), NEW y \in Seq(R), IsPrefix(a, g)
    PROVE  IsPrefix(a, g \o y)
  <1>1. Len(a) \in 0..Len(g) /\ SubSeq(a, 1, Len(a)) = SubSeq(g, 1, Len(a))
    BY LenProperties DEF IsPrefix
  <1> DEFINE x == SubSeq(g, Len(a) + 1, Len(g))
  <1>2. g = SubSeq(g, 1, Len(a)) \o x /\ x \in Seq(R)
    BY <1>1, SequenceSplits
  <1>3. g = a \o x
    BY <1>1, <1>2, SubSeqFull
  <1> HIDE DEF x
  <1>4. Assoc(a, x, y) /\ x \o y \in Seq(R)
    BY <1>2, AssocHolds, ConcatType
  <1>5. IsPrefix(a, a \o (x \o y))
    BY <1>4, PrefixOfConcat
  <1> QED
    BY <1>3, <1>4, <1>5 DEF Assoc

LEMMA QuotesInv ==
    ASSUME ModelInv, NEW at \in (moment + 1)..MaxMoment, NEW predicts \in BOOLEAN, Quotes(at, predicts)
    PROVE  ModelInv'
  <1> DEFINE n == DueCount(proc.queue, at)
             rest == SubSeq(proc.queue, n + 1, Len(proc.queue))
             popped == SubSeq(proc.queue, 1, n)
             left == IF predicts THEN Append(rest, at) ELSE rest
  <1>1. /\ proc \in Running /\ proc.up /\ moment \in Nat /\ moment' = at /\ UNCHANGED <<saved, durable>>
        /\ saved \in {NoFile} \cup Pickles
    BY ProcessFields DEF Quotes, ModelInv
  <1>2. at \in Nat /\ moment < at
    BY <1>1, ModelStateAssumption
  <1>3. PipeSound(proc.learned, proc.queue, moment) /\ proc.learned \in Seq(Nat)
    BY <1>1 DEF ModelInv, PipeSound
  <1>4. PipeSound(proc.learned \o popped, left, at) /\ popped \in Seq(Nat)
    BY <1>1, <1>2, <1>3, PipeMoves
  <1>5. proc' = [proc EXCEPT !.learned = proc.learned \o popped, !.queue = left]
    BY DEF Quotes
  <1> HIDE DEF n, rest, popped, left
  <1>6. proc.learned \o popped \in Seq(Nat) /\ left \in Seq(Nat)
    BY <1>4 DEF PipeSound
  <1>7. /\ proc' \in Running /\ proc'.learned = proc.learned \o popped /\ proc'.queue = left
        /\ proc'.sig = proc.sig
    BY <1>1, <1>5, <1>6 DEF Running
  <1>8. saved.sig = proc'.sig => IsPrefix(saved.learned, proc'.learned)
    <2> SUFFICES ASSUME saved.sig = proc.sig PROVE IsPrefix(saved.learned, proc.learned \o popped)
      BY <1>7
    <2>1. saved.learned \in Seq(Nat) /\ IsPrefix(saved.learned, proc.learned)
      BY <1>1, RunningFields, FileFields DEF ModelInv
    <2> QED
      BY <1>3, <1>4, <2>1, PrefixGrows
  <1>9. saved \in Pickles => PipeSound(saved.learned, saved.queue, at)
    <2> SUFFICES ASSUME saved \in Pickles PROVE PipeSound(saved.learned, saved.queue, at)
      OBVIOUS
    <2> DEFINE all == saved.learned \o saved.queue
    <2>1. PipeSound(saved.learned, saved.queue, moment)
      BY DEF ModelInv
    <2>2. all \in Seq(Nat) /\ \A i \in DOMAIN all : all[i] <= moment
      BY <2>1, ConcatType DEF PipeSound
    <2> HIDE DEF all
    <2>3. \A i \in DOMAIN all : all[i] \in Nat
      BY <2>2, LenProperties, ElementOfSeq
    <2>4. \A i \in DOMAIN all : all[i] <= at
      BY <1>1, <1>2, <2>2, <2>3
    <2> QED
      BY <2>1, <2>4 DEF PipeSound, all
  <1> QED
    BY <1>1, <1>2, <1>4, <1>7, <1>8, <1>9 DEF ModelInv, Processes

\* A save leaves in the file what the process knows.
LEMMA SaveInv ==
    ASSUME ModelInv, proc.up, _save_state
    PROVE  /\ saved' \in Pickles /\ durable' = saved' /\ saved'.sig = proc.sig
           /\ saved'.learned = proc.learned /\ saved'.queue = proc.queue
           /\ IsPrefix(saved'.learned, proc.learned)
  <1>1. proc \in Running
    BY ProcessFields DEF ModelInv
  <1>2. /\ saved' \in Pickles /\ durable' = saved' /\ saved'.sig = proc.sig
        /\ saved'.learned = proc.learned /\ saved'.queue = proc.queue /\ proc.learned \in Seq(Nat)
    BY <1>1, RunningFields DEF _save_state, Pickles
  <1>3. <<>> \in Seq(Nat) /\ proc.learned \o <<>> = proc.learned
    BY <1>2, ConcatEmptySeq
  <1>4. IsPrefix(proc.learned, proc.learned)
    BY <1>2, <1>3, PrefixOfConcat
  <1> QED
    BY <1>2, <1>4

LEMMA StatusTicksInv ==
    ASSUME ModelInv, StatusTicks
    PROVE  ModelInv'
  <1>0. proc \in Running /\ proc.up /\ UNCHANGED moment
    BY ProcessFields DEF StatusTicks, ModelInv
  <1>1. /\ proc' \in Running /\ proc'.sig = proc.sig
        /\ proc'.queue = proc.queue /\ proc'.learned = proc.learned
    <2>1. (proc.ticks + 1) % SaveEvery \in Nat
      BY <1>0, RunningFields, ModelStateAssumption
    <2>2. proc' = [proc EXCEPT !.ticks = (proc.ticks + 1) % SaveEvery]
      BY DEF StatusTicks
    <2> QED BY <1>0, <2>1, <2>2 DEF Running
  <1>2. CASE _save_state
    BY <1>0, <1>1, <1>2, SaveInv DEF ModelInv, Processes
  <1>3. CASE UNCHANGED <<saved, durable>>
    BY <1>0, <1>1, <1>3 DEF ModelInv, Processes
  <1> QED BY <1>2, <1>3 DEF StatusTicks

LEMMA EndsInv ==
    ASSUME ModelInv, Exits \/ Killed
    PROVE  ModelInv'
  <1>1. Down \in Processes /\ ~Down.up
    BY DEF Processes, Down
  <1>2. CASE Exits
    <2>1. proc.up /\ proc' = Down /\ moment' = moment /\ _save_state
      BY <1>2 DEF Exits
    <2> QED
      BY <1>1, <2>1, SaveInv DEF ModelInv
  <1>3. CASE Killed
    BY <1>1, <1>3 DEF Killed, KilledInSave, ModelInv
  <1> QED BY <1>2, <1>3

\* Wherever a process was killed, the next one has learned all that the last
\* save of its configuration held, every label once and in turn, and of the
\* queue it restored none that was due at a quote waits on: for any horizon,
\* any number of labels, signatures and starts, and any silence between two
\* quotes (pipeline.py:128, labels.py:62).
THEOREM LearningSurvives == ModelSpec => []LearningKept
  <1>1. ModelInv /\ [ModelNext]_modelVars => ModelInv'
    <2> SUFFICES ASSUME ModelInv, [ModelNext]_modelVars PROVE ModelInv'
      OBVIOUS
    <2>1. CASE UNCHANGED modelVars
      BY <2>1 DEF modelVars, ModelInv
    <2> QED BY <2>1, StartsInv, QuotesInv, StatusTicksInv, EndsInv DEF ModelNext
  <1>2. ModelInv => LearningKept
    BY DEF ModelInv, LearningKept, PipeSound
  <1> QED BY ModelInitInv, <1>1, <1>2, PTL DEF ModelSpec
-----------------------------------------------------------------------------
(* The watcher of the equities session: one that waits for room in its
   queue has been reported. *)

States == {"none", "closed", "down", "stalled", "open"}
CountSet == [events : Nat, rows : Nat, q_hwm : Nat]

WatchTypeOK ==
    /\ session \in [up : BOOLEAN, no : Nat, since : Nat, counts : CountSet]
    /\ report \in CountSet
    /\ seen \in [state : States, counts : CountSet]
    /\ alarmed \in BOOLEAN /\ looked \in BOOLEAN /\ carried \in BOOLEAN

\* The status warns already, or the queue is as far below the warning level
\* as the events since the last status leave it.
StatusKeepsUp ==
    session.up =>
        \/ report.q_hwm >= QueueWarn
        \/ session.since < StatusEvery /\ Backlog < QueueWarn + session.since

\* What the watcher holds of a backlog it reported in this session, or it is
\* the backlog of an earlier one.
SeenIsReported == session.up /\ ~carried /\ seen.counts.q_hwm >= QueueWarn => alarmed

WatchInv == WatchTypeOK /\ StatusKeepsUp /\ SeenIsReported /\ BlockedReported

\* The parts of the session, and what a full queue means for the status.
LEMMA Parts ==
    ASSUME WatchTypeOK
    PROVE  /\ session.up \in BOOLEAN /\ session.no \in Nat /\ session.since \in Nat
           /\ Counts \in CountSet
           /\ Counts.events \in Nat /\ Counts.rows \in Nat /\ Counts.q_hwm \in Nat
           /\ Backlog \in Int
           /\ report.q_hwm \in Nat /\ seen.counts \in CountSet /\ seen.counts.q_hwm \in Nat
  BY DEF WatchTypeOK, CountSet, Counts, Backlog

LEMMA FullIsWarned ==
    ASSUME WatchTypeOK, StatusKeepsUp, session.up, Backlog >= QueueCap
    PROVE  report.q_hwm >= QueueWarn
  BY Parts, StocksAlertsAssumption DEF StatusKeepsUp

LEMMA WatchInitInv == WatchInit => WatchInv
  <1> SUFFICES ASSUME WatchInit PROVE WatchInv
    OBVIOUS
  <1>1. Nothing \in CountSet
    BY DEF Nothing, CountSet
  <1>2. session.up = FALSE /\ looked = FALSE /\ carried = FALSE
    BY DEF WatchInit
  <1>3. WatchTypeOK
    <2>1. session \in [up : BOOLEAN, no : Nat, since : Nat, counts : CountSet]
      BY <1>1 DEF WatchInit
    <2>2. seen \in [state : States, counts : CountSet]
      BY <1>1 DEF WatchInit, States
    <2> QED BY <1>1, <2>1, <2>2 DEF WatchInit, WatchTypeOK
  <1> QED BY <1>2, <1>3 DEF WatchInv, StatusKeepsUp, SeenIsReported, BlockedReported, Blocked

LEMMA SessionStartsInv ==
    ASSUME WatchInv, SessionStarts
    PROVE  WatchInv'
  <1> DEFINE next == [up |-> TRUE, no |-> session.no + 1, since |-> 0, counts |-> Nothing]
  <1>1. session' = next /\ report' = report /\ seen' = seen /\ looked' = FALSE /\ alarmed' = FALSE
        /\ carried' = (seen.counts.q_hwm >= QueueWarn)
    BY DEF SessionStarts
  <1>2. next \in [up : BOOLEAN, no : Nat, since : Nat, counts : CountSet]
    BY Parts DEF WatchInv, Nothing, CountSet
  <1> HIDE DEF next
  <1>3. WatchTypeOK'
    <2>1. carried' \in BOOLEAN
      BY <1>1
    <2> QED BY <1>1, <1>2, <2>1 DEF WatchInv, WatchTypeOK
  <1>4. next.since = 0 /\ next.counts.events - next.counts.rows = 0
    BY DEF next, Nothing
  <1>5. StatusKeepsUp'
    BY <1>1, <1>4, StocksAlertsAssumption DEF StatusKeepsUp, Backlog, Counts
  <1>6. SeenIsReported' /\ BlockedReported'
    BY <1>1 DEF SeenIsReported, BlockedReported
  <1> QED BY <1>3, <1>5, <1>6 DEF WatchInv

LEMMA SessionEventInv ==
    ASSUME WatchInv, NEW writes \in BOOLEAN, SessionEvent(writes)
    PROVE  WatchInv'
  <1> DEFINE evs == Counts.events + 1
             waits == evs - Counts.rows > QueueCap
             hwm == IF waits THEN Counts.q_hwm ELSE Larger(Counts.q_hwm, evs - Counts.rows)
             counts == [Counts EXCEPT !.events = evs, !.q_hwm = hwm]
             since == IF writes THEN 0 ELSE session.since + 1
  <1>0. WatchTypeOK
    BY DEF WatchInv
  <1>1. /\ session.up /\ (waits => ~writes)
        /\ ~waits /\ session.since + 1 >= StatusEvery => writes
        /\ session' = [session EXCEPT !.counts = counts, !.since = since]
        /\ report' = IF writes THEN counts ELSE report
        /\ looked' = FALSE /\ seen' = seen /\ alarmed' = alarmed /\ carried' = carried
    BY DEF SessionEvent
  <1>2. hwm \in Nat /\ evs \in Nat /\ (~waits => hwm >= evs - Counts.rows)
    BY <1>0, Parts, StocksAlertsAssumption DEF Larger
  <1>3. /\ counts \in CountSet /\ counts.q_hwm = hwm
        /\ counts.events - counts.rows = Backlog + 1 /\ evs - Counts.rows = Backlog + 1
    <2>1. evs - Counts.rows = Backlog + 1
      BY <1>0, Parts DEF Backlog
    <2>2. counts = [Counts EXCEPT !.events = evs, !.q_hwm = hwm] /\ Counts \in CountSet
      BY <1>0, Parts
    <2> HIDE DEF evs, hwm, counts
    <2>3. counts \in CountSet /\ counts.events = evs /\ counts.rows = Counts.rows /\ counts.q_hwm = hwm
      BY <1>2, <2>2 DEF CountSet
    <2> QED BY <2>1, <2>3
  <1>4. since \in Nat
    BY <1>0, Parts
  <1> HIDE DEF counts, since
  <1>5. /\ session' \in [up : BOOLEAN, no : Nat, since : Nat, counts : CountSet]
        /\ session'.up = session.up /\ session'.since = since /\ session'.counts = counts
    BY <1>0, <1>1, <1>3, <1>4 DEF WatchTypeOK
  <1>6. WatchTypeOK'
    BY <1>0, <1>1, <1>3, <1>5 DEF WatchTypeOK
  <1>7. StatusKeepsUp'
    <2>1. Backlog' = Backlog + 1 /\ session'.since = since
      BY <1>3, <1>5 DEF Backlog, Counts
    <2>2. CASE writes
      <3>1. report' = counts /\ since = 0 /\ ~waits
        BY <1>1, <2>2 DEF since
      <3>2. report'.q_hwm \in Nat /\ report'.q_hwm >= Backlog + 1
        BY <1>2, <1>3, <3>1
      <3> QED BY <2>1, <3>1, <3>2, <1>0, Parts, StocksAlertsAssumption DEF StatusKeepsUp
    <2>3. CASE ~writes
      <3>1. report' = report /\ since = session.since + 1
        BY <1>1, <2>3 DEF since
      <3>2. CASE report.q_hwm >= QueueWarn
        BY <3>1, <3>2 DEF StatusKeepsUp
      <3>3. CASE session.since < StatusEvery /\ Backlog < QueueWarn + session.since
        <4>1. ~waits
          BY <1>0, <1>3, <3>3, Parts, StocksAlertsAssumption
        <4>2. session.since + 1 < StatusEvery
          BY <1>0, <1>1, <2>3, <4>1, Parts, StocksAlertsAssumption
        <4> QED BY <1>0, <2>1, <3>1, <3>3, <4>2, Parts, StocksAlertsAssumption DEF StatusKeepsUp
      <3> QED BY <1>1, <3>2, <3>3 DEF WatchInv, StatusKeepsUp
    <2> QED BY <2>2, <2>3
  <1>8. SeenIsReported' /\ BlockedReported'
    BY <1>1, <1>5 DEF WatchInv, SeenIsReported, BlockedReported
  <1> QED BY <1>6, <1>7, <1>8 DEF WatchInv

LEMMA WriterWritesInv ==
    ASSUME WatchInv, WriterWrites
    PROVE  WatchInv'
  <1> DEFINE hwm == IF Blocked THEN QueueCap ELSE Counts.q_hwm
             counts == [Counts EXCEPT !.rows = Counts.rows + 1, !.q_hwm = hwm]
  <1>0. WatchTypeOK
    BY DEF WatchInv
  <1>1. /\ session' = [session EXCEPT !.counts.rows = @ + 1, !.counts.q_hwm = IF Blocked THEN QueueCap ELSE @]
        /\ looked' = FALSE /\ report' = report /\ seen' = seen /\ alarmed' = alarmed /\ carried' = carried
    BY DEF WriterWrites
  <1>2. hwm \in Nat /\ counts \in CountSet /\ counts.events = Counts.events /\ counts.rows = Counts.rows + 1
    <2>1. hwm \in Nat /\ Counts.rows + 1 \in Nat
      BY <1>0, Parts, StocksAlertsAssumption
    <2>2. counts = [Counts EXCEPT !.rows = Counts.rows + 1, !.q_hwm = hwm] /\ Counts \in CountSet
      BY <1>0, Parts
    <2> HIDE DEF hwm, counts
    <2> QED BY <2>1, <2>2 DEF CountSet
  <1>3. session' = [session EXCEPT !.counts = counts]
    BY <1>0, <1>1 DEF WatchTypeOK, CountSet, Counts
  <1> HIDE DEF counts
  <1>4. /\ session' \in [up : BOOLEAN, no : Nat, since : Nat, counts : CountSet]
        /\ session'.up = session.up /\ session'.since = session.since /\ session'.counts = counts
    BY <1>0, <1>2, <1>3 DEF WatchTypeOK
  <1>5. WatchTypeOK'
    BY <1>0, <1>1, <1>4 DEF WatchTypeOK
  <1>6. Backlog' = Backlog - 1
    BY <1>0, <1>2, <1>4, Parts DEF Backlog, Counts
  <1>7. StatusKeepsUp'
    BY <1>0, <1>1, <1>4, <1>6, Parts, StocksAlertsAssumption DEF WatchInv, StatusKeepsUp
  <1>8. SeenIsReported' /\ BlockedReported'
    BY <1>1, <1>4 DEF WatchInv, SeenIsReported, BlockedReported
  <1> QED BY <1>5, <1>7, <1>8 DEF WatchInv

LEMMA SessionStopsInv ==
    ASSUME WatchInv, SessionEnds \/ SessionDies
    PROVE  WatchInv'
  <1>0. WatchTypeOK
    BY DEF WatchInv
  <1>1. /\ session' = [session EXCEPT !.up = FALSE]
        /\ seen' = seen /\ alarmed' = alarmed /\ carried' = carried /\ looked' = FALSE
    BY DEF SessionEnds, SessionDies
  <1>2. session' \in [up : BOOLEAN, no : Nat, since : Nat, counts : CountSet] /\ session'.up = FALSE
    BY <1>0, <1>1 DEF WatchTypeOK
  <1>3. report' \in CountSet
    <2>1. CASE SessionEnds
      <3>1. PICK rows \in {Counts.rows, Counts.events} : report' = [Counts EXCEPT !.rows = rows]
        BY <2>1 DEF SessionEnds
      <3> QED BY <1>0, <3>1, Parts DEF CountSet
    <2>2. CASE SessionDies
      BY <1>0, <2>2 DEF SessionDies, WatchTypeOK
    <2> QED BY <2>1, <2>2
  <1> QED BY <1>0, <1>1, <1>2, <1>3 DEF WatchInv, WatchTypeOK, StatusKeepsUp, SeenIsReported, BlockedReported

\* The look: what it stores it has compared, and a backlog not yet stored it
\* reports.
LEMMA WatcherLooksInv ==
    ASSUME WatchInv, WatcherLooks
    PROVE  WatchInv'
  <1>0. WatchTypeOK
    BY DEF WatchInv
  <1>1. /\ seen' = [state |-> State, counts |-> report] /\ session' = session /\ report' = report
        /\ alarmed' = (alarmed \/ Stalls \/ BacklogWarned)
        /\ looked' = Blocked /\ carried' = (carried /\ report.q_hwm >= QueueWarn)
    BY DEF WatcherLooks
  <1>2. WatchTypeOK'
    <2>1. alarmed' \in BOOLEAN
      BY <1>1
    <2>2. carried' \in BOOLEAN
      BY <1>1
    <2>3. looked' \in BOOLEAN
      BY <1>0, <1>1, Parts DEF Blocked
    <2>4. State \in States
      BY DEF State, States
    <2>5. seen' \in [state : States, counts : CountSet]
      BY <1>0, <1>1, <2>4 DEF WatchTypeOK
    <2> QED BY <1>0, <1>1, <2>1, <2>2, <2>3, <2>5 DEF WatchTypeOK
  <1>3. StatusKeepsUp'
    BY <1>1 DEF WatchInv, StatusKeepsUp, Backlog, Counts
  <1>4. SeenIsReported'
    <2> SUFFICES ASSUME session.up, ~carried', report.q_hwm >= QueueWarn PROVE alarmed'
      BY <1>1 DEF SeenIsReported
    <2>1. ~carried
      BY <1>1
    <2>2. CASE seen.counts.q_hwm >= QueueWarn
      BY <1>1, <2>1, <2>2 DEF WatchInv, SeenIsReported
    <2>3. CASE ~(seen.counts.q_hwm >= QueueWarn)
      <3>1. BacklogWarned
        BY <1>0, <2>3, Parts, StocksAlertsAssumption DEF BacklogWarned
      <3> QED BY <1>1, <3>1
    <2> QED BY <2>2, <2>3
  <1>5. BlockedReported'
    <2> SUFFICES ASSUME Blocked, ~carried' PROVE alarmed'
      BY <1>1 DEF BlockedReported, Blocked, Backlog, Counts
    <2>1. session.up /\ report.q_hwm >= QueueWarn
      BY <1>0, FullIsWarned, Parts, StocksAlertsAssumption DEF WatchInv, Blocked
    <2> QED BY <1>1, <1>4, <2>1 DEF SeenIsReported
  <1> QED BY <1>2, <1>3, <1>4, <1>5 DEF WatchInv

\* "If it ever does [block], the stocks_alerts queue/stall alarms fire"
\* (stocks_live.py:205): once the watcher has looked at a session that waits
\* for room in its queue, it has reported a backlog or a stall of it.
THEOREM BlockedIsReported == WatchSpec => []BlockedReported
  <1>1. WatchInv /\ [WatchNext]_watchVars => WatchInv'
    <2> SUFFICES ASSUME WatchInv, [WatchNext]_watchVars PROVE WatchInv'
      OBVIOUS
    <2>1. CASE UNCHANGED <<session, report, seen, alarmed, looked, carried>>
      BY <2>1 DEF WatchInv, WatchTypeOK, StatusKeepsUp, SeenIsReported, BlockedReported, Blocked,
         Backlog, Counts
    <2>2. CASE WriterSticks \/ MarketTurns \/ UNCHANGED watchVars
      BY <2>1, <2>2 DEF WriterSticks, MarketTurns, watchVars
    <2> QED BY <2>2, SessionStartsInv, SessionEventInv, WriterWritesInv, SessionStopsInv, WatcherLooksInv
         DEF WatchNext
  <1>2. WatchInv => BlockedReported
    BY DEF WatchInv
  <1> QED BY WatchInitInv, <1>1, <1>2, PTL DEF WatchSpec
-----------------------------------------------------------------------------
(* The alerts of the crypto pipeline: what they report is what the job saw.
   A status is never older than the one before it, which is what the job
   relies on when it compares the counters of two looks. *)

Statuses == [orders : 0..MaxOrders, start : 1..MaxProcs]
Looks == [fresh : {"offline", "live"}, orders : 0..MaxOrders, start : 0..MaxProcs]

AlertTypeOK ==
    /\ pipe \in [up : BOOLEAN, start : 1..MaxProcs, orders : 0..MaxOrders]
    /\ status \in {None} \cup Statuses
    /\ prev \in {None} \cup Looks
    /\ told \in [Orders -> 0..2]
    /\ excuses \subseteq {"blank", "restart", "daily"}

\* The counter of a process, and then that of the next.
NoLater(s, n, t, m) == s < t \/ (s = t /\ n <= m)

\* What the job saw last is no later than the status, and that no later than
\* the pipeline; a look that found none has no orders.
LooksInOrder ==
    /\ status # None => NoLater(status.start, status.orders, pipe.start, pipe.orders)
    /\ prev # None /\ prev.start > 0 =>
         /\ NoLater(prev.start, prev.orders, pipe.start, pipe.orders)
         /\ status # None => NoLater(prev.start, prev.orders, status.start, status.orders)
    /\ prev # None /\ prev.start = 0 => prev.orders = 0 /\ "blank" \in excuses

\* Without a look that found no status, nothing was told that is newer than
\* the last look.
ToldWasSeen ==
    "blank" \notin excuses =>
        \A o \in Orders : told[o] > 0 => prev # None /\ NoLater(o[1], o[2], prev.start, prev.orders)

SaidOfALook == said # "nothing" => prev # None

AlertInv == AlertTypeOK /\ LooksInOrder /\ ToldWasSeen /\ SaidOfALook /\ AlertsTruthful

LEMMA NoneIsNone ==
    /\ None \notin Statuses /\ None \notin Looks
    /\ MaxOrders \in Nat /\ MaxProcs \in Nat \ {0}
  BY CryptoAlertsAssumption DEF None, Statuses, Looks

LEMMA AlertInitInv == AlertInit => AlertInv
  <1> SUFFICES ASSUME AlertInit PROVE AlertInv
    OBVIOUS
  <1>1. AlertTypeOK
    BY NoneIsNone DEF AlertInit, AlertTypeOK
  <1>2. \A o \in Orders : told[o] = 0
    BY DEF AlertInit
  <1> QED
    BY <1>1, <1>2 DEF AlertInit, AlertInv, LooksInOrder, ToldWasSeen, SaidOfALook, AlertsTruthful

\* The pipeline and its status move on, the job does not look.
LEMMA PipelineInv ==
    ASSUME AlertInv,
           \/ PipelineOrders \/ StatusWritten \/ PipelineStops \/ PipelineRestarts
           \/ StatusAges \/ StatusLost
    PROVE  AlertInv'
  <1>1. UNCHANGED <<prev, told, said, excuses>>
    BY DEF PipelineOrders, StatusWritten, PipelineStops, PipelineRestarts, StatusAges, StatusLost
  <1>2. ToldWasSeen' /\ SaidOfALook' /\ AlertsTruthful'
    BY <1>1 DEF AlertInv, ToldWasSeen, SaidOfALook, AlertsTruthful
  <1>3. pipe.start \in 1..MaxProcs /\ pipe.orders \in 0..MaxOrders
    BY DEF AlertInv, AlertTypeOK
  <1>4. status # None => status.start \in 1..MaxProcs /\ status.orders \in 0..MaxOrders
    BY DEF AlertInv, AlertTypeOK, Statuses
  <1>5. prev # None => prev.start \in 0..MaxProcs /\ prev.orders \in 0..MaxOrders
    BY DEF AlertInv, AlertTypeOK, Looks
  <1>6. AlertTypeOK' /\ LooksInOrder'
    <2>1. CASE PipelineOrders
      <3>1. /\ pipe' \in [up : BOOLEAN, start : 1..MaxProcs, orders : 0..MaxOrders]
            /\ pipe'.start = pipe.start /\ pipe'.orders = pipe.orders + 1 /\ UNCHANGED status
        BY <2>1, <1>3, NoneIsNone DEF PipelineOrders, AlertInv, AlertTypeOK
      <3> QED
        BY <1>1, <1>3, <1>4, <1>5, <3>1, NoneIsNone DEF AlertInv, AlertTypeOK, LooksInOrder, NoLater
    <2>2. CASE StatusWritten
      <3>1. /\ status' \in Statuses /\ status'.start = pipe.start /\ status'.orders = pipe.orders
            /\ UNCHANGED pipe
        BY <2>2, <1>3 DEF StatusWritten, Statuses
      <3> QED
        BY <1>1, <1>3, <1>4, <1>5, <3>1, NoneIsNone DEF AlertInv, AlertTypeOK, LooksInOrder, NoLater
    <2>3. CASE PipelineStops \/ StatusAges
      <3>1. /\ pipe' \in [up : BOOLEAN, start : 1..MaxProcs, orders : 0..MaxOrders]
            /\ pipe'.start = pipe.start /\ pipe'.orders = pipe.orders /\ UNCHANGED status
        BY <2>3, <1>3 DEF PipelineStops, StatusAges, AlertInv, AlertTypeOK
      <3> QED
        BY <1>1, <1>3, <1>4, <1>5, <3>1, NoneIsNone DEF AlertInv, AlertTypeOK, LooksInOrder, NoLater
    <2>4. CASE PipelineRestarts
      <3>1. /\ pipe' \in [up : BOOLEAN, start : 1..MaxProcs, orders : 0..MaxOrders]
            /\ pipe'.start = pipe.start + 1 /\ UNCHANGED status
        BY <2>4, <1>3, NoneIsNone DEF PipelineRestarts, AlertInv, AlertTypeOK
      <3> QED
        BY <1>1, <1>3, <1>4, <1>5, <3>1, NoneIsNone DEF AlertInv, AlertTypeOK, LooksInOrder, NoLater
    <2>5. CASE StatusLost
      BY <1>1, <2>5 DEF StatusLost, AlertInv, AlertTypeOK, LooksInOrder
    <2> QED
      BY <2>1, <2>2, <2>3, <2>4, <2>5
  <1> QED
    BY <1>2, <1>6 DEF AlertInv

\* What a look finds, and how it compares with the last one.
LEMMA Condensed ==
    ASSUME AlertInv
    PROVE  /\ condense \in Looks /\ condense # None
           /\ condense.fresh \in {"offline", "live"}
           /\ condense.orders \in 0..MaxOrders /\ condense.start \in 0..MaxProcs
           /\ status = None => condense.start = 0 /\ condense.orders = 0 /\ "blank" \in Disturbed
           /\ status # None =>
                /\ condense.start = status.start /\ condense.orders = status.orders
                /\ status.start \in 1..MaxProcs /\ status.orders \in 0..MaxOrders
           /\ Disturbed \subseteq {"blank", "restart"}
           /\ "blank" \in Disturbed => status = None
           /\ prev # None /\ prev.start # condense.start => "restart" \in Disturbed
           /\ prev # None =>
                /\ prev.fresh \in {"offline", "live"}
                /\ prev.start \in 0..MaxProcs /\ prev.orders \in 0..MaxOrders
  <1>1. status # None => status.start \in 1..MaxProcs /\ status.orders \in 0..MaxOrders
    BY DEF AlertInv, AlertTypeOK, Statuses
  <1>2. /\ condense \in Looks
        /\ status = None => condense.start = 0 /\ condense.orders = 0
        /\ status # None => condense.start = status.start /\ condense.orders = status.orders
    BY <1>1, NoneIsNone DEF condense, Looks
  <1>3. \A l \in Looks : /\ l.fresh \in {"offline", "live"}
                         /\ l.orders \in 0..MaxOrders /\ l.start \in 0..MaxProcs
    BY DEF Looks
  <1>4. prev # None => prev \in Looks
    BY DEF AlertInv, AlertTypeOK
  <1>5. /\ Disturbed \subseteq {"blank", "restart"} /\ ("blank" \in Disturbed <=> status = None)
        /\ prev # None /\ prev.start # condense.start => "restart" \in Disturbed
    BY Zenon DEF Disturbed
  <1> QED
    BY <1>1, <1>2, <1>3, <1>4, <1>5, NoneIsNone

\* Both looks store what they found.
LEMMA LookStores ==
    ASSUME AlertInv, prev' = condense, excuses \cup Disturbed \subseteq excuses', UNCHANGED <<pipe, status, aged>>
    PROVE  LooksInOrder'
  <1>1. /\ prev' # None /\ prev'.start = condense.start /\ prev'.orders = condense.orders
        /\ UNCHANGED <<pipe, status>>
        /\ status = None => "blank" \in excuses'
    BY Condensed
  <1>2. pipe.start \in 1..MaxProcs /\ pipe.orders \in 0..MaxOrders
    BY DEF AlertInv, AlertTypeOK
  <1> QED
    BY <1>1, <1>2, Condensed, NoneIsNone DEF AlertInv, LooksInOrder, NoLater

LEMMA LookInv ==
    ASSUME AlertInv, Look
    PROVE  AlertInv'
  <1>1. /\ prev' = condense /\ excuses' = excuses \cup Disturbed /\ UNCHANGED <<pipe, status, aged>>
        /\ told' = IF NewOrders THEN [told EXCEPT ![<<condense.start, condense.orders>>] = Twice(@)] ELSE told
        /\ said' = IF Turns("offline") THEN "offline" ELSE IF Turns("live") THEN "live" ELSE said
    BY DEF Look
  <1>2. LooksInOrder'
    BY <1>1, LookStores
  <1> DEFINE sale == <<condense.start, condense.orders>>
  <1>3. NewOrders => /\ status # None /\ condense.orders > OrdersBefore /\ OrdersBefore \in Nat
                     /\ sale \in Orders /\ condense.orders > 0
    BY Condensed, NoneIsNone DEF NewOrders, OrdersBefore, Orders
  <1>4. \A o \in Orders : told[o] \in 0..2
    BY DEF AlertInv, AlertTypeOK
  <1>5. NewOrders => /\ told' \in [Orders -> 0..2] /\ told'[sale] = Twice(told[sale])
                     /\ \A o \in Orders : o # sale => told'[o] = told[o]
    <2>1. \A o \in Orders : Twice(told[o]) \in 0..2
      BY <1>4 DEF Twice
    <2>2. told \in [Orders -> 0..2]
      BY DEF AlertInv, AlertTypeOK
    <2> HIDE DEF sale
    <2>3. NewOrders => told' = [told EXCEPT ![sale] = Twice(told[sale])]
      BY <1>1 DEF sale
    <2> QED
      BY <1>3, <2>1, <2>2, <2>3
  <1>6. \A n \in 0..2 : Twice(n) > 0 /\ (Twice(n) > 1 => n > 0)
    BY DEF Twice
  <1>7. AlertTypeOK'
    BY <1>1, <1>5, Condensed DEF AlertInv, AlertTypeOK
  <1>8. prev # None /\ "blank" \notin excuses => prev.start > 0
    BY Condensed DEF AlertInv, LooksInOrder
  <1>9. /\ prev'.start = condense.start /\ prev'.orders = condense.orders
        /\ prev'.fresh = condense.fresh /\ prev' # None
    BY <1>1, Condensed
  \* What was told before is no later than the look.
  <1>10. ASSUME "blank" \notin excuses', NEW o \in Orders, told[o] > 0
         PROVE  /\ status # None /\ prev # None
                /\ NoLater(o[1], o[2], condense.start, condense.orders)
                /\ NoLater(o[1], o[2], prev.start, prev.orders)
                /\ NoLater(prev.start, prev.orders, condense.start, condense.orders)
    <2>1. "blank" \notin excuses /\ status # None
      BY <1>1, <1>10, Condensed
    <2>2. prev # None /\ NoLater(o[1], o[2], prev.start, prev.orders)
      BY <1>10, <2>1 DEF AlertInv, ToldWasSeen
    <2>3. NoLater(prev.start, prev.orders, condense.start, condense.orders)
      BY <1>8, <2>1, <2>2, Condensed DEF AlertInv, LooksInOrder
    <2>4. o[1] \in Nat /\ o[2] \in Nat
      BY NoneIsNone DEF Orders
    <2> QED
      BY <2>1, <2>2, <2>3, <2>4, Condensed, NoneIsNone DEF NoLater
  <1>11. ToldWasSeen'
    <2> SUFFICES ASSUME "blank" \notin excuses', NEW o \in Orders, told'[o] > 0
                 PROVE  NoLater(o[1], o[2], condense.start, condense.orders)
      BY <1>9 DEF ToldWasSeen
    <2>1. CASE NewOrders /\ o = sale
      BY <2>1, Condensed, NoneIsNone DEF NoLater
    <2>2. CASE ~(NewOrders /\ o = sale)
      <3>1. told'[o] = told[o]
        BY <1>1, <1>5, <2>2
      <3> QED
        BY <1>10, <3>1
    <2> QED
      BY <2>1, <2>2
  <1>12. ASSUME NEW o \in Orders, told'[o] > 1
         PROVE  "blank" \in excuses'
    <2> SUFFICES ASSUME "blank" \notin excuses' PROVE FALSE
      OBVIOUS
    <2>1. ~(told[o] > 1)
      BY <1>1 DEF AlertInv, AlertsTruthful
    <2>2. NewOrders /\ o = sale
      BY <1>1, <1>5, <1>12, <2>1
    <2>3. told[o] > 0
      BY <1>4, <1>5, <1>6, <1>12, <2>2
    <2>4. /\ NoLater(condense.start, condense.orders, prev.start, prev.orders)
          /\ NoLater(prev.start, prev.orders, condense.start, condense.orders)
          /\ prev # None
      BY <1>10, <2>2, <2>3
    <2>5. condense.orders > prev.orders
      BY <1>3, <2>2, <2>4 DEF OrdersBefore
    <2> QED
      BY <2>4, <2>5, Condensed, NoneIsNone DEF NoLater
  <1>13. ASSUME condense.orders > 0, excuses' \subseteq {"blank"}
         PROVE  told'[sale] > 0
    <2>1. CASE NewOrders
      BY <1>3, <1>4, <1>5, <1>6, <2>1
    <2>2. CASE ~NewOrders
      <3>1. prev # None /\ condense.orders <= prev.orders
        BY <1>13, <2>2, Condensed, NoneIsNone DEF NewOrders, OrdersBefore
      <3>2. prev.start = condense.start /\ status # None
        BY <1>1, <1>13, <3>1, Condensed, NoneIsNone
      <3>3. prev.orders <= condense.orders
        BY <3>1, <3>2, Condensed, NoneIsNone DEF AlertInv, LooksInOrder, NoLater
      <3>4. prev.orders = condense.orders
        BY <3>1, <3>3, Condensed, NoneIsNone
      <3>5. excuses \subseteq {"blank"}
        BY <1>1, <1>13
      <3> QED
        BY <1>1, <1>13, <2>2, <3>1, <3>2, <3>4, <3>5 DEF AlertInv, AlertsTruthful
    <2> QED
      BY <2>1, <2>2
  <1>14. said' # "nothing" /\ "daily" \notin excuses' => said' = condense.fresh
    BY <1>1, Condensed DEF Turns, AlertInv, SaidOfALook, AlertsTruthful
  <1>15. SaidOfALook'
    BY <1>9 DEF SaidOfALook
  <1> QED
    BY <1>2, <1>7, <1>9, <1>11, <1>12, <1>13, <1>14, <1>15 DEF AlertInv, AlertsTruthful

LEMMA LookDailyInv ==
    ASSUME AlertInv, LookDaily
    PROVE  AlertInv'
  <1>1. /\ prev' = condense /\ excuses' = excuses \cup Disturbed \cup {"daily"}
        /\ UNCHANGED <<pipe, status, aged, told, said>>
    BY DEF LookDaily
  <1>2. LooksInOrder'
    BY <1>1, LookStores
  <1>3. AlertTypeOK' /\ SaidOfALook' /\ prev' # None
    BY <1>1, Condensed DEF AlertInv, AlertTypeOK, SaidOfALook
  <1>4. ToldWasSeen'
    <2> SUFFICES ASSUME "blank" \notin excuses', NEW o \in Orders, told[o] > 0
                 PROVE  NoLater(o[1], o[2], condense.start, condense.orders)
      BY <1>1, <1>3 DEF ToldWasSeen
    <2>1. "blank" \notin excuses /\ status # None
      BY <1>1, Condensed
    <2>2. prev # None /\ NoLater(o[1], o[2], prev.start, prev.orders)
      BY <2>1 DEF AlertInv, ToldWasSeen
    <2>3. NoLater(prev.start, prev.orders, condense.start, condense.orders)
      BY <2>1, <2>2, Condensed, NoneIsNone DEF AlertInv, LooksInOrder
    <2>4. o[1] \in Nat /\ o[2] \in Nat
      BY NoneIsNone DEF Orders
    <2> QED
      BY <2>1, <2>2, <2>3, <2>4, Condensed, NoneIsNone DEF NoLater
  <1>5. AlertsTruthful'
    BY <1>1 DEF AlertInv, AlertsTruthful
  <1> QED
    BY <1>2, <1>3, <1>4, <1>5 DEF AlertInv

\* Every order is told of once at most, the newest one seen was told, and the
\* last word said is what was seen last, but for the excuses the property
\* names: for any number of processes and orders (alerts.py:11).
THEOREM AlertsAreTruthful == AlertSpec => []AlertsTruthful
  <1>1. AlertInv /\ [AlertNext]_alertVars => AlertInv'
    <2> SUFFICES ASSUME AlertInv, [AlertNext]_alertVars PROVE AlertInv'
      OBVIOUS
    <2>1. CASE UNCHANGED alertVars
      BY <2>1 DEF alertVars, AlertInv, AlertTypeOK, LooksInOrder, ToldWasSeen, SaidOfALook, AlertsTruthful
    <2> QED
      BY <2>1, PipelineInv, LookInv, LookDailyInv DEF AlertNext
  <1>2. AlertInv => AlertsTruthful
    BY DEF AlertInv
  <1> QED
    BY AlertInitInv, <1>1, <1>2, PTL DEF AlertSpec
-----------------------------------------------------------------------------
(* The tape: no recorded session is lost.  A database is deleted only when
   the archive job found every copy of it whole, so the invariant says what
   the job's flag stands for in the midst of a session. *)

DbStates == {"none", "open", "closed", "purged", "archived"}
CopyStates == {"none", "torn", "short", "whole"}
Archiving == [stage : {"open", "table", "copy"}, dry : BOOLEAN, ok : BOOLEAN,
              tables : Seq(Range(TABLES)), days : SUBSET Days]

TapeTypeOK ==
    /\ today \in Days /\ db \in [Days -> DbStates]
    /\ copies \in [Days -> [Filled -> CopyStates]]
    /\ archive \in {Idle} \cup Archiving

\* The days in hand are not archived yet; as long as the job's flag is up,
\* the tables it is done with are whole.
ArchiveKnows ==
    /\ archive.stage # "idle" => \A d \in archive.days : db[d] # "archived"
    /\ archive.stage \in {"table", "copy"} =>
         /\ archive.days # {}
         /\ archive.ok => \A t \in Filled : t \notin Range(archive.tables) => copies[Session][t] = "whole"
    /\ archive.stage = "copy" => archive.tables # <<>> /\ Table \in Filled

TapeInv == TapeTypeOK /\ ArchiveKnows /\ TapeKept

LEMMA LeastDay ==
    ASSUME NEW S \in SUBSET Days, S # {}
    PROVE  Min(S) \in S
  <1>1. S \in SUBSET Nat
    BY SessionsAssumption DEF Days
  <1>2. \E x \in S : \A y \in S : x <= y
    BY <1>1, LeastNatural
  <1> QED
    BY <1>2 DEF Min

LEMMA ArchivingFields ==
    ASSUME NEW a \in {Idle} \cup Archiving
    PROVE  /\ Idle.stage = "idle"
           /\ a.stage # "idle" => a \in Archiving
           /\ a \in Archiving =>
                /\ a.stage \in {"open", "table", "copy"} /\ a.dry \in BOOLEAN /\ a.ok \in BOOLEAN
                /\ a.tables \in Seq(Range(TABLES)) /\ a.days \in SUBSET Days
  BY DEF Idle, Archiving

LEMMA FiniteDays == IsFiniteSet(Days) /\ \A S \in SUBSET Days : IsFiniteSet(S) /\ Cardinality(S) \in Nat
  <1>1. IsFiniteSet(Days)
    BY SessionsAssumption, FS_Interval DEF Days
  <1> QED
    BY <1>1, FS_Subset, FS_CardinalityType

LEMMA TapeInitInv == SessionsInit => TapeInv
  <1> SUFFICES ASSUME SessionsInit PROVE TapeInv
    OBVIOUS
  <1>1. archive.stage = "idle"
    BY DEF SessionsInit, Idle
  <1>2. TapeTypeOK
    BY SessionsAssumption DEF SessionsInit, TapeTypeOK, Days, DbStates, CopyStates
  <1>3. \A d \in Days : db[d] = "none"
    BY DEF SessionsInit
  <1> QED
    BY <1>1, <1>2, <1>3 DEF TapeInv, ArchiveKnows, TapeKept

\* The steps that leave the tape alone.
LEMMA TapeAlone ==
    ASSUME TapeInv, today' \in Days, UNCHANGED <<db, copies>>, archive' \in {archive, Idle}
    PROVE  TapeInv'
  <1>1. TapeKept'
    BY DEF TapeInv, TapeKept, NewerSessions
  <1>2. TapeTypeOK'
    BY DEF TapeInv, TapeTypeOK
  <1>3. ArchiveKnows'
    <2>1. CASE archive' = archive
      BY <2>1 DEF TapeInv, ArchiveKnows, Session, Table
    <2>2. CASE archive' = Idle
      <3>1. archive'.stage = "idle"
        BY <2>2 DEF Idle
      <3> QED
        BY <3>1 DEF ArchiveKnows
    <2> QED
      BY <2>1, <2>2
  <1> QED
    BY <1>1, <1>2, <1>3 DEF TapeInv

\* The newer sessions of a day only become more.
LEMMA NewerGrow ==
    ASSUME TapeInv, db' \in [Days -> DbStates], \A d \in Days : db[d] # "none" => db'[d] # "none",
           NEW d \in Days
    PROVE  /\ NewerSessions(d)' \in SUBSET Days
           /\ Cardinality(NewerSessions(d)) <= Cardinality(NewerSessions(d)')
           /\ Cardinality(NewerSessions(d)) \in Nat /\ Cardinality(NewerSessions(d)') \in Nat
  <1>1. NewerSessions(d) \subseteq NewerSessions(d)' /\ NewerSessions(d)' \subseteq Days
    BY DEF NewerSessions
  <1> QED
    BY <1>1, FiniteDays, FS_Subset

\* A session begins: its database, and the purge of the oldest.
LEMMA CaptureStartTape ==
    ASSUME TapeInv, CaptureStart
    PROVE  TapeInv'
  <1>1. /\ db' = [d \in Days |-> IF d = today THEN "open" ELSE IF d \in Purged THEN "purged" ELSE db[d]]
        /\ db[today] \in {"none", "closed"} /\ UNCHANGED <<today, copies, archive>>
    BY DEF CaptureStart
  <1>2. \A d \in Purged : /\ d \in Days /\ db[d] \in {"open", "closed"}
                          /\ Cardinality({e \in Days : Exists(e) /\ e > d}) >= KeepSessions
    BY DEF Purged, Exists
  <1>3. db' \in [Days -> DbStates] /\ \A d \in Days : db[d] # "none" => db'[d] # "none"
    BY <1>1, <1>2 DEF TapeInv, TapeTypeOK, DbStates
  <1>4. TapeTypeOK'
    BY <1>1, <1>3 DEF TapeInv, TapeTypeOK
  <1>5. \A d \in Days : db'[d] = "archived" <=> db[d] = "archived"
    BY <1>1, <1>2
  <1>6. ArchiveKnows'
    <2>1. archive.stage # "idle" => archive.days \subseteq Days
      BY ArchivingFields DEF TapeInv, TapeTypeOK
    <2> QED
      BY <1>1, <1>5, <2>1 DEF TapeInv, ArchiveKnows, Session, Table
  <1>7. ASSUME NEW d \in Days, db'[d] = "purged"
        PROVE  Cardinality(NewerSessions(d)') >= KeepSessions
    <2>0. KeepSessions \in Nat
      BY SessionsAssumption
    <2>1. CASE d \in Purged
      <3> DEFINE Later == {e \in Days : Exists(e) /\ e > d}
      <3>1. Later \subseteq NewerSessions(d)
        BY DEF NewerSessions, Exists
      <3>2. NewerSessions(d) \in SUBSET Days
        BY DEF NewerSessions
      <3>3. Cardinality(Later) >= KeepSessions
        BY <1>2, <2>1
      <3> HIDE DEF Later
      <3>4. Cardinality(Later) <= Cardinality(NewerSessions(d)) /\ Cardinality(Later) \in Nat
        BY <3>1, <3>2, FiniteDays, FS_Subset
      <3> QED
        BY <1>3, <2>0, <3>3, <3>4, NewerGrow
    <2>2. CASE d \notin Purged
      <3>1. db[d] = "purged"
        BY <1>1, <1>7, <2>2
      <3>2. Cardinality(NewerSessions(d)) >= KeepSessions
        BY <3>1 DEF TapeInv, TapeKept
      <3> QED
        BY <1>3, <2>0, <3>2, NewerGrow
    <2> QED
      BY <2>1, <2>2
  <1>8. TapeKept'
    BY <1>1, <1>5, <1>7 DEF TapeInv, TapeKept
  <1> QED
    BY <1>4, <1>6, <1>8 DEF TapeInv

LEMMA CaptureEndTape ==
    ASSUME TapeInv, CaptureEnd
    PROVE  TapeInv'
  <1>1. /\ db[today] = "open" /\ db' = [db EXCEPT ![today] = "closed"]
        /\ UNCHANGED <<today, copies, archive>>
    BY DEF CaptureEnd
  <1>2. db' \in [Days -> DbStates] /\ \A d \in Days : db[d] # "none" => db'[d] # "none"
    BY <1>1 DEF TapeInv, TapeTypeOK, DbStates
  <1>3. \A d \in Days : (db'[d] = "archived" <=> db[d] = "archived") /\ (db'[d] = "purged" => db[d] = "purged")
    BY <1>1 DEF TapeInv, TapeTypeOK
  <1>4. TapeTypeOK'
    BY <1>1, <1>2 DEF TapeInv, TapeTypeOK
  <1>5. ArchiveKnows'
    <2>1. archive.stage # "idle" => archive.days \subseteq Days
      BY ArchivingFields DEF TapeInv, TapeTypeOK
    <2> QED
      BY <1>1, <1>3, <2>1 DEF TapeInv, ArchiveKnows, Session, Table
  <1>6. TapeKept'
    <2>1. ASSUME NEW d \in Days, db'[d] = "purged"
          PROVE  Cardinality(NewerSessions(d)') >= KeepSessions
      <3>1. Cardinality(NewerSessions(d)) >= KeepSessions
        BY <1>3, <2>1 DEF TapeInv, TapeKept
      <3> QED
        BY <1>2, <3>1, NewerGrow, SessionsAssumption
    <2> QED
      BY <1>1, <1>3, <2>1 DEF TapeInv, TapeKept
  <1> QED
    BY <1>4, <1>5, <1>6 DEF TapeInv

\* What the archive job holds in the midst of its work.
LEMMA InHand ==
    ASSUME TapeInv, archive.stage # "idle"
    PROVE  /\ archive \in Archiving
           /\ archive.dry \in BOOLEAN /\ archive.ok \in BOOLEAN
           /\ archive.tables \in Seq(Range(TABLES)) /\ archive.days \in SUBSET Days
           /\ archive.stage \in {"open", "table", "copy"}
           /\ archive.days # {} => Session \in archive.days /\ Session \in Days
  <1>1. archive \in {Idle} \cup Archiving
    BY DEF TapeInv, TapeTypeOK
  <1>2. archive.days # {} => Session \in archive.days
    BY <1>1, ArchivingFields, LeastDay DEF Session
  <1> QED
    BY <1>1, <1>2, ArchivingFields

LEMMA ArchiveStartsTape ==
    ASSUME TapeInv, NEW dry \in BOOLEAN, ArchiveStarts(dry)
    PROVE  TapeInv'
  <1> DEFINE days == {d \in Days : Exists(d) /\ Old(d)}
  <1>1. /\ archive' = [stage |-> "open", dry |-> dry, ok |-> TRUE, tables |-> <<>>, days |-> days]
        /\ UNCHANGED <<today, db, copies>>
    BY DEF ArchiveStarts
  <1>2. days \in SUBSET Days /\ \A d \in days : db[d] # "archived"
    BY DEF Exists
  <1> HIDE DEF days
  <1>3. archive' \in Archiving /\ archive'.stage = "open" /\ archive'.days = days
    BY <1>1, <1>2 DEF Archiving
  <1>4. TapeTypeOK' /\ TapeKept'
    BY <1>1, <1>3 DEF TapeInv, TapeTypeOK, TapeKept, NewerSessions
  <1>5. ArchiveKnows'
    BY <1>1, <1>2, <1>3 DEF ArchiveKnows
  <1> QED
    BY <1>4, <1>5 DEF TapeInv

LEMMA ArchiveOpensTape ==
    ASSUME TapeInv, ArchiveOpens
    PROVE  TapeInv'
  <1>1. archive.stage = "open" /\ UNCHANGED <<today, db, copies>> /\ today \in Days
    BY DEF ArchiveOpens, TapeInv, TapeTypeOK
  <1>2. CASE archive' = Idle
    BY <1>1, <1>2, TapeAlone
  <1>3. CASE archive' # Idle
    <2>1. /\ archive.days # {}
          /\ archive' = [archive EXCEPT !.stage = "table", !.ok = TRUE, !.tables = TABLES]
      BY <1>3 DEF ArchiveOpens
    <2>2. archive \in Archiving
      BY <1>1, InHand
    <2>3. /\ archive' \in Archiving /\ archive'.stage = "table" /\ archive'.days = archive.days
          /\ archive'.tables = TABLES
      BY <2>1, <2>2, SessionsAssumption DEF Archiving
    <2>4. \A t \in Filled : t \in Range(archive'.tables)
      BY <2>3, SessionsAssumption
    <2>5. TapeTypeOK' /\ TapeKept'
      BY <1>1, <2>3 DEF TapeInv, TapeTypeOK, TapeKept, NewerSessions
    <2>6. ArchiveKnows'
      BY <1>1, <2>1, <2>3, <2>4 DEF TapeInv, ArchiveKnows
    <2> QED
      BY <2>5, <2>6 DEF TapeInv
  <1> QED
    BY <1>2, <1>3

\* The head of what is left to do, and the rest.
LEMMA TablesLeft ==
    ASSUME NEW s \in Seq(Range(TABLES)), s # <<>>
    PROVE  /\ Head(s) \in Range(s) /\ Tail(s) \in Seq(Range(TABLES))
           /\ \A t \in Range(s) : t = Head(s) \/ t \in Range(Tail(s))
           /\ Range(Tail(s)) \subseteq Range(s)
  <1>1. /\ Tail(s) \in Seq(Range(TABLES)) /\ Len(s) \in Nat /\ Len(s) > 0
        /\ Len(Tail(s)) = Len(s) - 1 /\ \A i \in 1..Len(Tail(s)) : Tail(s)[i] = s[i + 1]
        /\ Head(s) = s[1] /\ DOMAIN s = 1..Len(s) /\ DOMAIN Tail(s) = 1..Len(Tail(s))
    BY EmptySeq, HeadTailProperties, LenProperties
  <1>2. ASSUME NEW i \in 1..Len(s)
        PROVE  s[i] = Head(s) \/ \E j \in 1..Len(Tail(s)) : Tail(s)[j] = s[i]
    <2>1. CASE i = 1
      BY <1>1, <2>1
    <2>2. CASE i # 1
      <3>1. i - 1 \in 1..Len(Tail(s)) /\ Tail(s)[i - 1] = s[i]
        BY <1>1, <2>2
      <3> QED
        BY <3>1
    <2> QED
      BY <2>1, <2>2
  <1>3. ASSUME NEW j \in 1..Len(Tail(s))
        PROVE  Tail(s)[j] \in Range(s)
    BY <1>1 DEF Range
  <1>4. \A t \in Range(s) : \E i \in 1..Len(s) : t = s[i]
    BY <1>1 DEF Range
  <1>5. \A t : t \in Range(Tail(s)) <=> \E j \in 1..Len(Tail(s)) : t = Tail(s)[j]
    BY <1>1, Zenon DEF Range
  <1>6. 1 \in 1..Len(s) /\ Head(s) \in Range(s)
    BY <1>1 DEF Range
  <1>7. \A t \in Range(s) : t = Head(s) \/ t \in Range(Tail(s))
    BY <1>2, <1>4, <1>5
  <1>8. Range(Tail(s)) \subseteq Range(s)
    BY <1>3, <1>5
  <1> QED
    BY <1>1, <1>6, <1>7, <1>8

LEMMA ArchiveSkipsTape ==
    ASSUME TapeInv, ArchiveSkips
    PROVE  TapeInv'
  <1>1. /\ archive.stage = "table" /\ archive.tables # <<>> /\ UNCHANGED <<today, db, copies>>
        /\ Table \in Filled => copies[Session][Table] = "whole"
        /\ archive' = [archive EXCEPT !.tables = Tail(archive.tables)]
    BY DEF ArchiveSkips, Archived
  <1>2. archive \in Archiving /\ archive.tables \in Seq(Range(TABLES))
    BY <1>1, InHand
  <1>3. /\ Tail(archive.tables) \in Seq(Range(TABLES))
        /\ \A t \in Range(archive.tables) : t = Table \/ t \in Range(Tail(archive.tables))
    BY <1>1, <1>2, TablesLeft DEF Table
  <1>4. /\ archive' \in Archiving /\ archive'.stage = "table" /\ archive'.days = archive.days
        /\ archive'.tables = Tail(archive.tables) /\ archive'.ok = archive.ok
    BY <1>1, <1>2, <1>3 DEF Archiving
  <1>5. TapeTypeOK' /\ TapeKept'
    BY <1>1, <1>4 DEF TapeInv, TapeTypeOK, TapeKept, NewerSessions
  <1>6. ArchiveKnows'
    BY <1>1, <1>3, <1>4 DEF TapeInv, ArchiveKnows, Session
  <1> QED
    BY <1>5, <1>6 DEF TapeInv

\* A copy of the session in hand changes, and of no other.
LEMMA CopyChanges ==
    ASSUME TapeInv, archive.stage \in {"table", "copy"}, Table \in Filled, NEW c \in CopyStates,
           copies' = [copies EXCEPT ![Session][Table] = c], UNCHANGED <<today, db>>
    PROVE  /\ copies' \in [Days -> [Filled -> CopyStates]] /\ TapeKept'
           /\ copies'[Session][Table] = c
           /\ \A t \in Filled : t # Table => copies'[Session][t] = copies[Session][t]
  <1>1. Session \in Days /\ db[Session] # "archived"
    BY InHand DEF TapeInv, ArchiveKnows
  <1>2. copies \in [Days -> [Filled -> CopyStates]]
    BY DEF TapeInv, TapeTypeOK
  <1>3. copies' \in [Days -> [Filled -> CopyStates]]
    BY <1>1, <1>2
  <1>4. \A d \in Days : d # Session => copies'[d] = copies[d]
    BY <1>1, <1>2
  <1>5. /\ copies'[Session][Table] = c
        /\ \A t \in Filled : t # Table => copies'[Session][t] = copies[Session][t]
    BY <1>1, <1>2
  <1>6. TapeKept'
    BY <1>1, <1>4 DEF TapeInv, TapeKept, NewerSessions
  <1> QED
    BY <1>3, <1>5, <1>6

LEMMA ArchiveCopiesTape ==
    ASSUME TapeInv, ArchiveCopies
    PROVE  TapeInv'
  <1>1. /\ archive.stage = "table" /\ archive.tables # <<>> /\ UNCHANGED <<today, db>>
        /\ Table \in Filled /\ today \in Days
    BY DEF ArchiveCopies, TapeInv, TapeTypeOK
  <1>2. CASE archive' = Idle /\ UNCHANGED copies
    BY <1>1, <1>2, TapeAlone
  <1>3. CASE /\ archive' = [archive EXCEPT !.stage = "copy"]
             /\ copies' = [copies EXCEPT ![Session][Table] = IF @ = "none" THEN "torn" ELSE @]
    <2>1. archive \in Archiving /\ Session \in Days
      BY <1>1, InHand DEF TapeInv, ArchiveKnows
    <2>2. copies[Session][Table] \in CopyStates
      BY <1>1, <2>1 DEF TapeInv, TapeTypeOK
    <2> DEFINE c == IF copies[Session][Table] = "none" THEN "torn" ELSE copies[Session][Table]
    <2>3. c \in CopyStates /\ copies' = [copies EXCEPT ![Session][Table] = c]
      BY <1>3, <2>2 DEF CopyStates
    <2> HIDE DEF c
    <2>4. /\ copies' \in [Days -> [Filled -> CopyStates]] /\ TapeKept'
          /\ \A t \in Filled : t # Table => copies'[Session][t] = copies[Session][t]
      BY <1>1, <2>3, CopyChanges
    <2>5. /\ archive' \in Archiving /\ archive'.stage = "copy" /\ archive'.days = archive.days
          /\ archive'.tables = archive.tables /\ archive'.ok = archive.ok
      BY <1>3, <2>1 DEF Archiving
    <2>6. Table \in Range(archive.tables)
      BY <1>1, InHand, TablesLeft DEF Table
    <2>7. TapeTypeOK'
      BY <1>1, <2>4, <2>5 DEF TapeInv, TapeTypeOK
    <2>8. ArchiveKnows'
      BY <1>1, <2>4, <2>5, <2>6 DEF TapeInv, ArchiveKnows, Session, Table
    <2> QED
      BY <2>4, <2>7, <2>8 DEF TapeInv
  <1> QED
    BY <1>2, <1>3 DEF ArchiveCopies

LEMMA ArchiveVerifiesTape ==
    ASSUME TapeInv, NEW result \in {"short", "whole"}, ArchiveVerifies(result)
    PROVE  TapeInv'
  <1>1. /\ archive.stage = "copy" /\ UNCHANGED <<today, db>>
        /\ copies' = [copies EXCEPT ![Session][Table] = result]
        /\ archive' = [archive EXCEPT !.stage = "table", !.tables = Tail(archive.tables),
                                      !.ok = archive.ok /\ result = "whole"]
    BY DEF ArchiveVerifies
  <1>2. archive.tables # <<>> /\ Table \in Filled
    BY <1>1 DEF TapeInv, ArchiveKnows
  <1>3. archive \in Archiving /\ archive.tables \in Seq(Range(TABLES)) /\ archive.ok \in BOOLEAN
    BY <1>1, InHand
  <1>4. /\ copies' \in [Days -> [Filled -> CopyStates]] /\ TapeKept'
        /\ copies'[Session][Table] = result
        /\ \A t \in Filled : t # Table => copies'[Session][t] = copies[Session][t]
    <2>1. result \in CopyStates
      BY DEF CopyStates
    <2> QED
      BY <1>1, <1>2, <2>1, CopyChanges
  <1>5. /\ Tail(archive.tables) \in Seq(Range(TABLES))
        /\ \A t \in Range(archive.tables) : t = Table \/ t \in Range(Tail(archive.tables))
    BY <1>2, <1>3, TablesLeft DEF Table
  <1>6. /\ archive' \in Archiving /\ archive'.stage = "table" /\ archive'.days = archive.days
        /\ archive'.tables = Tail(archive.tables)
    BY <1>1, <1>3, <1>5 DEF Archiving
  <1>7. archive'.ok => archive.ok /\ result = "whole"
    BY <1>1, <1>3 DEF Archiving
  <1>8. TapeTypeOK'
    BY <1>1, <1>4, <1>6 DEF TapeInv, TapeTypeOK
  <1>9. ASSUME archive'.ok, NEW t \in Filled, t \notin Range(archive'.tables)
        PROVE  copies'[Session][t] = "whole"
    <2>1. CASE t = Table
      BY <1>4, <1>7, <1>9, <2>1
    <2>2. CASE t # Table
      <3>1. t \notin Range(archive.tables)
        BY <1>5, <1>6, <1>9, <2>2
      <3> QED
        BY <1>1, <1>4, <1>7, <1>9, <2>2, <3>1 DEF TapeInv, ArchiveKnows
    <2> QED
      BY <2>1, <2>2
  <1>10. ArchiveKnows'
    BY <1>1, <1>6, <1>9 DEF TapeInv, ArchiveKnows, Session
  <1> QED
    BY <1>4, <1>8, <1>10 DEF TapeInv

LEMMA ArchiveDeletesTape ==
    ASSUME TapeInv, ArchiveDeletes
    PROVE  TapeInv'
  <1>1. archive.stage = "table" /\ archive.tables = <<>> /\ UNCHANGED <<today, copies>> /\ today \in Days
    BY DEF ArchiveDeletes, TapeInv, TapeTypeOK
  <1>2. CASE archive' = Idle /\ UNCHANGED db
    BY <1>1, <1>2, TapeAlone
  <1>3. CASE /\ Exists(Session)
             /\ db' = [db EXCEPT ![Session] = IF archive.ok /\ ~archive.dry THEN "archived" ELSE @]
             /\ archive' = [archive EXCEPT !.stage = "open", !.days = @ \ {Session}]
    <2>1. /\ archive \in Archiving /\ archive.days \in SUBSET Days
          /\ Session \in Days /\ Session \in archive.days /\ db[Session] \in {"open", "closed"}
      BY <1>1, <1>3, InHand DEF TapeInv, ArchiveKnows, Exists
    <2>2. db \in [Days -> DbStates]
      BY DEF TapeInv, TapeTypeOK
    <2>3. db' \in [Days -> DbStates] /\ \A d \in Days : db[d] # "none" => db'[d] # "none"
      BY <1>3, <2>1, <2>2 DEF DbStates
    <2>4. \A d \in Days : d # Session => db'[d] = db[d]
      BY <1>3, <2>1, <2>2
    <2>5. db'[Session] = "archived" => archive.ok
      BY <1>3, <2>1, <2>2
    <2>6. /\ archive' \in Archiving /\ archive'.stage = "open" /\ archive'.days = archive.days \ {Session}
      BY <1>3, <2>1 DEF Archiving
    <2>7. TapeTypeOK'
      BY <1>1, <2>3, <2>6 DEF TapeInv, TapeTypeOK
    <2>8. ArchiveKnows'
      BY <1>1, <2>1, <2>4, <2>6 DEF TapeInv, ArchiveKnows
    <2>9. Range(archive.tables) = {}
      BY <1>1 DEF Range
    <2>10. archive.ok => \A t \in Filled : copies[Session][t] = "whole"
      BY <1>1, <2>9 DEF TapeInv, ArchiveKnows
    <2>11. \A d \in Days : db'[d] = "archived" => \A t \in Filled : copies[d][t] = "whole"
      BY <2>4, <2>5, <2>10 DEF TapeInv, TapeKept
    <2>12. ASSUME NEW d \in Days, db'[d] = "purged"
           PROVE  Cardinality(NewerSessions(d)') >= KeepSessions
      <3>1. db[d] = "purged"
        BY <1>3, <2>1, <2>2, <2>12
      <3>2. Cardinality(NewerSessions(d)) >= KeepSessions
        BY <3>1 DEF TapeInv, TapeKept
      <3> QED
        BY <2>3, <3>2, NewerGrow, SessionsAssumption
    <2>13. TapeKept'
      BY <1>1, <2>11, <2>12 DEF TapeKept
    <2> QED
      BY <2>7, <2>8, <2>13 DEF TapeInv
  <1> QED
    BY <1>2, <1>3 DEF ArchiveDeletes

\* A session once captured is there, as a database or whole in the archive,
\* or there are as many newer ones as the retention keeps: for any number of
\* days, tables and jobs, and wherever one is killed (archive_sessions.py:1).
THEOREM TapeIsKept == SessionsSpec => []TapeKept
  <1>1. TapeInv /\ [SessionsNext]_sessionVars => TapeInv'
    <2> SUFFICES ASSUME TapeInv, [SessionsNext]_sessionVars PROVE TapeInv'
      OBVIOUS
    <2>0. today \in Days
      BY DEF TapeInv, TapeTypeOK
    <2>1. CASE UNCHANGED sessionVars
      BY <2>0, <2>1, TapeAlone DEF sessionVars
    <2>2. CASE NewDay
      BY <2>0, <2>2, TapeAlone, SessionsAssumption DEF NewDay, Days
    <2>3. CASE DigestLatest \/ DigestAsked \/ ScreenOver \/ DigestAppends
      BY <2>0, <2>3, TapeAlone DEF DigestLatest, DigestAsked, DigestStarts, ScreenOver, DigestAppends
    <2>4. CASE (\E days \in SeqOf(Days, MaxPaths) : BackfillStarts(days)) \/ BackfillNext \/ BackfillScored
      BY <2>0, <2>4, TapeAlone DEF BackfillStarts, BackfillNext, BackfillScored
    <2>5. CASE JobKilled
      BY <2>0, <2>5, TapeAlone DEF JobKilled
    <2> QED
      BY <2>1, <2>2, <2>3, <2>4, <2>5, CaptureStartTape, CaptureEndTape, ArchiveStartsTape, ArchiveOpensTape,
         ArchiveSkipsTape, ArchiveCopiesTape, ArchiveVerifiesTape, ArchiveDeletesTape DEF SessionsNext
  <1>2. TapeInv => TapeKept
    BY DEF TapeInv
  <1> QED
    BY TapeInitInv, <1>1, <1>2, PTL DEF SessionsSpec
-----------------------------------------------------------------------------
(* The tally: rows and days in hand are as many as there are days among
   them, but for the coincidences.  Whether a day is recorded is asked at the
   start of a job and its row appended at the end; the count carries what the
   two scoring jobs have in hand from the one to the other. *)

Backfilling == [stage : {"next", "screen"}, todo : Seq(Days)]

TallyTypeOK ==
    /\ history \in Seq(Days) /\ again \in Nat
    /\ digest.stage \in {"idle", "screen", "append"}
    /\ digest.stage # "idle" => digest.day \in Days
    /\ backfill \in {Idle} \cup Backfilling
    /\ backfill.stage = "screen" => backfill.todo # <<>>

\* The days counted or about to be, and how many rows that will make.
CountedDays == Range(history) \cup BackfillDays \cup DigestDays
BackfillHas == IF backfill.stage = "idle" THEN 0 ELSE Len(backfill.todo)
DigestHas == IF digest.stage = "idle" THEN 0 ELSE 1
TallyRows == Len(history) + (BackfillHas + DigestHas)

RowsAccounted == TallyRows <= Cardinality(CountedDays) + again

\* A report is made of rows, of which as many are doubles.
ReportOfDays ==
    digest.stage = "append" =>
        \E rows \in Seq(Days) : digest.report = Report(rows) /\ Doubled(rows) <= again

TallyInv == TallyTypeOK /\ RowsAccounted /\ ReportOfDays

LEMMA BackfillingFields ==
    ASSUME NEW b \in {Idle} \cup Backfilling
    PROVE  /\ Idle.stage = "idle"
           /\ b.stage # "idle" => b \in Backfilling
           /\ b \in Backfilling => b.stage \in {"next", "screen"} /\ b.todo \in Seq(Days)
  BY DEF Idle, Backfilling

LEMMA GreatestDay ==
    ASSUME NEW S \in SUBSET Days, S # {}
    PROVE  Max(S) \in S
  <1> DEFINE Mirror == {n \in Nat : \E x \in S : n = MaxDay - x}
  <1>1. MaxDay \in Nat /\ \A x \in S : x \in 1..MaxDay
    BY SessionsAssumption DEF Days
  <1>2. Mirror \in SUBSET Nat /\ \A x \in S : MaxDay - x \in Mirror
    BY <1>1
  <1>3. Mirror # {}
    BY <1>2
  <1>4. \A n \in Mirror : \E x \in S : n = MaxDay - x
    OBVIOUS
  <1> HIDE DEF Mirror
  <1>5. PICK n \in Mirror : \A m \in Mirror : n <= m
    BY <1>2, <1>3, LeastNatural
  <1>6. PICK x \in S : n = MaxDay - x
    BY <1>4, <1>5
  <1>7. \A y \in S : x >= y
    BY <1>1, <1>2, <1>5, <1>6
  <1> QED
    BY <1>7 DEF Max

LEMMA RangeOfAppend ==
    ASSUME NEW S, NEW s \in Seq(S), NEW x \in S
    PROVE  /\ Append(s, x) \in Seq(S) /\ Len(s) \in Nat /\ DOMAIN s = 1..Len(s)
           /\ DOMAIN Append(s, x) = 1..(Len(s) + 1)
           /\ \A i \in 1..Len(s) : Append(s, x)[i] = s[i] /\ s[i] \in Range(s)
           /\ Append(s, x)[Len(s) + 1] = x
           /\ Range(Append(s, x)) = Range(s) \cup {x}
  <1>1. /\ Append(s, x) \in Seq(S) /\ Len(s) \in Nat /\ DOMAIN s = 1..Len(s)
        /\ Len(Append(s, x)) = Len(s) + 1
        /\ \A i \in 1..Len(s) : Append(s, x)[i] = s[i]
        /\ Append(s, x)[Len(s) + 1] = x
    BY AppendProperties, LenProperties
  <1>2. DOMAIN Append(s, x) = 1..(Len(s) + 1)
    BY <1>1, LenProperties
  <1>3. \A y : y \in Range(s) <=> \E i \in 1..Len(s) : y = s[i]
    BY <1>1, Zenon DEF Range
  <1>4. \A y : y \in Range(Append(s, x)) <=> \E i \in 1..(Len(s) + 1) : y = Append(s, x)[i]
    BY <1>2, Zenon DEF Range
  <1>5. \A i \in 1..(Len(s) + 1) : i \in 1..Len(s) \/ i = Len(s) + 1
    BY <1>1
  <1>6. \A i \in 1..Len(s) : i \in 1..(Len(s) + 1)
    BY <1>1
  <1>7. Len(s) + 1 \in 1..(Len(s) + 1)
    BY <1>1
  <1>8. \A y : y \in Range(Append(s, x)) <=> y \in Range(s) \/ y = x
    BY <1>1, <1>3, <1>4, <1>5, <1>6, <1>7
  <1> QED
    BY <1>1, <1>2, <1>3, <1>8

\* A list names no more days than it is long, and its head and tail name them.
LEMMA RangeOfList ==
    ASSUME NEW s \in Seq(Days)
    PROVE  /\ Range(s) \in SUBSET Days /\ Cardinality(Range(s)) <= Len(s) /\ Len(s) \in Nat
           /\ s # <<>> => /\ Head(s) \in Days /\ Tail(s) \in Seq(Days)
                          /\ Len(s) = Len(Tail(s)) + 1
                          /\ Range(s) = {Head(s)} \cup Range(Tail(s))
  <1>1. Len(s) \in Nat /\ DOMAIN s = 1..Len(s) /\ \A i \in 1..Len(s) : s[i] \in Days
    BY LenProperties, ElementOfSeq
  <1>2. Range(s) \in SUBSET Days
    BY <1>1 DEF Range
  <1>3. Cardinality(Range(s)) <= Len(s)
    <2>1. IsFiniteSet(1..Len(s)) /\ Cardinality(1..Len(s)) = Len(s)
      <3> DEFINE n == Len(s)
      <3>1. n \in Nat
        BY <1>1
      <3> HIDE DEF n
      <3>2. IsFiniteSet(1..n) /\ Cardinality(1..n) = n
        BY <3>1, FS_Interval
      <3> QED
        BY <3>2 DEF n
    <2>2. s \in Surjection(1..Len(s), Range(s))
      <3>1. s \in [1..Len(s) -> Range(s)]
        BY <1>1 DEF Range
      <3>2. \A y \in Range(s) : \E i \in 1..Len(s) : s[i] = y
        BY <1>1 DEF Range
      <3> QED
        BY <3>1, <3>2 DEF Surjection
    <2> QED
      BY <2>1, <2>2, FS_Surjection
  <1>4. ASSUME s # <<>>
        PROVE  /\ Head(s) \in Days /\ Tail(s) \in Seq(Days) /\ Len(s) = Len(Tail(s)) + 1
               /\ Range(s) = {Head(s)} \cup Range(Tail(s))
    <2> DEFINE n == Len(s)
               t == Tail(s)
    <2>1. /\ Head(s) \in Days /\ t \in Seq(Days) /\ Len(t) = n - 1 /\ Head(s) = s[1]
          /\ \A i \in 1..Len(t) : t[i] = s[i + 1]
      BY <1>4, HeadTailProperties
    <2>2. n \in Nat /\ n # 0 /\ DOMAIN t = 1..(n - 1)
      BY <1>1, <1>4, <2>1, LenProperties, EmptySeq
    <2>3. \A y : y \in Range(s) <=> \E i \in 1..n : y = s[i]
      BY <1>1, Zenon DEF Range
    <2>4. \A y : y \in Range(t) <=> \E i \in 1..(n - 1) : y = t[i]
      BY <2>2, Zenon DEF Range
    <2> HIDE DEF n, t
    <2>5. \A i \in 1..(n - 1) : i + 1 \in 1..n /\ t[i] = s[i + 1]
      BY <2>1, <2>2
    <2>6. \A i \in 1..n : i = 1 \/ (i - 1 \in 1..(n - 1) /\ t[i - 1] = s[i])
      BY <2>1, <2>2
    <2>7. 1 \in 1..n
      BY <2>2
    <2>8. \A y : y \in Range(s) <=> y = Head(s) \/ y \in Range(t)
      BY <2>1, <2>3, <2>4, <2>5, <2>6, <2>7
    <2>9. Range(s) = {Head(s)} \cup Range(t)
      BY <2>8
    <2> QED
      BY <2>1, <2>2, <2>9 DEF n, t
  <1> QED
    BY <1>1, <1>2, <1>3, <1>4

\* Of sets of days: what may be missing of one of them when another takes over.
LEMMA DaysCounted ==
    ASSUME NEW U \in SUBSET Days, NEW V \in SUBSET Days, NEW W \in SUBSET Days, U \subseteq V \cup W
    PROVE  /\ Cardinality(U) \in Nat /\ Cardinality(V) \in Nat /\ Cardinality(W) \in Nat
           /\ Cardinality(U) <= Cardinality(V) + Cardinality(W)
  <1>1. /\ IsFiniteSet(U) /\ IsFiniteSet(V) /\ IsFiniteSet(W)
        /\ Cardinality(U) \in Nat /\ Cardinality(V) \in Nat /\ Cardinality(W) \in Nat
    BY FiniteDays
  <1>2. /\ IsFiniteSet(V \cup W)
        /\ Cardinality(V \cup W) = Cardinality(V) + Cardinality(W) - Cardinality(V \cap W)
    BY <1>1, FS_Union
  <1>3. Cardinality(V \cap W) \in Nat /\ Cardinality(V \cup W) \in Nat
    <2>1. V \cap W \in SUBSET Days /\ V \cup W \in SUBSET Days
      OBVIOUS
    <2> QED
      BY <2>1, FiniteDays
  <1>4. Cardinality(U) <= Cardinality(V \cup W)
    <2>1. U \in SUBSET (V \cup W)
      OBVIOUS
    <2> QED
      BY <1>2, <2>1, FS_Subset
  <1> QED
    BY <1>1, <1>2, <1>3, <1>4

\* The days of the parts, and how many rows each of them makes.
PartsTyped ==
    /\ Range(history) \in SUBSET Days /\ Len(history) \in Nat
    /\ Cardinality(Range(history)) <= Len(history)
    /\ backfill.stage # "idle" => backfill.todo \in Seq(Days) /\ Len(backfill.todo) \in Nat
    /\ BackfillDays \in SUBSET Days /\ DigestDays \in SUBSET Days /\ CountedDays \in SUBSET Days
    /\ BackfillHas \in Nat /\ Cardinality(BackfillDays) <= BackfillHas
    /\ DigestHas \in Nat /\ Cardinality(DigestDays) <= DigestHas
    /\ Cardinality(CountedDays) \in Nat /\ TallyRows \in Nat /\ again \in Nat

LEMMA PartsAreDays == TallyTypeOK => PartsTyped
  <1> SUFFICES ASSUME TallyTypeOK PROVE PartsTyped
    OBVIOUS
  <1>1. Range(history) \in SUBSET Days /\ Len(history) \in Nat /\ Cardinality(Range(history)) <= Len(history)
    BY RangeOfList DEF TallyTypeOK
  <1>2. backfill.stage # "idle" => backfill.todo \in Seq(Days)
    BY BackfillingFields DEF TallyTypeOK
  <1>3. backfill.stage # "idle" => /\ Range(backfill.todo) \in SUBSET Days /\ Len(backfill.todo) \in Nat
                                   /\ Cardinality(Range(backfill.todo)) <= Len(backfill.todo)
    BY <1>2, RangeOfList
  <1>4. /\ BackfillDays \in SUBSET Days /\ BackfillHas \in Nat /\ Cardinality(BackfillDays) <= BackfillHas
    <2>1. CASE backfill.stage = "idle"
      BY <2>1, FS_EmptySet DEF BackfillDays, BackfillHas
    <2>2. CASE backfill.stage # "idle"
      BY <1>3, <2>2 DEF BackfillDays, BackfillHas
    <2> QED
      BY <2>1, <2>2
  <1>5. /\ DigestDays \in SUBSET Days /\ DigestHas \in Nat /\ Cardinality(DigestDays) <= DigestHas
    <2>1. CASE digest.stage = "idle"
      BY <2>1, FS_EmptySet DEF DigestDays, DigestHas
    <2>2. CASE digest.stage # "idle"
      <3>1. DigestDays = {digest.day} /\ DigestHas = 1 /\ digest.day \in Days
        BY <2>2 DEF DigestDays, DigestHas, TallyTypeOK
      <3> QED
        BY <3>1, FS_Singleton
    <2> QED
      BY <2>1, <2>2
  <1>6. CountedDays \in SUBSET Days
    BY <1>1, <1>4, <1>5 DEF CountedDays
  <1>7. Cardinality(CountedDays) \in Nat
    BY <1>6, FiniteDays
  <1>8. TallyRows \in Nat
    BY <1>1, <1>4, <1>5 DEF TallyRows
  <1>9. again \in Nat
    BY DEF TallyTypeOK
  <1> QED
    BY <1>1, <1>2, <1>3, <1>4, <1>5, <1>6, <1>7, <1>8, <1>9 DEF PartsTyped

LEMMA PartsStayDays == TallyTypeOK' => PartsTyped'
  BY PartsAreDays, PTL

LEMMA TallyInitInv == SessionsInit => TallyInv
  <1> SUFFICES ASSUME SessionsInit PROVE TallyInv
    OBVIOUS
  <1>1. /\ history = <<>> /\ history \in Seq(Days) /\ digest.stage = "idle" /\ backfill.stage = "idle"
        /\ again = 0 /\ Len(history) = 0
    BY DEF SessionsInit, Idle
  <1>2. TallyTypeOK /\ ReportOfDays
    BY <1>1 DEF SessionsInit, TallyTypeOK, ReportOfDays
  <1>3. TallyRows = 0 /\ Cardinality(CountedDays) \in Nat
    BY <1>1, <1>2, PartsAreDays DEF PartsTyped, TallyRows, BackfillHas, DigestHas
  <1> QED
    BY <1>1, <1>2, <1>3 DEF TallyInv, RowsAccounted

\* The steps of the capture, of the archive, and the end of a job: the days it
\* had in hand are each one row less.
LEMMA TallyAlone ==
    ASSUME TallyInv, UNCHANGED <<history, again>>, digest' \in {digest, Idle}, backfill' \in {backfill, Idle}
    PROVE  TallyInv'
  <1>1. Idle.stage = "idle"
    BY DEF Idle
  <1>2. TallyTypeOK' /\ ReportOfDays'
    BY <1>1 DEF TallyInv, TallyTypeOK, ReportOfDays
  <1>3. RowsAccounted'
    <2> DEFINE D == IF digest'.stage = digest.stage THEN {} ELSE DigestDays
               B == IF backfill'.stage = backfill.stage THEN {} ELSE BackfillDays
               m == IF digest'.stage = digest.stage THEN 0 ELSE DigestHas
               n == IF backfill'.stage = backfill.stage THEN 0 ELSE BackfillHas
    <2>1. TallyTypeOK /\ TallyRows <= Cardinality(CountedDays) + again
      BY DEF TallyInv, RowsAccounted
    <2>2. PartsTyped /\ PartsTyped'
      BY <1>2, <2>1, PartsAreDays, PartsStayDays
    <2>3. D \in SUBSET Days /\ B \in SUBSET Days /\ D \cup B \in SUBSET Days
      BY <2>2 DEF PartsTyped
    <2>4. CountedDays \subseteq CountedDays' \cup (D \cup B)
      BY <1>1 DEF CountedDays, DigestDays, BackfillDays
    <2>5. Cardinality(D) <= m /\ Cardinality(B) <= n /\ m \in Nat /\ n \in Nat
      BY <2>2, FS_EmptySet DEF PartsTyped
    <2>6. TallyRows = TallyRows' + (m + n)
      <3>1. DigestHas = DigestHas' + m
        <4>1. CASE digest' = digest
          BY <2>2, <4>1 DEF PartsTyped, DigestHas
        <4>2. CASE digest' = Idle /\ digest.stage = "idle"
          BY <1>1, <2>2, <4>2 DEF DigestHas
        <4>3. CASE digest' = Idle /\ digest.stage # "idle"
          BY <1>1, <2>2, <4>3 DEF DigestHas
        <4> QED
          BY <4>1, <4>2, <4>3
      <3>2. BackfillHas = BackfillHas' + n
        <4>1. CASE backfill' = backfill
          <5>1. BackfillHas' = BackfillHas /\ n = 0
            BY <4>1 DEF BackfillHas
          <5> QED
            BY <2>2, <5>1 DEF PartsTyped
        <4>2. CASE backfill' = Idle /\ backfill.stage = "idle"
          BY <1>1, <4>2 DEF BackfillHas
        <4>3. CASE backfill' = Idle /\ backfill.stage # "idle"
          <5>1. BackfillHas' = 0 /\ n = BackfillHas
            BY <1>1, <4>3 DEF BackfillHas
          <5> QED
            BY <2>2, <5>1 DEF PartsTyped
        <4> QED
          BY <4>1, <4>2, <4>3
      <3>3. Len(history) \in Nat /\ DigestHas' \in Nat /\ BackfillHas' \in Nat
        BY <2>2 DEF PartsTyped
      <3> HIDE DEF m, n
      <3> QED
        BY <2>5, <3>1, <3>2, <3>3 DEF TallyRows
    <2> HIDE DEF D, B, m, n
    <2>7. CountedDays \in SUBSET Days /\ CountedDays' \in SUBSET Days
      BY <2>2 DEF PartsTyped
    <2>8. /\ Cardinality(CountedDays) <= Cardinality(CountedDays') + Cardinality(D \cup B)
          /\ Cardinality(CountedDays) \in Nat /\ Cardinality(CountedDays') \in Nat
          /\ Cardinality(D \cup B) \in Nat
      BY <2>3, <2>4, <2>7, DaysCounted
    <2>9. /\ Cardinality(D \cup B) <= Cardinality(D) + Cardinality(B)
          /\ Cardinality(D) \in Nat /\ Cardinality(B) \in Nat
      BY <2>3, DaysCounted
    <2>10. TallyRows' \in Nat /\ again \in Nat
      BY <2>2 DEF PartsTyped
    <2>11. TallyRows' <= Cardinality(CountedDays') + again
      BY <2>1, <2>5, <2>6, <2>8, <2>9, <2>10
    <2> QED
      BY <2>11 DEF RowsAccounted
  <1> QED
    BY <1>2, <1>3 DEF TallyInv

LEMMA DigestStartsTally ==
    ASSUME TallyInv, NEW d \in Days, NEW send \in BOOLEAN, DigestStarts(d, send)
    PROVE  TallyInv'
  <1>1. /\ d \notin Range(history) /\ digest.stage = "idle"
        /\ digest' = [stage |-> "screen", day |-> d, send |-> send]
        /\ again' = again + IF d \in BackfillDays THEN 1 ELSE 0
        /\ UNCHANGED <<history, backfill>>
    BY DEF DigestStarts, already_recorded
  <1>2. TallyTypeOK /\ TallyRows <= Cardinality(CountedDays) + again
    BY DEF TallyInv, RowsAccounted
  <1>3. TallyTypeOK' /\ ReportOfDays' /\ digest'.stage = "screen" /\ digest'.day = d
    BY <1>1, <1>2 DEF TallyTypeOK, ReportOfDays
  <1>4. /\ TallyRows \in Nat /\ again \in Nat /\ CountedDays \in SUBSET Days
        /\ Cardinality(CountedDays) \in Nat /\ IsFiniteSet(CountedDays)
        /\ Len(history) \in Nat /\ BackfillHas \in Nat
    BY <1>2, PartsAreDays, FiniteDays DEF PartsTyped
  <1>5. TallyRows' = TallyRows + 1
    <2>1. DigestHas = 0 /\ DigestHas' = 1 /\ BackfillHas' = BackfillHas
      BY <1>1, <1>3 DEF DigestHas, BackfillHas
    <2> QED
      BY <1>1, <1>4, <2>1 DEF TallyRows
  <1>6. CountedDays' = CountedDays \cup {d}
    BY <1>1, <1>3 DEF CountedDays, BackfillDays, DigestDays
  <1>7. Cardinality(CountedDays') = Cardinality(CountedDays) + IF d \in BackfillDays THEN 0 ELSE 1
    <2>1. d \in CountedDays <=> d \in BackfillDays
      BY <1>1 DEF CountedDays, DigestDays
    <2>2. /\ d \in CountedDays => CountedDays' = CountedDays
          /\ d \notin CountedDays => Cardinality(CountedDays') = Cardinality(CountedDays) + 1
      BY <1>4, <1>6, FS_AddElement
    <2> QED
      BY <1>4, <2>1, <2>2
  <1>8. RowsAccounted'
    BY <1>1, <1>2, <1>4, <1>5, <1>7 DEF RowsAccounted
  <1> QED
    BY <1>3, <1>8 DEF TallyInv

LEMMA DigestBeginsTally ==
    ASSUME TallyInv, DigestLatest \/ DigestAsked
    PROVE  TallyInv'
  <1>1. CASE DigestLatest
    <2>1. Candidates \in SUBSET Days /\ Candidates # {}
      BY <1>1 DEF DigestLatest, Candidates
    <2>2. latest_db \in Days
      BY <2>1, GreatestDay DEF latest_db
    <2>3. DigestStarts(latest_db, TRUE) /\ TRUE \in BOOLEAN
      BY <1>1 DEF DigestLatest
    <2> QED
      BY <2>2, <2>3, DigestStartsTally
  <1>2. CASE DigestAsked
    BY <1>2, DigestStartsTally DEF DigestAsked
  <1> QED
    BY <1>1, <1>2

\* Rows that are part of what is counted have no more doubles than all of it.
LEMMA PartDoubled ==
    ASSUME TallyInv, NEW rows \in Seq(Days), NEW rest \in Nat, NEW W \in SUBSET Days,
           Len(rows) + rest = TallyRows, Cardinality(W) <= rest, CountedDays \subseteq Range(rows) \cup W
    PROVE  Doubled(rows) <= again
  <1>1. Range(rows) \in SUBSET Days /\ Len(rows) \in Nat
    BY RangeOfList
  <1>2. /\ CountedDays \in SUBSET Days /\ TallyRows \in Nat /\ again \in Nat
        /\ TallyRows <= Cardinality(CountedDays) + again
    BY PartsAreDays DEF PartsTyped, TallyInv, RowsAccounted
  <1>3. /\ Cardinality(CountedDays) <= Cardinality(Range(rows)) + Cardinality(W)
        /\ Cardinality(CountedDays) \in Nat /\ Cardinality(Range(rows)) \in Nat /\ Cardinality(W) \in Nat
    BY <1>1, <1>2, DaysCounted
  <1> QED
    BY <1>1, <1>2, <1>3 DEF Doubled

\* The report counts the history and the day in hand.
LEMMA ScreenOverTally ==
    ASSUME TallyInv, ScreenOver
    PROVE  TallyInv'
  <1>1. digest.stage = "screen" /\ UNCHANGED <<history, backfill, again>> /\ digest.day \in Days
    BY DEF ScreenOver, TallyInv, TallyTypeOK
  <1>2. CASE digest' = Idle
    BY <1>1, <1>2, TallyAlone
  <1>3. CASE digest' = [stage |-> "append", day |-> digest.day, report |-> Report(Counted(digest.day))]
    <2> DEFINE rows == Append(history, digest.day)
    <2>1. /\ digest'.stage = "append" /\ digest'.day = digest.day
          /\ digest'.report = Report(rows)
      BY <1>3 DEF Counted
    <2>2. TallyTypeOK /\ history \in Seq(Days)
      BY DEF TallyInv, TallyTypeOK
    <2>3. /\ rows \in Seq(Days) /\ Len(history) \in Nat /\ Len(rows) = Len(history) + 1
          /\ Range(rows) = Range(history) \cup {digest.day}
      BY <1>1, <2>2, RangeOfAppend, AppendProperties
    <2>4. BackfillHas \in Nat /\ BackfillDays \in SUBSET Days /\ Cardinality(BackfillDays) <= BackfillHas
      BY <2>2, PartsAreDays DEF PartsTyped
    <2>5. Len(rows) + BackfillHas = TallyRows
      <3>1. DigestHas = 1
        BY <1>1 DEF DigestHas
      <3> QED
        BY <2>3, <2>4, <3>1 DEF TallyRows
    <2>6. CountedDays \subseteq Range(rows) \cup BackfillDays
      BY <1>1, <2>3 DEF CountedDays, DigestDays
    <2> HIDE DEF rows
    <2>7. Doubled(rows) <= again
      BY <2>3, <2>4, <2>5, <2>6, PartDoubled
    <2>8. TallyTypeOK'
      BY <1>1, <2>1, <2>2 DEF TallyTypeOK
    <2>9. ReportOfDays'
      BY <1>1, <2>1, <2>3, <2>7 DEF ReportOfDays
    <2>10. TallyRows' = TallyRows /\ CountedDays' = CountedDays
      BY <1>1, <2>1 DEF TallyRows, BackfillHas, DigestHas, CountedDays, BackfillDays, DigestDays
    <2>11. RowsAccounted'
      BY <1>1, <2>10 DEF TallyInv, RowsAccounted
    <2> QED
      BY <2>8, <2>9, <2>11 DEF TallyInv
  <1> QED
    BY <1>2, <1>3 DEF ScreenOver

\* A day in hand becomes a row: nothing is counted that was not.
LEMMA DigestAppendsTally ==
    ASSUME TallyInv, DigestAppends
    PROVE  TallyInv'
  <1>1. /\ digest.stage = "append" /\ history' = Append(history, digest.day) /\ digest' = Idle
        /\ UNCHANGED <<backfill, again>> /\ digest.day \in Days /\ history \in Seq(Days) /\ TallyTypeOK
    BY DEF DigestAppends, TallyInv, TallyTypeOK
  <1>2. /\ history' \in Seq(Days) /\ Len(history') = Len(history) + 1
        /\ Range(history') = Range(history) \cup {digest.day} /\ Len(history) \in Nat
    BY <1>1, RangeOfAppend, AppendProperties
  <1>3. digest'.stage = "idle"
    BY <1>1 DEF Idle
  <1>4. TallyTypeOK' /\ ReportOfDays'
    BY <1>1, <1>2, <1>3 DEF TallyTypeOK, ReportOfDays
  <1>5. CountedDays' = CountedDays
    BY <1>1, <1>2, <1>3 DEF CountedDays, BackfillDays, DigestDays
  <1>6. TallyRows' = TallyRows
    <2>1. BackfillHas \in Nat
      BY <1>1, PartsAreDays DEF PartsTyped
    <2>2. DigestHas = 1 /\ DigestHas' = 0 /\ BackfillHas' = BackfillHas
      BY <1>1, <1>3 DEF DigestHas, BackfillHas
    <2> QED
      BY <1>2, <2>1, <2>2 DEF TallyRows
  <1>7. RowsAccounted'
    BY <1>1, <1>5, <1>6 DEF TallyInv, RowsAccounted
  <1> QED
    BY <1>4, <1>7 DEF TallyInv

\* A backfill takes its list in hand, of which the days that are not new are
\* coincidences.
LEMMA BackfillStartsTally ==
    ASSUME TallyInv, NEW days \in Seq(Days), BackfillStarts(days)
    PROVE  TallyInv'
  <1> DEFINE todo == Filter(days, {d \in Days : ~already_recorded(d)})
             New == Range(todo) \ DigestDays
  <1>1. /\ backfill.stage = "idle" /\ backfill' = [stage |-> "next", todo |-> todo]
        /\ again' = again + Len(todo) - Cardinality(New)
        /\ UNCHANGED <<history, digest>>
    BY DEF BackfillStarts
  <1>2. todo \in Seq(Days) /\ \A i \in 1..Len(todo) : todo[i] \notin Range(history)
    <2>1. todo \in Seq(Days)
      BY FilterType
    <2>2. \A i \in 1..Len(todo) : todo[i] \in {d \in Days : ~already_recorded(d)}
      BY FilterKeeps
    <2> QED
      BY <2>1, <2>2 DEF already_recorded
  <1> HIDE DEF todo
  <1>3. /\ Range(todo) \in SUBSET Days /\ Len(todo) \in Nat /\ Cardinality(Range(todo)) <= Len(todo)
        /\ Range(todo) \cap Range(history) = {}
    <2>1. DOMAIN todo = 1..Len(todo)
      BY <1>2, LenProperties
    <2>2. Range(todo) \cap Range(history) = {}
      BY <1>2, <2>1 DEF Range
    <2> QED
      BY <1>2, <2>2, RangeOfList
  <1>4. /\ New \in SUBSET Days /\ IsFiniteSet(New) /\ Cardinality(New) \in Nat
        /\ Cardinality(New) <= Len(todo)
    <2>1. New \in SUBSET Range(todo) /\ New \in SUBSET Days
      BY <1>3
    <2>2. IsFiniteSet(Range(todo)) /\ Cardinality(Range(todo)) \in Nat /\ IsFiniteSet(New) /\ Cardinality(New) \in Nat
      BY <1>3, <2>1, FiniteDays
    <2>3. Cardinality(New) <= Cardinality(Range(todo))
      BY <2>1, <2>2, FS_Subset
    <2> QED
      BY <1>3, <2>1, <2>2, <2>3
  <1>5. TallyTypeOK /\ TallyRows <= Cardinality(CountedDays) + again /\ again \in Nat /\ TallyRows \in Nat
        /\ CountedDays \in SUBSET Days /\ Cardinality(CountedDays) \in Nat /\ IsFiniteSet(CountedDays)
    BY PartsAreDays, FiniteDays DEF PartsTyped, TallyInv, RowsAccounted
  <1>6. /\ backfill' \in Backfilling /\ backfill'.stage = "next" /\ backfill'.todo = todo
        /\ again' \in Nat /\ again <= again'
    BY <1>1, <1>2, <1>3, <1>4, <1>5 DEF Backfilling
  <1>7. TallyTypeOK'
    BY <1>1, <1>5, <1>6 DEF TallyTypeOK
  <1>8. ReportOfDays'
    <2> SUFFICES ASSUME digest.stage = "append"
                 PROVE  \E rows \in Seq(Days) : digest.report = Report(rows) /\ Doubled(rows) <= again'
      BY <1>1 DEF ReportOfDays
    <2>1. PICK rows \in Seq(Days) : digest.report = Report(rows) /\ Doubled(rows) <= again
      BY DEF TallyInv, ReportOfDays
    <2>2. Doubled(rows) \in Int
      BY RangeOfList, FiniteDays DEF Doubled
    <2>3. Doubled(rows) <= again'
      BY <1>5, <1>6, <2>1, <2>2
    <2> QED
      BY <2>1, <2>3
  <1>9. CountedDays' = CountedDays \cup New
    BY <1>1, <1>6 DEF CountedDays, BackfillDays, DigestDays
  <1>10. Cardinality(CountedDays') = Cardinality(CountedDays) + Cardinality(New)
    <2>1. CountedDays \cap New = {}
      BY <1>1, <1>3 DEF CountedDays, BackfillDays
    <2>2. Cardinality(CountedDays \cap New) = 0
      BY <2>1, FS_EmptySet
    <2>3. /\ Cardinality(CountedDays \cup New)
             = Cardinality(CountedDays) + Cardinality(New) - Cardinality(CountedDays \cap New)
      BY <1>4, <1>5, FS_Union
    <2> QED
      BY <1>4, <1>5, <1>9, <2>2, <2>3
  <1>11. TallyRows' = TallyRows + Len(todo)
    <2>1. Len(history) \in Nat /\ DigestHas \in Nat
      BY <1>5, PartsAreDays DEF PartsTyped
    <2>2. BackfillHas = 0 /\ BackfillHas' = Len(todo) /\ DigestHas' = DigestHas
      BY <1>1, <1>6 DEF BackfillHas, DigestHas
    <2> QED
      BY <1>1, <1>3, <2>1, <2>2 DEF TallyRows
  <1>12. RowsAccounted'
    <2> HIDE DEF New
    <2> QED
      BY <1>1, <1>3, <1>4, <1>5, <1>10, <1>11 DEF RowsAccounted
  <1> QED
    BY <1>7, <1>8, <1>12 DEF TallyInv

LEMMA BackfillNextTally ==
    ASSUME TallyInv, BackfillNext
    PROVE  TallyInv'
  <1>1. /\ backfill.stage = "next" /\ UNCHANGED <<history, digest, again>> /\ TallyTypeOK
        /\ backfill \in Backfilling /\ backfill.todo \in Seq(Days)
    BY BackfillingFields DEF BackfillNext, TallyInv, TallyTypeOK
  <1>2. CASE backfill' = Idle
    BY <1>1, <1>2, TallyAlone
  <1>3. CASE backfill.todo # <<>> /\ backfill' = [backfill EXCEPT !.stage = "screen"]
    <2>1. /\ backfill' \in Backfilling /\ backfill'.todo = backfill.todo /\ backfill'.stage = "screen"
      BY <1>1, <1>3 DEF Backfilling
    <2>2. TallyTypeOK' /\ ReportOfDays'
      BY <1>1, <1>3, <2>1 DEF TallyInv, TallyTypeOK, ReportOfDays
    <2>3. TallyRows' = TallyRows /\ CountedDays' = CountedDays
      BY <1>1, <2>1 DEF TallyRows, BackfillHas, DigestHas, CountedDays, BackfillDays, DigestDays
    <2>4. RowsAccounted'
      BY <1>1, <2>3 DEF TallyInv, RowsAccounted
    <2> QED
      BY <2>2, <2>4 DEF TallyInv
  <1>4. CASE backfill.todo # <<>> /\ backfill' = [backfill EXCEPT !.todo = Tail(backfill.todo)]
    <2> DEFINE d == Head(backfill.todo)
    <2>1. /\ d \in Days /\ Tail(backfill.todo) \in Seq(Days)
          /\ Len(backfill.todo) = Len(Tail(backfill.todo)) + 1 /\ Len(Tail(backfill.todo)) \in Nat
          /\ Range(backfill.todo) = {d} \cup Range(Tail(backfill.todo))
      BY <1>1, <1>4, RangeOfList
    <2>2. /\ backfill' \in Backfilling /\ backfill'.todo = Tail(backfill.todo) /\ backfill'.stage = "next"
      BY <1>1, <1>4, <2>1 DEF Backfilling
    <2>3. TallyTypeOK' /\ ReportOfDays'
      BY <1>1, <2>2 DEF TallyInv, TallyTypeOK, ReportOfDays
    <2>4. TallyRows = TallyRows' + 1
      <3>1. Len(history) \in Nat /\ DigestHas \in Nat
        BY <1>1, PartsAreDays DEF PartsTyped
      <3>2. BackfillHas = BackfillHas' + 1 /\ BackfillHas' \in Nat /\ DigestHas' = DigestHas
        BY <1>1, <2>1, <2>2 DEF BackfillHas, DigestHas
      <3> QED
        BY <1>1, <3>1, <3>2 DEF TallyRows
    <2>5. CountedDays \subseteq CountedDays' \cup {d}
      BY <1>1, <2>1, <2>2 DEF CountedDays, BackfillDays, DigestDays
    <2>6. /\ CountedDays \in SUBSET Days /\ CountedDays' \in SUBSET Days /\ {d} \in SUBSET Days
          /\ TallyRows' \in Nat /\ again \in Nat
      BY <1>1, <2>1, <2>3, PartsAreDays, PartsStayDays DEF PartsTyped
    <2>7. /\ Cardinality(CountedDays) <= Cardinality(CountedDays') + 1
          /\ Cardinality(CountedDays) \in Nat /\ Cardinality(CountedDays') \in Nat
      BY <2>5, <2>6, DaysCounted, FS_Singleton
    <2>8. TallyRows <= Cardinality(CountedDays) + again
      BY DEF TallyInv, RowsAccounted
    <2>9. RowsAccounted'
      BY <1>1, <2>4, <2>6, <2>7, <2>8 DEF RowsAccounted
    <2> QED
      BY <2>3, <2>9 DEF TallyInv
  <1> QED
    BY <1>2, <1>3, <1>4, Zenon DEF BackfillNext

LEMMA BackfillScoredTally ==
    ASSUME TallyInv, BackfillScored
    PROVE  TallyInv'
  <1>1. /\ backfill.stage = "screen" /\ UNCHANGED <<digest, again>> /\ TallyTypeOK
        /\ backfill \in Backfilling /\ backfill.todo \in Seq(Days) /\ backfill.todo # <<>>
        /\ history \in Seq(Days)
    BY BackfillingFields DEF BackfillScored, TallyInv, TallyTypeOK
  <1> DEFINE d == Head(backfill.todo)
  <1>2. /\ d \in Days /\ Tail(backfill.todo) \in Seq(Days)
        /\ Len(backfill.todo) = Len(Tail(backfill.todo)) + 1 /\ Len(Tail(backfill.todo)) \in Nat
        /\ Range(backfill.todo) = {d} \cup Range(Tail(backfill.todo))
    BY <1>1, RangeOfList
  <1>3. CASE backfill' = Idle /\ UNCHANGED history
    BY <1>1, <1>3, TallyAlone
  <1>4. CASE /\ history' = Append(history, d)
             /\ backfill' = [stage |-> "next", todo |-> Tail(backfill.todo)]
    <2>1. /\ history' \in Seq(Days) /\ Len(history') = Len(history) + 1 /\ Len(history) \in Nat
          /\ Range(history') = Range(history) \cup {d}
      BY <1>1, <1>2, <1>4, RangeOfAppend, AppendProperties
    <2>2. /\ backfill' \in Backfilling /\ backfill'.stage = "next"
          /\ backfill'.todo = Tail(backfill.todo)
      BY <1>2, <1>4 DEF Backfilling
    <2>3. TallyTypeOK' /\ ReportOfDays'
      BY <1>1, <2>1, <2>2 DEF TallyInv, TallyTypeOK, ReportOfDays
    <2>4. TallyRows' = TallyRows
      <3>1. BackfillHas = BackfillHas' + 1 /\ BackfillHas' \in Nat /\ DigestHas' = DigestHas
        BY <1>1, <1>2, <2>2 DEF BackfillHas, DigestHas
      <3>2. DigestHas \in Nat
        BY <1>1, PartsAreDays DEF PartsTyped
      <3> QED
        BY <2>1, <3>1, <3>2 DEF TallyRows
    <2>5. CountedDays' = CountedDays
      BY <1>1, <1>2, <2>1, <2>2 DEF CountedDays, BackfillDays, DigestDays
    <2>6. RowsAccounted'
      BY <1>1, <2>4, <2>5 DEF TallyInv, RowsAccounted
    <2> QED
      BY <2>3, <2>6 DEF TallyInv
  <1> QED
    BY <1>3, <1>4, Zenon DEF BackfillScored

LEMMA TallyStep == TallyInv /\ [SessionsNext]_sessionVars => TallyInv'
  <1> SUFFICES ASSUME TallyInv, [SessionsNext]_sessionVars PROVE TallyInv'
    OBVIOUS
  <1>1. CASE UNCHANGED sessionVars
    BY <1>1, TallyAlone DEF sessionVars
  <1>2. CASE NewDay \/ CaptureStart \/ CaptureEnd
    BY <1>2, TallyAlone DEF NewDay, CaptureStart, CaptureEnd
  <1>3. CASE \/ (\E dry \in BOOLEAN : ArchiveStarts(dry)) \/ ArchiveOpens \/ ArchiveSkips \/ ArchiveCopies
             \/ (\E result \in {"short", "whole"} : ArchiveVerifies(result)) \/ ArchiveDeletes
    BY <1>3, TallyAlone DEF ArchiveStarts, ArchiveOpens, ArchiveSkips, ArchiveCopies, ArchiveVerifies, ArchiveDeletes
  <1>4. CASE JobKilled
    BY <1>4, TallyAlone DEF JobKilled
  <1>5. ASSUME NEW days \in SeqOf(Days, MaxPaths), BackfillStarts(days)
        PROVE  TallyInv'
    <2>1. days \in Seq(Days)
      BY SessionsAssumption DEF SeqOf
    <2> QED
      BY <1>5, <2>1, BackfillStartsTally
  <1> QED
    BY <1>1, <1>2, <1>3, <1>4, <1>5, DigestBeginsTally, ScreenOverTally, DigestAppendsTally,
       BackfillNextTally, BackfillScoredTally DEF SessionsNext

\* What a report says, on rows with so many doubles.
LEMMA ReportHonest ==
    ASSUME NEW rows \in Seq(Days), NEW n \in Nat, Doubled(rows) <= n
    PROVE  LET sessions == Cardinality(Range(Report(rows).rows))
           IN  /\ Doubled(Report(rows).rows) <= n
               /\ Report(rows).verdict # "open" => sessions + n >= DecisionN
               /\ Report(rows).rolling.total \in Smallest(sessions, Window)..Smallest(sessions + n, Window)
  <1>1. Report(rows).rows = rows /\ Report(rows).verdict = cumulative_tally(rows)
    BY DEF Report
  <1>2. Report(rows).rolling.total = Len(WindowOf(rows))
    BY DEF Report, rolling_green
  <1>3. /\ Cardinality(Range(rows)) \in Nat /\ Len(rows) \in Nat
        /\ Cardinality(Range(rows)) <= Len(rows) /\ Len(rows) <= Cardinality(Range(rows)) + n
    BY RangeOfList, FiniteDays DEF Doubled
  <1>4. cumulative_tally(rows) # "open" => ~(Len(rows) < DecisionN)
    BY Zenon DEF cumulative_tally
  <1>5. Window \in Nat /\ Window >= 2 /\ DecisionN \in Nat
    BY SessionsAssumption
  <1>6. Len(WindowOf(rows)) = IF Len(rows) < Window THEN Len(rows) ELSE Window
    <2>1. CASE Len(rows) > Window
      <3>1. /\ WindowOf(rows) = SubSeq(rows, Len(rows) - Window + 1, Len(rows))
            /\ Len(rows) - Window + 1 \in 1..Len(rows)
        BY <1>3, <1>5, <2>1 DEF WindowOf
      <3>2. Len(SubSeq(rows, Len(rows) - Window + 1, Len(rows))) = Window
        BY <1>3, <1>5, <2>1, <3>1, SubSeqProperties
      <3> QED
        BY <1>3, <1>5, <2>1, <3>1, <3>2
    <2>2. CASE ~(Len(rows) > Window)
      <3>1. WindowOf(rows) = SubSeq(rows, 1, Len(rows))
        BY <2>2 DEF WindowOf
      <3>2. Len(SubSeq(rows, 1, Len(rows))) = Len(rows)
        BY <1>3, SubSeqProperties
      <3> QED
        BY <1>3, <1>5, <2>2, <3>1, <3>2
    <2> QED
      BY <2>1, <2>2
  <1>7. Len(WindowOf(rows)) \in Smallest(Cardinality(Range(rows)), Window)
                                ..Smallest(Cardinality(Range(rows)) + n, Window)
    BY <1>3, <1>5, <1>6 DEF Smallest
  <1> QED
    BY <1>1, <1>2, <1>3, <1>4, <1>5, <1>7

\* For any number of days, rows, jobs and databases named to a backfill: a day
\* has one row more than one for each time it was taken in hand while it
\* already was, and for nothing else, and no verdict is short of its sessions
\* by more than that (equities_digest.py:163, 357, 390).
THEOREM TallyIsHonest == SessionsSpec => []TallyHonest
  <1>1. TallyInv => TallyHonest
    <2> SUFFICES ASSUME TallyInv PROVE TallyHonest
      OBVIOUS
    <2>0. TallyTypeOK /\ again \in Nat /\ history \in Seq(Days)
      BY DEF TallyInv, TallyTypeOK
    <2>1. Doubled(history) <= again
      <3> DEFINE W == BackfillDays \cup DigestDays
      <3>1. /\ BackfillHas \in Nat /\ BackfillDays \in SUBSET Days /\ Cardinality(BackfillDays) <= BackfillHas
            /\ DigestHas \in Nat /\ DigestDays \in SUBSET Days /\ Cardinality(DigestDays) <= DigestHas
        BY <2>0, PartsAreDays DEF PartsTyped
      <3>2. Len(history) + (BackfillHas + DigestHas) = TallyRows
        BY DEF TallyRows
      <3>3. W \in SUBSET Days /\ CountedDays \subseteq Range(history) \cup W
        BY <3>1 DEF CountedDays
      <3>4. /\ Cardinality(W) <= Cardinality(BackfillDays) + Cardinality(DigestDays)
            /\ Cardinality(W) \in Nat /\ Cardinality(BackfillDays) \in Nat /\ Cardinality(DigestDays) \in Nat
        BY <3>1, <3>3, DaysCounted
      <3> HIDE DEF W
      <3>5. Cardinality(W) <= BackfillHas + DigestHas /\ BackfillHas + DigestHas \in Nat
        BY <3>1, <3>4
      <3> QED
        BY <2>0, <3>2, <3>3, <3>5, PartDoubled
    <2>2. ASSUME digest.stage = "append"
          PROVE  LET sent == digest.report
                     sessions == Cardinality(Range(sent.rows))
                 IN  /\ Doubled(sent.rows) <= again
                     /\ sent.verdict # "open" => sessions + again >= DecisionN
                     /\ sent.rolling.total \in Smallest(sessions, Window)..Smallest(sessions + again, Window)
      <3>1. PICK rows \in Seq(Days) : digest.report = Report(rows) /\ Doubled(rows) <= again
        BY <2>2 DEF TallyInv, ReportOfDays
      <3> QED
        BY <2>0, <3>1, ReportHonest
    <2> QED
      BY <2>1, <2>2 DEF TallyHonest
  <1> QED
    BY TallyInitInv, TallyStep, <1>1, PTL DEF SessionsSpec
-----------------------------------------------------------------------------
(* The history of the dashboards.  The chart is in order because a status is
   logged once; and the statuses that are missing are those of the appends cut
   short.  Each spoils a line, and while the broken end of the file waits for
   the next append, as much is still to come; the lines that cannot be read
   are as many at most, so pruning, which counts lines, keeps that many
   statuses too few. *)

Ascending(s) == \A i, j \in 1..Len(s) : i < j /\ s[i] # 0 /\ s[j] # 0 => s[i] < s[j]

\* Lines of statuses that were logged, the newest of them the last line.
LinesOf(s, g, sh) ==
    /\ s \in Seq(Nat) /\ Ascending(s)
    /\ \A p \in 1..Len(s) : s[p] # 0 => \E i \in 1..Len(g) : g[i] = s[p]
    /\ sh # 0 => \A p \in 1..Len(s) : s[p] <= sh /\ (s[p] = sh => p = Len(s))

LoggedUpTo(g, sh, now) ==
    /\ g \in Seq(Nat) /\ \A i, j \in 1..Len(g) : i < j => g[i] < g[j]
    /\ \A i \in 1..Len(g) : g[i] # 0 /\ g[i] <= now /\ (sh # 0 => g[i] <= sh)

Zeros(s) == {p \in 1..Len(s) : s[p] = 0}
Lost(c, g, s) == {i \in (c + 1)..Len(g) : \A p \in 1..Len(s) : s[p] # g[i]}

\* What the broken end of the file may still cost: lines, and statuses.
BreaksLine(s, e) == IF e \/ LastTs(s) = 0 THEN 0 ELSE 1
BreaksStatus(s, e) == IF e THEN 0 ELSE IF LastTs(s) = 0 THEN 1 ELSE 2

\* c is the number of statuses pruned, whose lines were followed by enough.
Tracked(s, e, g, d) ==
    /\ Cardinality(Zeros(s)) <= d - BreaksLine(s, e)
    /\ \E c \in 0..Len(g) :
         /\ Cardinality(Lost(c, g, s)) <= 2 * d - BreaksStatus(s, e)
         /\ c > 0 => Len(g) - c - Cardinality(Lost(c, g, s)) + d - BreaksLine(s, e) >= HISTORY_KEEP

HistoryInv ==
    /\ time \in Nat /\ time >= 1 /\ shown \in 0..time /\ ended \in BOOLEAN
    /\ deaths \in Seq({"appending", "pruning"})
    /\ LoggedUpTo(logged, shown, time) /\ LinesOf(lines, logged, shown)
    /\ Len(lines) <= HISTORY_PRUNE_AT + 1
    /\ ~ended => lines # <<>>
    /\ "pruning" \notin Range(deaths) => Tracked(lines, ended, logged, Len(deaths))

LEMMA HistoryConstants ==
    /\ HISTORY_KEEP \in Nat /\ HISTORY_KEEP > 0 /\ HISTORY_PRUNE_AT \in Nat
    /\ HISTORY_KEEP <= HISTORY_PRUNE_AT
  BY HistoryAssumption

LEMMA CountsOfLines ==
    ASSUME NEW s \in Seq(Nat), NEW g \in Seq(Nat), NEW c \in 0..Len(g), NEW e \in BOOLEAN
    PROVE  /\ Len(s) \in Nat /\ Len(g) \in Nat /\ \A p \in 1..Len(s) : s[p] \in Nat
           /\ IsFiniteSet(Zeros(s)) /\ Cardinality(Zeros(s)) \in Nat
           /\ IsFiniteSet(Lost(c, g, s)) /\ Cardinality(Lost(c, g, s)) \in Nat
           /\ BreaksLine(s, e) \in 0..1 /\ BreaksStatus(s, e) \in 0..2
           /\ BreaksLine(s, TRUE) = 0 /\ BreaksStatus(s, TRUE) = 0
           /\ s # <<>> => LastTs(s) = s[Len(s)] /\ Len(s) > 0
  <1>1. Len(s) \in Nat /\ Len(g) \in Nat /\ c + 1 \in Int /\ \A p \in 1..Len(s) : s[p] \in Nat
    BY LenProperties, ElementOfSeq
  <1>2. IsFiniteSet(1..Len(s)) /\ IsFiniteSet((c + 1)..Len(g))
    BY <1>1, FS_Interval
  <1>3. Zeros(s) \in SUBSET (1..Len(s)) /\ Lost(c, g, s) \in SUBSET ((c + 1)..Len(g))
    BY DEF Zeros, Lost
  <1>4. IsFiniteSet(Zeros(s)) /\ IsFiniteSet(Lost(c, g, s))
    BY <1>2, <1>3, FS_Subset
  <1>5. s # <<>> => LastTs(s) = s[Len(s)] /\ Len(s) > 0
    BY <1>1, EmptySeq DEF LastTs, Last
  <1> QED
    BY <1>1, <1>4, <1>5, FS_CardinalityType DEF BreaksLine, BreaksStatus

LEMMA HistoryInitInv == HistoryInit => HistoryInv
  <1> SUFFICES ASSUME HistoryInit PROVE HistoryInv
    OBVIOUS
  <1>1. /\ lines = <<>> /\ logged = <<>> /\ deaths = <<>> /\ ended = TRUE /\ shown = 0 /\ time = 1
        /\ Len(<<>>) = 0 /\ <<>> \in Seq(Nat) /\ <<>> \in Seq({"appending", "pruning"})
    BY DEF HistoryInit
  <1>2. Zeros(<<>>) = {} /\ Lost(0, <<>>, <<>>) = {}
    BY <1>1 DEF Zeros, Lost
  <1>3. Tracked(<<>>, TRUE, <<>>, 0)
    <2>1. BreaksLine(<<>>, TRUE) = 0 /\ BreaksStatus(<<>>, TRUE) = 0 /\ Cardinality({}) = 0
      BY FS_EmptySet DEF BreaksLine, BreaksStatus
    <2>2. 0 \in 0..Len(<<>>) /\ 0 <= 0 - 0 /\ 0 <= 2 * 0 - 0 /\ ~(0 > 0)
      BY <1>1
    <2> QED
      BY <1>2, <2>1, <2>2, Zenon DEF Tracked
  <1>4. LoggedUpTo(<<>>, 0, 1) /\ LinesOf(<<>>, <<>>, 0)
    BY <1>1 DEF LoggedUpTo, LinesOf, Ascending
  <1>5. /\ time \in Nat /\ time >= 1 /\ shown \in 0..time /\ ended \in BOOLEAN
        /\ Len(lines) <= HISTORY_PRUNE_AT + 1 /\ Len(deaths) = 0
    BY <1>1, HistoryConstants
  <1>6. LoggedUpTo(logged, shown, time) /\ LinesOf(lines, logged, shown) /\ Tracked(lines, ended, logged, Len(deaths))
    BY <1>1, <1>3, <1>4, <1>5
  <1> QED
    BY <1>1, <1>5, <1>6 DEF HistoryInv

\* A status appears that is newer than all before it, or the file is gone.
LEMMA StatusAppearsInv ==
    ASSUME HistoryInv, StatusAppears
    PROVE  HistoryInv'
  <1>1. /\ time' = time + 1 /\ shown' \in {0, time'} /\ UNCHANGED <<lines, ended, logged, deaths>>
        /\ time \in Nat
    BY DEF StatusAppears, HistoryInv
  <1>2. /\ logged \in Seq(Nat) /\ \A i \in 1..Len(logged) : logged[i] \in Nat /\ logged[i] <= time
        /\ lines \in Seq(Nat) /\ \A p \in 1..Len(lines) : lines[p] \in Nat
    BY ElementOfSeq DEF HistoryInv, LoggedUpTo, LinesOf
  <1>3. LoggedUpTo(logged, shown', time')
    BY <1>1, <1>2 DEF HistoryInv, LoggedUpTo
  <1>4. \A p \in 1..Len(lines) : lines[p] <= time
    <2> SUFFICES ASSUME NEW p \in 1..Len(lines), lines[p] # 0 PROVE lines[p] <= time
      BY <1>1
    <2>1. PICK i \in 1..Len(logged) : logged[i] = lines[p]
      BY DEF HistoryInv, LinesOf
    <2> QED
      BY <1>2, <2>1
  <1>5. LinesOf(lines, logged, shown')
    BY <1>1, <1>2, <1>4 DEF HistoryInv, LinesOf
  <1> QED
    BY <1>1, <1>3, <1>5 DEF HistoryInv

\* A part of the lines, in one piece.
LEMMA PieceOfLines ==
    ASSUME NEW s, NEW g, NEW sh \in Nat, LinesOf(s, g, sh), NEW t \in Seq(Nat), NEW off \in Nat,
           Len(t) + off <= Len(s), \A p \in 1..Len(t) : t[p] = s[p + off]
    PROVE  LinesOf(t, g, sh)
  <1>1. Len(s) \in Nat /\ Len(t) \in Nat /\ \A p \in 1..Len(s) : s[p] \in Nat
    BY LenProperties, ElementOfSeq DEF LinesOf
  <1>2. \A p \in 1..Len(t) : p + off \in 1..Len(s) /\ (p + off = Len(s) => p = Len(t))
    BY <1>1
  <1>3. Ascending(t)
    <2> SUFFICES ASSUME NEW i \in 1..Len(t), NEW j \in 1..Len(t), i < j, t[i] # 0, t[j] # 0
                 PROVE  t[i] < t[j]
      BY DEF Ascending
    <2>1. i + off < j + off
      BY <1>1
    <2> QED
      BY <1>2, <2>1 DEF LinesOf, Ascending
  <1>4. \A p \in 1..Len(t) : t[p] # 0 => \E i \in 1..Len(g) : g[i] = t[p]
    BY <1>2 DEF LinesOf
  <1>5. sh # 0 => \A p \in 1..Len(t) : t[p] <= sh /\ (t[p] = sh => p = Len(t))
    BY <1>2 DEF LinesOf
  <1> QED
    BY <1>3, <1>4, <1>5 DEF LinesOf

\* Pruning keeps the end of the file.
LEMMA PrunedLines ==
    ASSUME NEW s \in Seq(Nat)
    PROVE  /\ Pruned(s) \in Seq(Nat) /\ Len(Pruned(s)) <= HISTORY_PRUNE_AT
           /\ Len(s) <= HISTORY_PRUNE_AT => Pruned(s) = s
           /\ Len(s) > HISTORY_PRUNE_AT =>
                /\ Len(Pruned(s)) = HISTORY_KEEP /\ Len(s) - HISTORY_KEEP \in Nat
                /\ \A p \in 1..HISTORY_KEEP : Pruned(s)[p] = s[p + (Len(s) - HISTORY_KEEP)]
  <1>1. Len(s) \in Nat /\ \A p \in 1..Len(s) : s[p] \in Nat
    BY LenProperties, ElementOfSeq
  <1>2. CASE Len(s) <= HISTORY_PRUNE_AT
    BY <1>1, <1>2, HistoryConstants DEF Pruned
  <1>3. CASE Len(s) > HISTORY_PRUNE_AT
    <2> DEFINE a == Len(s) - HISTORY_KEEP + 1
    <2>1. /\ Pruned(s) = SubSeq(s, a, Len(s)) /\ a \in 1..Len(s)
          /\ Len(s) - HISTORY_KEEP \in Nat /\ Len(s) - a + 1 = HISTORY_KEEP
      BY <1>1, <1>3, HistoryConstants DEF Pruned
    <2>2. \A p \in a..Len(s) : s[p] \in Nat
      BY <1>1, <2>1
    <2>3. /\ SubSeq(s, a, Len(s)) \in Seq(Nat)
          /\ Len(SubSeq(s, a, Len(s))) = HISTORY_KEEP
          /\ \A p \in 1..HISTORY_KEEP : SubSeq(s, a, Len(s))[p] = s[a + p - 1]
      BY <1>1, <2>1, <2>2, SubSeqProperties, HistoryConstants
    <2>4. \A p \in 1..HISTORY_KEEP : a + p - 1 = p + (Len(s) - HISTORY_KEEP)
      BY <1>1, HistoryConstants
    <2> QED
      BY <1>1, <1>3, <2>1, <2>3, <2>4, HistoryConstants
  <1> QED
    BY <1>1, <1>2, <1>3, HistoryConstants

LEMMA PrunedLinesOf ==
    ASSUME NEW s, NEW g, NEW sh \in Nat, LinesOf(s, g, sh)
    PROVE  /\ LinesOf(Pruned(s), g, sh) /\ Len(Pruned(s)) \in Nat /\ Len(Pruned(s)) <= HISTORY_PRUNE_AT
           /\ s # <<>> => Pruned(s) # <<>> /\ LastTs(Pruned(s)) = LastTs(s)
  <1>1. s \in Seq(Nat) /\ Pruned(s) \in Seq(Nat) /\ Len(s) \in Nat /\ Len(Pruned(s)) \in Nat
    BY PrunedLines, LenProperties DEF LinesOf
  <1>2. CASE Len(s) <= HISTORY_PRUNE_AT
    BY <1>1, <1>2, PrunedLines
  <1>3. CASE Len(s) > HISTORY_PRUNE_AT
    <2> DEFINE off == Len(s) - HISTORY_KEEP
               t == Pruned(s)
    <2>1. /\ t \in Seq(Nat) /\ Len(t) = HISTORY_KEEP /\ off \in Nat
          /\ Len(t) + off <= Len(s) /\ \A p \in 1..Len(t) : t[p] = s[p + off]
          /\ Len(t) <= HISTORY_PRUNE_AT
      BY <1>1, <1>3, PrunedLines, HistoryConstants
    <2>2. Len(t) \in 1..Len(t) /\ Len(t) + off = Len(s)
      BY <1>1, <2>1, HistoryConstants
    <2>3. t[Len(t)] = s[Len(s)]
      BY <2>1, <2>2
    <2> HIDE DEF off, t
    <2>4. LinesOf(t, g, sh)
      BY <2>1, PieceOfLines
    <2>5. t # <<>> /\ LastTs(t) = t[Len(t)]
      BY <2>1, <2>2, EmptySeq DEF LastTs, Last
    <2>6. s # <<>> => LastTs(s) = s[Len(s)]
      BY DEF LastTs, Last
    <2> QED
      BY <1>1, <2>1, <2>3, <2>4, <2>5, <2>6 DEF t
  <1> QED
    BY <1>1, <1>2, <1>3, HistoryConstants

\* The sums of PrunedTracked, of plain numbers.
LEMMA FewerLost ==
    ASSUME NEW n \in Nat, NEW c \in Nat, NEW d \in Nat, NEW K \in Nat, NEW x \in Nat, NEW y \in Nat,
           NEW bs \in 0..2, NEW bl \in 0..1,
           x <= y, y <= 2 * d - bs, c > 0 => n - c - y + d - bl >= K
    PROVE  x <= 2 * d /\ (c > 0 => n - c - x + d >= K)
  OBVIOUS

\* Pruning loses no status but those of the lines it drops, and what is left
\* is short of HISTORY_KEEP statuses by the unreadable lines at most.
LEMMA PrunedTracked ==
    ASSUME NEW s, NEW g, NEW sh \in Nat, NEW now, LinesOf(s, g, sh), LoggedUpTo(g, sh, now),
           NEW d \in Nat, NEW e \in BOOLEAN, Tracked(s, e, g, d), Len(s) > HISTORY_PRUNE_AT
    PROVE  Tracked(Pruned(s), TRUE, g, d)
  <1> DEFINE t == Pruned(s)
             off == Len(s) - HISTORY_KEEP
             n == Len(g)
             K == HISTORY_KEEP
  <1>1. /\ s \in Seq(Nat) /\ g \in Seq(Nat) /\ Len(s) \in Nat /\ n \in Nat
        /\ \A p \in 1..Len(s) : s[p] \in Nat
        /\ \A i \in 1..n : g[i] \in Nat /\ g[i] # 0
        /\ \A i, j \in 1..n : i < j => g[i] < g[j]
        /\ \A i, j \in 1..Len(s) : i < j /\ s[i] # 0 /\ s[j] # 0 => s[i] < s[j]
    BY LenProperties, ElementOfSeq DEF LinesOf, LoggedUpTo, Ascending
  <1>2. /\ t \in Seq(Nat) /\ Len(t) = K /\ off \in Nat /\ K \in Nat /\ K > 0 /\ Len(s) = K + off
        /\ \A p \in 1..K : t[p] = s[p + off]
    BY <1>1, PrunedLines, HistoryConstants
  <1>3. LinesOf(t, g, sh)
    BY PrunedLinesOf
  <1>4. PICK c \in 0..n :
          /\ Cardinality(Lost(c, g, s)) <= 2 * d - BreaksStatus(s, e)
          /\ c > 0 => n - c - Cardinality(Lost(c, g, s)) + d - BreaksLine(s, e) >= K
    BY DEF Tracked
  <1>5. /\ Cardinality(Lost(c, g, s)) \in Nat /\ IsFiniteSet(Lost(c, g, s))
        /\ BreaksStatus(s, e) \in 0..2 /\ BreaksLine(s, e) \in 0..1
        /\ Cardinality(Zeros(s)) \in Nat /\ IsFiniteSet(Zeros(s))
    BY <1>1, <1>4, CountsOfLines
  <1> HIDE DEF t, off, n, K
  <1>6. \A p \in 1..K : p + off \in 1..Len(s) /\ t[p] \in Nat
    BY <1>1, <1>2
  \* The unreadable lines kept are some of those there were.
  <1>7. Cardinality(Zeros(t)) <= d /\ IsFiniteSet(Zeros(t)) /\ Cardinality(Zeros(t)) \in Nat
    <2> DEFINE f == [p \in Zeros(t) |-> p + off]
    <2>1. \A p \in Zeros(t) : p \in 1..K /\ p + off \in Zeros(s)
      BY <1>2, <1>6 DEF Zeros
    <2>2. f \in Injection(Zeros(t), Zeros(s))
      <3>1. f \in [Zeros(t) -> Zeros(s)]
        BY <2>1
      <3>2. \A a, b \in Zeros(t) : f[a] = f[b] => a = b
        BY <1>2, <2>1
      <3> QED
        BY <3>1, <3>2 DEF Injection, IsInjective
    <2> HIDE DEF f
    <2>3. Cardinality(Zeros(t)) <= Cardinality(Zeros(s)) /\ IsFiniteSet(Zeros(t))
      BY <1>5, <2>2, FS_Injection
    <2>4. Cardinality(Zeros(s)) <= d - BreaksLine(s, e)
      BY DEF Tracked
    <2>5. Cardinality(Zeros(t)) \in Nat
      BY <2>3, FS_CardinalityType
    <2> QED
      BY <1>5, <2>3, <2>4, <2>5
  <1>8. BreaksLine(t, TRUE) = 0 /\ BreaksStatus(t, TRUE) = 0
    BY DEF BreaksLine, BreaksStatus
  <1>9. SUFFICES \E a \in 0..n : /\ Cardinality(Lost(a, g, t)) <= 2 * d
                                 /\ a > 0 => n - a - Cardinality(Lost(a, g, t)) + d >= K
    <2>1. PICK a \in 0..n : /\ Cardinality(Lost(a, g, t)) <= 2 * d
                            /\ a > 0 => n - a - Cardinality(Lost(a, g, t)) + d >= K
      BY <1>9
    <2>2. Cardinality(Lost(a, g, t)) \in Nat
      BY <1>1, <1>2, CountsOfLines DEF n
    <2>3. /\ Cardinality(Zeros(t)) <= d - 0
          /\ Cardinality(Lost(a, g, t)) <= 2 * d - 0
          /\ a > 0 => n - a - Cardinality(Lost(a, g, t)) + d - 0 >= K
      BY <1>1, <1>2, <1>7, <2>1, <2>2
    <2> QED
      BY <1>8, <2>3, Zenon DEF Tracked, n, K, t
  \* None that can be read is left: all that were logged count as pruned.
  <1>10. CASE \A p \in 1..K : t[p] = 0
    <2>1. Zeros(t) = 1..K
      BY <1>2, <1>10 DEF Zeros
    <2>2. K <= d
      BY <1>2, <1>7, <2>1, FS_Interval
    <2>3. Lost(n, g, t) = {}
      BY <1>1 DEF Lost, n
    <2>4. Cardinality(Lost(n, g, t)) = 0
      BY <2>3, FS_EmptySet
    <2> QED
      BY <1>1, <1>2, <2>2, <2>4
  \* The oldest that is left: what is older counts as pruned.
  <1>11. CASE ~ \A p \in 1..K : t[p] = 0
    <2> DEFINE Nz == {p \in 1..K : t[p] # 0}
    <2>1. PICK p0 \in Nz : \A p \in Nz : p0 <= p
      <3>1. Nz # {} /\ Nz \in SUBSET Nat
        BY <1>11
      <3> HIDE DEF Nz
      <3> QED
        BY <3>1, LeastNatural
    <2>2. PICK k \in 1..n : g[k] = t[p0]
      BY <1>2, <1>3, <2>1 DEF LinesOf, n
    <2>3. ASSUME NEW a \in 0..n, a >= c, a >= k - 1
          PROVE  /\ Lost(a, g, t) \subseteq Lost(c, g, s)
                 /\ Cardinality(Lost(a, g, t)) <= Cardinality(Lost(c, g, s))
                 /\ Cardinality(Lost(a, g, t)) \in Nat /\ IsFiniteSet(Lost(a, g, t))
      <3>1. ASSUME NEW i \in Lost(a, g, t), NEW q \in 1..Len(s), s[q] = g[i]
            PROVE  FALSE
        <4>1. i \in (a + 1)..n /\ \A p \in 1..K : t[p] # g[i]
          BY <1>2, <3>1 DEF Lost, n
        <4>2. i \in 1..n /\ i >= k
          BY <1>1, <2>2, <2>3, <4>1
        <4>3. g[i] >= t[p0] /\ g[i] # 0 /\ t[p0] # 0
          BY <1>1, <2>2, <4>2
        <4>4. p0 \in 1..K /\ p0 + off \in 1..Len(s) /\ s[p0 + off] = t[p0]
          BY <1>2, <1>6, <2>1
        <4>5. CASE q <= off
          <5>1. q < p0 + off
            BY <1>2, <4>4, <4>5
          <5>2. s[q] < s[p0 + off]
            BY <1>1, <3>1, <4>3, <4>4, <5>1
          <5> QED
            BY <1>1, <3>1, <4>2, <4>3, <4>4, <5>2
        <4>6. CASE q > off
          <5>1. q - off \in 1..K /\ (q - off) + off = q
            BY <1>2, <4>6
          <5>2. t[q - off] = s[q]
            BY <1>2, <5>1
          <5> QED
            BY <3>1, <4>1, <5>1, <5>2
        <4> QED
          BY <1>2, <4>5, <4>6
      <3>2. Lost(a, g, t) \subseteq (c + 1)..n
        BY <1>1, <2>3 DEF Lost, n
      <3>3. Lost(a, g, t) \subseteq Lost(c, g, s)
        BY <3>1, <3>2 DEF Lost, n
      <3> QED
        BY <1>5, <3>3, FS_Subset, FS_CardinalityType
    <2>4. CASE k - 1 <= c
      <3>1. /\ Cardinality(Lost(c, g, t)) <= Cardinality(Lost(c, g, s))
            /\ Cardinality(Lost(c, g, t)) \in Nat
        BY <1>1, <1>4, <2>2, <2>3, <2>4
      <3>2. /\ Cardinality(Lost(c, g, t)) <= 2 * d
            /\ c > 0 => n - c - Cardinality(Lost(c, g, t)) + d >= K
        <4>1. c \in Nat
          BY <1>1, <1>4
        <4> QED
          BY <1>1, <1>2, <1>4, <1>5, <3>1, <4>1, FewerLost
      <3> QED
        BY <3>2
    <2>5. CASE k - 1 > c
      <3> DEFINE L == Lost(k - 1, g, t)
                 Present == (k..n) \ L
      <3>1. k - 1 \in 0..n /\ k - 1 >= c /\ k - 1 >= k - 1
        BY <1>1, <2>2, <2>5
      <3>2. Cardinality(L) <= Cardinality(Lost(c, g, s)) /\ Cardinality(L) \in Nat /\ IsFiniteSet(L)
        BY <2>3, <3>1
      <3>3. L \subseteq k..n /\ (k..n) \cap L = L
        BY <1>1, <2>2 DEF Lost, n
      <3>4. IsFiniteSet(k..n) /\ Cardinality(k..n) = n - k + 1
        <4>1. k \in Int /\ n \in Int /\ ~(k > n)
          BY <1>1, <2>2
        <4> QED
          BY <4>1, FS_Interval
      <3>5. IsFiniteSet(Present) /\ Cardinality(Present) = (n - k + 1) - Cardinality(L)
        <4> HIDE DEF L
        <4>1. /\ IsFiniteSet(Present)
              /\ Cardinality(Present) = Cardinality(k..n) - Cardinality((k..n) \cap L)
          BY <3>4, FS_Difference
        <4> QED
          BY <3>3, <3>4, <4>1
      <3>6. Cardinality(Nz) = K - Cardinality(Zeros(t))
        <4>1. Nz = (1..K) \ Zeros(t) /\ (1..K) \cap Zeros(t) = Zeros(t)
          BY <1>2 DEF Zeros
        <4>2. IsFiniteSet(1..K) /\ Cardinality(1..K) = K
          BY <1>2, FS_Interval
        <4> HIDE DEF Nz
        <4> QED
          BY <4>1, <4>2, FS_Difference
      <3>7. Cardinality(Nz) <= Cardinality(Present)
        <4> DEFINE f == [p \in Nz |-> CHOOSE i \in 1..n : g[i] = t[p]]
        <4>1. ASSUME NEW p \in Nz
              PROVE  f[p] \in 1..n /\ g[f[p]] = t[p]
          <5>1. \E i \in 1..n : g[i] = t[p]
            BY <1>2, <1>3 DEF LinesOf, n
          <5> QED
            BY <5>1
        <4>2. ASSUME NEW p \in Nz
              PROVE  f[p] \in Present
          <5>1. f[p] \in 1..n /\ g[f[p]] = t[p] /\ p \in 1..K /\ t[p] # 0
            BY <4>1
          <5>2. p0 <= p /\ p0 \in 1..K /\ t[p0] # 0
            BY <2>1
          <5>3. t[p0] <= t[p]
            <6>1. p0 < p => t[p0] < t[p]
              BY <1>2, <1>3, <5>1, <5>2 DEF LinesOf, Ascending
            <6>2. t[p0] \in Nat /\ t[p] \in Nat /\ (p0 = p => t[p0] = t[p]) /\ (p0 < p \/ p0 = p)
              BY <1>2, <1>6, <5>1, <5>2
            <6> QED
              BY <6>1, <6>2
          <5>4. ~(f[p] < k)
            BY <1>1, <1>6, <2>2, <5>1, <5>2, <5>3
          <5>5. f[p] \in k..n
            BY <1>1, <2>2, <5>1, <5>4
          <5>6. f[p] \notin L
            BY <1>2, <5>1 DEF Lost
          <5> QED
            BY <5>5, <5>6
        <4>3. ASSUME NEW p \in Nz, NEW q \in Nz, f[p] = f[q]
              PROVE  p = q
          <5>1. t[p] = t[q] /\ p \in 1..K /\ q \in 1..K /\ t[p] # 0
            BY <4>1, <4>3
          <5>2. (p < q => t[p] < t[q]) /\ (q < p => t[q] < t[p])
            BY <1>2, <1>3, <5>1 DEF LinesOf, Ascending
          <5>3. t[p] \in Nat /\ (p < q \/ q < p \/ p = q)
            BY <1>2, <1>6, <5>1
          <5> QED
            BY <5>1, <5>2, <5>3
        <4>4. f \in Injection(Nz, Present)
          <5>1. f \in [Nz -> Present]
            BY <4>2
          <5>2. \A p, q \in Nz : f[p] = f[q] => p = q
            BY <4>3
          <5> QED
            BY <5>1, <5>2 DEF Injection, IsInjective
        <4> HIDE DEF f, Nz, Present
        <4> QED
          BY <3>5, <4>4, FS_Injection
      <3>8. /\ Cardinality(L) <= 2 * d
            /\ n - (k - 1) - Cardinality(L) + d >= K
        <4> HIDE DEF L, Present, Nz
        <4>1. PICK l \in Nat, y \in Nat, z \in Nat, b \in 0..2 :
                l = Cardinality(L) /\ y = Cardinality(Lost(c, g, s)) /\ z = Cardinality(Zeros(t))
                /\ b = BreaksStatus(s, e)
          BY <1>5, <1>7, <3>2
        <4>2. K - z <= (n - k + 1) - l
          BY <3>5, <3>6, <3>7, <4>1
        <4>3. l <= y /\ y <= 2 * d - b /\ z <= d
          BY <1>4, <1>7, <3>2, <4>1
        <4>4. l <= 2 * d /\ n - (k - 1) - l + d >= K
          <5>1. k \in Int /\ n \in Int /\ K \in Int /\ d \in Int /\ l \in Int /\ y \in Int /\ z \in Int
            BY <1>1, <1>2, <2>2, <4>1
          <5>2. b >= 0 /\ b \in Int
            BY <4>1
          <5> QED
            BY <4>2, <4>3, <5>1, <5>2
        <4> QED
          BY <4>1, <4>4
      <3> QED
        BY <3>1, <3>8
    <2> QED
      BY <1>1, <1>4, <2>2, <2>4, <2>5
  <1> QED
    BY <1>10, <1>11

\* A status that is not that of the last line is not in the file.
LEMMA NotShownYet ==
    ASSUME NEW s, NEW g, NEW sh \in Nat, LinesOf(s, g, sh), sh # 0, LastTs(s) # sh
    PROVE  \A p \in 1..Len(s) : s[p] # sh
  <1> SUFFICES ASSUME NEW p \in 1..Len(s), s[p] = sh PROVE FALSE
    OBVIOUS
  <1>1. p = Len(s) /\ s \in Seq(Nat) /\ Len(s) \in Nat
    BY LenProperties DEF LinesOf
  <1>2. s # <<>>
    BY <1>1, EmptySeq
  <1> QED
    BY <1>1, <1>2 DEF LastTs, Last

\* The log a render leaves: with the status, once.
LogWith(g, sh) == IF LastTs(g) # sh THEN Append(g, sh) ELSE g

LEMMA LogGrows ==
    ASSUME NEW g, NEW sh \in Nat, NEW now \in Nat, LoggedUpTo(g, sh, now), sh # 0, sh <= now
    PROVE  /\ LoggedUpTo(LogWith(g, sh), sh, now)
           /\ Len(g) \in Nat /\ Len(LogWith(g, sh)) = Len(g) + (IF LastTs(g) # sh THEN 1 ELSE 0)
           /\ \A i \in 1..Len(g) : LogWith(g, sh)[i] = g[i]
           /\ LastTs(g) # sh => LogWith(g, sh)[Len(g) + 1] = sh
           /\ \E i \in 1..Len(LogWith(g, sh)) : LogWith(g, sh)[i] = sh
  <1>1. /\ g \in Seq(Nat) /\ Len(g) \in Nat /\ \A i \in 1..Len(g) : g[i] \in Nat
        /\ \A i \in 1..Len(g) : g[i] # 0 /\ g[i] <= now /\ g[i] <= sh
        /\ \A i, j \in 1..Len(g) : i < j => g[i] < g[j]
    BY LenProperties, ElementOfSeq DEF LoggedUpTo
  <1>2. CASE LastTs(g) = sh
    <2>1. g # <<>>
      BY <1>2 DEF LastTs
    <2>2. Len(g) \in 1..Len(g) /\ g[Len(g)] = sh
      BY <1>1, <1>2, <2>1, EmptySeq DEF LastTs, Last
    <2> QED
      BY <1>1, <1>2, <2>2 DEF LogWith
  <1>3. CASE LastTs(g) # sh
    <2> DEFINE h == Append(g, sh)
    <2>1. /\ h \in Seq(Nat) /\ Len(h) = Len(g) + 1 /\ h[Len(g) + 1] = sh
          /\ \A i \in 1..Len(g) : h[i] = g[i]
      BY <1>1, AppendProperties
    <2> HIDE DEF h
    <2>2. \A i \in 1..Len(g) : g[i] < sh
      <3> SUFFICES ASSUME NEW i \in 1..Len(g), g[i] = sh PROVE FALSE
        BY <1>1
      <3>1. g # <<>> /\ LastTs(g) = g[Len(g)] /\ Len(g) \in 1..Len(g)
        BY <1>1, EmptySeq DEF LastTs, Last
      <3>2. i < Len(g) => g[i] < g[Len(g)]
        BY <1>1, <3>1
      <3>3. g[Len(g)] <= sh /\ g[Len(g)] \in Nat
        BY <1>1, <3>1
      <3>4. i < Len(g) \/ i = Len(g)
        BY <1>1
      <3> QED
        BY <1>3, <3>1, <3>2, <3>3, <3>4
    <2>3. \A i, j \in 1..Len(h) : i < j => h[i] < h[j]
      <3> SUFFICES ASSUME NEW i \in 1..Len(h), NEW j \in 1..Len(h), i < j PROVE h[i] < h[j]
        OBVIOUS
      <3>0. i \in Int /\ j \in Int /\ 1 <= i /\ j <= Len(g) + 1
        BY <1>1, <2>1
      <3>1. i \in 1..Len(g) /\ (j \in 1..Len(g) \/ j = Len(g) + 1)
        BY <1>1, <3>0
      <3> QED
        BY <1>1, <2>1, <2>2, <3>1
    <2>4. \A i \in 1..Len(h) : h[i] # 0 /\ h[i] <= now /\ h[i] <= sh
      <3> SUFFICES ASSUME NEW i \in 1..Len(h) PROVE h[i] # 0 /\ h[i] <= now /\ h[i] <= sh
        OBVIOUS
      <3>1. i \in 1..Len(g) \/ i = Len(g) + 1
        BY <1>1, <2>1
      <3> QED
        BY <1>1, <2>1, <3>1
    <2>5. LoggedUpTo(h, sh, now)
      BY <2>1, <2>3, <2>4 DEF LoggedUpTo
    <2>6. Len(g) + 1 \in 1..Len(h)
      BY <1>1, <2>1
    <2>7. LogWith(g, sh) = h
      BY <1>3 DEF LogWith, h
    <2> QED
      BY <1>1, <1>3, <2>1, <2>5, <2>6, <2>7
  <1> QED
    BY <1>2, <1>3

\* What an append does to the file.
GluedAs(t, s, ts, w) ==
    /\ t \in Seq(Nat) /\ t # <<>>
    /\ w => Len(t) = Len(s) + 1 /\ t[Len(s) + 1] = ts /\ \A p \in 1..Len(s) : t[p] = s[p]
    /\ ~w => Len(t) = Len(s) /\ t[Len(s)] = 0 /\ \A p \in 1..(Len(s) - 1) : t[p] = s[p]
    /\ LastTs(t) = (IF w THEN ts ELSE 0)

LEMMA GluedShape ==
    ASSUME NEW s \in Seq(Nat), NEW ts \in Nat, NEW w \in BOOLEAN, ~w => s # <<>>
    PROVE  GluedAs(Glued(s, ts, w), s, ts, w)
  <1>1. Len(s) \in Nat /\ \A p \in 1..Len(s) : s[p] \in Nat
    BY LenProperties, ElementOfSeq
  <1> DEFINE t == Glued(s, ts, w)
  <1>2. CASE w
    <2>1. t = Append(s, ts)
      BY <1>2 DEF Glued
    <2>2. /\ t \in Seq(Nat) /\ Len(t) = Len(s) + 1 /\ t[Len(s) + 1] = ts
          /\ \A p \in 1..Len(s) : t[p] = s[p]
      BY <1>1, <2>1, AppendProperties
    <2> HIDE DEF t
    <2>3. t # <<>>
      BY <1>1, <2>2, EmptySeq
    <2>4. LastTs(t) = t[Len(t)]
      BY <2>3 DEF LastTs, Last
    <2> QED
      BY <1>1, <1>2, <2>2, <2>3, <2>4 DEF GluedAs, t
  <1>3. CASE ~w
    <2>1. t = [s EXCEPT ![Len(s)] = 0]
      BY <1>3 DEF Glued
    <2>2. Len(s) \in 1..Len(s)
      BY <1>1, <1>3, EmptySeq
    <2>3. t \in Seq(Nat) /\ Len(t) = Len(s)
      BY <2>1, <2>2, ExceptSeq
    <2>4. t[Len(s)] = 0 /\ \A p \in 1..(Len(s) - 1) : t[p] = s[p]
      BY <1>1, <2>1, <2>2
    <2> HIDE DEF t
    <2>5. t # <<>>
      BY <1>1, <2>2, <2>3, EmptySeq
    <2>6. LastTs(t) = t[Len(t)]
      BY <2>5 DEF LastTs, Last
    <2> QED
      BY <1>1, <1>3, <2>2, <2>3, <2>4, <2>5, <2>6 DEF GluedAs, t
  <1> QED
    BY <1>2, <1>3

LEMMA GluedLines ==
    ASSUME NEW s, NEW g, NEW sh \in Nat, NEW now \in Nat, LinesOf(s, g, sh), LoggedUpTo(g, sh, now),
           sh # 0, sh <= now, LastTs(s) # sh, NEW ts \in {0, sh}, NEW w \in BOOLEAN, ~w => s # <<>>
    PROVE  LinesOf(Glued(s, ts, w), LogWith(g, sh), sh)
  <1> DEFINE t == Glued(s, ts, w)
             h == LogWith(g, sh)
  <1>1. /\ s \in Seq(Nat) /\ Len(s) \in Nat /\ \A p \in 1..Len(s) : s[p] \in Nat
        /\ \A p \in 1..Len(s) : s[p] # sh /\ s[p] <= sh
        /\ \A i, j \in 1..Len(s) : i < j /\ s[i] # 0 /\ s[j] # 0 => s[i] < s[j]
    BY NotShownYet, LenProperties, ElementOfSeq DEF LinesOf, Ascending
  <1>2. \A i \in 1..Len(g) : h[i] = g[i] /\ i \in 1..Len(h)
    BY LogGrows
  <1>3. \E i \in 1..Len(h) : h[i] = sh
    BY LogGrows
  <1>4. \A p \in 1..Len(s) : s[p] # 0 => \E i \in 1..Len(h) : h[i] = s[p]
    <2> SUFFICES ASSUME NEW p \in 1..Len(s), s[p] # 0 PROVE \E i \in 1..Len(h) : h[i] = s[p]
      OBVIOUS
    <2>1. PICK i \in 1..Len(g) : g[i] = s[p]
      BY DEF LinesOf
    <2> QED
      BY <1>2, <2>1
  <1>5. ts \in Nat
    OBVIOUS
  <1>0. GluedAs(t, s, ts, w)
    BY <1>1, <1>5, GluedShape
  <1> HIDE DEF t, h
  <1>6. /\ t \in Seq(Nat)
        /\ w => /\ Len(t) = Len(s) + 1 /\ t[Len(s) + 1] = ts /\ \A p \in 1..Len(s) : t[p] = s[p]
        /\ ~w => /\ Len(t) = Len(s) /\ t[Len(s)] = 0 /\ \A p \in 1..(Len(s) - 1) : t[p] = s[p]
    BY <1>0, Zenon DEF GluedAs
  \* A line is an old one, or the new one at the end, or cannot be read.
  <1>7. \A p \in 1..Len(t) : t[p] # 0 => \/ p \in 1..Len(s) /\ t[p] = s[p]
                                         \/ p = Len(s) + 1 /\ t[p] = sh /\ Len(t) = p
    <2> SUFFICES ASSUME NEW p \in 1..Len(t), t[p] # 0
                 PROVE  \/ p \in 1..Len(s) /\ t[p] = s[p]
                        \/ p = Len(s) + 1 /\ t[p] = sh /\ Len(t) = p
      OBVIOUS
    <2>1. CASE w
      <3>1. p \in 1..Len(s) \/ p = Len(s) + 1
        BY <1>1, <1>6, <2>1
      <3> QED
        BY <1>6, <2>1, <3>1
    <2>2. CASE ~w
      <3>1. p \in 1..(Len(s) - 1) \/ p = Len(s)
        BY <1>1, <1>6, <2>2
      <3> QED
        BY <1>1, <1>6, <2>2, <3>1
    <2> QED
      BY <2>1, <2>2
  <1>8. Ascending(t)
    <2> SUFFICES ASSUME NEW i \in 1..Len(t), NEW j \in 1..Len(t), i < j, t[i] # 0, t[j] # 0
                 PROVE  t[i] < t[j]
      BY DEF Ascending
    <2>1. i # Len(t)
      BY <1>1, <1>6
    <2>2. i \in 1..Len(s) /\ t[i] = s[i]
      BY <1>7, <2>1
    <2>3. CASE j \in 1..Len(s) /\ t[j] = s[j]
      BY <1>1, <2>2, <2>3
    <2>4. CASE j = Len(s) + 1 /\ t[j] = sh
      BY <1>1, <2>2, <2>4
    <2> QED
      BY <1>7, <2>3, <2>4
  <1>9. \A p \in 1..Len(t) : t[p] # 0 => \E i \in 1..Len(h) : h[i] = t[p]
    BY <1>3, <1>4, <1>7
  <1>10. \A p \in 1..Len(t) : t[p] <= sh /\ (t[p] = sh => p = Len(t))
    <2> SUFFICES ASSUME NEW p \in 1..Len(t) PROVE t[p] <= sh /\ (t[p] = sh => p = Len(t))
      OBVIOUS
    <2>1. CASE t[p] = 0
      BY <2>1
    <2>2. CASE t[p] # 0
      BY <1>1, <1>7, <2>2
    <2> QED
      BY <2>1, <2>2
  <1> QED
    BY <1>6, <1>8, <1>9, <1>10 DEF LinesOf, t, h

\* The sums of GluedTracked, of plain numbers: u lines more cannot be read, v
\* statuses more are lost, and of the a statuses more that are logged b are.
LEMMA GluedSums ==
    ASSUME NEW d \in Nat, NEW K \in Nat, NEW n \in Nat, NEW c \in Nat,
           NEW z \in Nat, NEW x \in Nat, NEW zz \in Nat, NEW xx \in Nat,
           NEW bl \in 0..1, NEW bs \in 0..2, NEW bbl \in 0..1, NEW bbs \in 0..2,
           NEW a \in 0..1, NEW b \in 0..1, NEW u \in 0..1, NEW v \in 0..1, NEW dies \in 0..1,
           z <= d - bl, x <= 2 * d - bs, c > 0 => n - c - x + d - bl >= K,
           zz <= z + u, xx <= x + b + v, b <= a,
           u + bbl <= dies + bl, b + v + bbs <= 2 * dies + bs, b + v + bbl <= a + dies + bl
    PROVE  /\ zz <= (d + dies) - bbl /\ xx <= 2 * (d + dies) - bbs
           /\ c > 0 => (n + a) - c - xx + (d + dies) - bbl >= K
  OBVIOUS

LEMMA OneMoreAtMost ==
    ASSUME NEW S, NEW T, NEW x, NEW u \in 0..1, IsFiniteSet(S), T \subseteq S \cup (IF u = 1 THEN {x} ELSE {})
    PROVE  IsFiniteSet(T) /\ Cardinality(T) \in Nat /\ Cardinality(S) \in Nat /\ Cardinality(T) <= Cardinality(S) + u
  <1> DEFINE U == S \cup (IF u = 1 THEN {x} ELSE {})
  <1>1. IsFiniteSet(U) /\ Cardinality(S) \in Nat /\ Cardinality(U) \in Nat /\ Cardinality(U) <= Cardinality(S) + u
    <2>1. CASE u = 1
      <3>1. U = S \cup {x}
        BY <2>1
      <3> HIDE DEF U
      <3> QED
        BY <2>1, <3>1, FS_AddElement, FS_CardinalityType
    <2>2. CASE u = 0
      <3>1. U = S
        BY <2>2
      <3> HIDE DEF U
      <3> QED
        BY <2>2, <3>1, FS_CardinalityType
    <2> QED
      BY <2>1, <2>2
  <1>2. T \in SUBSET U
    OBVIOUS
  <1> HIDE DEF U
  <1>3. IsFiniteSet(T) /\ Cardinality(T) <= Cardinality(U)
    BY <1>1, <1>2, FS_Subset
  <1>4. Cardinality(T) \in Nat
    BY <1>3, FS_CardinalityType
  <1> QED
    BY <1>1, <1>3, <1>4

\* What an append costs: nothing when it is whole and the file ended well; the
\* status, when it is cut short or runs into a broken end, and with it the
\* status of the line it runs into.
LEMMA GluedLost ==
    ASSUME NEW s, NEW g, NEW sh \in Nat, NEW now \in Nat, LinesOf(s, g, sh), LoggedUpTo(g, sh, now),
           sh # 0, sh <= now, LastTs(s) # sh, NEW ts \in {0, sh}, NEW w \in BOOLEAN, ~w => s # <<>>,
           NEW c \in 0..Len(g),
           NEW b \in 0..1, b = (IF LastTs(g) = sh \/ (w /\ ts = sh) THEN 0 ELSE 1),
           NEW v \in 0..1, v = (IF w \/ LastTs(s) = 0 THEN 0 ELSE 1)
    PROVE  /\ Cardinality(Lost(c, LogWith(g, sh), Glued(s, ts, w))) \in Nat
           /\ Cardinality(Lost(c, LogWith(g, sh), Glued(s, ts, w))) <= Cardinality(Lost(c, g, s)) + b + v
  <1> DEFINE t == Glued(s, ts, w)
             h == LogWith(g, sh)
             L == LastTs(s)
  <1>1. /\ s \in Seq(Nat) /\ Len(s) \in Nat /\ \A p \in 1..Len(s) : s[p] \in Nat
        /\ g \in Seq(Nat) /\ Len(g) \in Nat /\ \A i \in 1..Len(g) : g[i] \in Nat /\ g[i] # 0
        /\ \A i, j \in 1..Len(g) : i < j => g[i] < g[j]
    BY LenProperties, ElementOfSeq DEF LinesOf, LoggedUpTo
  <1>2. /\ Len(h) = Len(g) + (IF LastTs(g) # sh THEN 1 ELSE 0)
        /\ \A i \in 1..Len(g) : h[i] = g[i]
        /\ LastTs(g) # sh => h[Len(g) + 1] = sh
    BY LogGrows
  <1>3. ts \in Nat
    OBVIOUS
  <1>0. GluedAs(t, s, ts, w)
    BY <1>1, <1>3, GluedShape
  <1>4. /\ w => /\ Len(t) = Len(s) + 1 /\ t[Len(s) + 1] = ts /\ \A p \in 1..Len(s) : t[p] = s[p]
        /\ ~w => /\ Len(t) = Len(s) /\ t[Len(s)] = 0 /\ \A p \in 1..(Len(s) - 1) : t[p] = s[p]
    BY <1>0, Zenon DEF GluedAs
  <1>5. s # <<>> => L = s[Len(s)] /\ Len(s) \in 1..Len(s)
    BY <1>1, EmptySeq DEF LastTs, Last
  <1> HIDE DEF t, h, L
  <1>6. IsFiniteSet(Lost(c, g, s))
    BY <1>1, CountsOfLines
  <1>7. PICK m : \A i \in 1..Len(g) : g[i] = L => i = m
    <2>1. CASE \E i \in 1..Len(g) : g[i] = L
      <3>1. PICK m \in 1..Len(g) : g[m] = L
        BY <2>1
      <3>2. ASSUME NEW i \in 1..Len(g), g[i] = L
            PROVE  i = m
        <4>1. (i < m => g[i] < g[m]) /\ (m < i => g[m] < g[i]) /\ g[m] \in Nat
          BY <1>1, <3>1
        <4>2. i < m \/ m < i \/ i = m
          BY <1>1
        <4> QED
          BY <3>1, <3>2, <4>1, <4>2
      <3> QED
        BY <3>2
    <2>2. CASE ~ \E i \in 1..Len(g) : g[i] = L
      BY <2>2
    <2> QED
      BY <2>1, <2>2
  <1> DEFINE U == Lost(c, g, s) \cup (IF b = 1 THEN {Len(g) + 1} ELSE {})
  <1>8. ASSUME NEW i \in Lost(c, h, t)
        PROVE  i \in U \cup (IF v = 1 THEN {m} ELSE {})
    <2>1. i \in (c + 1)..Len(h) /\ \A p \in 1..Len(t) : t[p] # h[i]
      BY DEF Lost
    <2>2. CASE i > Len(g)
      <3>1. i = Len(g) + 1 /\ LastTs(g) # sh /\ h[i] = sh
        BY <1>1, <1>2, <2>1, <2>2
      <3>2. ~(w /\ ts = sh)
        <4> SUFFICES ASSUME w, ts = sh PROVE FALSE
          OBVIOUS
        <4>1. Len(s) + 1 \in 1..Len(t) /\ t[Len(s) + 1] = sh
          BY <1>1, <1>4
        <4> QED
          BY <2>1, <3>1, <4>1
      <3>3. b = 1
        BY <3>1, <3>2
      <3> QED
        BY <3>1, <3>3
    <2>3. CASE i <= Len(g)
      <3>1. i \in (c + 1)..Len(g) /\ i \in 1..Len(g) /\ h[i] = g[i]
        BY <1>1, <1>2, <2>1, <2>3
      <3>2. CASE \A p \in 1..Len(s) : s[p] # g[i]
        BY <3>1, <3>2 DEF Lost
      <3>3. ASSUME NEW p \in 1..Len(s), s[p] = g[i]
            PROVE  v = 1 /\ i = m
        <4>1. ~(p \in 1..Len(t) /\ t[p] = s[p])
          BY <2>1, <3>1, <3>3
        <4>2. ~w
          BY <1>1, <1>4, <4>1
        <4>3. p = Len(s)
          <5>1. ~(p \in 1..(Len(s) - 1))
            BY <1>1, <1>4, <4>1, <4>2
          <5> QED
            BY <1>1, <5>1
        <4>4. L = g[i] /\ L # 0
          BY <1>1, <1>5, <3>1, <3>3, <4>2, <4>3
        <4> QED
          BY <1>7, <3>1, <4>2, <4>4 DEF L
      <3> QED
        BY <3>2, <3>3
    <2>4. i \in Int
      BY <1>1, <1>2, <2>1
    <2> QED
      BY <1>1, <2>2, <2>3, <2>4
  <1> HIDE DEF U
  <1>9. Lost(c, h, t) \subseteq U \cup (IF v = 1 THEN {m} ELSE {})
    BY <1>8
  <1>10. /\ IsFiniteSet(U) /\ Cardinality(Lost(c, g, s)) \in Nat
         /\ Cardinality(U) <= Cardinality(Lost(c, g, s)) + b
    BY <1>6, OneMoreAtMost DEF U
  <1>11. /\ Cardinality(Lost(c, h, t)) \in Nat /\ Cardinality(U) \in Nat
         /\ Cardinality(Lost(c, h, t)) <= Cardinality(U) + v
    BY <1>9, <1>10, OneMoreAtMost
  <1>12. Cardinality(Lost(c, h, t)) <= Cardinality(Lost(c, g, s)) + b + v
    BY <1>10, <1>11
  <1> QED
    BY <1>11, <1>12 DEF t, h

LEMMA GluedZeros ==
    ASSUME NEW s \in Seq(Nat), NEW ts \in Nat, NEW w \in BOOLEAN, ~w => s # <<>>,
           NEW u \in 0..1, u = (IF (w /\ ts # 0) \/ (~w /\ LastTs(s) = 0) THEN 0 ELSE 1)
    PROVE  /\ Cardinality(Zeros(Glued(s, ts, w))) \in Nat
           /\ Cardinality(Zeros(Glued(s, ts, w))) <= Cardinality(Zeros(s)) + u
  <1> DEFINE t == Glued(s, ts, w)
             m == IF w THEN Len(s) + 1 ELSE Len(s)
  <1>1. Len(s) \in Nat /\ IsFiniteSet(Zeros(s))
    <2>1. IsFiniteSet(1..Len(s)) /\ Zeros(s) \in SUBSET (1..Len(s)) /\ Len(s) \in Nat
      BY LenProperties, FS_Interval DEF Zeros
    <2> QED
      BY <2>1, FS_Subset
  <1>2. /\ w => /\ Len(t) = Len(s) + 1 /\ t[Len(s) + 1] = ts /\ \A p \in 1..Len(s) : t[p] = s[p]
        /\ ~w => /\ Len(t) = Len(s) /\ t[Len(s)] = 0 /\ \A p \in 1..(Len(s) - 1) : t[p] = s[p]
    BY GluedShape, Zenon DEF GluedAs
  <1>3. s # <<>> => LastTs(s) = s[Len(s)] /\ Len(s) \in 1..Len(s)
    BY <1>1, EmptySeq DEF LastTs, Last
  <1> HIDE DEF t
  <1>4. ASSUME NEW p \in Zeros(t)
        PROVE  p \in Zeros(s) \cup (IF u = 1 THEN {m} ELSE {})
    <2>1. p \in 1..Len(t) /\ t[p] = 0
      BY DEF Zeros
    <2>2. CASE w
      <3>1. p \in 1..Len(s) \/ p = Len(s) + 1
        BY <1>1, <1>2, <2>1, <2>2
      <3>2. CASE p \in 1..Len(s)
        BY <1>2, <2>1, <2>2, <3>2 DEF Zeros
      <3>3. CASE p = Len(s) + 1
        BY <1>2, <2>1, <2>2, <3>3
      <3> QED
        BY <3>1, <3>2, <3>3
    <2>3. CASE ~w
      <3>1. p \in 1..(Len(s) - 1) \/ p = Len(s)
        BY <1>1, <1>2, <2>1, <2>3
      <3>2. CASE p \in 1..(Len(s) - 1)
        <4>1. t[p] = s[p] /\ p \in 1..Len(s)
          BY <1>1, <1>2, <2>3, <3>2
        <4> QED
          BY <2>1, <4>1 DEF Zeros
      <3>3. CASE p = Len(s)
        <4>1. LastTs(s) = 0 => p \in Zeros(s)
          BY <1>3, <2>3, <3>3 DEF Zeros
        <4> QED
          BY <2>3, <3>3, <4>1
      <3> QED
        BY <3>1, <3>2, <3>3
    <2> QED
      BY <2>2, <2>3
  <1> HIDE DEF m
  <1>5. Zeros(t) \subseteq Zeros(s) \cup (IF u = 1 THEN {m} ELSE {})
    BY <1>4
  <1>6. Cardinality(Zeros(t)) \in Nat /\ Cardinality(Zeros(t)) <= Cardinality(Zeros(s)) + u
    BY <1>1, <1>5, OneMoreAtMost
  <1> QED
    BY <1>6 DEF t

LEMMA GluedTracked ==
    ASSUME NEW s, NEW g, NEW sh \in Nat, NEW now \in Nat, LinesOf(s, g, sh), LoggedUpTo(g, sh, now),
           sh # 0, sh <= now, LastTs(s) # sh, NEW ts \in {0, sh}, NEW w \in BOOLEAN, ~w => s # <<>>,
           NEW d \in Nat, Tracked(s, w, g, d), NEW dies \in 0..1, dies = 0 => ts = sh
    PROVE  Tracked(Glued(s, ts, w), dies = 0, LogWith(g, sh), d + dies)
  <1> DEFINE t == Glued(s, ts, w)
             h == LogWith(g, sh)
             n == Len(g)
             a == IF LastTs(g) = sh THEN 0 ELSE 1
             b == IF LastTs(g) = sh \/ (w /\ ts = sh) THEN 0 ELSE 1
             u == IF (w /\ ts # 0) \/ (~w /\ LastTs(s) = 0) THEN 0 ELSE 1
             v == IF w \/ LastTs(s) = 0 THEN 0 ELSE 1
             bl == BreaksLine(s, w)
             bs == BreaksStatus(s, w)
             bbl == BreaksLine(t, dies = 0)
             bbs == BreaksStatus(t, dies = 0)
  <1>1. s \in Seq(Nat) /\ g \in Seq(Nat) /\ n \in Nat /\ ts \in Nat /\ Len(h) = n + a
    BY LogGrows, LenProperties DEF LinesOf, LoggedUpTo
  <1>2. PICK c \in 0..n :
          /\ Cardinality(Lost(c, g, s)) <= 2 * d - bs
          /\ c > 0 => n - c - Cardinality(Lost(c, g, s)) + d - bl >= HISTORY_KEEP
    BY DEF Tracked
  <1>3. Cardinality(Zeros(s)) <= d - bl
    BY DEF Tracked
  <1>4. /\ a \in 0..1 /\ b \in 0..1 /\ u \in 0..1 /\ v \in 0..1
        /\ bl \in 0..1 /\ bs \in 0..2 /\ bbl \in 0..1 /\ bbs \in 0..2
    BY DEF BreaksLine, BreaksStatus
  <1>5. LastTs(t) = (IF w THEN ts ELSE 0)
    BY <1>1, GluedShape DEF GluedAs
  <1> HIDE DEF t
  <1>6. /\ b <= a /\ u + bbl <= dies + bl /\ b + v + bbs <= 2 * dies + bs
        /\ b + v + bbl <= a + dies + bl
    <2>1. CASE w /\ ts = sh
      <3>1. bl = 0 /\ bs = 0 /\ b = 0 /\ u = 0 /\ v = 0 /\ a \in 0..1
        BY <2>1 DEF BreaksLine, BreaksStatus
      <3>2. (dies = 0 => bbl = 0 /\ bbs = 0) /\ (dies = 1 => bbl = 1 /\ bbs = 2)
        BY <1>5, <2>1 DEF BreaksLine, BreaksStatus
      <3> HIDE DEF a, b, u, v, bl, bs, bbl, bbs
      <3> QED
        BY <3>1, <3>2
    <2>2. CASE w /\ ts # sh
      <3>1. bl = 0 /\ bs = 0 /\ b = a /\ u = 1 /\ v = 0 /\ a \in 0..1
        BY <2>2 DEF BreaksLine, BreaksStatus
      <3>2. dies = 1 /\ bbl = 0 /\ bbs = 1
        BY <1>5, <2>2 DEF BreaksLine, BreaksStatus
      <3> HIDE DEF a, b, u, v, bl, bs, bbl, bbs
      <3> QED
        BY <3>1, <3>2
    <2>3. CASE ~w
      <3>1. /\ b = a /\ a \in 0..1 /\ (LastTs(s) = 0 => bl = 0 /\ bs = 1 /\ u = 0 /\ v = 0)
            /\ (LastTs(s) # 0 => bl = 1 /\ bs = 2 /\ u = 1 /\ v = 1)
        BY <2>3 DEF BreaksLine, BreaksStatus
      <3>2. bbl = 0 /\ bbs = dies
        BY <1>5, <2>3 DEF BreaksLine, BreaksStatus
      <3> HIDE DEF a, b, u, v, bl, bs, bbl, bbs
      <3> QED
        BY <3>1, <3>2
    <2> QED
      BY <2>1, <2>2, <2>3
  <1>7. /\ Cardinality(Zeros(s)) \in Nat /\ Cardinality(Lost(c, g, s)) \in Nat
    BY <1>1, <1>2, CountsOfLines
  <1>8. Cardinality(Zeros(t)) \in Nat /\ Cardinality(Zeros(t)) <= Cardinality(Zeros(s)) + u
    BY <1>1, <1>4, GluedZeros DEF t
  <1>9. /\ Cardinality(Lost(c, h, t)) \in Nat
        /\ Cardinality(Lost(c, h, t)) <= Cardinality(Lost(c, g, s)) + b + v
    BY <1>2, <1>4, GluedLost DEF t
  <1> HIDE DEF h, n, a, b, u, v, bl, bs, bbl, bbs
  <1>10. PICK z \in Nat, x \in Nat, zz \in Nat, xx \in Nat :
           /\ z = Cardinality(Zeros(s)) /\ x = Cardinality(Lost(c, g, s))
           /\ zz = Cardinality(Zeros(t)) /\ xx = Cardinality(Lost(c, h, t))
    BY <1>7, <1>8, <1>9
  <1>11. /\ z <= d - bl /\ x <= 2 * d - bs /\ (c > 0 => n - c - x + d - bl >= HISTORY_KEEP)
         /\ zz <= z + u /\ xx <= x + b + v /\ c \in Nat /\ n \in Nat /\ HISTORY_KEEP \in Nat
    <2>1. z <= d - bl /\ x <= 2 * d - bs
      BY <1>2, <1>3, <1>10
    <2>2. c > 0 => n - c - x + d - bl >= HISTORY_KEEP
      BY <1>2, <1>10
    <2>3. zz <= z + u /\ xx <= x + b + v
      BY <1>8, <1>9, <1>10
    <2>4. c \in Nat /\ n \in Nat /\ HISTORY_KEEP \in Nat
      BY <1>1, <1>2, HistoryConstants
    <2> QED
      BY <2>1, <2>2, <2>3, <2>4
  <1>12. /\ zz <= (d + dies) - bbl /\ xx <= 2 * (d + dies) - bbs
         /\ c > 0 => (n + a) - c - xx + (d + dies) - bbl >= HISTORY_KEEP
    BY <1>4, <1>6, <1>11, GluedSums
  <1>13. c \in 0..Len(h)
    BY <1>1, <1>2, <1>4
  <1>14. /\ Cardinality(Zeros(t)) <= (d + dies) - bbl
         /\ Cardinality(Lost(c, h, t)) <= 2 * (d + dies) - bbs
         /\ c > 0 => Len(h) - c - Cardinality(Lost(c, h, t)) + (d + dies) - bbl >= HISTORY_KEEP
    BY <1>1, <1>10, <1>12
  <1> QED
    BY <1>13, <1>14, Zenon DEF Tracked, t, h, bbl, bbs

LEMMA PrunedKept ==
    ASSUME HistoryInv
    PROVE  /\ LinesOf(Pruned(lines), logged, shown) /\ Len(Pruned(lines)) \in Nat
           /\ Len(Pruned(lines)) <= HISTORY_PRUNE_AT
           /\ Whole \in BOOLEAN /\ (~Whole => Pruned(lines) # <<>>) /\ LastTs(Pruned(lines)) = LastTs(lines)
           /\ "pruning" \notin Range(deaths) => Tracked(Pruned(lines), Whole, logged, Len(deaths))
  <1>1. /\ lines \in Seq(Nat) /\ Len(lines) \in Nat /\ shown \in Nat /\ Len(deaths) \in Nat
        /\ ended \in BOOLEAN /\ (~ended => lines # <<>>)
        /\ LinesOf(lines, logged, shown) /\ LoggedUpTo(logged, shown, time)
        /\ "pruning" \notin Range(deaths) => Tracked(lines, ended, logged, Len(deaths))
    BY LenProperties DEF HistoryInv, LinesOf
  <1>2. /\ LinesOf(Pruned(lines), logged, shown) /\ Len(Pruned(lines)) \in Nat
        /\ Len(Pruned(lines)) <= HISTORY_PRUNE_AT
        /\ lines # <<>> => Pruned(lines) # <<>> /\ LastTs(Pruned(lines)) = LastTs(lines)
    BY <1>1, PrunedLinesOf
  <1>3. Len(lines) <= HISTORY_PRUNE_AT => Pruned(lines) = lines
    BY <1>1, PrunedLines
  <1>4. lines = <<>> => Pruned(lines) = lines
    BY <1>3, EmptySeq, HistoryConstants
  <1>5. CASE Len(lines) > HISTORY_PRUNE_AT
    <2>1. "pruning" \notin Range(deaths) => Tracked(Pruned(lines), TRUE, logged, Len(deaths))
      BY <1>1, <1>5, PrunedTracked
    <2>2. Whole = TRUE
      BY <1>5 DEF Whole
    <2> QED
      BY <1>2, <1>4, <2>1, <2>2
  <1>6. CASE Len(lines) <= HISTORY_PRUNE_AT
    <2>1. Whole = ended
      BY <1>1, <1>6, HistoryConstants DEF Whole
    <2>2. Pruned(lines) = lines
      BY <1>3, <1>6
    <2> QED
      BY <1>1, <1>2, <2>1, <2>2
  <1> QED
    BY <1>1, <1>5, <1>6, HistoryConstants

\* An append, whole (dies = 0) or cut short (1).
LEMMA AppendedInv ==
    ASSUME HistoryInv, Logs, NEW ts \in {0, shown}, NEW dies \in 0..1, dies = 0 => ts = shown
    PROVE  /\ LinesOf(Glued(Pruned(lines), ts, Whole), LogWith(logged, shown), shown)
           /\ LoggedUpTo(LogWith(logged, shown), shown, time)
           /\ Glued(Pruned(lines), ts, Whole) # <<>>
           /\ Len(Glued(Pruned(lines), ts, Whole)) <= HISTORY_PRUNE_AT + 1
           /\ "pruning" \notin Range(deaths) =>
                Tracked(Glued(Pruned(lines), ts, Whole), dies = 0, LogWith(logged, shown), Len(deaths) + dies)
  <1> DEFINE s == Pruned(lines)
             w == Whole
  <1>1. /\ shown \in Nat /\ shown # 0 /\ shown <= time /\ time \in Nat /\ LastTs(lines) # shown
        /\ LoggedUpTo(logged, shown, time) /\ Len(deaths) \in Nat
    BY LenProperties DEF HistoryInv, Logs
  <1>2. /\ LinesOf(s, logged, shown) /\ Len(s) \in Nat /\ Len(s) <= HISTORY_PRUNE_AT
        /\ w \in BOOLEAN /\ (~w => s # <<>>) /\ LastTs(s) # shown
        /\ "pruning" \notin Range(deaths) => Tracked(s, w, logged, Len(deaths))
    BY <1>1, PrunedKept
  <1> HIDE DEF s, w
  <1>3. s \in Seq(Nat) /\ ts \in Nat
    BY <1>1, <1>2 DEF LinesOf
  <1>4. LinesOf(Glued(s, ts, w), LogWith(logged, shown), shown)
    BY <1>1, <1>2, GluedLines
  <1>5. LoggedUpTo(LogWith(logged, shown), shown, time)
    BY <1>1, LogGrows
  <1>6. GluedAs(Glued(s, ts, w), s, ts, w)
    BY <1>2, <1>3, GluedShape
  <1>7. Glued(s, ts, w) # <<>> /\ Len(Glued(s, ts, w)) <= HISTORY_PRUNE_AT + 1
    <2>1. (w => Len(Glued(s, ts, w)) = Len(s) + 1) /\ (~w => Len(Glued(s, ts, w)) = Len(s))
      BY <1>6, Zenon DEF GluedAs
    <2>2. Glued(s, ts, w) # <<>>
      BY <1>6, Zenon DEF GluedAs
    <2> QED
      BY <1>2, <2>1, <2>2, HistoryConstants
  <1>8. "pruning" \notin Range(deaths) =>
          Tracked(Glued(s, ts, w), dies = 0, LogWith(logged, shown), Len(deaths) + dies)
    BY <1>1, <1>2, GluedTracked
  <1> QED
    BY <1>4, <1>5, <1>7, <1>8 DEF s, w

LEMMA append_historyInv ==
    ASSUME HistoryInv, append_history
    PROVE  HistoryInv'
  <1>1. /\ lines' = (IF Logs THEN Glued(Pruned(lines), shown, Whole) ELSE IF shown # 0 THEN Pruned(lines) ELSE lines)
        /\ ended' = (ended \/ (shown # 0 /\ Len(lines) > HISTORY_PRUNE_AT) \/ Logs)
        /\ logged' = Noted /\ UNCHANGED <<time, shown, deaths>>
    BY DEF append_history
  <1>2. /\ time \in Nat /\ time >= 1 /\ shown \in 0..time /\ ended \in BOOLEAN
        /\ deaths \in Seq({"appending", "pruning"}) /\ Len(deaths) \in Nat
        /\ LoggedUpTo(logged, shown, time)
    BY LenProperties DEF HistoryInv
  <1>3. CASE Logs
    <2>1. lines' = Glued(Pruned(lines), shown, Whole) /\ ended' = TRUE /\ logged' = LogWith(logged, shown)
      BY <1>1, <1>3 DEF Noted, LogWith
    <2>2. /\ LinesOf(Glued(Pruned(lines), shown, Whole), LogWith(logged, shown), shown)
          /\ LoggedUpTo(LogWith(logged, shown), shown, time)
          /\ Len(Glued(Pruned(lines), shown, Whole)) <= HISTORY_PRUNE_AT + 1
          /\ "pruning" \notin Range(deaths) =>
               Tracked(Glued(Pruned(lines), shown, Whole), 0 = 0, LogWith(logged, shown), Len(deaths) + 0)
      <3>1. shown \in {0, shown} /\ 0 \in 0..1
        OBVIOUS
      <3> QED
        BY <1>3, <3>1, AppendedInv
    <2>3. (0 = 0) = TRUE /\ Len(deaths) + 0 = Len(deaths)
      BY <1>2
    <2> QED
      BY <1>1, <1>2, <2>1, <2>2, <2>3 DEF HistoryInv
  <1>4. CASE ~Logs /\ shown # 0
    <2>1. lines' = Pruned(lines) /\ logged' = logged
      BY <1>1, <1>4 DEF Noted
    <2>2. ended' = Whole
      BY <1>1, <1>4 DEF Whole
    <2> QED
      BY <1>1, <1>2, <2>1, <2>2, PrunedKept, HistoryConstants DEF HistoryInv
  <1>5. CASE ~Logs /\ shown = 0
    <2>1. lines' = lines /\ logged' = logged
      BY <1>1, <1>5 DEF Noted
    <2>2. ended' = ended
      BY <1>1, <1>2, <1>5
    <2> QED
      BY <1>1, <2>1, <2>2 DEF HistoryInv
  <1> QED
    BY <1>3, <1>4, <1>5

LEMMA DiesAppendingInv ==
    ASSUME HistoryInv, DiesAppending
    PROVE  HistoryInv'
  <1>1. /\ Logs /\ ended' = FALSE /\ logged' = Noted /\ deaths' = Append(deaths, "appending")
        /\ UNCHANGED <<time, shown>>
    BY DEF DiesAppending
  <1>2. PICK ts \in {0, shown} : lines' = Glued(Pruned(lines), ts, Whole)
    BY DEF DiesAppending
  <1>3. /\ time \in Nat /\ time >= 1 /\ shown \in 0..time
        /\ deaths \in Seq({"appending", "pruning"}) /\ Len(deaths) \in Nat
    BY LenProperties DEF HistoryInv
  <1>4. /\ LinesOf(lines', LogWith(logged, shown), shown)
        /\ LoggedUpTo(LogWith(logged, shown), shown, time)
        /\ lines' # <<>> /\ Len(lines') <= HISTORY_PRUNE_AT + 1
        /\ "pruning" \notin Range(deaths) => Tracked(lines', 1 = 0, LogWith(logged, shown), Len(deaths) + 1)
    <2>1. 1 \in 0..1 /\ ~(1 = 0)
      OBVIOUS
    <2> QED
      BY <1>1, <1>2, <2>1, AppendedInv
  <1>5. (1 = 0) = FALSE /\ logged' = LogWith(logged, shown)
    BY <1>1 DEF Noted, LogWith
  <1>6. /\ deaths' \in Seq({"appending", "pruning"}) /\ Len(deaths') = Len(deaths) + 1
        /\ \A i \in 1..Len(deaths) : deaths'[i] = deaths[i]
    BY <1>1, <1>3, AppendProperties
  <1>7. "pruning" \in Range(deaths) => "pruning" \in Range(deaths')
    <2>1. DOMAIN deaths = 1..Len(deaths) /\ DOMAIN deaths' = 1..(Len(deaths) + 1)
      BY <1>3, <1>6, LenProperties
    <2>2. \A i \in 1..Len(deaths) : i \in 1..(Len(deaths) + 1)
      BY <1>3
    <2> QED
      BY <1>6, <2>1, <2>2 DEF Range
  <1> QED
    BY <1>1, <1>3, <1>4, <1>5, <1>6, <1>7 DEF HistoryInv

\* Lines cut off, and one of them spoiled.
LEMMA CutLines ==
    ASSUME NEW s \in Seq(Nat), NEW u \in Seq(Nat), NEW g, NEW sh \in Nat, LinesOf(s, g, sh),
           Len(u) <= Len(s), \A p \in 1..Len(u) : u[p] = s[p] \/ u[p] = 0
    PROVE  LinesOf(u, g, sh)
  <1>1. Len(s) \in Nat /\ Len(u) \in Nat /\ \A p \in 1..Len(u) : p \in 1..Len(s) /\ (u[p] # 0 => u[p] = s[p])
    BY LenProperties
  <1>2. Ascending(u)
    BY <1>1 DEF LinesOf, Ascending
  <1>3. \A p \in 1..Len(u) : u[p] # 0 => \E i \in 1..Len(g) : g[i] = u[p]
    BY <1>1 DEF LinesOf
  <1>4. ASSUME sh # 0, NEW p \in 1..Len(u)
        PROVE  u[p] <= sh /\ (u[p] = sh => p = Len(u))
    <2>1. CASE u[p] = 0
      BY <1>4, <2>1
    <2>2. CASE u[p] # 0
      <3>1. p \in 1..Len(s) /\ u[p] = s[p] /\ s[p] <= sh /\ (s[p] = sh => p = Len(s))
        BY <1>1, <1>4, <2>2 DEF LinesOf
      <3> QED
        BY <1>1, <3>1
    <2> QED
      BY <2>1, <2>2
  <1> QED
    BY <1>2, <1>3, <1>4 DEF LinesOf

LEMMA DiesPruningInv ==
    ASSUME HistoryInv, DiesPruning
    PROVE  HistoryInv'
  <1>1. /\ shown # 0 /\ deaths' = Append(deaths, "pruning")
        /\ UNCHANGED <<time, shown, logged>> /\ Len(lines) > HISTORY_PRUNE_AT
    BY DEF DiesPruning
  <1> DEFINE t == Pruned(lines)
  <1>2. PICK n \in 0..HISTORY_KEEP :
            \/ lines' = SubSeq(t, 1, n) /\ ended' \in {TRUE, n = 0}
            \/ n < HISTORY_KEEP /\ lines' = Append(SubSeq(t, 1, n), 0) /\ ended' = FALSE
    BY DEF DiesPruning
  <1>3. /\ time \in Nat /\ time >= 1 /\ shown \in 0..time /\ shown \in Nat
        /\ deaths \in Seq({"appending", "pruning"}) /\ Len(deaths) \in Nat
        /\ LoggedUpTo(logged, shown, time) /\ LinesOf(t, logged, shown) /\ lines \in Seq(Nat)
    BY LenProperties, PrunedKept DEF HistoryInv, LinesOf
  <1>4. t \in Seq(Nat) /\ Len(t) = HISTORY_KEEP
    BY <1>1, <1>3, PrunedLines
  <1> HIDE DEF t
  <1> DEFINE u == SubSeq(t, 1, n)
  <1>5. u \in Seq(Nat) /\ Len(u) = n /\ \A p \in 1..n : u[p] = t[p]
    <2>1. \A p \in 1..n : t[p] \in Nat
      BY <1>4, ElementOfSeq, HistoryConstants
    <2>2. n \in Nat
      BY <1>2, HistoryConstants
    <2>3. /\ SubSeq(t, 1, n) \in Seq(Nat)
          /\ Len(SubSeq(t, 1, n)) = (IF 1 <= n THEN n - 1 + 1 ELSE 0)
          /\ \A p \in 1..(n - 1 + 1) : SubSeq(t, 1, n)[p] = t[1 + p - 1]
      BY <2>1, <2>2, SubSeqProperties
    <2>4. (IF 1 <= n THEN n - 1 + 1 ELSE 0) = n /\ n - 1 + 1 = n /\ \A p \in 1..n : 1 + p - 1 = p
      BY <2>2
    <2> QED
      BY <2>3, <2>4
  <1> HIDE DEF u
  <1>6. /\ lines' \in Seq(Nat) /\ Len(lines') <= HISTORY_KEEP /\ ended' \in BOOLEAN
        /\ \A p \in 1..Len(lines') : lines'[p] = t[p] \/ lines'[p] = 0
        /\ ~ended' => lines' # <<>>
    <2>1. CASE lines' = u /\ ended' \in {TRUE, n = 0}
      <3>1. n # 0 => u # <<>>
        BY <1>5, EmptySeq
      <3>2. ended' \in BOOLEAN /\ (~ended' => n # 0)
        BY <2>1
      <3>3. n \in Nat /\ n <= HISTORY_KEEP
        BY HistoryConstants
      <3> QED
        BY <1>5, <2>1, <3>1, <3>2, <3>3
    <2>2. CASE n < HISTORY_KEEP /\ lines' = Append(u, 0) /\ ended' = FALSE
      <3>1. /\ lines' \in Seq(Nat) /\ lines' # <<>> /\ Len(lines') = n + 1 /\ lines'[n + 1] = 0
            /\ \A p \in 1..n : lines'[p] = u[p]
        BY <1>5, <2>2, AppendProperties
      <3>2. n \in Nat /\ n + 1 <= HISTORY_KEEP /\ \A p \in 1..(n + 1) : p \in 1..n \/ p = n + 1
        BY <2>2, HistoryConstants
      <3>3. \A p \in 1..(n + 1) : lines'[p] = t[p] \/ lines'[p] = 0
        BY <1>5, <3>1, <3>2
      <3> QED
        BY <2>2, <3>1, <3>2, <3>3
    <2> QED
      BY <1>2, <2>1, <2>2 DEF u
  <1>7. LinesOf(lines', logged, shown)
    BY <1>3, <1>4, <1>6, CutLines
  <1>8. Len(lines') <= HISTORY_PRUNE_AT + 1
    BY <1>6, LenProperties, HistoryConstants
  <1>9. deaths' \in Seq({"appending", "pruning"}) /\ "pruning" \in Range(deaths')
    <2>1. /\ deaths' \in Seq({"appending", "pruning"}) /\ Len(deaths') = Len(deaths) + 1
          /\ deaths'[Len(deaths) + 1] = "pruning"
      BY <1>1, <1>3, AppendProperties
    <2>2. DOMAIN deaths' = 1..(Len(deaths) + 1) /\ Len(deaths) + 1 \in 1..(Len(deaths) + 1)
      BY <1>3, <2>1, LenProperties
    <2> QED
      BY <2>1, <2>2 DEF Range
  <1> QED
    BY <1>1, <1>3, <1>6, <1>7, <1>8, <1>9 DEF HistoryInv

LEMMA HistoryStep == HistoryInv /\ [HistoryNext]_historyVars => HistoryInv'
  <1> SUFFICES ASSUME HistoryInv, [HistoryNext]_historyVars PROVE HistoryInv'
    OBVIOUS
  <1>1. CASE UNCHANGED historyVars
    <2>1. UNCHANGED <<time, shown, lines, ended, logged, deaths>>
      BY <1>1 DEF historyVars
    <2> QED
      BY <2>1 DEF HistoryInv
  <1> QED
    BY <1>1, StatusAppearsInv, append_historyInv, DiesAppendingInv, DiesPruningInv DEF HistoryNext

LEMMA ChartInOrder ==
    ASSUME HistoryInv
    PROVE  \A i, j \in DOMAIN load_history : i < j => load_history[i] < load_history[j]
  <1> DEFINE lh == load_history
  <1>1. /\ lines \in Seq(Nat)
        /\ \A a, b \in 1..Len(lines) : a < b /\ lines[a] # 0 /\ lines[b] # 0 => lines[a] < lines[b]
        /\ Len(lines) \in Nat
    BY LenProperties DEF HistoryInv, LinesOf, Ascending
  <1>2. lh = Filter(lines, Young)
    BY DEF load_history
  <1>3. lh \in Seq(Nat) /\ InOrderOf(lh, lines) /\ \A i \in 1..Len(lh) : lh[i] \in Young
    BY <1>1, <1>2, FilterType, FilterOrder, FilterKeeps
  <1> HIDE DEF lh
  <1>4. DOMAIN lh = 1..Len(lh) /\ Len(lh) \in Nat /\ \A i \in 1..Len(lh) : lh[i] # 0
    BY <1>3, LenProperties DEF Young
  <1>5. ASSUME NEW i \in 1..Len(lh), NEW j \in 1..Len(lh), i < j
        PROVE  lh[i] < lh[j]
    <2>1. PICK b \in 1..Len(lines) : lh[j] = lines[b] /\ \A k \in 1..(j - 1) : \E a \in 1..(b - 1) : lh[k] = lines[a]
      BY <1>3 DEF InOrderOf
    <2>2. i \in 1..(j - 1)
      BY <1>4, <1>5
    <2>3. PICK a \in 1..(b - 1) : lh[i] = lines[a]
      BY <2>1, <2>2
    <2>4. a \in 1..Len(lines) /\ a < b
      BY <1>1, <2>1, <2>3
    <2> QED
      BY <1>1, <1>4, <2>1, <2>3, <2>4
  <1> QED
    BY <1>4, <1>5 DEF lh

\* Of the latest statuses, as many as are kept, those are missing that were
\* lost, and those pruned too early: no more than the appends cut short.
LEMMA MissingFew ==
    ASSUME NEW s \in Seq(Nat), NEW g \in Seq(Nat), NEW e \in BOOLEAN, NEW d \in Nat, Tracked(s, e, g, d),
           NEW n \in Nat, n <= HISTORY_KEEP, n <= Len(g)
    PROVE  Cardinality({i \in (Len(g) - n + 1)..Len(g) : g[i] \notin Range(s)}) <= 2 * d
  <1> DEFINE missing == {i \in (Len(g) - n + 1)..Len(g) : g[i] \notin Range(s)}
             G == Len(g)
  <1>1. PICK c \in 0..G :
          /\ Cardinality(Lost(c, g, s)) <= 2 * d - BreaksStatus(s, e)
          /\ c > 0 => G - c - Cardinality(Lost(c, g, s)) + d - BreaksLine(s, e) >= HISTORY_KEEP
    BY DEF Tracked
  <1>2. /\ IsFiniteSet(Lost(c, g, s)) /\ Cardinality(Lost(c, g, s)) \in Nat
        /\ BreaksStatus(s, e) \in 0..2 /\ BreaksLine(s, e) \in 0..1 /\ G \in Nat
    BY <1>1, CountsOfLines
  <1>3. DOMAIN s = 1..Len(s)
    BY LenProperties
  <1> DEFINE early == (G - n + 1)..c
  <1>4. missing \subseteq Lost(c, g, s) \cup early
    <2> SUFFICES ASSUME NEW i \in missing, i \notin early PROVE i \in Lost(c, g, s)
      OBVIOUS
    <2>1. i \in (G - n + 1)..G /\ g[i] \notin Range(s)
      OBVIOUS
    <2>2. i \in (c + 1)..G
      BY <1>1, <1>2, <2>1
    <2>3. \A p \in 1..Len(s) : s[p] # g[i]
      BY <1>3, <2>1 DEF Range
    <2> QED
      BY <2>2, <2>3 DEF Lost
  <1>5. /\ IsFiniteSet(early)
        /\ Cardinality(early) = (IF G - n + 1 > c THEN 0 ELSE c - (G - n + 1) + 1)
    <2>1. G - n + 1 \in Int /\ c \in Int
      BY <1>1, <1>2
    <2> QED
      BY <2>1, FS_Interval
  <1> HIDE DEF missing, early, G
  <1>6. /\ IsFiniteSet(Lost(c, g, s) \cup early)
        /\ Cardinality(Lost(c, g, s) \cup early) <= Cardinality(Lost(c, g, s)) + Cardinality(early)
    <2>1. /\ IsFiniteSet(Lost(c, g, s) \cup early)
          /\ Cardinality(Lost(c, g, s) \cup early) =
               Cardinality(Lost(c, g, s)) + Cardinality(early) - Cardinality(Lost(c, g, s) \cap early)
      BY <1>2, <1>5, FS_Union
    <2>2. Lost(c, g, s) \cap early \in SUBSET early
      OBVIOUS
    <2>3. Cardinality(Lost(c, g, s) \cap early) \in Nat /\ Cardinality(early) \in Nat
      BY <1>5, <2>2, FS_Subset, FS_CardinalityType
    <2> QED
      BY <1>2, <2>1, <2>3
  <1>7. /\ Cardinality(missing) \in Nat
        /\ Cardinality(missing) <= Cardinality(Lost(c, g, s) \cup early)
    BY <1>4, <1>6, FS_Subset, FS_CardinalityType
  <1>8. Cardinality(early) \in Nat
    BY <1>5, FS_CardinalityType
  <1>9. PICK x \in Nat, y \in Nat, m \in Nat, bs \in 0..2, bl \in 0..1 :
          /\ x = Cardinality(Lost(c, g, s)) /\ y = Cardinality(early) /\ m = Cardinality(missing)
          /\ bs = BreaksStatus(s, e) /\ bl = BreaksLine(s, e)
    BY <1>2, <1>7, <1>8
  <1>10. m <= x + y /\ x <= 2 * d - bs /\ (c > 0 => G - c - x + d - bl >= HISTORY_KEEP)
    <2>1. m <= x + y
      <3>1. Cardinality(Lost(c, g, s) \cup early) \in Nat
        BY <1>6, FS_CardinalityType
      <3> QED
        BY <1>6, <1>7, <1>9, <3>1
    <2>2. x <= 2 * d - bs /\ (c > 0 => G - c - x + d - bl >= HISTORY_KEEP)
      BY <1>1, <1>9
    <2> QED
      BY <2>1, <2>2
  <1>11. y = (IF G - n + 1 > c THEN 0 ELSE c - (G - n + 1) + 1)
    BY <1>5, <1>9
  <1>12. c \in Nat /\ G \in Nat /\ HISTORY_KEEP \in Nat /\ n <= G /\ n <= HISTORY_KEEP
    BY <1>1, <1>2, HistoryConstants DEF G
  <1>13. m <= 2 * d
    <2>1. CASE y = 0
      BY <1>9, <1>10, <2>1
    <2>2. CASE y > 0
      <3>1. y = c - G + n /\ c > 0
        BY <1>11, <1>12, <2>2
      <3>2. m <= x + y /\ G - c - x + d - bl >= HISTORY_KEEP
        BY <1>10, <3>1
      <3>3. x \in Int /\ y \in Int /\ m \in Int /\ d \in Int /\ bl \in Int /\ n \in Int /\ bl >= 0 /\ d >= 0
        BY <1>9
      <3>4. m <= d
        BY <1>12, <3>1, <3>2, <3>3
      <3> QED
        BY <3>3, <3>4
    <2> QED
      BY <1>9, <2>1, <2>2
  <1> QED
    BY <1>9, <1>13 DEF missing, G

\* The chart is in order, the file bounded, and of the latest statuses no more
\* than two are missing for each append cut short: whatever was cut short, and
\* however often a file without its end was appended to and pruned.
THEOREM HistoryIsKept == HistorySpec => []HistoryKept
  <1>1. HistoryInv => HistoryKept
    <2> SUFFICES ASSUME HistoryInv PROVE HistoryKept
      OBVIOUS
    <2>1. ASSUME "pruning" \notin Range(deaths)
          PROVE  LET n == IF Len(logged) < HISTORY_KEEP THEN Len(logged) ELSE HISTORY_KEEP
                     missing == {i \in (Len(logged) - n + 1)..Len(logged) : logged[i] \notin Range(lines)}
                 IN  Cardinality(missing) <= 2 * Len(deaths)
      <3> DEFINE n == IF Len(logged) < HISTORY_KEEP THEN Len(logged) ELSE HISTORY_KEEP
      <3>1. /\ lines \in Seq(Nat) /\ logged \in Seq(Nat) /\ ended \in BOOLEAN /\ Len(deaths) \in Nat
            /\ Tracked(lines, ended, logged, Len(deaths)) /\ Len(logged) \in Nat
        BY <2>1, LenProperties DEF HistoryInv, LinesOf, LoggedUpTo
      <3>2. n \in Nat /\ n <= HISTORY_KEEP /\ n <= Len(logged)
        BY <3>1, HistoryConstants
      <3> HIDE DEF n
      <3>3. Cardinality({i \in (Len(logged) - n + 1)..Len(logged) : logged[i] \notin Range(lines)}) <= 2 * Len(deaths)
        BY <3>1, <3>2, MissingFew
      <3> QED
        BY <3>3 DEF n
    <2>2. Len(lines) <= HISTORY_PRUNE_AT + 1
      BY DEF HistoryInv
    <2> QED
      BY <2>1, <2>2, ChartInOrder DEF HistoryKept
  <1> QED
    BY HistoryInitInv, HistoryStep, <1>1, PTL DEF HistorySpec

-----------------------------------------------------------------------------
(* The online model.  Its deques hold the end of what a full recomputation
   holds, its sums all of it. *)

\* A deque moves as the end of the recomputation does.
LEMMA DequeMoves ==
    ASSUME NEW R, NEW s \in Seq(R), NEW x \in R
    PROVE  LastN(s, Recent) \in Seq(R) /\ LastN(Append(s, x), Recent) = Pushes(LastN(s, Recent), x)
<1>1. Recent \in Nat /\ Recent > 0
  BY OnlineModelAssumption
<1>2. LastN(s, Recent) \in Seq(R) /\ LastN(Append(s, x), Recent) = Slid(LastN(s, Recent), x, Recent)
  BY <1>1, WindowMoves
<1> QED
  BY <1>2 DEF Pushes, Slid

\* The size of a prediction, in its units and in those of a return.
LEMMA Magnitudes ==
    \A x \in Int : Magnitude(x) \in Nat /\ Magnitude(Scale * x) = Scale * Magnitude(x)
<1> SUFFICES ASSUME NEW x \in Int
             PROVE  Magnitude(x) \in Nat /\ Magnitude(Scale * x) = Scale * Magnitude(x)
  OBVIOUS
<1>1. Scale \in Nat /\ Scale > 0
  BY OnlineModelAssumption
<1>2. CASE x < 0
  <2>1. Scale * x \in Int /\ Scale * x < 0 /\ -(Scale * x) = Scale * (-x)
    BY <1>1, <1>2
  <2> QED
    BY <1>2, <2>1 DEF Magnitude
<1>3. CASE x >= 0
  <2>1. Scale * x \in Int /\ Scale * x >= 0
    BY <1>1, <1>3
  <2> QED
    BY <1>3, <2>1 DEF Magnitude
<1> QED
  BY <1>2, <1>3

\* What diagnostics sums is a whole number for every pair.
LEMMA MeasuresMap ==
    /\ Maps(AbsError, Pair, Int) /\ Maps(AbsTarget, Pair, Int) /\ Maps(Commits, Pair, Int)
    /\ Maps(SquaredError, Pair, Int) /\ Maps(SquaredTarget, Pair, Int)
    /\ \A p \in Pair :
         /\ AbsError[p] = Magnitude(Scale * p[2] - p[1]) /\ AbsTarget[p] = Magnitude(p[2])
         /\ SquaredError[p] = (Scale * p[2] - p[1]) * (Scale * p[2] - p[1])
         /\ SquaredTarget[p] = (Scale * p[2]) * (Scale * p[2])
         /\ Commits[p] = IF p[1] # 0 THEN 1 ELSE 0
<1>1. Scale \in Int
  BY OnlineModelAssumption
<1>2. ASSUME NEW p \in Pair
      PROVE  p[1] \in Int /\ p[2] \in Int /\ Residual[p] = Scale * p[2] - p[1] /\ Residual[p] \in Int
  <2>1. p[1] \in Int /\ p[2] \in Int
    BY DEF Pair
  <2> QED
    BY <1>1, <2>1 DEF Residual
<1>3. ASSUME NEW p \in Pair
      PROVE  /\ Magnitude(Residual[p]) \in Int /\ Magnitude(p[2]) \in Int
             /\ Residual[p] * Residual[p] \in Int /\ (Scale * p[2]) * (Scale * p[2]) \in Int
  BY <1>1, <1>2 DEF Magnitude
<1>4. Maps(AbsError, Pair, Int) /\ Maps(AbsTarget, Pair, Int)
  BY <1>3 DEF Maps, AbsError, AbsTarget
<1>5. Maps(SquaredError, Pair, Int) /\ Maps(SquaredTarget, Pair, Int) /\ Maps(Commits, Pair, Int)
  BY <1>3 DEF Maps, SquaredError, SquaredTarget, Commits
<1> QED
  BY <1>2, <1>4, <1>5 DEF AbsError, AbsTarget, SquaredError, SquaredTarget, Commits, Committed

\* A sequence without a commitment scores what predicting zero scores.
LEMMA AbstentionScores ==
    ASSUME NEW s \in Seq(Pair)
    PROVE  SumOver(Commits, s) = 0 => /\ SumOver(AbsError, s) = Scale * SumOver(AbsTarget, s)
                                      /\ SumOver(SquaredError, s) = SumOver(SquaredTarget, s)
<1> DEFINE Same(q) == /\ SumOver(Commits, q) \in Nat
                      /\ SumOver(Commits, q) = 0 => /\ SumOver(AbsError, q) = Scale * SumOver(AbsTarget, q)
                                                    /\ SumOver(SquaredError, q) = SumOver(SquaredTarget, q)
           W == {q \in Seq(Pair) : Same(q)}
<1>0. Scale \in Int
  BY OnlineModelAssumption
<1>1. <<>> \in W
  <2>1. <<>> \in Seq(Pair)
    BY EmptySeq
  <2>2. /\ SumOver(Commits, <<>>) = 0 /\ SumOver(AbsError, <<>>) = 0 /\ SumOver(AbsTarget, <<>>) = 0
        /\ SumOver(SquaredError, <<>>) = 0 /\ SumOver(SquaredTarget, <<>>) = 0
    BY MeasuresMap, SumOverLaws
  <2>3. Scale * 0 = 0
    BY <1>0
  <2> QED
    BY <2>1, <2>2, <2>3
<1>2. ASSUME NEW q \in Seq(Pair), NEW p \in Pair, q \in W
      PROVE  Append(q, p) \in W
  <2> DEFINE t == Append(q, p)
             c == SumOver(Commits, q)
             e == SumOver(AbsError, q)
             z == SumOver(AbsTarget, q)
             f == SumOver(SquaredError, q)
             y == SumOver(SquaredTarget, q)
  <2>1. t \in Seq(Pair)
    BY AppendProperties
  <2>2. /\ SumOver(Commits, t) = c + Commits[p] /\ SumOver(AbsError, t) = e + AbsError[p]
        /\ SumOver(AbsTarget, t) = z + AbsTarget[p] /\ SumOver(SquaredError, t) = f + SquaredError[p]
        /\ SumOver(SquaredTarget, t) = y + SquaredTarget[p]
    BY MeasuresMap, SumOverLaws
  <2>3. e \in Int /\ z \in Int /\ f \in Int /\ y \in Int
    BY MeasuresMap, SumOverLaws
  <2>4. c \in Nat /\ (c = 0 => e = Scale * z /\ f = y)
    BY <1>2
  <2>5. Commits[p] \in {0, 1} /\ (Commits[p] = 0 => p[1] = 0)
    BY MeasuresMap
  <2>6. p[1] \in Int /\ p[2] \in Int
    BY DEF Pair
  <2>7. Commits[p] = 0 => AbsError[p] = Scale * AbsTarget[p] /\ SquaredError[p] = SquaredTarget[p]
    <3>1. p[1] = 0 => Scale * p[2] - p[1] = Scale * p[2]
      BY <1>0, <2>6
    <3> QED
      BY <2>5, <2>6, <3>1, MeasuresMap, Magnitudes
  <2>8. AbsTarget[p] \in Int /\ SquaredTarget[p] \in Int /\ AbsError[p] \in Int /\ SquaredError[p] \in Int
    BY MeasuresMap DEF Maps
  <2> HIDE DEF t, c, e, z, f, y
  <2>9. SumOver(Commits, t) \in Nat /\ (SumOver(Commits, t) = 0 => c = 0 /\ Commits[p] = 0)
    BY <2>2, <2>4, <2>5
  <2>10. Scale * (z + AbsTarget[p]) = Scale * z + Scale * AbsTarget[p]
    BY <1>0, <2>3, <2>8
  <2>11. SumOver(Commits, t) = 0 =>
           /\ SumOver(AbsError, t) = Scale * SumOver(AbsTarget, t)
           /\ SumOver(SquaredError, t) = SumOver(SquaredTarget, t)
    BY <2>2, <2>4, <2>7, <2>9, <2>10
  <2> QED
    BY <2>1, <2>9, <2>11 DEF t
<1>3. s \in W
  <2> HIDE DEF W
  <2> QED
    BY <1>1, <1>2, SequenceInduction
<1> QED
  BY <1>3

\* The elements of the recomputation.
AsPair == [g \in Grading |-> <<g.pred, g.target>>]
AsCoverage == [g \in Grading |-> g.covered]
AsDirection == [g \in Grading |-> (g.pred > 0) = (g.target > 0)]

\* The recomputation is a comprehension over the gradings.
LEMMA GradingsMap ==
    /\ Maps(AsPair, Grading, Pair) /\ Maps(AsCoverage, Grading, BOOLEAN) /\ Maps(AsDirection, Grading, BOOLEAN)
    /\ \A s \in Seq(Grading) :
         /\ PairsOf(s) = Mapped(AsPair, s) /\ CoverageOf(s) = Mapped(AsCoverage, s)
         /\ DirectionsOf(s) = Mapped(AsDirection, s)
<1>1. Targets \subseteq Int
  BY OnlineModelAssumption
<1>2. Maps(AsPair, Grading, Pair)
  <2>1. ASSUME NEW g \in Grading
        PROVE  <<g.pred, g.target>> \in Pair
    BY <1>1 DEF Grading, Pair
  <2> QED
    BY <2>1 DEF Maps, AsPair
<1>3. Maps(AsCoverage, Grading, BOOLEAN) /\ Maps(AsDirection, Grading, BOOLEAN)
  <2>1. ASSUME NEW g \in Grading
        PROVE  g.covered \in BOOLEAN /\ ((g.pred > 0) = (g.target > 0)) \in BOOLEAN
    BY DEF Grading
  <2> QED
    BY <2>1 DEF Maps, AsCoverage, AsDirection
<1>4. ASSUME NEW s \in Seq(Grading)
      PROVE  /\ PairsOf(s) = Mapped(AsPair, s) /\ CoverageOf(s) = Mapped(AsCoverage, s)
             /\ DirectionsOf(s) = Mapped(AsDirection, s)
  <2>1. \A i \in DOMAIN s : s[i] \in Grading
    BY LenProperties, ElementOfSeq
  <2> QED
    BY <2>1 DEF PairsOf, CoverageOf, DirectionsOf, Mapped, AsPair, AsCoverage, AsDirection
<1> QED
  BY <1>2, <1>3, <1>4, Zenon

Models ==
    [kind : ModelKinds, n_learned : Nat, abs_err : Int, abs_target : Int,
     direction : Seq(BOOLEAN), pairs : Seq(Pair), coverage : Seq(BOOLEAN), tail : [n : Nat, mean : Int]]

OnlineTypeOK == model \in Models /\ pending \in Seq(Int) /\ graded \in Seq(Grading)

\* The deques are the end of the recomputation, and the sums all of it, from
\* the first label on.
FiguresTrack ==
    LET tails == PairsOf(Filter(graded, Moved))
    IN  /\ model.n_learned = Len(graded)
        /\ model.pairs = LastN(PairsOf(graded), Recent)
        /\ model.direction = LastN(DirectionsOf(Filter(graded, Decided)), Recent)
        /\ model.kind = "ev" => model.coverage = LastN(CoverageOf(graded), Recent)
        /\ model.abs_err = SumOver(AbsError, PairsOf(graded))
        /\ model.abs_target = SumOver(AbsTarget, PairsOf(graded))
        /\ model.kind = "classifier" =>
             /\ model.tail.n = Len(tails)
             /\ model.tail.mean * model.tail.n = Scale * SumOver(AbsTarget, tails)

\* Scale is a multiple of the number of labels only up to MaxLabels.
OnlineInv == OnlineTypeOK /\ FiguresTrack /\ Len(graded) + Len(pending) <= MaxLabels

\* A prediction is a whole number of its units, for every kind of model.
LEMMA PredictionIsInt == OnlineTypeOK => \A answers \in Heads : predict_one(model, answers) \in Int
<1> SUFFICES ASSUME OnlineTypeOK, NEW answers \in Heads
             PROVE  predict_one(model, answers) \in Int
  OBVIOUS
<1>1. /\ answers.main \in Int /\ answers.other \in Int /\ model.tail.mean \in Int /\ Scale \in Int
      /\ model.kind \in {"ev", "classifier", "meta", "regressor"}
  <2>1. model.kind \in ModelKinds /\ model.tail \in [n : Nat, mean : Int]
    BY DEF OnlineTypeOK, Models
  <2>2. answers.main \in Int /\ answers.other \in Int
    <3>1. HeadValues \subseteq Int
      BY OnlineModelAssumption
    <3> QED
      BY <3>1 DEF Heads
  <2>3. model.tail.mean \in Int
    BY <2>1
  <2>4. Scale \in Int
    BY OnlineModelAssumption
  <2>5. ModelKinds \subseteq {"ev", "classifier", "meta", "regressor"}
    BY OnlineModelAssumption, Zenon
  <2>6. model.kind \in {"ev", "classifier", "meta", "regressor"}
    BY <2>1, <2>5
  <2> QED
    BY <2>2, <2>3, <2>4, <2>6
<1> DEFINE main == answers.main
           other == answers.other
<1>2. Pessimistic(main, other) \in Int
  BY <1>1 DEF Pessimistic
<1>3. /\ Scale * Pessimistic(main, other) \in Int /\ main * model.tail.mean \in Int
      /\ Scale * main * other \in Int /\ Scale * main \in Int
  BY <1>1, <1>2
<1>4. CASE model.kind = "ev"
  BY <1>3, <1>4 DEF predict_one
<1>5. CASE model.kind = "classifier"
  BY <1>3, <1>5 DEF predict_one
<1>6. CASE model.kind = "meta"
  BY <1>3, <1>6 DEF predict_one
<1>7. CASE model.kind = "regressor"
  BY <1>3, <1>7 DEF predict_one
<1> QED
  BY <1>1, <1>4, <1>5, <1>6, <1>7

LEMMA OnlineInitInv == OnlineInit => OnlineInv
<1> SUFFICES ASSUME OnlineInit PROVE OnlineInv
  OBVIOUS
<1>1. PICK kind \in ModelKinds : model = NewModel(kind)
  BY DEF OnlineInit
<1>2. pending = <<>> /\ graded = <<>>
  BY DEF OnlineInit
<1>3. /\ <<>> \in Seq(Int) /\ <<>> \in Seq(Grading) /\ <<>> \in Seq(BOOLEAN) /\ <<>> \in Seq(Pair) /\ Len(<<>>) = 0
  BY EmptySeq
<1>4. OnlineTypeOK
  BY <1>1, <1>2, <1>3 DEF OnlineTypeOK, Models, NewModel
<1>5. PairsOf(<<>>) = <<>> /\ CoverageOf(<<>>) = <<>> /\ DirectionsOf(<<>>) = <<>>
  <2>1. <<>> \in Seq(Grading)
    BY <1>3
  <2>2. /\ PairsOf(<<>>) = Mapped(AsPair, <<>>) /\ CoverageOf(<<>>) = Mapped(AsCoverage, <<>>)
        /\ DirectionsOf(<<>>) = Mapped(AsDirection, <<>>)
    BY <2>1, GradingsMap, Zenon
  <2>3. Mapped(AsPair, <<>>) = <<>>
    BY GradingsMap, MappedEmpty
  <2>4. Mapped(AsCoverage, <<>>) = <<>>
    BY GradingsMap, MappedEmpty
  <2>5. Mapped(AsDirection, <<>>) = <<>>
    BY GradingsMap, MappedEmpty
  <2> QED
    BY <2>2, <2>3, <2>4, <2>5
<1>6. LastN(<<>>, Recent) = <<>>
  <2>1. ~(0 > Recent)
    BY OnlineModelAssumption
  <2> QED
    BY <1>3, <2>1 DEF LastN
<1>7. Filter(<<>>, Moved) = <<>> /\ Filter(<<>>, Decided) = <<>>
  BY FilterEmpty
<1>8. SumOver(AbsError, <<>>) = 0 /\ SumOver(AbsTarget, <<>>) = 0
  BY MeasuresMap, SumOverLaws
<1>9. FiguresTrack
  <2>1. Scale * 0 = 0 /\ 0 * 0 = 0
    BY OnlineModelAssumption
  <2> QED
    BY <1>1, <1>2, <1>3, <1>5, <1>6, <1>7, <1>8, <2>1 DEF FiguresTrack, NewModel
<1> QED
  BY <1>2, <1>3, <1>4, <1>9, OnlineModelAssumption DEF OnlineInv

\* A prediction only waits for its label.
LEMMA OnlinePredicts ==
    ASSUME OnlineInv, NEW answers \in Heads, Predicts(answers)
    PROVE  OnlineInv'
<1>1. model' = model /\ graded' = graded /\ pending' = Append(pending, predict_one(model, answers))
  BY DEF Predicts
<1>2. OnlineTypeOK /\ FiguresTrack
  BY DEF OnlineInv
<1>3. predict_one(model, answers) \in Int
  BY <1>2, PredictionIsInt
<1>4. pending' \in Seq(Int) /\ Len(pending') = Len(pending) + 1 /\ Len(pending) \in Nat
  <2>1. pending \in Seq(Int)
    BY <1>2 DEF OnlineTypeOK
  <2> QED
    BY <1>1, <1>3, <2>1, AppendProperties, LenProperties
<1>5. OnlineTypeOK' /\ FiguresTrack'
  BY <1>1, <1>2, <1>4 DEF OnlineTypeOK, FiguresTrack
<1>6. Len(graded) \in Nat /\ model.n_learned = Len(graded)
  <2>1. graded \in Seq(Grading)
    BY <1>2 DEF OnlineTypeOK
  <2> QED
    BY <1>2, <2>1, LenProperties DEF FiguresTrack
<1>7. model.n_learned + Len(pending) < MaxLabels
  BY DEF Predicts
<1>8. Len(graded') + Len(pending') <= MaxLabels
  <2>1. MaxLabels \in Nat
    BY OnlineModelAssumption
  <2> QED
    BY <1>1, <1>4, <1>6, <1>7, <2>1
<1> QED
  BY <1>5, <1>8 DEF OnlineInv

\* What learn_one does to each figure.
LEMMA LearnedModel ==
    ASSUME NEW m \in Models, NEW target \in Targets, NEW emitted \in Int, NEW answers \in Heads
    PROVE  LET n == learn_one(m, target, emitted, answers)
           IN  /\ n \in Models /\ n.kind = m.kind /\ n.n_learned = m.n_learned + 1
               /\ n.abs_err = m.abs_err + Magnitude(Scale * target - emitted)
               /\ n.abs_target = m.abs_target + Magnitude(target)
               /\ n.direction = IF emitted # 0 /\ target # 0
                                THEN Pushes(m.direction, (emitted > 0) = (target > 0)) ELSE m.direction
               /\ n.pairs = Pushes(m.pairs, <<emitted, target>>)
               /\ n.coverage = IF m.kind = "ev" THEN Pushes(m.coverage, Covers(answers, target)) ELSE m.coverage
               /\ n.tail = IF m.kind = "classifier" /\ Magnitude(target) > Band THEN Tails(m.tail, target) ELSE m.tail
<1> DEFINE err == m.abs_err + Magnitude(Scale * target - emitted)
           size == m.abs_target + Magnitude(target)
           direction == IF emitted # 0 /\ target # 0
                        THEN Pushes(m.direction, (emitted > 0) = (target > 0)) ELSE m.direction
           pairs == Pushes(m.pairs, <<emitted, target>>)
           coverage == IF m.kind = "ev" THEN Pushes(m.coverage, Covers(answers, target)) ELSE m.coverage
           tail == IF m.kind = "classifier" /\ Magnitude(target) > Band THEN Tails(m.tail, target) ELSE m.tail
           n == [kind |-> m.kind, n_learned |-> m.n_learned + 1, abs_err |-> err,
                 abs_target |-> size, direction |-> direction, pairs |-> pairs, coverage |-> coverage,
                 tail |-> tail]
<1>1. learn_one(m, target, emitted, answers)
        = [m EXCEPT !.abs_err = err, !.abs_target = size, !.direction = direction, !.pairs = pairs,
                    !.coverage = coverage, !.tail = tail, !.n_learned = m.n_learned + 1]
  BY DEF learn_one, Models
<1>2. target \in Int /\ Scale \in Int
  BY OnlineModelAssumption
<1>3. /\ m.direction \in Seq(BOOLEAN) /\ m.pairs \in Seq(Pair) /\ m.coverage \in Seq(BOOLEAN)
      /\ m.tail \in [n : Nat, mean : Int] /\ m.kind \in ModelKinds /\ m.n_learned \in Nat
      /\ m.abs_err \in Int /\ m.abs_target \in Int
  BY DEF Models
<1>4. ASSUME NEW R, NEW q \in Seq(R), NEW x \in R
      PROVE  Pushes(q, x) \in Seq(R)
  <2>1. Recent > 0
    BY OnlineModelAssumption
  <2>2. CASE Len(q) = Recent
    <3>1. q # <<>>
      BY <2>1, <2>2, EmptySeq
    <3>2. Tail(q) \in Seq(R)
      BY <3>1, HeadTailProperties
    <3> QED
      BY <2>2, <3>2, AppendProperties DEF Pushes
  <2>3. CASE Len(q) # Recent
    BY <2>3, AppendProperties DEF Pushes
  <2> QED
    BY <2>2, <2>3
<1>5. err \in Int /\ size \in Int
  BY <1>2, <1>3 DEF Magnitude
<1>6. direction \in Seq(BOOLEAN)
  <2>1. ((emitted > 0) = (target > 0)) \in BOOLEAN
    OBVIOUS
  <2> DEFINE same == (emitted > 0) = (target > 0)
  <2> HIDE DEF same
  <2>2. Pushes(m.direction, same) \in Seq(BOOLEAN)
    BY <1>3, <1>4, <2>1 DEF same
  <2> QED
    BY <1>3, <2>2 DEF same
<1>7. pairs \in Seq(Pair)
  <2>1. <<emitted, target>> \in Pair
    BY <1>2 DEF Pair
  <2> QED
    BY <1>3, <1>4, <2>1
<1>8. coverage \in Seq(BOOLEAN)
  <2>1. Covers(answers, target) \in BOOLEAN
    BY DEF Covers
  <2>2. Pushes(m.coverage, Covers(answers, target)) \in Seq(BOOLEAN)
    BY <1>3, <1>4, <2>1
  <2> QED
    BY <1>3, <2>2
<1>9. tail \in [n : Nat, mean : Int]
  <2>1. m.tail.n + 1 \in Nat /\ m.tail.n + 1 > 0 /\ Scale * Magnitude(target) - m.tail.mean \in Int
        /\ m.tail.mean \in Int
    BY <1>2, <1>3 DEF Magnitude
  <2> DEFINE k == (Scale * Magnitude(target) - m.tail.mean) \div (m.tail.n + 1)
  <2>2. k \in Int
    BY <2>1
  <2> HIDE DEF k
  <2>3. Tails(m.tail, target) = [n |-> m.tail.n + 1, mean |-> m.tail.mean + k]
    BY DEF Tails, k
  <2>4. Tails(m.tail, target) \in [n : Nat, mean : Int]
    BY <2>1, <2>2, <2>3
  <2> QED
    BY <1>3, <2>4
<1> HIDE DEF err, size, direction, pairs, coverage, tail
<1>10. learn_one(m, target, emitted, answers) = n
  BY <1>1 DEF Models
<1>11. n \in Models
  <2>1. m.n_learned + 1 \in Nat
    BY <1>3
  <2> QED
    BY <1>3, <1>5, <1>6, <1>7, <1>8, <1>9, <2>1 DEF Models
<1> QED
  BY <1>10, <1>11 DEF err, size, direction, pairs, coverage, tail

\* A label resolves: the recomputation grows by one grading, and each figure
\* by what that grading adds.
LEMMA OnlineResolves ==
    ASSUME OnlineInv, NEW target \in Targets, NEW answers \in Heads, Resolves(target, answers)
    PROVE  OnlineInv'
<1> DEFINE e == Head(pending)
           g == [pred |-> e, target |-> target, covered |-> Covers(answers, target)]
           pair == <<e, target>>
           moves == Filter(graded, Moved)
           sure == Filter(graded, Decided)
           sum == SumOver(AbsTarget, PairsOf(moves))
<1>1. /\ pending # <<>> /\ model' = learn_one(model, target, e, answers)
      /\ graded' = Append(graded, g) /\ pending' = Tail(pending)
  BY DEF Resolves
<1>2. /\ model \in Models /\ pending \in Seq(Int) /\ graded \in Seq(Grading) /\ FiguresTrack
      /\ Len(graded) + Len(pending) <= MaxLabels
  BY DEF OnlineInv, OnlineTypeOK
<1>3. e \in Int /\ pending' \in Seq(Int) /\ Len(pending') = Len(pending) - 1 /\ Len(pending) \in Nat
  BY <1>1, <1>2, HeadTailProperties, LenProperties
<1>4. target \in Int /\ Scale \in Int /\ MaxLabels \in Nat
  BY OnlineModelAssumption
<1>5. g \in Grading /\ pair \in Pair /\ AsPair[g] = pair /\ AsCoverage[g] = Covers(answers, target)
      /\ AsDirection[g] = ((e > 0) = (target > 0)) /\ g.pred = e /\ g.target = target
  <2>1. Covers(answers, target) \in BOOLEAN
    BY DEF Covers
  <2> HIDE DEF e
  <2>2. g \in Grading
    BY <1>3, <2>1 DEF Grading
  <2>3. pair \in Pair
    BY <1>3, <1>4 DEF Pair
  <2> QED
    BY <2>2, <2>3 DEF AsPair, AsCoverage, AsDirection
<1> HIDE DEF e
<1>6. /\ model' \in Models /\ model'.kind = model.kind /\ model'.n_learned = model.n_learned + 1
      /\ model'.abs_err = model.abs_err + Magnitude(Scale * target - e)
      /\ model'.abs_target = model.abs_target + Magnitude(target)
      /\ model'.direction = IF e # 0 /\ target # 0
                            THEN Pushes(model.direction, (e > 0) = (target > 0)) ELSE model.direction
      /\ model'.pairs = Pushes(model.pairs, pair)
      /\ model'.coverage = IF model.kind = "ev" THEN Pushes(model.coverage, Covers(answers, target))
                           ELSE model.coverage
      /\ model'.tail = IF model.kind = "classifier" /\ Magnitude(target) > Band THEN Tails(model.tail, target)
                       ELSE model.tail
  BY <1>1, <1>2, <1>3, LearnedModel
<1> HIDE DEF g
<1>7. graded' \in Seq(Grading) /\ Len(graded') = Len(graded) + 1 /\ Len(graded) \in Nat
  BY <1>1, <1>2, <1>5, AppendProperties, LenProperties
<1>8. /\ PairsOf(graded) \in Seq(Pair) /\ CoverageOf(graded) \in Seq(BOOLEAN)
      /\ PairsOf(graded') = Append(PairsOf(graded), pair)
      /\ CoverageOf(graded') = Append(CoverageOf(graded), Covers(answers, target))
  <2>1. PairsOf(graded) = Mapped(AsPair, graded) /\ CoverageOf(graded) = Mapped(AsCoverage, graded)
    BY <1>2, GradingsMap
  <2>2. PairsOf(graded') = Mapped(AsPair, graded') /\ CoverageOf(graded') = Mapped(AsCoverage, graded')
    BY <1>7, GradingsMap
  <2>3. Mapped(AsPair, Append(graded, g)) = Append(Mapped(AsPair, graded), AsPair[g])
    BY <1>2, <1>5, GradingsMap, MappedAppend
  <2>4. Mapped(AsCoverage, Append(graded, g)) = Append(Mapped(AsCoverage, graded), AsCoverage[g])
    BY <1>2, <1>5, GradingsMap, MappedAppend
  <2>5. Mapped(AsPair, graded) \in Seq(Pair) /\ Mapped(AsCoverage, graded) \in Seq(BOOLEAN)
    BY <1>2, GradingsMap, MappedType
  <2> QED
    BY <1>1, <1>5, <2>1, <2>2, <2>3, <2>4, <2>5
<1>9. /\ moves \in Seq(Grading) /\ sure \in Seq(Grading)
      /\ Filter(graded', Moved) = IF Magnitude(target) > Band THEN Append(moves, g) ELSE moves
      /\ Filter(graded', Decided) = IF e # 0 /\ target # 0 THEN Append(sure, g) ELSE sure
  <2>1. (g \in Moved <=> Magnitude(target) > Band) /\ (g \in Decided <=> e # 0 /\ target # 0)
    BY <1>5 DEF Moved, Decided
  <2>2. moves \in Seq(Grading) /\ sure \in Seq(Grading)
    BY <1>2, FilterType
  <2>3. Filter(Append(graded, g), Moved) = IF g \in Moved THEN Append(moves, g) ELSE moves
    BY <1>2, <1>5, FilterAppend
  <2>4. Filter(Append(graded, g), Decided) = IF g \in Decided THEN Append(sure, g) ELSE sure
    BY <1>2, <1>5, FilterAppend
  <2> QED
    BY <1>1, <2>1, <2>2, <2>3, <2>4
<1> HIDE DEF moves, sure
<1>10. /\ PairsOf(moves) \in Seq(Pair) /\ Len(PairsOf(moves)) = Len(moves) /\ Len(moves) \in Nat
       /\ PairsOf(Append(moves, g)) = Append(PairsOf(moves), pair)
  <2>1. Append(moves, g) \in Seq(Grading) /\ Len(moves) \in Nat
    BY <1>5, <1>9, AppendProperties, LenProperties
  <2>2. PairsOf(moves) = Mapped(AsPair, moves)
    BY <1>9, GradingsMap
  <2>3. PairsOf(Append(moves, g)) = Mapped(AsPair, Append(moves, g))
    BY <2>1, GradingsMap
  <2>4. Mapped(AsPair, Append(moves, g)) = Append(Mapped(AsPair, moves), AsPair[g])
    BY <1>5, <1>9, GradingsMap, MappedAppend
  <2>5. Mapped(AsPair, moves) \in Seq(Pair) /\ Len(Mapped(AsPair, moves)) = Len(moves)
    BY <1>9, GradingsMap, MappedType
  <2> QED
    BY <1>5, <2>1, <2>2, <2>3, <2>4, <2>5
<1>11. /\ DirectionsOf(sure) \in Seq(BOOLEAN)
       /\ DirectionsOf(Append(sure, g)) = Append(DirectionsOf(sure), (e > 0) = (target > 0))
  <2>1. Append(sure, g) \in Seq(Grading)
    BY <1>5, <1>9, AppendProperties
  <2>2. DirectionsOf(sure) = Mapped(AsDirection, sure)
    BY <1>9, GradingsMap
  <2>3. DirectionsOf(Append(sure, g)) = Mapped(AsDirection, Append(sure, g))
    BY <2>1, GradingsMap
  <2>4. Mapped(AsDirection, Append(sure, g)) = Append(Mapped(AsDirection, sure), AsDirection[g])
    BY <1>5, <1>9, GradingsMap, MappedAppend
  <2>5. Mapped(AsDirection, sure) \in Seq(BOOLEAN)
    BY <1>9, GradingsMap, MappedType
  <2> QED
    BY <1>5, <2>2, <2>3, <2>4, <2>5
<1>12. model'.n_learned = Len(graded')
  BY <1>2, <1>6, <1>7 DEF FiguresTrack
<1>13. model'.pairs = LastN(PairsOf(graded'), Recent)
  <2>1. model.pairs = LastN(PairsOf(graded), Recent)
    BY <1>2 DEF FiguresTrack
  <2>2. LastN(Append(PairsOf(graded), pair), Recent) = Pushes(LastN(PairsOf(graded), Recent), pair)
    BY <1>5, <1>8, DequeMoves
  <2> QED
    BY <1>6, <1>8, <2>1, <2>2
<1>14. model'.direction = LastN(DirectionsOf(Filter(graded', Decided)), Recent)
  <2>1. model.direction = LastN(DirectionsOf(sure), Recent)
    BY <1>2 DEF FiguresTrack, sure
  <2> DEFINE same == (e > 0) = (target > 0)
  <2>2. same \in BOOLEAN
    OBVIOUS
  <2> HIDE DEF same
  <2>3. LastN(Append(DirectionsOf(sure), same), Recent) = Pushes(LastN(DirectionsOf(sure), Recent), same)
    BY <1>11, <2>2, DequeMoves
  <2>4. CASE e # 0 /\ target # 0
    BY <1>6, <1>9, <1>11, <2>1, <2>3, <2>4 DEF same
  <2>5. CASE ~(e # 0 /\ target # 0)
    BY <1>6, <1>9, <2>1, <2>5
  <2> QED
    BY <2>4, <2>5
<1>15. model'.kind = "ev" => model'.coverage = LastN(CoverageOf(graded'), Recent)
  <2> SUFFICES ASSUME model.kind = "ev"
               PROVE  model'.coverage = LastN(CoverageOf(graded'), Recent)
    BY <1>6
  <2>1. model.coverage = LastN(CoverageOf(graded), Recent)
    BY <1>2 DEF FiguresTrack
  <2>2. Covers(answers, target) \in BOOLEAN
    BY DEF Covers
  <2>3. LastN(Append(CoverageOf(graded), Covers(answers, target)), Recent)
          = Pushes(LastN(CoverageOf(graded), Recent), Covers(answers, target))
    BY <1>8, <2>2, DequeMoves
  <2> QED
    BY <1>6, <1>8, <2>1, <2>3
<1>16. /\ model'.abs_err = SumOver(AbsError, PairsOf(graded'))
       /\ model'.abs_target = SumOver(AbsTarget, PairsOf(graded'))
  <2>1. /\ model.abs_err = SumOver(AbsError, PairsOf(graded))
        /\ model.abs_target = SumOver(AbsTarget, PairsOf(graded))
    BY <1>2 DEF FiguresTrack
  <2>2. SumOver(AbsError, Append(PairsOf(graded), pair)) = SumOver(AbsError, PairsOf(graded)) + AbsError[pair]
    BY <1>5, <1>8, MeasuresMap, SumOverLaws
  <2>3. SumOver(AbsTarget, Append(PairsOf(graded), pair)) = SumOver(AbsTarget, PairsOf(graded)) + AbsTarget[pair]
    BY <1>5, <1>8, MeasuresMap, SumOverLaws
  <2>4. AbsError[pair] = Magnitude(Scale * target - e) /\ AbsTarget[pair] = Magnitude(target)
    BY <1>5, MeasuresMap
  <2> QED
    BY <1>6, <1>8, <2>1, <2>2, <2>3, <2>4
<1>17. model'.kind = "classifier" =>
         /\ model'.tail.n = Len(PairsOf(Filter(graded', Moved)))
         /\ model'.tail.mean * model'.tail.n = Scale * SumOver(AbsTarget, PairsOf(Filter(graded', Moved)))
  <2> SUFFICES ASSUME model.kind = "classifier"
               PROVE  /\ model'.tail.n = Len(PairsOf(Filter(graded', Moved)))
                      /\ model'.tail.mean * model'.tail.n
                           = Scale * SumOver(AbsTarget, PairsOf(Filter(graded', Moved)))
    BY <1>6
  <2>1. model.tail.n = Len(moves) /\ model.tail.mean * model.tail.n = Scale * sum
    BY <1>2, <1>10 DEF FiguresTrack, moves
  <2>2. CASE ~(Magnitude(target) > Band)
    BY <1>6, <1>9, <1>10, <2>1, <2>2 DEF moves
  <2>3. CASE Magnitude(target) > Band
    <3> DEFINE n == model.tail.n
               mean == model.tail.mean
               size == Magnitude(target)
               k == (Scale * size - mean) \div (n + 1)
    <3>1. n \in Nat /\ mean \in Int /\ sum \in Int /\ size \in Int
      <4>1. model.tail \in [n : Nat, mean : Int]
        BY <1>2 DEF Models
      <4>2. sum \in Int
        BY <1>10, MeasuresMap, SumOverLaws
      <4> QED
        BY <1>4, <4>1, <4>2 DEF Magnitude
    <3>2. Scale % (n + 1) = 0
      <4>1. Len(moves) <= Len(graded)
        BY <1>2, FilterKeeps DEF moves
      <4>2. Len(pending) >= 1
        BY <1>1, <1>2, <1>3, EmptySeq
      <4>3. n <= Len(graded)
        BY <2>1, <4>1
      <4>4. n + 1 \in 1..MaxLabels
        <5>1. Len(graded) + Len(pending) <= MaxLabels
          BY <1>2
        <5> HIDE DEF n
        <5>2. n \in Nat
          BY <3>1
        <5> QED
          BY <1>3, <1>4, <1>7, <4>2, <4>3, <5>1, <5>2
      <4> QED
        BY <4>4, OnlineModelAssumption
    <3>3. mean * n = Scale * sum
      BY <2>1
    <3>4. model'.tail = [n |-> n + 1, mean |-> mean + k]
      BY <1>6, <2>3 DEF Tails
    <3> HIDE DEF n, mean, size, sum
    <3>5. k \in Int /\ (mean + k) * (n + 1) = Scale * (sum + size)
      <4>1. Scale \in Nat /\ Scale > 0
        BY OnlineModelAssumption
      <4>2. MeanIs(Scale, n, mean, sum)
        BY <3>3 DEF MeanIs
      <4>3. MeanGrows(Scale, n, mean, sum, size)
        BY <3>1, <3>2, <4>1, <4>2, MeanExact
      <4> QED
        BY <4>3 DEF MeanGrows, MeanIs
    <3> HIDE DEF k
    <3>6. model'.tail.n = n + 1 /\ model'.tail.mean = mean + k
      BY <3>4
    <3>7. Filter(graded', Moved) = Append(moves, g)
      BY <1>9, <2>3
    <3>8. Len(Append(PairsOf(moves), pair)) = Len(moves) + 1
      BY <1>5, <1>10, AppendProperties
    <3>9. SumOver(AbsTarget, Append(PairsOf(moves), pair)) = sum + size
      <4>1. SumOver(AbsTarget, Append(PairsOf(moves), pair)) = SumOver(AbsTarget, PairsOf(moves)) + AbsTarget[pair]
        BY <1>5, <1>10, MeasuresMap, SumOverLaws
      <4>2. AbsTarget[pair] = size
        BY <1>5, MeasuresMap DEF size
      <4> QED
        BY <4>1, <4>2 DEF sum
    <3>10. n = Len(moves)
      BY <2>1 DEF n
    <3> QED
      BY <1>10, <3>5, <3>6, <3>7, <3>8, <3>9, <3>10
  <2> QED
    BY <2>2, <2>3
<1>18. FiguresTrack'
  BY <1>12, <1>13, <1>14, <1>15, <1>16, <1>17 DEF FiguresTrack
<1>19. Len(graded') + Len(pending') <= MaxLabels
  BY <1>2, <1>3, <1>4, <1>7
<1> QED
  BY <1>3, <1>6, <1>7, <1>18, <1>19 DEF OnlineInv, OnlineTypeOK

LEMMA OnlineStep == OnlineInv /\ [OnlineNext]_onlineVars => OnlineInv'
<1> SUFFICES ASSUME OnlineInv, [OnlineNext]_onlineVars PROVE OnlineInv'
  OBVIOUS
<1>1. ASSUME NEW answers \in Heads, Predicts(answers)
      PROVE  OnlineInv'
  BY <1>1, OnlinePredicts
<1>2. ASSUME NEW target \in Targets, NEW answers \in Heads, Resolves(target, answers)
      PROVE  OnlineInv'
  BY <1>2, OnlineResolves
<1>3. CASE UNCHANGED onlineVars
  BY <1>3 DEF onlineVars, OnlineInv, OnlineTypeOK, FiguresTrack
<1> QED
  BY <1>1, <1>2, <1>3 DEF OnlineNext

\* The figures reported are computed from the deques and the sums.
LEMMA OnlineFiguresHonest == OnlineInv => FiguresHonest
<1> SUFFICES ASSUME OnlineInv PROVE FiguresHonest
  OBVIOUS
<1> DEFINE rolling == metrics(model).rolling
           all == PairsOf(graded)
           tails == PairsOf(Filter(graded, Moved))
<1>1. model \in Models /\ graded \in Seq(Grading) /\ FiguresTrack
  BY DEF OnlineInv, OnlineTypeOK
<1>2. /\ rolling.mae = SumOver(AbsError, model.pairs) /\ rolling.zero_mae = SumOver(AbsTarget, model.pairs)
      /\ rolling.ss_res = SumOver(SquaredError, model.pairs)
      /\ rolling.ss_zero = SumOver(SquaredTarget, model.pairs)
      /\ rolling.commits = SumOver(Commits, model.pairs)
  BY DEF metrics, diagnostics
<1>3. model.pairs \in Seq(Pair)
  BY <1>1 DEF Models
<1>4. model.n_learned <= Recent => rolling.mae = model.abs_err /\ rolling.zero_mae = model.abs_target
  <2>1. Len(all) = Len(graded)
    BY <1>1, GradingsMap, MappedType
  <2>2. /\ model.n_learned = Len(graded) /\ model.pairs = LastN(all, Recent)
        /\ model.abs_err = SumOver(AbsError, all) /\ model.abs_target = SumOver(AbsTarget, all)
    BY <1>1 DEF FiguresTrack
  <2> HIDE DEF all, rolling
  <2>3. model.n_learned <= Recent => LastN(all, Recent) = all
    <3>1. Recent \in Nat /\ Len(graded) \in Nat
      BY <1>1, OnlineModelAssumption, LenProperties
    <3> QED
      BY <2>1, <2>2, <3>1 DEF LastN
  <2> QED
    BY <1>2, <2>2, <2>3
<1>5. rolling.commits = 0 => rolling.mae = Scale * rolling.zero_mae /\ rolling.ss_res = rolling.ss_zero
  BY <1>2, <1>3, AbstentionScores
<1>6. model.kind = "classifier" => model.tail.mean * Len(tails) = Scale * SumOver(AbsTarget, tails)
  BY <1>1 DEF FiguresTrack
<1> HIDE DEF rolling, tails
<1> QED
  BY <1>1, <1>4, <1>5, <1>6 DEF FiguresHonest, FiguresTrack, rolling, tails

\* Evenly spaced indices, from 0, of n are indices, and none of them twice.
LEMMA Spaced ==
    ASSUME NEW n \in Nat, NEW limit \in Nat, limit > 0, n > limit
    PROVE  /\ \A i \in 1..limit : ((i - 1) * n) \div limit \in 0..(n - 1)
           /\ \A i, j \in 1..limit : i < j => ((i - 1) * n) \div limit < ((j - 1) * n) \div limit
<1>1. ASSUME NEW a \in Nat, NEW b \in Nat, b >= a + n
      PROVE  a \div limit \in Nat /\ b \div limit \in Nat /\ b \div limit > a \div limit
  BY <1>1
<1>2. ASSUME NEW i \in Int, NEW j \in Int, i < j, i >= 1
      PROVE  /\ (i - 1) * n \in Nat /\ (j - 1) * n \in Nat
             /\ (j - 1) * n >= (i - 1) * n + n
  <2>1. (j - 1) * n = (i - 1) * n + (j - i - 1) * n + n
    BY <1>2
  <2> DEFINE p == i - 1
             q == j - i - 1
             r == j - 1
  <2>2. p \in Nat /\ q \in Nat /\ r \in Nat
    BY <1>2
  <2> HIDE DEF p, q, r
  <2>3. p * n \in Nat /\ q * n \in Nat /\ r * n \in Nat
    BY <2>2
  <2>4. r * n = p * n + q * n + n
    BY <2>1 DEF p, q, r
  <2> QED
    BY <2>3, <2>4 DEF p, r
<1>3. ASSUME NEW i \in 1..limit
      PROVE  ((i - 1) * n) \div limit \in 0..(n - 1)
  <2> DEFINE j == limit + 1
             a == (i - 1) * n
             b == (j - 1) * n
  <2>1. a \in Nat /\ b \in Nat /\ b >= a + n
    BY <1>2
  <2>2. b = limit * n
    OBVIOUS
  <2> HIDE DEF a, b
  <2>3. b \div limit = n
    <3>1. (limit * n) \div limit = n
      OBVIOUS
    <3> QED
      BY <2>2, <3>1
  <2>4. a \div limit \in Nat /\ b \div limit > a \div limit
    BY <1>1, <2>1
  <2> QED
    BY <2>3, <2>4 DEF a
<1>4. ASSUME NEW i \in 1..limit, NEW j \in 1..limit, i < j
      PROVE  ((i - 1) * n) \div limit < ((j - 1) * n) \div limit
  <2> DEFINE a == (i - 1) * n
             b == (j - 1) * n
  <2>1. a \in Nat /\ b \in Nat /\ b >= a + n
    BY <1>2, <1>4
  <2> HIDE DEF a, b
  <2>2. a \div limit \in Nat /\ b \div limit \in Nat /\ b \div limit > a \div limit
    BY <1>1, <2>1
  <2> QED
    BY <2>2 DEF a, b
<1> QED
  BY <1>3, <1>4

\* A plot shows committed pairs in their order, none twice (online.py:242).
LEMMA PlotsAreThinned == PairsThinned
<1> SUFFICES ASSUME NEW limit \in 1..Recent
             PROVE  LET plot == recent_pairs([pairs |-> [i \in 1..Recent |-> <<i, 0>>]], limit)
                    IN  /\ Len(plot) = limit
                        /\ \A i, j \in 1..limit : i < j => plot[i][1] < plot[j][1]
  BY DEF PairsThinned
<1> DEFINE numbered == [i \in 1..Recent |-> <<i, 0>>]
           plot == recent_pairs([pairs |-> numbered], limit)
<1>1. Recent \in Nat /\ Recent > 0 /\ limit \in Nat /\ limit > 0 /\ limit <= Recent
  BY OnlineModelAssumption
<1>2. numbered \in Seq(Pair) /\ Len(numbered) = Recent /\ \A i \in 1..Recent : numbered[i][1] = i
  <2>1. \A i \in 1..Recent : <<i, 0>> \in Pair
    BY DEF Pair
  <2>2. numbered \in [1..Recent -> Pair]
    BY <2>1
  <2>3. numbered \in Seq(Pair)
    BY <1>1, <2>2, SeqDef
  <2>4. Len(numbered) = Recent
    BY <1>1
  <2> QED
    BY <2>3, <2>4
<1>3. \A i \in 1..Recent : numbered[i] \in Committed
  BY DEF Committed, Pair
<1> HIDE DEF numbered
<1>4. Filter(numbered, Committed) = numbered
  BY <1>2, <1>3, FilterAll
<1>5. plot = IF Recent <= limit THEN numbered
             ELSE [i \in 1..limit |-> numbered[((i - 1) * Recent) \div limit + 1]]
  BY <1>2, <1>4 DEF recent_pairs
<1> HIDE DEF plot
<1>6. ASSUME Recent <= limit
      PROVE  Len(plot) = limit /\ \A i, j \in 1..limit : i < j => plot[i][1] < plot[j][1]
  <2>1. plot = numbered /\ Recent = limit
    BY <1>1, <1>5, <1>6
  <2> QED
    BY <1>1, <1>2, <2>1
<1>7. ASSUME Recent > limit
      PROVE  Len(plot) = limit /\ \A i, j \in 1..limit : i < j => plot[i][1] < plot[j][1]
  <2> DEFINE at(i) == ((i - 1) * Recent) \div limit + 1
  <2>1. /\ \A i \in 1..limit : at(i) \in 1..Recent
        /\ \A i, j \in 1..limit : i < j => at(i) < at(j)
    <3>1. /\ \A i \in 1..limit : ((i - 1) * Recent) \div limit \in 0..(Recent - 1)
          /\ \A i, j \in 1..limit :
               i < j => ((i - 1) * Recent) \div limit < ((j - 1) * Recent) \div limit
      BY <1>1, <1>7, Spaced
    <3> DEFINE k(i) == ((i - 1) * Recent) \div limit
    <3>2. /\ \A i \in 1..limit : k(i) \in 0..(Recent - 1)
          /\ \A i, j \in 1..limit : i < j => k(i) < k(j)
      BY <3>1
    <3> HIDE DEF k
    <3>3. /\ \A i \in 1..limit : k(i) + 1 \in 1..Recent
          /\ \A i, j \in 1..limit : i < j => k(i) + 1 < k(j) + 1
      BY <1>1, <3>2
    <3> QED
      BY <3>3 DEF k
  <2>2. plot = [i \in 1..limit |-> numbered[at(i)]]
    BY <1>1, <1>5, <1>7
  <2> HIDE DEF at
  <2>3. Len(plot) = limit
    BY <1>1, <2>2
  <2>4. \A i \in 1..limit : plot[i][1] = at(i)
    BY <1>2, <2>1, <2>2
  <2> QED
    BY <2>1, <2>3, <2>4
<1>8. Len(plot) = limit /\ \A i, j \in 1..limit : i < j => plot[i][1] < plot[j][1]
  BY <1>1, <1>6, <1>7
<1> QED
  BY <1>8, Zenon DEF plot, numbered

\* The figures of the model are those of a full recomputation from its
\* predictions as they were made, whatever the horizon and the windows
\* (online.py:150).
THEOREM FiguresAreHonest == OnlineSpec => [](FiguresHonest /\ PairsThinned)
<1>1. OnlineInit => OnlineInv
  BY OnlineInitInv
<1>2. OnlineInv /\ [OnlineNext]_onlineVars => OnlineInv'
  BY OnlineStep
<1>3. OnlineInv => FiguresHonest /\ PairsThinned
  BY OnlineFiguresHonest, PlotsAreThinned
<1> QED
  BY <1>1, <1>2, <1>3, PTL DEF OnlineSpec

-----------------------------------------------------------------------------
(* The features.  A statistic maintained by adding and removing is that of its
   window, the leader's state that of its last quote, and a trade nothing that
   a model without the micro family sees. *)

\* What a window's totals sum.
Identity == [x \in Int |-> x]
Square == [x \in Int |-> x * x]

\* What the totals of a window do as it moves.
LEMMA TotalLaws ==
    /\ Total(<<>>) = 0 /\ Squares(<<>>) = 0
    /\ \A s \in Seq(Int) :
         /\ Total(s) \in Int /\ Squares(s) \in Int
         /\ \A x \in Int : Total(Append(s, x)) = Total(s) + x /\ Squares(Append(s, x)) = Squares(s) + x * x
         /\ s # <<>> => Total(s) = Head(s) + Total(Tail(s)) /\ Squares(s) = Head(s) * Head(s) + Squares(Tail(s))
<1>1. Maps(Identity, Int, Int) /\ Maps(Square, Int, Int)
  BY DEF Maps, Identity, Square
<1>2. \A x \in Int : Identity[x] = x /\ Square[x] = x * x
  BY DEF Identity, Square
<1>3. \A s : Total(s) = SumOver(Identity, s) /\ Squares(s) = SumOver(Square, s)
  BY DEF Total, Squares, Identity, Square
<1>4. Total(<<>>) = 0 /\ Squares(<<>>) = 0
  BY <1>1, <1>3, SumOverLaws
<1>5. ASSUME NEW s \in Seq(Int)
      PROVE  /\ Total(s) \in Int /\ Squares(s) \in Int
             /\ \A x \in Int : Total(Append(s, x)) = Total(s) + x /\ Squares(Append(s, x)) = Squares(s) + x * x
             /\ s # <<>> => Total(s) = Head(s) + Total(Tail(s))
                            /\ Squares(s) = Head(s) * Head(s) + Squares(Tail(s))
  <2>1. SumOver(Identity, s) \in Int /\ SumOver(Square, s) \in Int
    BY <1>1, SumOverLaws
  <2>2. ASSUME NEW x \in Int
        PROVE  /\ SumOver(Identity, Append(s, x)) = SumOver(Identity, s) + Identity[x]
               /\ SumOver(Square, Append(s, x)) = SumOver(Square, s) + Square[x]
    BY <1>1, SumOverLaws
  <2>3. ASSUME s # <<>>
        PROVE  /\ Total(s) = Head(s) + Total(Tail(s)) /\ Squares(s) = Head(s) * Head(s) + Squares(Tail(s))
    <3>1. Head(s) \in Int
      BY <2>3, HeadTailProperties
    <3>2. SumOver(Identity, s) = Identity[Head(s)] + SumOver(Identity, Tail(s))
      BY <1>1, <2>3, SumFromHead
    <3>3. SumOver(Square, s) = Square[Head(s)] + SumOver(Square, Tail(s))
      BY <1>1, <2>3, SumFromHead
    <3> QED
      BY <1>2, <1>3, <3>1, <3>2, <3>3
  <2> QED
    BY <1>2, <1>3, <2>1, <2>2, <2>3
<1> QED
  BY <1>4, <1>5

\* What Welford adds with x to k numbers of sum s and squares q: m and n are
\* the means before and after.
Deviations(unit, q, m, s) == unit * (unit * q - m * s)

DeviationsAdd(unit, s, q, x, m, n) ==
    Deviations(unit, q, m, s) + (unit * x - m) * (unit * x - n) = Deviations(unit, q + x * x, n, s + x)

LEMMA DeviationAdds ==
    ASSUME NEW unit \in Int, NEW k \in Int, NEW s \in Int, NEW q \in Int, NEW x \in Int, NEW m \in Int,
           NEW n \in Int, MeanIs(unit, k, m, s), MeanIs(unit, k + 1, n, s + x)
    PROVE  DeviationsAdd(unit, s, q, x, m, n)
<1>0. m * k = unit * s /\ n * (k + 1) = unit * (s + x)
  BY DEF MeanIs
<1> DEFINE a == unit * (unit * q)
           b == unit * (m * s)
           c == (unit * x) * (unit * x)
           d == (unit * x) * n
           e == m * (unit * x)
           f == m * n
           g == n * (unit * s)
<1>1. a \in Int /\ b \in Int /\ c \in Int /\ d \in Int /\ e \in Int /\ f \in Int /\ g \in Int
  OBVIOUS
<1>2. g + f = b + e
  <2>1. m * (n * (k + 1)) = n * (m * k) + m * n
    OBVIOUS
  <2>2. m * (unit * (s + x)) = unit * (m * s) + m * (unit * x)
    OBVIOUS
  <2>3. m * (n * (k + 1)) = m * (unit * (s + x)) /\ n * (m * k) = n * (unit * s)
    BY <1>0
  <2> DEFINE h == m * (n * (k + 1))
             i == n * (m * k)
             j == m * (unit * (s + x))
  <2>4. h = i + f /\ j = b + e /\ h = j /\ i = g
    BY <2>1, <2>2, <2>3
  <2> HIDE DEF h, i, j, b, e, f, g
  <2> QED
    BY <2>4
<1>3. unit * (n * (s + x)) = g + d
  OBVIOUS
<1>4. (unit * x - m) * (unit * x - n) = c - d - e + f
  OBVIOUS
<1>5. unit * (unit * (q + x * x)) = a + c
  OBVIOUS
<1>6. unit * (unit * q - m * s) = a - b
  OBVIOUS
<1> DEFINE h == unit * (n * (s + x))
           i == (unit * x - m) * (unit * x - n)
           j == unit * (unit * (q + x * x))
           l == unit * (unit * q - m * s)
<1>7. h = g + d /\ i = c - d - e + f /\ j = a + c /\ l = a - b
  BY <1>3, <1>4, <1>5, <1>6
<1> HIDE DEF a, b, c, d, e, f, g, h, i, j, l
<1>8. l + i = j - h
  BY <1>1, <1>2, <1>7
<1>9. unit * (unit * (q + x * x) - n * (s + x)) = j - h
  BY DEF h, j
<1> QED
  BY <1>8, <1>9 DEF i, l, Deviations, DeviationsAdd

\* An update of everything but the queue, spelt out.
LEMMA StatisticsExcept ==
    ASSUME NEW w \in Statistics, NEW c, NEW a, NEW b
    PROVE  [w EXCEPT !.n = c, !.mean = a, !.m2 = b] = [q |-> w.q, n |-> c, mean |-> a, m2 |-> b]
<1>1. [w EXCEPT !.n = c, !.mean = a, !.m2 = b] = [[[w EXCEPT !.n = c] EXCEPT !.mean = a] EXCEPT !.m2 = b]
  OBVIOUS
<1> DEFINE counted == [q |-> w.q, n |-> c, mean |-> w.mean, m2 |-> w.m2]
           centred == [q |-> w.q, n |-> c, mean |-> a, m2 |-> w.m2]
<1>2. [w EXCEPT !.n = c] = counted
  BY DEF Statistics
<1>3. [counted EXCEPT !.mean = a] = centred
  OBVIOUS
<1>4. [centred EXCEPT !.m2 = b] = [q |-> w.q, n |-> c, mean |-> a, m2 |-> b]
  OBVIOUS
<1> HIDE DEF counted, centred
<1> QED
  BY <1>1, <1>2, <1>3, <1>4

\* The statistic is that of the window: its deviations are exact before they
\* are divided.
Follows(w, window) ==
    /\ w \in Statistics /\ w.q = window /\ w.n = Len(window)
    /\ MeanIs(Unit, w.n, w.mean, Total(window))
    /\ w.m2 = Deviations(Unit, Squares(window), w.mean, Total(window))

\* add, of a window that is not full.
LEMMA AddFollows ==
    ASSUME NEW window \in Seq(Int), NEW w, Follows(w, window), NEW x \in Int, Len(window) < vol_window
    PROVE  Follows([_add(w, x) EXCEPT !.q = Append(@, x)], Append(window, x))
<1> DEFINE k == Len(window)
           s == Total(window)
           q == Squares(window)
           m == w.mean
           n == m + (Unit * x - m) \div (k + 1)
           more == Append(window, x)
           m2 == w.m2 + (Unit * x - m) * (Unit * x - n)
<1>1. k \in Nat /\ s \in Int /\ q \in Int /\ more \in Seq(Int) /\ Len(more) = k + 1
      /\ Total(more) = s + x /\ Squares(more) = q + x * x
  BY TotalLaws, AppendProperties, LenProperties
<1>2. w \in Statistics /\ w.q = window /\ w.n = k /\ MeanIs(Unit, k, m, s) /\ w.m2 = Deviations(Unit, q, m, s)
  BY DEF Follows
<1>3. m \in Int /\ w.m2 \in Int
  BY <1>2 DEF Statistics
<1>4. Unit \in Nat /\ Unit > 0 /\ Unit % (k + 1) = 0
  <2>1. k + 1 \in 1..vol_window
    BY <1>1, FeaturesAssumption
  <2> QED
    BY <2>1, FeaturesAssumption
<1>5. [_add(w, x) EXCEPT !.q = Append(@, x)] = [q |-> more, n |-> k + 1, mean |-> n, m2 |-> m2]
  <2> DEFINE c == w.n + 1
             a == w.mean + (Unit * x - w.mean) \div (w.n + 1)
             b == w.m2 + (Unit * x - w.mean) * (Unit * x - a)
  <2>1. _add(w, x) = [w EXCEPT !.n = c, !.mean = a, !.m2 = b]
    BY Zenon DEF _add
  <2>2. c = k + 1 /\ a = n /\ b = m2
    BY <1>2
  <2> HIDE DEF a, b, c, k, s, q, m, n, m2
  <2>3. [w EXCEPT !.n = c, !.mean = a, !.m2 = b] = [q |-> window, n |-> c, mean |-> a, m2 |-> b]
    <3>1. w \in Statistics /\ w.q = window
      BY <1>2
    <3> QED
      BY <3>1, StatisticsExcept
  <2> HIDE DEF more
  <2>4. [[q |-> window, n |-> c, mean |-> a, m2 |-> b] EXCEPT !.q = more] = [q |-> more, n |-> c, mean |-> a, m2 |-> b]
    OBVIOUS
  <2>5. _add(w, x) = [q |-> window, n |-> c, mean |-> a, m2 |-> b]
    BY <2>1, <2>3
  <2>6. _add(w, x).q = window
    BY <2>5
  <2> QED
    BY <2>2, <2>4, <2>5, <2>6 DEF more
<1> HIDE DEF k, s, q, m, more
<1>6. n \in Int /\ MeanIs(Unit, k + 1, n, s + x)
  <2> DEFINE j == (Unit * x - m) \div (k + 1)
  <2>1. j \in Int /\ MeanIs(Unit, k + 1, m + j, s + x)
    <3>1. k \in Nat /\ m \in Int /\ s \in Int /\ Unit \in Nat /\ Unit > 0 /\ Unit % (k + 1) = 0
      BY <1>1, <1>3, <1>4
    <3>2. MeanIs(Unit, k, m, s)
      BY <1>2
    <3>3. MeanGrows(Unit, k, m, s, x)
      BY <3>1, <3>2, MeanExact
    <3> QED
      BY <3>3, Zenon DEF MeanGrows
  <2> HIDE DEF j
  <2>2. m + j \in Int
    BY <1>3, <2>1
  <2> QED
    BY <2>1, <2>2 DEF j
<1> HIDE DEF n
<1>7. DeviationsAdd(Unit, s, q, x, m, n)
  <2>1. Unit \in Int /\ k \in Int /\ s \in Int /\ q \in Int /\ m \in Int /\ n \in Int
    BY <1>1, <1>3, <1>4, <1>6
  <2>2. MeanIs(Unit, k, m, s)
    BY <1>2
  <2>3. MeanIs(Unit, k + 1, n, s + x)
    BY <1>6
  <2> QED
    BY <2>1, <2>2, <2>3, DeviationAdds
<1>8. m2 = Deviations(Unit, q + x * x, n, s + x)
  BY <1>2, <1>7 DEF DeviationsAdd
<1>9. m2 \in Int
  BY <1>3, <1>4, <1>6
<1> HIDE DEF m2
<1>10. [q |-> more, n |-> k + 1, mean |-> n, m2 |-> m2] \in Statistics
  <2>1. k + 1 \in Nat
    BY <1>1
  <2> QED
    BY <1>1, <1>6, <1>9, <2>1 DEF Statistics
<1> DEFINE new == [q |-> more, n |-> k + 1, mean |-> n, m2 |-> m2]
<1>11. new.q = more /\ new.n = k + 1 /\ new.mean = n /\ new.m2 = m2
  OBVIOUS
<1> HIDE DEF new
<1>12. Follows(new, more)
  BY <1>1, <1>6, <1>8, <1>10, <1>11 DEF Follows, new
<1> QED
  BY <1>5, <1>12 DEF new, more

\* remove, of the oldest of a window that is full.
LEMMA RemoveFollows ==
    ASSUME NEW window \in Seq(Int), NEW w, Follows(w, window), Len(window) = vol_window
    PROVE  Follows([_remove(w, Head(w.q)) EXCEPT !.q = Tail(@)], Tail(window))
<1> DEFINE x == Head(window)
           less == Tail(window)
           k == vol_window - 1
           s == Total(less)
           q == Squares(less)
           m == w.mean
           n == (w.n * w.mean - Unit * x) \div (w.n - 1)
           m2 == w.m2 - (Unit * x - m) * (Unit * x - n)
<1>0. vol_window \in Nat /\ vol_window >= 2 /\ Unit \in Nat /\ Unit > 0 /\ Unit % k = 0 /\ k \in Nat /\ k > 0
  <2>1. vol_window \in Nat /\ vol_window >= 2
    BY FeaturesAssumption
  <2>2. k \in 1..vol_window
    BY <2>1
  <2>3. Unit % k = 0
    BY <2>2, FeaturesAssumption
  <2> QED
    BY <2>1, <2>3, FeaturesAssumption
<1>1. window # <<>>
  BY <1>0, EmptySeq
<1>2. x \in Int /\ less \in Seq(Int) /\ Len(less) = k
  BY <1>1, HeadTailProperties
<1>3. s \in Int /\ q \in Int /\ Total(window) = x + s /\ Squares(window) = x * x + q
  BY <1>1, <1>2, TotalLaws
<1>4. /\ w \in Statistics /\ w.q = window /\ w.n = vol_window /\ MeanIs(Unit, vol_window, m, Total(window))
      /\ w.m2 = Deviations(Unit, Squares(window), m, Total(window))
  BY DEF Follows
<1>5. m \in Int /\ w.m2 \in Int
  BY <1>4 DEF Statistics
<1>6. [_remove(w, Head(w.q)) EXCEPT !.q = Tail(@)] = [q |-> less, n |-> k, mean |-> n, m2 |-> m2]
  <2> DEFINE c == w.n - 1
             b == w.m2 - (Unit * x - w.mean) * (Unit * x - n)
  <2>1. _remove(w, x) = [w EXCEPT !.n = c, !.mean = n, !.m2 = b]
    BY Zenon DEF _remove
  <2>2. c = k /\ b = m2 /\ w.q = window
    BY <1>4
  <2> HIDE DEF b, c, k, s, q, m, n, m2, x
  <2>3. [w EXCEPT !.n = c, !.mean = n, !.m2 = b] = [q |-> window, n |-> c, mean |-> n, m2 |-> b]
    <3>1. w \in Statistics /\ w.q = window
      BY <1>4
    <3> QED
      BY <3>1, StatisticsExcept
  <2>4. _remove(w, x) = [q |-> window, n |-> c, mean |-> n, m2 |-> b]
    BY <2>1, <2>3
  <2> HIDE DEF less
  <2>5. [[q |-> window, n |-> c, mean |-> n, m2 |-> b] EXCEPT !.q = less] = [q |-> less, n |-> c, mean |-> n, m2 |-> b]
    OBVIOUS
  <2>6. _remove(w, x).q = window
    BY <2>4
  <2>7. [_remove(w, x) EXCEPT !.q = Tail(@)] = [q |-> less, n |-> c, mean |-> n, m2 |-> b]
    BY <2>4, <2>5, <2>6 DEF less
  <2>8. x = Head(w.q)
    BY <2>2 DEF x
  <2> QED
    BY <2>2, <2>7, <2>8
<1> HIDE DEF less, s, q, m, x
<1>7. n \in Int /\ MeanIs(Unit, k, n, s)
  <2> DEFINE c == Unit \div k
             j == c * s
  <2>1. c \in Int /\ Unit = k * c
    <3> HIDE DEF k
    <3> QED
      BY <1>0
  <2>2. vol_window * m - Unit * x = Unit * s
    <3>1. Unit * (x + s) = Unit * x + Unit * s /\ vol_window * m = m * vol_window
      BY <1>0, <1>2, <1>3, <1>5
    <3> DEFINE a == vol_window * m
               b == Unit * x
               d == Unit * s
    <3>2. a = b + d /\ b \in Int /\ d \in Int /\ a \in Int
      BY <1>0, <1>2, <1>3, <1>4, <1>5, <3>1 DEF MeanIs
    <3> HIDE DEF a, b, d
    <3>3. a - b = d
      BY <3>2
    <3> QED
      BY <3>3 DEF a, b, d
  <2> HIDE DEF c
  <2>3. j \in Int /\ Unit * s = k * j
    <3> HIDE DEF k
    <3> QED
      BY <1>0, <1>3, <2>1
  <2>4. n = (k * j) \div k
    BY <1>4, <2>2, <2>3 DEF m
  <2>5. (k * j) \div k = j
    <3> HIDE DEF k, j
    <3> QED
      BY <1>0, <2>3
  <2>6. j * k = k * j
    <3> HIDE DEF k, j
    <3> QED
      BY <1>0, <2>3
  <2> HIDE DEF n, j
  <2> QED
    BY <2>3, <2>4, <2>5, <2>6 DEF MeanIs
<1> HIDE DEF n
<1>8. MeanIs(Unit, k + 1, m, s + x)
  <2>1. k + 1 = vol_window
    BY <1>0
  <2>2. s + x = x + s
    BY <1>2, <1>3
  <2> QED
    BY <1>3, <1>4, <2>1, <2>2
<1>9. DeviationsAdd(Unit, s, q, x, n, m)
  <2> HIDE DEF k
  <2>1. Unit \in Int /\ k \in Int /\ s \in Int /\ q \in Int /\ m \in Int /\ n \in Int /\ x \in Int
    BY <1>0, <1>2, <1>3, <1>5, <1>7
  <2>2. MeanIs(Unit, k, n, s)
    BY <1>7
  <2>3. MeanIs(Unit, k + 1, m, s + x)
    BY <1>8
  <2> QED
    BY <2>1, <2>2, <2>3, DeviationAdds
<1>10. w.m2 = Deviations(Unit, q + x * x, m, s + x)
  <2>1. Squares(window) = q + x * x /\ Total(window) = s + x
    BY <1>2, <1>3
  <2> QED
    BY <1>4, <2>1
<1>11. m2 = Deviations(Unit, q, n, s)
  <2> DEFINE a == (Unit * x - n) * (Unit * x - m)
             b == (Unit * x - m) * (Unit * x - n)
             d == Deviations(Unit, q, n, s)
  <2>1. a = b /\ a \in Int /\ d \in Int
    BY <1>0, <1>2, <1>3, <1>5, <1>7 DEF Deviations
  <2>2. w.m2 = d + a
    BY <1>9, <1>10 DEF DeviationsAdd
  <2> HIDE DEF a, b, d
  <2>3. w.m2 - b = d
    BY <1>5, <2>1, <2>2
  <2> QED
    BY <2>3 DEF b, d
<1>12. m2 \in Int
  BY <1>0, <1>2, <1>5, <1>7
<1> HIDE DEF m2
<1> DEFINE new == [q |-> less, n |-> k, mean |-> n, m2 |-> m2]
<1>13. new \in Statistics
  <2> HIDE DEF k
  <2> QED
    BY <1>0, <1>2, <1>7, <1>12 DEF Statistics
<1>14. new.q = less /\ new.n = k /\ new.mean = n /\ new.m2 = m2
  OBVIOUS
<1> HIDE DEF new
<1>15. Follows(new, less)
  BY <1>2, <1>7, <1>11, <1>13, <1>14 DEF Follows, s, q
<1> QED
  BY <1>6, <1>15 DEF new, less

\* Welford moves with its window.
LEMMA WelfordFollows ==
    ASSUME NEW window \in Seq(Int), NEW w, Follows(w, window), NEW x \in Int, Len(window) <= vol_window
    PROVE  Follows(Welford(w, x), Slid(window, x, vol_window))
<1>0. vol_window \in Nat /\ vol_window >= 2 /\ Len(window) \in Nat
  BY FeaturesAssumption, LenProperties
<1>1. w.n = Len(window)
  BY DEF Follows
<1>2. CASE Len(window) = vol_window
  <2> DEFINE old == [_remove(w, Head(w.q)) EXCEPT !.q = Tail(@)]
  <2>1. Follows(old, Tail(window))
    BY <1>2, RemoveFollows
  <2>2. Tail(window) \in Seq(Int) /\ Len(Tail(window)) < vol_window
    <3>1. window # <<>>
      BY <1>0, <1>2, EmptySeq
    <3> QED
      BY <1>0, <1>2, <3>1, HeadTailProperties
  <2>3. Welford(w, x) = [_add(old, x) EXCEPT !.q = Append(@, x)]
    BY <1>1, <1>2, Zenon DEF Welford
  <2> HIDE DEF old
  <2>4. Follows([_add(old, x) EXCEPT !.q = Append(@, x)], Append(Tail(window), x))
    BY <2>1, <2>2, AddFollows
  <2> QED
    BY <1>2, <2>3, <2>4 DEF Slid
<1>3. CASE Len(window) # vol_window
  <2>1. Welford(w, x) = [_add(w, x) EXCEPT !.q = Append(@, x)]
    BY <1>1, <1>3, Zenon DEF Welford
  <2>2. Follows([_add(w, x) EXCEPT !.q = Append(@, x)], Append(window, x))
    BY <1>0, <1>3, AddFollows
  <2> QED
    BY <1>3, <2>1, <2>2 DEF Slid
<1> QED
  BY <1>2, <1>3

(* The engines. *)

\* An update of the queue, spelt out.
LEMMA QueueExcept ==
    ASSUME NEW a, NEW b, NEW c, NEW d, NEW e
    PROVE  [[q |-> a, n |-> b, mean |-> c, m2 |-> d] EXCEPT !.q = e] = [q |-> e, n |-> b, mean |-> c, m2 |-> d]
  OBVIOUS

\* The statistics stay numbers, and count what they keep.
LEMMA WelfordType ==
    ASSUME NEW w \in Statistics, w.n = Len(w.q), NEW x \in Int
    PROVE  Welford(w, x) \in Statistics /\ Welford(w, x).n = Len(Welford(w, x).q)
<1> DEFINE add(v) == [_add(v, x) EXCEPT !.q = Append(@, x)]
           Sound(v) == v \in Statistics /\ v.n = Len(v.q)
<1>0. vol_window \in Nat /\ vol_window >= 2 /\ Unit \in Nat
  BY FeaturesAssumption
<1>1. ASSUME NEW v, Sound(v)
      PROVE  Sound(add(v))
  <2>0. /\ v.q \in Seq(Int) /\ v.n = Len(v.q) /\ v.mean \in Int /\ v.m2 \in Int /\ v.n \in Nat
        /\ Append(v.q, x) \in Seq(Int) /\ Len(Append(v.q, x)) = v.n + 1
    BY <1>1, AppendProperties DEF Statistics
  <2> DEFINE delta == Unit * x - v.mean
             m == v.mean + delta \div (v.n + 1)
             d == v.m2 + delta * (Unit * x - m)
  <2>1. m \in Int
    <3>1. delta \in Int /\ v.n + 1 \in Nat /\ v.n + 1 > 0
      BY <1>0, <2>0
    <3> HIDE DEF delta
    <3>2. delta \div (v.n + 1) \in Int
      BY <3>1
    <3> QED
      BY <2>0, <3>2
  <2>2. d \in Int
    <3> HIDE DEF m
    <3> QED
      BY <1>0, <2>0, <2>1
  <2>3. _add(v, x) = [v EXCEPT !.n = v.n + 1, !.mean = m, !.m2 = d]
    BY Zenon DEF _add
  <2> HIDE DEF m, d, delta
  <2>4. _add(v, x) = [q |-> v.q, n |-> v.n + 1, mean |-> m, m2 |-> d]
    BY <1>1, <2>3, StatisticsExcept
  <2>5. add(v) = [q |-> Append(v.q, x), n |-> v.n + 1, mean |-> m, m2 |-> d]
    <3>1. _add(v, x).q = v.q
      BY <2>4
    <3>2. add(v) = [_add(v, x) EXCEPT !.q = Append(v.q, x)]
      BY <3>1
    <3>3. [[q |-> v.q, n |-> v.n + 1, mean |-> m, m2 |-> d] EXCEPT !.q = Append(v.q, x)]
            = [q |-> Append(v.q, x), n |-> v.n + 1, mean |-> m, m2 |-> d]
      BY QueueExcept
    <3> HIDE DEF add
    <3> QED
      BY <2>4, <3>2, <3>3, Zenon
  <2>6. [q |-> Append(v.q, x), n |-> v.n + 1, mean |-> m, m2 |-> d] \in Statistics
    BY <2>0, <2>1, <2>2 DEF Statistics
  <2>7. add(v).n = v.n + 1 /\ add(v).q = Append(v.q, x)
    <3> HIDE DEF add
    <3> QED
      BY <2>5
  <2> HIDE DEF add
  <2> QED
    BY <2>0, <2>5, <2>6, <2>7
<1>2. CASE w.n = vol_window
  <2> DEFINE old == [_remove(w, Head(w.q)) EXCEPT !.q = Tail(@)]
  <2>0. /\ w.q \in Seq(Int) /\ w.n = Len(w.q) /\ w.mean \in Int /\ w.m2 \in Int /\ w.n \in Nat /\ w.n >= 2
    BY <1>0, <1>2 DEF Statistics
  <2>1. Head(w.q) \in Int /\ Tail(w.q) \in Seq(Int) /\ Len(Tail(w.q)) = w.n - 1
    BY <2>0, EmptySeq, HeadTailProperties
  <2> DEFINE y == Head(w.q)
             u == w.n * w.mean - Unit * y
             m == u \div (w.n - 1)
             d == w.m2 - (Unit * y - w.mean) * (Unit * y - m)
  <2>2. m \in Int
    <3>1. u \in Int /\ w.n - 1 \in Nat /\ w.n - 1 > 0
      BY <1>0, <2>0, <2>1
    <3> HIDE DEF u
    <3> QED
      BY <3>1
  <2>3. d \in Int
    <3> HIDE DEF m
    <3> QED
      BY <1>0, <2>0, <2>1, <2>2
  <2>4. _remove(w, y) = [w EXCEPT !.n = w.n - 1, !.mean = m, !.m2 = d]
    BY Zenon DEF _remove
  <2> HIDE DEF m, d, u
  <2>5. _remove(w, y) = [q |-> w.q, n |-> w.n - 1, mean |-> m, m2 |-> d]
    BY <2>4, StatisticsExcept
  <2>6. old = [q |-> Tail(w.q), n |-> w.n - 1, mean |-> m, m2 |-> d]
    <3>1. _remove(w, y).q = w.q
      BY <2>5
    <3>2. old = [_remove(w, y) EXCEPT !.q = Tail(w.q)]
      BY <3>1
    <3> DEFINE k == w.n - 1
               t == Tail(w.q)
    <3>3. [[q |-> w.q, n |-> k, mean |-> m, m2 |-> d] EXCEPT !.q = t] = [q |-> t, n |-> k, mean |-> m, m2 |-> d]
      <4> HIDE DEF k, t
      <4> QED
        BY QueueExcept
    <3> HIDE DEF old
    <3> QED
      BY <2>5, <3>2, <3>3, Zenon
  <2>7. Sound(old)
    <3>1. [q |-> Tail(w.q), n |-> w.n - 1, mean |-> m, m2 |-> d] \in Statistics
      BY <2>0, <2>1, <2>2, <2>3 DEF Statistics
    <3> HIDE DEF old
    <3>2. old.q = Tail(w.q) /\ old.n = w.n - 1
      BY <2>6
    <3> QED
      BY <2>0, <2>1, <2>6, <3>1, <3>2
  <2>8. Welford(w, x) = add(old)
    BY <1>2, Zenon DEF Welford
  <2> HIDE DEF add, old
  <2>9. Sound(add(old))
    <3> HIDE DEF Sound
    <3> QED
      BY <1>1, <2>7
  <2> QED
    BY <2>8, <2>9
<1>3. CASE w.n # vol_window
  <2>1. Welford(w, x) = add(w)
    BY <1>3, Zenon DEF Welford
  <2> HIDE DEF add
  <2>2. Sound(add(w))
    BY <1>1
  <2> QED
    BY <2>1, <2>2
<1> QED
  BY <1>2, <1>3

\* The ring of the mids ends with the last one and the one before.
LEMMA PushedEnds ==
    ASSUME NEW mids \in Seq(Nat), NEW mid \in Nat
    PROVE  LET p == Pushed(mids, mid)
           IN  /\ p \in Seq(Nat) /\ p # <<>> /\ Latest(p) = mid
               /\ mids # <<>> => Len(p) > 1 /\ p[Len(p) - 1] = Latest(mids)
<1> DEFINE n == Len(mids)
           t == Append(mids, mid)
           p == Pushed(mids, mid)
<1>0. Lag \in Nat /\ Lag > 0
  BY FeaturesAssumption
<1>1. /\ n \in Nat /\ t \in Seq(Nat) /\ Len(t) = n + 1 /\ t[n + 1] = mid
      /\ \A i \in 1..n : t[i] = mids[i] /\ mids[i] \in Nat
  BY LenProperties, AppendProperties, ElementOfSeq
<1>2. mids # <<>> => n > 0
  BY <1>1, EmptySeq
<1>3. CASE n + 1 <= Lag + 1
  <2>1. p = t
    <3> HIDE DEF n, t
    <3> QED
      BY <1>0, <1>1, <1>3 DEF Pushed, LastN, t
  <2>2. p # <<>> /\ Latest(p) = mid
    BY <1>1, <2>1, EmptySeq DEF Latest
  <2>3. n > 0 => Len(p) > 1 /\ p[Len(p) - 1] = Latest(mids)
    BY <1>1, <2>1 DEF Latest
  <2> QED
    BY <1>1, <1>2, <2>1, <2>2, <2>3
<1>4. CASE n + 1 > Lag + 1
  <2> DEFINE a == n + 1 - (Lag + 1) + 1
  <2>1. p = SubSeq(t, a, n + 1)
    <3> HIDE DEF n, t
    <3> QED
      BY <1>0, <1>1, <1>4 DEF Pushed, LastN, t
  <2>2. a \in 2..n /\ a \in Int
    BY <1>0, <1>1, <1>4
  <2>3. \A i \in a..(n + 1) : t[i] \in Nat
    <3> HIDE DEF n, t
    <3>1. \A i \in a..(n + 1) : i \in 1..n \/ i = n + 1
      BY <1>1, <2>2
    <3> QED
      BY <1>1, <3>1
  <2>4. /\ p \in Seq(Nat) /\ Len(p) = (n + 1) - a + 1
        /\ \A i \in 1..((n + 1) - a + 1) : p[i] = t[a + i - 1]
    <3> HIDE DEF n, t, a, p
    <3>1. a <= n + 1 /\ n + 1 \in Int
      BY <1>1, <2>2
    <3> QED
      BY <2>1, <2>2, <2>3, <3>1, SubSeqProperties
  <2>5. Len(p) = Lag + 1
    <3> HIDE DEF p, n
    <3> QED
      BY <1>0, <1>1, <2>4
  <2>6. p # <<>> /\ Latest(p) = mid /\ Len(p) > 1 /\ p[Len(p) - 1] = Latest(mids)
    <3> HIDE DEF p, n, t
    <3>1. /\ Lag + 1 \in 1..((n + 1) - a + 1) /\ a + (Lag + 1) - 1 = n + 1
          /\ Lag \in 1..((n + 1) - a + 1) /\ a + Lag - 1 = n /\ (Lag + 1) - 1 = Lag /\ n \in 1..n
      BY <1>0, <1>1, <2>2
    <3>2. p[Lag + 1] = t[n + 1] /\ p[Lag] = t[n]
      <4> HIDE DEF a
      <4> QED
        BY <2>4, <3>1
    <3>3. p # <<>>
      BY <1>0, <2>5, EmptySeq
    <3> QED
      BY <1>0, <1>1, <2>5, <3>1, <3>2, <3>3 DEF Latest, n
  <2> QED
    BY <2>4, <2>6
<1> QED
  BY <1>0, <1>1, <1>3, <1>4

\* The fields of an engine.
LEMMA EngineFields ==
    ASSUME NEW e \in Engines
    PROVE  /\ e.mids \in Seq(Nat) /\ e.seen \in Nat /\ e.vol \in Statistics /\ e.flow \in Seq(Int)
           /\ e.uptick \in Seq(Int) /\ e.ema \in Seq(Nat)
           /\ e.vol.n = Len(e.vol.q) /\ (e.seen > 0 => e.mids # <<>>)
           /\ e = [mids |-> e.mids, seen |-> e.seen, vol |-> e.vol, flow |-> e.flow, uptick |-> e.uptick,
                   ema |-> e.ema]
  BY DEF Engines

\* What has such fields is an engine.
LEMMA EngineMade ==
    ASSUME NEW m \in Seq(Nat), NEW s \in Nat, NEW v \in Statistics, NEW f \in Seq(Int), NEW u \in Seq(Int),
           NEW a \in Seq(Nat), v.n = Len(v.q), s > 0 => m # <<>>
    PROVE  [mids |-> m, seen |-> s, vol |-> v, flow |-> f, uptick |-> u, ema |-> a] \in Engines
  BY DEF Engines

\* What each event makes of each field.
LEMMA OnQuoteFields ==
    ASSUME NEW e \in Engines, NEW mid \in Nat
    PROVE  LET r1 == mid - Latest(e.mids)
           IN  OnQuote(e, mid) =
                 [mids |-> Pushed(e.mids, mid), seen |-> e.seen + 1,
                  vol |-> IF e.mids = <<>> THEN e.vol ELSE Welford(e.vol, r1), flow |-> e.flow,
                  uptick |-> IF e.mids = <<>> \/ r1 = 0 THEN e.uptick ELSE Append(e.uptick, Sign(r1)),
                  ema |-> Append(e.ema, mid)]
<1> DEFINE r1 == mid - Latest(e.mids)
           v == IF e.mids = <<>> THEN e.vol ELSE Welford(e.vol, r1)
           u == IF e.mids = <<>> \/ r1 = 0 THEN e.uptick ELSE Append(e.uptick, Sign(r1))
           moved == [mids |-> e.mids, seen |-> e.seen, vol |-> v, flow |-> e.flow, uptick |-> u, ema |-> e.ema]
           was == IF e.mids = <<>> THEN e
                  ELSE [e EXCEPT !.vol = Welford(@, r1),
                                 !.uptick = IF r1 = 0 THEN @ ELSE Append(@, Sign(r1))]
<1>1. was = moved
  <2>1. CASE e.mids = <<>>
    <3>1. v = e.vol /\ u = e.uptick /\ was = e
      BY <2>1
    <3> HIDE DEF was, v, u
    <3> QED
      BY <3>1, EngineFields
  <2>2. CASE e.mids # <<>>
    <3>1. was = [[e EXCEPT !.vol = v] EXCEPT !.uptick = u]
      BY <2>2
    <3> HIDE DEF was, v, u
    <3>2. [e EXCEPT !.vol = v] =
            [mids |-> e.mids, seen |-> e.seen, vol |-> v, flow |-> e.flow, uptick |-> e.uptick, ema |-> e.ema]
      <4> DEFINE w == e.vol
                 a == e.mids
                 b == e.seen
                 c == e.flow
                 d == e.uptick
                 g == e.ema
      <4>1. e = [mids |-> a, seen |-> b, vol |-> w, flow |-> c, uptick |-> d, ema |-> g]
        BY EngineFields
      <4> HIDE DEF w, a, b, c, d, g
      <4>2. [e EXCEPT !.vol = v] = [mids |-> a, seen |-> b, vol |-> v, flow |-> c, uptick |-> d, ema |-> g]
        BY <4>1
      <4> QED
        BY <4>2 DEF a, b, c, d, g
    <3> QED
      BY <3>1, <3>2
  <2> QED
    BY <2>1, <2>2
<1>2. OnQuote(e, mid) = [was EXCEPT !.mids = Pushed(@, mid), !.seen = @ + 1, !.ema = Append(@, mid)]
  BY Zenon DEF OnQuote
<1> HIDE DEF v, u, was
<1> QED
  BY <1>1, <1>2 DEF v, u

\* An engine without what the trades say.
Pure(e) ==
    [mids |-> e.mids, seen |-> e.seen, vol |-> e.vol, flow |-> <<>>, uptick |-> e.uptick, ema |-> e.ema]

\* A quote leaves an engine, and one without the flow of trades the same.
LEMMA OnQuoteType ==
    ASSUME NEW e \in Engines, NEW mid \in Nat
    PROVE  /\ OnQuote(e, mid) \in Engines /\ OnQuote(e, mid).mids = Pushed(e.mids, mid)
           /\ OnQuote(e, mid).seen = e.seen + 1
           /\ OnQuote(e, mid).vol = IF e.mids = <<>> THEN e.vol ELSE Welford(e.vol, mid - Latest(e.mids))
           /\ Pure(e) \in Engines /\ OnQuote(Pure(e), mid) = Pure(OnQuote(e, mid))
<1> DEFINE r1 == mid - Latest(e.mids)
           v == IF e.mids = <<>> THEN e.vol ELSE Welford(e.vol, r1)
           u == IF e.mids = <<>> \/ r1 = 0 THEN e.uptick ELSE Append(e.uptick, Sign(r1))
           p == Pushed(e.mids, mid)
           a == Append(e.ema, mid)
           n == e.seen + 1
           made(flow) == [mids |-> p, seen |-> n, vol |-> v, flow |-> flow, uptick |-> u, ema |-> a]
<1>0. /\ e.mids \in Seq(Nat) /\ e.seen \in Nat /\ e.vol \in Statistics /\ e.flow \in Seq(Int)
      /\ e.uptick \in Seq(Int) /\ e.ema \in Seq(Nat)
      /\ e.vol.n = Len(e.vol.q) /\ (e.seen > 0 => e.mids # <<>>)
  BY EngineFields
<1>1. OnQuote(e, mid) = made(e.flow)
  BY OnQuoteFields
<1>2. p \in Seq(Nat) /\ p # <<>>
  BY <1>0, PushedEnds
<1>3. e.mids # <<>> => r1 \in Int
  <2>1. e.mids # <<>> => Len(e.mids) \in 1..Len(e.mids)
    BY <1>0, EmptySeq, LenProperties
  <2>2. e.mids # <<>> => Latest(e.mids) \in Nat
    BY <1>0, <2>1, ElementOfSeq DEF Latest
  <2> QED
    BY <2>2
<1>4. v \in Statistics /\ v.n = Len(v.q)
  <2>1. CASE e.mids = <<>>
    BY <1>0, <2>1
  <2>2. CASE e.mids # <<>>
    <3> HIDE DEF r1
    <3>1. Welford(e.vol, r1) \in Statistics /\ Welford(e.vol, r1).n = Len(Welford(e.vol, r1).q)
      BY <1>0, <1>3, <2>2, WelfordType
    <3> QED
      BY <2>2, <3>1
  <2> QED
    BY <2>1, <2>2
<1>5. u \in Seq(Int)
  <2>1. CASE e.mids = <<>> \/ r1 = 0
    BY <1>0, <2>1
  <2>2. CASE ~(e.mids = <<>> \/ r1 = 0)
    <3>1. Sign(r1) \in Int
      BY DEF Sign
    <3>2. u = Append(e.uptick, Sign(r1))
      BY <2>2
    <3> QED
      BY <1>0, <3>1, <3>2, AppendProperties
  <2> QED
    BY <2>1, <2>2
<1>6. a \in Seq(Nat) /\ n \in Nat
  BY <1>0, AppendProperties
<1> HIDE DEF u, v, p, a, n
<1>7. OnQuote(e, mid) \in Engines
  BY <1>0, <1>1, <1>2, <1>4, <1>5, <1>6, EngineMade
<1>8. Pure(e) \in Engines
  <2>1. <<>> \in Seq(Int)
    BY EmptySeq
  <2> QED
    BY <1>0, <2>1, EngineMade DEF Pure
<1>9. OnQuote(Pure(e), mid) = made(<<>>)
  <2>1. /\ Pure(e).mids = e.mids /\ Pure(e).seen = e.seen /\ Pure(e).vol = e.vol /\ Pure(e).flow = <<>>
        /\ Pure(e).uptick = e.uptick /\ Pure(e).ema = e.ema
    BY DEF Pure
  <2> DEFINE z == Pure(e)
             r == mid - Latest(z.mids)
             vz == IF z.mids = <<>> THEN z.vol ELSE Welford(z.vol, r)
             uz == IF z.mids = <<>> \/ r = 0 THEN z.uptick ELSE Append(z.uptick, Sign(r))
  <2>2. OnQuote(z, mid) =
          [mids |-> Pushed(z.mids, mid), seen |-> z.seen + 1, vol |-> vz, flow |-> z.flow, uptick |-> uz,
           ema |-> Append(z.ema, mid)]
    BY <1>8, OnQuoteFields
  <2>3. vz = v /\ uz = u
    BY <2>1, Zenon DEF v, u
  <2> HIDE DEF vz, uz
  <2> QED
    BY <2>1, <2>2, <2>3 DEF p, n, a
<1>10. Pure(made(e.flow)) = made(<<>>)
  BY DEF Pure
<1> QED
  BY <1>1, <1>7, <1>8, <1>9, <1>10 DEF p, n, v

\* A trade changes the flow alone.
LEMMA OnTradeType ==
    ASSUME NEW e \in Engines, NEW price \in Nat
    PROVE  /\ OnTrade(e, price) \in Engines /\ Pure(OnTrade(e, price)) = Pure(e)
           /\ \E flow \in Seq(Int) : OnTrade(e, price) = [e EXCEPT !.flow = flow]
<1>1. \E flow \in Seq(Int) : OnTrade(e, price) = [e EXCEPT !.flow = flow]
  <2>0. e.flow \in Seq(Int) /\ [e EXCEPT !.flow = e.flow] = e
    BY DEF Engines
  <2>1. CASE e.mids = <<>>
    <3>1. OnTrade(e, price) = e
      BY <2>1 DEF OnTrade
    <3> QED
      BY <2>0, <3>1
  <2>2. CASE e.mids # <<>>
    <3> DEFINE x == price - Latest(e.mids)
               flow == IF price = Latest(e.mids) THEN e.flow ELSE Append(e.flow, Sign(x))
    <3>1. OnTrade(e, price) = [e EXCEPT !.flow = flow]
      BY <2>2 DEF OnTrade
    <3>2. Sign(x) \in Int
      BY DEF Sign
    <3> HIDE DEF x
    <3>3. flow \in Seq(Int)
      BY <2>0, <3>2, AppendProperties
    <3> QED
      BY <3>1, <3>3
  <2> QED
    BY <2>1, <2>2
<1>2. PICK flow \in Seq(Int) : OnTrade(e, price) = [e EXCEPT !.flow = flow]
  BY <1>1
<1>3. [e EXCEPT !.flow = flow] =
        [mids |-> e.mids, seen |-> e.seen, vol |-> e.vol, flow |-> flow, uptick |-> e.uptick, ema |-> e.ema]
  <2> DEFINE w == e.vol
             a == e.mids
             b == e.seen
             c == e.flow
             d == e.uptick
             g == e.ema
  <2>1. e = [mids |-> a, seen |-> b, vol |-> w, flow |-> c, uptick |-> d, ema |-> g]
    BY EngineFields
  <2> HIDE DEF w, a, b, c, d, g
  <2>2. [e EXCEPT !.flow = flow] = [mids |-> a, seen |-> b, vol |-> w, flow |-> flow, uptick |-> d, ema |-> g]
    BY <2>1
  <2> QED
    BY <2>2 DEF a, b, w, d, g
<1>4. OnTrade(e, price) \in Engines
  <2>0. /\ e.mids \in Seq(Nat) /\ e.seen \in Nat /\ e.vol \in Statistics
        /\ e.uptick \in Seq(Int) /\ e.ema \in Seq(Nat)
        /\ e.vol.n = Len(e.vol.q) /\ (e.seen > 0 => e.mids # <<>>)
    BY EngineFields
  <2>1. [mids |-> e.mids, seen |-> e.seen, vol |-> e.vol, flow |-> flow, uptick |-> e.uptick, ema |-> e.ema]
          \in Engines
    BY <2>0, EngineMade
  <2> QED
    BY <1>2, <1>3, <2>1
<1>5. Pure(OnTrade(e, price)) = Pure(e)
  BY <1>2, <1>3 DEF Pure
<1> QED
  BY <1>1, <1>4, <1>5

\* The engine of an event after it.
After(e, event) ==
    IF event.kind = "trade" THEN OnTrade(e, event.mid)
    ELSE IF event.kind = "quote" THEN OnQuote(e, event.mid) ELSE e

\* The state of the leader after it.
Crossed(at, event) ==
    LET e == After(at.engine[event.who], event)
    IN  IF event.kind = "quote" /\ event.who = "leader" /\ e.seen > 1 THEN Publish(e, event.ts, event.mid) ELSE at.cross

\* An update is one of an engine and of the crossfeed.
LEMMA UpdateIs ==
    ASSUME NEW at, NEW event
    PROVE  Update(at, event) =
             [engine |-> [at.engine EXCEPT ![event.who] = After(at.engine[event.who], event)],
              cross |-> Crossed(at, event)]
  BY Zenon DEF Update, After, Crossed

\* The same of any event.
LEMMA AfterType ==
    ASSUME NEW e \in Engines, NEW event \in Inputs
    PROVE  /\ After(e, event) \in Engines /\ Pure(e) \in Engines
           /\ event.kind = "trade" => Pure(After(e, event)) = Pure(e)
           /\ event.kind # "trade" => After(Pure(e), event) = Pure(After(e, event))
<1>0. event.mid \in Nat
  BY DEF Inputs
<1>1. CASE event.kind = "trade"
  BY <1>0, <1>1, OnTradeType, OnQuoteType DEF After
<1>2. CASE event.kind = "quote"
  <2>1. "quote" # "trade"
    OBVIOUS
  <2>2. event.kind # "trade"
    BY <1>2
  <2> QED
    BY <1>0, <1>2, <2>2, OnQuoteType DEF After
<1>3. CASE event.kind # "trade" /\ event.kind # "quote"
  BY <1>0, <1>3, OnQuoteType DEF After
<1> QED
  BY <1>1, <1>2, <1>3

\* The leader's state is its last move.
LEMMA PublishIs ==
    ASSUME NEW e \in Engines, e.seen > 0, NEW mid \in Nat, NEW ts \in Nat
    PROVE  /\ Publish(OnQuote(e, mid), ts, mid) =
                [ts |-> ts, mid |-> mid, r1 |-> mid - Latest(e.mids), uptick |-> OnQuote(e, mid).uptick]
           /\ mid - Latest(e.mids) \in Int
<1>1. e.mids \in Seq(Nat) /\ e.mids # <<>>
  BY EngineFields
<1>2. OnQuote(e, mid).mids = Pushed(e.mids, mid)
  BY OnQuoteType
<1>3. Pushed(e.mids, mid)[Len(Pushed(e.mids, mid)) - 1] = Latest(e.mids)
  BY <1>1, PushedEnds
<1>4. Latest(e.mids) \in Nat
  <2>1. Len(e.mids) \in 1..Len(e.mids)
    BY <1>1, EmptySeq, LenProperties
  <2> QED
    BY <1>1, <2>1, ElementOfSeq DEF Latest
<1> QED
  BY <1>2, <1>3, <1>4 DEF Publish

\* What the leader publishes.
Crosses == [ts : Nat, mid : Nat, r1 : Int, uptick : Seq(Int)]

\* Every update leaves two engines and a leader's state.
LEMMA UpdateType ==
    ASSUME NEW at \in Feeds, NEW event \in Inputs
    PROVE  Update(at, event) \in Feeds
<1>0. /\ at.engine \in [{"leader", "follower"} -> Engines] /\ at.cross \in Crosses
      /\ event.who \in {"leader", "follower"} /\ event.mid \in Nat /\ event.ts \in Nat
  BY DEF Feeds, Inputs, Crosses
<1>1. at.engine[event.who] \in Engines
  BY <1>0
<1> DEFINE e == at.engine[event.who]
           f == After(e, event)
<1>2. f \in Engines
  BY <1>1, AfterType
<1>3. Crossed(at, event) \in Crosses
  <2>1. CASE event.kind = "quote" /\ event.who = "leader" /\ f.seen > 1
    <3>1. f = OnQuote(e, event.mid)
      BY <2>1 DEF After
    <3>2. f.seen = e.seen + 1 /\ e.seen \in Nat
      <4> HIDE DEF e, f
      <4>1. e \in Engines
        BY <1>1 DEF e
      <4>2. OnQuote(e, event.mid).seen = e.seen + 1
        BY <1>0, <4>1, OnQuoteType
      <4>3. e.seen \in Nat
        BY <4>1, EngineFields
      <4> QED
        BY <3>1, <4>2, <4>3
    <3>3. e.seen > 0
      BY <2>1, <3>2
    <3>4. f.uptick \in Seq(Int)
      BY <1>2, EngineFields
    <3>5. Crossed(at, event) = Publish(f, event.ts, event.mid)
      BY <2>1, Zenon DEF Crossed
    <3> HIDE DEF e, f
    <3>6. /\ Publish(f, event.ts, event.mid) =
               [ts |-> event.ts, mid |-> event.mid, r1 |-> event.mid - Latest(e.mids), uptick |-> f.uptick]
          /\ event.mid - Latest(e.mids) \in Int
      BY <1>0, <1>1, <3>1, <3>3, PublishIs DEF e
    <3> QED
      BY <1>0, <3>4, <3>5, <3>6 DEF Crosses
  <2>2. CASE ~(event.kind = "quote" /\ event.who = "leader" /\ f.seen > 1)
    BY <1>0, <2>2, Zenon DEF Crossed
  <2> QED
    BY <2>1, <2>2
<1> HIDE DEF f
<1>4. [at.engine EXCEPT ![event.who] = f] \in [{"leader", "follower"} -> Engines]
  BY <1>0, <1>2
<1> QED
  BY <1>3, <1>4, UpdateIs DEF Feeds, Crosses, f

\* Both engines without what the trades say.
Bare(at) == [engine |-> [who \in {"leader", "follower"} |-> Pure(at.engine[who])], cross |-> at.cross]

\* A trade is nothing, and everything else the same, to what bears no trades.
LEMMA BareUpdate ==
    ASSUME NEW at \in Feeds, NEW event \in Inputs
    PROVE  /\ Bare(at) \in Feeds
           /\ event.kind = "trade" => Bare(Update(at, event)) = Bare(at)
           /\ event.kind # "trade" => Update(Bare(at), event) = Bare(Update(at, event))
<1>0. /\ at.engine \in [{"leader", "follower"} -> Engines] /\ at.cross \in Crosses
      /\ event.who \in {"leader", "follower"} /\ event.mid \in Nat /\ event.ts \in Nat
  BY DEF Feeds, Inputs, Crosses
<1> DEFINE who == event.who
           e == at.engine[who]
           f == After(e, event)
           bare == [w \in {"leader", "follower"} |-> Pure(at.engine[w])]
<1>1. e \in Engines /\ f \in Engines /\ bare[who] = Pure(e)
  BY <1>0, AfterType
<1>2. bare \in [{"leader", "follower"} -> Engines]
  <2>1. \A w \in {"leader", "follower"} : Pure(at.engine[w]) \in Engines
    <3>1. \A w \in {"leader", "follower"} : at.engine[w] \in Engines
      BY <1>0
    <3> QED
      BY <1>0, <3>1, AfterType
  <2> QED
    BY <2>1
<1>3. Bare(at) = [engine |-> bare, cross |-> at.cross] /\ Bare(at) \in Feeds
  BY <1>0, <1>2 DEF Bare, Feeds, Crosses
<1>4. Update(at, event) = [engine |-> [at.engine EXCEPT ![who] = f], cross |-> Crossed(at, event)]
  BY UpdateIs
<1>5. Bare(Update(at, event)) = [engine |-> [bare EXCEPT ![who] = Pure(f)], cross |-> Crossed(at, event)]
  <2> DEFINE g == [at.engine EXCEPT ![who] = f]
             h == [w \in {"leader", "follower"} |-> Pure(g[w])]
  <2>1. Bare(Update(at, event)) = [engine |-> h, cross |-> Crossed(at, event)]
    <3> HIDE DEF f
    <3> QED
      BY <1>4 DEF Bare
  <2>2. h = [bare EXCEPT ![who] = Pure(f)]
    <3> HIDE DEF f
    <3> QED
      BY <1>0
  <2> QED
    BY <2>1, <2>2
<1>6. CASE event.kind = "trade"
  <2>1. Pure(f) = Pure(e)
    BY <1>1, <1>6, AfterType
  <2>2. Crossed(at, event) = at.cross
    BY <1>6 DEF Crossed
  <2> HIDE DEF bare, f, e
  <2>3. [bare EXCEPT ![who] = Pure(e)] = bare
    BY <1>1, <1>2
  <2> QED
    BY <1>3, <1>5, <1>6, <2>1, <2>2, <2>3
<1>7. CASE event.kind # "trade"
  <2>1. After(Pure(e), event) = Pure(f)
    BY <1>1, <1>7, AfterType
  <2>2. Update(Bare(at), event) = [engine |-> [bare EXCEPT ![who] = Pure(f)], cross |-> Crossed(Bare(at), event)]
    <3>1. Bare(at).engine[who] = Pure(e) /\ Bare(at).engine = bare
      BY <1>1, <1>3
    <3> QED
      BY <2>1, <3>1, UpdateIs
  <2>3. Crossed(Bare(at), event) = Crossed(at, event)
    <3>1. Bare(at).engine[who] = Pure(e) /\ Bare(at).cross = at.cross
      BY <1>1, <1>3
    <3>2. Pure(f).seen = f.seen /\ Publish(Pure(f), event.ts, event.mid) = Publish(f, event.ts, event.mid)
      <4> HIDE DEF f
      <4> QED
        BY DEF Pure, Publish
    <3> HIDE DEF f
    <3> QED
      BY <2>1, <3>1, <3>2, Zenon DEF Crossed, f, who, e
  <2> QED
    BY <1>3, <1>5, <1>7, <2>2, <2>3
<1> QED
  BY <1>3, <1>6, <1>7

\* No vector tells them apart.
LEMMA BareVector ==
    ASSUME NEW at \in Feeds, NEW event \in Inputs
    PROVE  VectorOf(Bare(at), event) = VectorOf(at, event)
<1> DEFINE e == at.engine["follower"]
           p == Pure(e)
<1>1. Bare(at).engine["follower"] = p /\ Bare(at).cross = at.cross
  BY DEF Bare
<1>2. p.mids = e.mids /\ p.seen = e.seen /\ p.vol = e.vol /\ p.uptick = e.uptick /\ p.ema = e.ema
  BY DEF Pure
<1> HIDE DEF e, p
<1>3. Warm(p) = Warm(e)
  BY <1>2 DEF Warm
<1>4. ASSUME NEW name \in Names \ MICRO_FEATURES
      PROVE  Features(p, at.cross, event.ts)[name] = Features(e, at.cross, event.ts)[name]
  <2>1. name \in {"ret", "ema_spread", "vol", "ret1_over_vol", "leader_r1", "leader_uptick", "leader_gap_bps"}
    BY DEF Names, MICRO_FEATURES
  <2>2. /\ name # "spread_bps" /\ name # "flow" /\ name # "uptick" /\ name # "flow_x_imbalance"
        /\ name \in Names
    BY DEF Names, MICRO_FEATURES
  <2> QED
    BY <1>2, <2>1, <2>2 DEF Features, Latest
<1>5. Kept(Features(p, at.cross, event.ts)) = Kept(Features(e, at.cross, event.ts))
  BY <1>4 DEF Kept
<1> QED
  BY <1>1, <1>3, <1>5 DEF VectorOf, e

\* What an engine keeps of the valid quotes it was given.
Answers(e, quotes) ==
    /\ e.seen = Len(quotes) /\ (e.mids = <<>> <=> quotes = <<>>)
    /\ quotes # <<>> => Latest(e.mids) = quotes[Len(quotes)].mid
    /\ Follows(e.vol, LastN(ReturnsOf(quotes), vol_window))

\* What the crossfeed says of the leader's.
Led(state, quotes) ==
    LET k == Len(quotes)
    IN  IF k <= 1 THEN state = NoLeader
        ELSE /\ state.ts = quotes[k].ts /\ state.ts >= 1 /\ state.mid = quotes[k].mid
             /\ state.r1 = quotes[k].mid - quotes[k - 1].mid

\* One more quote is one more return, after the first.
LEMMA ReturnsGrow ==
    ASSUME NEW quotes \in Seq(Inputs), NEW event \in Inputs
    PROVE  /\ ReturnsOf(quotes) \in Seq(Int)
           /\ quotes = <<>> => ReturnsOf(quotes) = <<>> /\ ReturnsOf(Append(quotes, event)) = <<>>
           /\ quotes # <<>> => /\ event.mid - quotes[Len(quotes)].mid \in Int
                               /\ ReturnsOf(Append(quotes, event)) =
                                    Append(ReturnsOf(quotes), event.mid - quotes[Len(quotes)].mid)
<1> DEFINE n == Len(quotes)
           t == Append(quotes, event)
<1>1. /\ n \in Nat /\ t \in Seq(Inputs) /\ Len(t) = n + 1 /\ t[n + 1] = event
      /\ \A i \in 1..n : t[i] = quotes[i] /\ quotes[i] \in Inputs /\ quotes[i].mid \in Nat
  <2>1. \A i \in 1..n : quotes[i] \in Inputs
    BY ElementOfSeq
  <2>2. \A i \in 1..n : quotes[i].mid \in Nat
    BY <2>1 DEF Inputs
  <2> QED
    BY <2>1, <2>2, LenProperties, AppendProperties
<1>2. event.mid \in Nat
  BY DEF Inputs
<1>3. quotes = <<>> <=> n = 0
  BY <1>1, EmptySeq
<1> HIDE DEF n, t
<1>4. /\ ReturnsOf(quotes) = [i \in 1..(n - 1) |-> quotes[i + 1].mid - quotes[i].mid]
      /\ ReturnsOf(t) = [i \in 1..n |-> t[i + 1].mid - t[i].mid]
  BY <1>1 DEF ReturnsOf, n
<1>5. CASE n = 0
  <2>1. 1..(n - 1) = {} /\ 1..n = {}
    BY <1>5
  <2>2. ReturnsOf(quotes) = <<>> /\ ReturnsOf(t) = <<>>
    BY <1>4, <2>1
  <2> QED
    BY <1>3, <1>5, <2>2, EmptySeq DEF t
<1>6. CASE n # 0
  <2> DEFINE r == ReturnsOf(quotes)
             x == event.mid - quotes[n].mid
  <2>0. n - 1 \in Nat /\ n \in 1..n
    BY <1>1, <1>6
  <2>1. \A i \in 1..(n - 1) : i \in 1..n /\ i + 1 \in 1..n
    BY <1>1
  <2>2. \A i \in 1..(n - 1) : quotes[i + 1].mid - quotes[i].mid \in Int
    BY <1>1, <2>1
  <2>3. r \in Seq(Int) /\ Len(r) = n - 1 /\ \A i \in 1..(n - 1) : r[i] = quotes[i + 1].mid - quotes[i].mid
    <3>1. r \in [1..(n - 1) -> Int]
      BY <1>4, <2>2
    <3>2. r \in Seq(Int)
      BY <2>0, <3>1, SeqDef
    <3>3. DOMAIN r = 1..(n - 1)
      BY <1>4
    <3>4. Len(r) = n - 1
      BY <2>0, <3>2, <3>3, LenProperties
    <3> QED
      BY <1>4, <3>2, <3>4
  <2>4. x \in Int
    BY <1>1, <1>2, <2>0
  <2> HIDE DEF r
  <2>5. /\ Append(r, x) \in Seq(Int) /\ Len(Append(r, x)) = n /\ Append(r, x)[n] = x
        /\ \A i \in 1..(n - 1) : Append(r, x)[i] = r[i]
    <3>1. (n - 1) + 1 = n
      BY <1>1
    <3> HIDE DEF x
    <3> QED
      BY <2>3, <2>4, <3>1, AppendProperties
  <2>6. \A i \in 1..n : t[i + 1].mid - t[i].mid = Append(r, x)[i]
    <3>1. \A i \in 1..n : i = n \/ i \in 1..(n - 1)
      BY <1>1
    <3>2. \A i \in 1..(n - 1) : t[i + 1].mid - t[i].mid = Append(r, x)[i]
      BY <1>1, <2>1, <2>3, <2>5
    <3>3. t[n + 1].mid - t[n].mid = Append(r, x)[n]
      BY <1>1, <2>0, <2>5
    <3> QED
      BY <3>1, <3>2, <3>3
  <2>7. ReturnsOf(t) = Append(r, x)
    <3>1. ReturnsOf(t) = [i \in 1..n |-> Append(r, x)[i]]
      BY <1>4, <2>6
    <3>2. Append(r, x) = [i \in 1..n |-> Append(r, x)[i]]
      BY <2>5, LenProperties
    <3> QED
      BY <3>1, <3>2
  <2> QED
    BY <1>3, <1>6, <2>3, <2>4, <2>7 DEF t, r, n
<1> QED
  BY <1>5, <1>6

\* Before any return.
LEMMA NothingFollows == Follows(NoWelford, <<>>) /\ LastN(<<>>, vol_window) = <<>>
<1>1. <<>> \in Seq(Int) /\ Len(<<>>) = 0
  BY EmptySeq
<1>2. NoWelford \in Statistics /\ NoWelford.q = <<>> /\ NoWelford.n = 0 /\ NoWelford.mean = 0 /\ NoWelford.m2 = 0
  BY <1>1 DEF NoWelford, Statistics
<1>3. Total(<<>>) = 0 /\ Squares(<<>>) = 0 /\ Unit \in Nat
  BY TotalLaws, FeaturesAssumption
<1>4. MeanIs(Unit, 0, 0, 0) /\ Deviations(Unit, 0, 0, 0) = 0
  BY <1>3 DEF MeanIs, Deviations
<1>5. LastN(<<>>, vol_window) = <<>>
  BY <1>1, FeaturesAssumption DEF LastN
<1> QED
  BY <1>1, <1>2, <1>3, <1>4, <1>5 DEF Follows

\* A quote, and the engine answers for one more.
LEMMA QuoteAnswers ==
    ASSUME NEW e \in Engines, NEW quotes \in Seq(Inputs), NEW event \in Inputs, Answers(e, quotes)
    PROVE  Answers(OnQuote(e, event.mid), Append(quotes, event))
<1> DEFINE f == OnQuote(e, event.mid)
           t == Append(quotes, event)
           r == ReturnsOf(quotes)
           x == event.mid - quotes[Len(quotes)].mid
<1>0. /\ event.mid \in Nat /\ vol_window \in Nat /\ vol_window > 0 /\ Len(quotes) \in Nat
      /\ t \in Seq(Inputs) /\ Len(t) = Len(quotes) + 1 /\ t[Len(t)] = event /\ t # <<>>
  <2>1. event.mid \in Nat /\ vol_window \in Nat /\ vol_window > 0
    BY FeaturesAssumption DEF Inputs
  <2>2. t \in Seq(Inputs) /\ Len(t) = Len(quotes) + 1 /\ t[Len(quotes) + 1] = event /\ Len(quotes) \in Nat
    BY AppendProperties, LenProperties
  <2>3. t # <<>>
    BY <2>2, EmptySeq
  <2> HIDE DEF t
  <2> QED
    BY <2>1, <2>2, <2>3
<1>1. /\ e.mids \in Seq(Nat) /\ f.mids = Pushed(e.mids, event.mid) /\ f.seen = e.seen + 1
      /\ f.vol = IF e.mids = <<>> THEN e.vol ELSE Welford(e.vol, event.mid - Latest(e.mids))
  BY <1>0, OnQuoteType, EngineFields
<1>2. f.mids # <<>> /\ Latest(f.mids) = event.mid
  BY <1>0, <1>1, PushedEnds
<1>3. /\ e.seen = Len(quotes) /\ (e.mids = <<>> <=> quotes = <<>>)
      /\ quotes # <<>> => Latest(e.mids) = quotes[Len(quotes)].mid
      /\ Follows(e.vol, LastN(r, vol_window))
  BY DEF Answers
<1>4. Follows(f.vol, LastN(ReturnsOf(t), vol_window))
  <2>1. CASE quotes = <<>>
    <3>1. r = <<>> /\ ReturnsOf(t) = <<>>
      BY <2>1, ReturnsGrow
    <3>2. f.vol = e.vol
      BY <1>1, <1>3, <2>1
    <3> HIDE DEF f, t, r
    <3> QED
      BY <1>3, <3>1, <3>2
  <2>2. CASE quotes # <<>>
    <3>1. r \in Seq(Int) /\ x \in Int /\ ReturnsOf(t) = Append(r, x)
      BY <2>2, ReturnsGrow
    <3>2. f.vol = Welford(e.vol, x)
      BY <1>1, <1>3, <2>2
    <3> HIDE DEF f, t, r, x
    <3>3. LastN(r, vol_window) \in Seq(Int) /\ Len(LastN(r, vol_window)) <= vol_window
      BY <1>0, <3>1, LastNShort
    <3>4. Follows(Welford(e.vol, x), Slid(LastN(r, vol_window), x, vol_window))
      BY <1>3, <3>1, <3>3, WelfordFollows
    <3>5. LastN(Append(r, x), vol_window) = Slid(LastN(r, vol_window), x, vol_window)
      BY <1>0, <3>1, WindowMoves
    <3> QED
      BY <3>1, <3>2, <3>4, <3>5
  <2> QED
    BY <2>1, <2>2
<1> HIDE DEF f, t, r
<1> QED
  BY <1>0, <1>1, <1>2, <1>3, <1>4 DEF Answers, f, t

\* A trade, and it answers for the same.
LEMMA TradeAnswers ==
    ASSUME NEW e \in Engines, NEW quotes, NEW price \in Nat, Answers(e, quotes)
    PROVE  Answers(OnTrade(e, price), quotes)
<1>1. PICK flow \in Seq(Int) : OnTrade(e, price) = [e EXCEPT !.flow = flow]
  BY OnTradeType
<1>2. /\ [e EXCEPT !.flow = flow].mids = e.mids /\ [e EXCEPT !.flow = flow].seen = e.seen
      /\ [e EXCEPT !.flow = flow].vol = e.vol
  BY DEF Engines
<1> QED
  BY <1>1, <1>2 DEF Answers

\* What the leader's quote publishes is its last move.
LEMMA LedMoves ==
    ASSUME NEW e \in Engines, NEW quotes \in Seq(Inputs), NEW event \in Inputs, Answers(e, quotes),
           NEW state, Led(state, quotes), event.ts >= 1
    PROVE  LET f == OnQuote(e, event.mid)
           IN  Led(IF f.seen > 1 THEN Publish(f, event.ts, event.mid) ELSE state, Append(quotes, event))
<1> DEFINE f == OnQuote(e, event.mid)
           t == Append(quotes, event)
           k == Len(quotes)
           next == IF f.seen > 1 THEN Publish(f, event.ts, event.mid) ELSE state
<1>0. /\ event.mid \in Nat /\ event.ts \in Nat /\ k \in Nat
      /\ Len(t) = k + 1 /\ t[k + 1] = event /\ (k > 0 => t[k] = quotes[k])
  BY AppendProperties, LenProperties DEF Inputs
<1>1. f.seen = k + 1 /\ e.seen = k
  BY <1>0, OnQuoteType DEF Answers
<1> HIDE DEF f, t, k, next
<1>2. CASE k = 0
  <2>1. next = state
    BY <1>1, <1>2 DEF next
  <2>2. state = NoLeader
    BY <1>2 DEF Led, k
  <2> QED
    BY <1>0, <1>2, <2>1, <2>2 DEF Led, next, f, t
<1>3. CASE k > 0
  <2>1. next = Publish(f, event.ts, event.mid)
    BY <1>0, <1>1, <1>3 DEF next
  <2>2. Publish(f, event.ts, event.mid) =
          [ts |-> event.ts, mid |-> event.mid, r1 |-> event.mid - Latest(e.mids), uptick |-> f.uptick]
    BY <1>0, <1>1, <1>3, PublishIs DEF f
  <2>3. quotes # <<>>
    BY <1>3, EmptySeq DEF k
  <2>4. Latest(e.mids) = quotes[k].mid
    BY <2>3 DEF Answers, k
  <2>5. Led(next, t)
    <3>1. ~(k + 1 <= 1) /\ (k + 1) - 1 = k
      BY <1>0, <1>3
    <3>2. next.ts = event.ts /\ next.mid = event.mid /\ next.r1 = event.mid - quotes[k].mid
      BY <2>1, <2>2, <2>4
    <3> QED
      BY <1>0, <1>3, <3>1, <3>2 DEF Led
  <2> QED
    BY <2>5 DEF next, f, t
<1> QED
  BY <1>0, <1>2, <1>3

\* A replay takes the events one by one.
FeatureStep == [at \in Feeds |-> [event \in Inputs |-> Update(at, event)]]
Feed == [engine |-> engine, cross |-> cross]

\* The session so far: what the engines and the crossfeed keep of the quotes, the
\* last vector, and the replay without trades, which ends in the same engines but
\* for the flow.
FeaturesInv ==
    /\ tape \in Seq(Inputs) /\ Feed \in Feeds /\ Now \in Nat /\ Now >= 1
    /\ \A who \in {"leader", "follower"} : Answers(engine[who], QuotesOf(who))
    /\ Led(cross, QuotesOf("leader"))
    /\ vector = IF tape = <<>> THEN NoVector ELSE VectorOf(Feed, tape[Len(tape)])
    /\ Through(FeatureStep, Blank, Filter(tape, Untraded)) = Bare(Feed)

\* The replay of a session is a loop over its events.
LEMMA FeatureLoop == Loop(FeatureStep, Blank, Feeds, Inputs)
<1>1. FeatureStep \in [Feeds -> [Inputs -> Feeds]]
  BY UpdateType DEF FeatureStep
<1>2. NewEngine \in Engines
  <2>1. /\ <<>> \in Seq(Nat) /\ <<>> \in Seq(Int) /\ NoWelford \in Statistics
        /\ NoWelford.n = Len(NoWelford.q)
    BY EmptySeq DEF NoWelford, Statistics
  <2> HIDE DEF NoWelford
  <2> QED
    BY <2>1 DEF NewEngine, Engines
<1>3. NoLeader \in Crosses
  BY EmptySeq DEF NoLeader, Crosses
<1>4. Blank \in Feeds
  BY <1>2, <1>3 DEF Blank, Feeds, Crosses
<1> QED
  BY <1>1, <1>4 DEF Loop

\* A session starts with new engines.
LEMMA FeaturesInitInv == FeaturesInit => FeaturesInv
<1> SUFFICES ASSUME FeaturesInit PROVE FeaturesInv
  OBVIOUS
<1>0. engine = Blank.engine /\ cross = NoLeader /\ vector = NoVector /\ tape = <<>>
  BY DEF FeaturesInit, Blank
<1>1. tape \in Seq(Inputs)
  BY <1>0, EmptySeq
<1>2. Feed = Blank
  BY <1>0 DEF Feed, Blank
<1>3. Feed \in Feeds
  BY <1>2, FeatureLoop DEF Loop
<1>4. Now = 1
  BY <1>0 DEF Now
<1>5. \A who : QuotesOf(who) = <<>>
  BY <1>0, FilterEmpty DEF QuotesOf
<1>6. ASSUME NEW who \in {"leader", "follower"}
      PROVE  Answers(engine[who], QuotesOf(who))
  <2>1. engine[who] = NewEngine
    BY <1>0 DEF Blank
  <2>2. NewEngine.seen = 0 /\ NewEngine.mids = <<>> /\ NewEngine.vol = NoWelford
    BY DEF NewEngine
  <2>3. Len(<<>>) = 0
    BY EmptySeq
  <2>4. ReturnsOf(<<>>) = <<>>
    <3>1. ReturnsOf(<<>>) = [i \in 1..(0 - 1) |-> <<>>[i + 1].mid - <<>>[i].mid]
      BY <2>3 DEF ReturnsOf
    <3>2. 1..(0 - 1) = {}
      OBVIOUS
    <3> QED
      BY <3>1, <3>2, EmptySeq
  <2>5. Follows(NoWelford, LastN(ReturnsOf(<<>>), vol_window))
    BY <2>4, NothingFollows
  <2> QED
    BY <1>5, <2>1, <2>2, <2>3, <2>5 DEF Answers
<1>7. Led(cross, QuotesOf("leader"))
  BY <1>0, <1>5, EmptySeq DEF Led
<1>8. Through(FeatureStep, Blank, Filter(tape, Untraded)) = Bare(Feed)
  <2>1. Filter(tape, Untraded) = <<>>
    BY <1>0, FilterEmpty
  <2>2. Through(FeatureStep, Blank, <<>>) = Blank
    BY FeatureLoop, ThroughEmpty
  <2>3. Bare(Blank) = Blank
    BY DEF Bare, Blank, Pure, NewEngine
  <2> QED
    BY <1>2, <2>1, <2>2, <2>3
<1> QED
  BY <1>0, <1>1, <1>3, <1>4, <1>6, <1>7, <1>8 DEF FeaturesInv

\* Every event keeps all of it.
LEMMA ObserveInv ==
    ASSUME FeaturesInv, NEW event \in Inputs, event.ts >= 1, Observe(event)
    PROVE  FeaturesInv'
<1> DEFINE who == event.who
           e == engine[who]
           f == After(e, event)
           after == Update(Feed, event)
           stripped == Filter(tape, Untraded)
<1>0. /\ tape \in Seq(Inputs) /\ Feed \in Feeds
      /\ \A w \in {"leader", "follower"} : Answers(engine[w], QuotesOf(w))
      /\ Led(cross, QuotesOf("leader"))
      /\ Through(FeatureStep, Blank, stripped) = Bare(Feed)
  BY DEF FeaturesInv
<1>1. /\ engine' = after.engine /\ cross' = after.cross /\ vector' = VectorOf(after, event)
      /\ tape' = Append(tape, event)
  BY Zenon DEF Observe, Feed
<1>2. /\ after = [engine |-> [engine EXCEPT ![who] = f], cross |-> Crossed(Feed, event)]
      /\ after \in Feeds
  BY <1>0, UpdateIs, UpdateType DEF Feed
<1>3. engine \in [{"leader", "follower"} -> Engines] /\ who \in {"leader", "follower"} /\ e \in Engines
  BY <1>0 DEF Feeds, Feed, Inputs
<1>4. tape' \in Seq(Inputs) /\ Feed' \in Feeds /\ Feed' = after
  <2>1. tape' \in Seq(Inputs)
    BY <1>0, <1>1, AppendProperties
  <2>2. Feed' = [engine |-> engine', cross |-> cross']
    BY DEF Feed
  <2> HIDE DEF after, f
  <2> QED
    BY <1>1, <1>2, <2>1, <2>2
<1>5. tape' # <<>> /\ tape'[Len(tape')] = event
  <2>1. /\ Len(Append(tape, event)) = Len(tape) + 1 /\ Append(tape, event)[Len(tape) + 1] = event
        /\ Len(tape) \in Nat /\ Append(tape, event) \in Seq(Inputs)
    BY <1>0, AppendProperties, LenProperties
  <2>2. Append(tape, event) # <<>>
    BY <2>1, EmptySeq
  <2> QED
    BY <1>1, <2>1, <2>2
<1>6. Now' = event.ts /\ event.ts \in Nat
  BY <1>5 DEF Now, Inputs
<1>7. \A w \in {"leader", "follower"} :
         /\ QuotesOf(w) \in Seq(Inputs)
         /\ QuotesOf(w)' = IF w = who /\ event.kind = "quote" THEN Append(QuotesOf(w), event) ELSE QuotesOf(w)
  <2> TAKE w \in {"leader", "follower"}
  <2>1. QuotesOf(w) \in Seq(Inputs)
    BY <1>0, FilterType DEF QuotesOf
  <2>2. QuotesOf(w)' = Filter(Append(tape, event), Quoted(w))
    BY <1>1 DEF QuotesOf, Quoted, Inputs
  <2>3. Filter(Append(tape, event), Quoted(w)) =
          IF event \in Quoted(w) THEN Append(Filter(tape, Quoted(w)), event) ELSE Filter(tape, Quoted(w))
    BY <1>0, FilterAppend
  <2>4. event \in Quoted(w) <=> w = who /\ event.kind = "quote"
    BY DEF Quoted
  <2> QED
    BY <2>1, <2>2, <2>3, <2>4 DEF QuotesOf
<1> HIDE DEF after, f
<1>8. ASSUME NEW w \in {"leader", "follower"}
      PROVE  Answers(engine[w], QuotesOf(w))'
  <2>0. engine'[w] = IF w = who THEN f ELSE engine[w]
    BY <1>1, <1>2, <1>3
  <2>1. Answers(engine'[w], QuotesOf(w)')
    <3>1. CASE w = who /\ event.kind = "quote"
      <4>1. f = OnQuote(e, event.mid)
        BY <3>1 DEF After, f
      <4>2. Answers(OnQuote(e, event.mid), Append(QuotesOf(w), event))
        BY <1>0, <1>3, <1>7, <3>1, QuoteAnswers
      <4> QED
        BY <1>7, <2>0, <3>1, <4>1, <4>2
    <3>2. CASE w = who /\ event.kind = "trade"
      <4>1. f = OnTrade(e, event.mid) /\ event.mid \in Nat
        BY <3>2 DEF After, f, Inputs
      <4>2. Answers(OnTrade(e, event.mid), QuotesOf(w))
        BY <1>0, <1>3, <3>2, <4>1, TradeAnswers
      <4> QED
        BY <1>7, <2>0, <3>2, <4>1, <4>2
    <3>3. CASE w = who /\ event.kind # "quote" /\ event.kind # "trade"
      <4>1. f = e
        BY <3>3 DEF After, f
      <4> QED
        BY <1>0, <1>7, <2>0, <3>3, <4>1
    <3>4. CASE w # who
      BY <1>0, <1>7, <2>0, <3>4
    <3> QED
      BY <3>1, <3>2, <3>3, <3>4
  <2> QED
    BY <2>1 DEF Answers, Follows, LastN, ReturnsOf
<1>9. Led(cross, QuotesOf("leader"))'
  <2>0. cross' = Crossed(Feed, event) /\ Feed.engine = engine /\ Feed.cross = cross
    BY <1>1, <1>2 DEF Feed
  <2>1. Led(cross', QuotesOf("leader")')
    <3>1. CASE event.kind = "quote" /\ who = "leader"
      <4>1. f = OnQuote(e, event.mid)
        BY <3>1 DEF After, f
      <4>2. cross' = IF f.seen > 1 THEN Publish(f, event.ts, event.mid) ELSE cross
        BY <2>0, <3>1 DEF Crossed, f
      <4>3. Led(IF f.seen > 1 THEN Publish(f, event.ts, event.mid) ELSE cross, Append(QuotesOf("leader"), event))
        BY <1>0, <1>3, <1>7, <3>1, <4>1, LedMoves
      <4> QED
        BY <1>7, <3>1, <4>2, <4>3
    <3>2. CASE ~(event.kind = "quote" /\ who = "leader")
      <4>1. cross' = cross
        BY <2>0, <3>2 DEF Crossed
      <4>2. QuotesOf("leader")' = QuotesOf("leader")
        BY <1>7, <3>2
      <4> QED
        BY <1>0, <4>1, <4>2
    <3> QED
      BY <3>1, <3>2
  <2> QED
    BY <2>1 DEF Led
<1>10. vector' = VectorOf(Feed', tape'[Len(tape')])
  BY <1>1, <1>4, <1>5
<1>11. Through(FeatureStep, Blank, Filter(tape', Untraded)) = Bare(Feed')
  <2>1. stripped \in Seq(Inputs)
    BY <1>0, FilterType
  <2>2. Filter(tape', Untraded) = IF event.kind # "trade" THEN Append(stripped, event) ELSE stripped
    <3>1. Filter(Append(tape, event), Untraded) =
            IF event \in Untraded THEN Append(stripped, event) ELSE stripped
      BY <1>0, FilterAppend
    <3>2. event \in Untraded <=> event.kind # "trade"
      BY DEF Untraded
    <3> QED
      BY <1>1, <3>1, <3>2
  <2>3. CASE event.kind = "trade"
    <3>1. Bare(after) = Bare(Feed)
      BY <1>0, <2>3, BareUpdate DEF after
    <3> QED
      BY <1>0, <1>4, <2>2, <2>3, <3>1
  <2>4. CASE event.kind # "trade"
    <3>1. Bare(Feed) \in Feeds /\ Update(Bare(Feed), event) = Bare(after)
      BY <1>0, <2>4, BareUpdate DEF after
    <3>2. FeatureStep[Bare(Feed)][event] = Update(Bare(Feed), event)
      BY <3>1 DEF FeatureStep
    <3> HIDE DEF stripped
    <3>3. Through(FeatureStep, Blank, Append(stripped, event)) = FeatureStep[Through(FeatureStep, Blank, stripped)][event]
      BY <2>1, FeatureLoop, ThroughAppend
    <3> QED
      BY <1>0, <1>4, <2>2, <2>4, <3>1, <3>2, <3>3
  <2> QED
    BY <2>3, <2>4
<1>12. Through(FeatureStep, Blank, Filter(tape, Untraded))' = Bare(Feed)'
  BY <1>11 DEF FeatureStep, Untraded, Inputs, Bare
<1>13. (vector = IF tape = <<>> THEN NoVector ELSE VectorOf(Feed, tape[Len(tape)]))'
  BY <1>5, <1>10
<1>14. (\A w \in {"leader", "follower"} : Answers(engine[w], QuotesOf(w)))'
  BY <1>8
<1>15. (tape \in Seq(Inputs) /\ Feed \in Feeds /\ Now \in Nat /\ Now >= 1)'
  BY <1>4, <1>6
<1> QED
  BY <1>9, <1>12, <1>13, <1>14, <1>15 DEF FeaturesInv

\* The events are a quote of either, a crossed one or a trade.
LEMMA FeaturesStep == FeaturesInv /\ [FeaturesNext]_featureVars => FeaturesInv'
<1> SUFFICES ASSUME FeaturesInv, [FeaturesNext]_featureVars PROVE FeaturesInv'
  OBVIOUS
<1>0. Now \in Nat /\ Now >= 1
  BY DEF FeaturesInv
<1>1. ASSUME NEW who \in {"leader", "follower"}, NEW mid \in Mids, NEW step \in Steps,
             Observe(Event(who, "quote", mid, Now + step))
      PROVE  FeaturesInv'
  <2>1. mid \in Nat /\ Now + step \in Nat /\ Now + step >= 1
    BY <1>0, FeaturesAssumption
  <2>2. Event(who, "quote", mid, Now + step) \in Inputs /\ Event(who, "quote", mid, Now + step).ts >= 1
    BY <2>1 DEF Event, Inputs
  <2> QED
    BY <1>1, <2>2, ObserveInv
<1>2. ASSUME Observe(Event("follower", "crossed", 0, Now))
      PROVE  FeaturesInv'
  <2>1. Event("follower", "crossed", 0, Now) \in Inputs /\ Event("follower", "crossed", 0, Now).ts >= 1
    BY <1>0 DEF Event, Inputs
  <2> QED
    BY <1>2, <2>1, ObserveInv
<1>3. ASSUME NEW price \in Mids, Observe(Event("follower", "trade", price, Now))
      PROVE  FeaturesInv'
  <2>1. price \in Nat
    BY FeaturesAssumption
  <2>2. Event("follower", "trade", price, Now) \in Inputs /\ Event("follower", "trade", price, Now).ts >= 1
    BY <1>0, <2>1 DEF Event, Inputs
  <2> QED
    BY <1>3, <2>2, ObserveInv
<1>4. CASE UNCHANGED featureVars
  <2>0. engine' = engine /\ cross' = cross /\ vector' = vector /\ tape' = tape
    BY <1>4 DEF featureVars
  <2>1. Feed' = Feed /\ Now' = Now
    BY <2>0 DEF Feed, Now
  <2>2. ASSUME NEW w \in {"leader", "follower"}
        PROVE  QuotesOf(w)' = QuotesOf(w)
    BY <2>0 DEF QuotesOf, Quoted, Inputs
  <2>3. ASSUME NEW w \in {"leader", "follower"}
        PROVE  Answers(engine[w], QuotesOf(w))'
    <3>1. Answers(engine'[w], QuotesOf(w)')
      BY <2>0, <2>2 DEF FeaturesInv
    <3> QED
      BY <3>1 DEF Answers, Follows, LastN, ReturnsOf
  <2>4. Led(cross, QuotesOf("leader"))'
    <3>1. Led(cross', QuotesOf("leader")')
      BY <2>0, <2>2 DEF FeaturesInv
    <3> QED
      BY <3>1 DEF Led
  <2>5. (Through(FeatureStep, Blank, Filter(tape, Untraded)) = Bare(Feed))'
    <3>1. Through(FeatureStep, Blank, Filter(tape', Untraded)) = Bare(Feed')
      BY <2>0, <2>1 DEF FeaturesInv
    <3> QED
      BY <3>1 DEF FeatureStep, Untraded, Inputs, Bare
  <2>6. (vector = IF tape = <<>> THEN NoVector ELSE VectorOf(Feed, tape[Len(tape)]))'
    <3>1. vector' = IF tape' = <<>> THEN NoVector ELSE VectorOf(Feed', tape'[Len(tape')])
      BY <2>0, <2>1 DEF FeaturesInv
    <3> QED
      BY <3>1
  <2>7. (tape \in Seq(Inputs) /\ Feed \in Feeds /\ Now \in Nat /\ Now >= 1)'
    BY <2>0, <2>1 DEF FeaturesInv
  <2>8. (\A w \in {"leader", "follower"} : Answers(engine[w], QuotesOf(w)))'
    BY <2>3
  <2> QED
    BY <2>4, <2>5, <2>6, <2>7, <2>8 DEF FeaturesInv
<1> QED
  BY <1>1, <1>2, <1>3, <1>4 DEF FeaturesNext

\* n times the sum of the squared deviations.
Scaled(unit, q, m, s, n) == Deviations(unit, q, m, s) * n = unit * unit * (n * q - s * s)

LEMMA DeviationsTimes ==
    ASSUME NEW unit \in Int, NEW q \in Int, NEW m \in Int, NEW s \in Int, NEW n \in Int, MeanIs(unit, n, m, s)
    PROVE  Scaled(unit, q, m, s, n)
<1> DEFINE a == unit * unit * (n * q)
           b == unit * ((m * n) * s)
           c == unit * ((unit * s) * s)
           d == unit * unit * (s * s)
           e == unit * (unit * q - m * s) * n
           f == unit * unit * (n * q - s * s)
<1>1. e = a - b
  OBVIOUS
<1>2. b = c
  BY DEF MeanIs
<1>3. c = d
  OBVIOUS
<1>4. f = a - d
  OBVIOUS
<1>5. e = f
  <2> HIDE DEF a, b, c, d, e, f
  <2> QED
    BY <1>1, <1>2, <1>3, <1>4
<1> QED
  BY <1>5 DEF Scaled, Deviations

\* The mean is that of the window, and so are the squares of its deviations.
LEMMA StatsAreExact == FeaturesInv => StatsExact
<1> SUFFICES ASSUME FeaturesInv, NEW who \in DOMAIN engine
             PROVE  LET w == engine[who].vol
                        window == LastN(ReturnsOf(QuotesOf(who)), vol_window)
                        n == Len(window)
                    IN  /\ w.n = n
                        /\ n > 0 =>
                             /\ w.mean * n = Unit * Total(window)
                             /\ w.m2 * n = Unit * Unit * (n * Squares(window) - Total(window) * Total(window))
  BY DEF StatsExact
<1> DEFINE w == engine[who].vol
           window == LastN(ReturnsOf(QuotesOf(who)), vol_window)
           n == Len(window)
<1>1. who \in {"leader", "follower"} /\ Answers(engine[who], QuotesOf(who))
  BY DEF FeaturesInv, Feed, Feeds
<1>2. Follows(w, window)
  BY <1>1 DEF Answers
<1> HIDE DEF w, window
<1>3. /\ w.q = window /\ window \in Seq(Int) /\ w.n = n /\ n \in Nat /\ w.mean \in Int
      /\ MeanIs(Unit, n, w.mean, Total(window))
      /\ w.m2 = Deviations(Unit, Squares(window), w.mean, Total(window))
  BY <1>2, LenProperties DEF Follows, Statistics
<1>4. Total(window) \in Int /\ Squares(window) \in Int /\ Unit \in Int
  BY <1>3, TotalLaws, FeaturesAssumption
<1> HIDE DEF n
<1>5. w.m2 * n = Unit * Unit * (n * Squares(window) - Total(window) * Total(window))
  <2>1. Scaled(Unit, Squares(window), w.mean, Total(window), n)
    <3>1. n \in Int /\ w.mean \in Int /\ MeanIs(Unit, n, w.mean, Total(window))
      BY <1>3
    <3> QED
      BY <1>4, <3>1, DeviationsTimes
  <2> QED
    BY <1>3, <2>1, Zenon DEF Scaled
<1> QED
  BY <1>3, <1>5 DEF MeanIs, w, window, n

\* What a vector says of the leader is its last move while that is fresh.
LEMMA LeaderIsFresh == FeaturesInv => LeaderFresh
<1> SUFFICES ASSUME FeaturesInv, vector # NoVector
             PROVE  LET led == QuotesOf("leader")
                        k == Len(led)
                        known == k > 1 /\ Now - led[k].ts <= staleness
                    IN  /\ vector["leader_r1"] = (IF known THEN led[k].mid - led[k - 1].mid ELSE 0)
                        /\ vector["leader_gap_bps"] =
                             (IF known THEN led[k].mid - Latest(engine["follower"].mids) ELSE 0)
  BY DEF LeaderFresh
<1> DEFINE led == QuotesOf("leader")
           k == Len(led)
           e == engine["follower"]
           mid == Latest(e.mids)
           last == tape[Len(tape)]
           known == k > 1 /\ Now - led[k].ts <= staleness
           state == IF NotStale(cross, Now) THEN cross ELSE [NoLeader EXCEPT !.mid = mid]
<1>1. tape # <<>> /\ vector = VectorOf(Feed, last) /\ Now = last.ts
  BY DEF FeaturesInv, Now
<1>2. vector = Kept(Features(e, cross, Now)) /\ Warm(e)
  BY <1>1 DEF VectorOf, Feed
<1>3. /\ "leader_r1" \in Names \ MICRO_FEATURES /\ "leader_gap_bps" \in Names \ MICRO_FEATURES
  BY DEF Names, MICRO_FEATURES
<1>4. vector["leader_r1"] = Features(e, cross, Now)["leader_r1"]
      /\ vector["leader_gap_bps"] = Features(e, cross, Now)["leader_gap_bps"]
  BY <1>2, <1>3 DEF Kept
<1>5. Features(e, cross, Now)["leader_r1"] = state.r1 /\ Features(e, cross, Now)["leader_gap_bps"] = state.mid - mid
  <2> HIDE DEF e
  <2> QED
    BY <1>3 DEF Features
<1>6. mid \in Int
  <2>1. e \in Engines
    BY DEF FeaturesInv, Feed, Feeds
  <2>2. e.mids \in Seq(Nat)
    BY <2>1, EngineFields
  <2>3. Len(e.mids) \in Nat /\ Len(e.mids) > Lag /\ Lag \in Nat
    BY <1>2, <2>2, LenProperties, FeaturesAssumption DEF Warm
  <2>4. Len(e.mids) \in 1..Len(e.mids)
    BY <2>3
  <2> QED
    BY <2>2, <2>4, ElementOfSeq DEF Latest
<1>7. k \in Nat
  BY FilterType, LenProperties DEF FeaturesInv, QuotesOf
<1>8. Led(cross, led)
  BY DEF FeaturesInv
<1>9. NotStale(cross, Now) <=> known
  <2>1. CASE k <= 1
    BY <1>7, <1>8, <2>1 DEF Led, NotStale
  <2>2. CASE k > 1
    <3>1. cross.ts = led[k].ts /\ cross.ts >= 1
      BY <1>7, <1>8, <2>2 DEF Led
    <3>2. cross # NoLeader
      BY <3>1 DEF NoLeader
    <3> QED
      BY <2>2, <3>1, <3>2 DEF NotStale
  <2> QED
    BY <1>7, <2>1, <2>2
<1>10. CASE known
  <2>1. cross.mid = led[k].mid /\ cross.r1 = led[k].mid - led[k - 1].mid
    BY <1>7, <1>8, <1>10 DEF Led
  <2>2. state = cross
    BY <1>9, <1>10
  <2> QED
    BY <1>4, <1>5, <1>10, <2>1, <2>2
<1>11. CASE ~known
  <2>1. state = [NoLeader EXCEPT !.mid = mid]
    BY <1>9, <1>11
  <2>2. state.r1 = 0 /\ state.mid = mid
    <3> HIDE DEF mid, state
    <3> QED
      BY <2>1 DEF NoLeader
  <2>3. state.mid - mid = 0
    <3> HIDE DEF mid, state
    <3> QED
      BY <1>6, <2>2
  <2> HIDE DEF state, known
  <2> QED
    BY <1>4, <1>5, <1>11, <2>2, <2>3 DEF known
<1> QED
  BY <1>10, <1>11

\* A vector is that of the session without its trades.
LEMMA TradesAreIgnored == FeaturesInv => TradesIgnored
<1> SUFFICES ASSUME FeaturesInv, vector # NoVector
             PROVE  vector = VectorOf(Through(FeatureStep, Blank, Filter(tape, Untraded)), tape[Len(tape)])
  BY DEF TradesIgnored, FeatureStep
<1>1. tape # <<>> /\ vector = VectorOf(Feed, tape[Len(tape)]) /\ tape \in Seq(Inputs) /\ Feed \in Feeds
  BY DEF FeaturesInv
<1>2. Len(tape) \in 1..Len(tape)
  BY <1>1, EmptySeq, LenProperties
<1>3. tape[Len(tape)] \in Inputs
  BY <1>1, <1>2, ElementOfSeq
<1>4. VectorOf(Bare(Feed), tape[Len(tape)]) = VectorOf(Feed, tape[Len(tape)])
  BY <1>1, <1>3, BareVector
<1> QED
  BY <1>1, <1>4 DEF FeaturesInv

\* The rolling statistics are those of a full recomputation, the leader's
\* features its last move or nothing, and a vector does not depend on the
\* trades, whatever the window, the lag and the staleness
\* (online_stats.py:3, cross.py:13, engine.py:29).
THEOREM FeaturesAreExact == FeaturesSpec => []FeaturesExact
<1>1. FeaturesInv => FeaturesExact
  BY StatsAreExact, LeaderIsFresh, TradesAreIgnored DEF FeaturesExact
<1> QED
  BY <1>1, FeaturesInitInv, FeaturesStep, PTL DEF FeaturesSpec

-----------------------------------------------------------------------------
(* The simulations over a recording. *)

TapeQuotes == [ts : Nat, bid : Int, ask : Int, predicted : Int]

\* Time does not go back from one quote to the next.
RecordingInv ==
    /\ recording \in Seq(TapeQuotes)
    /\ \A i, j \in 1..Len(recording) : i <= j => recording[i].ts <= recording[j].ts

\* A quote that is recorded is no earlier than those before it.
LEMMA TapeStep == RecordingInv /\ [ResearchNext]_recording => RecordingInv'
<1> SUFFICES ASSUME RecordingInv, [ResearchNext]_recording
             PROVE  RecordingInv'
  OBVIOUS
<1>1. CASE UNCHANGED recording
  BY <1>1 DEF RecordingInv
<1>2. CASE ResearchNext
  <2>1. PICK bid \in Bids, spread \in Spreads, predicted \in Predictions, gap \in Gaps :
             QuoteRecorded(bid, spread, predicted, gap)
    BY <1>2 DEF ResearchNext
  <2> DEFINE n == Len(recording)
             before == IF recording = <<>> THEN 0 ELSE recording[n].ts
             quote == [ts |-> before + gap, bid |-> 2 * bid, ask |-> 2 * (bid + spread),
                       predicted |-> 2 * predicted]
  <2>2. n \in Nat /\ recording \in Seq(TapeQuotes)
    BY LenProperties DEF RecordingInv
  <2>3. before \in Nat /\ \A i \in 1..n : recording[i].ts <= before /\ recording[i].ts \in Nat
    <3>0. \A i \in 1..n : recording[i] \in TapeQuotes
      BY <2>2, ElementOfSeq
    <3>1. \A i \in 1..n : recording[i].ts \in Nat
      BY <3>0 DEF TapeQuotes
    <3>2. CASE recording = <<>>
      BY <3>2, EmptySeq
    <3>3. CASE recording # <<>>
      <4>1. n \in 1..n
        BY <2>2, <3>3, EmptySeq
      <4> QED
        BY <2>2, <3>1, <3>3, <4>1 DEF RecordingInv
    <3> QED
      BY <3>2, <3>3
  <2>4. bid \in Nat /\ spread \in Nat /\ predicted \in Int /\ gap \in Nat
    BY ResearchAssumption
  <2>5. quote \in TapeQuotes /\ quote.ts >= before
    <3> HIDE DEF before
    <3> QED
      BY <2>3, <2>4 DEF TapeQuotes
  <2>6. recording' = Append(recording, quote)
    BY <2>1 DEF QuoteRecorded
  <2> HIDE DEF quote, before
  <2>7. /\ recording' \in Seq(TapeQuotes) /\ Len(recording') = n + 1
        /\ recording'[n + 1] = quote /\ \A i \in 1..n : recording'[i] = recording[i]
    BY <2>2, <2>5, <2>6, AppendProperties
  <2>8. ASSUME NEW i \in 1..(n + 1), NEW j \in 1..(n + 1), i <= j
        PROVE  recording'[i].ts <= recording'[j].ts
    <3>1. CASE j \in 1..n
      <4>1. i \in 1..n
        BY <2>2, <2>8, <3>1
      <4> QED
        BY <2>7, <2>8, <3>1, <4>1 DEF RecordingInv
    <3>2. CASE j = n + 1 /\ i \in 1..n
      <4>1. quote.ts \in Nat
        BY <2>5 DEF TapeQuotes
      <4> QED
        BY <2>3, <2>5, <2>7, <3>2, <4>1
    <3>3. CASE j = n + 1 /\ i = n + 1
      <4>1. quote.ts \in Nat
        BY <2>5 DEF TapeQuotes
      <4> QED
        BY <2>7, <3>3, <4>1
    <3> QED
      BY <2>2, <2>8, <3>1, <3>2, <3>3
  <2> QED
    BY <2>7, <2>8 DEF RecordingInv
<1> QED
  BY <1>1, <1>2

\* Nothing was recorded yet.
LEMMA TapeInit == ResearchInit => RecordingInv
  BY EmptySeq DEF ResearchInit, RecordingInv

\* Min picks a least element, which numbers have.
LEMMA MinIsLeast ==
    ASSUME NEW W \in SUBSET Nat, W # {}
    PROVE  Min(W) \in W /\ \A y \in W : Min(W) <= y
<1>1. \E m \in W : \A y \in W : m <= y
  BY LeastNatural
<1> QED
  BY <1>1 DEF Min

\* The indexes and the numbers of a tape.
LEMMA TapeFacts ==
    ASSUME RecordingInv
    PROVE  /\ Len(recording) \in Nat /\ DOMAIN recording = 1..Len(recording)
           /\ \A i \in 1..Len(recording) :
                /\ recording[i].ts \in Nat /\ recording[i].bid \in Int
                /\ recording[i].ask \in Int /\ recording[i].predicted \in Int
                /\ Mid(recording[i]) \in Int
           /\ TwoSided \subseteq 1..Len(recording)
<1>1. Len(recording) \in Nat /\ DOMAIN recording = 1..Len(recording)
  BY LenProperties DEF RecordingInv
<1>2. \A i \in 1..Len(recording) : recording[i] \in TapeQuotes
  BY ElementOfSeq DEF RecordingInv
<1>3. TwoSided \subseteq 1..Len(recording)
  BY <1>1 DEF TwoSided
<1> QED
  BY <1>1, <1>2, <1>3 DEF TapeQuotes, Mid

\* If a prediction is resolved, so are those before it: what resolved it is
\* late enough for them.
LEMMA ResolvedFirst ==
    ASSUME RecordingInv
    PROVE  \E n \in 0..Len(recording) : Resolved = 1..n
<1>0. Len(recording) \in Nat /\ DOMAIN recording = 1..Len(recording) /\ horizon \in Nat
  BY TapeFacts, ResearchAssumption
<1>1. ASSUME NEW i \in Resolved, NEW k \in 1..i
      PROVE  k \in Resolved
  <2>1. i \in 1..Len(recording) /\ k \in 1..Len(recording) /\ k <= i
    BY <1>0 DEF Resolved
  <2>2. PICK j \in (i + 1)..Len(recording) : recording[j].ts >= recording[i].ts + horizon
    BY DEF Resolved, Resolvers
  <2>3. recording[k].ts <= recording[i].ts
    BY <2>1 DEF RecordingInv
  <2>4. j \in (k + 1)..Len(recording) /\ j \in 1..Len(recording)
    BY <1>0, <2>1, <2>2
  <2>5. recording[k].ts \in Nat /\ recording[i].ts \in Nat /\ recording[j].ts \in Nat
    BY <2>1, <2>4, TapeFacts
  <2>6. recording[j].ts >= recording[k].ts + horizon
    BY <1>0, <2>2, <2>3, <2>5
  <2> QED
    BY <1>0, <2>1, <2>4, <2>6 DEF Resolved, Resolvers
<1> DEFINE Rest == (1..Len(recording)) \ Resolved
<1>2. CASE Rest = {}
  <2>1. Resolved = 1..Len(recording)
    BY <1>0, <1>2 DEF Resolved
  <2>2. Len(recording) \in 0..Len(recording)
    BY <1>0
  <2> QED
    BY <2>1, <2>2, Zenon
<1>3. CASE Rest # {}
  <2>1. Rest \in SUBSET Nat
    OBVIOUS
  <2>2. PICK m \in Rest : \A y \in Rest : m <= y
    <3> HIDE DEF Rest
    <3> QED
      BY <1>3, <2>1, LeastNatural
  <2>3. m \in 1..Len(recording) /\ m \notin Resolved
    BY <2>2
  <2>4. ASSUME NEW k \in Resolved
        PROVE  k \in 1..(m - 1)
    <3>1. k \in 1..Len(recording) /\ m \notin 1..k
      BY <1>0, <1>1, <2>3 DEF Resolved
    <3> QED
      BY <1>0, <2>3, <3>1
  <2>5. ASSUME NEW k \in 1..(m - 1)
        PROVE  k \in Resolved
    <3>1. k \in 1..Len(recording) /\ ~(m <= k)
      BY <1>0, <2>3
    <3> QED
      BY <2>2, <3>1
  <2>6. m - 1 \in 0..Len(recording)
    BY <1>0, <2>3
  <2>7. Resolved = 1..(m - 1)
    <3> HIDE DEF Rest
    <3> QED
      BY <2>4, <2>5, Zenon
  <2> QED
    BY <2>6, <2>7, Zenon
<1> QED
  BY <1>2, <1>3

\* A row is that of a quote and of the first one a horizon later.
LEMMA RowIs ==
    ASSUME RecordingInv, NEW i \in Resolved
    PROVE  /\ i \in 1..Len(recording)
           /\ Min(Resolvers(i)) \in Resolvers(i) /\ \A j \in Resolvers(i) : Min(Resolvers(i)) <= j
           /\ Row(i) \in Rows
           /\ Row(i).ts = recording[i].ts
           /\ Row(i).realized = Mid(recording[Min(Resolvers(i))]) - Mid(recording[i])
           /\ Row(i).spread = recording[i].ask - recording[i].bid
<1>1. i \in 1..Len(recording) /\ Resolvers(i) # {} /\ Len(recording) \in Nat
  BY TapeFacts DEF Resolved
<1>2. Resolvers(i) \in SUBSET Nat
  BY <1>1 DEF Resolvers
<1>3. Min(Resolvers(i)) \in Resolvers(i) /\ \A j \in Resolvers(i) : Min(Resolvers(i)) <= j
  BY <1>1, <1>2, MinIsLeast
<1>4. Min(Resolvers(i)) \in 1..Len(recording)
  BY <1>1, <1>3 DEF Resolvers
<1>5. /\ recording[i].ts \in Nat /\ recording[i].bid \in Int /\ recording[i].ask \in Int
      /\ recording[i].predicted \in Int /\ Mid(recording[i]) \in Int
      /\ Mid(recording[Min(Resolvers(i))]) \in Int
  BY <1>1, <1>4, TapeFacts
<1>6. Row(i) \in Rows
  BY <1>5 DEF Row, Rows
<1> QED
  BY <1>1, <1>3, <1>6 DEF Row

\* The rows of a tape, in its order.
LEMMA RowsAre ==
    ASSUME RecordingInv
    PROVE  /\ ResolvedRows \in Seq(Rows) /\ DOMAIN ResolvedRows = Resolved
           /\ \A i \in Resolved : ResolvedRows[i] = Row(i)
           /\ Resolved = 1..Len(ResolvedRows)
<1>1. PICK n \in 0..Len(recording) : Resolved = 1..n
  BY ResolvedFirst
<1>2. n \in Nat
  BY <1>1, TapeFacts
<1>3. \A i \in 1..n : Row(i) \in Rows
  BY <1>1, RowIs
<1>4. ResolvedRows = [i \in 1..n |-> Row(i)]
  BY <1>1 DEF ResolvedRows
<1>5. ResolvedRows \in Seq(Rows) /\ Len(ResolvedRows) = n
  BY <1>2, <1>3, <1>4, IsASeq
<1> QED
  BY <1>1, <1>4, <1>5

\* A row that is given a baseline is a row, and keeps the rest.
LEMMA RebasedRow ==
    ASSUME NEW r \in Rows, NEW baseline \in Int
    PROVE  LET q == [r EXCEPT !.persistence = baseline]
           IN  /\ q \in Rows /\ q.ts = r.ts /\ q.prediction = r.prediction
               /\ q.realized = r.realized /\ q.spread = r.spread /\ q.persistence = baseline
  BY DEF Rows

\* Of two baselines given, the last one counts.
LEMMA RebasedTwice ==
    ASSUME NEW r \in Rows, NEW first, NEW last
    PROVE  [[r EXCEPT !.persistence = first] EXCEPT !.persistence = last] = [r EXCEPT !.persistence = last]
  BY DEF Rows

\* A row that is scored leaves an evaluation.
LEMMA ScoredType ==
    ASSUME NEW at \in Evaluations, NEW r \in Rows
    PROVE  Scored(at, r) \in Evaluations
<1> DEFINE q == [r EXCEPT !.persistence = at.last_realized]
<1>1. at.rows \in Seq(Rows) /\ at.last_realized \in Int /\ r.ts \in Int /\ r.realized \in Int
  BY DEF Evaluations, Rows
<1>2. q \in Rows
  BY <1>1, RebasedRow
<1>3. Append(at.rows, q) \in Seq(Rows)
  <2> HIDE DEF q
  <2> QED
    BY <1>1, <1>2, AppendProperties
<1> QED
  BY <1>1, <1>3 DEF Scored, Evaluations

\* The start of an evaluation is one.
LEMMA NoRowsType == NoRows \in Evaluations
<1>1. -horizon \in Int
  BY ResearchAssumption
<1> QED
  BY <1>1, EmptySeq DEF NoRows, Evaluations

\* The loops over the rows of an evaluation.
LEMMA EvaluatingLoop ==
    ASSUME NEW non_overlapping \in BOOLEAN
    PROVE  Loop(Evaluating(non_overlapping), NoRows, Evaluations, Rows)
<1>1. \A at \in Evaluations, r \in Rows :
        (IF non_overlapping /\ r.ts < at.last_ts + horizon THEN at ELSE Scored(at, r)) \in Evaluations
  BY ScoredType
<1> QED
  BY <1>1, NoRowsType, Zenon DEF Evaluating, Loop

\* The digest scores a row as the evaluation does.
LEMMA ThinningIs ==
    ASSUME NEW at \in Evaluations, NEW r \in Rows
    PROVE  Thinning[at][r] = IF r.ts >= at.last_ts + horizon THEN Scored(at, r) ELSE at
  BY DEF Thinning, Scored, Rebased

\* The loop that thins rows afterwards.
LEMMA ThinningLoop == Loop(Thinning, NoRows, Evaluations, Rows)
<1>1. \A at \in Evaluations, r \in Rows :
        (IF r.ts >= at.last_ts + horizon THEN Scored(at, r) ELSE at) \in Evaluations
  BY ScoredType
<1>2. Thinning = [at \in Evaluations |-> [r \in Rows |-> IF r.ts >= at.last_ts + horizon THEN Scored(at, r) ELSE at]]
  BY DEF Thinning, Scored, Rebased
<1> QED
  BY <1>1, <1>2, NoRowsType, Zenon DEF Loop

\* What is scored of a row does not depend on the baseline it had.
LEMMA ScoredRebased ==
    ASSUME NEW at \in Evaluations, NEW r \in Rows, NEW baseline \in Int
    PROVE  Scored(at, [r EXCEPT !.persistence = baseline]) = Scored(at, r)
  BY RebasedRow, RebasedTwice DEF Scored

\* Thinning the rows of an evaluation of all is evaluating fewer.
LEMMA ThinnedRows ==
    ASSUME NEW s \in Seq(Rows)
    PROVE  Through(Thinning, NoRows, Through(Evaluating(FALSE), NoRows, s).rows)
             = Through(Evaluating(TRUE), NoRows, s)
<1> DEFINE each == Evaluating(FALSE)
           apart == Evaluating(TRUE)
           all(q) == Through(each, NoRows, q)
           few(q) == Through(apart, NoRows, q)
           thin(q) == Through(Thinning, NoRows, q)
           W == {q \in Seq(Rows) : thin(all(q).rows) = few(q)}
<1>0. /\ Loop(each, NoRows, Evaluations, Rows)
      /\ Loop(apart, NoRows, Evaluations, Rows)
      /\ Loop(Thinning, NoRows, Evaluations, Rows)
  BY EvaluatingLoop, ThinningLoop
<1>a. ASSUME NEW at \in Evaluations, NEW r \in Rows
      PROVE  /\ each[at][r] = Scored(at, r)
             /\ apart[at][r] = IF r.ts < at.last_ts + horizon THEN at ELSE Scored(at, r)
  BY <1>a DEF Evaluating
<1> HIDE DEF each, apart
<1>1. <<>> \in W
  <2>1. all(<<>>) = NoRows /\ few(<<>>) = NoRows /\ thin(<<>>) = NoRows
    BY <1>0, ThroughEmpty
  <2>2. NoRows.rows = <<>>
    BY DEF NoRows
  <2>3. thin(all(<<>>).rows) = few(<<>>)
    <3> HIDE DEF all, few, thin
    <3> QED
      BY <2>1, <2>2, Zenon
  <2> QED
    BY <2>3, EmptySeq
<1>2. ASSUME NEW q \in Seq(Rows), NEW r \in Rows, q \in W
      PROVE  Append(q, r) \in W
  <2> DEFINE a == all(q)
             b == few(q)
             x == [r EXCEPT !.persistence = a.last_realized]
  <2>1. thin(a.rows) = b
    BY <1>2
  <2>2. a \in Evaluations /\ b \in Evaluations
    BY <1>0, ThroughType
  <2>3. all(Append(q, r)) = each[a][r] /\ few(Append(q, r)) = apart[b][r]
    BY <1>0, ThroughAppend
  <2>4. a.last_realized \in Int /\ a.rows \in Seq(Rows) /\ b.last_ts \in Int
    BY <2>2 DEF Evaluations
  <2>5. x \in Rows /\ x.ts = r.ts
    BY <2>4, RebasedRow
  <2>6. all(Append(q, r)).rows = Append(a.rows, x)
    <3>1. each[a][r] = Scored(a, r)
      BY <1>a, <2>2
    <3> QED
      BY <2>3, <3>1 DEF Scored
  <2>7. thin(Append(a.rows, x)) = Thinning[b][x]
    <3> HIDE DEF x, a, b
    <3> QED
      BY <1>0, <2>1, <2>4, <2>5, ThroughAppend
  <2>8. Scored(b, x) = Scored(b, r)
    BY <2>2, <2>4, ScoredRebased
  <2>9. Thinning[b][x] = apart[b][r]
    <3>1. Thinning[b][x] = IF x.ts >= b.last_ts + horizon THEN Scored(b, x) ELSE b
      <4> HIDE DEF x, b
      <4> QED
        BY <2>2, <2>5, ThinningIs
    <3>2. apart[b][r] = IF r.ts < b.last_ts + horizon THEN b ELSE Scored(b, r)
      BY <1>a, <2>2
    <3>3. r.ts \in Int /\ horizon \in Int
      BY ResearchAssumption DEF Rows
    <3> HIDE DEF x, b
    <3> QED
      BY <2>4, <2>5, <2>8, <3>1, <3>2, <3>3
  <2>10. thin(all(Append(q, r)).rows) = few(Append(q, r))
    <3> HIDE DEF all, few, thin, a, b, x
    <3> QED
      BY <2>3, <2>6, <2>7, <2>9
  <2>11. Append(q, r) \in Seq(Rows)
    BY AppendProperties
  <2> HIDE DEF all, few, thin
  <2> QED
    BY <2>10, <2>11
<1>3. \A q \in Seq(Rows) : q \in W
  <2> HIDE DEF W
  <2> QED
    BY <1>1, <1>2, SequenceInduction
<1> QED
  BY <1>3 DEF each, apart

\* Two programs pick the same independent rows.
LEMMA RowsDoAgree == RecordingInv => RowsAgree
<1> SUFFICES ASSUME RecordingInv PROVE RowsAgree
  OBVIOUS
<1>1. ResolvedRows \in Seq(Rows)
  BY RowsAre
<1>2. Through(Thinning, NoRows, Through(Evaluating(FALSE), NoRows, ResolvedRows).rows)
        = Through(Evaluating(TRUE), NoRows, ResolvedRows)
  BY <1>1, ThinnedRows
<1> QED
  BY <1>2, Zenon DEF RowsAgree, _non_overlapping, AllRows, evaluate

\* The rows of an evaluation are those resolved, each with a baseline: all of
\* them, or some.
LEMMA EvaluatedType ==
    ASSUME RecordingInv, NEW non_overlapping \in BOOLEAN
    PROVE  evaluate(non_overlapping) \in Seq(Rows)
<1>1. ResolvedRows \in Seq(Rows)
  BY RowsAre
<1>2. Through(Evaluating(non_overlapping), NoRows, ResolvedRows) \in Evaluations
  BY <1>1, EvaluatingLoop, ThroughType
<1> QED
  BY <1>2 DEF evaluate, Evaluations

\* The rows are those of s, with baselines of their own.
BaselineOnly(rows, s) ==
    /\ Len(rows) = Len(s)
    /\ \A i \in 1..Len(s) :
         /\ rows[i].ts = s[i].ts /\ rows[i].prediction = s[i].prediction
         /\ rows[i].realized = s[i].realized /\ rows[i].spread = s[i].spread

\* Evaluating with overlapping rows takes each of them.
LEMMA AllEvaluated ==
    ASSUME NEW s \in Seq(Rows)
    PROVE  BaselineOnly(Through(Evaluating(FALSE), NoRows, s).rows, s)
<1> DEFINE each == Evaluating(FALSE)
           all(q) == Through(each, NoRows, q)
           W == {q \in Seq(Rows) : BaselineOnly(all(q).rows, q)}
<1>0. Loop(each, NoRows, Evaluations, Rows)
  BY EvaluatingLoop
<1>a. ASSUME NEW at \in Evaluations, NEW r \in Rows
      PROVE  each[at][r] = Scored(at, r)
  BY <1>a DEF Evaluating
<1> HIDE DEF each
<1>1. <<>> \in W
  <2>1. all(<<>>) = NoRows /\ NoRows.rows = <<>>
    BY <1>0, ThroughEmpty DEF NoRows
  <2>2. BaselineOnly(<<>>, <<>>)
    BY EmptySeq DEF BaselineOnly
  <2>3. BaselineOnly(all(<<>>).rows, <<>>)
    <3> HIDE DEF all
    <3> QED
      BY <2>1, <2>2, Zenon
  <2> QED
    BY <2>3, EmptySeq
<1>2. ASSUME NEW q \in Seq(Rows), NEW r \in Rows, q \in W
      PROVE  Append(q, r) \in W
  <2> DEFINE a == all(q)
             rows == a.rows
             x == [r EXCEPT !.persistence = a.last_realized]
  <2>1. BaselineOnly(rows, q)
    BY <1>2
  <2>2. a \in Evaluations
    BY <1>0, ThroughType
  <2>3. all(Append(q, r)) = each[a][r]
    BY <1>0, ThroughAppend
  <2>4. a.last_realized \in Int /\ rows \in Seq(Rows)
    BY <2>2 DEF Evaluations
  <2>5. /\ x \in Rows /\ x.ts = r.ts /\ x.prediction = r.prediction
        /\ x.realized = r.realized /\ x.spread = r.spread
    BY <2>4, RebasedRow
  <2>6. all(Append(q, r)).rows = Append(rows, x)
    <3>1. each[a][r] = Scored(a, r)
      BY <1>a, <2>2
    <3> QED
      BY <2>3, <3>1 DEF Scored
  <2> HIDE DEF all, a, rows, x
  <2>7. /\ Append(q, r) \in Seq(Rows) /\ Len(Append(q, r)) = Len(q) + 1 /\ Append(q, r)[Len(q) + 1] = r
        /\ \A i \in 1..Len(q) : Append(q, r)[i] = q[i]
    BY AppendProperties
  <2>8. /\ Len(Append(rows, x)) = Len(rows) + 1 /\ Append(rows, x)[Len(rows) + 1] = x
        /\ \A i \in 1..Len(rows) : Append(rows, x)[i] = rows[i]
    BY <2>4, <2>5, AppendProperties
  <2>9. BaselineOnly(Append(rows, x), Append(q, r))
    <3> DEFINE t == Append(rows, x)
               u == Append(q, r)
               n == Len(q)
    <3>1. n \in Nat /\ Len(rows) = n
      BY <2>1, LenProperties DEF BaselineOnly
    <3>2. Len(t) = n + 1 /\ Len(u) = n + 1 /\ t[n + 1] = x /\ u[n + 1] = r
          /\ \A i \in 1..n : t[i] = rows[i] /\ u[i] = q[i]
      BY <2>7, <2>8, <3>1
    <3>3. \A i \in 1..n : /\ rows[i].ts = q[i].ts /\ rows[i].prediction = q[i].prediction
                          /\ rows[i].realized = q[i].realized /\ rows[i].spread = q[i].spread
      BY <2>1 DEF BaselineOnly
    <3> HIDE DEF t, u, n
    <3>4. \A i \in 1..(n + 1) : i \in 1..n \/ i = n + 1
      BY <3>1
    <3> QED
      BY <2>5, <3>1, <3>2, <3>3, <3>4 DEF BaselineOnly, t, u
  <2> QED
    BY <2>6, <2>7, <2>9
<1>3. \A q \in Seq(Rows) : q \in W
  <2> HIDE DEF W
  <2> QED
    BY <1>1, <1>2, SequenceInduction
<1> QED
  BY <1>3 DEF each

\* Of the rows of a recording, the i-th is that of quote i.
LEMMA AllRowsAre ==
    ASSUME RecordingInv
    PROVE  /\ AllRows \in Seq(Rows) /\ Resolved = 1..Len(AllRows)
           /\ \A i \in 1..Len(AllRows) :
                /\ AllRows[i].ts = Row(i).ts /\ AllRows[i].realized = Row(i).realized
                /\ AllRows[i].spread = Row(i).spread
<1>1. /\ ResolvedRows \in Seq(Rows) /\ Resolved = 1..Len(ResolvedRows)
      /\ \A i \in Resolved : ResolvedRows[i] = Row(i)
  BY RowsAre
<1>2. BaselineOnly(AllRows, ResolvedRows)
  BY <1>1, AllEvaluated DEF AllRows, evaluate
<1>3. AllRows \in Seq(Rows)
  BY EvaluatedType DEF AllRows
<1> QED
  BY <1>1, <1>2, <1>3 DEF BaselineOnly

\* A rule, and the trades there are of a row.
Trading(rule, trade) == rule \in Rules /\ trade \in [Rows -> [Sides -> SUBSET Trades]]

\* No trade is made of the row.
Passed(at, r, rule, trade) == r.ts < at.busy_until \/ rule[r] = 0 \/ trade[r][rule[r]] = {}
Chosen(trades) == CHOOSE x \in trades : TRUE
Booked(at, t) == [trades |-> Append(at.trades, t), busy_until |-> t.busy_until]

\* A row is passed, or its trade is booked.
LEMMA SequencingLaw ==
    ASSUME NEW rule, NEW trade, Trading(rule, trade), NEW at \in Books, NEW r \in Rows
    PROVE  /\ Passed(at, r, rule, trade) => Sequencing(rule, trade)[at][r] = at
           /\ ~Passed(at, r, rule, trade) =>
                /\ rule[r] \in Sides
                /\ Chosen(trade[r][rule[r]]) \in trade[r][rule[r]]
                /\ Chosen(trade[r][rule[r]]) \in Trades
                /\ Sequencing(rule, trade)[at][r] = Booked(at, Chosen(trade[r][rule[r]]))
                /\ Booked(at, Chosen(trade[r][rule[r]])) \in Books
<1>1. Sequencing(rule, trade)[at][r] =
        IF Passed(at, r, rule, trade) THEN at ELSE Booked(at, Chosen(trade[r][rule[r]]))
  BY Zenon DEF Sequencing, Passed, Chosen, Booked
<1>2. ASSUME ~Passed(at, r, rule, trade)
      PROVE  /\ rule[r] \in Sides
             /\ Chosen(trade[r][rule[r]]) \in trade[r][rule[r]]
             /\ Chosen(trade[r][rule[r]]) \in Trades
             /\ Booked(at, Chosen(trade[r][rule[r]])) \in Books
  <2>1. rule[r] \in Sides /\ trade[r][rule[r]] # {}
    BY <1>2 DEF Passed, Trading, Rules
  <2> DEFINE t == Chosen(trade[r][rule[r]])
  <2>2. t \in trade[r][rule[r]]
    BY <2>1 DEF Chosen
  <2>3. trade[r][rule[r]] \in SUBSET Trades
    BY <2>1 DEF Trading
  <2>4. t \in Trades
    BY <2>2, <2>3
  <2> HIDE DEF t
  <2>5. t.busy_until \in Int
    BY <2>4 DEF Trades
  <2>6. Append(at.trades, t) \in Seq(Trades)
    BY <2>4, AppendProperties DEF Books
  <2>7. Booked(at, t) \in Books
    BY <2>5, <2>6 DEF Booked, Books
  <2> QED
    BY <2>1, <2>2, <2>4, <2>7 DEF t
<1> QED
  BY <1>1, <1>2

\* The loop of a simulation.
LEMMA SequencingLoop ==
    ASSUME NEW rule, NEW trade, Trading(rule, trade)
    PROVE  Loop(Sequencing(rule, trade), NoTrades, Books, Rows)
<1>1. ASSUME NEW at \in Books, NEW r \in Rows
      PROVE  Sequencing(rule, trade)[at][r] \in Books
  BY SequencingLaw
<1>2. NoTrades \in Books
  <2>1. -horizon \in Int
    BY ResearchAssumption
  <2> QED
    BY <2>1, EmptySeq DEF NoTrades, Books
<1>3. Sequencing(rule, trade) = [at \in Books |-> [r \in Rows |-> Sequencing(rule, trade)[at][r]]]
  BY DEF Sequencing
<1> QED
  BY <1>1, <1>2, <1>3, Zenon DEF Loop

\* The book after the rows s.
BookOf(rule, trade, s) == Through(Sequencing(rule, trade), NoTrades, s)

\* The book before any row, and after one more.
LEMMA BookLaws ==
    ASSUME NEW rule, NEW trade, Trading(rule, trade)
    PROVE  /\ BookOf(rule, trade, <<>>) = NoTrades
           /\ \A s \in Seq(Rows) : BookOf(rule, trade, s) \in Books
           /\ \A s \in Seq(Rows), r \in Rows :
                BookOf(rule, trade, Append(s, r)) = Sequencing(rule, trade)[BookOf(rule, trade, s)][r]
<1> DEFINE step == Sequencing(rule, trade)
<1>1. Loop(step, NoTrades, Books, Rows)
  BY SequencingLoop
<1> HIDE DEF step
<1>2. Through(step, NoTrades, <<>>) = NoTrades
  BY <1>1, ThroughEmpty
<1>3. \A s \in Seq(Rows) : Through(step, NoTrades, s) \in Books
  BY <1>1, ThroughType
<1>4. \A s \in Seq(Rows), r \in Rows :
        Through(step, NoTrades, Append(s, r)) = step[Through(step, NoTrades, s)][r]
  BY <1>1, ThroughAppend
<1> QED
  BY <1>2, <1>3, <1>4, Zenon DEF BookOf, step

\* Each trade is one of a row at which the position before it was over.
InTurn(trades, s, rule, trade) ==
    \A k \in 1..Len(trades) : \E i \in 1..Len(s) :
        /\ rule[s[i]] \in Sides /\ trades[k] \in trade[s[i]][rule[s[i]]]
        /\ k > 1 => s[i].ts >= trades[k - 1].busy_until

\* A book is held until its last trade is over.
Busy(at) == at.trades # <<>> => at.busy_until = at.trades[Len(at.trades)].busy_until

\* Whatever the rule and the trades, a simulation takes them in turn.
LEMMA BookInTurn ==
    ASSUME NEW rule, NEW trade, Trading(rule, trade), NEW s \in Seq(Rows)
    PROVE  InTurn(Sequential(s, rule, trade), s, rule, trade) /\ Sequential(s, rule, trade) \in Seq(Trades)
<1> DEFINE book(q) == BookOf(rule, trade, q)
           W == {q \in Seq(Rows) : InTurn(book(q).trades, q, rule, trade) /\ Busy(book(q))}
<1>0. \A q \in Seq(Rows) : book(q) \in Books
  BY BookLaws
<1>1. <<>> \in W
  <2>1. book(<<>>) = NoTrades /\ NoTrades.trades = <<>>
    BY BookLaws DEF NoTrades
  <2>2. InTurn(<<>>, <<>>, rule, trade)
    BY EmptySeq DEF InTurn
  <2> HIDE DEF book
  <2>3. InTurn(book(<<>>).trades, <<>>, rule, trade) /\ Busy(book(<<>>))
    BY <2>1, <2>2, Zenon DEF Busy
  <2> QED
    BY <2>3, EmptySeq
<1>2. ASSUME NEW q \in Seq(Rows), NEW r \in Rows, q \in W
      PROVE  Append(q, r) \in W
  <2> DEFINE u == Append(q, r)
             n == Len(q)
             at == book(q)
             old == at.trades
             m == Len(old)
             t == Chosen(trade[r][rule[r]])
  <2>1. /\ u \in Seq(Rows) /\ Len(u) = n + 1 /\ u[n + 1] = r /\ n \in Nat
        /\ \A i \in 1..n : u[i] = q[i]
    BY AppendProperties, LenProperties
  <2>2. InTurn(old, q, rule, trade) /\ Busy(at)
    BY <1>2
  <2>3. at \in Books /\ book(u) = Sequencing(rule, trade)[at][r]
    BY BookLaws
  <2>4. old \in Seq(Trades) /\ m \in Nat
    BY <2>3, LenProperties DEF Books
  <2>a. /\ Passed(at, r, rule, trade) => Sequencing(rule, trade)[at][r] = at
        /\ ~Passed(at, r, rule, trade) =>
             /\ rule[r] \in Sides /\ t \in trade[r][rule[r]] /\ t \in Trades
             /\ Sequencing(rule, trade)[at][r] = Booked(at, t)
    BY <2>3, SequencingLaw
  <2> HIDE DEF u, at, t, book
  <2>5. InTurn(old, u, rule, trade)
    <3> HIDE DEF n, old, m
    <3>1. \A i \in 1..n : i \in 1..Len(u) /\ u[i] = q[i]
      BY <2>1
    <3> QED
      BY <2>2, <3>1 DEF InTurn, n
  <2>6. CASE Passed(at, r, rule, trade)
    <3>1. book(u) = at
      BY <2>3, <2>6, <2>a
    <3> QED
      BY <2>1, <2>2, <2>5, <3>1 DEF u
  <2>7. CASE ~Passed(at, r, rule, trade)
    <3>1. rule[r] \in Sides /\ t \in trade[r][rule[r]] /\ t \in Trades /\ book(u) = Booked(at, t)
      BY <2>3, <2>7, <2>a
    <3> DEFINE new == Append(old, t)
    <3>2. book(u).trades = new /\ book(u).busy_until = t.busy_until
      BY <3>1 DEF Booked
    <3>3. /\ new \in Seq(Trades) /\ Len(new) = m + 1 /\ new[m + 1] = t
          /\ \A k \in 1..m : new[k] = old[k]
      BY <2>4, <3>1, AppendProperties
    <3>4. r.ts \in Nat /\ at.busy_until \in Int /\ ~(r.ts < at.busy_until)
      BY <2>3, <2>7 DEF Passed, Rows, Books
    <3>5. m > 0 => at.busy_until = old[m].busy_until
      BY <2>2, <2>4, EmptySeq DEF Busy
    <3> HIDE DEF new, old, m, n
    <3>6. Busy(book(u))
      <4>1. new[Len(new)] = t
        BY <3>3
      <4> QED
        BY <3>2, <4>1, Zenon DEF Busy
    <3>7. ASSUME NEW k \in 1..(m + 1)
          PROVE  \E i \in 1..Len(u) :
                   /\ rule[u[i]] \in Sides /\ new[k] \in trade[u[i]][rule[u[i]]]
                   /\ k > 1 => u[i].ts >= new[k - 1].busy_until
      <4>1. CASE k \in 1..m
        <5>1. PICK i \in 1..Len(u) :
                   /\ rule[u[i]] \in Sides /\ old[k] \in trade[u[i]][rule[u[i]]]
                   /\ k > 1 => u[i].ts >= old[k - 1].busy_until
          BY <2>5, <4>1 DEF InTurn, m
        <5>2. new[k] = old[k] /\ (k > 1 => new[k - 1] = old[k - 1])
          BY <2>4, <3>3, <4>1
        <5> QED
          BY <5>1, <5>2
      <4>2. CASE k = m + 1
        <5>1. n + 1 \in 1..Len(u) /\ u[n + 1] = r /\ new[k] = t
          BY <2>1, <3>3, <4>2
        <5>2. k > 1 => r.ts >= new[k - 1].busy_until
          <6>1. SUFFICES ASSUME k > 1 PROVE r.ts >= new[k - 1].busy_until
            OBVIOUS
          <6>2. m > 0 /\ m \in 1..m /\ k - 1 = m
            BY <2>4, <4>2, <6>1
          <6>3. new[k - 1].busy_until = at.busy_until
            BY <3>3, <3>5, <6>2
          <6> QED
            BY <3>4, <6>3
        <5> QED
          BY <3>1, <5>1, <5>2
      <4> QED
        BY <2>4, <4>1, <4>2
    <3>8. InTurn(new, u, rule, trade)
      BY <3>3, <3>7 DEF InTurn
    <3>9. InTurn(book(u).trades, u, rule, trade)
      BY <3>2, <3>8, Zenon
    <3> QED
      BY <2>1, <3>6, <3>9 DEF u
  <2> QED
    BY <2>6, <2>7
<1>3. \A q \in Seq(Rows) : q \in W
  <2> HIDE DEF W
  <2> QED
    BY <1>1, <1>2, SequenceInduction
<1>4. InTurn(book(s).trades, s, rule, trade)
  BY <1>3
<1>5. book(s).trades \in Seq(Trades)
  BY <1>0 DEF Books
<1>6. Sequential(s, rule, trade) = book(s).trades
  BY DEF Sequential, BookOf
<1> HIDE DEF book
<1> QED
  BY <1>4, <1>5, <1>6, Zenon

\* The rules name a side or none.
LEMMA RulesAre ==
    /\ simrule_decide \in Rules /\ LongOnly \in Rules /\ SideOf \in Rules /\ fade_side \in Rules
    /\ \A x \in Int : SignOf(x) \in Sides \cup {0} /\ -SignOf(x) \in Sides \cup {0}
<1>1. ASSUME NEW x \in Int
      PROVE  SignOf(x) \in Sides \cup {0} /\ -SignOf(x) \in Sides \cup {0}
  <2>1. SignOf(x) = 1 \/ SignOf(x) = -1 \/ SignOf(x) = 0
    BY DEF SignOf
  <2> DEFINE sign == SignOf(x)
  <2>2. sign \in Int /\ (sign = 1 \/ sign = -1 \/ sign = 0)
    BY <2>1
  <2> HIDE DEF sign
  <2>3. -sign = 1 \/ -sign = -1 \/ -sign = 0
    BY <2>2
  <2> QED
    BY <2>2, <2>3 DEF Sides, sign
<1>2. SideOf \in Rules
  BY <1>1 DEF SideOf, Rules, Rows
<1>3. fade_side \in Rules
  BY <1>1 DEF fade_side, Rules, Rows
<1> QED
  BY <1>1, <1>2, <1>3 DEF simrule_decide, LongOnly, Rules, Sides

\* The first quote at a time is two-sided and precedes all others there are.
LEMMA FirstAtLaw ==
    ASSUME RecordingInv, NEW t, NEW i \in FirstAt(t)
    PROVE  /\ i \in TwoSided /\ i \in 1..Len(recording) /\ i \in Nat /\ recording[i].ts \in Nat
           /\ recording[i].ts >= t /\ \A j \in TwoSided : recording[j].ts >= t => i <= j
<1>1. i \in TwoSided /\ recording[i].ts >= t /\ \A j \in TwoSided : recording[j].ts >= t => i <= j
  BY DEF FirstAt, FirstOf
<1>2. i \in 1..Len(recording) /\ Len(recording) \in Nat
  BY <1>1, TapeFacts
<1> QED
  BY <1>1, <1>2, TapeFacts

\* There is one first quote at the most.
LEMMA FirstAtOne ==
    ASSUME RecordingInv, NEW t, NEW i \in FirstAt(t), NEW j \in FirstAt(t)
    PROVE  i = j
<1>1. i \in Nat /\ j \in Nat /\ i <= j /\ j <= i
  BY FirstAtLaw
<1> QED
  BY <1>1

\* A quote that touches an order comes after it, in its time, at its price.
LEMMA TouchesLaw ==
    ASSUME RecordingInv, NEW side \in Sides, NEW t, NEW limit, NEW i \in Touches(side, t, limit)
    PROVE  /\ i \in TwoSided /\ i \in 1..Len(recording) /\ i \in Nat /\ recording[i].ts \in Nat
           /\ recording[i].ts > t /\ recording[i].ts <= t + wait
           /\ IF side = 1 THEN Mid(recording[i]) <= limit ELSE Mid(recording[i]) >= limit
<1>1. i \in TwoSided /\ recording[i].ts > t /\ recording[i].ts <= t + wait
      /\ IF side = 1 THEN Mid(recording[i]) <= limit ELSE Mid(recording[i]) >= limit
  BY DEF Touches
<1>2. i \in 1..Len(recording) /\ Len(recording) \in Nat
  BY <1>1, TapeFacts
<1> QED
  BY <1>1, <1>2, TapeFacts

\* The prices of a quote are numbers.
LEMMA PriceTypes ==
    ASSUME RecordingInv, NEW i \in TwoSided, NEW side
    PROVE  Near(side, i) \in Int /\ Far(side, i) \in Int /\ Mid(recording[i]) \in Int /\ recording[i].ts \in Nat /\ i \in Nat
<1>1. i \in 1..Len(recording) /\ Len(recording) \in Nat
  BY TapeFacts
<1> QED
  BY <1>1, TapeFacts DEF Near, Far

\* A trade of a move is a trade.
LEMMA PlainTrade ==
    ASSUME NEW ts \in Nat, NEW side \in Sides, NEW move \in Int, NEW spread \in Int, NEW busy_until \in Int
    PROVE  [ts |-> ts, side |-> side, net |-> net_bps(side, move, spread), busy_until |-> busy_until] \in Trades
<1>1. net_bps(side, move, spread) \in Int
  <2>1. side = -1 \/ side = 1
    BY DEF Sides
  <2> QED
    BY <2>1 DEF net_bps
<1> QED
  BY <1>1 DEF Trades

\* So is one with the quotes of its position.
LEMMA PassiveTrade ==
    ASSUME NEW r \in Rows, NEW side \in Sides, NEW opened \in Nat, NEW closed \in Nat,
           NEW entry \in Int, NEW exit \in Int, NEW busy_until \in Int
    PROVE  Trade(r, side, opened, closed, entry, exit, busy_until) \in Trades
<1>1. side * (exit - entry) \in Int
  <2>1. side = -1 \/ side = 1
    BY DEF Sides
  <2> QED
    BY <2>1
<1>2. r.ts \in Nat
  BY DEF Rows
<1> DEFINE product == side * (exit - entry)
<1> HIDE DEF product
<1>3. [ts |-> r.ts, side |-> side, opened |-> opened, closed |-> closed, net |-> product, busy_until |-> busy_until] \in Trades
  BY <1>1, <1>2 DEF Trades, product
<1> QED
  BY <1>3 DEF Trade, product

\* The trade of a row on each side.
LEMMA PlainTrading ==
    /\ Plain \in [Rows -> [Sides -> SUBSET Trades]]
    /\ \A r \in Rows, side \in Sides :
         Plain[r][side] = {[ts |-> r.ts, side |-> side, net |-> net_bps(side, r.realized, r.spread), busy_until |-> r.ts + horizon]}
<1>1. ASSUME NEW r \in Rows, NEW side \in Sides
      PROVE  [ts |-> r.ts, side |-> side, net |-> net_bps(side, r.realized, r.spread), busy_until |-> r.ts + horizon] \in Trades
  <2>1. r.ts \in Nat /\ r.realized \in Int /\ r.spread \in Int /\ r.ts + horizon \in Int
    BY ResearchAssumption DEF Rows
  <2> QED
    BY <2>1, PlainTrade
<1> QED
  BY <1>1 DEF Plain

\* A late fill is a trade, and its exit is the signal's.
LEMMA LateTrade ==
    ASSUME RecordingInv, NEW latency \in Nat, NEW r \in Rows, NEW side \in Sides,
           NEW i \in FirstAt(r.ts), NEW j \in FirstAt(r.ts + latency)
    PROVE  /\ ExitPrice(i, j, r) = Mid(recording[i]) + r.realized
           /\ Mid(recording[i]) \in Int /\ Mid(recording[j]) \in Int
           /\ [ts |-> r.ts, side |-> side,
               net |-> net_bps(side, ExitPrice(i, j, r) - Mid(recording[j]), r.spread),
               busy_until |-> r.ts + horizon] \in Trades
<1>1. r.ts \in Nat /\ r.realized \in Int /\ r.spread \in Int /\ r.ts + horizon \in Int
  BY ResearchAssumption DEF Rows
<1>2. i \in TwoSided /\ j \in TwoSided
  BY FirstAtLaw
<1>3. Mid(recording[i]) \in Int /\ Mid(recording[j]) \in Int
  BY <1>2, PriceTypes
<1>4. ExitPrice(i, j, r) = Mid(recording[i]) + r.realized
  BY DEF ExitPrice
<1>5. ExitPrice(i, j, r) - Mid(recording[j]) \in Int
  BY <1>1, <1>3, <1>4
<1> QED
  BY <1>1, <1>3, <1>4, <1>5, PlainTrade

\* The trades of late fills.
LEMMA LateTrading ==
    ASSUME RecordingInv, NEW latency \in Nat
    PROVE  Trading(simrule_decide, Late(latency))
<1>1. Late(latency) \in [Rows -> [Sides -> SUBSET Trades]]
  BY LateTrade DEF Late
<1> QED
  BY <1>1, RulesAre DEF Trading

\* The quotes of a position that is crossed into and out of.
LEMMA TakerTrade ==
    ASSUME RecordingInv, NEW r \in Rows, NEW side \in Sides, NEW x \in Taker[r][side]
    PROVE  /\ x \in Trades /\ x.opened \in TwoSided /\ recording[x.opened].ts >= r.ts
           /\ x.closed \in FirstAt(x.busy_until)
<1>1. PICK i \in FirstAt(r.ts), j \in FirstAt(r.ts + horizon) :
             x = Trade(r, side, i, j, Far(side, i), Near(side, j), r.ts + horizon)
  BY DEF Taker
<1>2. i \in TwoSided /\ j \in TwoSided /\ recording[i].ts >= r.ts
  BY FirstAtLaw
<1>3. r.ts + horizon \in Int
  BY ResearchAssumption DEF Rows
<1>4. x \in Trades
  BY <1>1, <1>2, <1>3, PriceTypes, PassiveTrade
<1>5. x.opened = i /\ x.closed = j /\ x.busy_until = r.ts + horizon
  BY <1>1 DEF Trade
<1> QED
  BY <1>2, <1>4, <1>5

\* The quotes of a position that is entered passively.
LEMMA HoldingLaw ==
    ASSUME RecordingInv, NEW r \in Rows, NEW side \in Sides, NEW h \in Holdings(r, side)
    PROVE  /\ h[1][1] \in FirstAt(r.ts)
           /\ h[1][2] \in Touches(side, r.ts, Near(side, h[1][1]))
           /\ h[2] \in FirstAt(recording[h[1][2]].ts + horizon)
           /\ h[1][1] \in TwoSided /\ h[1][2] \in TwoSided /\ h[2] \in TwoSided
           /\ recording[h[1][2]].ts + horizon \in Int
<1>1. /\ h \in Entries(r, side) \X TwoSided /\ h[2] \in FirstAt(recording[h[1][2]].ts + horizon)
  BY DEF Holdings
<1>2. h[1] \in Entries(r, side) /\ h[2] \in TwoSided
  BY <1>1
<1>3. /\ h[1] \in TwoSided \X TwoSided /\ h[1][1] \in FirstAt(r.ts)
      /\ h[1][2] \in FirstOf(Touches(side, r.ts, Near(side, h[1][1])))
  BY <1>2 DEF Entries
<1>4. h[1][1] \in TwoSided /\ h[1][2] \in TwoSided
  BY <1>3
<1>5. recording[h[1][2]].ts + horizon \in Int
  BY <1>4, PriceTypes, ResearchAssumption
<1>6. h[1][2] \in Touches(side, r.ts, Near(side, h[1][1]))
  BY <1>3 DEF FirstOf
<1> QED
  BY <1>1, <1>2, <1>3, <1>4, <1>5, <1>6

\* What is common to the trades of passive entries.
Entered(x, r, side, h) ==
    /\ x \in Trades /\ x.ts = r.ts /\ x.side = side /\ x.opened = h[1][2]
    /\ x.busy_until = recording[h[1][2]].ts + horizon

\* Crossed out of, it is closed at the first quote a horizon later.
LEMMA MakerTakerTrade ==
    ASSUME RecordingInv, NEW r \in Rows, NEW side \in Sides, NEW x \in MakerTaker[r][side]
    PROVE  \E h \in Holdings(r, side) : Entered(x, r, side, h) /\ x.closed = h[2]
<1>1. PICK h \in Holdings(r, side) :
         x = Trade(r, side, h[1][2], h[2], Near(side, h[1][1]), Near(side, h[2]), recording[h[1][2]].ts + horizon)
  BY DEF MakerTaker
<1> DEFINE a == h[1][1]
           b == h[1][2]
           c == h[2]
           free == recording[b].ts + horizon
<1>2. a \in TwoSided /\ b \in TwoSided /\ c \in TwoSided /\ free \in Int
  BY HoldingLaw
<1>3. x = Trade(r, side, b, c, Near(side, a), Near(side, c), free)
  BY <1>1
<1> HIDE DEF a, b, c, free
<1>4. x \in Trades
  BY <1>2, <1>3, PriceTypes, PassiveTrade
<1>5. x.ts = r.ts /\ x.side = side /\ x.opened = b /\ x.closed = c /\ x.busy_until = free
  BY <1>3 DEF Trade
<1> QED
  BY <1>4, <1>5 DEF Entered, a, b, c, free

\* Left passively, it is closed no sooner.
LEMMA MakerMakerTrade ==
    ASSUME RecordingInv, NEW r \in Rows, NEW side \in Sides, NEW x \in MakerMaker[r][side]
    PROVE  \E h \in Holdings(r, side) :
             Entered(x, r, side, h) /\ x.closed \in TwoSided /\ recording[x.closed].ts >= x.busy_until
<1>1. PICK h \in Holdings(r, side) : x = MakerExit(r, side, h[1], h[2])
  BY DEF MakerMaker
<1> DEFINE a == h[1][1]
           b == h[1][2]
           c == h[2]
           free == recording[b].ts + horizon
           fills == FirstOf(Touches(-side, free, Far(side, c)))
<1>2. /\ a \in TwoSided /\ b \in TwoSided /\ c \in TwoSided /\ free \in Int
      /\ c \in FirstAt(free)
  BY HoldingLaw
<1>3. x = IF fills = {} THEN Trade(r, side, b, c, Near(side, a), Near(side, c), free)
          ELSE Trade(r, side, b, Min(fills), Near(side, a), Far(side, c), free)
  BY <1>1 DEF MakerExit
<1>4. fills # {} => Min(fills) \in TwoSided /\ recording[Min(fills)].ts > free /\ recording[Min(fills)].ts \in Nat
  <2>1. ASSUME NEW i \in fills
        PROVE  i \in TwoSided /\ i \in Nat /\ recording[i].ts > free /\ recording[i].ts \in Nat
    <3>1. i \in Touches(-side, free, Far(side, c)) /\ -side \in Sides
      BY <2>1 DEF FirstOf, Sides
    <3> QED
      BY <3>1, TouchesLaw
  <2> HIDE DEF fills
  <2>2. fills \in SUBSET Nat
    BY <2>1
  <2> QED
    BY <2>1, <2>2, MinIsLeast
<1>5. recording[c].ts >= free
  BY <1>2, FirstAtLaw
<1> DEFINE closed == IF fills = {} THEN c ELSE Min(fills)
           exit == IF fills = {} THEN Near(side, c) ELSE Far(side, c)
<1>6. x = Trade(r, side, b, closed, Near(side, a), exit, free)
  BY <1>3
<1> HIDE DEF fills
<1>7. closed \in TwoSided /\ recording[closed].ts >= free
  <2>1. CASE fills = {}
    BY <1>2, <1>5, <2>1
  <2>2. CASE fills # {}
    <3>1. closed = Min(fills)
      BY <2>2
    <3> QED
      BY <1>2, <1>4, <2>2, <3>1
  <2> QED
    BY <2>1, <2>2
<1>8. exit \in Int
  BY <1>2, PriceTypes
<1> HIDE DEF a, b, c, free, closed, exit
<1>9. x \in Trades
  BY <1>2, <1>6, <1>7, <1>8, PriceTypes, PassiveTrade
<1>10. x.ts = r.ts /\ x.side = side /\ x.opened = b /\ x.closed = closed /\ x.busy_until = free
  BY <1>6 DEF Trade
<1>11. Entered(x, r, side, h)
  BY <1>9, <1>10 DEF Entered, b, free
<1> QED
  BY <1>7, <1>10, <1>11

\* The trades of each mode.
LEMMA PassiveTradings ==
    ASSUME RecordingInv
    PROVE  Trading(SideOf, Taker) /\ Trading(SideOf, MakerTaker) /\ Trading(SideOf, MakerMaker)
<1>1. Taker \in [Rows -> [Sides -> SUBSET Trades]]
  <2>1. \A r \in Rows, side \in Sides : Taker[r][side] \in SUBSET Trades
    BY TakerTrade
  <2>2. Taker = [r \in Rows |-> [side \in Sides |-> Taker[r][side]]]
    BY DEF Taker
  <2> QED
    BY <2>1, <2>2, Zenon
<1>2. MakerTaker \in [Rows -> [Sides -> SUBSET Trades]]
  <2>1. \A r \in Rows, side \in Sides : MakerTaker[r][side] \in SUBSET Trades
    BY MakerTakerTrade DEF Entered
  <2>2. MakerTaker = [r \in Rows |-> [side \in Sides |-> MakerTaker[r][side]]]
    BY DEF MakerTaker
  <2> QED
    BY <2>1, <2>2, Zenon
<1>3. MakerMaker \in [Rows -> [Sides -> SUBSET Trades]]
  <2>1. \A r \in Rows, side \in Sides : MakerMaker[r][side] \in SUBSET Trades
    BY MakerMakerTrade DEF Entered
  <2>2. MakerMaker = [r \in Rows |-> [side \in Sides |-> MakerMaker[r][side]]]
    BY DEF MakerMaker
  <2> QED
    BY <2>1, <2>2, Zenon
<1> QED
  BY <1>1, <1>2, <1>3, RulesAre DEF Trading

\* Every position is closed at a quote that those opened later do not precede.
ClosesFirst(rule, trade) ==
    \A r \in Rows, side \in Sides : \A x \in trade[r][side] :
        /\ x.opened \in TwoSided /\ recording[x.opened].ts >= r.ts
        /\ x.closed \in FirstAt(x.busy_until)

\* Where every position is closed at the first quote of the time the book is
\* free, none is opened before that.
LEMMA TurnsCross ==
    ASSUME RecordingInv, NEW rule, NEW trade, Trading(rule, trade), ClosesFirst(rule, trade), NEW s \in Seq(Rows)
    PROVE  OneAtATime(Sequential(s, rule, trade))
<1> DEFINE trades == Sequential(s, rule, trade)
<1>1. InTurn(trades, s, rule, trade) /\ trades \in Seq(Trades)
  BY BookInTurn
<1> HIDE DEF trades
<1>2. Len(trades) \in Nat
  BY <1>1, LenProperties
<1>3. ASSUME NEW k \in 2..Len(trades)
      PROVE  trades[k].opened >= trades[k - 1].closed
  <2>1. k \in 1..Len(trades) /\ k > 1 /\ k - 1 \in 1..Len(trades)
    BY <1>2
  <2>2. PICK i \in 1..Len(s) :
          /\ rule[s[i]] \in Sides /\ trades[k] \in trade[s[i]][rule[s[i]]]
          /\ s[i].ts >= trades[k - 1].busy_until
    BY <1>1, <2>1 DEF InTurn
  <2>3. PICK j \in 1..Len(s) : rule[s[j]] \in Sides /\ trades[k - 1] \in trade[s[j]][rule[s[j]]]
    BY <1>1, <2>1 DEF InTurn
  <2>4. s[i] \in Rows /\ s[j] \in Rows
    BY ElementOfSeq
  <2> DEFINE before == trades[k - 1]
             after == trades[k]
  <2>5. after.opened \in TwoSided /\ recording[after.opened].ts >= s[i].ts
    BY <2>2, <2>4 DEF ClosesFirst
  <2>6. before.closed \in FirstAt(before.busy_until)
    BY <2>3, <2>4 DEF ClosesFirst
  <2>7. s[i].ts \in Nat /\ recording[after.opened].ts \in Nat /\ before.busy_until \in Int
    <3>1. before \in Trades
      BY <1>1, <2>1, ElementOfSeq
    <3> HIDE DEF before, after
    <3>2. before.busy_until \in Int
      BY <3>1 DEF Trades
    <3>3. s[i].ts \in Nat
      BY <2>4 DEF Rows
    <3> QED
      BY <2>5, <3>2, <3>3, PriceTypes
  <2>8. s[i].ts >= before.busy_until
    BY <2>2
  <2> HIDE DEF before, after
  <2>9. recording[after.opened].ts >= before.busy_until
    BY <2>5, <2>7, <2>8
  <2>10. before.closed <= after.opened
    BY <2>5, <2>6, <2>9, FirstAtLaw
  <2>11. before.closed \in Nat /\ after.opened \in Nat
    BY <2>5, <2>6, FirstAtLaw, PriceTypes
  <2>12. after.opened >= before.closed
    BY <2>10, <2>11
  <2> QED
    BY <2>12 DEF before, after
<1>4. OneAtATime(trades)
  BY <1>3 DEF OneAtATime
<1> QED
  BY <1>4 DEF trades

\* Crossing both ways, and crossing out of a passive entry, takes turns.
LEMMA CrossesInTurn == RecordingInv => CrossedInTurn
<1> SUFFICES ASSUME RecordingInv PROVE CrossedInTurn
  OBVIOUS
<1>1. AllRows \in Seq(Rows)
  BY AllRowsAre
<1>2. ClosesFirst(SideOf, Taker)
  BY TakerTrade DEF ClosesFirst
<1>3. ClosesFirst(SideOf, MakerTaker)
  <2>1. ASSUME NEW r \in Rows, NEW side \in Sides, NEW x \in MakerTaker[r][side]
        PROVE  /\ x.opened \in TwoSided /\ recording[x.opened].ts >= r.ts
               /\ x.closed \in FirstAt(x.busy_until)
    <3>1. PICK h \in Holdings(r, side) : Entered(x, r, side, h) /\ x.closed = h[2]
      BY MakerTakerTrade
    <3>2. /\ h[1][2] \in Touches(side, r.ts, Near(side, h[1][1]))
          /\ h[2] \in FirstAt(recording[h[1][2]].ts + horizon)
      BY HoldingLaw
    <3>3. h[1][2] \in TwoSided /\ recording[h[1][2]].ts > r.ts /\ recording[h[1][2]].ts \in Nat
      BY <3>2, TouchesLaw
    <3>4. r.ts \in Nat
      BY DEF Rows
    <3>5. x.opened = h[1][2] /\ x.busy_until = recording[h[1][2]].ts + horizon
      BY <3>1 DEF Entered
    <3> QED
      BY <3>1, <3>2, <3>3, <3>4, <3>5
  <2> QED
    BY <2>1 DEF ClosesFirst
<1>4. Trading(SideOf, Taker) /\ Trading(SideOf, MakerTaker)
  BY PassiveTradings
<1>5. OneAtATime(Sequential(AllRows, SideOf, Taker)) /\ OneAtATime(Sequential(AllRows, SideOf, MakerTaker))
  BY <1>1, <1>2, <1>3, <1>4, TurnsCross
<1>6. /\ simulate(AllRows, "taker") = Sequential(AllRows, SideOf, Taker)
      /\ simulate(AllRows, "maker_taker") = Sequential(AllRows, SideOf, MakerTaker)
  BY DEF simulate
<1> QED
  BY <1>5, <1>6 DEF CrossedInTurn

\* A passive order fills after it was placed, in its time and at its price.
FilledLater(t) ==
    /\ recording[t.opened].ts > t.ts /\ recording[t.opened].ts <= t.ts + wait
    /\ recording[t.closed].ts >= recording[t.opened].ts + horizon
    /\ \E i \in FirstAt(t.ts) : t.side * (Near(t.side, i) - Mid(recording[t.opened])) >= 0

\* A passive entry that is not closed too soon fills as promised.
LEMMA EnteredLater ==
    ASSUME RecordingInv, NEW r \in Rows, NEW side \in Sides, NEW x, NEW h \in Holdings(r, side),
           Entered(x, r, side, h), recording[x.closed].ts >= x.busy_until
    PROVE  FilledLater(x)
<1> DEFINE a == h[1][1]
           b == h[1][2]
<1>1. a \in FirstAt(r.ts) /\ b \in Touches(side, r.ts, Near(side, a)) /\ a \in TwoSided /\ b \in TwoSided
  BY HoldingLaw
<1>2. x.ts = r.ts /\ x.side = side /\ x.opened = b /\ x.busy_until = recording[b].ts + horizon
  BY DEF Entered
<1> HIDE DEF a, b
<1>3. /\ recording[b].ts > r.ts /\ recording[b].ts <= r.ts + wait
      /\ IF side = 1 THEN Mid(recording[b]) <= Near(side, a) ELSE Mid(recording[b]) >= Near(side, a)
  BY <1>1, TouchesLaw
<1>4. side * (Near(side, a) - Mid(recording[b])) >= 0
  <2>1. Near(side, a) \in Int /\ Mid(recording[b]) \in Int
    BY <1>1, PriceTypes
  <2> DEFINE near == Near(side, a)
             middle == Mid(recording[b])
  <2>2. IF side = 1 THEN middle <= near ELSE middle >= near
    BY <1>3
  <2>3. near \in Int /\ middle \in Int
    BY <2>1
  <2> HIDE DEF near, middle
  <2>4. side = 1 \/ side = -1
    BY DEF Sides
  <2>5. side * (near - middle) >= 0
    BY <2>2, <2>3, <2>4
  <2> QED
    BY <2>5 DEF near, middle
<1> QED
  BY <1>1, <1>2, <1>3, <1>4 DEF FilledLater

\* No passive fill is of the past, or only assumed.
LEMMA FillsAreLaterInAll == RecordingInv => FillsAreLater
<1> SUFFICES ASSUME RecordingInv PROVE FillsAreLater
  OBVIOUS
<1>1. AllRows \in Seq(Rows)
  BY AllRowsAre
<1>2. ASSUME NEW r \in Rows, NEW side \in Sides, NEW x \in MakerTaker[r][side]
      PROVE  FilledLater(x)
  <2>1. PICK h \in Holdings(r, side) : Entered(x, r, side, h) /\ x.closed = h[2]
    BY MakerTakerTrade
  <2>2. x.closed \in FirstAt(x.busy_until)
    BY <2>1, HoldingLaw DEF Entered
  <2>3. recording[x.closed].ts >= x.busy_until
    BY <2>2, FirstAtLaw
  <2> QED
    BY <2>1, <2>3, EnteredLater
<1>3. ASSUME NEW r \in Rows, NEW side \in Sides, NEW x \in MakerMaker[r][side]
      PROVE  FilledLater(x)
  BY MakerMakerTrade, EnteredLater
<1>4. ASSUME NEW trade, Trading(SideOf, trade), NEW t \in Range(Sequential(AllRows, SideOf, trade))
      PROVE  \E r \in Rows, side \in Sides : t \in trade[r][side]
  <2> DEFINE trades == Sequential(AllRows, SideOf, trade)
  <2>1. InTurn(trades, AllRows, SideOf, trade) /\ trades \in Seq(Trades)
    BY <1>1, <1>4, BookInTurn
  <2>2. t \in Range(trades)
    BY <1>4
  <2> HIDE DEF trades
  <2>3. PICK k \in 1..Len(trades) : t = trades[k]
    BY <2>1, <2>2, LenProperties DEF Range
  <2>4. PICK i \in 1..Len(AllRows) : SideOf[AllRows[i]] \in Sides /\ trades[k] \in trade[AllRows[i]][SideOf[AllRows[i]]]
    BY <2>1, <2>3 DEF InTurn
  <2>5. AllRows[i] \in Rows
    BY <1>1, <2>4, ElementOfSeq
  <2> QED
    BY <2>3, <2>4, <2>5
<1>5. Trading(SideOf, MakerTaker) /\ Trading(SideOf, MakerMaker)
  BY PassiveTradings
<1>6. /\ simulate(AllRows, "maker_taker") = Sequential(AllRows, SideOf, MakerTaker)
      /\ simulate(AllRows, "maker_maker") = Sequential(AllRows, SideOf, MakerMaker)
  BY DEF simulate
<1>7. \A t \in Range(simulate(AllRows, "maker_taker")) : FilledLater(t)
  BY <1>2, <1>4, <1>5, <1>6
<1>8. \A t \in Range(simulate(AllRows, "maker_maker")) : FilledLater(t)
  BY <1>3, <1>4, <1>5, <1>6
<1> QED
  BY <1>7, <1>8, Zenon DEF FillsAreLater, FilledLater

\* A fill that is late is of the quote it came at, and its exit of the first
\* quote a horizon after the signal.
LEMMA LateFillsPay == RecordingInv => LateFillsPayTheMove
<1> SUFFICES ASSUME RecordingInv, TwoSided = DOMAIN recording,
                    \A i \in TwoSided, j \in TwoSided : i < j => recording[i].ts < recording[j].ts,
                    NEW latency \in 0..horizon, NEW t \in Range(sim_with_latency(AllRows, latency))
             PROVE  \E i \in FirstAt(t.ts), j \in FirstAt(t.ts + latency), k \in FirstAt(t.ts + horizon) :
                      t.net = t.side * (Mid(recording[k]) - Mid(recording[j]))
                              - (recording[i].ask - recording[i].bid)
  BY DEF LateFillsPayTheMove
<1>0. /\ TwoSided = 1..Len(recording) /\ Len(recording) \in Nat
      /\ horizon \in Nat /\ horizon > 0 /\ latency \in Nat
  BY TapeFacts, ResearchAssumption
<1> DEFINE trades == Sequential(AllRows, simrule_decide, Late(latency))
<1>1. /\ AllRows \in Seq(Rows) /\ Resolved = 1..Len(AllRows)
      /\ \A i \in 1..Len(AllRows) :
           /\ AllRows[i].ts = Row(i).ts /\ AllRows[i].realized = Row(i).realized
           /\ AllRows[i].spread = Row(i).spread
  BY AllRowsAre
<1>2. InTurn(trades, AllRows, simrule_decide, Late(latency)) /\ trades \in Seq(Trades)
  BY <1>0, <1>1, LateTrading, BookInTurn
<1>3. t \in Range(trades)
  BY DEF sim_with_latency
<1> HIDE DEF trades
<1>4. PICK n \in 1..Len(trades) : t = trades[n]
  BY <1>2, <1>3, LenProperties DEF Range
<1>5. PICK m \in 1..Len(AllRows) :
        /\ simrule_decide[AllRows[m]] \in Sides
        /\ trades[n] \in Late(latency)[AllRows[m]][simrule_decide[AllRows[m]]]
  BY <1>2, <1>4 DEF InTurn
<1> DEFINE r == AllRows[m]
           side == simrule_decide[r]
           k == Min(Resolvers(m))
<1>6. r \in Rows /\ side \in Sides
  BY <1>1, <1>5, ElementOfSeq
<1>7. t \in Late(latency)[r][side]
  BY <1>4, <1>5
<1>8. /\ m \in Resolved /\ r.ts = recording[m].ts
      /\ r.realized = Mid(recording[k]) - Mid(recording[m])
      /\ r.spread = recording[m].ask - recording[m].bid
      /\ m \in 1..Len(recording) /\ k \in Resolvers(m) /\ \A j \in Resolvers(m) : k <= j
  BY <1>1, <1>5, RowIs
<1> HIDE DEF r, side, k
<1>9. PICK i \in FirstAt(r.ts), j \in FirstAt(r.ts + latency) :
        t = [ts |-> r.ts, side |-> side,
             net |-> net_bps(side, ExitPrice(i, j, r) - Mid(recording[j]), r.spread),
             busy_until |-> r.ts + horizon]
  BY <1>6, <1>7 DEF Late
<1>10. recording[m].ts \in Nat /\ m \in TwoSided
  BY <1>0, <1>8, TapeFacts
<1>11. i = m
  <2>1. i \in TwoSided /\ i \in Nat /\ recording[i].ts \in Nat /\ recording[i].ts >= r.ts /\ i <= m
    BY <1>0, <1>8, <1>9, <1>10, FirstAtLaw
  <2>2. ~(i < m)
    BY <1>8, <1>10, <2>1
  <2> QED
    BY <1>8, <2>1, <2>2
<1>12. k \in FirstAt(r.ts + horizon)
  <2>1. k \in (m + 1)..Len(recording) /\ recording[k].ts >= recording[m].ts + horizon
    BY <1>8 DEF Resolvers
  <2>2. k \in TwoSided
    BY <1>0, <1>8, <2>1
  <2>3. ASSUME NEW l \in TwoSided, recording[l].ts >= recording[m].ts + horizon
        PROVE  k <= l
    <3>1. l \in 1..Len(recording) /\ recording[l].ts \in Nat
      BY <1>0, TapeFacts
    <3>2. ~(l <= m)
      <4>1. l <= m => recording[l].ts <= recording[m].ts
        BY <1>8, <3>1 DEF RecordingInv
      <4> QED
        BY <1>0, <1>10, <2>3, <3>1, <4>1
    <3>3. l \in Resolvers(m)
      BY <1>0, <1>8, <2>3, <3>1, <3>2 DEF Resolvers
    <3> QED
      BY <1>8, <3>3
  <2> QED
    BY <1>8, <2>1, <2>2, <2>3 DEF FirstAt, FirstOf
<1> DEFINE mi == Mid(recording[i])
           mj == Mid(recording[j])
           mk == Mid(recording[k])
           fee == r.spread
<1>13. mi \in Int /\ mj \in Int /\ mk \in Int /\ fee \in Int
  <2>1. i \in TwoSided /\ j \in TwoSided /\ k \in TwoSided
    BY <1>9, <1>12, FirstAtLaw
  <2> QED
    BY <1>6, <2>1, PriceTypes DEF Rows
<1>14. ExitPrice(i, j, r) = mi + (mk - mi)
  BY <1>8, <1>11 DEF ExitPrice
<1>15. t.net = net_bps(side, (mi + (mk - mi)) - mj, fee) /\ t.side = side /\ t.ts = r.ts
  BY <1>9, <1>14
<1>16. fee = recording[i].ask - recording[i].bid
  BY <1>8, <1>11
<1> HIDE DEF mi, mj, mk, fee
<1>17. (mi + (mk - mi)) - mj = mk - mj
  BY <1>13
<1>18. t.net = side * (mk - mj) - fee
  BY <1>15, <1>17, Zenon DEF net_bps
<1>19. t.net = t.side * (Mid(recording[k]) - Mid(recording[j])) - (recording[i].ask - recording[i].bid)
  BY <1>15, <1>16, <1>18, Zenon DEF mk, mj
<1>20. i \in FirstAt(t.ts) /\ j \in FirstAt(t.ts + latency) /\ k \in FirstAt(t.ts + horizon)
  BY <1>9, <1>12, <1>15
<1> QED
  BY <1>19, <1>20

\* In the order of time.
Rising(s) == \A i, j \in 1..Len(s) : i <= j => s[i].ts <= s[j].ts

\* Rows that were taken from s.
Picked(rows, s) == \A k \in 1..Len(rows) : \E i \in 1..Len(s) : rows[k] = s[i]

\* A row that is added keeps the order if none was later.
LEMMA RisingAppend ==
    ASSUME NEW s \in Seq(Rows), NEW r \in Rows
    PROVE  Rising(Append(s, r)) <=> Rising(s) /\ \A i \in 1..Len(s) : s[i].ts <= r.ts
<1> DEFINE u == Append(s, r)
           n == Len(s)
<1>1. /\ n \in Nat /\ Len(u) = n + 1 /\ u[n + 1] = r /\ \A i \in 1..n : u[i] = s[i]
      /\ r.ts \in Nat
  BY AppendProperties, LenProperties DEF Rows
<1> HIDE DEF u, n
<1>2. ASSUME Rising(u)
      PROVE  (\A i, j \in 1..n : i <= j => s[i].ts <= s[j].ts) /\ \A i \in 1..n : s[i].ts <= r.ts
  <2>1. ASSUME NEW i \in 1..n, NEW j \in 1..n, i <= j
        PROVE  s[i].ts <= s[j].ts
    BY <1>1, <1>2, <2>1 DEF Rising
  <2>2. ASSUME NEW i \in 1..n
        PROVE  s[i].ts <= r.ts
    <3>1. i \in 1..Len(u) /\ n + 1 \in 1..Len(u) /\ i <= n + 1
      BY <1>1
    <3>2. u[i].ts <= u[n + 1].ts
      BY <1>2, <3>1 DEF Rising
    <3> QED
      BY <1>1, <3>2
  <2> QED
    BY <2>1, <2>2
<1>3. ASSUME \A i, j \in 1..n : i <= j => s[i].ts <= s[j].ts, \A i \in 1..n : s[i].ts <= r.ts
      PROVE  Rising(u)
  <2>1. ASSUME NEW i \in 1..(n + 1), NEW j \in 1..(n + 1), i <= j
        PROVE  u[i].ts <= u[j].ts
    <3>1. CASE j \in 1..n
      <4>1. i \in 1..n
        BY <1>1, <2>1, <3>1
      <4> QED
        BY <1>1, <1>3, <2>1, <3>1, <4>1
    <3>2. CASE j = n + 1 /\ i \in 1..n
      BY <1>1, <1>3, <3>2
    <3>3. CASE j = n + 1 /\ i = n + 1
      BY <1>1, <3>3
    <3> QED
      BY <1>1, <2>1, <3>1, <3>2, <3>3
  <2> QED
    BY <1>1, <2>1 DEF Rising
<1> QED
  BY <1>2, <1>3, Zenon DEF Rising, u, n

\* A row that is added may be picked or not.
LEMMA PickedAppend ==
    ASSUME NEW rows \in Seq(Rows), NEW s \in Seq(Rows), NEW r \in Rows, Picked(rows, s)
    PROVE  Picked(rows, Append(s, r)) /\ Picked(Append(rows, r), Append(s, r))
<1> DEFINE u == Append(s, r)
           n == Len(s)
           t == Append(rows, r)
           m == Len(rows)
<1>1. n \in Nat /\ Len(u) = n + 1 /\ u[n + 1] = r /\ \A i \in 1..n : u[i] = s[i]
  BY AppendProperties, LenProperties
<1>2. m \in Nat /\ Len(t) = m + 1 /\ t[m + 1] = r /\ \A i \in 1..m : t[i] = rows[i]
  BY AppendProperties, LenProperties
<1>3. \A k \in 1..m : \E i \in 1..n : rows[k] = s[i]
  BY DEF Picked
<1> HIDE DEF u, t, n, m
<1>4. ASSUME NEW k \in 1..m
      PROVE  \E i \in 1..(n + 1) : rows[k] = u[i]
  <2>1. PICK i \in 1..n : rows[k] = s[i]
    BY <1>3
  <2> QED
    BY <1>1, <2>1
<1>5. ASSUME NEW k \in 1..(m + 1)
      PROVE  \E i \in 1..(n + 1) : t[k] = u[i]
  <2>1. CASE k \in 1..m
    BY <1>2, <1>4, <2>1
  <2>2. CASE k = m + 1
    <3>1. n + 1 \in 1..(n + 1) /\ t[k] = u[n + 1]
      BY <1>1, <1>2, <2>2
    <3> QED
      BY <3>1, Zenon
  <2> QED
    BY <1>2, <2>1, <2>2
<1>6. Picked(rows, u)
  BY <1>1, <1>4, Zenon DEF Picked, m
<1>7. Picked(t, u)
  BY <1>1, <1>2, <1>5, Zenon DEF Picked
<1> QED
  BY <1>6, <1>7 DEF u, t

\* A grid: its rows, and the bucket of the last one.
Grids == [rows : Seq(Rows), bucket : Int]
NoGrid == [rows |-> <<>>, bucket |-> -1]

\* A row is the first of its bucket, and kept, or is left out.
LEMMA GridLoop ==
    ASSUME NEW phase \in Int
    PROVE  /\ Loop(Gridding(phase), NoGrid, Grids, Rows)
           /\ \A at \in Grids, r \in Rows :
                \/ Gridding(phase)[at][r] = at
                \/ \E bucket \in Int : Gridding(phase)[at][r] = [rows |-> Append(at.rows, r), bucket |-> bucket]
<1>1. ASSUME NEW r \in Rows
      PROVE  (r.ts + phase) \div horizon \in Int
  <2>1. r.ts + phase \in Int /\ horizon \in Int /\ horizon > 0
    BY ResearchAssumption DEF Rows
  <2> QED
    BY <2>1
<1> DEFINE bucket(r) == (r.ts + phase) \div horizon
           made(at, r) == IF bucket(r) = at.bucket THEN at
                          ELSE [rows |-> Append(at.rows, r), bucket |-> bucket(r)]
<1>2. Gridding(phase) = [at \in Grids |-> [r \in Rows |-> made(at, r)]]
  BY Zenon DEF Gridding, Grids
<1>3. ASSUME NEW at \in Grids, NEW r \in Rows
      PROVE  /\ made(at, r) \in Grids
             /\ \/ made(at, r) = at
                \/ \E b \in Int : made(at, r) = [rows |-> Append(at.rows, r), bucket |-> b]
  <2> DEFINE b == bucket(r)
  <2>1. b \in Int
    BY <1>1
  <2>2. made(at, r) = IF b = at.bucket THEN at ELSE [rows |-> Append(at.rows, r), bucket |-> b]
    OBVIOUS
  <2>3. Append(at.rows, r) \in Seq(Rows)
    BY AppendProperties DEF Grids
  <2> HIDE DEF b, made
  <2>4. [rows |-> Append(at.rows, r), bucket |-> b] \in Grids
    BY <2>1, <2>3 DEF Grids
  <2> QED
    BY <2>1, <2>2, <2>4, Zenon
<1> HIDE DEF made
<1>4. NoGrid \in Grids
  BY EmptySeq DEF NoGrid, Grids
<1>5. Loop(Gridding(phase), NoGrid, Grids, Rows)
  BY <1>2, <1>3, <1>4 DEF Loop
<1>6. \A at \in Grids, r \in Rows : Gridding(phase)[at][r] = made(at, r)
  BY <1>2
<1> QED
  BY <1>3, <1>5, <1>6, Zenon

\* The rows of a grid are rows of the recording, in its order.
LEMMA GridRows ==
    ASSUME NEW phase \in Int, NEW s \in Seq(Rows)
    PROVE  /\ _on_grid(s, phase) \in Seq(Rows) /\ Picked(_on_grid(s, phase), s)
           /\ Rising(s) => Rising(_on_grid(s, phase))
<1> DEFINE step == Gridding(phase)
           grid(q) == Through(step, NoGrid, q)
           Good(rows, q) == Picked(rows, q) /\ (Rising(q) => Rising(rows))
           W == {q \in Seq(Rows) : Good(grid(q).rows, q)}
<1>0. /\ Loop(step, NoGrid, Grids, Rows)
      /\ \A at \in Grids, r \in Rows :
           \/ step[at][r] = at
           \/ \E bucket \in Int : step[at][r] = [rows |-> Append(at.rows, r), bucket |-> bucket]
  BY GridLoop
<1> HIDE DEF step
<1>1. <<>> \in W
  <2>1. grid(<<>>) = NoGrid /\ NoGrid.rows = <<>>
    BY <1>0, ThroughEmpty DEF NoGrid
  <2>2. Good(<<>>, <<>>)
    BY EmptySeq DEF Picked, Rising
  <2>3. Good(grid(<<>>).rows, <<>>)
    <3> HIDE DEF grid, Good
    <3> QED
      BY <2>1, <2>2, Zenon
  <2> QED
    BY <2>3, EmptySeq
<1>2. ASSUME NEW q \in Seq(Rows), NEW r \in Rows, q \in W
      PROVE  Append(q, r) \in W
  <2> DEFINE at == grid(q)
             old == at.rows
             u == Append(q, r)
  <2>1. Picked(old, q) /\ (Rising(q) => Rising(old))
    BY <1>2
  <2>2. at \in Grids
    BY <1>0, ThroughType
  <2>3. grid(u) = step[at][r]
    BY <1>0, ThroughAppend
  <2>4. old \in Seq(Rows) /\ u \in Seq(Rows)
    BY <2>2, AppendProperties DEF Grids
  <2>5. Picked(old, u) /\ Picked(Append(old, r), u)
    <3> HIDE DEF old
    <3> QED
      BY <2>1, <2>4, PickedAppend
  <2>6. Rising(u) <=> Rising(q) /\ \A i \in 1..Len(q) : q[i].ts <= r.ts
    BY RisingAppend
  <2> HIDE DEF u, at, grid
  <2>7. Rising(u) => Rising(old) /\ Rising(Append(old, r))
    <3> SUFFICES ASSUME Rising(u) PROVE Rising(old) /\ Rising(Append(old, r))
      OBVIOUS
    <3>1. Rising(old) /\ \A i \in 1..Len(q) : q[i].ts <= r.ts
      BY <2>1, <2>6
    <3>2. \A k \in 1..Len(old) : old[k].ts <= r.ts
      BY <2>1, <3>1 DEF Picked
    <3> HIDE DEF old
    <3> QED
      BY <2>4, <3>1, <3>2, RisingAppend
  <2>8. CASE grid(u) = at
    <3>1. grid(u).rows = old
      BY <2>8
    <3> QED
      BY <2>4, <2>5, <2>7, <3>1 DEF u
  <2>9. CASE \E bucket \in Int : grid(u) = [rows |-> Append(old, r), bucket |-> bucket]
    <3>1. grid(u).rows = Append(old, r)
      BY <2>9
    <3> QED
      BY <2>4, <2>5, <2>7, <3>1 DEF u
  <2> QED
    BY <1>0, <2>2, <2>3, <2>8, <2>9
<1>3. \A q \in Seq(Rows) : q \in W
  <2> HIDE DEF W
  <2> QED
    BY <1>1, <1>2, SequenceInduction
<1>4. grid(s) \in Grids /\ Good(grid(s).rows, s)
  BY <1>0, <1>3, ThroughType
<1>5. _on_grid(s, phase) = grid(s).rows
  BY DEF _on_grid, NoGrid, step
<1>6. grid(s).rows \in Seq(Rows)
  BY <1>4 DEF Grids
<1> HIDE DEF grid
<1> QED
  BY <1>4, <1>5, <1>6, Zenon

\* Simulations whose trades of each row are the same are the same.
LEMMA SameTrades ==
    ASSUME NEW rule, NEW one, NEW other, Trading(rule, one), Trading(rule, other), NEW s \in Seq(Rows),
           \A i \in 1..Len(s), side \in Sides : one[s[i]][side] = other[s[i]][side]
    PROVE  Sequential(s, rule, one) = Sequential(s, rule, other)
<1> DEFINE a(q) == BookOf(rule, one, q)
           b(q) == BookOf(rule, other, q)
           Same(q) == \A i \in 1..Len(q), side \in Sides : one[q[i]][side] = other[q[i]][side]
           W == {q \in Seq(Rows) : Same(q) => a(q) = b(q)}
<1>1. <<>> \in W
  <2>1. a(<<>>) = NoTrades /\ b(<<>>) = NoTrades
    BY BookLaws
  <2> HIDE DEF a, b, Same
  <2> QED
    BY <2>1, EmptySeq
<1>2. ASSUME NEW q \in Seq(Rows), NEW r \in Rows, q \in W
      PROVE  Append(q, r) \in W
  <2> DEFINE u == Append(q, r)
             n == Len(q)
  <2>1. /\ u \in Seq(Rows) /\ Len(u) = n + 1 /\ u[n + 1] = r /\ n \in Nat
        /\ \A i \in 1..n : u[i] = q[i]
    BY AppendProperties, LenProperties
  <2> HIDE DEF u
  <2>2. SUFFICES ASSUME Same(u) PROVE a(u) = b(u)
    BY <2>1 DEF u
  <2>3. \A i \in 1..n : i \in 1..Len(u)
    BY <2>1
  <2>4. Same(q)
    BY <2>1, <2>2, <2>3
  <2>5. \A side \in Sides : one[r][side] = other[r][side]
    <3>1. n + 1 \in 1..Len(u)
      BY <2>1
    <3> QED
      BY <2>1, <2>2, <3>1
  <2>6. a(q) = b(q)
    BY <1>2, <2>4
  <2>7. /\ a(q) \in Books /\ b(q) \in Books
        /\ a(u) = Sequencing(rule, one)[a(q)][r] /\ b(u) = Sequencing(rule, other)[b(q)][r]
    BY BookLaws DEF u
  <2> HIDE DEF a, b
  <2>8. Passed(a(q), r, rule, one) <=> Passed(a(q), r, rule, other)
    <3>1. rule[r] = 0 \/ rule[r] \in Sides
      BY DEF Trading, Rules
    <3> QED
      BY <2>5, <3>1 DEF Passed
  <2>9. CASE Passed(a(q), r, rule, one)
    BY <2>6, <2>7, <2>8, <2>9, SequencingLaw
  <2>10. CASE ~Passed(a(q), r, rule, one)
    <3>1. rule[r] \in Sides /\ Sequencing(rule, one)[a(q)][r] = Booked(a(q), Chosen(one[r][rule[r]]))
      BY <2>7, <2>10, SequencingLaw
    <3>2. Sequencing(rule, other)[b(q)][r] = Booked(b(q), Chosen(other[r][rule[r]]))
      BY <2>6, <2>7, <2>8, <2>10, SequencingLaw
    <3>3. one[r][rule[r]] = other[r][rule[r]]
      BY <2>5, <3>1
    <3> QED
      BY <2>6, <2>7, <3>1, <3>2, <3>3, Zenon
  <2> QED
    BY <2>9, <2>10
<1>3. \A q \in Seq(Rows) : q \in W
  <2> HIDE DEF W
  <2> QED
    BY <1>1, <1>2, SequenceInduction
<1>4. a(s) = b(s)
  BY <1>3
<1> QED
  BY <1>4, Zenon DEF Sequential, BookOf

\* Rows of a recording that ends on a two-sided quote have one to trade at.
LEMMA AtOnceIsPlain ==
    ASSUME RecordingInv, Len(recording) \in TwoSided, NEW m \in 1..Len(AllRows), NEW side \in Sides
    PROVE  Late(0)[AllRows[m]][side] = Plain[AllRows[m]][side]
<1> DEFINE r == AllRows[m]
           last == Len(recording)
           reached == {i \in TwoSided : recording[i].ts >= r.ts}
<1>1. /\ AllRows \in Seq(Rows) /\ Resolved = 1..Len(AllRows) /\ AllRows[m].ts = Row(m).ts
  BY AllRowsAre
<1>2. r \in Rows /\ m \in Resolved
  BY <1>1, ElementOfSeq
<1>3. r.ts = recording[m].ts /\ m \in 1..last
  BY <1>1, <1>2, RowIs
<1> HIDE DEF r
<1>4. last \in reached
  <2>1. last \in Nat /\ last \in 1..last
    BY <1>3, TapeFacts
  <2>2. recording[m].ts <= recording[last].ts /\ recording[m].ts \in Nat /\ recording[last].ts \in Nat
    BY <1>3, <2>1, TapeFacts DEF RecordingInv
  <2> QED
    BY <1>3, <2>2
<1>5. reached \in SUBSET Nat
  BY TapeFacts
<1>6. PICK i \in reached : \A j \in reached : i <= j
  <2> HIDE DEF reached
  <2> QED
    BY <1>4, <1>5, LeastNatural
<1>7. i \in FirstAt(r.ts)
  BY <1>6 DEF FirstAt, FirstOf
<1>8. r.ts + 0 = r.ts /\ r.ts \in Nat /\ r.realized \in Int
  BY <1>2 DEF Rows
<1>9. \A j, k \in FirstAt(r.ts) : j = i /\ k = i
  BY <1>7, FirstAtOne
<1> DEFINE trade(j, k) == [ts |-> r.ts, side |-> side,
                          net |-> net_bps(side, ExitPrice(j, k, r) - Mid(recording[k]), r.spread),
                          busy_until |-> r.ts + horizon]
           placed == FirstAt(r.ts)
           filled == FirstAt(r.ts + 0)
<1>10. Late(0)[r][side] = {trade(j, k) : j \in placed, k \in filled}
  BY <1>2 DEF Late
<1>11. Late(0)[r][side] = {trade(i, i)}
  <2>1. filled = placed
    BY <1>8, Zenon
  <2>2. i \in placed /\ \A j \in placed : j = i
    BY <1>7, <1>9
  <2> HIDE DEF trade, placed, filled
  <2> QED
    BY <1>10, <2>1, <2>2
<1> HIDE DEF trade
<1>12. ExitPrice(i, i, r) - Mid(recording[i]) = r.realized
  <2>1. i \in TwoSided
    BY <1>7, FirstAtLaw
  <2>2. Mid(recording[i]) \in Int
    BY <2>1, PriceTypes
  <2> QED
    BY <1>8, <2>2 DEF ExitPrice
<1>13. trade(i, i) = [ts |-> r.ts, side |-> side, net |-> net_bps(side, r.realized, r.spread), busy_until |-> r.ts + horizon]
  BY <1>12, Zenon DEF trade
<1>14. Late(0)[r][side] = Plain[r][side]
  BY <1>2, <1>11, <1>13, PlainTrading
<1> QED
  BY <1>14 DEF r

\* Fills at once are plain trades, and both fade rules are one.
LEMMA SimulationsAgree == RecordingInv => SimsAgree
<1> SUFFICES ASSUME RecordingInv PROVE SimsAgree
  OBVIOUS
<1>1. AllRows \in Seq(Rows)
  BY AllRowsAre
<1>2. ASSUME Len(recording) \in TwoSided, NEW phase \in Phases
      PROVE  sim_with_latency(_on_grid(AllRows, phase), 0) = simulate_trading(_on_grid(AllRows, phase))
  <2> DEFINE rows == _on_grid(AllRows, phase)
  <2>1. phase \in Int
    BY <1>2 DEF Phases
  <2>2. rows \in Seq(Rows) /\ Picked(rows, AllRows)
    BY <1>1, <2>1, GridRows
  <2> HIDE DEF rows
  <2>3. ASSUME NEW k \in 1..Len(rows), NEW side \in Sides
        PROVE  Late(0)[rows[k]][side] = Plain[rows[k]][side]
    <3>1. PICK m \in 1..Len(AllRows) : rows[k] = AllRows[m]
      BY <2>2 DEF Picked
    <3>2. Late(0)[AllRows[m]][side] = Plain[AllRows[m]][side]
      BY <1>2, AtOnceIsPlain
    <3> QED
      BY <3>1, <3>2, Zenon
  <2>4. Trading(simrule_decide, Late(0)) /\ Trading(simrule_decide, Plain)
    BY LateTrading, PlainTrading, RulesAre DEF Trading
  <2>5. Sequential(rows, simrule_decide, Late(0)) = Sequential(rows, simrule_decide, Plain)
    BY <2>2, <2>3, <2>4, SameTrades
  <2> QED
    BY <2>5, Zenon DEF sim_with_latency, simulate_trading, rows
<1>3. ASSUME Len(recording) \in TwoSided
      PROVE  latency_sweep(AllRows)[0] = cadence_sweep(AllRows).windowed
  <2>1. 0 \in 0..horizon
    BY ResearchAssumption
  <2>2. latency_sweep(AllRows)[0] = [phase \in Phases |-> sim_with_latency(_on_grid(AllRows, phase), 0)]
    BY <2>1, Zenon DEF latency_sweep
  <2>3. cadence_sweep(AllRows).windowed = [phase \in Phases |-> simulate_trading(_on_grid(AllRows, phase))]
    BY DEF cadence_sweep
  <2>4. [phase \in Phases |-> sim_with_latency(_on_grid(AllRows, phase), 0)]
          = [phase \in Phases |-> simulate_trading(_on_grid(AllRows, phase))]
    BY <1>2, <1>3, Zenon
  <2> QED
    BY <2>2, <2>3, <2>4, Zenon
<1>4. simulate_fade_rule(evaluate(TRUE)) = _net_bps(evaluate(TRUE), fade_side)
  <2> DEFINE against == [r \in Rows |-> IF r.persistence = 0 THEN 0 ELSE IF r.persistence > 0 THEN -1 ELSE 1]
  <2>1. \A r \in Rows : (IF r.persistence = 0 THEN 0 ELSE IF r.persistence > 0 THEN -1 ELSE 1) = -SignOf(r.persistence)
    BY DEF Rows, SignOf
  <2>2. against = fade_side
    BY <2>1 DEF fade_side
  <2>3. simulate_fade_rule(evaluate(TRUE)) = Sequential(evaluate(TRUE), against, Plain)
    BY Zenon DEF simulate_fade_rule
  <2> HIDE DEF against
  <2> QED
    BY <2>2, <2>3, Zenon DEF _net_bps
<1> QED
  BY <1>3, <1>4, Zenon DEF SimsAgree

\* The same positions are entered, and are held for as long.
SameEntered(one, other) ==
    /\ one.busy_until = other.busy_until /\ Len(one.trades) = Len(other.trades)
    /\ \A k \in 1..Len(one.trades) :
         one.trades[k].ts = other.trades[k].ts /\ one.trades[k].opened = other.trades[k].opened

\* The trades of a row are entered at one quote and held for one time.
Alike(one, other) ==
    \A r \in Rows, side \in Sides :
        /\ one[r][side] = {} <=> other[r][side] = {}
        /\ \A x \in one[r][side], y \in other[r][side] :
             x.ts = y.ts /\ x.opened = y.opened /\ x.busy_until = y.busy_until

\* Where trades are entered alike and held as long, the books are as well.
LEMMA AlikeEntered ==
    ASSUME NEW rule, NEW one, NEW other, Trading(rule, one), Trading(rule, other), Alike(one, other),
           NEW s \in Seq(Rows)
    PROVE  SameEntered(BookOf(rule, one, s), BookOf(rule, other, s))
<1> DEFINE a(q) == BookOf(rule, one, q)
           b(q) == BookOf(rule, other, q)
           W == {q \in Seq(Rows) : SameEntered(a(q), b(q))}
<1>1. <<>> \in W
  <2>1. a(<<>>) = NoTrades /\ b(<<>>) = NoTrades
    BY BookLaws
  <2>2. SameEntered(NoTrades, NoTrades)
    BY DEF SameEntered
  <2> HIDE DEF a, b
  <2>3. SameEntered(a(<<>>), b(<<>>))
    BY <2>1, <2>2, Zenon
  <2> QED
    BY <2>3, EmptySeq
<1>2. ASSUME NEW q \in Seq(Rows), NEW r \in Rows, q \in W
      PROVE  Append(q, r) \in W
  <2> DEFINE u == Append(q, r)
             x == a(q)
             y == b(q)
             t == Chosen(one[r][rule[r]])
             v == Chosen(other[r][rule[r]])
  <2>1. u \in Seq(Rows)
    BY AppendProperties
  <2>2. SameEntered(x, y)
    BY <1>2
  <2>3. /\ x \in Books /\ y \in Books
        /\ a(u) = Sequencing(rule, one)[x][r] /\ b(u) = Sequencing(rule, other)[y][r]
    BY BookLaws
  <2> HIDE DEF u, a, b, x, y
  <2>4. Passed(x, r, rule, one) <=> Passed(y, r, rule, other)
    <3>1. rule[r] = 0 \/ rule[r] \in Sides
      BY DEF Trading, Rules
    <3>2. x.busy_until = y.busy_until
      BY <2>2 DEF SameEntered
    <3>3. rule[r] \in Sides => (one[r][rule[r]] = {} <=> other[r][rule[r]] = {})
      BY DEF Alike
    <3> QED
      BY <3>1, <3>2, <3>3 DEF Passed
  <2>5. CASE Passed(x, r, rule, one)
    <3>1. a(u) = x /\ b(u) = y
      BY <2>3, <2>4, <2>5, SequencingLaw
    <3> QED
      BY <2>1, <2>2, <3>1 DEF u
  <2>6. CASE ~Passed(x, r, rule, one)
    <3>1. rule[r] \in Sides /\ t \in one[r][rule[r]] /\ t \in Trades /\ a(u) = Booked(x, t)
      BY <2>3, <2>6, SequencingLaw
    <3>2. v \in other[r][rule[r]] /\ v \in Trades /\ b(u) = Booked(y, v)
      BY <2>3, <2>4, <2>6, SequencingLaw
    <3>3. t.ts = v.ts /\ t.opened = v.opened /\ t.busy_until = v.busy_until
      BY <3>1, <3>2 DEF Alike
    <3> DEFINE p == x.trades
               w == y.trades
               m == Len(p)
    <3>4. p \in Seq(Trades) /\ w \in Seq(Trades) /\ m \in Nat /\ Len(w) = m
      BY <2>2, <2>3, LenProperties DEF Books, SameEntered
    <3>5. \A k \in 1..m : p[k].ts = w[k].ts /\ p[k].opened = w[k].opened
      BY <2>2 DEF SameEntered
    <3> DEFINE pt == Append(p, t)
               wv == Append(w, v)
    <3> HIDE DEF t, v, p, w, m
    <3>6. Len(pt) = m + 1 /\ pt[m + 1] = t /\ \A k \in 1..m : pt[k] = p[k]
      BY <3>1, <3>4, AppendProperties DEF m
    <3>7. Len(wv) = m + 1 /\ wv[m + 1] = v /\ \A k \in 1..m : wv[k] = w[k]
      BY <3>2, <3>4, AppendProperties
    <3>8. a(u).trades = pt /\ a(u).busy_until = t.busy_until /\ b(u).trades = wv /\ b(u).busy_until = v.busy_until
      BY <3>1, <3>2 DEF Booked, p, w
    <3> HIDE DEF pt, wv
    <3>9. ASSUME NEW k \in 1..(m + 1)
          PROVE  pt[k].ts = wv[k].ts /\ pt[k].opened = wv[k].opened
      <4>1. CASE k \in 1..m
        BY <3>5, <3>6, <3>7, <4>1
      <4>2. CASE k = m + 1
        BY <3>3, <3>6, <3>7, <4>2
      <4> QED
        BY <3>4, <4>1, <4>2
    <3>10. SameEntered(a(u), b(u))
      BY <3>3, <3>6, <3>7, <3>8, <3>9 DEF SameEntered
    <3> QED
      BY <2>1, <3>10 DEF u
  <2> QED
    BY <2>5, <2>6
<1>3. \A q \in Seq(Rows) : q \in W
  <2> HIDE DEF W
  <2> QED
    BY <1>1, <1>2, SequenceInduction
<1> QED
  BY <1>3

\* How a passive entry is left says nothing about which come after it.
LEMMA EntriesAreSame == RecordingInv => SameEntries
<1> SUFFICES ASSUME RecordingInv PROVE SameEntries
  OBVIOUS
<1>1. AllRows \in Seq(Rows)
  BY AllRowsAre
<1>2. Trading(SideOf, MakerTaker) /\ Trading(SideOf, MakerMaker)
  BY PassiveTradings
<1>3. Alike(MakerTaker, MakerMaker)
  <2>1. ASSUME NEW r \in Rows, NEW side \in Sides
        PROVE  /\ MakerTaker[r][side] = {} <=> Holdings(r, side) = {}
               /\ MakerMaker[r][side] = {} <=> Holdings(r, side) = {}
    BY DEF MakerTaker, MakerMaker
  <2>2. ASSUME NEW r \in Rows, NEW side \in Sides, NEW h \in Holdings(r, side), NEW g \in Holdings(r, side)
        PROVE  h[1][2] = g[1][2]
    <3>1. /\ h[1] \in Entries(r, side) /\ g[1] \in Entries(r, side)
          /\ h[1][1] \in FirstAt(r.ts) /\ g[1][1] \in FirstAt(r.ts)
          /\ h[1][2] \in TwoSided /\ g[1][2] \in TwoSided
      BY HoldingLaw DEF Holdings
    <3>2. h[1][1] = g[1][1]
      BY <3>1, FirstAtOne
    <3>3. /\ h[1][2] \in FirstOf(Touches(side, r.ts, Near(side, h[1][1])))
          /\ g[1][2] \in FirstOf(Touches(side, r.ts, Near(side, h[1][1])))
      BY <3>1, <3>2 DEF Entries
    <3>4. h[1][2] <= g[1][2] /\ g[1][2] <= h[1][2]
      BY <3>3 DEF FirstOf
    <3>5. h[1][2] \in Nat /\ g[1][2] \in Nat
      BY <3>1, PriceTypes
    <3> QED
      BY <3>4, <3>5
  <2>3. ASSUME NEW r \in Rows, NEW side \in Sides, NEW x \in MakerTaker[r][side], NEW y \in MakerMaker[r][side]
        PROVE  x.ts = y.ts /\ x.opened = y.opened /\ x.busy_until = y.busy_until
    <3>1. PICK h \in Holdings(r, side) : Entered(x, r, side, h)
      BY MakerTakerTrade
    <3>2. PICK g \in Holdings(r, side) : Entered(y, r, side, g)
      BY MakerMakerTrade
    <3>3. h[1][2] = g[1][2]
      BY <2>2
    <3> QED
      BY <3>1, <3>2, <3>3, Zenon DEF Entered
  <2> QED
    BY <2>1, <2>3 DEF Alike
<1> DEFINE one == Sequential(AllRows, SideOf, MakerTaker)
           other == Sequential(AllRows, SideOf, MakerMaker)
<1>4. SameEntered(BookOf(SideOf, MakerTaker, AllRows), BookOf(SideOf, MakerMaker, AllRows))
  BY <1>1, <1>2, <1>3, AlikeEntered
<1>5. /\ Len(one) = Len(other)
      /\ \A k \in 1..Len(one) : one[k].ts = other[k].ts /\ one[k].opened = other[k].opened
  BY <1>4 DEF SameEntered, BookOf, Sequential
<1>6. one \in Seq(Trades) /\ other \in Seq(Trades)
  BY <1>1, <1>2, BookInTurn
<1>7. maker_sim(AllRows)["maker_taker"] = one /\ maker_sim(AllRows)["maker_maker"] = other
  BY DEF maker_sim, simulate
<1> HIDE DEF one, other
<1>8. DOMAIN one = 1..Len(one) /\ DOMAIN other = 1..Len(one)
  BY <1>5, <1>6, LenProperties
<1>9. [i \in DOMAIN one |-> <<one[i].ts, one[i].opened>>] = [i \in DOMAIN other |-> <<other[i].ts, other[i].opened>>]
  BY <1>5, <1>8
<1> QED
  BY <1>7, <1>9, Zenon DEF SameEntries

\* The trade of a row on a side.
PlainOf(r, side) ==
    [ts |-> r.ts, side |-> side, net |-> net_bps(side, r.realized, r.spread), busy_until |-> r.ts + horizon]

\* A book of plain trades takes every side it is free to take.
LEMMA PlainBook ==
    ASSUME NEW rule \in Rules, NEW at \in Books, NEW r \in Rows
    PROVE  /\ Trading(rule, Plain)
           /\ r.ts < at.busy_until \/ rule[r] = 0 => Sequencing(rule, Plain)[at][r] = at
           /\ ~(r.ts < at.busy_until \/ rule[r] = 0) =>
                /\ rule[r] \in Sides /\ PlainOf(r, rule[r]) \in Trades
                /\ Sequencing(rule, Plain)[at][r] = Booked(at, PlainOf(r, rule[r]))
<1>1. Trading(rule, Plain)
  BY PlainTrading DEF Trading
<1>2. rule[r] # 0 => rule[r] \in Sides
  BY DEF Rules
<1>3. rule[r] \in Sides => Plain[r][rule[r]] = {PlainOf(r, rule[r])}
  BY PlainTrading DEF PlainOf
<1>4. Passed(at, r, rule, Plain) <=> r.ts < at.busy_until \/ rule[r] = 0
  BY <1>2, <1>3 DEF Passed
<1>5. rule[r] \in Sides => Chosen(Plain[r][rule[r]]) = PlainOf(r, rule[r])
  BY <1>3 DEF Chosen
<1>6. ASSUME ~Passed(at, r, rule, Plain)
      PROVE  /\ rule[r] \in Sides /\ PlainOf(r, rule[r]) \in Trades
             /\ Sequencing(rule, Plain)[at][r] = Booked(at, PlainOf(r, rule[r]))
  <2>1. /\ rule[r] \in Sides /\ Chosen(Plain[r][rule[r]]) \in Trades
        /\ Sequencing(rule, Plain)[at][r] = Booked(at, Chosen(Plain[r][rule[r]]))
    BY <1>1, <1>6, SequencingLaw
  <2> QED
    BY <1>5, <2>1, Zenon
<1>7. Passed(at, r, rule, Plain) => Sequencing(rule, Plain)[at][r] = at
  BY <1>1, SequencingLaw
<1> QED
  BY <1>1, <1>4, <1>6, <1>7, Zenon

Longs == {t \in Trades : t.side = 1}

\* No row of s is later than t.
Until(s, t) == \A i \in 1..Len(s) : s[i].ts <= t

\* A book of longs alone has as many as one that also shorts; with no more
\* than that it is free as early.
Ahead(long, both, s) ==
    /\ Len(long.trades) >= Len(Filter(both.trades, Longs))
    /\ Len(long.trades) = Len(Filter(both.trades, Longs)) => long.busy_until <= both.busy_until
    /\ \A t \in Nat : Until(s, t) => long.busy_until <= t + horizon

\* By induction on the rows, a book of longs alone stays ahead: a short only
\* makes the other book busy.
LEMMA LongsAhead ==
    ASSUME NEW s \in Seq(Rows), Rising(s)
    PROVE  Len(Sequential(s, LongOnly, Plain)) >= Len(Filter(Sequential(s, simrule_decide, Plain), Longs))
<1> DEFINE a(q) == BookOf(LongOnly, Plain, q)
           b(q) == BookOf(simrule_decide, Plain, q)
           W == {q \in Seq(Rows) : Rising(q) => Ahead(a(q), b(q), q)}
<1>0. /\ LongOnly \in Rules /\ simrule_decide \in Rules /\ NoTrades \in Books
      /\ Trading(LongOnly, Plain) /\ Trading(simrule_decide, Plain)
      /\ horizon \in Nat
  <2>1. Trading(LongOnly, Plain) /\ Trading(simrule_decide, Plain)
    BY RulesAre, PlainTrading DEF Trading
  <2>2. NoTrades \in Books
    BY <2>1, SequencingLoop DEF Loop
  <2> QED
    BY <2>1, <2>2, RulesAre, ResearchAssumption
<1>1. <<>> \in W
  <2>1. a(<<>>) = NoTrades /\ b(<<>>) = NoTrades
    BY <1>0, BookLaws
  <2>2. Ahead(NoTrades, NoTrades, <<>>)
    <3>1. NoTrades.trades = <<>> /\ NoTrades.busy_until = -horizon /\ Len(<<>>) = 0 /\ Filter(<<>>, Longs) = <<>>
      BY FilterEmpty DEF NoTrades
    <3> QED
      BY <1>0, <3>1 DEF Ahead
  <2> HIDE DEF a, b
  <2>3. Ahead(a(<<>>), b(<<>>), <<>>)
    BY <2>1, <2>2, Zenon
  <2> QED
    BY <2>3, EmptySeq
<1>2. ASSUME NEW q \in Seq(Rows), NEW r \in Rows, q \in W
      PROVE  Append(q, r) \in W
  <2> DEFINE u == Append(q, r)
             n == Len(q)
             x == a(q)
             y == b(q)
             t == PlainOf(r, 1)
             free == r.ts + horizon
  <2>1. /\ u \in Seq(Rows) /\ Len(u) = n + 1 /\ u[n + 1] = r /\ n \in Nat
        /\ \A i \in 1..n : u[i] = q[i]
    BY AppendProperties, LenProperties
  <2>2. SUFFICES ASSUME Rising(u) PROVE Ahead(a(u), b(u), u)
    BY <2>1
  <2>3. Rising(q) /\ Until(q, r.ts)
    BY <2>2, RisingAppend DEF Until
  <2>4. Ahead(x, y, q)
    BY <1>2, <2>3
  <2>5. /\ x \in Books /\ y \in Books
        /\ a(u) = Sequencing(LongOnly, Plain)[x][r] /\ b(u) = Sequencing(simrule_decide, Plain)[y][r]
    BY <1>0, BookLaws
  <2>6. ASSUME NEW later \in Nat, Until(u, later)
        PROVE  Until(q, later) /\ r.ts <= later
    <3> HIDE DEF u
    <3>1. n + 1 \in 1..Len(u) /\ \A i \in 1..n : i \in 1..Len(u)
      BY <2>1
    <3> QED
      BY <2>1, <2>6, <3>1 DEF Until
  <2> DEFINE k == Len(x.trades)
             l == Len(Filter(y.trades, Longs))
  <2>7. /\ k \in Nat /\ l \in Nat /\ x.trades \in Seq(Trades) /\ y.trades \in Seq(Trades)
        /\ x.busy_until \in Int /\ y.busy_until \in Int /\ r.ts \in Nat /\ free \in Int
    <3>1. x.trades \in Seq(Trades) /\ y.trades \in Seq(Trades) /\ x.busy_until \in Int /\ y.busy_until \in Int
      BY <2>5 DEF Books
    <3>2. Filter(y.trades, Longs) \in Seq(Trades)
      BY <3>1, FilterType
    <3> QED
      BY <1>0, <3>1, <3>2, LenProperties DEF Rows
  <2>8. /\ k >= l /\ (k = l => x.busy_until <= y.busy_until) /\ x.busy_until <= free
        /\ \A later \in Nat : Until(q, later) => x.busy_until <= later + horizon
    BY <2>3, <2>4, <2>7 DEF Ahead
  <2> HIDE DEF u, a, b, x, y
  <2>9. ASSUME NEW later \in Nat, Until(u, later)
        PROVE  x.busy_until <= later + horizon /\ free <= later + horizon
    BY <1>0, <2>6, <2>7, <2>8, <2>9
  <2>10. /\ LongOnly[r] = IF simrule_decide[r] = 1 THEN 1 ELSE 0
         /\ simrule_decide[r] = 1 \/ simrule_decide[r] = -1 \/ simrule_decide[r] = 0
    BY <1>0 DEF LongOnly, Rules, Sides
  <2>11. ASSUME NEW at \in Books, NEW side \in Sides, NEW v, v = PlainOf(r, side)
         PROVE  /\ v.busy_until = free /\ v.side = side
                /\ Booked(at, v).busy_until = free
                /\ v \in Trades => /\ Len(Booked(at, v).trades) = Len(at.trades) + 1
                                   /\ Filter(Booked(at, v).trades, Longs) =
                                        IF side = 1 THEN Append(Filter(at.trades, Longs), v)
                                        ELSE Filter(at.trades, Longs)
    <3>1. v.busy_until = free /\ v.side = side
      BY <2>11 DEF PlainOf
    <3>2. Booked(at, v).busy_until = free /\ Booked(at, v).trades = Append(at.trades, v)
      BY <3>1 DEF Booked
    <3>3. at.trades \in Seq(Trades)
      BY <2>11 DEF Books
    <3>4. ASSUME v \in Trades
          PROVE  /\ Len(Append(at.trades, v)) = Len(at.trades) + 1
                 /\ Filter(Append(at.trades, v), Longs) =
                      IF side = 1 THEN Append(Filter(at.trades, Longs), v) ELSE Filter(at.trades, Longs)
      <4>1. v \in Longs <=> side = 1
        BY <3>1, <3>4 DEF Longs
      <4>2. Filter(Append(at.trades, v), Longs) =
              IF v \in Longs THEN Append(Filter(at.trades, Longs), v) ELSE Filter(at.trades, Longs)
        BY <3>3, <3>4, FilterAppend
      <4>3. Len(Append(at.trades, v)) = Len(at.trades) + 1
        BY <3>3, <3>4, AppendProperties
      <4> QED
        BY <4>1, <4>2, <4>3, Zenon
    <3> QED
      BY <3>1, <3>2, <3>4, Zenon
  <2>12. /\ r.ts < x.busy_until \/ simrule_decide[r] # 1 => a(u) = x
         /\ ~(r.ts < x.busy_until \/ simrule_decide[r] # 1) =>
              Len(a(u).trades) = k + 1 /\ a(u).busy_until = free
    <3>1. CASE r.ts < x.busy_until \/ simrule_decide[r] # 1
      <4>1. r.ts < x.busy_until \/ LongOnly[r] = 0
        BY <2>10, <3>1
      <4> QED
        BY <1>0, <2>5, <3>1, <4>1, PlainBook
    <3>2. CASE ~(r.ts < x.busy_until \/ simrule_decide[r] # 1)
      <4>1. LongOnly[r] = 1 /\ ~(r.ts < x.busy_until \/ LongOnly[r] = 0) /\ 1 \in Sides
        BY <2>10, <3>2 DEF Sides
      <4>2. t \in Trades /\ a(u) = Booked(x, t)
        <5>1. /\ PlainOf(r, LongOnly[r]) \in Trades
              /\ Sequencing(LongOnly, Plain)[x][r] = Booked(x, PlainOf(r, LongOnly[r]))
          BY <1>0, <2>5, <4>1, PlainBook
        <5> QED
          BY <2>5, <4>1, <5>1, Zenon
      <4>3. Booked(x, t).busy_until = free /\ Len(Booked(x, t).trades) = Len(x.trades) + 1
        BY <2>5, <2>11, <4>1, <4>2
      <4> QED
        BY <3>2, <4>2, <4>3
    <3> QED
      BY <3>1, <3>2
  <2>13. /\ r.ts < y.busy_until \/ simrule_decide[r] = 0 => b(u) = y
         /\ ~(r.ts < y.busy_until \/ simrule_decide[r] = 0) =>
              /\ b(u).busy_until = free
              /\ Len(Filter(b(u).trades, Longs)) = IF simrule_decide[r] = 1 THEN l + 1 ELSE l
    <3>1. CASE r.ts < y.busy_until \/ simrule_decide[r] = 0
      BY <1>0, <2>5, <3>1, PlainBook
    <3>2. CASE ~(r.ts < y.busy_until \/ simrule_decide[r] = 0)
      <4> DEFINE side == simrule_decide[r]
                 v == PlainOf(r, side)
                 kept == Filter(y.trades, Longs)
      <4>1. side \in Sides /\ v \in Trades /\ b(u) = Booked(y, v)
        BY <1>0, <2>5, <3>2, PlainBook
      <4>2. /\ Booked(y, v).busy_until = free
            /\ Filter(Booked(y, v).trades, Longs) = IF side = 1 THEN Append(kept, v) ELSE kept
        BY <2>5, <2>11, <4>1
      <4>3. Len(Append(kept, v)) = Len(kept) + 1
        <5>1. kept \in Seq(Trades)
          BY <2>7, FilterType
        <5> HIDE DEF kept, v
        <5> QED
          BY <4>1, <5>1, AppendProperties
      <4> HIDE DEF side, v, kept
      <4>4. Len(Filter(b(u).trades, Longs)) = IF side = 1 THEN Len(kept) + 1 ELSE Len(kept)
        BY <4>1, <4>2, <4>3
      <4>5. b(u).busy_until = free
        BY <4>1, <4>2, Zenon
      <4> QED
        BY <3>2, <4>4, <4>5 DEF side, kept
    <3> QED
      BY <3>1, <3>2
  <2>14. /\ Len(x.trades) = k /\ Len(Filter(y.trades, Longs)) = l
         /\ r.ts <= free
    BY <1>0, <2>7
  <2> DEFINE long == a(u)
             both == b(u)
             K == Len(long.trades)
             L == Len(Filter(both.trades, Longs))
             rise == simrule_decide[r] = 1
             pass == simrule_decide[r] = 0
  <2>15. /\ r.ts < x.busy_until \/ ~rise => K = k /\ long.busy_until = x.busy_until
         /\ ~(r.ts < x.busy_until \/ ~rise) => K = k + 1 /\ long.busy_until = free
    BY <2>12, <2>14
  <2>16. /\ r.ts < y.busy_until \/ pass => L = l /\ both.busy_until = y.busy_until
         /\ ~(r.ts < y.busy_until \/ pass) => both.busy_until = free /\ L = IF rise THEN l + 1 ELSE l
    BY <2>13, <2>14
  <2>17. ~(rise /\ pass)
    OBVIOUS
  <2> HIDE DEF K, L, rise, pass, k, l, long, both, free
  <2>18. K >= L
    BY <2>7, <2>8, <2>15, <2>16, <2>17
  <2>19. K = L => long.busy_until <= both.busy_until
    BY <2>7, <2>8, <2>15, <2>16, <2>17
  <2>20. \A later \in Nat : Until(u, later) => long.busy_until <= later + horizon
    BY <2>9, <2>15
  <2> QED
    BY <2>18, <2>19, <2>20 DEF Ahead, K, L, long, both
<1>3. \A q \in Seq(Rows) : q \in W
  <2> HIDE DEF W
  <2> QED
    BY <1>1, <1>2, SequenceInduction
<1>4. Ahead(a(s), b(s), s)
  BY <1>3
<1>5. Len(a(s).trades) >= Len(Filter(b(s).trades, Longs))
  BY <1>4 DEF Ahead
<1> QED
  BY <1>5 DEF Sequential, BookOf

\* The rows of a recording are in the order of time.
LEMMA AllRowsRise == RecordingInv => Rising(AllRows)
<1> SUFFICES ASSUME RecordingInv, NEW i \in 1..Len(AllRows), NEW j \in 1..Len(AllRows), i <= j
             PROVE  AllRows[i].ts <= AllRows[j].ts
  BY DEF Rising
<1>1. /\ i \in Resolved /\ j \in Resolved /\ AllRows[i].ts = Row(i).ts /\ AllRows[j].ts = Row(j).ts
  BY AllRowsAre
<1>2. /\ Row(i).ts = recording[i].ts /\ Row(j).ts = recording[j].ts
      /\ i \in 1..Len(recording) /\ j \in 1..Len(recording)
  BY <1>1, RowIs
<1> QED
  BY <1>1, <1>2 DEF RecordingInv

\* A book that may only buy buys at least as often.
LEMMA LongsAreKept == RecordingInv => LongsKept
<1> SUFFICES ASSUME RecordingInv PROVE LongsKept
  OBVIOUS
<1>1. AllRows \in Seq(Rows) /\ Rising(AllRows)
  BY AllRowsAre, AllRowsRise
<1> DEFINE score == _score_symbol(TRUE, AllRows)
           grids == [phase \in Phases |-> _on_grid(AllRows, phase)]
<1>2. /\ score.net_lo = [phase \in Phases |-> Sequential(grids[phase], LongOnly, Plain)]
      /\ score.net = [phase \in Phases |-> simulate_trading(grids[phase])]
      /\ score.net_pq = simulate_trading(AllRows)
  BY DEF _score_symbol
<1> HIDE DEF score
<1>3. ASSUME NEW phase \in Phases
      PROVE  Len(score.net_lo[phase]) >= Len(Filter(score.net[phase], Longs))
  <2> DEFINE rows == _on_grid(AllRows, phase)
  <2>1. phase \in Int
    BY DEF Phases
  <2>2. rows \in Seq(Rows) /\ Rising(rows)
    BY <1>1, <2>1, GridRows
  <2>3. score.net_lo[phase] = Sequential(rows, LongOnly, Plain) /\ score.net[phase] = simulate_trading(rows)
    BY <1>2
  <2> HIDE DEF rows, grids
  <2>4. Len(Sequential(rows, LongOnly, Plain)) >= Len(Filter(Sequential(rows, simrule_decide, Plain), Longs))
    BY <2>2, LongsAhead
  <2> QED
    BY <2>3, <2>4 DEF simulate_trading
<1>4. Len(Sequential(AllRows, LongOnly, Plain)) >= Len(Filter(score.net_pq, Longs))
  BY <1>1, <1>2, LongsAhead DEF simulate_trading
<1> QED
  BY <1>3, <1>4 DEF LongsKept, Longs, score

\* The bounds of the quartiles.
LEMMA RoundedLaws ==
    ASSUME NEW n \in Nat
    PROVE  /\ Rounded(0) = 0 /\ Rounded(n) \in Nat /\ Rounded(4 * n) = n
           /\ \A m \in Nat : n <= m => Rounded(n) <= Rounded(m)
<1>1. Rounded(0) = 0 /\ Rounded(n) \in Nat
  BY DEF Rounded
<1>2. Rounded(4 * n) = n
  BY DEF Rounded
<1>3. ASSUME NEW m \in Nat, n <= m
      PROVE  Rounded(n) <= Rounded(m)
  BY <1>3 DEF Rounded
<1> QED
  BY <1>1, <1>2, <1>3

\* How many of the rows from lo up to hi are kept.
CountOf(rows, lo, hi, kept) == Len(Filter(SubSeq(rows, lo + 1, hi), kept))

\* What is kept of two adjacent segments adds up.
LEMMA CountsAdd ==
    ASSUME NEW rows \in Seq(Rows), NEW kept, NEW a \in Nat, NEW b \in Nat, NEW c \in Nat,
           a <= b, b <= c, c <= Len(rows)
    PROVE  /\ CountOf(rows, a, c, kept) = CountOf(rows, a, b, kept) + CountOf(rows, b, c, kept)
           /\ CountOf(rows, a, b, kept) \in Nat
<1> DEFINE left == SubSeq(rows, a + 1, b)
           right == SubSeq(rows, b + 1, c)
<1>1. Len(rows) \in Nat
  BY LenProperties
<1>2. /\ a + 1 \in 1..(Len(rows) + 1) /\ b \in ((a + 1) - 1)..Len(rows) /\ c \in b..Len(rows)
      /\ b + 1 \in 1..(Len(rows) + 1) /\ c \in ((b + 1) - 1)..Len(rows)
  BY <1>1
<1>3. SubSeq(rows, a + 1, c) = left \o right
  BY <1>2, ConcatAdjacentSubSeq
<1>4. left \in Seq(Rows) /\ right \in Seq(Rows)
  <2>1. \A i \in (a + 1)..b : rows[i] \in Rows
    BY <1>1, ElementOfSeq
  <2>2. \A i \in (b + 1)..c : rows[i] \in Rows
    BY <1>1, ElementOfSeq
  <2> QED
    BY <1>2, <2>1, <2>2, SubSeqProperties
<1> HIDE DEF left, right
<1>5. Filter(left \o right, kept) = Filter(left, kept) \o Filter(right, kept)
  BY <1>4, FilterConcat
<1>6. Filter(left, kept) \in Seq(Rows) /\ Filter(right, kept) \in Seq(Rows)
  BY <1>4, FilterType
<1>7. /\ Len(Filter(left, kept) \o Filter(right, kept)) = Len(Filter(left, kept)) + Len(Filter(right, kept))
      /\ Len(Filter(left, kept)) \in Nat
  BY <1>6, ConcatProperties, LenProperties
<1> QED
  BY <1>3, <1>5, <1>7 DEF CountOf, left, right

\* What is kept of the four quartiles is what is kept of all rows.
LEMMA QuartersAdd ==
    ASSUME NEW rows \in Seq(Rows), NEW kept
    PROVE  LET n == Len(rows)
           IN  CountOf(rows, Rounded(0), Rounded(n), kept) + CountOf(rows, Rounded(n), Rounded(2 * n), kept)
               + CountOf(rows, Rounded(2 * n), Rounded(3 * n), kept) + CountOf(rows, Rounded(3 * n), Rounded(4 * n), kept)
                 = CountOf(rows, 0, n, kept)
<1> DEFINE n == Len(rows)
           p == Rounded(n)
           q == Rounded(2 * n)
           r == Rounded(3 * n)
           count(lo, hi) == CountOf(rows, lo, hi, kept)
<1>1. n \in Nat
  BY LenProperties
<1>2. Rounded(0) = 0 /\ Rounded(4 * n) = n
  BY <1>1, RoundedLaws
<1>3. p \in Nat /\ q \in Nat /\ r \in Nat
  <2>1. n \in Nat /\ 2 * n \in Nat /\ 3 * n \in Nat
    BY <1>1
  <2> QED
    BY <2>1, RoundedLaws
<1>4. 0 <= p /\ p <= q /\ q <= r /\ r <= n
  <2>1. n \in Nat /\ 2 * n \in Nat /\ 3 * n \in Nat /\ 4 * n \in Nat /\ n <= 2 * n /\ 2 * n <= 3 * n /\ 3 * n <= 4 * n
    BY <1>1
  <2>2. Rounded(n) <= Rounded(2 * n) /\ Rounded(2 * n) <= Rounded(3 * n) /\ Rounded(3 * n) <= Rounded(4 * n)
    BY <2>1, RoundedLaws
  <2> QED
    BY <1>2, <1>3, <2>2
<1>5. ASSUME NEW a \in Nat, NEW b \in Nat, NEW c \in Nat, a <= b, b <= c, c <= n
      PROVE  count(a, c) = count(a, b) + count(b, c) /\ count(a, b) \in Nat
  BY <1>5, CountsAdd
<1> HIDE DEF p, q, r, n, count
<1>a. 0 \in Nat /\ p <= n /\ q <= n /\ n <= n
  BY <1>1, <1>3, <1>4
<1>6. count(0, n) = count(0, p) + count(p, n) /\ count(0, p) \in Nat
  BY <1>1, <1>3, <1>4, <1>5, <1>a
<1>7. count(p, n) = count(p, q) + count(q, n) /\ count(p, q) \in Nat
  BY <1>1, <1>3, <1>4, <1>5, <1>a
<1>8. count(q, n) = count(q, r) + count(r, n) /\ count(q, r) \in Nat
  BY <1>1, <1>3, <1>4, <1>5, <1>a
<1>9. count(r, n) \in Nat
  BY <1>1, <1>3, <1>4, <1>5, <1>a
<1>10. count(0, p) + count(p, q) + count(q, r) + count(r, n) = count(0, n)
  BY <1>6, <1>7, <1>8, <1>9
<1> QED
  BY <1>2, <1>10 DEF p, q, r, n, count

\* The rows that count, and the hits among them.
Deciding == {r \in Rows : r.prediction # 0 /\ r.realized # 0}
Right == {r \in Rows : r.realized # 0 /\ (r.prediction > 0) = (r.realized > 0)}
Hits == {r \in Rows : r \in Deciding /\ r \in Right}

\* The counts of a segment.
LEMMA SegmentCounts ==
    ASSUME NEW rows \in Seq(Rows), NEW lo \in Nat, NEW hi \in Nat, lo <= hi, hi <= Len(rows)
    PROVE  /\ segment(rows, lo, hi).n = CountOf(rows, lo, hi, Rows)
           /\ segment(rows, lo, hi).decided = CountOf(rows, lo, hi, Deciding)
           /\ segment(rows, lo, hi).dir_hits = CountOf(rows, lo, hi, Hits)
<1> DEFINE seg == SubSeq(rows, lo + 1, hi)
<1>1. Len(rows) \in Nat
  BY LenProperties
<1>2. seg \in Seq(Rows)
  <2>1. \A i \in (lo + 1)..hi : rows[i] \in Rows
    BY <1>1, ElementOfSeq
  <2> QED
    BY <1>1, <2>1, SubSeqProperties
<1>3. /\ segment(rows, lo, hi).n = Len(seg)
      /\ segment(rows, lo, hi).decided = Len(Filter(seg, Deciding))
      /\ segment(rows, lo, hi).dir_hits = Len(Filter(Filter(seg, Deciding), Right))
  BY DEF segment, Deciding, Right
<1> HIDE DEF seg
<1>4. Filter(Filter(seg, Deciding), Right) = Filter(seg, Hits)
  BY <1>2, FilterFilter DEF Hits
<1>5. Filter(seg, Rows) = seg
  <2>1. \A i \in 1..Len(seg) : seg[i] \in Rows
    BY <1>2, ElementOfSeq
  <2> QED
    BY <1>2, <2>1, FilterAll
<1> QED
  BY <1>3, <1>4, <1>5 DEF CountOf, seg

\* The two programs count the same, and the quartiles take every row once.
LEMMA AccuraciesDoAgree == RecordingInv => AccuraciesAgree
<1> SUFFICES ASSUME RecordingInv PROVE AccuraciesAgree
  OBVIOUS
<1> DEFINE rows == evaluate(TRUE)
           n == Len(rows)
           total == overall(rows)
           quarter == quartiles(rows)
<1>1. rows \in Seq(Rows)
  BY EvaluatedType
<1> HIDE DEF rows
<1>2. n \in Nat /\ 0 * n = 0 /\ 1 * n = n
  BY <1>1, LenProperties
<1>3. /\ total.n = CountOf(rows, 0, n, Rows) /\ total.decided = CountOf(rows, 0, n, Deciding)
      /\ total.dir_hits = CountOf(rows, 0, n, Hits)
  BY <1>1, <1>2, SegmentCounts DEF overall
<1>4. _acc(rows, SideOf) = [n |-> total.decided, hits |-> total.dir_hits]
  <2> DEFINE taken == {r \in Rows : SideOf[r] # 0 /\ r.realized # 0}
             same == {r \in Rows : SideOf[r] = SignOf(r.realized)}
  <2>1. _acc(rows, SideOf) = [n |-> Len(Filter(rows, taken)), hits |-> Len(Filter(Filter(rows, taken), same))]
    BY DEF _acc
  <2>2. ASSUME NEW r \in Rows
        PROVE  /\ r \in taken <=> r \in Deciding
               /\ r \in Deciding => (r \in same <=> r \in Right)
    <3>1. SideOf[r] = SignOf(r.prediction) /\ r.prediction \in Int /\ r.realized \in Int
      BY DEF SideOf, Rows
    <3> DEFINE p == r.prediction
               m == r.realized
    <3>2. r \in taken <=> SignOf(p) # 0 /\ m # 0
      BY <3>1
    <3>3. r \in same <=> SignOf(p) = SignOf(m)
      BY <3>1
    <3>4. r \in Deciding <=> p # 0 /\ m # 0
      BY DEF Deciding
    <3>5. r \in Right <=> m # 0 /\ ((p > 0) <=> (m > 0))
      BY DEF Right
    <3>6. p \in Int /\ m \in Int
      BY <3>1
    <3> HIDE DEF p, m, taken, same
    <3>7. SignOf(p) # 0 <=> p # 0
      BY <3>6 DEF SignOf
    <3>8. p # 0 /\ m # 0 => (SignOf(p) = SignOf(m) <=> ((p > 0) <=> (m > 0)))
      BY <3>6 DEF SignOf
    <3> QED
      BY <3>2, <3>3, <3>4, <3>5, <3>7, <3>8, Zenon
  <2>3. taken = Deciding
    BY <2>2 DEF Deciding
  <2>4. {r \in Rows : r \in Deciding /\ r \in same} = Hits
    <3> HIDE DEF same
    <3> QED
      BY <2>2 DEF Hits
  <2> HIDE DEF taken, same
  <2>5. Filter(Filter(rows, Deciding), same) = Filter(rows, {r \in Rows : r \in Deciding /\ r \in same})
    BY <1>1, FilterFilter
  <2>6. SubSeq(rows, 0 + 1, n) = rows
    <3>1. SubSeq(rows, 1, n) = rows
      BY <1>1, SubSeqFull
    <3> QED
      BY <3>1
  <2>7. total.decided = Len(Filter(rows, Deciding)) /\ total.dir_hits = Len(Filter(rows, Hits))
    BY <1>3, <2>6, Zenon DEF CountOf
  <2> HIDE DEF total, n
  <2> QED
    BY <2>1, <2>3, <2>4, <2>5, <2>7, Zenon
<1> DEFINE p == Rounded(n)
           q == Rounded(2 * n)
           r == Rounded(3 * n)
<1>5. /\ Rounded(0) = 0 /\ Rounded(4 * n) = n /\ p \in Nat /\ q \in Nat /\ r \in Nat
      /\ p <= q /\ q <= r /\ r <= n
  <2>1. n \in Nat /\ 2 * n \in Nat /\ 3 * n \in Nat /\ 4 * n \in Nat /\ n <= 2 * n /\ 2 * n <= 3 * n /\ 3 * n <= 4 * n
    BY <1>2
  <2>2. Rounded(n) <= Rounded(2 * n) /\ Rounded(2 * n) <= Rounded(3 * n) /\ Rounded(3 * n) <= Rounded(4 * n)
    BY <2>1, RoundedLaws
  <2>3. /\ Rounded(0) = 0 /\ Rounded(4 * n) = n
        /\ Rounded(n) \in Nat /\ Rounded(2 * n) \in Nat /\ Rounded(3 * n) \in Nat
    BY <2>1, RoundedLaws
  <2> QED
    BY <2>2, <2>3
<1>6. /\ quarter[1] = segment(rows, Rounded((1 - 1) * n), Rounded(1 * n))
      /\ quarter[2] = segment(rows, Rounded((2 - 1) * n), Rounded(2 * n))
      /\ quarter[3] = segment(rows, Rounded((3 - 1) * n), Rounded(3 * n))
      /\ quarter[4] = segment(rows, Rounded((4 - 1) * n), Rounded(4 * n))
  <2>1. 1 \in 1..4 /\ 2 \in 1..4 /\ 3 \in 1..4 /\ 4 \in 1..4
    OBVIOUS
  <2> QED
    BY <2>1, Zenon DEF quartiles
<1>7. /\ (1 - 1) * n = 0 /\ 1 * n = n /\ (2 - 1) * n = n /\ (3 - 1) * n = 2 * n /\ (4 - 1) * n = 3 * n
  BY <1>2
<1>8. /\ quarter[1] = segment(rows, 0, p) /\ quarter[2] = segment(rows, p, q)
      /\ quarter[3] = segment(rows, q, r) /\ quarter[4] = segment(rows, r, n)
  BY <1>5, <1>6, <1>7, Zenon
<1>9. /\ 0 <= p /\ p <= n /\ q <= n
  BY <1>2, <1>5
<1> HIDE DEF p, q, r, n, quarter, total
<1>10. ASSUME NEW kept
       PROVE  CountOf(rows, 0, p, kept) + CountOf(rows, p, q, kept) + CountOf(rows, q, r, kept)
              + CountOf(rows, r, n, kept) = CountOf(rows, 0, n, kept)
  <2>1. CountOf(rows, Rounded(0), p, kept) + CountOf(rows, p, q, kept) + CountOf(rows, q, r, kept)
        + CountOf(rows, r, Rounded(4 * n), kept) = CountOf(rows, 0, n, kept)
    BY <1>1, QuartersAdd DEF p, q, r, n
  <2> QED
    BY <1>5, <2>1, Zenon
<1>11. /\ quarter[1].n = CountOf(rows, 0, p, Rows) /\ quarter[1].dir_hits = CountOf(rows, 0, p, Hits)
       /\ quarter[2].n = CountOf(rows, p, q, Rows) /\ quarter[2].dir_hits = CountOf(rows, p, q, Hits)
       /\ quarter[3].n = CountOf(rows, q, r, Rows) /\ quarter[3].dir_hits = CountOf(rows, q, r, Hits)
       /\ quarter[4].n = CountOf(rows, r, n, Rows) /\ quarter[4].dir_hits = CountOf(rows, r, n, Hits)
  <2>1. n = Len(rows) /\ n <= n
    BY <1>2 DEF n
  <2> QED
    BY <1>1, <1>2, <1>5, <1>8, <1>9, <2>1, SegmentCounts
<1>12. quarter[1].n + quarter[2].n + quarter[3].n + quarter[4].n = total.n
  BY <1>3, <1>10, <1>11
<1>13. quarter[1].dir_hits + quarter[2].dir_hits + quarter[3].dir_hits + quarter[4].dir_hits = total.dir_hits
  BY <1>3, <1>10, <1>11
<1> QED
  BY <1>4, <1>12, <1>13, Zenon DEF AccuraciesAgree, rows, total, quarter

\* What the programs that judge a session say of it agrees where they say the
\* same, and is possible where they say how an order fills.
THEOREM ResearchIsSound == ResearchSpec => []ResearchSound
<1>1. RecordingInv => ResearchSound
  BY RowsDoAgree, SimulationsAgree, AccuraciesDoAgree, LongsAreKept, LateFillsPay,
     FillsAreLaterInAll, CrossesInTurn, EntriesAreSame DEF ResearchSound
<1> QED
  BY <1>1, TapeInit, TapeStep, PTL DEF ResearchSpec

-----------------------------------------------------------------------------
(* All of them. *)

\* A step of the jobs is a step of each of them, or leaves it as it is.
LEMMA JobsStep ==
    ASSUME [JobsNext]_jobVars
    PROVE  /\ [SessionsNext]_sessionVars /\ [ModelNext]_modelVars /\ [AlertNext]_alertVars
           /\ [WatchNext]_watchVars /\ [TrendNext]_trendVars /\ [FeaturesNext]_featureVars
           /\ [ResearchNext]_recording /\ [OnlineNext]_onlineVars /\ [HistoryNext]_historyVars
  BY DEF JobsNext, jobVars

\* The jobs, of which a behaviour picks one, behave as each of them promises
\* on its own: what is proved of one holds where they run together.
THEOREM JobsRunEach ==
    JobsSpec => /\ SessionsSpec /\ ModelSpec /\ AlertSpec /\ WatchSpec /\ TrendSpec
                /\ FeaturesSpec /\ ResearchSpec /\ OnlineSpec /\ HistorySpec
  <1>1. JobsInit => /\ SessionsInit /\ ModelInit /\ AlertInit /\ WatchInit /\ TrendInit
                    /\ FeaturesInit /\ ResearchInit /\ OnlineInit /\ HistoryInit
    BY DEF JobsInit
  <1> QED
    BY <1>1, JobsStep, PTL DEF JobsSpec, SessionsSpec, ModelSpec, AlertSpec, WatchSpec, TrendSpec,
       FeaturesSpec, ResearchSpec, OnlineSpec, HistorySpec

\* What the alerts say and what the dashboards chart is what was seen.
THEOREM ReportsAreTruthful == JobsSpec => []ReportsTruthful
  <1>1. AlertsTruthful /\ HistoryKept => ReportsTruthful
    BY DEF ReportsTruthful
  <1> QED
    BY JobsRunEach, AlertsAreTruthful, HistoryIsKept, <1>1, PTL

\* Learning survives every restart, and the figures it is judged by are those
\* of a full recomputation.
THEOREM LearningIsSound == JobsSpec => []LearningSound
  <1>1. LearningKept /\ FiguresHonest /\ PairsThinned => LearningSound
    BY DEF LearningSound
  <1> QED
    BY JobsRunEach, LearningSurvives, FiguresAreHonest, <1>1, PTL
=============================================================================
