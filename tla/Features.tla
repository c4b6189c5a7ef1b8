------------------------------ MODULE Features ------------------------------
(***************************************************************************)
(* The feature engines of a followed symbol and of its leader              *)
(* (features/engine.py), the online statistics they keep                   *)
(* (features/online_stats.py) and the crossfeed between them               *)
(* (features/cross.py).                                                    *)
(*                                                                         *)
(* A price is a number of ticks and a return the ticks between two mids.   *)
(* A moving average is named by the samples it took: it is a function of   *)
(* them.  A derived feature is named by what it is computed from.  Sizes,  *)
(* the time between quotes and the z-scores, which are the statistics of   *)
(* Welford again, are left out.                                            *)
(***************************************************************************)
EXTENDS Loops

CONSTANTS
    Mids,           \* mids of quotes and prices of trades, in ticks
    Lag,            \* the largest of lag_returns
    warmup_quotes,  \* valid quotes before the first vector
    vol_window,     \* window of the rolling variance, at least 2
    Unit,           \* a common multiple of 1..vol_window
    staleness,      \* staleness_ns
    Steps,          \* how far exchange time moves between two quotes
    MaxInputs       \* bound: events

ASSUME FeaturesAssumption ==
    /\ Mids \subseteq Nat \ {0} /\ Lag \in Nat \ {0} /\ warmup_quotes \in Nat
    /\ vol_window \in Nat /\ vol_window >= 2
    /\ Unit \in Nat \ {0} /\ \A n \in 1..vol_window : Unit % n = 0
    /\ staleness \in Nat /\ Steps \subseteq Nat /\ MaxInputs \in Nat

VARIABLES
    engine,  \* the FeatureEngine of "leader" and of "follower"
    cross,   \* CrossFeed: the state the leader published last
    vector,  \* what the follower's pipeline got of the last event
    tape     \* observer: the events so far

featureVars == <<engine, cross, vector, tape>>

NoVector == [none |-> TRUE]
NoLeader == [ts |-> 0, mid |-> 0, r1 |-> 0, uptick |-> <<>>]
-----------------------------------------------------------------------------
(* Welford, with a window: add and remove are O(1).  The mean is kept in   *)
(* units of 1/Unit and m2 of 1/Unit^2, in which both are whole.            *)

NoWelford == [q |-> <<>>, n |-> 0, mean |-> 0, m2 |-> 0]

_add(w, x) ==
    LET delta == Unit * x - w.mean
        mean == w.mean + delta \div (w.n + 1)
    IN  [w EXCEPT !.n = @ + 1, !.mean = mean, !.m2 = @ + delta * (Unit * x - mean)]

\* Fault: the deviation is taken twice from the new mean.
RemoveTwice(w, x) ==
    LET mean == (w.n * w.mean - Unit * x) \div (w.n - 1)
    IN  [w EXCEPT !.n = @ - 1, !.mean = mean, !.m2 = @ - (Unit * x - mean) * (Unit * x - mean)]

\* Here n is the window, which is 2 or more.
_remove(w, x) ==
    LET mean == (w.n * w.mean - Unit * x) \div (w.n - 1)
    IN  [w EXCEPT !.n = @ - 1, !.mean = mean, !.m2 = @ - (Unit * x - w.mean) * (Unit * x - mean)]

Welford(w, x) ==
    LET old == IF w.n = vol_window THEN [_remove(w, Head(w.q)) EXCEPT !.q = Tail(@)] ELSE w
    IN  [_add(old, x) EXCEPT !.q = Append(@, x)]
-----------------------------------------------------------------------------
(* FeatureEngine.update.                                                   *)

NewEngine ==
    [mids |-> <<>>, seen |-> 0, vol |-> NoWelford, flow |-> <<>>, uptick |-> <<>>, ema |-> <<>>]

Latest(mids) == mids[Len(mids)]
Sign(x) == IF x > 0 THEN 1 ELSE IF x < 0 THEN -1 ELSE 0

\* A trade without a side takes that of the mid it is on; a trade before the
\* first quote, or at the mid, says nothing.
OnTrade(e, price) ==
    IF e.mids = <<>> THEN e
    ELSE [e EXCEPT !.flow = IF price = Latest(e.mids) THEN @ ELSE Append(@, Sign(price - Latest(e.mids)))]

\* The ring of the mids holds Lag + 1.
Pushed(mids, mid) == LastN(Append(mids, mid), Lag + 1)

OnQuote(e, mid) ==
    LET r1 == mid - Latest(e.mids)
        moved == IF e.mids = <<>> THEN e
                 ELSE [e EXCEPT !.vol = Welford(@, r1),
                                !.uptick = IF r1 = 0 THEN @ ELSE Append(@, Sign(r1))]
    IN  [moved EXCEPT !.mids = Pushed(@, mid), !.seen = @ + 1, !.ema = Append(@, mid)]

\* CrossFeed.update, from the leader's second valid quote on.
Publish(e, ts, mid) ==
    [ts |-> ts, mid |-> mid, r1 |-> mid - e.mids[Len(e.mids) - 1], uptick |-> e.uptick]

\* Fault: a reading is good for ever.
NeverStale(state, now) == state # NoLeader

\* CrossFeed.leader_state.
NotStale(state, now) == state # NoLeader /\ now - state.ts <= staleness

Warm(e) == Len(e.mids) > Lag /\ e.seen >= warmup_quotes

Names == {"ret", "ema_spread", "vol", "ret1_over_vol", "spread_bps", "flow", "uptick",
          "flow_x_imbalance", "leader_r1", "leader_uptick", "leader_gap_bps"}

\* Fault: the names of the base features alone.
MicroBaseOnly == {"spread_bps", "flow", "uptick"}

\* The features of the books and the tape, and what is derived of them.
MICRO_FEATURES == {"spread_bps", "flow", "uptick", "flow_x_imbalance"}

Features(e, state, ts) ==
    LET mid == Latest(e.mids)
        led == IF NotStale(state, ts) THEN state ELSE [NoLeader EXCEPT !.mid = mid]
    IN  [name \in Names |->
           CASE name = "ret" -> mid - e.mids[1]
             [] name = "ema_spread" -> e.ema
             [] name = "vol" -> <<e.vol.n, e.vol.m2>>
             [] name = "ret1_over_vol" -> <<mid - e.mids[Len(e.mids) - 1], e.vol.n, e.vol.m2>>
             [] name = "spread_bps" -> "spread"
             [] name = "flow" -> e.flow
             [] name = "uptick" -> e.uptick
             [] name = "flow_x_imbalance" -> <<"imbalance", e.flow>>
             [] name = "leader_r1" -> led.r1
             [] name = "leader_uptick" -> led.uptick
             [] OTHER -> led.mid - mid]

\* With the micro family excluded, as the equities sessions run; the crypto
\* pipeline excludes nothing, and its vector is the whole of Features.
Kept(features) == [name \in Names \ MICRO_FEATURES |-> features[name]]

Blank == [engine |-> [who \in {"leader", "follower"} |-> NewEngine], cross |-> NoLeader]

\* A quote without a positive mid or a crossed one changes nothing.
Update(at, event) ==
    LET who == event.who
        e == IF event.kind = "trade" THEN OnTrade(at.engine[who], event.mid)
             ELSE IF event.kind = "quote" THEN OnQuote(at.engine[who], event.mid)
             ELSE at.engine[who]
        quoted == event.kind = "quote"
    IN  [engine |-> [at.engine EXCEPT ![who] = e],
         cross |-> IF quoted /\ who = "leader" /\ e.seen > 1 THEN Publish(e, event.ts, event.mid) ELSE at.cross]

\* What the follower's pipeline gets; its own events publish nothing.
VectorOf(at, event) ==
    IF event.who = "follower" /\ event.kind = "quote" /\ Warm(at.engine["follower"])
    THEN Kept(Features(at.engine["follower"], at.cross, event.ts)) ELSE NoVector

FeaturesInit ==
    /\ engine = Blank.engine /\ cross = Blank.cross /\ vector = NoVector /\ tape = <<>>

Now == IF tape = <<>> THEN 1 ELSE tape[Len(tape)].ts

Event(who, kind, mid, ts) == [who |-> who, kind |-> kind, mid |-> mid, ts |-> ts]

Observe(event) ==
    LET after == Update([engine |-> engine, cross |-> cross], event)
    IN  /\ Len(tape) < MaxInputs
        /\ engine' = after.engine /\ cross' = after.cross /\ vector' = VectorOf(after, event)
        /\ tape' = Append(tape, event)

FeaturesNext ==
    \/ \E who \in {"leader", "follower"}, mid \in Mids, step \in Steps :
         Observe(Event(who, "quote", mid, Now + step))
    \/ Observe(Event("follower", "crossed", 0, Now))
    \/ \E price \in Mids : Observe(Event("follower", "trade", price, Now))

FeaturesSpec == FeaturesInit /\ [][FeaturesNext]_featureVars
-----------------------------------------------------------------------------
(* Properties.                                                             *)

Inputs == [who : {"leader", "follower"}, kind : {"quote", "crossed", "trade"}, mid : Nat, ts : Nat]
Statistics == [q : Seq(Int), n : Nat, mean : Int, m2 : Int]
\* The engines that count what they keep.
Engines ==
    {e \in [mids : Seq(Nat), seen : Nat, vol : Statistics, flow : Seq(Int), uptick : Seq(Int), ema : Seq(Nat)] :
       e.vol.n = Len(e.vol.q) /\ (e.seen > 0 => e.mids # <<>>)}
Feeds ==
    [engine : [{"leader", "follower"} -> Engines],
     cross : [ts : Nat, mid : Nat, r1 : Int, uptick : Seq(Int)]]

Quoted(who) == {event \in Inputs : event.who = who /\ event.kind = "quote"}
Untraded == {event \in Inputs : event.kind # "trade"}

QuotesOf(who) == Filter(tape, Quoted(who))
ReturnsOf(quotes) == [i \in 1..(Len(quotes) - 1) |-> quotes[i + 1].mid - quotes[i].mid]
Total(s) == SumOver([x \in Int |-> x], s)
Squares(s) == SumOver([x \in Int |-> x * x], s)

\* The rolling statistics are those of a full recomputation over the window
\* (online_stats.py:3): the mean, and the sum of the squared deviations, which
\* n times is n times the squares less the square of the total.
StatsExact ==
    \A who \in DOMAIN engine :
        LET w == engine[who].vol
            window == LastN(ReturnsOf(QuotesOf(who)), vol_window)
            n == Len(window)
        IN  /\ w.n = n
            /\ n > 0 =>
                 /\ w.mean * n = Unit * Total(window)
                 /\ w.m2 * n = Unit * Unit * (n * Squares(window) - Total(window) * Total(window))

\* What a vector says of the leader is the leader's last move, made no longer
\* ago than the staleness allows, or nothing (cross.py:13).
LeaderFresh ==
    vector # NoVector =>
        LET led == QuotesOf("leader")
            k == Len(led)
            known == k > 1 /\ Now - led[k].ts <= staleness
        IN  /\ vector["leader_r1"] = (IF known THEN led[k].mid - led[k - 1].mid ELSE 0)
            /\ vector["leader_gap_bps"] = (IF known THEN led[k].mid - Latest(engine["follower"].mids) ELSE 0)

\* "A no-micro model is invariant to the trades feed" (engine.py:29): each
\* vector is the one of the same session with its trades stripped.
TradesIgnored ==
    LET step == [at \in Feeds |-> [event \in Inputs |-> Update(at, event)]]
        stripped == Filter(tape, Untraded)
    IN  vector # NoVector => vector = VectorOf(Through(step, Blank, stripped), tape[Len(tape)])

FeaturesExact == StatsExact /\ LeaderFresh /\ TradesIgnored
=============================================================================
