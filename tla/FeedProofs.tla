----------------------------- MODULE FeedProofs -----------------------------
(***************************************************************************)
(* The delays of the reconnections follow the failures, the queue keeps    *)
(* every source's events in order, and the ring buffers hold the tail of   *)
(* each symbol's ticks: for any sources and products, any depth, queue and *)
(* cap, through every interleaving of connections, frames, puts that wait  *)
(* and the recorder that closes them.                                      *)
(***************************************************************************)
EXTENDS Feed, DataLemmas

Delays == {0} \cup {Smaller(BackoffCap, 2^k) : k \in Nat}

BackoffTypeOK ==
    /\ phase \in [Sources -> Phases]
    /\ attempt \in [Sources -> Nat] /\ fails \in [Sources -> Nat]
    /\ delay \in [Sources -> Delays]

\* The exponent is the number of failures in a row, and grows no further than
\* to the first that has no float.
AttemptCounts == \A s \in Sources : attempt[s] = fails[s] /\ attempt[s] <= MaxExponent + 1

BackoffInv == BackoffTypeOK /\ AttemptCounts /\ BackoffFollowsFailures

LEMMA BackoffInit == Init => BackoffInv
  <1> SUFFICES ASSUME Init PROVE BackoffInv
    OBVIOUS
  <1>1. BackoffTypeOK
    BY DEF Init, BackoffTypeOK, Phases, Down, Delays
  <1>2. AttemptCounts
    BY FeedAssumption DEF Init, AttemptCounts
  <1>3. BackoffFollowsFailures
    BY DEF Init, BackoffFollowsFailures
  <1> QED BY <1>1, <1>2, <1>3 DEF BackoffInv

\* A step that leaves the backoff alone brings no source to sleep.
LEMMA NoNewSleeper ==
    ASSUME BackoffInv, UNCHANGED <<attempt, delay, fails>>,
           phase' \in [Sources -> Phases],
           \A s \in Sources : phase'[s] = phase[s] \/ phase'[s] \notin {"sleep", "overflow"}
    PROVE  BackoffInv'
  <1>1. BackoffTypeOK' /\ AttemptCounts'
    BY DEF BackoffInv, BackoffTypeOK, AttemptCounts
  <1>2. BackoffFollowsFailures'
    BY DEF BackoffInv, BackoffFollowsFailures
  <1> QED BY <1>1, <1>2 DEF BackoffInv

LEMMA LoopHeadWakes ==
    ASSUME BackoffInv, NEW s \in Sources, LoopHead(s)
    PROVE  /\ phase' \in [Sources -> Phases]
           /\ \A t \in Sources : phase'[t] = phase[t] \/ phase'[t] \notin {"sleep", "overflow"}
           /\ \A t \in Sources : phase'[t] \in {"sleep", "overflow"} => t # s
  BY DEF BackoffInv, BackoffTypeOK, LoopHead, Phases, Down, Gone

LEMMA ConnectionLostInv ==
    ASSUME BackoffInv, NEW s \in Sources, ConnectionLost(s)
    PROVE  BackoffInv'
  <1>1. CASE closed[s]
    <2>1. phase' = [phase EXCEPT ![s] = "ended"] /\ UNCHANGED <<attempt, delay, fails>>
      BY <1>1 DEF ConnectionLost
    <2>2. /\ phase' \in [Sources -> Phases]
          /\ \A t \in Sources : phase'[t] = phase[t] \/ phase'[t] \notin {"sleep", "overflow"}
      BY <2>1 DEF BackoffInv, BackoffTypeOK, Phases, Gone
    <2> QED BY <2>1, <2>2, NoNewSleeper
  <1>2. CASE ~closed[s] /\ Overflows(attempt[s])
    <2>1. phase' = [phase EXCEPT ![s] = "overflow"] /\ UNCHANGED <<attempt, delay, fails>>
      BY <1>2 DEF ConnectionLost
    <2>2. BackoffTypeOK' /\ AttemptCounts'
      BY <2>1 DEF BackoffInv, BackoffTypeOK, AttemptCounts, Phases, Gone
    <2>3. fails[s] = MaxExponent + 1
      BY <1>2, FeedAssumption DEF BackoffInv, BackoffTypeOK, AttemptCounts, Overflows
    <2>4. BackoffFollowsFailures'
      BY <2>1, <2>3 DEF BackoffInv, BackoffTypeOK, BackoffFollowsFailures
    <2> QED BY <2>2, <2>4 DEF BackoffInv
  <1>3. CASE ~closed[s] /\ ~Overflows(attempt[s])
    <2>1. /\ phase' = [phase EXCEPT ![s] = "sleep"]
          /\ delay' = [delay EXCEPT ![s] = NextDelay(attempt[s])]
          /\ attempt' = [attempt EXCEPT ![s] = attempt[s] + 1]
          /\ fails' = [fails EXCEPT ![s] = fails[s] + 1]
      BY <1>3 DEF ConnectionLost
    <2>2. NextDelay(attempt[s]) \in Delays
      BY DEF BackoffInv, BackoffTypeOK, NextDelay, Delays
    <2>3. BackoffTypeOK'
      BY <2>1, <2>2 DEF BackoffInv, BackoffTypeOK, Phases, Down
    <2>4. attempt[s] + 1 <= MaxExponent + 1
      BY <1>3, FeedAssumption DEF BackoffInv, BackoffTypeOK, Overflows
    <2>5. AttemptCounts'
      BY <2>1, <2>4 DEF BackoffInv, BackoffTypeOK, AttemptCounts
    <2>6. fails'[s] > 0 /\ delay'[s] = Smaller(BackoffCap, 2^(fails'[s] - 1))
      <3>1. fails'[s] = fails[s] + 1 /\ fails[s] \in Nat /\ delay'[s] = NextDelay(fails[s])
        BY <2>1 DEF BackoffInv, BackoffTypeOK, AttemptCounts
      <3>2. fails'[s] - 1 = fails[s] /\ fails'[s] > 0
        BY <3>1
      <3> QED BY <3>1, <3>2 DEF NextDelay
    <2>7. BackoffFollowsFailures'
      BY <2>1, <2>6 DEF BackoffInv, BackoffTypeOK, BackoffFollowsFailures
    <2> QED BY <2>3, <2>5, <2>7 DEF BackoffInv
  <1> QED BY <1>1, <1>2, <1>3

LEMMA ConnectionInv ==
    ASSUME BackoffInv, NEW s \in Sources, Connection(s)
    PROVE  BackoffInv'
  <1>1. CASE Opened(s)
    <2>1. /\ phase' \in [Sources -> Phases]
          /\ \A t \in Sources : phase'[t] = phase[t] \/ phase'[t] \notin {"sleep", "overflow"}
      BY <1>1 DEF Opened, BackoffInv, BackoffTypeOK, Phases, Down
    <2> QED BY <1>1, <2>1, NoNewSleeper DEF Opened
  <1>2. CASE HandshakeDone(s)
    <2>1. /\ phase' = [phase EXCEPT ![s] = "up"] /\ attempt' = [attempt EXCEPT ![s] = 0]
          /\ fails' = [fails EXCEPT ![s] = 0] /\ delay' = delay
      BY <1>2 DEF HandshakeDone
    <2>2. BackoffTypeOK'
      BY <2>1 DEF BackoffInv, BackoffTypeOK, Phases
    <2>3. AttemptCounts'
      BY <2>1, FeedAssumption DEF BackoffInv, BackoffTypeOK, AttemptCounts
    <2>4. BackoffFollowsFailures'
      BY <2>1 DEF BackoffInv, BackoffTypeOK, BackoffFollowsFailures
    <2> QED BY <2>2, <2>3, <2>4 DEF BackoffInv
  <1>3. CASE ConnectionLost(s)
    BY <1>3, ConnectionLostInv
  <1>4. CASE Wake(s)
    <2>1. /\ LoopHead(s) /\ delay' = [delay EXCEPT ![s] = 0] /\ attempt' = attempt /\ fails' = fails
      BY <1>4 DEF Wake
    <2>2. BackoffTypeOK' /\ AttemptCounts'
      BY <2>1, LoopHeadWakes DEF BackoffInv, BackoffTypeOK, AttemptCounts, Delays
    <2>3. BackoffFollowsFailures'
      BY <2>1, LoopHeadWakes DEF BackoffInv, BackoffTypeOK, BackoffFollowsFailures
    <2> QED BY <2>2, <2>3 DEF BackoffInv
  <1> QED BY <1>1, <1>2, <1>3, <1>4 DEF Connection

\* The frames, the errors that end a stream, and the puts that wait.
LEMMA StreamInv ==
    ASSUME BackoffInv, NEW s \in Sources,
           \/ Handle(s) \/ PutResumes(s) \/ AuthRefused(s) \/ HandshakeGarbled(s)
           \/ PeerEnds(s) \/ \E a, b \in Answers : Receive(s, a, b)
    PROVE  BackoffInv'
  <1>1. UNCHANGED <<attempt, delay, fails>>
    BY DEF Handle, ParseNext, FrameDone, Ingest, PutResumes, AuthRefused, HandshakeGarbled, PeerEnds, Receive
  <1>2. \/ phase' = phase \/ LoopHead(s)
        \/ \E p \in {"malformed", "up", "put", "frame", "unauthorized"} : phase' = [phase EXCEPT ![s] = p]
    BY DEF Handle, ParseNext, FrameDone, Ingest, PutResumes, AuthRefused, HandshakeGarbled, PeerEnds, Receive
  <1>3. /\ phase' \in [Sources -> Phases]
        /\ \A t \in Sources : phase'[t] = phase[t] \/ phase'[t] \notin {"sleep", "overflow"}
    <2>1. CASE phase' = phase \/ LoopHead(s)
      BY <2>1, LoopHeadWakes DEF BackoffInv, BackoffTypeOK
    <2>2. CASE \E p \in {"malformed", "up", "put", "frame", "unauthorized"} : phase' = [phase EXCEPT ![s] = p]
      BY <2>2 DEF BackoffInv, BackoffTypeOK, Phases, Gone
    <2> QED BY <1>2, <2>1, <2>2
  <1> QED BY <1>1, <1>3, NoNewSleeper

LEMMA OwnerInv ==
    ASSUME BackoffInv, Take \/ StopRecording \/ (\E s \in Sources : Close(s)) \/ UNCHANGED vars
    PROVE  BackoffInv'
  <1>1. UNCHANGED <<attempt, delay, fails>>
    BY DEF Take, StopRecording, Close, vars, link
  <1>2. \/ phase' = phase
        \/ phase' = [s \in Sources |-> IF phase[s] \in Gone THEN phase[s] ELSE "cancelled"]
    BY DEF Take, StopRecording, Close, vars, link
  <1>3. /\ phase' \in [Sources -> Phases]
        /\ \A t \in Sources : phase'[t] = phase[t] \/ phase'[t] \notin {"sleep", "overflow"}
    BY <1>2 DEF BackoffInv, BackoffTypeOK, Phases, Gone
  <1> QED BY <1>1, <1>3, NoNewSleeper

LEMMA BackoffStep == BackoffInv /\ [Next]_vars => BackoffInv'
  <1> SUFFICES ASSUME BackoffInv, [Next]_vars PROVE BackoffInv'
    OBVIOUS
  <1> QED BY ConnectionInv, StreamInv, OwnerInv DEF Next

\* Whatever the venues do, a source sleeps after its k-th failure in a row
\* the capped power that belongs to k, and its backoff ends the stream only
\* after as many failures in a row as there are exponents (backoff.py:28).
THEOREM DelaysFollowFailures == Spec => []BackoffFollowsFailures
  <1>2. BackoffInv => BackoffFollowsFailures
    BY DEF BackoffInv
  <1> QED BY BackoffInit, BackoffStep, <1>2, PTL DEF Spec
-----------------------------------------------------------------------------
(* The ring buffers.                                                       *)

\* The cell of the j-th latest value, counted back from the head, and the
\* head after a push.
Back(h, j) == IF j <= h THEN h - j ELSE Depth + h - j
After(h) == IF h + 1 < Depth THEN h + 1 ELSE 0

At(r, j) == r.buf[Back(r.head, j)]

RingHolds(r, ticks) ==
    /\ r.head \in 0..(Depth - 1) /\ r.count = Smaller(Len(ticks), Depth)
    /\ \A j \in 1..r.count : At(r, j) = ticks[Len(ticks) - j + 1].n

Ring == [buf : [0..(Depth - 1) -> Nat], head : 0..(Depth - 1), count : 0..Depth]

\* The two remainders a ring takes.
LEMMA Remainder ==
    ASSUME NEW x \in 0..(2 * Depth - 1)
    PROVE  x % Depth = IF x < Depth THEN x ELSE x - Depth
<1>1. Depth \in Nat \ {0}
  BY FeedAssumption
<1>2. CASE x < Depth
  BY <1>1, <1>2
<1>3. CASE x >= Depth
  BY <1>1, <1>3
<1> QED
  BY <1>1, <1>2, <1>3

\* The head after a push, and where the values before it are.
LEMMA HeadMoves ==
    ASSUME NEW h \in 0..(Depth - 1)
    PROVE  (h + 1) % Depth = After(h) /\ After(h) \in 0..(Depth - 1)
<1>1. Depth \in Nat \ {0} /\ h + 1 \in 0..(2 * Depth - 1)
  BY FeedAssumption
<1>2. (h + 1) % Depth = IF h + 1 < Depth THEN h + 1 ELSE h + 1 - Depth
  BY <1>1, Remainder
<1> QED
  BY <1>1, <1>2 DEF After

LEMMA PositionMoves ==
    ASSUME NEW h \in 0..(Depth - 1), NEW j \in 1..Depth
    PROVE  IF j = 1 THEN Back(After(h), j) = h
           ELSE /\ Back(After(h), j) = Back(h, j - 1)
                /\ Back(h, j - 1) \in 0..(Depth - 1) /\ Back(h, j - 1) # h
<1>1. Depth \in Nat \ {0}
  BY FeedAssumption
<1> QED
  BY <1>1 DEF Back, After

\* The first of the last n values.
LEMMA StartOfLast ==
    ASSUME NEW h \in 0..(Depth - 1), NEW n \in 1..Depth
    PROVE  (h + Depth - n) % Depth = IF h >= n THEN h - n ELSE h + Depth - n
<1>1. Depth \in Nat \ {0} /\ h + Depth - n \in 0..(2 * Depth - 1)
  BY FeedAssumption
<1>2. (h + Depth - n) % Depth =
        IF h + Depth - n < Depth THEN h + Depth - n ELSE h + Depth - n - Depth
  BY <1>1, Remainder
<1> QED
  BY <1>1, <1>2

LEMMA EmptyRingHolds == R!EmptyRing \in Ring /\ RingHolds(R!EmptyRing, <<>>)
  BY FeedAssumption DEF R!EmptyRing, Ring, RingHolds, Smaller

LEMMA PushHolds ==
    ASSUME NEW r \in Ring, NEW ticks \in Seq(Events), NEW e \in Events, RingHolds(r, ticks)
    PROVE  R!Push(r, e.n) \in Ring /\ RingHolds(R!Push(r, e.n), Append(ticks, e))
<1> DEFINE x == R!Push(r, e.n)
<1>0. Depth \in Nat \ {0} /\ e.n \in Nat /\ r.buf \in [0..(Depth - 1) -> Nat]
  BY FeedAssumption DEF Ring, Events
<1>1. PICK h \in 0..(Depth - 1) : h = r.head
  BY DEF Ring
<1>2. PICK c \in 0..Depth : c = r.count
  BY DEF Ring
<1>3. PICK len \in Nat : len = Len(ticks)
  BY LenProperties
<1>4. /\ c = Smaller(len, Depth)
      /\ \A j \in 1..c : r.buf[Back(h, j)] = ticks[len - j + 1].n
  BY <1>1, <1>2, <1>3 DEF RingHolds, At
<1>14. PICK g \in 0..(Depth - 1) : g = After(h)
  BY <1>1, HeadMoves
<1>15. PICK d \in 0..Depth : d = IF c < Depth THEN c + 1 ELSE c
  BY <1>0, <1>2
<1>16. PICK buf \in [0..(Depth - 1) -> Nat] : buf = [r.buf EXCEPT ![h] = e.n]
  BY <1>0, <1>1
<1>8. x = [buf |-> buf, head |-> g, count |-> d]
  BY <1>1, <1>2, <1>14, <1>15, <1>16, HeadMoves DEF R!Push
<1> HIDE DEF x
<1>5. g \in 0..(Depth - 1) /\ g = x.head
  BY <1>8, <1>14
<1>6. d \in 0..Depth /\ d = x.count
  BY <1>8, <1>15
<1>7. buf \in [0..(Depth - 1) -> Nat] /\ buf = x.buf
  BY <1>8, <1>16
<1>9. x \in Ring
  BY <1>5, <1>6, <1>7, <1>8 DEF Ring
<1>10. /\ Len(Append(ticks, e)) = len + 1 /\ Append(ticks, e)[len + 1] = e
       /\ \A i \in 1..len : Append(ticks, e)[i] = ticks[i]
  BY <1>3, AppendProperties
<1>17. c = IF len < Depth THEN len ELSE Depth
  BY <1>4 DEF Smaller
<1>11. d = Smaller(len + 1, Depth)
  BY <1>0, <1>2, <1>3, <1>4, <1>15 DEF Smaller
<1>12. ASSUME NEW j \in 1..d
       PROVE  buf[Back(g, j)] = Append(ticks, e)[len + 1 - j + 1].n
  <2>0. j \in 1..Depth
    BY <1>0, <1>15
  <2>1. CASE j = 1
    <3>1. Back(g, j) = h
      BY <1>1, <1>14, <2>0, <2>1, PositionMoves
    <3>2. buf[h] = e.n
      BY <1>0, <1>1, <1>16
    <3>3. len + 1 - j + 1 = len + 1
      BY <1>3, <2>1
    <3> QED
      BY <1>10, <3>1, <3>2, <3>3
  <2>2. CASE j # 1
    <3>1. /\ j - 1 \in 1..c /\ len + 1 - j + 1 = len - (j - 1) + 1
          /\ len - (j - 1) + 1 \in 1..len
      BY <1>0, <1>2, <1>3, <1>15, <1>17, <2>2
    <3>2. Back(g, j) = Back(h, j - 1) /\ Back(h, j - 1) \in 0..(Depth - 1) /\ Back(h, j - 1) # h
      BY <1>1, <1>14, <2>0, <2>2, PositionMoves
    <3>3. buf[Back(h, j - 1)] = r.buf[Back(h, j - 1)]
      BY <1>0, <1>1, <1>16, <3>2
    <3>4. r.buf[Back(h, j - 1)] = ticks[len - (j - 1) + 1].n
      BY <1>4, <3>1
    <3> QED
      BY <1>10, <3>1, <3>2, <3>3, <3>4
  <2> QED
    BY <2>1, <2>2
<1>13. RingHolds(x, Append(ticks, e))
  <2>1. RingHolds([buf |-> buf, head |-> g, count |-> d], Append(ticks, e))
    <3> DEFINE longer == Append(ticks, e)
    <3>1. /\ Len(longer) = len + 1
          /\ \A j \in 1..d : buf[Back(g, j)] = longer[len + 1 - j + 1].n
      BY <1>10, <1>12
    <3> HIDE DEF longer
    <3>2. /\ d = Smaller(Len(longer), Depth)
          /\ \A j \in 1..d : buf[Back(g, j)] = longer[Len(longer) - j + 1].n
      BY <1>11, <3>1
    <3>3. RingHolds([buf |-> buf, head |-> g, count |-> d], longer)
      BY <1>5, <3>2, Zenon DEF RingHolds, At
    <3> QED
      BY <3>3 DEF longer
  <2> QED
    BY <1>8, <2>1
<1> QED
  BY <1>9, <1>13 DEF x

\* last(n) and latest() read the ring back in the order it was written.
LEMMA LastHolds ==
    ASSUME NEW r \in Ring, NEW ticks \in Seq(Events), RingHolds(r, ticks)
    PROVE  /\ \A n \in 0..r.count : R!LastValues(r, n) = [k \in 1..n |-> ticks[Len(ticks) - n + k].n]
           /\ r.count > 0 => R!Latest(r) = Last(ticks).n
<1>0. PICK h \in 0..(Depth - 1) : h = r.head
  BY DEF Ring
<1>5. PICK len \in Nat : len = Len(ticks)
  BY LenProperties
<1>6. PICK c \in 0..Depth : c = r.count
  BY DEF Ring
<1>1. /\ Depth \in Nat \ {0} /\ len \in Nat /\ h \in 0..(Depth - 1) /\ c \in 0..Depth
      /\ c <= len
      /\ \A j \in 1..c : r.buf[Back(h, j)] = ticks[len - j + 1].n
  <2>1. Depth \in Nat \ {0}
    BY FeedAssumption
  <2>2. c = Smaller(len, Depth)
    BY <1>5, <1>6 DEF RingHolds
  <2>3. c <= len
    BY <1>5, <1>6, <2>1, <2>2 DEF Smaller
  <2> QED
    BY <1>0, <1>5, <1>6, <2>1, <2>3 DEF RingHolds, At
<1>2. ASSUME NEW n \in 1..c
      PROVE  R!LastValues(r, n) = [k \in 1..n |-> ticks[len - n + k].n]
  <2> DEFINE start == (h + Depth - n) % Depth
             back(k) == Back(h, n - k + 1)
  <2>1. start = IF h >= n THEN h - n ELSE h + Depth - n
    <3>1. n \in 1..Depth
      BY <1>1
    <3> QED
      BY <1>1, <3>1, StartOfLast
  <2>2. ASSUME NEW k \in 1..n
        PROVE  r.buf[back(k)] = ticks[len - n + k].n
    <3>1. n - k + 1 \in 1..c /\ len - (n - k + 1) + 1 = len - n + k
      BY <1>1
    <3> QED
      BY <1>1, <3>1
  <2> DEFINE goal == [k \in 1..n |-> ticks[len - n + k].n]
  <2>3. R!LastValues(r, n) = IF start < h THEN R!Slice(r.buf, start, h)
                             ELSE R!Slice(r.buf, start, Depth) \o R!Slice(r.buf, 0, h)
    BY <1>0, <1>1 DEF R!LastValues
  <2> HIDE DEF start
  <2>4. CASE start < h
    <3>1. h >= n /\ start = h - n
      BY <1>1, <2>1, <2>4
    <3>2. R!Slice(r.buf, start, h) = [k \in 1..n |-> r.buf[start + k - 1]]
      <4>1. h - start = n
        BY <1>1, <3>1
      <4> QED
        BY <4>1 DEF R!Slice
    <3>3. \A k \in 1..n : start + k - 1 = back(k)
      BY <1>1, <3>1 DEF Back
    <3> HIDE DEF back
    <3>4. \A k \in 1..n : r.buf[start + k - 1] = ticks[len - n + k].n
      BY <2>2, <3>3
    <3> QED
      BY <2>3, <2>4, <3>2, <3>4
  <2>5. CASE ~(start < h)
    <3>1. h <= n /\ start = (IF h = n THEN 0 ELSE h + Depth - n) /\ (h = n => FALSE)
      BY <1>1, <2>1, <2>5
    <3> DEFINE a == R!Slice(r.buf, start, Depth)
               b == R!Slice(r.buf, 0, h)
    <3>2. /\ a = [k \in 1..(n - h) |-> r.buf[start + k - 1]]
          /\ b = [k \in 1..h |-> r.buf[0 + k - 1]]
          /\ n - h \in Nat /\ h \in Nat
      <4>1. Depth - start = n - h /\ h - 0 = h /\ n - h \in Nat
        BY <1>1, <3>1
      <4> QED
        BY <1>1, <4>1 DEF R!Slice
    <3>3. /\ a \in [1..(n - h) -> Nat] /\ b \in [1..h -> Nat]
      <4>1. /\ \A k \in 1..(n - h) : start + k - 1 \in 0..(Depth - 1)
            /\ \A k \in 1..h : 0 + k - 1 \in 0..(Depth - 1)
        BY <1>1, <3>1
      <4>2. r.buf \in [0..(Depth - 1) -> Nat]
        BY DEF Ring
      <4> HIDE DEF a, b
      <4> QED
        BY <3>2, <4>1, <4>2
    <3>4. \A k \in 1..n :
            ticks[len - n + k].n = IF k <= n - h THEN r.buf[start + k - 1] ELSE r.buf[k - (n - h) - 1]
      <4>1. \A k \in 1..n : back(k) = IF k <= n - h THEN start + k - 1 ELSE k - (n - h) - 1
        BY <1>1, <3>1 DEF Back
      <4> HIDE DEF back
      <4> QED
        BY <2>2, <4>1
    <3> HIDE DEF a, b
    <3>5. a \in Seq(Nat) /\ b \in Seq(Nat) /\ Len(a) = n - h /\ Len(b) = h
      BY <3>2, <3>3
    <3>6. /\ a \o b \in Seq(Nat) /\ Len(a \o b) = n
          /\ \A k \in 1..n : (a \o b)[k] = IF k <= n - h THEN a[k] ELSE b[k - (n - h)]
      <4>1. n - h + h = n
        BY <1>1
      <4> QED
        BY <3>5, <4>1, ConcatProperties
    <3>7. \A k \in 1..n : (a \o b)[k] = ticks[len - n + k].n
      <4>1. ASSUME NEW k \in 1..n PROVE (a \o b)[k] = ticks[len - n + k].n
        <5>1. CASE k <= n - h
          <6>1. a[k] = r.buf[start + k - 1]
            BY <1>1, <3>2, <5>1
          <6> QED
            BY <3>4, <3>6, <5>1, <6>1
        <5>2. CASE ~(k <= n - h)
          <6>1. k - (n - h) \in 1..h /\ 0 + (k - (n - h)) - 1 = k - (n - h) - 1
            BY <1>1, <3>2, <5>2
          <6>2. b[k - (n - h)] = r.buf[k - (n - h) - 1]
            BY <3>2, <6>1
          <6> QED
            BY <3>4, <3>6, <5>2, <6>2
        <5> QED
          BY <5>1, <5>2
      <4> QED
        BY <4>1
    <3>8. a \o b = [k \in 1..n |-> ticks[len - n + k].n]
      <4>1. a \o b \in [1..n -> Nat]
        BY <3>6, LenProperties
      <4> QED
        BY <3>7, <4>1
    <3> QED
      BY <2>3, <2>5, <3>8 DEF a, b
  <2> QED
    BY <2>3, <2>4, <2>5
<1>3. R!LastValues(r, 0) = <<>> /\ [k \in 1..0 |-> ticks[len - 0 + k].n] = <<>>
  BY DEF R!LastValues
<1>4. ASSUME r.count > 0
      PROVE  R!Latest(r) = Last(ticks).n
  <2>1. (h + Depth - 1) % Depth = Back(h, 1)
    <3>1. 1 \in 1..Depth
      BY <1>1
    <3>2. (h + Depth - 1) % Depth = IF h >= 1 THEN h - 1 ELSE h + Depth - 1
      BY <1>1, <3>1, StartOfLast
    <3> QED
      BY <1>1, <3>2 DEF Back
  <2>2. R!Latest(r) = r.buf[Back(h, 1)]
    <3>1. R!Latest(r) = r.buf[(h + Depth - 1) % Depth]
      BY <1>0 DEF R!Latest
    <3> QED
      BY <2>1, <3>1
  <2>3. 1 \in 1..c /\ len - 1 + 1 = len
    BY <1>1, <1>4, <1>6
  <2> QED
    BY <1>1, <1>5, <2>2, <2>3 DEF Last
<1> QED
  <2>1. ASSUME NEW n \in 0..r.count
        PROVE  R!LastValues(r, n) = [k \in 1..n |-> ticks[len - n + k].n]
    <3>1. n = 0 \/ n \in 1..c
      BY <1>1, <1>6
    <3> QED
      BY <1>2, <1>3, <3>1
  <2> QED
    BY <1>4, <1>5, <2>1
-----------------------------------------------------------------------------
(* From the frame to the queue.                                            *)

Messages == [body : Bodies, product : Products, n : Nat]

RestTypeOK ==
    /\ closed \in [Sources -> BOOLEAN] /\ events \in [Sources -> Nat]
    /\ owner \in {"recording", "stopped"}

FlowTypeOK ==
    /\ DOMAIN frame = Sources /\ DOMAIN ready = Sources /\ DOMAIN yielded = Sources
    /\ \A s \in Sources :
         frame[s] \in Seq(Messages) /\ ready[s] \in Seq(EventsOf(s)) /\ yielded[s] \in Seq(EventsOf(s))
    /\ queue \in Seq(Events) /\ taken \in Seq(Events)
    /\ ring \in [Sources -> [Products -> Ring]]

\* Events are left over only in a frame that is handled, in a put that waits,
\* and where a put was cancelled.
ReadyWhere ==
    \A s \in Sources :
        /\ phase[s] \notin {"frame", "put", "cancelled"} => ready[s] = <<>>
        /\ phase[s] = "put" => ready[s] # <<>>

TicksHeld == \A s \in Sources, p \in Products : RingHolds(ring[s][p], Ticks(s, p))

FlowInv == FlowTypeOK /\ ReadyWhere /\ TicksHeld /\ QueueKeepsOrder

LEMMA EventTyped ==
    ASSUME NEW s \in Sources, NEW p \in Products, NEW kind \in Kinds, NEW n \in Nat
    PROVE  Event(s, p, kind, n) \in EventsOf(s)
  BY DEF Event, EventsOf, Events, Symbols

LEMMA EventsAreEvents ==
    ASSUME NEW s
    PROVE  EventsOf(s) \subseteq Events /\ \A x \in Seq(EventsOf(s)) : x \in Seq(Events)
<1>1. EventsOf(s) \subseteq Events
  BY DEF EventsOf
<1> QED
  BY <1>1, SeqMonotonic

LEMMA FlowInit == Init => FlowInv /\ RestTypeOK
<1> SUFFICES ASSUME Init
             PROVE  FlowInv /\ RestTypeOK
  OBVIOUS
<1>1. RestTypeOK
  BY DEF Init, RestTypeOK
<1>2. \A S : <<>> \in Seq(S)
  BY EmptySeq
<1>3. FlowTypeOK
  BY <1>2, EmptyRingHolds DEF Init, FlowTypeOK
<1>4. ReadyWhere
  BY DEF Init, ReadyWhere
<1>5. TicksHeld
  <2>1. \A s \in Sources, p \in Products : Ticks(s, p) = <<>> /\ ring[s][p] = R!EmptyRing
    BY FilterEmpty DEF Init, Ticks
  <2> QED
    BY <2>1, EmptyRingHolds DEF TicksHeld
<1>6. QueueKeepsOrder
  <2>1. ASSUME NEW s \in Sources
        PROVE  Filter(taken \o queue, EventsOf(s)) \o InHand(s) = yielded[s] /\ events[s] = Len(yielded[s])
    <3>1. taken = <<>> /\ queue = <<>> /\ yielded[s] = <<>> /\ events[s] = 0 /\ InHand(s) = <<>>
      BY DEF Init, InHand
    <3>2. <<>> \o <<>> = <<>> /\ Len(<<>>) = 0
      BY <1>2, ConcatEmptySeq, EmptySeq
    <3>3. Filter(<<>>, EventsOf(s)) = <<>>
      BY FilterEmpty
    <3> QED
      BY <3>1, <3>2, <3>3
  <2> QED
    BY <2>1 DEF QueueKeepsOrder
<1> QED
  BY <1>1, <1>3, <1>4, <1>5, <1>6 DEF FlowInv

\* A step of a connection, or of the owner, moves no event.
LEMMA FlowKept ==
    ASSUME FlowInv, UNCHANGED flow, ReadyWhere', \A s \in Sources : InHand(s)' = InHand(s)
    PROVE  FlowInv'
<1>1. UNCHANGED <<frame, ready, ring, events, queue, yielded, taken>>
  BY DEF flow
<1>2. FlowTypeOK'
  BY <1>1 DEF FlowInv, FlowTypeOK
<1>3. TicksHeld'
  BY <1>1 DEF FlowInv, TicksHeld, Ticks
<1>4. QueueKeepsOrder'
  BY <1>1 DEF FlowInv, QueueKeepsOrder
<1> QED
  BY <1>2, <1>3, <1>4 DEF FlowInv

\* A source moves from one phase without events left over to another.
LEMMA PhaseStep ==
    ASSUME BackoffInv, FlowInv, UNCHANGED flow, NEW s \in Sources, NEW p,
           phase' = [phase EXCEPT ![s] = p], ready[s] = <<>>, phase[s] # "put", p # "put"
    PROVE  FlowInv'
<1>1. UNCHANGED <<frame, ready, ring, events, queue, yielded, taken>>
  BY DEF flow
<1>2. ReadyWhere'
  BY <1>1 DEF FlowInv, ReadyWhere, BackoffInv, BackoffTypeOK
<1>3. \A t \in Sources : InHand(t)' = InHand(t)
  BY <1>1 DEF InHand, BackoffInv, BackoffTypeOK
<1> QED
  BY <1>2, <1>3, FlowKept

LEMMA ConnectionFlow ==
    ASSUME BackoffInv, FlowInv, NEW s \in Sources,
           \/ Connection(s) \/ AuthRefused(s) \/ HandshakeGarbled(s) \/ PeerEnds(s) \/ FrameDone(s)
    PROVE  FlowInv'
<1>1. UNCHANGED flow
  BY DEF Connection, Opened, HandshakeDone, ConnectionLost, Wake, AuthRefused, HandshakeGarbled, PeerEnds,
         FrameDone
<1>2. ready[s] = <<>> /\ phase[s] # "put"
  <2>1. \/ phase[s] \in {"opening", "handshake", "up", "sleep"}
        \/ phase[s] = "frame" /\ ready[s] = <<>>
    BY DEF Connection, Opened, HandshakeDone, ConnectionLost, Wake, AuthRefused, HandshakeGarbled, PeerEnds,
           FrameDone
  <2>2. ReadyWhere
    BY DEF FlowInv
  <2> QED
    BY <2>1, <2>2, Zenon DEF ReadyWhere
<1>3. \E p : p # "put" /\ phase' = [phase EXCEPT ![s] = p]
  BY DEF Connection, Opened, HandshakeDone, ConnectionLost, Wake, AuthRefused, HandshakeGarbled, PeerEnds,
         FrameDone, LoopHead
<1> QED
  BY <1>1, <1>2, <1>3, PhaseStep

LEMMA OwnerFlow ==
    ASSUME BackoffInv, FlowInv, StopRecording \/ (\E s \in Sources : Close(s)) \/ UNCHANGED vars
    PROVE  FlowInv'
<1>1. UNCHANGED flow /\ UNCHANGED ready
  BY DEF StopRecording, Close, vars, flow
<1>2. CASE UNCHANGED phase
  <2>1. ReadyWhere'
    BY <1>1, <1>2 DEF FlowInv, ReadyWhere
  <2>2. \A s \in Sources : InHand(s)' = InHand(s)
    BY <1>1, <1>2 DEF InHand
  <2> QED
    BY <1>1, <2>1, <2>2, FlowKept
<1>3. CASE StopRecording
  <2>1. phase' = [s \in Sources |-> IF phase[s] \in Gone THEN phase[s] ELSE "cancelled"] /\ Quiet
    BY <1>3 DEF StopRecording
  <2>2. ReadyWhere'
    BY <1>1, <2>1 DEF FlowInv, ReadyWhere, Gone
  <2>3. \A s \in Sources : InHand(s)' = InHand(s)
    <3>1. TAKE s \in Sources
    <3>2. /\ phase[s] # "frame" /\ (phase[s] \notin {"put", "cancelled"} => ready[s] = <<>>)
          /\ (phase[s] = "put" => ready[s] # <<>>)
          /\ phase'[s] = IF phase[s] \in Gone THEN phase[s] ELSE "cancelled"
          /\ ready'[s] = ready[s]
      <4>1. ReadyWhere
        BY DEF FlowInv
      <4>2. /\ phase[s] \notin {"frame", "put", "cancelled"} => ready[s] = <<>>
            /\ phase[s] = "put" => ready[s] # <<>>
        BY <4>1 DEF ReadyWhere
      <4>3. phase[s] # "frame" /\ phase'[s] = IF phase[s] \in Gone THEN phase[s] ELSE "cancelled"
        BY <2>1 DEF Quiet
      <4> QED
        BY <1>1, <4>2, <4>3
    <3>3. CASE phase[s] = "put"
      BY <3>2, <3>3 DEF InHand, Gone
    <3>4. CASE phase[s] = "cancelled"
      BY <3>2, <3>4 DEF InHand, Gone
    <3>5. CASE phase[s] \notin {"put", "cancelled"}
      <4>1. ready[s] = <<>> /\ phase'[s] # "put"
        BY <3>2, <3>5
      <4> QED
        BY <3>2, <3>5, <4>1 DEF InHand
    <3> QED
      BY <3>3, <3>4, <3>5
  <2> QED
    BY <1>1, <2>2, <2>3, FlowKept
<1> QED
  BY <1>2, <1>3 DEF Close, vars, link

LEMMA ReceiveFlow ==
    ASSUME BackoffInv, FlowInv, NEW s \in Sources, NEW a \in Answers, NEW b \in Answers, Receive(s, a, b)
    PROVE  FlowInv'
<1> DEFINE n == Len(yielded[s]) + 1
           first == [body |-> a.body, product |-> a.product, n |-> n + 0]
           second == [body |-> b.body, product |-> b.product, n |-> n + 1]
<1>1. /\ frame' = [frame EXCEPT ![s] = <<first>>] \/ frame' = [frame EXCEPT ![s] = <<first, second>>]
      /\ phase[s] = "up" /\ phase' = [phase EXCEPT ![s] = "frame"]
      /\ UNCHANGED <<ready, ring, events, queue, yielded, taken>>
  BY DEF Receive
<1>2. first \in Messages /\ second \in Messages
  <2>1. n + 0 \in Nat /\ n + 1 \in Nat
    BY LenProperties DEF FlowInv, FlowTypeOK
  <2>2. /\ a.body \in Bodies /\ a.product \in Products
        /\ b.body \in Bodies /\ b.product \in Products
    BY FeedAssumption
  <2> HIDE DEF n
  <2> QED
    BY <2>1, <2>2 DEF Messages
<1>3. \A t \in Sources : frame'[t] \in Seq(Messages)
  <2> HIDE DEF first, second
  <2>1. <<first>> \in Seq(Messages) /\ <<first, second>> \in Seq(Messages)
    BY <1>2
  <2> QED
    BY <1>1, <2>1 DEF FlowInv, FlowTypeOK
<1>4. DOMAIN frame' = Sources
  BY <1>1 DEF FlowInv, FlowTypeOK
<1>5. FlowTypeOK'
  BY <1>1, <1>3, <1>4 DEF FlowInv, FlowTypeOK
<1>6. ReadyWhere'
  BY <1>1 DEF FlowInv, ReadyWhere, BackoffInv, BackoffTypeOK
<1>7. TicksHeld'
  BY <1>1 DEF FlowInv, TicksHeld, Ticks
<1>8. \A t \in Sources : InHand(t)' = InHand(t)
  <2>1. ready[s] = <<>>
    BY <1>1 DEF FlowInv, ReadyWhere
  <2> QED
    BY <1>1, <2>1 DEF InHand, BackoffInv, BackoffTypeOK
<1>9. QueueKeepsOrder'
  BY <1>1, <1>8 DEF FlowInv, QueueKeepsOrder
<1> QED
  BY <1>5, <1>6, <1>7, <1>9 DEF FlowInv

\* What a message becomes are events of the source it came to.
LEMMA ParseTyped ==
    ASSUME NEW s \in Sources, NEW m \in Messages
    PROVE  Parse(s, m) \in Seq(EventsOf(s))
<1>1. m.product \in Products /\ m.n \in Nat
  BY DEF Messages
<1>2. "trade" \in Kinds /\ "quote" \in Kinds
  BY DEF Kinds
<1>3. \A kind \in Kinds : Event(s, m.product, kind, m.n) \in EventsOf(s)
  BY <1>1, EventTyped
<1>4. <<>> \in Seq(EventsOf(s)) /\ \A e \in EventsOf(s) : <<e>> \in Seq(EventsOf(s))
  BY EmptySeq
<1>5. parse_message(s, m) \in Seq(EventsOf(s))
  BY <1>3, <1>4 DEF parse_message
<1>6. parse_ticker(s, m) \in Seq(EventsOf(s))
  <2> DEFINE x == IF m.body \in {"quote", "both"} THEN <<Event(s, m.product, "quote", m.n)>> ELSE <<>>
             y == IF m.body \in {"trade", "both"} THEN <<Event(s, m.product, "trade", m.n)>> ELSE <<>>
  <2>1. x \in Seq(EventsOf(s)) /\ y \in Seq(EventsOf(s))
    BY <1>2, <1>3, <1>4
  <2>2. parse_ticker(s, m) = x \o y
    BY DEF parse_ticker
  <2> HIDE DEF x, y
  <2> QED
    BY <2>1, <2>2, ConcatType
<1> QED
  BY <1>5, <1>6 DEF Parse

LEMMA ParseFlow ==
    ASSUME BackoffInv, FlowInv, NEW s \in Sources, ParseNext(s)
    PROVE  FlowInv'
<1>1. /\ phase[s] = "frame" /\ ready[s] = <<>> /\ frame[s] # <<>>
      /\ frame' = [frame EXCEPT ![s] = Tail(frame[s])]
      /\ UNCHANGED <<ring, events, queue, yielded, taken>>
      /\ \/ phase' = [phase EXCEPT ![s] = "malformed"] /\ UNCHANGED ready
         \/ ready' = [ready EXCEPT ![s] = Parse(s, Head(frame[s]))] /\ UNCHANGED phase
  BY DEF ParseNext
<1>2. Head(frame[s]) \in Messages /\ Tail(frame[s]) \in Seq(Messages)
  BY <1>1, HeadTailProperties DEF FlowInv, FlowTypeOK
<1>3. Parse(s, Head(frame[s])) \in Seq(EventsOf(s))
  BY <1>2, ParseTyped
<1>4. FlowTypeOK'
  <2>1. \A t \in Sources : frame'[t] \in Seq(Messages) /\ ready'[t] \in Seq(EventsOf(t))
    BY <1>1, <1>2, <1>3 DEF FlowInv, FlowTypeOK
  <2>2. DOMAIN frame' = Sources /\ DOMAIN ready' = Sources
    BY <1>1 DEF FlowInv, FlowTypeOK
  <2> QED
    BY <1>1, <2>1, <2>2 DEF FlowInv, FlowTypeOK
<1>5. \A t \in Sources : t # s => phase'[t] = phase[t] /\ ready'[t] = ready[t]
  BY <1>1 DEF FlowInv, FlowTypeOK, BackoffInv, BackoffTypeOK
<1>6. phase'[s] \notin {"put", "cancelled"} /\ (phase'[s] # "frame" => ready'[s] = <<>>)
  BY <1>1 DEF BackoffInv, BackoffTypeOK
<1>7. ReadyWhere'
  BY <1>5, <1>6 DEF FlowInv, ReadyWhere
<1>8. TicksHeld'
  BY <1>1 DEF FlowInv, TicksHeld, Ticks
<1>9. \A t \in Sources : InHand(t)' = InHand(t)
  BY <1>1, <1>5, <1>6 DEF InHand
<1>10. QueueKeepsOrder'
  BY <1>1, <1>9 DEF FlowInv, QueueKeepsOrder
<1> QED
  BY <1>4, <1>7, <1>8, <1>10 DEF FlowInv

\* An event that is stored: its ring goes on holding the tail of its ticks,
\* the other rings stay.
LEMMA StoreHolds ==
    ASSUME FlowInv, NEW s \in Sources, NEW e \in EventsOf(s), Store(s, e),
           yielded' = [yielded EXCEPT ![s] = Append(yielded[s], e)]
    PROVE  ring' \in [Sources -> [Products -> Ring]] /\ TicksHeld'
<1>1. /\ ring \in [Sources -> [Products -> Ring]] /\ DOMAIN yielded = Sources
      /\ \A t \in Sources : yielded[t] \in Seq(Events)
      /\ \A t \in Sources, p \in Products : RingHolds(ring[t][p], Ticks(t, p))
  BY EventsAreEvents DEF FlowInv, FlowTypeOK, TicksHeld
<1>2. e \in Events /\ e.product \in Products
  BY DEF EventsOf, Events
<1>3. ASSUME NEW t \in Sources, NEW p \in Products
      PROVE  /\ Ticks(t, p) \in Seq(Events)
             /\ Ticks(t, p)' = IF t = s /\ e.kind = "trade" /\ e.product = p
                              THEN Append(Ticks(t, p), e) ELSE Ticks(t, p)
  <2> DEFINE kept == {x \in Events : x.kind = "trade" /\ x.product = p}
  <2>1. Ticks(t, p) = Filter(yielded[t], kept) /\ Ticks(t, p)' = Filter(yielded'[t], kept)
    BY DEF Ticks
  <2>2. e \in kept <=> (e.kind = "trade" /\ e.product = p)
    BY <1>2
  <2> HIDE DEF kept
  <2>3. Filter(yielded[t], kept) \in Seq(Events)
    BY <1>1, FilterType
  <2>4. Filter(Append(yielded[t], e), kept) =
          IF e \in kept THEN Append(Filter(yielded[t], kept), e) ELSE Filter(yielded[t], kept)
    BY <1>1, <1>2, FilterAppend
  <2>5. yielded'[t] = IF t = s THEN Append(yielded[t], e) ELSE yielded[t]
    BY <1>1
  <2> QED
    BY <2>1, <2>2, <2>3, <2>4, <2>5
<1>4. /\ R!Push(ring[s][e.product], e.n) \in Ring
      /\ RingHolds(R!Push(ring[s][e.product], e.n), Append(Ticks(s, e.product), e))
  <2>1. ring[s][e.product] \in Ring /\ Ticks(s, e.product) \in Seq(Events)
    BY <1>1, <1>2, <1>3
  <2> QED
    BY <1>1, <1>2, <2>1, PushHolds
<1>5. CASE e.kind = "trade"
  <2>1. ring' = [ring EXCEPT ![s][e.product] = R!Push(ring[s][e.product], e.n)]
    BY <1>5 DEF Store
  <2>2. ring' \in [Sources -> [Products -> Ring]]
    BY <1>1, <1>2, <1>4, <2>1
  <2>3. ASSUME NEW t \in Sources, NEW p \in Products
        PROVE  RingHolds(ring'[t][p], Ticks(t, p)')
    <3>1. CASE t = s /\ p = e.product
      <4>1. ring'[t][p] = R!Push(ring[s][e.product], e.n)
        BY <1>1, <1>2, <2>1, <3>1
      <4> QED
        BY <1>3, <1>4, <1>5, <3>1, <4>1
    <3>2. CASE ~(t = s /\ p = e.product)
      <4>1. ring'[t][p] = ring[t][p]
        BY <1>1, <1>2, <2>1, <3>2
      <4> QED
        BY <1>1, <1>3, <3>2, <4>1
    <3> QED
      BY <3>1, <3>2
  <2> QED
    BY <2>2, <2>3 DEF TicksHeld, RingHolds, At
<1>6. CASE e.kind # "trade"
  <2>1. ring' = ring
    BY <1>6 DEF Store
  <2> QED
    BY <1>1, <1>3, <1>6, <2>1 DEF TicksHeld, RingHolds, At
<1> QED
  BY <1>5, <1>6

Queued(s) == Filter(taken \o queue, EventsOf(s))

\* Where an event joins the queue, only its own source notices.
LEMMA QueuedAppend ==
    ASSUME FlowInv, NEW s \in Sources, NEW e \in EventsOf(s), NEW t \in Sources
    PROVE  /\ taken \o queue \in Seq(Events) /\ Queued(t) \in Seq(Events)
           /\ Filter(taken \o Append(queue, e), EventsOf(t)) =
                IF t = s THEN Append(Queued(t), e) ELSE Queued(t)
<1>1. taken \in Seq(Events) /\ queue \in Seq(Events)
  BY DEF FlowInv, FlowTypeOK
<1>2. taken \o queue \in Seq(Events)
  BY <1>1, ConcatType
<1>3. e \in Events /\ (e \in EventsOf(t) <=> t = s)
  BY DEF EventsOf
<1>4. taken \o Append(queue, e) = Append(taken \o queue, e)
  BY <1>1, <1>3, AppendToConcat
<1>5. Filter(Append(taken \o queue, e), EventsOf(t)) =
        IF e \in EventsOf(t) THEN Append(Queued(t), e) ELSE Queued(t)
  <2>1. PICK q \in Seq(Events) : q = taken \o queue
    BY <1>2
  <2>2. Filter(Append(q, e), EventsOf(t)) =
          IF e \in EventsOf(t) THEN Append(Filter(q, EventsOf(t)), e) ELSE Filter(q, EventsOf(t))
    BY <1>3, FilterAppend
  <2> QED
    BY <2>1, <2>2 DEF Queued
<1>6. Queued(t) \in Seq(Events)
  BY <1>2, FilterType DEF Queued
<1> QED
  BY <1>2, <1>3, <1>4, <1>5, <1>6

LEMMA IngestFlow ==
    ASSUME BackoffInv, RestTypeOK, FlowInv, NEW s \in Sources, Ingest(s)
    PROVE  FlowInv'
<1>1. ready[s] # <<>> /\ ready[s] \in Seq(EventsOf(s)) /\ phase[s] = "frame"
  BY DEF Ingest, FlowInv, FlowTypeOK
<1>2. PICK e \in EventsOf(s) : e = Head(ready[s])
  BY <1>1, HeadTailProperties
<1>3. /\ Store(s, e) /\ yielded' = [yielded EXCEPT ![s] = Append(yielded[s], e)]
      /\ events' = [events EXCEPT ![s] = events[s] + 1]
      /\ UNCHANGED <<frame, taken>>
      /\ \/ phase' = [phase EXCEPT ![s] = "put"] /\ UNCHANGED <<queue, ready>>
         \/ /\ queue' = Append(queue, e) /\ ready' = [ready EXCEPT ![s] = Tail(ready[s])]
            /\ UNCHANGED phase
  BY <1>2 DEF Ingest
<1>4. ring' \in [Sources -> [Products -> Ring]] /\ TicksHeld'
  BY <1>2, <1>3, StoreHolds
<1>10. DOMAIN events = Sources
  BY DEF RestTypeOK
<1>5. /\ Append(yielded[s], e) \in Seq(EventsOf(s)) /\ Tail(ready[s]) \in Seq(EventsOf(s))
      /\ Append(queue, e) \in Seq(Events) /\ e \in Events
      /\ Len(Append(yielded[s], e)) = Len(yielded[s]) + 1
  <2>1. yielded[s] \in Seq(EventsOf(s)) /\ queue \in Seq(Events) /\ e \in Events
    BY <1>2, EventsAreEvents DEF FlowInv, FlowTypeOK
  <2> QED
    BY <1>1, <1>2, <2>1, AppendProperties, HeadTailProperties
<1>6. FlowTypeOK'
  <2>1. \A t \in Sources : ready'[t] \in Seq(EventsOf(t)) /\ yielded'[t] \in Seq(EventsOf(t))
    BY <1>3, <1>5 DEF FlowInv, FlowTypeOK
  <2>2. DOMAIN ready' = Sources /\ DOMAIN yielded' = Sources /\ queue' \in Seq(Events)
    BY <1>3, <1>5 DEF FlowInv, FlowTypeOK
  <2> QED
    BY <1>3, <1>4, <2>1, <2>2 DEF FlowInv, FlowTypeOK
<1>7. ReadyWhere'
  <2>1. \A t \in Sources : t # s => phase'[t] = phase[t] /\ ready'[t] = ready[t]
    BY <1>3 DEF FlowInv, FlowTypeOK, BackoffInv, BackoffTypeOK
  <2>2. phase'[s] = "frame" \/ (phase'[s] = "put" /\ ready'[s] # <<>>)
    BY <1>1, <1>3 DEF BackoffInv, BackoffTypeOK
  <2>3. ReadyWhere
    BY DEF FlowInv
  <2> QED
    BY <2>1, <2>2, <2>3 DEF ReadyWhere
<1>8. ASSUME NEW t \in Sources
      PROVE  Queued(t)' \o InHand(t)' = yielded'[t] /\ events'[t] = Len(yielded'[t])
  <2>1. /\ Queued(t) \o InHand(t) = yielded[t] /\ events[t] = Len(yielded[t])
        /\ Queued(t) \in Seq(Events)
    BY <1>2, QueuedAppend DEF FlowInv, QueueKeepsOrder, Queued
  <2>2. events'[t] = Len(yielded'[t])
    <3>1. CASE t = s
      <4>1. events'[s] = events[s] + 1
        BY <1>3, <1>10
      <4>2. yielded'[s] = Append(yielded[s], e)
        BY <1>3 DEF FlowInv, FlowTypeOK
      <4> QED
        BY <1>5, <2>1, <3>1, <4>1, <4>2
    <3>2. CASE t # s
      <4>1. events'[t] = events[t] /\ yielded'[t] = yielded[t]
        BY <1>3, <1>10, <3>2 DEF FlowInv, FlowTypeOK
      <4> QED
        BY <2>1, <4>1
    <3> QED
      BY <3>1, <3>2
  <2>3. CASE t # s
    <3>1. InHand(t)' = InHand(t) /\ yielded'[t] = yielded[t]
      BY <1>3, <2>3 DEF InHand, BackoffInv, BackoffTypeOK, FlowInv, FlowTypeOK
    <3>2. Queued(t)' = Queued(t)
      <4>1. Filter(taken \o Append(queue, e), EventsOf(t)) = Queued(t)
        BY <1>2, <2>3, QueuedAppend
      <4> QED
        BY <1>3, <4>1 DEF Queued
    <3> QED
      BY <2>1, <2>2, <3>1, <3>2
  <2>4. CASE t = s
    <3>1. InHand(s) = <<>> /\ yielded'[s] = Append(yielded[s], e)
      BY <1>1, <1>3 DEF InHand, FlowInv, FlowTypeOK
    <3>2. Queued(s) = yielded[s] /\ Queued(s) \in Seq(Events)
      BY <2>1, <2>4, <3>1, ConcatEmptySeq
    <3>3. CASE phase' = [phase EXCEPT ![s] = "put"] /\ UNCHANGED <<queue, ready>>
      <4>1. InHand(s)' = <<e>>
        BY <1>2, <3>3 DEF InHand, BackoffInv, BackoffTypeOK
      <4>2. Queued(s)' = Queued(s)
        BY <1>3, <3>3 DEF Queued
      <4>3. Append(Queued(s), e) = Queued(s) \o <<e>>
        BY <1>5, <3>2, AppendIsConcat
      <4> QED
        BY <2>2, <2>4, <3>1, <3>2, <4>1, <4>2, <4>3
    <3>4. CASE queue' = Append(queue, e) /\ UNCHANGED phase
      <4>1. InHand(s)' = <<>>
        BY <1>1, <3>4 DEF InHand
      <4>2. Filter(taken \o Append(queue, e), EventsOf(s)) = Append(Queued(s), e)
        BY <1>2, QueuedAppend
      <4>3. Queued(s)' = Append(Queued(s), e)
        BY <1>3, <3>4, <4>2 DEF Queued
      <4>4. Append(Queued(s), e) \o <<>> = Append(Queued(s), e)
        BY <1>5, <3>2, AppendProperties, ConcatEmptySeq
      <4> QED
        BY <2>2, <2>4, <3>1, <3>2, <4>1, <4>3, <4>4
    <3> QED
      BY <1>3, <3>3, <3>4
  <2> QED
    BY <2>3, <2>4
<1>9. QueueKeepsOrder'
  BY <1>8 DEF QueueKeepsOrder, Queued
<1> QED
  BY <1>4, <1>6, <1>7, <1>9 DEF FlowInv

LEMMA PutFlow ==
    ASSUME BackoffInv, FlowInv, NEW s \in Sources, PutResumes(s)
    PROVE  FlowInv'
<1>1. ready[s] # <<>> /\ ready[s] \in Seq(EventsOf(s)) /\ phase[s] = "put"
  BY DEF PutResumes, FlowInv, FlowTypeOK, ReadyWhere
<1>2. PICK e \in EventsOf(s) : e = Head(ready[s])
  BY <1>1, HeadTailProperties
<1>3. /\ queue' = Append(queue, e) /\ ready' = [ready EXCEPT ![s] = Tail(ready[s])]
      /\ phase' = [phase EXCEPT ![s] = "frame"]
      /\ UNCHANGED <<frame, ring, events, yielded, taken>>
  BY <1>2 DEF PutResumes
<1>4. e \in Events /\ Append(queue, e) \in Seq(Events) /\ Tail(ready[s]) \in Seq(EventsOf(s))
  <2>1. e \in Events /\ queue \in Seq(Events)
    BY <1>2, EventsAreEvents DEF FlowInv, FlowTypeOK
  <2> QED
    BY <1>1, <2>1, AppendProperties, HeadTailProperties
<1>5. FlowTypeOK'
  <2>1. \A t \in Sources : ready'[t] \in Seq(EventsOf(t))
    BY <1>3, <1>4 DEF FlowInv, FlowTypeOK
  <2>2. DOMAIN ready' = Sources
    BY <1>3 DEF FlowInv, FlowTypeOK
  <2> QED
    BY <1>3, <1>4, <2>1, <2>2 DEF FlowInv, FlowTypeOK
<1>6. /\ phase'[s] = "frame"
      /\ \A t \in Sources : t # s => phase'[t] = phase[t] /\ ready'[t] = ready[t]
  BY <1>3 DEF FlowInv, FlowTypeOK, BackoffInv, BackoffTypeOK
<1>7. ReadyWhere'
  BY <1>6 DEF FlowInv, ReadyWhere
<1>8. TicksHeld'
  BY <1>3 DEF FlowInv, TicksHeld, Ticks
<1>9. ASSUME NEW t \in Sources
      PROVE  Queued(t)' \o InHand(t)' = yielded[t]
  <2>1. Queued(t) \o InHand(t) = yielded[t] /\ Queued(t) \in Seq(Events)
    BY <1>2, QueuedAppend DEF FlowInv, QueueKeepsOrder, Queued
  <2>2. CASE t # s
    <3>1. InHand(t)' = InHand(t)
      BY <1>6, <2>2 DEF InHand
    <3>2. Filter(taken \o Append(queue, e), EventsOf(t)) = Queued(t)
      BY <1>2, <2>2, QueuedAppend
    <3> QED
      BY <1>3, <2>1, <3>1, <3>2 DEF Queued
  <2>3. CASE t = s
    <3>1. InHand(s) = <<e>> /\ InHand(s)' = <<>>
      BY <1>1, <1>2, <1>6 DEF InHand
    <3>2. Filter(taken \o Append(queue, e), EventsOf(s)) = Append(Queued(s), e)
      BY <1>2, QueuedAppend
    <3>3. Append(Queued(s), e) = Queued(s) \o <<e>> /\ Append(Queued(s), e) \in Seq(Events)
      BY <1>4, <2>1, <2>3, AppendIsConcat, AppendProperties
    <3>4. Append(Queued(s), e) \o <<>> = Append(Queued(s), e)
      BY <3>3, ConcatEmptySeq
    <3>5. Queued(s)' = Append(Queued(s), e)
      BY <1>3, <3>2 DEF Queued
    <3> QED
      BY <2>1, <2>3, <3>1, <3>3, <3>4, <3>5
  <2> QED
    BY <2>2, <2>3
<1>10. QueueKeepsOrder'
  BY <1>3, <1>9 DEF FlowInv, QueueKeepsOrder, Queued
<1> QED
  BY <1>5, <1>7, <1>8, <1>10 DEF FlowInv

LEMMA TakeFlow ==
    ASSUME BackoffInv, FlowInv, Take
    PROVE  FlowInv'
<1>1. /\ queue # <<>> /\ taken' = Append(taken, Head(queue)) /\ queue' = Tail(queue)
      /\ UNCHANGED <<phase, frame, ready, ring, events, yielded>>
      /\ queue \in Seq(Events) /\ taken \in Seq(Events)
  BY DEF Take, link, FlowInv, FlowTypeOK
<1>2. PICK e \in Events : e = Head(queue)
  BY <1>1, HeadTailProperties
<1>3. Tail(queue) \in Seq(Events) /\ <<e>> \in Seq(Events) /\ queue = <<e>> \o Tail(queue)
  BY <1>1, <1>2, SequenceHead
<1>4. taken' \in Seq(Events) /\ taken' = taken \o <<e>>
  BY <1>1, <1>2, AppendProperties, AppendIsConcat
<1>5. taken' \o queue' = taken \o queue
  <2>1. Assoc(taken, <<e>>, Tail(queue))
    BY <1>1, <1>3, AssocHolds
  <2> QED
    BY <1>1, <1>3, <1>4, <2>1 DEF Assoc
<1>6. FlowTypeOK'
  BY <1>1, <1>3, <1>4 DEF FlowInv, FlowTypeOK
<1>7. ReadyWhere' /\ TicksHeld'
  BY <1>1 DEF FlowInv, ReadyWhere, TicksHeld, Ticks
<1>8. QueueKeepsOrder'
  BY <1>1, <1>5 DEF FlowInv, QueueKeepsOrder, InHand
<1> QED
  BY <1>6, <1>7, <1>8 DEF FlowInv

LEMMA RestStep == RestTypeOK /\ [Next]_vars => RestTypeOK'
<1> SUFFICES ASSUME RestTypeOK, [Next]_vars
             PROVE  RestTypeOK'
  OBVIOUS
<1>1. /\ closed' = closed \/ closed' = [s \in Sources |-> TRUE]
         \/ \E s \in Sources : closed' = [closed EXCEPT ![s] = TRUE]
      /\ events' = events \/ \E s \in Sources : events' = [events EXCEPT ![s] = events[s] + 1]
      /\ owner' \in {owner, "stopped"}
  BY DEF Next, Handle, ParseNext, FrameDone, Ingest, Connection, Opened, HandshakeDone, ConnectionLost, Wake,
         PutResumes, AuthRefused, HandshakeGarbled, PeerEnds, Close, Receive, Take, StopRecording,
         link, flow, vars
<1>2. closed' \in [Sources -> BOOLEAN]
  BY <1>1 DEF RestTypeOK
<1>3. events' \in [Sources -> Nat] /\ owner' \in {"recording", "stopped"}
  BY <1>1 DEF RestTypeOK
<1> QED
  BY <1>2, <1>3 DEF RestTypeOK

LEMMA FlowStep == BackoffInv /\ RestTypeOK /\ FlowInv /\ [Next]_vars => FlowInv'
<1> SUFFICES ASSUME BackoffInv, RestTypeOK, FlowInv, [Next]_vars
             PROVE  FlowInv'
  OBVIOUS
<1>1. ASSUME NEW s \in Sources, Handle(s) \/ Connection(s) \/ PutResumes(s)
      PROVE  FlowInv'
  BY <1>1, ConnectionFlow, ParseFlow, IngestFlow, PutFlow DEF Handle
<1>2. ASSUME NEW s \in Sources, AuthRefused(s) \/ HandshakeGarbled(s) \/ PeerEnds(s) \/ Close(s)
      PROVE  FlowInv'
  BY <1>2, ConnectionFlow, OwnerFlow
<1>3. ASSUME NEW s \in Sources, NEW a \in Answers, NEW b \in Answers, Receive(s, a, b)
      PROVE  FlowInv'
  BY <1>3, ReceiveFlow
<1>4. CASE Take
  BY <1>4, TakeFlow
<1>5. CASE StopRecording \/ UNCHANGED vars
  BY <1>5, OwnerFlow
<1> QED
  BY <1>1, <1>2, <1>3, <1>4, <1>5 DEF Next

\* The inductive invariant: which events are left over where, and what the
\* rings hold of them.
THEOREM FlowInvariant == Spec => [](BackoffInv /\ RestTypeOK /\ FlowInv)
<1> QED
  BY BackoffInit, BackoffStep, FlowInit, RestStep, FlowStep, PTL DEF Spec

\* The delays stay below the cap, however many failures the exponent counts.
THEOREM FeedTypes == Spec => []FeedTypeOK
<1>1. ASSUME NEW k \in Nat
      PROVE  2^k \in Nat
  <2>1. IsFiniteSet(1..k) /\ Cardinality(1..k) = k
    <3>1. IsFiniteSet(1..k) /\ Cardinality(1..k) = IF 1 > k THEN 0 ELSE k - 1 + 1
      BY FS_Interval
    <3> QED
      BY <3>1
  <2>2. IsFiniteSet(SUBSET (1..k)) /\ Cardinality(SUBSET (1..k)) = 2^Cardinality(1..k)
    BY <2>1, FS_SUBSET
  <2>3. Cardinality(SUBSET (1..k)) \in Nat
    BY <2>2, FS_CardinalityType
  <2> QED
    BY <2>1, <2>2, <2>3
<1>2. Delays \subseteq 0..BackoffCap
  <2>1. ASSUME NEW k \in Nat
        PROVE  Smaller(BackoffCap, 2^k) \in 0..BackoffCap
    <3>1. PICK m \in Nat : m = 2^k
      BY <1>1
    <3>2. Smaller(BackoffCap, m) \in 0..BackoffCap
      BY <3>1, FeedAssumption DEF Smaller
    <3> QED
      BY <3>1, <3>2
  <2>2. 0 \in 0..BackoffCap
    BY FeedAssumption
  <2> QED
    BY <2>1, <2>2 DEF Delays
<1>3. BackoffInv /\ RestTypeOK => FeedTypeOK
  <2> SUFFICES ASSUME BackoffInv, RestTypeOK
               PROVE  FeedTypeOK
    OBVIOUS
  <2>1. delay \in [Sources -> 0..BackoffCap]
    BY <1>2 DEF BackoffInv, BackoffTypeOK
  <2> QED
    BY <2>1 DEF BackoffInv, BackoffTypeOK, RestTypeOK, FeedTypeOK
<1> QED
  BY <1>3, FlowInvariant, PTL

\* Nothing a source yields is lost, doubled or overtaken on its way through
\* the queue it shares, whoever waits for room, however often it reconnects
\* and whenever the recorder cancels it (IngestStage.run).
THEOREM OrderKept == Spec => []QueueKeepsOrder
<1>1. FlowInv => QueueKeepsOrder
  BY DEF FlowInv
<1> QED
  BY <1>1, FlowInvariant, PTL

LEMMA TailHeld == FlowInv => RingsHoldTheTail
<1> SUFFICES ASSUME FlowInv, NEW s \in Sources, NEW p \in Products
             PROVE  /\ ring[s][p].count = Smaller(Len(Ticks(s, p)), Depth)
                    /\ \A n \in 0..ring[s][p].count :
                         R!LastValues(ring[s][p], n) =
                           [k \in 1..n |-> Ticks(s, p)[Len(Ticks(s, p)) - n + k].n]
                    /\ ring[s][p].count > 0 => R!Latest(ring[s][p]) = Last(Ticks(s, p)).n
  BY DEF RingsHoldTheTail
<1>1. ring[s][p] \in Ring /\ Ticks(s, p) \in Seq(Events) /\ RingHolds(ring[s][p], Ticks(s, p))
  <2>1. yielded[s] \in Seq(Events)
    BY EventsAreEvents DEF FlowInv, FlowTypeOK
  <2>2. Ticks(s, p) \in Seq(Events)
    BY <2>1, FilterType DEF Ticks
  <2> QED
    BY <2>2 DEF FlowInv, FlowTypeOK, TicksHeld
<1> QED
  BY <1>1, LastHolds DEF RingHolds

\* Drained, the consumer has counted each symbol's trades: no two sources
\* share a symbol.
LEMMA CountsAgree == FlowInv => SoakReportSound
<1> SUFFICES ASSUME FlowInv, queue = <<>>, \A s \in Sources : InHand(s) = <<>>,
                    NEW s \in Sources, NEW p \in Products
             PROVE  CountsOk(s, p)
  BY DEF SoakReportSound, FinalReport
<1> DEFINE wanted == {e \in Events : e.kind = "trade" /\ e.product = p}
<1>1. taken \in Seq(Events) /\ taken \o <<>> = taken
  BY ConcatEmptySeq DEF FlowInv, FlowTypeOK
<1>2. Filter(taken, EventsOf(s)) = yielded[s]
  <2>1. Filter(taken, EventsOf(s)) \in Seq(Events)
    BY <1>1, FilterType
  <2>2. Filter(taken, EventsOf(s)) \o <<>> = Filter(taken, EventsOf(s))
    BY <2>1, ConcatEmptySeq
  <2> QED
    BY <1>1, <2>2 DEF FlowInv, QueueKeepsOrder
<1>3. {x \in Events : x \in EventsOf(s) /\ x \in wanted} =
        {e \in Events : e.sym = SymbolOf(s, p) /\ e.kind = "trade"}
  <2>1. ASSUME NEW e \in Events
        PROVE  (e.source = s /\ e.product = p) <=> e.sym = SymbolOf(s, p)
    <3>1. e.source \in Sources /\ e.product \in Products /\ e.sym = SymbolOf(e.source, e.product)
      BY DEF Events
    <3>2. ASSUME NEW t \in Sources, NEW q \in Products, SymbolOf(t, q) = SymbolOf(s, p)
          PROVE  t = s /\ q = p
      <4>1. CASE t \in Keyed <=> s \in Keyed
        <5>1. t = s
          BY <4>1, FeedAssumption
        <5>2. CASE s \in Keyed
          BY <3>2, <5>1, <5>2 DEF SymbolOf
        <5>3. CASE s \notin Keyed
          <6>1. <<"CB", q>> = <<"CB", p>>
            BY <3>2, <5>1, <5>3 DEF SymbolOf
          <6> QED
            BY <5>1, <6>1
        <5> QED
          BY <5>2, <5>3
      <4>2. CASE t \in Keyed /\ s \notin Keyed
        BY <3>2, <4>2, FeedAssumption DEF SymbolOf
      <4>3. CASE t \notin Keyed /\ s \in Keyed
        BY <3>2, <4>3, FeedAssumption DEF SymbolOf
      <4> QED
        BY <4>1, <4>2, <4>3
    <3> QED
      BY <3>1, <3>2
  <2> QED
    BY <2>1 DEF EventsOf
<1>4. Ticks(s, p) = Filter(Filter(taken, EventsOf(s)), wanted)
  BY <1>2 DEF Ticks
<1> HIDE DEF wanted
<1>5. Ticks(s, p) = Filter(taken, {e \in Events : e.sym = SymbolOf(s, p) /\ e.kind = "trade"})
  BY <1>1, <1>3, <1>4, FilterFilter
<1>6. Len(Ticks(s, p)) = TradesCounted(SymbolOf(s, p))
  BY <1>5 DEF TradesCounted
<1> QED
  BY <1>6 DEF CountsOk, FlowInv, TicksHeld, RingHolds

\* A ring gives back the last ticks of its symbol in their order, before and
\* after it wraps (RingBuffer.push, last, latest), and a drained soak's report
\* finds what it compares equal (validate_ingest.py).
THEOREM RingsRight == Spec => []RingsSound
<1>1. FlowInv => RingsSound
  BY TailHeld, CountsAgree DEF RingsSound
<1> QED
  BY <1>1, FlowInvariant, PTL
=============================================================================
