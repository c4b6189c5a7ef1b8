----------------------------- MODULE RingBuffer -----------------------------
(***************************************************************************)
(* The circular buffers of the hot path (signals/data/ringbuffer.py):      *)
(* `buf' has one cell per unit of capacity, `head' is the next cell to     *)
(* write and `count' how many cells were ever written.                     *)
(***************************************************************************)
EXTENDS Naturals, Sequences

CONSTANT Capacity  \* cells of a buffer, at least one

EmptyRing == [buf |-> [i \in 0..(Capacity - 1) |-> 0], head |-> 0, count |-> 0]

Push(r, value) ==
    [buf   |-> [r.buf EXCEPT ![r.head] = value],
     head  |-> (r.head + 1) % Capacity,
     count |-> IF r.count < Capacity THEN r.count + 1 ELSE r.count]

\* buf[from:to], as a sequence.
Slice(buf, from, to) == [k \in 1..(to - from) |-> buf[from + k - 1]]

Latest(r) == r.buf[(r.head + Capacity - 1) % Capacity]

\* Fault: a full buffer read as if it had not wrapped.
LastUnwrapped(r, n) ==
    LET start == IF r.head >= n THEN r.head - n ELSE 0 IN Slice(r.buf, start, r.head)

\* The most recent n values, oldest first, for n <= count.
LastValues(r, n) ==
    LET start == (r.head + Capacity - n) % Capacity IN
    IF n = 0 THEN <<>>
    ELSE IF start < r.head THEN Slice(r.buf, start, r.head)
    ELSE Slice(r.buf, start, Capacity) \o Slice(r.buf, 0, r.head)

=============================================================================
