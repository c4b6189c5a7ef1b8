---------------------------- MODULE CryptoAlerts ----------------------------
(***************************************************************************)
(* The alert job of the crypto pipeline (scripts/alerts.py), run by cron   *)
(* every five minutes and once a day with --daily.  It sees the pipeline   *)
(* through data/status.json only and remembers its last look in            *)
(* logs/alert_state.json.  The alerts on order errors and on the breaker   *)
(* compare a field of the two states as the one on orders does, and are    *)
(* left out, and so are the amounts of a message.                          *)
(***************************************************************************)
EXTENDS Naturals

CONSTANTS
    MaxOrders,   \* bound: orders of one process
    MaxProcs     \* bound: starts of the pipeline

ASSUME CryptoAlertsAssumption == MaxOrders \in Nat /\ MaxProcs \in Nat \ {0}

VARIABLES
    pipe,       \* the pipeline: whether it runs, which start, its counter of orders
    status,     \* status.json
    aged,       \* it is older than 300 seconds
    prev,       \* alert_state.json
    told,       \* observer: how often each order was reported: 0, 1, 2 or more
    said,       \* observer: the last word on OFFLINE or back LIVE
    excuses     \* observer: what disturbed the job's view so far

alertVars == <<pipe, status, aged, prev, told, said, excuses>>

None == [none |-> TRUE]
Orders == (1..MaxProcs) \X (1..MaxOrders)

AlertInit ==
    /\ pipe = [up |-> TRUE, start |-> 1, orders |-> 0]
    /\ status = None /\ aged = FALSE /\ prev = None
    /\ told = [o \in Orders |-> 0] /\ said = "nothing" /\ excuses = {}
-----------------------------------------------------------------------------
(* The pipeline, as far as its status shows it.                            *)

PipelineOrders ==
    /\ pipe.up /\ pipe.orders < MaxOrders
    /\ pipe' = [pipe EXCEPT !.orders = @ + 1]
    /\ UNCHANGED <<status, aged, prev, told, said, excuses>>

\* _write_status: replaced at once, a reader never meets half a file.
StatusWritten ==
    /\ pipe.up
    /\ status' = [orders |-> pipe.orders, start |-> pipe.start] /\ aged' = FALSE
    /\ UNCHANGED <<pipe, prev, told, said, excuses>>

PipelineStops ==
    /\ pipe.up /\ pipe' = [pipe EXCEPT !.up = FALSE]
    /\ UNCHANGED <<status, aged, prev, told, said, excuses>>

\* The counter of orders starts from zero.
PipelineRestarts ==
    /\ ~pipe.up /\ pipe.start < MaxProcs
    /\ pipe' = [up |-> TRUE, start |-> pipe.start + 1, orders |-> 0]
    /\ UNCHANGED <<status, aged, prev, told, said, excuses>>

StatusAges ==
    /\ ~pipe.up /\ ~aged /\ aged' = TRUE
    /\ UNCHANGED <<pipe, status, prev, told, said, excuses>>

\* Removed, or not readable.
StatusLost ==
    /\ status # None /\ status' = None
    /\ UNCHANGED <<pipe, aged, prev, told, said, excuses>>
-----------------------------------------------------------------------------
(* The job.                                                                *)

\* condense: without a status the counter is zero and the age endless.
condense ==
    IF status = None THEN [fresh |-> "offline", orders |-> 0, start |-> 0]
    ELSE [fresh |-> IF aged THEN "offline" ELSE "live", orders |-> status.orders, start |-> status.start]

OrdersBefore == IF prev = None THEN 0 ELSE prev.orders

\* Fault: an unchanged counter is taken for an order.
AnyOrders == condense.orders > 0 /\ condense.orders >= OrdersBefore

\* detect_alerts: of all the orders since the last look the last one is shown.
NewOrders == condense.orders > OrdersBefore

Turns(to) == prev # None /\ condense.fresh = to /\ prev.fresh # to

Disturbed ==
    (IF status = None THEN {"blank"} ELSE {})
    \cup (IF prev # None /\ prev.start # condense.start THEN {"restart"} ELSE {})

Twice(n) == IF n = 0 THEN 1 ELSE 2

Look ==
    /\ prev' = condense
    /\ told' = IF NewOrders THEN [told EXCEPT ![<<condense.start, condense.orders>>] = Twice(@)] ELSE told
    /\ said' = IF Turns("offline") THEN "offline" ELSE IF Turns("live") THEN "live" ELSE said
    /\ excuses' = excuses \cup Disturbed
    /\ UNCHANGED <<pipe, status, aged>>

\* --daily: a summary in place of the alerts, and the state is stored all the same.
LookDaily ==
    /\ prev' = condense
    /\ excuses' = excuses \cup Disturbed \cup {"daily"}
    /\ UNCHANGED <<pipe, status, aged, told, said>>

AlertNext ==
    \/ PipelineOrders \/ StatusWritten \/ PipelineStops \/ PipelineRestarts
    \/ StatusAges \/ StatusLost \/ Look \/ LookDaily

AlertSpec == AlertInit /\ [][AlertNext]_alertVars
-----------------------------------------------------------------------------
\* "Alert on STATE TRANSITIONS only — no spam" (alerts.py:11): no order is
\* reported twice unless a look in between found no status; the newest order
\* a look saw was reported unless a restart, whose counter begins anew, or a
\* daily run came between; and what was said last of OFFLINE or LIVE is what
\* the job last saw, unless a daily run stored the change unsaid.
AlertsTruthful ==
    /\ \A o \in Orders : told[o] > 1 => "blank" \in excuses
    /\ prev # None /\ prev.orders > 0 /\ excuses \subseteq {"blank"} => told[<<prev.start, prev.orders>>] > 0
    /\ said # "nothing" /\ "daily" \notin excuses => said = prev.fresh
=============================================================================
