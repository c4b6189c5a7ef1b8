---------------------------- MODULE StocksAlerts ----------------------------
(***************************************************************************)
(* The equities session (scripts/stocks_live.py) as its watcher sees it,   *)
(* and the watcher (scripts/stocks_alerts.py), which cron runs every five  *)
(* minutes.  The session counts an event, puts it into a queue that makes  *)
(* it wait when full, and every now and then writes status_stocks.json, in *)
(* the same loop; a writer empties the queue.  What the books and the real *)
(* orders add to the status, the disk and the log of the plain recorder    *)
(* are left out: the watcher compares them field by field as it does here. *)
(***************************************************************************)
EXTENDS Naturals

CONSTANTS
    QueueCap,      \* maxsize of the session's queue (250000)
    QueueWarn,     \* QUEUE_CAP * QUEUE_WARN
    StatusEvery,   \* most events between two writes of the status (30 s of them)
    MaxCount,      \* bound: events of one session
    MaxSessions    \* bound: sessions

\* The queue does not go from the warning level to full between two writes.
ASSUME StocksAlertsAssumption ==
    /\ QueueWarn \in Nat /\ QueueWarn > 0 /\ StatusEvery \in Nat \ {0}
    /\ QueueCap \in Nat /\ QueueWarn + StatusEvery <= QueueCap
    /\ MaxCount \in Nat /\ MaxSessions \in Nat \ {0}

VARIABLES
    session,    \* the session: counters, and the events since its last status
    stuck,      \* the writer makes no progress
    report,     \* status_stocks.json
    hours,      \* the market is open
    seen,       \* stocks_alert_state.json
    alarmed,    \* observer: a stall or a backlog was reported in this session
    looked,     \* observer: a look took place since the session blocks
    carried     \* observer: seen still holds the backlog of an earlier session

watchVars == <<session, stuck, report, hours, seen, alarmed, looked, carried>>

Nothing == [events |-> 0, rows |-> 0, q_hwm |-> 0]

WatchInit ==
    /\ session = [up |-> FALSE, no |-> 0, since |-> 0, counts |-> Nothing]
    /\ stuck = FALSE /\ report = Nothing /\ hours = TRUE
    /\ seen = [state |-> "none", counts |-> Nothing]
    /\ alarmed = FALSE /\ looked = FALSE /\ carried = FALSE

Counts == session.counts
Backlog == Counts.events - Counts.rows

\* One event more than the queue holds is in hand, in the put that waits.
Blocked == session.up /\ Backlog > QueueCap
-----------------------------------------------------------------------------
(* The session.                                                            *)

SessionStarts ==
    /\ ~session.up /\ session.no < MaxSessions
    /\ session' = [up |-> TRUE, no |-> session.no + 1, since |-> 0, counts |-> Nothing]
    /\ stuck' = FALSE /\ alarmed' = FALSE /\ looked' = FALSE
    /\ carried' = (seen.counts.q_hwm >= QueueWarn)
    /\ UNCHANGED <<report, hours, seen>>

Larger(a, b) == IF a < b THEN b ELSE a

\* An event: counted, put, the high-water mark, then perhaps the status.  A
\* put that has to wait leaves it at the count.
SessionEvent(writes) ==
    /\ session.up /\ ~Blocked /\ Counts.events < MaxCount
    /\ LET events == Counts.events + 1
           waits == events - Counts.rows > QueueCap
           hwm == IF waits THEN Counts.q_hwm ELSE Larger(Counts.q_hwm, events - Counts.rows)
           counts == [Counts EXCEPT !.events = events, !.q_hwm = hwm]
       IN  /\ waits => ~writes
           /\ ~waits /\ session.since + 1 >= StatusEvery => writes
           /\ session' = [session EXCEPT !.counts = counts, !.since = IF writes THEN 0 ELSE @ + 1]
           /\ report' = IF writes THEN counts ELSE report
    /\ looked' = FALSE
    /\ UNCHANGED <<stuck, hours, seen, alarmed, carried>>

\* Taken and inserted; a put that waited goes on.
WriterWrites ==
    /\ session.up /\ ~stuck /\ Backlog > 0
    /\ session' = [session EXCEPT !.counts.rows = @ + 1,
                                  !.counts.q_hwm = IF Blocked THEN QueueCap ELSE @]
    /\ looked' = FALSE
    /\ UNCHANGED <<stuck, report, hours, seen, alarmed, carried>>

\* Slow beyond use, or dead of an insert that raised.
WriterSticks ==
    /\ session.up /\ stuck' = ~stuck
    /\ UNCHANGED <<session, report, hours, seen, alarmed, looked, carried>>

\* The duration is over, which only an event can find out: what the writer
\* still can is written, and the status a last time.
SessionEnds ==
    /\ session.up /\ ~Blocked
    /\ \E rows \in {Counts.rows, Counts.events} : report' = [Counts EXCEPT !.rows = rows]
    /\ session' = [session EXCEPT !.up = FALSE] /\ looked' = FALSE
    /\ UNCHANGED <<stuck, hours, seen, alarmed, carried>>

SessionDies ==
    /\ session.up /\ session' = [session EXCEPT !.up = FALSE] /\ looked' = FALSE
    /\ UNCHANGED <<stuck, report, hours, seen, alarmed, carried>>

MarketTurns ==
    /\ hours' = ~hours
    /\ UNCHANGED <<session, stuck, report, seen, alarmed, looked, carried>>
-----------------------------------------------------------------------------
(* The watcher.                                                            *)

\* main: the state of the capture, from the hours, the process table and two
\* looks at the status.  Before the first look no row was seen (rows -1).
State ==
    IF ~hours THEN "closed"
    ELSE IF ~session.up THEN "down"
    ELSE IF /\ report.events > seen.counts.events
            /\ seen.state # "none" /\ report.rows = seen.counts.rows
         THEN "stalled" ELSE "open"

Stalls == State = "stalled" /\ seen.state # "stalled"

\* Fault: the warning waits for the cap itself.
BacklogWarnedAtCap == report.q_hwm >= QueueCap /\ QueueCap > seen.counts.q_hwm

BacklogWarned == report.q_hwm >= QueueWarn /\ QueueWarn > seen.counts.q_hwm

\* detect, and the state is stored whether the message was sent or not.
WatcherLooks ==
    /\ seen' = [state |-> State, counts |-> report]
    /\ alarmed' = (alarmed \/ Stalls \/ BacklogWarned)
    /\ looked' = Blocked
    /\ carried' = (carried /\ report.q_hwm >= QueueWarn)
    /\ UNCHANGED <<session, stuck, report, hours>>

WatchNext ==
    \/ SessionStarts \/ WriterWrites \/ WriterSticks \/ SessionEnds \/ SessionDies
    \/ \E writes \in BOOLEAN : SessionEvent(writes)
    \/ MarketTurns \/ WatcherLooks

WatchSpec == WatchInit /\ [][WatchNext]_watchVars
-----------------------------------------------------------------------------
\* "If it ever does [block], the stocks_alerts queue/stall alarms fire rather
\* than data quietly vanishing" (stocks_live.py:205): a session that waits for
\* room in its queue and was looked at since has been reported, at the latest
\* by this look, though its status is frozen; unless the watcher still holds
\* the backlog of an earlier session.
BlockedReported == Blocked /\ looked /\ ~carried => alarmed
=============================================================================
