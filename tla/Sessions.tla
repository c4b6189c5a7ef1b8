------------------------------ MODULE Sessions ------------------------------
(***************************************************************************)
(* The session tape and the jobs that work on it, each a process of its    *)
(* own started by cron or by hand: the capture (run_equities_capture.sh,   *)
(* with its retention), the nightly digest and its backfill                *)
(* (equities_digest.py), the archive (archive_sessions.py).  They share    *)
(* the directory of session databases, the archive and the history file,   *)
(* and know nothing of each other.  A job may be killed at any step.       *)
(***************************************************************************)
EXTENDS Integers, FiniteSets, SequencesExt, FiniteSetsExt, Loops

CONSTANTS
    MaxDay,        \* bound: the days are 1..MaxDay
    KeepSessions,  \* databases the retention leaves (30)
    KeepDays,      \* age at which a session may be archived, at least 2
    Window,        \* GREEN_WINDOW
    DecisionN,     \* DECISION_N
    PhaseVar,      \* PHASE_SIGMA squared
    Net,           \* net result of the tracked name in a day's session
    Excluded,      \* days in logs/excluded_sessions.txt, kept by hand
    TABLES,        \* the tables, in the order they are archived
    Filled,        \* those that hold rows
    MaxRows,       \* bound: rows of the history
    MaxPaths,      \* bound: databases named to one backfill
    MaxJobs        \* bound: jobs started

Days == 1..MaxDay

ASSUME SessionsAssumption ==
    /\ MaxDay \in Nat \ {0} /\ KeepSessions \in Nat \ {0} /\ KeepDays \in Nat /\ KeepDays >= 2
    /\ Window \in Nat /\ Window >= 2 /\ DecisionN \in Nat /\ PhaseVar \in Nat
    /\ Net \in [Days -> Int] /\ Excluded \subseteq Days
    /\ TABLES \in Seq(Range(TABLES)) /\ Filled \subseteq Range(TABLES)
    /\ MaxRows \in Nat /\ MaxPaths \in Nat /\ MaxJobs \in Nat

VARIABLES
    today,      \* the date
    db,         \* data/equities_<day>.duckdb
    copies,     \* data/archive/<day>/<table>.parquet
    history,    \* the days of logs/equities_digest_history.jsonl, in file order
    digest,     \* the nightly job
    backfill,   \* the digest run with --backfill
    archive,    \* the archive job
    again,      \* observer: times a day was taken in hand that already was,
                \* by the other scoring job or earlier in a backfill's list
    jobs        \* bound

sessionVars == <<today, db, copies, history, digest, backfill, archive, again, jobs>>

Exists(d) == db[d] \in {"open", "closed"}
Idle == [stage |-> "idle"]

SessionsInit ==
    /\ today = 1
    /\ db = [d \in Days |-> "none"]
    /\ copies = [d \in Days |-> [t \in Filled |-> "none"]]
    /\ history = <<>>
    /\ digest = Idle /\ backfill = Idle /\ archive = Idle
    /\ again = 0 /\ jobs = 0
-----------------------------------------------------------------------------
(* The capture.                                                            *)

\* A session is over before midnight: --duration ends it at the close.
NewDay ==
    /\ today < MaxDay /\ db[today] # "open"
    /\ today' = today + 1
    /\ UNCHANGED <<db, copies, history, digest, backfill, archive, again, jobs>>

\* ls -1t | tail -n +31 | rm, by age and whatever became of the archive.
Purged == {d \in Days : Exists(d) /\ Cardinality({e \in Days : Exists(e) /\ e > d}) >= KeepSessions}

CaptureStart ==
    /\ db[today] \in {"none", "closed"}
    /\ db' = [d \in Days |-> IF d = today THEN "open" ELSE IF d \in Purged THEN "purged" ELSE db[d]]
    /\ UNCHANGED <<today, copies, history, digest, backfill, archive, again, jobs>>

\* The close of the session, or a capture that died.
CaptureEnd ==
    /\ db[today] = "open"
    /\ db' = [db EXCEPT ![today] = "closed"]
    /\ UNCHANGED <<today, copies, history, digest, backfill, archive, again, jobs>>
-----------------------------------------------------------------------------
(* The digest.                                                             *)

JobStarts == jobs < MaxJobs /\ jobs' = jobs + 1

\* Fault: the guard of before 2026-08-07, skipped for an explicit --db.
never_recorded(d) == FALSE

already_recorded(d) == d \in Range(history)

Candidates == {d \in Days : Exists(d) /\ d \notin Excluded}
latest_db == Max(Candidates)

\* The days a scoring job has in hand: it found them unrecorded when it
\* started, and has not yet appended or skipped them.
DigestDays == IF digest.stage = "idle" THEN {} ELSE {digest.day}
BackfillDays == IF backfill.stage = "idle" THEN {} ELSE Range(backfill.todo)

\* main: an open database is locked by its writer and cannot be read.
DigestStarts(d, send) ==
    /\ digest.stage = "idle" /\ JobStarts /\ db[d] = "closed" /\ ~already_recorded(d)
    /\ digest' = [stage |-> "screen", day |-> d, send |-> send]
    /\ again' = again + IF d \in BackfillDays THEN 1 ELSE 0
    /\ UNCHANGED <<today, db, copies, history, backfill, archive>>

DigestLatest == Candidates # {} /\ DigestStarts(latest_db, TRUE)
DigestAsked == \E d \in Days, send \in BOOLEAN : DigestStarts(d, send)

\* The days a report counts: the history, then the day in hand.
Counted(d) == Append(history, d)

\* rolling_green: the last lines of the file, today's result behind them.
WindowOf(rows) == SubSeq(rows, IF Len(rows) > Window THEN Len(rows) - Window + 1 ELSE 1, Len(rows))
rolling_green(rows) ==
    [green |-> Len(SelectSeq(WindowOf(rows), LAMBDA d : Net[d] > 0)), total |-> Len(WindowOf(rows))]

\* cumulative_tally: mean / sqrt(variance + PhaseVar) >= 1, without fractions.
SumOf(rows) == FoldLeft(LAMBDA acc, d : acc + Net[d], 0, rows)
SquaresOf(rows) == FoldLeft(LAMBDA acc, d : acc + Net[d] * Net[d], 0, rows)

cumulative_tally(rows) ==
    LET n == Len(rows)
        sum == SumOf(rows)
        spread == n * (n * SquaresOf(rows) - sum * sum) + PhaseVar * n * n * (n - 1)
    IN  IF n < DecisionN \/ n < 2 \/ spread = 0 THEN "open"
        ELSE IF sum >= 0 /\ sum * sum * (n - 1) >= spread THEN "continue" ELSE "archive"

Report(rows) == [rows |-> rows, rolling |-> rolling_green(rows), verdict |-> cumulative_tally(rows)]

\* screen() reads the database again for every batch of symbols; then the
\* report is made and sent.  With --no-send it is printed, and that is all.
ScreenOver ==
    /\ digest.stage = "screen"
    /\ digest' = IF Exists(digest.day) /\ digest.send
                 THEN [stage |-> "append", day |-> digest.day, report |-> Report(Counted(digest.day))]
                 ELSE Idle
    /\ UNCHANGED <<today, db, copies, history, backfill, archive, again, jobs>>

DigestAppends ==
    /\ digest.stage = "append" /\ Len(history) < MaxRows
    /\ history' = Append(history, digest.day)
    /\ digest' = Idle
    /\ UNCHANGED <<today, db, copies, backfill, archive, again, jobs>>

\* backfill, on the databases it is told.  What is recorded is read once, at the
\* start, and not added to: a day named twice (by two paths, which are sorted as
\* text) is scored twice.
BackfillStarts(days) ==
    /\ backfill.stage = "idle" /\ JobStarts /\ days # <<>>
    /\ LET todo == Filter(days, {d \in Days : ~already_recorded(d)}) IN
         /\ backfill' = [stage |-> "next", todo |-> todo]
         /\ again' = again + Len(todo) - Cardinality(Range(todo) \ DigestDays)
    /\ UNCHANGED <<today, db, copies, history, digest, archive>>

BackfillNext ==
    /\ backfill.stage = "next"
    /\ backfill' = IF backfill.todo = <<>> THEN Idle
                   ELSE IF Exists(Head(backfill.todo)) THEN [backfill EXCEPT !.stage = "screen"]
                   ELSE [backfill EXCEPT !.todo = Tail(@)]
    /\ UNCHANGED <<today, db, copies, history, digest, archive, again, jobs>>

\* A database that is open, or gone meanwhile, raises and ends the job.
BackfillScored ==
    /\ backfill.stage = "screen"
    /\ IF db[Head(backfill.todo)] = "closed"
       THEN /\ Len(history) < MaxRows
            /\ history' = Append(history, Head(backfill.todo))
            /\ backfill' = [stage |-> "next", todo |-> Tail(backfill.todo)]
       ELSE backfill' = Idle /\ UNCHANGED history
    /\ UNCHANGED <<today, db, copies, digest, archive, again, jobs>>
-----------------------------------------------------------------------------
(* The archive.                                                            *)

Old(d) == d < today - KeepDays

ArchiveStarts(dry) ==
    /\ archive.stage = "idle" /\ JobStarts
    /\ \E d \in Days : Exists(d) /\ Old(d)
    /\ archive' = [stage |-> "open", dry |-> dry, ok |-> TRUE, tables |-> <<>>,
                   days |-> {d \in Days : Exists(d) /\ Old(d)}]
    /\ UNCHANGED <<today, db, copies, history, digest, backfill, again>>

Session == Min(archive.days)
Table == Head(archive.tables)

\* archive_db: a database that is gone meanwhile raises and ends the job.
ArchiveOpens ==
    /\ archive.stage = "open"
    /\ archive' = IF archive.days = {} \/ ~Exists(Session) THEN Idle
                  ELSE [archive EXCEPT !.stage = "table", !.ok = TRUE, !.tables = TABLES]
    /\ UNCHANGED <<today, db, copies, history, digest, backfill, again, jobs>>

\* Fault: a copy that is there is taken for good.
ArchivedSomehow(d, t) == copies[d][t] # "none"

\* The copy is there and has as many rows as the table.
Archived(d, t) == copies[d][t] = "whole"

\* A table without rows and one archived before are passed over.
ArchiveSkips ==
    /\ archive.stage = "table" /\ archive.tables # <<>>
    /\ Table \in Filled => Archived(Session, Table)
    /\ archive' = [archive EXCEPT !.tables = Tail(@)]
    /\ UNCHANGED <<today, db, copies, history, digest, backfill, again, jobs>>

\* COPY begins a new file, or replaces one that is too short when it is done;
\* to count the rows of a file that was cut off raises and ends the job.
ArchiveCopies ==
    /\ archive.stage = "table" /\ archive.tables # <<>>
    /\ Table \in Filled /\ ~Archived(Session, Table)
    /\ IF copies[Session][Table] = "torn"
       THEN archive' = Idle /\ UNCHANGED copies
       ELSE /\ archive' = [archive EXCEPT !.stage = "copy"]
            /\ copies' = [copies EXCEPT ![Session][Table] = IF @ = "none" THEN "torn" ELSE @]
    /\ UNCHANGED <<today, db, history, digest, backfill, again, jobs>>

ArchiveVerifies(result) ==
    /\ archive.stage = "copy"
    /\ copies' = [copies EXCEPT ![Session][Table] = result]
    /\ archive' = [archive EXCEPT !.stage = "table", !.tables = Tail(@), !.ok = @ /\ result = "whole"]
    /\ UNCHANGED <<today, db, history, digest, backfill, again, jobs>>

ArchiveDeletes ==
    /\ archive.stage = "table" /\ archive.tables = <<>>
    /\ IF ~Exists(Session)
       THEN archive' = Idle /\ UNCHANGED db
       ELSE /\ db' = [db EXCEPT ![Session] = IF archive.ok /\ ~archive.dry THEN "archived" ELSE @]
            /\ archive' = [archive EXCEPT !.stage = "open", !.days = @ \ {Session}]
    /\ UNCHANGED <<today, copies, history, digest, backfill, again, jobs>>

\* A kill, an exhausted memory, a reboot.
JobKilled ==
    /\ \/ digest.stage # "idle" /\ digest' = Idle /\ UNCHANGED <<backfill, archive>>
       \/ backfill.stage # "idle" /\ backfill' = Idle /\ UNCHANGED <<digest, archive>>
       \/ archive.stage # "idle" /\ archive' = Idle /\ UNCHANGED <<digest, backfill>>
    /\ UNCHANGED <<today, db, copies, history, again, jobs>>

SessionsNext ==
    \/ NewDay \/ CaptureStart \/ CaptureEnd
    \/ DigestLatest \/ DigestAsked \/ ScreenOver \/ DigestAppends
    \/ \E days \in SeqOf(Days, MaxPaths) : BackfillStarts(days)
    \/ BackfillNext \/ BackfillScored
    \/ \E dry \in BOOLEAN : ArchiveStarts(dry)
    \/ ArchiveOpens \/ ArchiveSkips \/ ArchiveCopies
    \/ \E result \in {"short", "whole"} : ArchiveVerifies(result)
    \/ ArchiveDeletes \/ JobKilled

SessionsSpec == SessionsInit /\ [][SessionsNext]_sessionVars
-----------------------------------------------------------------------------
\* A session once captured is there: as a database, or in the archive with
\* every row of every table, whatever job was killed and run again, or else
\* the retention removed it for the newer sessions (archive_sessions.py:1 "the
\* tape is irreplaceable", run_equities_capture.sh:40).
NewerSessions(d) == {e \in Days : e > d /\ db[e] # "none"}

TapeKept ==
    \A d \in Days :
        /\ db[d] = "archived" => \A t \in Filled : copies[d][t] = "whole"
        /\ db[d] = "purged" => Cardinality(NewerSessions(d)) >= KeepSessions

\* Rows beyond the first of their day.
Doubled(rows) == Len(rows) - Cardinality(Range(rows))

Smallest(a, b) == IF a < b THEN a ELSE b

\* Only a day that was taken in hand while it already was (by the other scoring
\* job, or by one backfill twice) is counted twice, once for each time that
\* happened: in the file, and in every report sent.  So without such a
\* coincidence a day has one row, a verdict is given on at least DECISION_N
\* sessions and the rolling figure counts as many sessions as it says, and each
\* coincidence is worth one row (equities_digest.py:163, 357, 390).
TallyHonest ==
    /\ Doubled(history) <= again
    /\ digest.stage = "append" =>
         LET report == digest.report
             sessions == Cardinality(Range(report.rows))
         IN  /\ Doubled(report.rows) <= again
             /\ report.verdict # "open" => sessions + again >= DecisionN
             /\ report.rolling.total \in Smallest(sessions, Window)..Smallest(sessions + again, Window)
=============================================================================
