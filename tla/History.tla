------------------------------ MODULE History -------------------------------
(***************************************************************************)
(* The dashboards (scripts/gen_dashboard.py, scripts/gen_stocks_app.py):   *)
(* cron renders a page from the status another process writes, and keeps   *)
(* one line of history per status.  The two scripts do the same with files *)
(* of their own; a behaviour is that of either.  Of a line only its ts     *)
(* matters, and whether it can be read; the page itself is left out.       *)
(***************************************************************************)
EXTENDS Loops, SequencesExt

CONSTANTS
    HISTORY_KEEP, HISTORY_PRUNE_AT,  \* 20000 and 30000 lines
    ChartWindow,                     \* window_s of a job
    MaxTs,                           \* bound: time
    MaxDeaths                        \* bound: renders that are killed

ASSUME HistoryAssumption ==
    /\ HISTORY_KEEP \in Nat \ {0} /\ HISTORY_PRUNE_AT \in Nat /\ HISTORY_KEEP <= HISTORY_PRUNE_AT
    /\ ChartWindow \in Nat /\ MaxTs \in Nat /\ MaxDeaths \in Nat

VARIABLES
    time,         \* time.time()
    shown,        \* the status file: its ts, 0 if there is none
    lines,        \* the history: the ts of each line, 0 if it cannot be read
    ended,        \* its last line has its newline
    logged,       \* observer: every status a render saw and had not logged
    deaths        \* observer: what the killed renders were doing

historyVars == <<time, shown, lines, ended, logged, deaths>>

HistoryInit ==
    /\ time = 1 /\ shown = 0 /\ lines = <<>> /\ ended = TRUE /\ logged = <<>> /\ deaths = <<>>

\* Written by another process and replaced at once; or gone with a new checkout.
StatusAppears ==
    /\ time < MaxTs /\ time' = time + 1
    /\ shown' \in {0, time'}
    /\ UNCHANGED <<lines, ended, logged, deaths>>
-----------------------------------------------------------------------------
(* append_history.                                                         *)

LastTs(s) == IF s = <<>> THEN 0 ELSE Last(s)

\* Fault: the lines kept are the first ones.
KeepFirst(s) == IF Len(s) > HISTORY_PRUNE_AT THEN SubSeq(s, 1, HISTORY_KEEP) ELSE s

Pruned(s) ==
    IF Len(s) > HISTORY_PRUNE_AT THEN SubSeq(s, Len(s) - HISTORY_KEEP + 1, Len(s)) ELSE s

\* Fault: a status is logged whether or not it is the last one.
LogsAlways == shown # 0

\* The ts of the last line is read before the file is pruned.
Logs == shown # 0 /\ shown # LastTs(lines)

\* An append to a line without its end makes one unreadable line of the two.
Glued(s, ts, whole) ==
    IF whole THEN Append(s, ts) ELSE [s EXCEPT ![Len(s)] = 0]

Noted == IF Logs /\ LastTs(logged) # shown THEN Append(logged, shown) ELSE logged

\* Pruning writes the file anew, newline and all.
Whole == ended \/ Len(lines) > HISTORY_PRUNE_AT

append_history ==
    /\ lines' = IF Logs THEN Glued(Pruned(lines), shown, Whole) ELSE IF shown # 0 THEN Pruned(lines) ELSE lines
    /\ ended' = (ended \/ (shown # 0 /\ Len(lines) > HISTORY_PRUNE_AT) \/ Logs)
    /\ logged' = Noted
    /\ UNCHANGED <<time, shown, deaths>>

\* Killed, or the disk full, in the append: a line cut short, at most of all
\* but its newline.
DiesAppending ==
    /\ Logs /\ Len(deaths) < MaxDeaths
    /\ \E ts \in {0, shown} : lines' = Glued(Pruned(lines), ts, Whole)
    /\ ended' = FALSE
    /\ logged' = Noted
    /\ deaths' = Append(deaths, "appending")
    /\ UNCHANGED <<time, shown>>

\* write_text truncates the file first: any part of it may be all there is, and
\* its last line may lack the newline or more.
DiesPruning ==
    /\ shown # 0 /\ Len(lines) > HISTORY_PRUNE_AT /\ Len(deaths) < MaxDeaths
    /\ \E n \in 0..HISTORY_KEEP :
         \/ lines' = SubSeq(Pruned(lines), 1, n) /\ ended' \in {TRUE, n = 0}
         \/ n < HISTORY_KEEP /\ lines' = Append(SubSeq(Pruned(lines), 1, n), 0) /\ ended' = FALSE
    /\ deaths' = Append(deaths, "pruning")
    /\ UNCHANGED <<time, shown, logged>>

HistoryNext == StatusAppears \/ append_history \/ DiesAppending \/ DiesPruning

HistorySpec == HistoryInit /\ [][HistoryNext]_historyVars
-----------------------------------------------------------------------------
\* load_history: the lines that can be read, as long as they are young enough.
Young == {ts \in Nat \ {0} : ts + ChartWindow >= time}
load_history == Filter(lines, Young)

\* "One JSONL snapshot per cron tick; pruned so the file never grows unbounded"
\* (gen_dashboard.py:129): the chart is in order and no status is in it twice,
\* whatever was cut short; the file never holds more than a line beyond the
\* limit; and as long as no pruning was interrupted the latest statuses, as
\* many as are kept, are all there but two for each append cut short.
HistoryKept ==
    /\ \A i, j \in DOMAIN load_history : i < j => load_history[i] < load_history[j]
    /\ Len(lines) <= HISTORY_PRUNE_AT + 1
    /\ "pruning" \notin Range(deaths) =>
         LET n == IF Len(logged) < HISTORY_KEEP THEN Len(logged) ELSE HISTORY_KEEP
             missing == {i \in (Len(logged) - n + 1)..Len(logged) : logged[i] \notin Range(lines)}
         IN  Cardinality(missing) <= 2 * Len(deaths)
=============================================================================
