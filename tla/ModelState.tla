----------------------------- MODULE ModelState -----------------------------
(***************************************************************************)
(* What of the crypto pipeline outlives its process: model_state.pkl, the  *)
(* pickled pipes of every symbol (signals/pipeline.py), read once at the   *)
(* start and replaced every SaveEvery status ticks and at the end of run().*)
(* A pipe holds what its model learned and the predictions whose labels    *)
(* wait for their horizon; of each only its time counts, which is its own. *)
(***************************************************************************)
EXTENDS Integers, Sequences, SequencesExt

CONSTANTS
    SaveEvery,     \* status ticks between two saves (10)
    Signatures,    \* values of _state_sig
    LabelHorizon,  \* horizon_s
    MaxMoment,     \* bound: time
    MaxStarts      \* bound: starts of the service

ASSUME ModelStateAssumption ==
    /\ SaveEvery \in Nat \ {0} /\ LabelHorizon \in Nat \ {0}
    /\ MaxMoment \in Nat /\ MaxStarts \in Nat
    /\ "none" \notin Signatures /\ "torn" \notin Signatures

VARIABLES
    moment,    \* time of the last quote
    proc,      \* the process
    saved,     \* model_state.pkl
    starts,    \* how often the service was started
    durable    \* observer: what was saved last

modelVars == <<moment, proc, saved, starts, durable>>

Down == [up |-> FALSE]
NoFile == [sig |-> "none"]
Torn == [sig |-> "torn"]

Fresh(sig) == [up |-> TRUE, sig |-> sig, ticks |-> 0, learned |-> <<>>, queue |-> <<>>]

ModelInit ==
    /\ moment = 0 /\ proc = Down /\ saved = NoFile /\ starts = 0 /\ durable = NoFile
-----------------------------------------------------------------------------
\* A pickle of another signature, or one that cannot be read, is not used:
\* "corrupt/stale state must never block startup".
Usable(file, sig) == file.sig = sig

_load_state(sig) ==
    IF Usable(saved, sig)
    THEN [Fresh(sig) EXCEPT !.learned = saved.learned, !.queue = saved.queue]
    ELSE Fresh(sig)

\* systemd restarts the service; a deployment may bring another signature.
Starts(sig) ==
    /\ ~proc.up /\ starts < MaxStarts
    /\ starts' = starts + 1
    /\ proc' = _load_state(sig)
    /\ UNCHANGED <<moment, saved, durable>>

\* pop_ready: from the left, as long as the horizon has elapsed at a quote.
DueCount(queue, at) ==
    CHOOSE n \in 0..Len(queue) :
        /\ \A i \in 1..n : at >= queue[i] + LabelHorizon
        /\ n < Len(queue) => ~(at >= queue[n + 1] + LabelHorizon)

\* A quote, as long after the last one as it may be, resolves every label that
\* is due, restored or not; with a vector the model predicts again.
Quotes(at, predicts) ==
    /\ proc.up /\ moment' = at
    /\ LET n == DueCount(proc.queue, at)
           rest == SubSeq(proc.queue, n + 1, Len(proc.queue))
       IN  proc' = [proc EXCEPT !.learned = @ \o SubSeq(proc.queue, 1, n),
                                !.queue = IF predicts THEN Append(rest, at) ELSE rest]
    /\ UNCHANGED <<saved, starts, durable>>

_save_state ==
    /\ saved' = [sig |-> proc.sig, learned |-> proc.learned, queue |-> proc.queue]
    /\ durable' = saved'

\* _status_loop; a save that raises is logged, and the old file stays.
StatusTicks ==
    /\ proc.up
    /\ proc' = [proc EXCEPT !.ticks = (@ + 1) % SaveEvery]
    /\ \/ proc'.ticks = 0 /\ _save_state
       \/ UNCHANGED <<saved, durable>>
    /\ UNCHANGED <<moment, starts>>

\* run() ends, or the process is killed between two steps.
Exits == proc.up /\ proc' = Down /\ _save_state /\ UNCHANGED <<moment, starts>>

\* Fault: the pickle is written in place.
KilledInPlace == saved' = Torn

\* The pickle is written aside and put in place at once: even a kill in the
\* midst of a save leaves the old file.
KilledInSave == saved' = saved

Killed ==
    /\ proc.up /\ proc' = Down
    /\ KilledInSave
    /\ UNCHANGED <<moment, starts, durable>>

ModelNext ==
    \/ \E sig \in Signatures : Starts(sig)
    \/ \E at \in (moment + 1)..MaxMoment, predicts \in BOOLEAN : Quotes(at, predicts)
    \/ StatusTicks \/ Exits \/ Killed

ModelSpec == ModelInit /\ [][ModelNext]_modelVars
-----------------------------------------------------------------------------
OnceEach(s) == \A i, j \in DOMAIN s : i < j => s[i] < s[j]

\* "Learning survives restarts/deploys" (pipeline.py:128).  Wherever it was
\* killed, a process has learned, in its order, all that the last save under
\* its signature held and then more; no label is learned twice, out of turn or
\* while it still waits, though labels that were learned after a save wait
\* again after a kill; and of a queue that is restored no label that was due at
\* a quote waits on, however many of them fell due in the outage (labels.py:62).
LearningKept ==
    proc.up =>
        /\ durable.sig = proc.sig => IsPrefix(durable.learned, proc.learned)
        /\ OnceEach(proc.learned \o proc.queue)
        /\ \A i, j \in DOMAIN proc.queue : proc.queue[i] + LabelHorizon > proc.queue[j]
=============================================================================
