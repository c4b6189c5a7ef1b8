------------------------------ MODULE AppendLog ------------------------------
(***************************************************************************)
(* What a cold store promises to those who read its tables afterwards: a   *)
(* table holds the records it was given, each once and in the order given, *)
(* up to some point.  It may stop short; it never has a hole.              *)
(***************************************************************************)
EXTENDS Naturals, Sequences, SequencesExt

CONSTANTS Tables, Records

VARIABLES
    given,   \* the records accepted for each table
    stored   \* the rows of each table

logVars == <<given, stored>>

Init ==
    /\ given = [t \in Tables |-> <<>>]
    /\ stored = [t \in Tables |-> <<>>]

Accept(t, r) ==
    /\ given' = [given EXCEPT ![t] = Append(@, r)]
    /\ UNCHANGED stored

\* Some tables grow, each by the records that come next.
Persist ==
    /\ \A t \in Tables : IsPrefix(stored[t], stored'[t]) /\ IsPrefix(stored'[t], given[t])
    /\ DOMAIN stored' = Tables
    /\ UNCHANGED given

Next == (\E t \in Tables, r \in Records : Accept(t, r)) \/ Persist

Spec == Init /\ [][Next]_logVars
=============================================================================
