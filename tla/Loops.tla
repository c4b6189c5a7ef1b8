-------------------------------- MODULE Loops --------------------------------
(***************************************************************************)
(* The loops and list comprehensions of the code.  The community modules   *)
(* have folds and SelectSeq for them, which take operators; here the step  *)
(* of a loop is a function and what a comprehension keeps a set, so that   *)
(* their laws can be proved once and cited (DataLemmas).                   *)
(***************************************************************************)
EXTENDS Integers, Sequences

\* The state a loop over s ends in: step[state][x] is the state after x.
Through(step, from, s) ==
    LET at[n \in 0..Len(s)] == IF n = 0 THEN from ELSE step[at[n - 1]][s[n]]
    IN  at[Len(s)]

\* The elements of s that are in the set, in the order they have in s.
Filter(s, kept) ==
    LET upto[n \in 0..Len(s)] ==
            IF n = 0 THEN <<>>
            ELSE IF s[n] \in kept THEN Append(upto[n - 1], s[n]) ELSE upto[n - 1]
    IN  upto[Len(s)]

\* The sum of f along s.
SumOver(f, s) == Through([sum \in Int |-> [x \in DOMAIN f |-> sum + f[x]]], 0, s)

\* The end of s, of n elements at most.
LastN(s, n) == IF Len(s) > n THEN SubSeq(s, Len(s) - n + 1, Len(s)) ELSE s
=============================================================================
