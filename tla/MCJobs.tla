------------------------------- MODULE MCJobs -------------------------------
(* The jobs over a few days, sessions, orders, statuses and quotes.         *)
EXTENDS Jobs

CONSTANTS quotes, trades, predictions

MCTables == <<trades, quotes, predictions>>
MCPredictions == {-2, 1}
MCHeadValues == {-1, 2}
MCTargets == {-1, 0, 2}
MCNet == [d \in Days |-> IF d = 2 THEN -1 ELSE 3]
=============================================================================
