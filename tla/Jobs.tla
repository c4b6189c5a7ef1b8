-------------------------------- MODULE Jobs --------------------------------
(* The processes that meet only in files, and the computations on one       *)
(* stream of quotes, each on its own: a behaviour picks one of them, and    *)
(* the others stand still.  Their state spaces add up in one run; nothing   *)
(* of one occurs in the properties of another.                              *)
EXTENDS Sessions, ModelState, CryptoAlerts, StocksAlerts, TrendBot, Features, Research,
        OnlineModel, History

VARIABLE subject

jobVars == <<subject, sessionVars, modelVars, alertVars, watchVars, trendVars, featureVars, recording, onlineVars, historyVars>>

JobsInit ==
    /\ subject \in {"sessions", "model", "alerts", "watch", "trend", "features", "research", "online", "history"}
    /\ SessionsInit /\ ModelInit /\ AlertInit /\ WatchInit /\ TrendInit
    /\ FeaturesInit /\ ResearchInit /\ OnlineInit /\ HistoryInit
    /\ subject = "online" \/ model.kind = "ev"

JobsNext ==
    \/ /\ subject = "sessions" /\ SessionsNext
       /\ UNCHANGED <<subject, modelVars, alertVars, watchVars, trendVars>>
       /\ UNCHANGED <<featureVars, recording, onlineVars, historyVars>>
    \/ /\ subject = "model" /\ ModelNext
       /\ UNCHANGED <<subject, sessionVars, alertVars, watchVars, trendVars>>
       /\ UNCHANGED <<featureVars, recording, onlineVars, historyVars>>
    \/ /\ subject = "alerts" /\ AlertNext
       /\ UNCHANGED <<subject, sessionVars, modelVars, watchVars, trendVars>>
       /\ UNCHANGED <<featureVars, recording, onlineVars, historyVars>>
    \/ /\ subject = "watch" /\ WatchNext
       /\ UNCHANGED <<subject, sessionVars, modelVars, alertVars, trendVars>>
       /\ UNCHANGED <<featureVars, recording, onlineVars, historyVars>>
    \/ /\ subject = "trend" /\ TrendNext
       /\ UNCHANGED <<subject, sessionVars, modelVars, alertVars, watchVars>>
       /\ UNCHANGED <<featureVars, recording, onlineVars, historyVars>>
    \/ /\ subject = "features" /\ FeaturesNext
       /\ UNCHANGED <<subject, sessionVars, modelVars, alertVars, watchVars>>
       /\ UNCHANGED <<trendVars, recording, onlineVars, historyVars>>
    \/ /\ subject = "research" /\ ResearchNext
       /\ UNCHANGED <<subject, sessionVars, modelVars, alertVars, watchVars>>
       /\ UNCHANGED <<trendVars, featureVars, onlineVars, historyVars>>
    \/ /\ subject = "online" /\ OnlineNext
       /\ UNCHANGED <<subject, sessionVars, modelVars, alertVars, watchVars>>
       /\ UNCHANGED <<trendVars, featureVars, recording, historyVars>>
    \/ /\ subject = "history" /\ HistoryNext
       /\ UNCHANGED <<subject, sessionVars, modelVars, alertVars, watchVars>>
       /\ UNCHANGED <<trendVars, featureVars, recording, onlineVars>>

JobsSpec == JobsInit /\ [][JobsNext]_jobVars
-----------------------------------------------------------------------------
\* What is learned survives restarts, and what is said of it is true: a
\* pipeline that starts has the knowledge of the last save of its own
\* configuration (ModelState), and the figures of a model are those of the
\* predictions it made in time (OnlineModel).
LearningSound == LearningKept /\ FiguresHonest /\ PairsThinned

\* What is reported to people is what the jobs saw: the alerts of the crypto
\* pipeline (CryptoAlerts) and the history on the dashboards (History).
ReportsTruthful == AlertsTruthful /\ HistoryKept
=============================================================================
