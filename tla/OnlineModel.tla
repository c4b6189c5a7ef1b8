---------------------------- MODULE OnlineModel -----------------------------
(***************************************************************************)
(* OnlineModel (model/online.py): what it predicts from the answers of its *)
(* river heads, and the figures it keeps of predictions that are graded a  *)
(* horizon later.  The heads are river's: whenever they are asked, of one  *)
(* vector or of another, they answer anything.                             *)
(*                                                                         *)
(* answers.main is that of the regressor, of the quantile 0.25 or, of the  *)
(* classifier, P(up) - P(down); answers.other that of the quantile 0.75    *)
(* or, of the gate, 2p - 1.  A prediction is in units of 1/Scale of a      *)
(* return, in which the mean of the tails is whole.                        *)
(***************************************************************************)
EXTENDS Loops

CONSTANTS
    ModelKinds,  \* kinds of model
    HeadValues,  \* answers of a head
    Targets,     \* realized returns
    Band,        \* half the width of the classifier's dead zone
    Scale,       \* a common multiple of 1..MaxLabels
    Recent,      \* maxlen of the deques of pairs, of directions and of coverage
    MaxAhead,    \* bound: predictions without their label
    MaxLabels    \* bound: labels

ASSUME OnlineModelAssumption ==
    /\ ModelKinds \subseteq {"ev", "classifier", "meta", "regressor"}
    /\ HeadValues \subseteq Int /\ Targets \subseteq Int /\ Band \in Nat
    /\ Recent \in Nat \ {0} /\ MaxAhead \in Nat /\ MaxLabels \in Nat
    /\ Scale \in Nat \ {0} /\ \A n \in 1..MaxLabels : Scale % n = 0

VARIABLES
    model,    \* OnlineModel: its kind and the figures
    pending,  \* the predictions whose label is not there yet
    graded    \* observer: every prediction as it was made, its label, the interval then

onlineVars == <<model, pending, graded>>

Magnitude(x) == IF x < 0 THEN -x ELSE x
Heads == [main : HeadValues, other : HeadValues]

NewModel(kind) ==
    [kind |-> kind, n_learned |-> 0, abs_err |-> 0, abs_target |-> 0,
     direction |-> <<>>, pairs |-> <<>>, coverage |-> <<>>, tail |-> [n |-> 0, mean |-> 0]]

OnlineInit ==
    /\ \E kind \in ModelKinds : model = NewModel(kind)
    /\ pending = <<>> /\ graded = <<>>
-----------------------------------------------------------------------------
\* The side of the interval that is nearer to zero, or 0 if it holds zero.
Pessimistic(q25, q75) == IF q25 > 0 THEN q25 ELSE IF q75 < 0 THEN q75 ELSE 0

\* Without a label in the tails their mean is 0, and a classifier abstains.
predict_one(m, answers) ==
    LET main == answers.main other == answers.other
    IN  CASE m.kind = "ev" -> Scale * Pessimistic(main, other)
          [] m.kind = "classifier" -> main * m.tail.mean
          [] m.kind = "meta" -> IF other > 0 THEN Scale * main * other ELSE 0
          [] OTHER -> Scale * main

\* A deque with a maxlen.
Pushes(q, x) == IF Len(q) = Recent THEN Append(Tail(q), x) ELSE Append(q, x)

\* Between the quantiles, whichever is the larger.
Covers(answers, target) ==
    \/ answers.main <= target /\ target <= answers.other
    \/ answers.other <= target /\ target <= answers.main

Tails(tail, target) ==
    [n |-> tail.n + 1,
     mean |-> tail.mean + (Scale * Magnitude(target) - tail.mean) \div (tail.n + 1)]

\* The figures of the prediction as it was made; only the coverage asks the
\* heads again.
learn_one(m, target, pred, answers) ==
    [m EXCEPT
       !.abs_err = @ + Magnitude(Scale * target - pred),
       !.abs_target = @ + Magnitude(target),
       !.direction = IF pred # 0 /\ target # 0 THEN Pushes(@, (pred > 0) = (target > 0)) ELSE @,
       !.pairs = Pushes(@, <<pred, target>>),
       !.coverage = IF m.kind = "ev" THEN Pushes(@, Covers(answers, target)) ELSE @,
       !.tail = IF m.kind = "classifier" /\ Magnitude(target) > Band THEN Tails(@, target) ELSE @,
       !.n_learned = @ + 1]

\* on_event: the model predicts on a vector.
Predicts(answers) ==
    /\ Len(pending) < MaxAhead /\ model.n_learned + Len(pending) < MaxLabels
    /\ pending' = Append(pending, predict_one(model, answers))
    /\ UNCHANGED <<model, graded>>

\* on_event: the oldest prediction resolves.
Resolves(target, answers) ==
    /\ pending # <<>>
    /\ model' = learn_one(model, target, Head(pending), answers)
    /\ graded' = Append(graded, [pred |-> Head(pending), target |-> target, covered |-> Covers(answers, target)])
    /\ pending' = Tail(pending)

OnlineNext ==
    \E answers \in Heads : Predicts(answers) \/ \E target \in Targets : Resolves(target, answers)

OnlineSpec == OnlineInit /\ [][OnlineNext]_onlineVars
-----------------------------------------------------------------------------
(* metrics, diagnostics and recent_pairs.                                  *)

\* A pair is a prediction and its label.
Pair == Int \X Int

Residual == [p \in Pair |-> Scale * p[2] - p[1]]
AbsError == [p \in Pair |-> Magnitude(Residual[p])]
AbsTarget == [p \in Pair |-> Magnitude(p[2])]
SquaredError == [p \in Pair |-> Residual[p] * Residual[p]]
SquaredTarget == [p \in Pair |-> (Scale * p[2]) * (Scale * p[2])]
Committed == {p \in Pair : p[1] # 0}
Commits == [p \in Pair |-> IF p \in Committed THEN 1 ELSE 0]

\* Sums over the pairs; the code divides them by their number.
diagnostics(m) ==
    [n |-> Len(m.pairs),
     residual |-> SumOver(Residual, m.pairs),
     mae |-> SumOver(AbsError, m.pairs), zero_mae |-> SumOver(AbsTarget, m.pairs),
     ss_res |-> SumOver(SquaredError, m.pairs), ss_zero |-> SumOver(SquaredTarget, m.pairs),
     commits |-> SumOver(Commits, m.pairs)]

metrics(m) == [n |-> m.n_learned, mae |-> m.abs_err, zero_mae |-> m.abs_target, rolling |-> diagnostics(m)]

\* An index, from 0, of each of `limit` steps through what is too long.
recent_pairs(m, limit) ==
    LET committed == Filter(m.pairs, Committed)
        n == Len(committed)
    IN  IF n <= limit THEN committed
        ELSE [i \in 1..limit |-> committed[((i - 1) * n) \div limit + 1]]
-----------------------------------------------------------------------------
Grading == [pred : Int, target : Targets, covered : BOOLEAN]
Decided == {g \in Grading : g.pred # 0 /\ g.target # 0}
Moved == {g \in Grading : Magnitude(g.target) > Band}

\* A full recomputation from the predictions graded.
PairsOf(s) == [i \in DOMAIN s |-> <<s[i].pred, s[i].target>>]
CoverageOf(s) == [i \in DOMAIN s |-> s[i].covered]
DirectionsOf(s) == [i \in DOMAIN s |-> (s[i].pred > 0) = (s[i].target > 0)]

\* The figures speak of what the model said in time: each is that of a full
\* recomputation over the predictions as they were made, a horizon before
\* their label, however often the model learned in between (online.py:150);
\* before the windows are full the rolling ones are the cumulative ones, and
\* a model that abstained throughout scores what predicting zero scores.
FiguresHonest ==
    LET rolling == metrics(model).rolling
        tails == PairsOf(Filter(graded, Moved))
    IN  /\ model.pairs = LastN(PairsOf(graded), Recent)
        /\ model.direction = LastN(DirectionsOf(Filter(graded, Decided)), Recent)
        /\ model.n_learned = Len(graded)
        /\ model.n_learned <= Recent => rolling.mae = model.abs_err /\ rolling.zero_mae = model.abs_target
        /\ rolling.commits = 0 => rolling.mae = Scale * rolling.zero_mae /\ rolling.ss_res = rolling.ss_zero
        /\ model.kind = "ev" => model.coverage = LastN(CoverageOf(graded), Recent)
        /\ model.kind = "classifier" => model.tail.mean * Len(tails) = Scale * SumOver(AbsTarget, tails)

\* The pairs of a plot are a part of the committed ones, in their order and
\* none twice, at most as many as asked for, whatever the lengths (online.py:242).
PairsThinned ==
    \A limit \in 1..Recent :
        LET numbered == [i \in 1..Recent |-> <<i, 0>>]
            plot == recent_pairs([pairs |-> numbered], limit)
        IN  /\ Len(plot) = limit
            /\ \A i, j \in 1..limit : i < j => plot[i][1] < plot[j][1]
=============================================================================
