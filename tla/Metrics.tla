------------------------------- MODULE Metrics ------------------------------
(***************************************************************************)
(* metrics.py: the two metrics of a conversation, from the scores of its   *)
(* customer turns in order.  A score is [scored, signed, confidence], with *)
(* signed and confidence in hundredths.  The metrics are kept as exact     *)
(* fractions: rounding to four digits, exp and tanh are left out, tanh     *)
(* being monotone and odd and exp(-lambda * age) a decreasing weight.      *)
(***************************************************************************)
EXTENDS Lists

CONSTANTS
    RecencyWeight,      \* for each lambda, and each age exp has a value for,
                        \* exp(-lambda*age)
    None                \* not measurable

ASSUME NoneIsNoMetric ==
    /\ None \notin [total : Int, weight : Int, n : Nat,
                   label : {"negative", "neutral", "positive"},
                   basis : {"single_turn", "weighted_mean"}]
    /\ None \notin [rise : Int, run : Int, n : Nat, meaningful : BOOLEAN]

(* Mutant: a score of zero is taken for no score. *)
TruthyPairs(turns) ==
    Only(turns, {n \in DOMAIN turns : turns[n].scored /\ turns[n].signed # 0})

(* _scored_pairs *)
ScoredPairs(turns) == Only(turns, {n \in DOMAIN turns : turns[n].scored})

Label(total, weight, cfg) ==
    IF total <= -cfg.label_threshold * weight     THEN "negative"
    ELSE IF total >= cfg.label_threshold * weight THEN "positive"
    ELSE "neutral"

(* Mutant: nothing is done when all weights are zero. *)
WeightsUnguarded(w) == w

(* With no weight left the mean is unweighted.                             *)
Weights(w) == IF SumOver(w) = 0 THEN [i \in DOMAIN w |-> 1] ELSE w

(* exp raises OverflowError: for a negative lambda and an age too great.    *)
OverallRaises(turns, cfg) ==
    \E age \in 0 .. Len(ScoredPairs(turns)) - 1 :
        age \notin DOMAIN RecencyWeight[cfg.recency_lambda]

(* The score of the conversation is total / weight.                        *)
OverallSentiment(turns, cfg) ==
    LET scored == ScoredPairs(turns)
        n == Len(scored)
        weights == Weights([i \in 1 .. n |->
                                RecencyWeight[cfg.recency_lambda][n - i]
                                    * scored[i].confidence])
        total == SumOver([i \in 1 .. n |-> weights[i] * scored[i].signed])
    IN  IF n = 0
        THEN None
        ELSE [total  |-> total,
              weight |-> SumOver(weights),
              label  |-> Label(total, SumOver(weights), cfg),
              n      |-> n,
              basis  |-> IF n = 1 THEN "single_turn" ELSE "weighted_mean"]

(* Mutant: positions count from the end. *)
PositionsReversed(n) == [i \in 1 .. n |-> n - i]

Positions(n) == [i \in 1 .. n |-> i - 1]

(* The slope is divided by B, and nothing checks that.                     *)
TrajectoryRaises(turns, cfg) ==
    Len(ScoredPairs(turns)) >= 2 /\ cfg.trajectory_divisor = 0

(* The least-squares slope against positions 0, 1/(n-1), ..., 1 is         *)
(* rise / run * divisor; the value of the trajectory is tanh(rise / run).  *)
SentimentTrajectory(turns, cfg) ==
    LET scored == ScoredPairs(turns)
        n == Len(scored)
        xs == Positions(n)
        sumX == SumOver(xs)
        sumY == SumOver([i \in 1 .. n |-> scored[i].signed])
        sumXY == SumOver([i \in 1 .. n |-> xs[i] * scored[i].signed])
        sumXX == SumOver([i \in 1 .. n |-> xs[i] * xs[i]])
    IN  IF n < 2
        THEN None
        ELSE [rise       |-> (n - 1) * (n * sumXY - sumX * sumY),
              run        |-> (n * sumXX - sumX * sumX) * cfg.trajectory_divisor,
              n          |-> n,
              meaningful |-> n >= cfg.meaningful_min_turns]
=============================================================================
