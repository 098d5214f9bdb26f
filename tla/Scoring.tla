------------------------------- MODULE Scoring ------------------------------
(***************************************************************************)
(* score_conversation (result.py): from a raw conversation to its row of   *)
(* results.                                                                *)
(***************************************************************************)
EXTENDS Schema, Metrics, Scorer, Config

(* The positions to score, customer turns first; agent turns if asked for. *)
ToScore(turns, cfg) ==
    Ascending(TurnsOf("customer", turns), Len(turns)) \o
    IF cfg.score_agent_turns THEN Ascending(TurnsOf("agent", turns), Len(turns))
                             ELSE <<>>

(* Mutant: the scores are zipped with the positions in ascending order. *)
ScoreByAscendingIndex(turns, order, cfg) ==
    LET scores == ScoreTexts([n \in DOMAIN order |-> turns[order[n]].text], cfg)
        sorted == Ascending(ToSet(order), Len(turns))
    IN  [p \in ToSet(order) |-> scores[CHOOSE n \in DOMAIN sorted : sorted[n] = p]]

(* zip(to_score, turn_scores): the score of each position that was scored. *)
ScoreByIndex(turns, order, cfg) ==
    LET scores == ScoreTexts([n \in DOMAIN order |-> turns[order[n]].text], cfg)
    IN  [p \in ToSet(order) |-> scores[CHOOSE n \in DOMAIN order : order[n] = p]]

(* A list of nothing to score does not go to the scorer.                   *)
TurnsRaise(turns, order, cfg) ==
    /\ order # <<>>
    /\ ScoringRaises([n \in DOMAIN order |-> turns[order[n]].text], cfg)

(* The scores of the customer's turns, in order.                           *)
OfCustomer(turns, scores) ==
    LET customer == Ascending(TurnsOf("customer", turns), Len(turns))
    IN  [n \in DOMAIN customer |-> scores[customer[n]]]

ContentHash(c) == <<"sha256", c>>

(* What every row says of the conversation, of whose identity the model    *)
(* has only whether it is usable, and repeats of the configuration.        *)
Base(c, cfg) ==
    [tenant_id       |-> c.object /\ c.tenant_id,
     conversation_id |-> c.object /\ c.conversation_id,
     content_hash    |-> IF c.object THEN ContentHash(c) ELSE None,
     schema_version  |-> cfg.schema_version,
     provenance      |-> <<cfg.model_name, cfg.model_revision>>,
     params          |-> MetricParams(cfg)]

Rejected(reason) ==
    [status |-> "rejected", overall |-> None, trajectory |-> None,
     per_turn |-> <<>>, dropped_turns |-> <<>>, error |-> reason]

Assemble(turns, cfg) ==
    LET scores == ScoreByIndex(turns, ToScore(turns, cfg), cfg)
        customerScores == OfCustomer(turns, scores)
        overall == OverallSentiment(customerScores, cfg)
        perTurn == Ascending(DOMAIN scores, Len(turns))
        dropped == Ascending(Dropped(turns), Len(turns))
    IN  [status        |-> IF overall = None THEN "rejected"
                           ELSE IF dropped # <<>> THEN "partial"
                           ELSE "scored",
         overall       |-> overall,
         trajectory    |-> SentimentTrajectory(customerScores, cfg),
         per_turn      |-> [n \in DOMAIN perTurn |->
                               [index |-> perTurn[n], role |-> turns[perTurn[n]].role,
                                score |-> scores[perTurn[n]]]],
         dropped_turns |-> [n \in DOMAIN dropped |->
                               [index  |-> dropped[n],
                                reason |-> ParseTurn(turns[dropped[n]])]],
         error         |-> IF overall # None THEN "none"
                           ELSE IF customerScores = <<>> THEN "no_customer_turns"
                           ELSE "no_customer_signal"]

(* The row of a conversation.                                              *)
RowOf(c, cfg) ==
    LET outcome == IF ParseConversation(c) = "parsed"
                   THEN Assemble(c.elements, cfg)
                   ELSE Rejected(ParseConversation(c))
    IN  [base |-> Base(c, cfg), outcome |-> outcome]

(* The exceptions of score_conversation: those of content_hash, which      *)
(* comes before everything else, of the scorer, and of the metrics.        *)
Raises(c, cfg) ==
    \/ c.object /\ ~c.hashable
    \/ /\ ParseConversation(c) = "parsed"
       /\ LET order == ToScore(c.elements, cfg)
              scores == OfCustomer(c.elements, ScoreByIndex(c.elements, order, cfg))
          IN  \/ TurnsRaise(c.elements, order, cfg)
              \/ OverallRaises(scores, cfg)
              \/ TrajectoryRaises(scores, cfg)

ScoreConversation(c, cfg) ==
    IF Raises(c, cfg) THEN ValueError ELSE RowOf(c, cfg)

(* score-file: the configuration and the model are read before anything    *)
(* is scored, and each of the three may end the command.                   *)
ScoreFile(c, env) ==
    LET cfg == FromEnv(env)
    IN  IF cfg = ValueError THEN ValueError
        ELSE IF ~Loads(cfg) THEN ValueError
        ELSE ScoreConversation(c, cfg)
=============================================================================
