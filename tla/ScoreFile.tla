----------------------------- MODULE ScoreFile ------------------------------
(***************************************************************************)
(* score-file: each behaviour scores one of the given conversations in one *)
(* of the given environments.  The properties compare the row with         *)
(* definitions that read it off the raw turns.                             *)
(***************************************************************************)
EXTENDS Scoring, SequencesExt, FiniteSetsExt

CONSTANTS
    Given,          \* the conversations, each with its name or None
    Environments    \* what the SB_ variables may be set to

VARIABLES
    fixture,        \* the name of the conversation
    conversation, env, row

scoringVars == <<fixture, conversation, env, row>>

ScoringInit ==
    /\ env \in Environments
    /\ \E given \in Given : fixture = given[1] /\ conversation = given[2]
    /\ row = None

ScoreIt ==
    /\ row = None
    /\ row' = ScoreFile(conversation, env)
    /\ UNCHANGED <<fixture, conversation, env>>

ScoringSpec == ScoringInit /\ [][ScoreIt]_scoringVars

(***************************************************************************)
(* What is given.  Nothing checks the numbers of a configuration: the size *)
(* of a batch, lambda and max_tokens are any numbers.  Assumed is that the *)
(* slope is not divided by a negative number, that exp overflows for no    *)
(* age unless lambda is negative, and that a string that is cut off        *)
(* becomes one the model knows.                                            *)
(***************************************************************************)
Configurations == {FromEnv(e) : e \in Environments} \ {ValueError}

ASSUME GivenAreRaw == \A given \in Given : given[2] \in RawConversation

ASSUME BatchSizesAreIntegers == \A cfg \in Configurations : cfg.batch_size \in Int

ASSUME DivisorsAreNotNegative == \A cfg \in Configurations : cfg.trajectory_divisor \in Nat

ASSUME RevisionsAreKnown == \A cfg \in Configurations : cfg.model_revision \in DOMAIN Id2Label

ASSUME StringsAreKnown ==
    /\ Words \cup Emoji \subseteq Texts
    /\ \A cfg \in Configurations : \A text \in Words \cup Emoji :
            Truncated(text, cfg) \in Words \cup Emoji

ASSUME AgesHaveWeights ==
    \A cfg \in Configurations : \A given \in Given :
        LET weights == RecencyWeight[cfg.recency_lambda]
        IN  \A age \in 0 .. Len(given[2].elements) - 1 :
                /\ age \in DOMAIN weights => weights[age] \in Nat
                /\ cfg.recency_lambda >= 0 => age \in DOMAIN weights

(***************************************************************************)
(* The reference, read off the raw conversation                            *)
(***************************************************************************)
Turns == conversation.elements

(* A row was written; the other outcome is the end of the command.         *)
Answered == row # None /\ row # ValueError

Outcome == row.outcome

Cfg == FromEnv(env)

(* What a string is worth on its own, by the names of the labels.          *)
Probabilities(text) ==
    Softmax[IF Tokens[text] > Cfg.max_tokens THEN Start[text][Cfg.max_tokens] ELSE text]

TextScore(text) ==
    [signed     |-> Probabilities(text).positive - Probabilities(text).negative,
     confidence |-> Max(Range(Probabilities(text)))]

Usable(t) ==
    /\ t.object
    /\ t.role \in Roles
    /\ t.text \in Texts
    /\ t.ts \in {"number", "string"}

CarriesSignal(t) ==
    Usable(t) /\ t.role = "customer" /\ t.text \in Words \cup Emoji

SoundHeader ==
    /\ conversation.object
    /\ conversation.tenant_id
    /\ conversation.conversation_id
    /\ conversation.turns = "list"

(* The turns the metrics are about, and what they are worth.               *)
Carrying == {n \in DOMAIN Turns : CarriesSignal(Turns[n])}

Signals ==
    LET carrying == Only(Turns, Carrying)
    IN  [n \in DOMAIN carrying |-> TextScore(carrying[n].text).signed]

Measured == Answered /\ Outcome.overall # None

Numbers(r) == <<r.outcome.overall, r.outcome.trajectory>>

(* A configuration whose numbers, which nobody checks, can be used.        *)
Sensible(cfg) ==
    /\ cfg # ValueError
    /\ Loads(cfg)
    /\ cfg.batch_size > 0
    /\ cfg.recency_lambda >= 0
    /\ cfg.trajectory_divisor # 0
    /\ \A text \in Words \cup Emoji : cfg.max_tokens \in Readable[text]

(* Under a configuration that can be used, the only conversations that end *)
(* the command are those content_hash raises on, sound or not; all others  *)
(* get their row, whatever they hold and however long they are.            *)
OnlyTheUnhashableEndsIt ==
    row # None /\ Sensible(Cfg) =>
        row = IF conversation.object /\ ~conversation.hashable
              THEN ValueError
              ELSE RowOf(conversation, Cfg)

(* A conversation is rejected only when no customer turn carries a signal; *)
(* broken turns beside a good one make it partial and nothing worse.       *)
StatusFollowsTheTurns ==
    Answered =>
        /\ Outcome.status = "rejected" <=> ~SoundHeader \/ Carrying = {}
        /\ Outcome.status = "partial" <=>
                /\ SoundHeader
                /\ Carrying # {}
                /\ \E n \in DOMAIN Turns : ~Usable(Turns[n])
        /\ Outcome.error = "none" <=> Outcome.status # "rejected"

(* Agent turns are context: whether they are scored, and whether they are  *)
(* there at all, the two metrics are those of the customer turns.          *)
CustomersAlone ==
    [conversation EXCEPT !.elements =
        Only(Turns, {n \in DOMAIN Turns :
                        Usable(Turns[n]) /\ Turns[n].role = "customer"})]

OnlyCustomersCount ==
    Measured =>
        \A agents \in BOOLEAN :
            LET cfg == [Cfg EXCEPT !.score_agent_turns = agents]
            IN  Numbers(RowOf(CustomersAlone, cfg)) = Numbers(row)

(* Nothing is lost or mixed up: a row that was measured lists every turn   *)
(* it could not use, and every turn it scored in the order of the          *)
(* conversation with the score of its own text, by the names of the        *)
(* labels, in whatever batches and whatever order the model answers.       *)
EveryTurnIsInItsPlace ==
    Measured =>
        /\ {d.index : d \in ToSet(Outcome.dropped_turns)}
                = {n \in DOMAIN Turns : ~Usable(Turns[n])}
        /\ {e.index : e \in ToSet(Outcome.per_turn)}
                = {n \in DOMAIN Turns :
                    /\ Usable(Turns[n])
                    /\ \/ Turns[n].role = "customer"
                       \/ Turns[n].role = "agent" /\ Cfg.score_agent_turns}
        /\ \A e \in ToSet(Outcome.per_turn) :
                LET text == Turns[e.index].text
                IN  /\ e.score.scored <=> text \in Words \cup Emoji
                    /\ e.score.scored =>
                        /\ e.score.signed = TextScore(text).signed
                        /\ e.score.confidence = TextScore(text).confidence
                        /\ e.score.label \in Labels
                        /\ Probabilities(text)[e.score.label] = e.score.confidence
        /\ \A n \in 2 .. Len(Outcome.per_turn) :
                Outcome.per_turn[n - 1].index < Outcome.per_turn[n].index

(* A configuration whose rows repeat the same params and provenance.       *)
LooksTheSame(cfg) ==
    /\ cfg # ValueError
    /\ Base(conversation, cfg).params = row.base.params
    /\ Base(conversation, cfg).provenance = row.base.provenance

(* Neither configuration cuts a turn the other one reads in full, or both  *)
(* cut at the same place.                                                  *)
CutsAlike(cfg) ==
    \/ cfg.max_tokens = Cfg.max_tokens
    \/ ~\E n \in Carrying : \/ Tokens[Turns[n].text] > cfg.max_tokens
                            \/ Tokens[Turns[n].text] > Cfg.max_tokens

(* A row explains its numbers: under any configuration that the row would  *)
(* not tell from this one, the conversation has the same two metrics.  But *)
(* for one thing: max_tokens, which no row repeats, may make a difference  *)
(* to a turn that it cuts off, and only to such a turn.                    *)
ParamsExplainTheNumbers ==
    Answered =>
        \A e \in Environments :
            LooksTheSame(FromEnv(e)) /\ CutsAlike(FromEnv(e)) =>
                LET other == ScoreFile(conversation, e)
                IN  other # ValueError => Numbers(other) = Numbers(row)

(* None is never confused with a measured zero: no metric without signal,  *)
(* no trajectory from one signal, and a trajectory of exactly zero from    *)
(* signals that are all the same.                                          *)
NoneIsNotZero ==
    Answered /\ SoundHeader =>
        /\ Outcome.overall = None <=> Signals = <<>>
        /\ Outcome.trajectory = None <=> Len(Signals) < 2
        /\ Outcome.trajectory # None =>
                /\ Outcome.trajectory.run > 0
                /\ Cardinality(ToSet(Signals)) = 1 => Outcome.trajectory.rise = 0

(* The overall score lies between the extremes of the turns it is made of, *)
(* whatever the weights and also when every confidence is zero.            *)
OverallIsBetweenExtremes ==
    Measured =>
        /\ Outcome.overall.weight > 0
        /\ Outcome.overall.total >= Outcome.overall.weight * Min(ToSet(Signals))
        /\ Outcome.overall.total <= Outcome.overall.weight * Max(ToSet(Signals))

(* Direction is what the trajectory must get right: signals that never     *)
(* fall and do rise give a positive slope, and a conversation played       *)
(* backwards has the opposite trajectory.                                  *)
TrajectoryHasTheRightDirection ==
    Answered /\ Outcome.trajectory # None =>
        /\ LET signals == Signals
           IN  /\ \A n \in 2 .. Len(signals) : signals[n - 1] <= signals[n]
               /\ Cardinality(ToSet(signals)) > 1
               => Outcome.trajectory.rise > 0
        /\ RowOf([conversation EXCEPT !.elements = Reverse(Turns)], Cfg)
                .outcome.trajectory
                = [Outcome.trajectory EXCEPT !.rise = -@]
=============================================================================
