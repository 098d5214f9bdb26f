------------------------------- MODULE Scorer -------------------------------
(***************************************************************************)
(* Scorer (sentiment.py).  Strings without a scoreable signal are answered *)
(* at once, the others are gathered, scored in batches by the model and    *)
(* scattered back to where they came from.                                 *)
(*                                                                         *)
(* The model is given by what it answers: for each string, and for each    *)
(* label, a probability in hundredths.  It answers in an order of its own, *)
(* its id2label, and reads no more than max_tokens of a string.            *)
(***************************************************************************)
EXTENDS Lists, SequencesExt

CONSTANTS
    Words,          \* the strings with a word character
    Emoji,          \* the strings with an emoji
    Tokens,         \* for each of these strings, its number of tokens
    Start,          \* for each string and max_tokens, what is left of it when
                    \* it is cut off there
    Readable,       \* for each string, the max_tokens under which the tokenizer
                    \* and the model can read it
    Id2Label,       \* for each revision, its labels by index, in lower case
    Softmax         \* for each string and label, the probability

Labels == {"negative", "neutral", "positive"}

(* A model may lack a label, and has no other than these.                  *)
ASSUME ScorerAssumption ==
    /\ DOMAIN Tokens = Words \cup Emoji
    /\ \A text \in Words \cup Emoji : Softmax[text] \in [Labels -> 0 .. 100]
    /\ \A revision \in DOMAIN Id2Label : Id2Label[revision] \in Seq(Labels)

HasScoreableSignal(text) == text \in Words \/ text \in Emoji

Unscored == [scored |-> FALSE, label |-> "none", signed |-> 0, confidence |-> 0]

Unfilled == [Unscored EXCEPT !.label = "unfilled"]

(* Scorer.__init__ refuses a model without one of these classes.           *)
Loads(cfg) ==
    Labels \subseteq ToSet(Id2Label[cfg.model_revision])

Truncated(text, cfg) == IF Tokens[text] > cfg.max_tokens THEN Start[text][cfg.max_tokens] ELSE text

(* argmax: the first of the largest.                                       *)
Argmax(row) ==
    CHOOSE i \in DOMAIN row :
        \A j \in DOMAIN row : row[j] <= row[i] /\ (j < i => row[j] < row[i])

IndexOfLabel(labels, label) == CHOOSE i \in DOMAIN labels : labels[i] = label

(* What the model makes of a string, its labels found by their index.      *)
TurnScore(text, cfg) ==
    LET labels == Id2Label[cfg.model_revision]
        probs == Softmax[Truncated(text, cfg)]
        row == [i \in DOMAIN labels |-> probs[labels[i]]]
    IN  [scored     |-> TRUE,
         label      |-> labels[Argmax(row)],
         signed     |-> row[IndexOfLabel(labels, "positive")]
                            - row[IndexOfLabel(labels, "negative")],
         confidence |-> row[Argmax(row)]]

(* _score_batch answers the strings of a batch in their order.             *)
ScoreBatch(texts, cfg) == [m \in DOMAIN texts |-> TurnScore(texts[m], cfg)]

(* The positions of the strings that go to the model.                      *)
ToScoreIdx(texts) ==
    Ascending({n \in DOMAIN texts : HasScoreableSignal(texts[n])}, Len(texts))

(* results before the first batch: a slot for each string that goes there. *)
Unbatched(texts) ==
    [n \in DOMAIN texts |-> IF HasScoreableSignal(texts[n]) THEN Unfilled ELSE Unscored]

(* Mutant: a batch that would be short is not begun. *)
StartsOfFullBatches(n, batchSize) ==
    IF batchSize <= 0
    THEN <<>>
    ELSE [k \in 1 .. n \div batchSize |-> (k - 1) * batchSize]

(* range(0, n, batch_size); a negative one leads nowhere.                  *)
Starts(n, batchSize) ==
    IF batchSize <= 0
    THEN <<>>
    ELSE [k \in 1 .. (n + batchSize - 1) \div batchSize |-> (k - 1) * batchSize]

(* One batch of positions; the last one may be short.                      *)
Chunk(idx, start, batchSize) ==
    SubSeq(idx, start + 1,
           IF start + batchSize < Len(idx) THEN start + batchSize ELSE Len(idx))

(* results with the scores of a batch put where its strings came from.     *)
Scatter(results, chunk, scores) ==
    [n \in DOMAIN results |->
        IF n \in ToSet(chunk)
        THEN scores[CHOOSE m \in DOMAIN chunk : chunk[m] = n]
        ELSE results[n]]

(* results after each number of batches.                                   *)
AfterBatches(texts, cfg) ==
    LET idx == ToScoreIdx(texts)
        starts == Starts(Len(idx), cfg.batch_size)
        results[b \in 0 .. Len(starts)] ==
            IF b = 0
            THEN Unbatched(texts)
            ELSE LET chunk == Chunk(idx, starts[b], cfg.batch_size)
                 IN  Scatter(results[b - 1], chunk,
                             ScoreBatch([m \in DOMAIN chunk |-> texts[chunk[m]]], cfg))
    IN  results

ScoreTexts(texts, cfg) ==
    AfterBatches(texts, cfg)[Len(Starts(Len(ToScoreIdx(texts)), cfg.batch_size))]

(* range() refuses a step of zero, the tokenizer or the model a string it   *)
(* cannot read, and the assertion at the end a slot that was not filled.   *)
ScoringRaises(texts, cfg) ==
    \/ cfg.batch_size = 0
    \/ \E text \in ToSet(texts) :
            HasScoreableSignal(text) /\ cfg.max_tokens \notin Readable[text]
    \/ Unfilled \in ToSet(ScoreTexts(texts, cfg))
=============================================================================
