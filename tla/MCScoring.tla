------------------------------ MODULE MCScoring -----------------------------
(***************************************************************************)
(* An instance of ScoreFile for TLC: bounded conversations and the sample  *)
(* dataset, under several environments.                                    *)
(***************************************************************************)
EXTENDS ScoreFile, Dataset

CONSTANTS
    MaxMixed,       \* bound: turns of a conversation of any turns
    MaxTurns        \* bound: turns of one of sound customer turns

(***************************************************************************)
(* The model.  "long" begins flat and then turns bad: its first 50 tokens  *)
(* are another matter than its first 512.  "unsure" is the answer without  *)
(* any confidence that overall_sentiment provides for.                     *)
(***************************************************************************)
Answer(negative, neutral, positive) ==
    [negative |-> negative, neutral |-> neutral, positive |-> positive]

MCSoftmax ==
    [t \in Words \cup Emoji |->
        CASE t = "good"   -> Answer(5, 10, 85)
          [] t = "bad"    -> Answer(75, 20, 5)
          [] t = "flat"   -> Answer(10, 80, 10)
          [] t = "weak"   -> Answer(20, 45, 35)
          [] t = "unsure" -> Answer(0, 0, 0)
          [] t = "long"   -> Answer(40, 50, 10)
          [] t = "emoji"  -> Answer(10, 20, 70)]

MCTokens == [t \in Words \cup Emoji |-> IF t = "long" THEN 600 ELSE 8]

(* What is left of the others does not matter: nobody reads a string under *)
(* a max_tokens too small for them.                                        *)
MCStart ==
    [t \in Words \cup Emoji |->
        [m \in {-1, 50, 512, 1000} |->
            IF t # "long" THEN t ELSE IF m <= 50 THEN "flat" ELSE "bad"]]

(* No string can be read under a limit that is none, and "long" not under  *)
(* one beyond the 512 positions of the model.                              *)
MCReadable == [t \in Words \cup Emoji |-> IF t = "long" THEN 3 .. 512 ELSE 3 .. 1000]

MCId2Label ==
    [pinned    |-> <<"negative", "neutral", "positive">>,
     reordered |-> <<"positive", "negative", "neutral">>,
     binary    |-> <<"negative", "positive">>]

(* Weights that fall with the age of a turn, faster for a larger lambda.   *)
(* Under a lambda of -400 they rise, and exp(800) overflows.               *)
MCRecencyWeight ==
    [lambda \in {-40000, 50, 70} |->
        IF lambda < 0
        THEN [age \in 0 .. 1 |-> 1 + 9 * age]
        ELSE [age \in 0 .. 199 |->
                LET base == IF lambda = 50 THEN 2 ELSE 3
                IN  IF age < MaxTurns THEN base ^ (MaxTurns - age) ELSE 1]]

(***************************************************************************)
(* The environments: none, and one variable that is set.                   *)
(***************************************************************************)
Raw(number, truthy, parts, string) ==
    [int |-> number, float |-> number, bool |-> truthy, tuple |-> parts, str |-> string]

RawNumber(n) == Raw(n, n = 1, <<"1">>, "1")
RawString(s) == Raw(ValueError, s = "true", <<s>>, s)

MCEnvironments ==
    {<<>>,
     [recency_lambda |-> RawNumber(70)],
     [recency_lambda |-> RawNumber(-40000)],
     [label_threshold |-> RawNumber(40)],
     [trajectory_divisor |-> RawNumber(150)],
     [meaningful_min_turns |-> RawNumber(2)],
     [trajectory_divisor |-> RawNumber(0)],
     [batch_size |-> RawNumber(2)],
     [batch_size |-> RawNumber(0)],
     [batch_size |-> RawNumber(-1)],
     [max_tokens |-> RawNumber(50)],
     [max_tokens |-> RawNumber(1000)],
     [max_tokens |-> RawNumber(-1)],
     [score_agent_turns |-> RawString("true")],
     [roles_in_metrics |-> Raw(ValueError, FALSE, <<"customer", "agent">>, "customer, agent")],
     [model_revision |-> RawString("reordered")],
     [model_revision |-> RawString("binary")],
     [batch_size |-> RawString("many")],
     [not_a_field |-> RawString("whatever")]}

(***************************************************************************)
(* The conversations                                                       *)
(***************************************************************************)
Moods == {<<"good">>, <<"flat">>, <<"bad", "weak", "good">>}

Turn(role, text, ts) ==
    [object |-> TRUE, role |-> role, text |-> text, ts |-> ts]

MixedTurns ==
    {[object |-> FALSE],
     Turn("bot", "good", "string"), Turn("system", "good", "string"),
     Turn("agent", "bad", "string"), Turn("customer", "good", "string"),
     Turn("customer", "bad", "number"), Turn("customer", "blank", "string"),
     Turn("customer", "null", "string"), Turn("customer", "good", "absent")}

CustomerTurns ==
    {Turn("customer", t, "string") : t \in {"good", "bad", "flat", "weak", "unsure", "blank"}}

(* Turns under a sound header, and every header, with a surrogate or not.  *)
MCConversations ==
    {[object |-> TRUE, tenant_id |-> TRUE, conversation_id |-> TRUE,
      hashable |-> TRUE, turns |-> "list", elements |-> e] :
        e \in BoundedSeq(MixedTurns, MaxMixed) \cup BoundedSeq(CustomerTurns, MaxTurns)}
    \cup
    [object : BOOLEAN, tenant_id : BOOLEAN, conversation_id : BOOLEAN,
     hashable : BOOLEAN, turns : {"absent", "not_list", "list"},
     elements : {<<>>, <<Turn("customer", "good", "string")>>}]

MCGiven ==
    UNION {{<<id, Docs(moods)[id]>> : id \in DOMAIN Docs(moods)} : moods \in Moods}
        \cup {<<None, c>> : c \in MCConversations}

(* The sample conversations come out as data/README.md and the tests       *)
(* (test_worker.py:100-125, test_result.py:69-112) say, whatever the moods *)
(* of their turns.                                                         *)
FixturesComeOutAsDocumented ==
    fixture # None /\ Answered =>
        /\ Outcome.error =
            CASE fixture \in {"c-000017", "c-000018"} -> "no_customer_turns"
              [] fixture = "c-000029" -> "no_turns_key"
              [] fixture = "c-000030" -> "turns_not_list"
              [] fixture = "c-000032" -> "no_recognised_roles"
              [] OTHER -> "none"
        /\ Outcome.status = "partial" <=> fixture = "c-000031"
        /\ Outcome.trajectory = None <=>
                Outcome.status = "rejected" \/ fixture \in {"c-000016", "c-000019"}
        /\ fixture = "c-000020" => Outcome.trajectory.meaningful = (Cfg.meaningful_min_turns <= 2)
        /\ fixture = "c-000031" =>
                [n \in DOMAIN Outcome.dropped_turns |-> Outcome.dropped_turns[n].reason]
                    = <<"missing_ts", "null_text", "unknown_role">>
=============================================================================
