------------------------------- MODULE Dataset ------------------------------
(***************************************************************************)
(* data/make_dataset.py: the 27 sample conversations.  What a turn says is *)
(* left out; it either holds "words", whose mood a parameter gives, or is  *)
(* of a kind the code treats differently.  The second file of c-000002 is  *)
(* the same document.                                                      *)
(***************************************************************************)
EXTENDS Naturals, Sequences, Functions, TLC

Customer == [role |-> "customer", text |-> "words"]
Agent == [role |-> "agent", text |-> "words"]
System == [role |-> "system", text |-> "words"]
Bot == [role |-> "bot", text |-> "words"]

CustomerSays(text) == [role |-> "customer", text |-> text]

(* The words of a turn take the moods one after the other.                 *)
Worded(text, n, moods) ==
    IF text = "words" THEN moods[((n - 1) % Len(moods)) + 1] ELSE text

Document(turns, elements) ==
    [object |-> TRUE, tenant_id |-> TRUE, conversation_id |-> TRUE,
     hashable |-> TRUE, turns |-> turns, elements |-> elements]

(* convo: every turn is an object with all its fields.                     *)
Convo(specs, moods) ==
    Document("list",
             [n \in DOMAIN specs |->
                [object |-> TRUE, role |-> specs[n].role,
                 text |-> Worded(specs[n].text, n, moods), ts |-> "string"]])

NormalArcs ==
    "c-000001" :> <<Customer, Agent, Customer, Agent, Customer, Agent, Customer, Customer>> @@
    "c-000002" :> <<Customer, Agent, Customer, Agent, Customer, Agent, Customer, Customer>> @@
    "c-000003" :> <<Customer, Agent, Customer, Agent, Customer>> @@
    "c-000004" :> <<Customer, Agent, Customer, Agent, Customer, Agent, Customer>> @@
    "c-000005" :> <<Customer, Agent, Customer, Agent, Customer, Agent,
                    Customer, Customer, Agent, Customer>> @@
    "c-000006" :> <<Customer, Agent, Customer, Agent, Customer, Customer>> @@
    "c-000007" :> <<Customer, Agent, Customer, Agent, Customer, Customer>> @@
    "c-000008" :> <<System, Customer, Agent, Agent, Agent, Customer, System>> @@
    "c-000009" :> <<Customer, Agent, Customer, Agent, Customer>> @@
    "c-000010" :> <<Customer, Agent, Customer, Agent, Customer, Agent,
                    Customer, Customer, Agent, Customer>>

EdgeFixtures ==
    "c-000016" :> <<Customer>> @@
    "c-000017" :> <<System, Agent, Agent, System>> @@
    "c-000018" :> <<>> @@
    "c-000019" :> <<CustomerSays("blank"), Agent, CustomerSays("blank"),
                    CustomerSays("blank"), Agent, Customer>> @@
    "c-000020" :> <<Customer, Agent, Customer>> @@
    "c-000021" :> <<Customer, Agent, Customer, Agent, Customer>> @@
    "c-000022" :> <<CustomerSays("emoji"), Agent, CustomerSays("punctuation"), Agent,
                    CustomerSays("emoji"), CustomerSays("punctuation")>> @@
    "c-000023" :> <<Customer, Agent, Customer, Agent, Customer, Customer>> @@
    "c-000024" :> <<Customer, Agent, Customer, Agent, Customer>> @@
    "c-000025" :> <<Customer, Agent, Customer, Agent, Customer>> @@
    "c-000026" :> <<Customer, Agent, Customer, Agent, Customer>>

(* c-000027: a turn that exceeds the token limit.                          *)
LongTurn == "c-000027" :> <<CustomerSays("long"), Agent, Customer>>

(* c-000028: 200 turns, every 25th of them a checkpoint.                   *)
ManyTurns ==
    "c-000028" :> [n \in 1 .. 200 |-> IF n % 25 = 0    THEN System
                                      ELSE IF n % 2 = 1 THEN Customer
                                      ELSE Agent]

(* c-000029 to c-000031: no turns, turns that are no list, broken turns.   *)
Malformed(moods) ==
    LET Broken(role, text, ts) ==
            [object |-> TRUE, role |-> role, text |-> text, ts |-> ts]
    IN  "c-000029" :> Document("absent", <<>>) @@
        "c-000030" :> Document("not_list", <<>>) @@
        "c-000031" :> Document("list",
            <<Broken("customer", Worded("words", 1, moods), "string"),
              Broken("agent", Worded("words", 2, moods), "absent"),
              Broken("customer", "null", "string"),
              Broken("bot", "number", "string"),
              Broken("customer", Worded("words", 5, moods), "string")>>)

UnknownRoleOnly == "c-000032" :> <<Bot, Bot>>

(* docs, by conversation_id.                                               *)
Docs(moods) ==
    LET convos == NormalArcs @@ EdgeFixtures @@ LongTurn @@ ManyTurns @@ UnknownRoleOnly
    IN  [id \in DOMAIN convos |-> Convo(convos[id], moods)] @@ Malformed(moods)
=============================================================================
