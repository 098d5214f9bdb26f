------------------------------- MODULE Schema -------------------------------
(***************************************************************************)
(* schema.py: which turns of a raw conversation can be scored, and which   *)
(* conversations are structurally unusable.  A raw value is reduced to     *)
(* what the code asks of it: for each field, whether it is there and       *)
(* whether it has the right type.  seq, channel and started_at are copied  *)
(* and never looked at, and are left out.                                  *)
(*                                                                         *)
(* turns counts from 1 here and from 0 in the code.                        *)
(***************************************************************************)
EXTENDS Naturals, Sequences

CONSTANTS Texts     \* the strings a turn may hold

ASSUME TextsAreStrings == Texts \cap {"absent", "null", "number"} = {}

Roles == {"customer", "agent", "system"}

(* A raw turn: no JSON object at all, or one with these fields.            *)
RawTurn ==
    {[object |-> FALSE]} \cup
    [object : {TRUE},
     role   : Roles \cup {"bot", "absent"},
     text   : Texts \cup {"absent", "null", "number"},
     ts     : {"absent", "null", "number", "string"}]

(* A raw conversation.  turns may be anything; elements is what it holds    *)
(* if it is a list.  hashable: no string in it holds a lone surrogate,     *)
(* which JSON can express and UTF-8 cannot.                                *)
RawConversation ==
    [object   : BOOLEAN, tenant_id : BOOLEAN, conversation_id : BOOLEAN,
     hashable : BOOLEAN,
     turns    : {"absent", "not_list", "list"},
     elements : Seq(RawTurn)]

(* _parse_turn: why a turn is dropped, or "kept".                          *)
ParseTurn(turn) ==
    IF ~turn.object                        THEN "non_object_turn"
    ELSE IF turn.role \notin Roles         THEN "unknown_role"
    ELSE IF turn.text = "absent"           THEN "missing_text"
    ELSE IF turn.text = "null"             THEN "null_text"
    ELSE IF turn.text = "number"           THEN "non_string_text"
    ELSE IF turn.ts \in {"absent", "null"} THEN "missing_ts"
    ELSE "kept"

Kept(turns) == {n \in DOMAIN turns : ParseTurn(turns[n]) = "kept"}

(* Mutant: only turns of unknown roles count as dropped. *)
DroppedByRole(turns) ==
    {n \in DOMAIN turns : ParseTurn(turns[n]) = "unknown_role"}

Dropped(turns) == DOMAIN turns \ Kept(turns)

(* Mutant: an empty list of turns has no recognised role either. *)
ParseConversationNoneKept(c) ==
    IF ~c.object                   THEN "not_an_object"
    ELSE IF ~c.tenant_id           THEN "missing_tenant_id"
    ELSE IF ~c.conversation_id     THEN "missing_conversation_id"
    ELSE IF c.turns = "absent"     THEN "no_turns_key"
    ELSE IF c.turns = "not_list"   THEN "turns_not_list"
    ELSE IF Kept(c.elements) = {}  THEN "no_recognised_roles"
    ELSE "parsed"

(* parse_conversation: the reason of a Rejection, or "parsed".             *)
ParseConversation(c) ==
    IF ~c.object                   THEN "not_an_object"
    ELSE IF ~c.tenant_id           THEN "missing_tenant_id"
    ELSE IF ~c.conversation_id     THEN "missing_conversation_id"
    ELSE IF c.turns = "absent"     THEN "no_turns_key"
    ELSE IF c.turns = "not_list"   THEN "turns_not_list"
    ELSE IF c.elements # <<>> /\ Kept(c.elements) = {}
                                   THEN "no_recognised_roles"
    ELSE "parsed"

(* Mutant: the role is not looked at. *)
TurnsOfAnyRole(role, turns) == Kept(turns)

(* customer_turns, and the agent turns, by position and in that order.     *)
TurnsOf(role, turns) == {n \in Kept(turns) : turns[n].role = role}
=============================================================================
