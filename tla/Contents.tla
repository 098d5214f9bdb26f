------------------------------ MODULE Contents ------------------------------
(***************************************************************************)
(* The conversation documents that flow through the pipeline, and the two  *)
(* ways the code transforms one: its content hash (hashing.py) and the     *)
(* round trip through the JSONB column conversation_blobs.raw_json.        *)
(*                                                                         *)
(* A document is the parsed JSON value of a file.  Key order is no part of *)
(* it, and content_hash sorts the keys, so a document has exactly one      *)
(* hash; SHA-256 is taken to be free of collisions.                        *)
(***************************************************************************)
CONSTANTS
    Conversations,  \* the (tenant_id, conversation_id) pairs
    Documents,      \* the documents with a usable identity
    KeyOf,          \* the conversation a document names
    Jsonb,          \* the document Postgres gives back for a stored one
    Null            \* no row, no value

ASSUME KeyOfType == KeyOf \in [Documents -> Conversations]

(* PostgreSQL stores numbers as numeric, so it may render one differently  *)
(* (1e16 comes back as 10000000000000000) and so give back a document that *)
(* hashes differently.  What it gives back it stores unchanged, and it     *)
(* never touches the identity, which is made of strings.                   *)
ASSUME JsonbType ==
    /\ Jsonb \in [Documents -> Documents]
    /\ \A d \in Documents : Jsonb[Jsonb[d]] = Jsonb[d]
    /\ \A d \in Documents : KeyOf[Jsonb[d]] = KeyOf[d]

ContentHash(d) == <<"sha256", d>>

Hashes == {ContentHash(d) : d \in Documents}

ASSUME NullIsNoValue ==
    /\ Null \notin Documents
    /\ Null \notin Conversations
    /\ Null \notin Hashes
=============================================================================
