------------------------------- MODULE Stores -------------------------------
(***************************************************************************)
(* The two tables beside the queue: conversation_blobs (blobstore.py), the *)
(* durable copy of every raw conversation, and results (resultstore.py),   *)
(* the graded output.  Both hold at most one row per conversation.         *)
(***************************************************************************)
EXTENDS Contents

VARIABLES
    blobs,          \* conversation_blobs: a row or Null for each conversation
    results         \* results: a row or Null for each conversation

storeVars == <<blobs, results>>

Blob == [content_hash : Hashes, raw : Documents]

Verdicts == {"scored", "partial", "rejected"}

(* error is the reason of a rejected row: the content itself, or the two   *)
(* the worker fills in without scoring anything.                           *)
Errors == {"none", "content", "max_delivery_exceeded", "blob_missing"}

Result == [content_hash : Hashes, status : Verdicts, error : Errors]

ASSUME NullIsNoRecord ==
    /\ Null \notin Blob
    /\ Null \notin Result
    /\ Null \notin Verdicts

StoresTypeOK ==
    /\ blobs \in [Conversations -> Blob \cup {Null}]
    /\ results \in [Conversations -> Result \cup {Null}]

StoresInit ==
    /\ blobs = [k \in Conversations |-> Null]
    /\ results = [k \in Conversations |-> Null]

(* Mutant: a blob is updated, never inserted. *)
UpdateBlob(k, d) ==
    /\ blobs' = IF blobs[k] = Null
                THEN blobs
                ELSE [blobs EXCEPT ![k] = [content_hash |-> ContentHash(d),
                                           raw          |-> Jsonb[d]]]
    /\ UNCHANGED results

(* upsert_blob: what is stored is the document as JSONB, under the hash of *)
(* the document as it was ingested; nothing happens under the same hash.   *)
UpsertBlob(k, d) ==
    /\ blobs' = IF blobs[k] # Null /\ blobs[k].content_hash = ContentHash(d)
                THEN blobs
                ELSE [blobs EXCEPT ![k] = [content_hash |-> ContentHash(d),
                                           raw          |-> Jsonb[d]]]
    /\ UNCHANGED results

(* The first statement of close_job_with_result.                           *)
UpsertResult(k, row) ==
    /\ results' = [results EXCEPT ![k] = row]
    /\ UNCHANGED blobs

(* Mutant: reason and status change places. *)
RejectedRowSwapped(hash, reason) ==
    [content_hash |-> hash, status |-> reason, error |-> "rejected"]

(* _rejected_row: the row written for a job that never reaches the scorer. *)
RejectedRow(hash, reason) ==
    [content_hash |-> hash, status |-> "rejected", error |-> reason]

(* get_result: the row of a key, or nothing.                               *)
GetResult(k) == results[k]

(* get_result as process_one uses it: is there a row for this very content?*)
HasResultFor(k, hash) ==
    GetResult(k) # Null /\ GetResult(k).content_hash = hash
=============================================================================
