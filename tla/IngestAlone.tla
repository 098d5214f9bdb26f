---------------------------- MODULE IngestAlone ----------------------------
(***************************************************************************)
(* Ingest on its own, over the queue and the blob store, with a history:   *)
(* the documents delivered so far, and the ingests no other one disturbed. *)
(***************************************************************************)
EXTENDS Ingest

VARIABLES
    delivered,      \* the documents of every directory ingested so far
    alone           \* the ingesters no other has taken a step beside

aloneVars == <<queueVars, storeVars, ingestVars, delivered, alone>>

DocumentsIn(dir) ==
    {dir[n].content : n \in DOMAIN dir} \cap (Documents \ Unstorable)

IngestSpecInit ==
    /\ QueueInit /\ StoresInit /\ IngestInit
    /\ delivered = {}
    /\ alone = {}

IngestSpecNext ==
    \E i \in Ingesters :
        \/ \E dir \in Directories :
            /\ StartIngest(i, dir)
            /\ delivered' = delivered \cup DocumentsIn(dir)
            /\ alone' = alone \cup {i}
        \/ /\ IngestStep(i)
           /\ alone' = alone \cap {i}
           /\ UNCHANGED delivered
        \/ KillIngest(i) /\ UNCHANGED <<delivered, alone>>

IngestSpec ==
    IngestSpecInit /\ [][IngestSpecNext]_aloneVars

FilesOf(i) == {directory[i][n] : n \in DOMAIN directory[i]}

Accounted(file) ==
    IF file.content \in Documents
    THEN KeyOf[file.content] \in Tracked
    ELSE dead_letters[file.name] # Null

(* Nothing is silently dropped: when ingest_directory has returned, every  *)
(* file it saw is a tracked conversation or a dead letter, and the counts  *)
(* it prints add up, also while another ingest dies half way.              *)
FinishedIngestAccountsForEveryFile ==
    \A i \in Ingesters : istep[i] = "finished" =>
        /\ \A file \in FilesOf(i) : Accounted(file)
        /\ stats[i].files_seen = Len(directory[i])
        /\ stats[i].files_seen = stats[i].parse_errors + stats[i].enqueued
                                                + stats[i].already_tracked

(* The last document a directory has of a conversation.                    *)
LastDocuments(dir) ==
    {dir[n].content : n \in {m \in DOMAIN dir :
        /\ dir[m].content \in Documents
        /\ \A l \in DOMAIN dir : l > m /\ dir[l].content \in Documents
                => KeyOf[dir[l].content] # KeyOf[dir[m].content]}}

(* Running ingest again repairs what earlier ones left behind: when one    *)
(* that no other ran beside finishes, blob and job agree on the content of *)
(* the last file of each conversation, wherever between the two writes an  *)
(* earlier one died, and in whatever order two earlier ones wrote the two  *)
(* versions of a conversation they had.                                    *)
FinishedIngestLeavesItsContent ==
    \A i \in alone : istep[i] = "finished" =>
        \A d \in LastDocuments(directory[i]) :
            LET k == KeyOf[d]
            IN  /\ blobs[k] # Null /\ blobs[k].content_hash = ContentHash(d)
                /\ jobs[k] # Null /\ jobs[k].content_hash = ContentHash(d)

(* The same documents may be ingested by anybody at any time: as long as   *)
(* no two versions of a conversation are delivered, every job is written   *)
(* once and never without its blob, however ingests interleave or die.     *)
RepeatedIngestIsHarmless ==
    (\A d, e \in delivered : KeyOf[d] = KeyOf[e] => d = e) =>
        /\ clock = Cardinality(Tracked)
        /\ \A k \in Tracked : /\ blobs[k] # Null
                              /\ blobs[k].content_hash = jobs[k].content_hash

(* data/README.md:53: malformed records must fail cleanly without          *)
(* poisoning the rest of the batch; so an ingest that has ended has        *)
(* accounted for every file, whatever was in one of them.                  *)
EndedIngestAccountsForTheRest ==
    \A i \in Ingesters : istep[i] \in {"finished", "aborted"} =>
        \A file \in FilesOf(i) :
            file.content \notin Unstorable => Accounted(file)

(***************************************************************************)
(* What makes these invariants inductive                                   *)
(***************************************************************************)

(* An ingest that has neither died nor raised has been through the files   *)
(* before its position.                                                    *)
GoingOn == {i \in Ingesters : istep[i] \in {"walk", "enqueue", "finished"}}

(* Every file passed is counted once, and one whose blob is written and    *)
(* whose job is not is counted as seen only.                               *)
CountsAddUp ==
    \A i \in GoingOn :
        /\ stats[i].files_seen =
                IF istep[i] = "enqueue" THEN position[i] ELSE position[i] - 1
        /\ position[i] = stats[i].parse_errors + stats[i].enqueued
                            + stats[i].already_tracked + 1

PassedAreAccounted ==
    \A i \in GoingOn :
        /\ position[i] <= Len(directory[i]) + 1
        /\ istep[i] = "finished" => position[i] = Len(directory[i]) + 1
        /\ \A n \in 1 .. position[i] - 1 : Accounted(directory[i][n])

(* What is stored comes from a delivery.                                   *)
Came(k, hash) == \E d \in delivered : KeyOf[d] = k /\ hash = ContentHash(d)

StoredWasDelivered ==
    /\ delivered \subseteq Documents
    /\ \A k \in Conversations : blobs[k] # Null => Came(k, blobs[k].content_hash)
    /\ \A k \in Tracked : Came(k, jobs[k].content_hash) /\ blobs[k] # Null
    /\ \A i \in Ingesters :
        /\ istep[i] \in Walking => DocumentsIn(directory[i]) \subseteq delivered
        /\ istep[i] = "enqueue" => /\ DocOf(i) \notin Unstorable
                                   /\ blobs[KeyOf[DocOf(i)]] # Null

OneVersionEach == \A d, e \in delivered : KeyOf[d] = KeyOf[e] => d = e

WrittenOnce ==
    OneVersionEach => IsFiniteSet(Tracked) /\ clock = Cardinality(Tracked)

(* The m-th file is the last of its conversation before the n-th.          *)
LastBefore(dir, m, n) ==
    /\ dir[m].content \in Documents
    /\ \A l \in m + 1 .. n - 1 :
        dir[l].content \in Documents => KeyOf[dir[l].content] # KeyOf[dir[m].content]

HasContent(row, d) == row # Null /\ row.content_hash = ContentHash(d)

(* One that nobody disturbed has written the files it has passed, but for  *)
(* those it has overwritten itself.                                        *)
PassedAreWritten ==
    \A i \in alone \cap GoingOn :
        LET front == IF istep[i] = "enqueue" THEN position[i] + 1 ELSE position[i]
        IN  /\ istep[i] = "enqueue" => HasContent(blobs[KeyOf[DocOf(i)]], DocOf(i))
            /\ \A m \in 1 .. position[i] - 1 :
                LastBefore(directory[i], m, front) =>
                    LET d == directory[i][m].content
                    IN  /\ HasContent(blobs[KeyOf[d]], d)
                        /\ HasContent(jobs[KeyOf[d]], d)

IngestInv ==
    /\ QueueTypeOK /\ StoresTypeOK /\ IngestTypeOK
    /\ alone \subseteq Ingesters
    /\ CountsAddUp
    /\ PassedAreAccounted
    /\ StoredWasDelivered
    /\ WrittenOnce
    /\ PassedAreWritten
=============================================================================
