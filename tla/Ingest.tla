------------------------------- MODULE Ingest -------------------------------
(***************************************************************************)
(* `python -m pipeline ingest DIR` (cli.py, ingest.py): walk the *.json    *)
(* files of a directory in name order; store the blob and enqueue the job  *)
(* of each document that names a conversation, and record the others in    *)
(* ingest_dead_letters.  The blob and the job are written by two separate  *)
(* transactions.                                                           *)
(***************************************************************************)
EXTENDS JobQueue, Stores, Sequences

CONSTANTS
    Ingesters,      \* the processes that may run an ingest
    FileNames,      \* names of files
    Directories,    \* contents of directories: files in the order of names
    Unparseable,    \* what is in a file that json.loads refuses
    NoIdentity,     \* what is in one without tenant_id or conversation_id
    Unstorable,     \* documents content_hash or store_blob raises on
    MaxIngests      \* bound: how often an ingest is started

Unroutable == {Unparseable, NoIdentity}

File == [name : FileNames, content : Documents \cup Unroutable]

ASSUME IngestAssumption ==
    /\ Directories \subseteq Seq(File)
    /\ Unroutable \cap Documents = {}
    /\ Unstorable \subseteq Documents
    /\ MaxIngests \in Nat

ASSUME NullIsNoReason == Null \notin {"parse_error", "no_identity"}

VARIABLES
    istep,          \* where each ingester is in ingest_directory
    directory,      \* the directory it walks
    position,       \* the file it is at
    stats,          \* IngestStats
    dead_letters,   \* ingest_dead_letters: why, for each file name
    ingests         \* how many ingests were started

ingestVars == <<istep, directory, position, stats, dead_letters, ingests>>

IngestSteps == {"idle", "walk", "enqueue", "finished", "aborted", "killed"}

Walking == {"walk", "enqueue"}

IngestStats == [files_seen      : Nat, parse_errors    : Nat,
                enqueued        : Nat, already_tracked : Nat]

IngestTypeOK ==
    /\ istep \in [Ingesters -> IngestSteps]
    /\ directory \in [Ingesters -> Directories \cup {<<>>}]
    /\ position \in [Ingesters -> Nat \ {0}]
    /\ stats \in [Ingesters -> IngestStats]
    /\ dead_letters \in [FileNames -> {"parse_error", "no_identity", Null}]
    /\ ingests \in Nat
    /\ \A i \in Ingesters :
        istep[i] = "enqueue" => /\ position[i] \in 1 .. Len(directory[i])
                                /\ directory[i][position[i]].content \in Documents

NoStats == [files_seen   |-> 0, parse_errors    |-> 0,
            enqueued     |-> 0, already_tracked |-> 0]

IngestInit ==
    /\ istep = [i \in Ingesters |-> "idle"]
    /\ directory = [i \in Ingesters |-> <<>>]
    /\ position = [i \in Ingesters |-> 1]
    /\ stats = [i \in Ingesters |-> NoStats]
    /\ dead_letters = [f \in FileNames |-> Null]
    /\ ingests = 0

(* The file at hand, and what is in it.                                    *)
FileOf(i) == directory[i][position[i]]
DocOf(i) == FileOf(i).content

AtFile(i) == istep[i] = "walk" /\ position[i] <= Len(directory[i])

(* The rows of jobs an ingester may have locked.                           *)
LockedByIngest ==
    {KeyOf[DocOf(i)] : i \in {j \in Ingesters : istep[j] = "enqueue"}}

StartIngest(i, dir) ==
    /\ istep[i] \notin Walking
    /\ ingests < MaxIngests
    /\ ingests' = ingests + 1
    /\ istep' = [istep EXCEPT ![i] = "walk"]
    /\ directory' = [directory EXCEPT ![i] = dir]
    /\ position' = [position EXCEPT ![i] = 1]
    /\ stats' = [stats EXCEPT ![i] = NoStats]
    /\ UNCHANGED <<dead_letters, queueVars, storeVars>>

(* Mutant: the file is counted and not recorded. *)
DeadLetterUnrecorded(i) ==
    /\ AtFile(i)
    /\ DocOf(i) \in Unroutable
    /\ stats' = [stats EXCEPT ![i].files_seen = @ + 1, ![i].parse_errors = @ + 1]
    /\ position' = [position EXCEPT ![i] = @ + 1]
    /\ UNCHANGED <<istep, directory, dead_letters, ingests, queueVars, storeVars>>

(* A file nothing can be keyed by: one dead letter per file name.          *)
DeadLetter(i) ==
    /\ AtFile(i)
    /\ DocOf(i) \in Unroutable
    /\ dead_letters' = [dead_letters EXCEPT ![FileOf(i).name] =
            IF DocOf(i) = Unparseable THEN "parse_error" ELSE "no_identity"]
    /\ stats' = [stats EXCEPT ![i].files_seen = @ + 1, ![i].parse_errors = @ + 1]
    /\ position' = [position EXCEPT ![i] = @ + 1]
    /\ UNCHANGED <<istep, directory, ingests, queueVars, storeVars>>

StoreBlob(i) ==
    /\ AtFile(i)
    /\ DocOf(i) \in Documents \ Unstorable
    /\ UpsertBlob(KeyOf[DocOf(i)], DocOf(i))
    /\ stats' = [stats EXCEPT ![i].files_seen = @ + 1]
    /\ istep' = [istep EXCEPT ![i] = "enqueue"]
    /\ UNCHANGED <<directory, position, dead_letters, ingests, queueVars>>

(* content_hash and store_blob are called outside the try: the exception   *)
(* leaves ingest_directory, and the rest of the directory is not walked.   *)
AbortOnFile(i) ==
    /\ AtFile(i)
    /\ DocOf(i) \in Unstorable
    /\ stats' = [stats EXCEPT ![i].files_seen = @ + 1]
    /\ istep' = [istep EXCEPT ![i] = "aborted"]
    /\ UNCHANGED <<directory, position, dead_letters, ingests, queueVars, storeVars>>

EnqueueJob(i) ==
    LET k == KeyOf[DocOf(i)]
        hash == ContentHash(DocOf(i))
    IN  /\ istep[i] = "enqueue"
        /\ Enqueue(k, hash)
        /\ stats' = IF IsNews(k, hash)
                    THEN [stats EXCEPT ![i].enqueued = @ + 1]
                    ELSE [stats EXCEPT ![i].already_tracked = @ + 1]
        /\ istep' = [istep EXCEPT ![i] = "walk"]
        /\ position' = [position EXCEPT ![i] = @ + 1]
        /\ UNCHANGED <<directory, dead_letters, ingests, storeVars>>

FinishIngest(i) ==
    /\ istep[i] = "walk"
    /\ position[i] > Len(directory[i])
    /\ istep' = [istep EXCEPT ![i] = "finished"]
    /\ UNCHANGED <<directory, position, stats, dead_letters, ingests,
                   queueVars, storeVars>>

(* The process dies, perhaps between the blob and the job.                 *)
KillIngest(i) ==
    /\ istep[i] \in Walking
    /\ istep' = [istep EXCEPT ![i] = "killed"]
    /\ UNCHANGED <<directory, position, stats, dead_letters, ingests,
                   queueVars, storeVars>>

IngestStep(i) ==
    \/ DeadLetter(i)
    \/ StoreBlob(i)
    \/ AbortOnFile(i)
    \/ EnqueueJob(i)
    \/ FinishIngest(i)
=============================================================================
