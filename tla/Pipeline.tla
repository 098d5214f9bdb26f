------------------------------ MODULE Pipeline ------------------------------
(***************************************************************************)
(* The whole pipeline over one database: ingesters fill the blob store and *)
(* the queue, workers claim, score and close, the clock runs leases out,   *)
(* and processes die.  Transactions are serialised by the row locks they   *)
(* take, except that claim does not wait for a locked row but skips it: it *)
(* may miss any row that another process is at the point of writing.       *)
(***************************************************************************)
EXTENDS Worker, Ingest

CONSTANTS
    VanishingBlobs, \* conversations whose blob may be lost (no code does)
    MaxFaults       \* bound: how many processes die and blobs are lost

ASSUME FaultAssumption ==
    /\ VanishingBlobs \subseteq Conversations
    /\ MaxFaults \in Nat

VARIABLE faults     \* how many faults there have been

vars == <<queueVars, storeVars, workerVars, ingestVars, faults>>

TypeOK ==
    /\ QueueTypeOK
    /\ StoresTypeOK
    /\ WorkerTypeOK
    /\ IngestTypeOK
    /\ faults \in Nat

Init ==
    /\ QueueInit
    /\ StoresInit
    /\ WorkerInit
    /\ IngestInit
    /\ faults = 0

(***************************************************************************)
(* Steps                                                                   *)
(***************************************************************************)
Contended(w) == LockedByOthers(w) \cup LockedByIngest

WorkerRuns(w) ==
    /\ \E locked \in SUBSET Contended(w) : WorkerStep(w, locked)
    /\ UNCHANGED <<ingestVars, faults>>

WorkerRestarts(w) ==
    /\ Restart(w)
    /\ UNCHANGED <<ingestVars, faults>>

IngestStarts(i) ==
    /\ \E dir \in Directories : StartIngest(i, dir)
    /\ UNCHANGED <<workerVars, faults>>

IngestRuns(i) ==
    /\ IngestStep(i)
    /\ UNCHANGED <<workerVars, faults>>

TimePasses ==
    /\ Tick
    /\ UNCHANGED <<storeVars, workerVars, ingestVars, faults>>

(* Faults, MaxFaults of them at most.                                      *)
WorkerDies(w) == Kill(w) /\ UNCHANGED ingestVars

IngestDies(i) == KillIngest(i) /\ UNCHANGED workerVars

BlobVanishes(k) ==
    /\ blobs[k] # Null
    /\ blobs' = [blobs EXCEPT ![k] = Null]
    /\ UNCHANGED <<results, queueVars, workerVars, ingestVars>>

Fault ==
    /\ faults < MaxFaults
    /\ faults' = faults + 1
    /\ \/ \E w \in Workers : WorkerDies(w)
       \/ \E i \in Ingesters : IngestDies(i)
       \/ \E k \in VanishingBlobs : BlobVanishes(k)

Next ==
    \/ \E w \in Workers : WorkerRuns(w) \/ WorkerRestarts(w)
    \/ \E i \in Ingesters : IngestStarts(i) \/ IngestRuns(i)
    \/ TimePasses
    \/ Fault

Spec == Init /\ [][Next]_vars

(***************************************************************************)
(* Processes that are alive go on, Docker restarts dead workers and the    *)
(* clock advances.  Nobody has to start an ingest, and faults never have   *)
(* to happen.                                                              *)
(***************************************************************************)
Fairness ==
    /\ \A w \in Workers : WF_vars(WorkerRuns(w)) /\ WF_vars(WorkerRestarts(w))
    /\ \A i \in Ingesters : WF_vars(IngestRuns(i))
    /\ WF_vars(TimePasses)

FairSpec == Spec /\ Fairness

(***************************************************************************)
(* Properties                                                              *)
(***************************************************************************)

(* A job leaves the queue only with its outcome on record: whatever        *)
(* crashes, expires or is delivered twice, a done or dead job has a row in *)
(* results (close_job_with_result commits both, mark_done relies on one).  *)
ClosedJobHasResult ==
    \A k \in Closed : results[k] # Null

(* The dead_letters view shows no conversation that has a usable result: a *)
(* dead job's result is rejected, even when several workers close the same *)
(* job one after the other.                                                *)
DeadIsRejected ==
    \A k \in Tracked : jobs[k].status = "dead" => results[k].status = "rejected"

(* Two hashes are of the same content if JSONB does not tell the documents *)
(* apart: a job's hash is of the file, a result's of what Postgres renders.*)
SameContent(hash, other) ==
    \E d, e \in Documents :
        hash = ContentHash(d) /\ other = ContentHash(e) /\ Jsonb[d] = Jsonb[e]

IsForItsContent(k) ==
    results[k] # Null /\ SameContent(results[k].content_hash, jobs[k].content_hash)

(* A closed job's result is about that job's content and no other.  Where  *)
(* the blob is not of the job's content, an ingest is between its two      *)
(* transactions, or died there, and the job is yet to be requeued.         *)
ClosedJobIsForItsContent ==
    \A k \in Closed :
        blobs[k] # Null /\ blobs[k].content_hash = jobs[k].content_hash
            => IsForItsContent(k)

(* The same of a conversation that has one version only, whatever happens  *)
(* to the others that are claimed with it.                                 *)
OneVersionOf(k) ==
    \A d, e \in Documents : KeyOf[d] = k /\ KeyOf[e] = k => Jsonb[d] = Jsonb[e]

UnchangedJobIsForItsContent ==
    \A k \in Closed : OneVersionOf(k) => IsForItsContent(k)

(* Two callers of claim get disjoint jobs: no two workers ever hold the    *)
(* same delivery of a job, although both may hold deliveries of it.        *)
Delivery(job) == <<job.key, job.enqueued_at, job.delivery_count>>

NoDoubleDelivery ==
    \A v, w \in Workers : v # w =>
        \A a \in Held(v), b \in Held(w) : Delivery(a) # Delivery(b)

(* Ingest writes the blob before the job, so a worker that claims a job    *)
(* finds its blob: no job is ever rejected as blob_missing unless somebody *)
(* deletes blobs.                                                          *)
BlobBeforeJob ==
    /\ \A k \in Tracked \ VanishingBlobs : blobs[k] # Null
    /\ \A w \in Workers : pc[w] = "missing" => cur[w].key \in VanishingBlobs

(* A result is never traded for a worse one: once scored or partial, a     *)
(* conversation's result is not replaced by a rejection of the same        *)
(* content.                                                                *)
Usable(row) == row # Null /\ row.status \in {"scored", "partial"}

ScoredResultSurvives ==
    [][\A k \in Conversations :
         Usable(results[k]) /\ results'[k].content_hash = results[k].content_hash
            => Usable(results'[k])]_vars

(* What that leaves of it: the result of a scoring is never undone for the *)
(* same content, nor scored differently, by however many workers that hold *)
(* the job at once, have it redelivered, or never recognise its result     *)
(* (result.py hashes what JSONB gave back).  Only a poison delivery may    *)
(* reject it, and a worker that misses the blob once somebody deleted it.  *)
Scored(row) == row # Null /\ row.error \in {"none", "content"}

Outlives(k, row, next) ==
    \/ next = row
    \/ next.error = "max_delivery_exceeded"
    \/ next.error = "blob_missing" /\ k \in VanishingBlobs

ResultsStand ==
    [][\A k \in Conversations :
         Scored(results[k])
             /\ SameContent(results[k].content_hash, results'[k].content_hash)
            => Outlives(k, results[k], results'[k])]_vars

(* Every job is closed in the end, the ones that kill the worker that      *)
(* scores them and the ones they were claimed with included.               *)
EveryJobCloses ==
    \A k \in Conversations : k \in Open ~> k \in Closed

(* The pipeline keeps the ledger's promise: outcome and standing of a      *)
(* conversation change together, in whatever order workers close jobs.     *)
Standing(row) ==
    IF row = Null THEN "unknown"
    ELSE IF row.status \in {"queued", "claimed"} THEN "open" ELSE row.status

Standings == [k \in Conversations |-> Standing(jobs[k])]

Outcomes ==
    [k \in Conversations |-> IF results[k] = Null THEN Null ELSE results[k].status]

Ledger == INSTANCE ResultLedger WITH standing <- Standings, outcome <- Outcomes

KeepsTheLedger == Ledger!LedgerSpec

(***************************************************************************)
(* What makes these invariants inductive                                   *)
(***************************************************************************)

(* Results are never deleted, so the one a worker has looked up is still   *)
(* there when it marks the job done.                                       *)
SkipHasResult ==
    \A w \in Workers : pc[w] = "skip" => results[cur[w].key] # Null

(* A delivery is of a row that is still there, either as it was or written *)
(* anew by a later enqueue, and delivered at least as often.               *)
HeldIsKnown ==
    \A w \in Workers : \A job \in Held(w) :
        /\ jobs[job.key] # Null
        /\ job.enqueued_at <= jobs[job.key].enqueued_at
        /\ job.enqueued_at = jobs[job.key].enqueued_at
                => job.delivery_count <= jobs[job.key].delivery_count

StampsAreInThePast ==
    \A k \in Tracked : jobs[k].enqueued_at <= clock

(* What a worker scores names the conversation of its job.                 *)
ScoresItsOwnConversation ==
    /\ \A k \in Conversations : blobs[k] # Null => KeyOf[blobs[k].raw] = k
    /\ \A w \in Workers : pc[w] = "score" => KeyOf[raw[w]] = cur[w].key

(* Every hash that is filed under a conversation is that of one of its     *)
(* documents, though not always of the latest.                             *)
HashFor(k, hash) == \E d \in Documents : KeyOf[d] = k /\ hash = ContentHash(d)

HashesAreOfTheKey ==
    /\ \A k \in Tracked : HashFor(k, jobs[k].content_hash)
    /\ \A k \in Conversations :
            results[k] # Null => HashFor(k, results[k].content_hash)
    /\ \A w \in Workers : \A job \in Held(w) : HashFor(job.key, job.content_hash)

(* What is scored is what Postgres gives back, which it would give back    *)
(* unchanged; so of each content there is one result only.                 *)
Rendered(d) == d \in Documents /\ Jsonb[d] = d

OneResultPerContent ==
    /\ \A k \in Conversations : blobs[k] # Null => Rendered(blobs[k].raw)
    /\ \A w \in Workers : pc[w] = "score" => Rendered(raw[w])
    /\ \A k \in Conversations :
            Scored(results[k]) => \E d \in Documents : Rendered(d) /\ results[k] = ScoredRow(d)

(* An ingester that is about to enqueue has stored the blob.               *)
StoredBeforeEnqueued ==
    \A i \in Ingesters : istep[i] = "enqueue" =>
        KeyOf[DocOf(i)] \in VanishingBlobs \/ blobs[KeyOf[DocOf(i)]] # Null

OutcomeInv ==
    TypeOK /\ ClosedJobHasResult /\ DeadIsRejected /\ SkipHasResult

DeliveryInv ==
    TypeOK /\ StampsAreInThePast /\ HeldIsKnown /\ NoDoubleDelivery

LedgerInv ==
    OutcomeInv /\ DeliveryInv /\ ScoresItsOwnConversation

ContentInv ==
    LedgerInv /\ HashesAreOfTheKey

BlobInv ==
    LedgerInv /\ StoredBeforeEnqueued /\ BlobBeforeJob

StandingInv ==
    BlobInv /\ OneResultPerContent

(***************************************************************************)
(* What the tests say, and the code does not quite do                      *)
(***************************************************************************)

(* tests/test_worker.py counts done jobs as those scored or partial, and   *)
(* dead jobs as those rejected: no done job has a rejected result.         *)
DoneIsNotRejected ==
    \A k \in Tracked : jobs[k].status = "done" => Usable(results[k])

=============================================================================
