--------------------------- MODULE PipelineProofs ---------------------------
(***************************************************************************)
(* Proofs that the invariants of Pipeline hold for any number of           *)
(* conversations, documents, workers and ingesters, any batch size, lease  *)
(* and delivery limit, any directories, verdicts and faults.               *)
(***************************************************************************)
EXTENDS Pipeline, TLAPS

(***************************************************************************)
(* Operations on the queue and the stores                                  *)
(***************************************************************************)

(* A batch is made of tracked conversations.                               *)
LEMMA BatchIsTracked ==
    ASSUME NEW locked
    PROVE  Batch(locked) \subseteq Tracked
BY DEF Batch, Oldest, Claimable, Open

LEMMA TrackedRow ==
    ASSUME QueueTypeOK, NEW k \in Tracked
    PROVE  k \in Conversations /\ jobs[k] \in Row
BY DEF QueueTypeOK, Tracked

(* The rows claim and SetStatus write.                                     *)
LEMMA ClosedRow ==
    ASSUME NEW r \in Row, NEW s \in Statuses
    PROVE  [r EXCEPT !.status = s, !.claim_age = 0] \in Row
<1>1. 0 \in 0 .. LeaseSeconds + 1
  BY QueueAssumption
<1>2. QED
  BY <1>1 DEF Row

LEMMA ClaimedRow ==
    ASSUME NEW r \in Row
    PROVE  [r EXCEPT !.status = "claimed", !.claim_age = 0,
                     !.delivery_count = @ + 1] \in Row
<1>1. 0 \in 0 .. LeaseSeconds + 1 /\ r.delivery_count + 1 \in Nat
  BY QueueAssumption DEF Row
<1>2. "claimed" \in Statuses
  BY DEF Statuses
<1>3. QED
  BY <1>1, <1>2 DEF Row

(* Each operation of PgJobQueue keeps the type of the jobs table.          *)
LEMMA EnqueueType ==
    ASSUME QueueTypeOK, NEW k \in Conversations, NEW d \in Documents,
           Enqueue(k, ContentHash(d))
    PROVE  QueueTypeOK'
BY QueueAssumption DEF QueueTypeOK, Enqueue, IsNews, Row, Statuses, Hashes, queueVars

LEMMA ClaimType ==
    ASSUME QueueTypeOK, NEW S \in SUBSET Tracked, Claim(S)
    PROVE  QueueTypeOK'
<1>1. ASSUME NEW k \in S
      PROVE  [jobs[k] EXCEPT !.status = "claimed", !.claim_age = 0,
                             !.delivery_count = @ + 1] \in Row
  BY <1>1, TrackedRow, ClaimedRow
<1>2. QED
  BY <1>1 DEF QueueTypeOK, Claim, Tracked

LEMMA SetStatusType ==
    ASSUME QueueTypeOK, NEW k, NEW s \in {"done", "dead"}, SetStatus(k, s)
    PROVE  QueueTypeOK'
<1>1. CASE k \in Conversations /\ jobs[k] # Null
  <2>1. [jobs[k] EXCEPT !.status = s, !.claim_age = 0] \in Row
    <3>1. jobs[k] \in Row
      BY <1>1 DEF QueueTypeOK
    <3>2. QED
      BY <3>1, ClosedRow DEF Statuses
  <2>2. QED
    BY <1>1, <2>1 DEF QueueTypeOK, SetStatus
<1>2. CASE ~(k \in Conversations /\ jobs[k] # Null)
  BY <1>2 DEF QueueTypeOK, SetStatus
<1>3. QED
  BY <1>1, <1>2

LEMMA TickType ==
    ASSUME QueueTypeOK, Tick
    PROVE  QueueTypeOK'
<1>1. ASSUME NEW k \in Tracked, ~LeaseExpired(k)
      PROVE  [jobs[k] EXCEPT !.claim_age = @ + 1] \in Row
  BY <1>1, QueueAssumption DEF QueueTypeOK, Tracked, Row, LeaseExpired
<1>2. QED
  BY <1>1 DEF QueueTypeOK, Tick

(* What a claim hands out is a set of ClaimedJobs.                         *)
LEMMA HandoutType ==
    ASSUME QueueTypeOK, NEW S \in SUBSET Tracked, Claim(S)
    PROVE  Handout(S) \subseteq ClaimedJob
<1>1. ASSUME NEW k \in S
      PROVE  jobs'[k] \in Row
  <2>1. jobs'[k] = [jobs[k] EXCEPT !.status = "claimed", !.claim_age = 0,
                                   !.delivery_count = @ + 1]
    BY DEF Claim, Tracked
  <2>2. QED
    BY <2>1, TrackedRow, ClaimedRow
<1>2. QED
  BY <1>1 DEF Handout, ClaimedJob, Row, Tracked

(***************************************************************************)
(* Type correctness                                                        *)
(***************************************************************************)

(* Closing a job writes rows of the right type.                            *)
LEMMA CloseType ==
    ASSUME QueueTypeOK, StoresTypeOK, NEW k, NEW row \in Result,
           NEW s \in {"done", "dead"}, CloseJobWithResult(k, row, s)
    PROVE  QueueTypeOK' /\ StoresTypeOK'
<1>1. QueueTypeOK'
  BY SetStatusType DEF CloseJobWithResult
<1>2. StoresTypeOK'
  BY DEF StoresTypeOK, CloseJobWithResult, UpsertResult
<1>3. QED
  BY <1>1, <1>2

LEMMA RowTypes ==
    /\ \A hash \in Hashes, reason \in Errors : RejectedRow(hash, reason) \in Result
    /\ \A d \in Documents : /\ ScoredRow(d) \in Result
                            /\ JobStatusFor(ScoredRow(d)) \in {"done", "dead"}
BY WorkerAssumption
DEF RejectedRow, ScoredRow, JobStatusFor, Result, Hashes, Verdicts, Errors

(* A worker at work has a job, and one that scores has a document.         *)
LEMMA AtWork ==
    ASSUME WorkerTypeOK, NEW w \in Workers
    PROVE  /\ pc[w] \in Working => cur[w] \in ClaimedJob
           /\ pc[w] = "score" => raw[w] \in Documents
BY DEF WorkerTypeOK

LEMMA ReturnType ==
    ASSUME WorkerTypeOK, NEW w \in Workers, Return(w)
    PROVE  WorkerTypeOK'
BY DEF WorkerTypeOK, Return, Steps, Working

LEMMA DieType ==
    ASSUME WorkerTypeOK, NEW w \in Workers, Die(w)
    PROVE  WorkerTypeOK'
BY DEF WorkerTypeOK, Die, Steps, Working

(* Every step of a worker keeps the types of all it touches.               *)
LEMMA WorkerStepType ==
    ASSUME QueueTypeOK, StoresTypeOK, WorkerTypeOK,
           NEW w \in Workers, NEW locked, WorkerStep(w, locked)
    PROVE  QueueTypeOK' /\ StoresTypeOK' /\ WorkerTypeOK'
<1>1. CASE ClaimJobs(w, locked)
  <2>1. QueueTypeOK'
    BY <1>1, BatchIsTracked, ClaimType DEF ClaimJobs
  <2>2. Handout(Batch(locked)) \subseteq ClaimedJob
    BY <1>1, BatchIsTracked, HandoutType DEF ClaimJobs
  <2>3. WorkerTypeOK'
    BY <1>1, <2>2 DEF ClaimJobs, WorkerTypeOK
  <2>4. QED
    BY <1>1, <2>1, <2>3 DEF ClaimJobs, StoresTypeOK, storeVars
<1>2. CASE ClaimNothing(w, locked)
  <2>1. WorkerTypeOK'
    BY <1>2 DEF ClaimNothing, Goto, WorkerTypeOK, workerVars, Steps, Working
  <2>2. QED
    BY <1>2, <2>1 DEF ClaimNothing, QueueTypeOK, StoresTypeOK, queueVars, storeVars
<1>3. CASE Begin(w)
  <2>1. PICK job \in todo[w] :
            /\ todo' = [todo EXCEPT ![w] = @ \ {job}]
            /\ cur' = [cur EXCEPT ![w] = job]
            /\ pc' = [pc EXCEPT ![w] =
                        IF job.delivery_count > MaxDelivery THEN "poison"
                                                            ELSE "lookup"]
    BY <1>3 DEF Begin
  <2>2. job \in ClaimedJob
    BY <2>1 DEF WorkerTypeOK
  <2>3. job # Null
    BY <2>2, WorkerAssumption
  <2>4. WorkerTypeOK'
    BY <1>3, <2>1, <2>2, <2>3 DEF Begin, WorkerTypeOK, Steps, Working
  <2>5. QED
    BY <1>3, <2>4 DEF Begin, QueueTypeOK, StoresTypeOK, queueVars, storeVars
<1>4. CASE ClosePoison(w)
  <2>1. cur[w].content_hash \in Hashes
    BY <1>4, AtWork DEF ClosePoison, Working, Steps, ClaimedJob
  <2>2. QED
    BY <1>4, <2>1, RowTypes, CloseType, ReturnType DEF ClosePoison, Errors
<1>5. CASE Lookup(w)
  <2>1. WorkerTypeOK'
    BY <1>5 DEF Lookup, Goto, WorkerTypeOK, Steps, Working
  <2>2. QED
    BY <1>5, <2>1 DEF Lookup, QueueTypeOK, StoresTypeOK, queueVars, storeVars
<1>6. CASE SkipDuplicate(w)
  BY <1>6, SetStatusType, ReturnType
  DEF SkipDuplicate, MarkDone, StoresTypeOK, storeVars
<1>7. CASE Fetch(w)
  <2>1. CASE blobs[cur[w].key] = Null
    BY <1>7, <2>1 DEF Fetch, Goto, WorkerTypeOK, QueueTypeOK, StoresTypeOK,
                      queueVars, storeVars, Steps, Working
  <2>2. CASE blobs[cur[w].key] # Null
    <3>1. cur[w].key \in Conversations
      BY <1>7, AtWork DEF Fetch, Working, Steps, ClaimedJob
    <3>2. blobs[cur[w].key].raw \in Documents
      BY <2>2, <3>1 DEF StoresTypeOK, Blob
    <3>3. WorkerTypeOK'
      BY <1>7, <2>2, <3>2, NullIsNoValue DEF Fetch, WorkerTypeOK, Steps, Working
    <3>4. QED
      BY <1>7, <3>3 DEF Fetch, QueueTypeOK, StoresTypeOK, queueVars, storeVars
  <2>3. QED
    BY <2>1, <2>2
<1>8. CASE CloseMissing(w)
  <2>1. cur[w].content_hash \in Hashes
    BY <1>8, AtWork DEF CloseMissing, Working, Steps, ClaimedJob
  <2>2. QED
    BY <1>8, <2>1, RowTypes, CloseType, ReturnType DEF CloseMissing, Errors
<1>9. CASE CloseScored(w)
  <2>1. raw[w] \in Documents
    BY <1>9, AtWork DEF CloseScored
  <2>2. QED
    BY <1>9, <2>1, RowTypes, CloseType, ReturnType DEF CloseScored
<1>10. CASE ScoringKills(w)
  BY <1>10, DieType
  DEF ScoringKills, Die, QueueTypeOK, StoresTypeOK, queueVars, storeVars
<1>11. QED
  BY <1>1, <1>2, <1>3, <1>4, <1>5, <1>6, <1>7, <1>8, <1>9, <1>10 DEF WorkerStep

(* The file an ingester is at is a file.                                   *)
LEMMA FileType ==
    ASSUME IngestTypeOK, NEW i \in Ingesters, AtFile(i)
    PROVE  /\ position[i] \in 1 .. Len(directory[i])
           /\ FileOf(i) \in File
<1>1. directory[i] \in Seq(File)
  <2>1. <<>> \in Seq(File)
    OBVIOUS
  <2>2. QED
    BY <2>1, IngestAssumption DEF IngestTypeOK
<1>2. position[i] \in 1 .. Len(directory[i])
  BY <1>1 DEF IngestTypeOK, AtFile
<1>3. QED
  BY <1>1, <1>2 DEF FileOf

LEMMA EnqueueDoc ==
    ASSUME IngestTypeOK, NEW i \in Ingesters, istep[i] = "enqueue"
    PROVE  DocOf(i) \in Documents /\ KeyOf[DocOf(i)] \in Conversations
BY KeyOfType DEF IngestTypeOK, DocOf, FileOf

(* What an ingester counts up.                                             *)
LEMMA StatsType ==
    ASSUME NEW s \in IngestStats
    PROVE  /\ [s EXCEPT !.files_seen = @ + 1] \in IngestStats
           /\ [s EXCEPT !.files_seen = @ + 1, !.parse_errors = @ + 1] \in IngestStats
           /\ [s EXCEPT !.enqueued = @ + 1] \in IngestStats
           /\ [s EXCEPT !.already_tracked = @ + 1] \in IngestStats
<1>1. /\ s.files_seen + 1 \in Nat
      /\ s.parse_errors + 1 \in Nat
      /\ s.enqueued + 1 \in Nat
      /\ s.already_tracked + 1 \in Nat
  BY DEF IngestStats
<1>2. [s EXCEPT !.files_seen = @ + 1] \in IngestStats
  BY <1>1 DEF IngestStats
<1>3. [s EXCEPT !.files_seen = @ + 1, !.parse_errors = @ + 1] \in IngestStats
  BY <1>1 DEF IngestStats
<1>4. [s EXCEPT !.enqueued = @ + 1] \in IngestStats
  BY <1>1 DEF IngestStats
<1>5. [s EXCEPT !.already_tracked = @ + 1] \in IngestStats
  BY <1>1 DEF IngestStats
<1>6. QED
  BY <1>2, <1>3, <1>4, <1>5

LEMMA NoStatsType == NoStats \in IngestStats
BY DEF IngestStats, NoStats

LEMMA UpsertBlobType ==
    ASSUME StoresTypeOK, NEW d \in Documents, UpsertBlob(KeyOf[d], d)
    PROVE  StoresTypeOK'
<1>1. [content_hash |-> ContentHash(d), raw |-> Jsonb[d]] \in Blob
  BY JsonbType DEF Blob, Hashes
<1>2. QED
  BY <1>1, KeyOfType DEF StoresTypeOK, UpsertBlob

LEMMA StartIngestType ==
    ASSUME IngestTypeOK, NEW i \in Ingesters, NEW dir \in Directories,
           StartIngest(i, dir)
    PROVE  IngestTypeOK'
BY NoStatsType DEF IngestTypeOK, StartIngest, IngestSteps

LEMMA KillIngestType ==
    ASSUME IngestTypeOK, NEW i \in Ingesters, KillIngest(i)
    PROVE  IngestTypeOK'
BY DEF IngestTypeOK, KillIngest, IngestSteps

(* Every step of an ingester keeps the types of all it touches.            *)
LEMMA IngestStepType ==
    ASSUME QueueTypeOK, StoresTypeOK, IngestTypeOK, NEW i \in Ingesters, IngestStep(i)
    PROVE  QueueTypeOK' /\ StoresTypeOK' /\ IngestTypeOK'
<1> stats[i] \in IngestStats /\ position[i] \in Nat \ {0}
  BY DEF IngestTypeOK
<1>1. CASE DeadLetter(i)
  <2>1. FileOf(i).name \in FileNames
    BY <1>1, FileType DEF DeadLetter, File
  <2>2. stats' \in [Ingesters -> IngestStats]
    BY <1>1, StatsType DEF DeadLetter, IngestTypeOK
  <2>3. dead_letters' \in [FileNames -> {"parse_error", "no_identity", Null}]
    BY <1>1, <2>1 DEF DeadLetter, IngestTypeOK
  <2>4. IngestTypeOK'
    BY <1>1, <2>2, <2>3 DEF DeadLetter, AtFile, IngestTypeOK
  <2>5. QED
    BY <1>1, <2>4 DEF DeadLetter, QueueTypeOK, StoresTypeOK, queueVars, storeVars
<1>2. CASE StoreBlob(i)
  <2>1. StoresTypeOK'
    BY <1>2, UpsertBlobType DEF StoreBlob
  <2>2. stats' \in [Ingesters -> IngestStats]
    BY <1>2, StatsType DEF StoreBlob, IngestTypeOK
  <2>3. /\ position[i] \in 1 .. Len(directory[i])
        /\ directory[i][position[i]].content \in Documents
    BY <1>2, FileType DEF StoreBlob, DocOf, FileOf
  <2>4. IngestTypeOK'
    BY <1>2, <2>2, <2>3 DEF StoreBlob, IngestTypeOK, IngestSteps
  <2>5. QED
    BY <1>2, <2>1, <2>4 DEF StoreBlob, QueueTypeOK, queueVars
<1>3. CASE AbortOnFile(i)
  <2>1. stats' \in [Ingesters -> IngestStats]
    BY <1>3, StatsType DEF AbortOnFile, IngestTypeOK
  <2>2. IngestTypeOK'
    BY <1>3, <2>1 DEF AbortOnFile, IngestTypeOK, IngestSteps
  <2>3. QED
    BY <1>3, <2>2 DEF AbortOnFile, QueueTypeOK, StoresTypeOK, queueVars, storeVars
<1>4. CASE EnqueueJob(i)
  <2>1. DocOf(i) \in Documents /\ KeyOf[DocOf(i)] \in Conversations
    BY <1>4, EnqueueDoc DEF EnqueueJob
  <2>2. QueueTypeOK'
    BY <1>4, <2>1, EnqueueType DEF EnqueueJob
  <2>3. stats' \in [Ingesters -> IngestStats]
    BY <1>4, StatsType DEF EnqueueJob, IngestTypeOK
  <2>4. IngestTypeOK'
    BY <1>4, <2>3 DEF EnqueueJob, IngestTypeOK, IngestSteps
  <2>5. QED
    BY <1>4, <2>2, <2>4 DEF EnqueueJob, StoresTypeOK, storeVars
<1>5. CASE FinishIngest(i)
  BY <1>5 DEF FinishIngest, IngestTypeOK, IngestSteps, QueueTypeOK, StoresTypeOK,
              queueVars, storeVars
<1>6. QED
  BY <1>1, <1>2, <1>3, <1>4, <1>5 DEF IngestStep

LEMMA BlobVanishesType ==
    ASSUME StoresTypeOK, NEW k \in VanishingBlobs, BlobVanishes(k)
    PROVE  StoresTypeOK'
BY DEF StoresTypeOK, BlobVanishes

LEMMA InitType == Init => TypeOK
<1>1. Null \notin ClaimedJob /\ Null \notin Documents
  BY WorkerAssumption, NullIsNoValue
<1> SUFFICES ASSUME Init PROVE TypeOK
  OBVIOUS
<1>2. QueueTypeOK /\ StoresTypeOK
  BY DEF Init, QueueInit, QueueTypeOK, StoresInit, StoresTypeOK
<1>3. WorkerTypeOK
  BY <1>1 DEF Init, WorkerInit, WorkerTypeOK, Steps, Working
<1>4. IngestTypeOK /\ faults \in Nat
  BY NoStatsType DEF Init, IngestInit, IngestTypeOK, IngestSteps
<1>5. QED
  BY <1>2, <1>3, <1>4 DEF TypeOK

LEMMA NextType == TypeOK /\ [Next]_vars => TypeOK'
<1> SUFFICES ASSUME TypeOK, [Next]_vars PROVE TypeOK'
  OBVIOUS
<1> QueueTypeOK /\ StoresTypeOK /\ WorkerTypeOK /\ IngestTypeOK /\ faults \in Nat
  BY DEF TypeOK
<1> USE DEF TypeOK
<1>1. ASSUME NEW w \in Workers, WorkerRuns(w) PROVE TypeOK'
  BY <1>1, WorkerStepType DEF WorkerRuns, IngestTypeOK, ingestVars
<1>2. ASSUME NEW w \in Workers, WorkerRestarts(w) PROVE TypeOK'
  <2>1. WorkerTypeOK'
    BY <1>2 DEF WorkerRestarts, Restart, Goto, WorkerTypeOK, Steps, Working
  <2>2. QED
    BY <1>2, <2>1 DEF WorkerRestarts, Restart, QueueTypeOK, StoresTypeOK,
                      IngestTypeOK, queueVars, storeVars, ingestVars
<1>3. ASSUME NEW i \in Ingesters, IngestStarts(i) PROVE TypeOK'
  <2>1. IngestTypeOK'
    BY <1>3, StartIngestType DEF IngestStarts
  <2>2. QED
    BY <1>3, <2>1 DEF IngestStarts, StartIngest, QueueTypeOK, StoresTypeOK,
                      WorkerTypeOK, queueVars, storeVars, workerVars
<1>4. ASSUME NEW i \in Ingesters, IngestRuns(i) PROVE TypeOK'
  BY <1>4, IngestStepType DEF IngestRuns, WorkerTypeOK, workerVars
<1>5. CASE TimePasses
  BY <1>5, TickType DEF TimePasses, StoresTypeOK, WorkerTypeOK, IngestTypeOK,
                        storeVars, workerVars, ingestVars
<1>6. CASE Fault
  <2> faults' \in Nat
    BY <1>6 DEF Fault
  <2>1. ASSUME NEW w \in Workers, WorkerDies(w) PROVE TypeOK'
    BY <2>1, DieType DEF WorkerDies, Kill, Die, QueueTypeOK,
            StoresTypeOK, IngestTypeOK, queueVars, storeVars, ingestVars
  <2>2. ASSUME NEW i \in Ingesters, IngestDies(i) PROVE TypeOK'
    BY <2>2, KillIngestType DEF IngestDies, KillIngest, QueueTypeOK,
            StoresTypeOK, WorkerTypeOK, queueVars, storeVars, workerVars
  <2>3. ASSUME NEW k \in VanishingBlobs, BlobVanishes(k) PROVE TypeOK'
    BY <2>3, BlobVanishesType DEF BlobVanishes, QueueTypeOK,
            WorkerTypeOK, IngestTypeOK, queueVars, workerVars, ingestVars
  <2>4. QED
    BY <1>6, <2>1, <2>2, <2>3 DEF Fault
<1>7. CASE UNCHANGED vars
  BY <1>7 DEF vars, QueueTypeOK, StoresTypeOK, WorkerTypeOK, IngestTypeOK,
              queueVars, storeVars, workerVars, ingestVars
<1>8. QED
  BY <1>1, <1>2, <1>3, <1>4, <1>5, <1>6, <1>7 DEF Next

(* Every variable keeps its type.                                          *)
THEOREM TypeCorrect == Spec => []TypeOK
BY InitType, NextType, PTL DEF Spec

(***************************************************************************)
(* A closed job has its outcome on record                                  *)
(***************************************************************************)

(* Closing a job with a result whose rejection matches the status "dead"   *)
(* puts job and result in order, and takes no result away.                 *)
LEMMA CloseOutcome ==
    ASSUME OutcomeInv, NEW k \in Conversations, NEW row \in Result,
           NEW s \in {"done", "dead"}, s = "dead" => row.status = "rejected",
           CloseJobWithResult(k, row, s)
    PROVE  /\ ClosedJobHasResult' /\ DeadIsRejected'
           /\ \A l \in Conversations : results[l] # Null => results'[l] # Null
<1>1. /\ jobs \in [Conversations -> Row \cup {Null}]
      /\ results \in [Conversations -> Result \cup {Null}]
  BY DEF OutcomeInv, TypeOK, QueueTypeOK, StoresTypeOK
<1>2. /\ results'[k] = row
      /\ row # Null
      /\ \A l \in Conversations \ {k} : results'[l] = results[l]
  BY <1>1, NullIsNoRecord DEF CloseJobWithResult, UpsertResult
<1>3. /\ \A l \in Conversations \ {k} : jobs'[l] = jobs[l]
      /\ jobs[k] # Null => jobs'[k] = [jobs[k] EXCEPT !.status = s, !.claim_age = 0]
      /\ jobs[k] = Null => jobs'[k] = Null
  BY <1>1 DEF CloseJobWithResult, SetStatus
<1>4. jobs[k] # Null => jobs'[k].status = s
  BY <1>1, <1>3 DEF Row
<1>5. ClosedJobHasResult'
  BY <1>2, <1>3 DEF OutcomeInv, ClosedJobHasResult, Closed, Tracked
<1>6. DeadIsRejected'
  BY <1>2, <1>3, <1>4 DEF OutcomeInv, DeadIsRejected, Tracked
<1>7. QED
  BY <1>2, <1>5, <1>6

(* Marking a job done that has a result.                                   *)
LEMMA MarkDoneOutcome ==
    ASSUME OutcomeInv, NEW k \in Conversations, results[k] # Null,
           MarkDone(k), UNCHANGED results
    PROVE  ClosedJobHasResult' /\ DeadIsRejected'
<1>1. jobs \in [Conversations -> Row \cup {Null}]
  BY DEF OutcomeInv, TypeOK, QueueTypeOK
<1>2. /\ \A l \in Conversations \ {k} : jobs'[l] = jobs[l]
      /\ jobs[k] # Null => jobs'[k] = [jobs[k] EXCEPT !.status = "done", !.claim_age = 0]
      /\ jobs[k] = Null => jobs'[k] = Null
  BY <1>1 DEF MarkDone, SetStatus
<1>3. jobs[k] # Null => jobs'[k].status = "done"
  BY <1>1, <1>2 DEF Row
<1>4. QED
  BY <1>2, <1>3 DEF OutcomeInv, ClosedJobHasResult, DeadIsRejected, Closed, Tracked

(* Steps that open jobs, or leave them as they are, close none.            *)
LEMMA OpenOutcome ==
    ASSUME OutcomeInv, UNCHANGED results,
           \A k \in Conversations :
                jobs'[k] # Null => \/ jobs'[k].status \notin {"done", "dead"}
                                   \/ jobs'[k] = jobs[k]
    PROVE  ClosedJobHasResult' /\ DeadIsRejected'
BY DEF OutcomeInv, ClosedJobHasResult, DeadIsRejected, Closed, Tracked

(* Enqueue, claim and tick only open jobs.                                 *)
LEMMA OpeningSteps ==
    ASSUME QueueTypeOK,
           \/ \E k \in Conversations, hash \in Hashes : Enqueue(k, hash)
           \/ \E S \in SUBSET Tracked : Claim(S)
           \/ Tick
    PROVE  \A k \in Conversations :
                jobs'[k] # Null => \/ jobs'[k].status \notin {"done", "dead"}
                                   \/ jobs'[k] = jobs[k]
<1>1. ASSUME NEW k \in Conversations, NEW hash \in Hashes, Enqueue(k, hash)
      PROVE  \A l \in Conversations : \/ jobs'[l].status = "queued"
                                      \/ jobs'[l] = jobs[l]
  BY <1>1 DEF Enqueue, IsNews, QueueTypeOK, queueVars
<1>2. ASSUME NEW S \in SUBSET Tracked, Claim(S)
      PROVE  \A l \in Conversations : \/ jobs'[l].status = "claimed"
                                      \/ jobs'[l] = jobs[l]
  <2>1. ASSUME NEW l \in S PROVE jobs'[l].status = "claimed"
    <3>1. jobs'[l] = [jobs[l] EXCEPT !.status = "claimed", !.claim_age = 0,
                                     !.delivery_count = @ + 1]
      BY <1>2 DEF Claim, Tracked
    <3>2. jobs[l] \in Row
      BY TrackedRow
    <3>3. QED
      BY <3>1, <3>2 DEF Row
  <2>2. QED
    BY <1>2, <2>1 DEF Claim
<1>3. ASSUME Tick
      PROVE  \A l \in Conversations : \/ jobs'[l].status = "claimed"
                                      \/ jobs'[l] = jobs[l]
  <2>1. ASSUME NEW l \in Tracked, jobs[l].status = "claimed", ~LeaseExpired(l)
        PROVE  jobs'[l].status = "claimed"
    <3>1. jobs'[l] = [jobs[l] EXCEPT !.claim_age = @ + 1]
      BY <1>3, <2>1 DEF Tick, Tracked
    <3>2. jobs[l] \in Row
      BY TrackedRow
    <3>3. QED
      BY <2>1, <3>1, <3>2 DEF Row
  <2>2. QED
    BY <1>3, <2>1 DEF Tick
<1>4. QED
  BY <1>1, <1>2, <1>3

(* A worker reaches mark_done only by finding a result, and none goes away.*)
LEMMA SkipStays ==
    ASSUME OutcomeInv, WorkerTypeOK,
           \A l \in Conversations : results[l] # Null => results'[l] # Null,
           \A v \in Workers : pc'[v] = "skip" =>
                /\ cur'[v] = cur[v]
                /\ \/ pc[v] = "skip"
                   \/ pc[v] = "lookup" /\ results[cur[v].key] # Null
    PROVE  SkipHasResult'
<1> SUFFICES ASSUME NEW v \in Workers, pc'[v] = "skip"
             PROVE  results'[cur'[v].key] # Null
  BY DEF SkipHasResult
<1>1. results[cur[v].key] # Null
  BY DEF OutcomeInv, SkipHasResult
<1>2. cur[v].key \in Conversations
  BY AtWork DEF Working, Steps, ClaimedJob
<1>3. QED
  BY <1>1, <1>2

LEMMA WorkerStepOutcome ==
    ASSUME OutcomeInv, NEW w \in Workers, NEW locked, WorkerStep(w, locked)
    PROVE  ClosedJobHasResult' /\ DeadIsRejected' /\ SkipHasResult'
<1> QueueTypeOK /\ StoresTypeOK /\ WorkerTypeOK
  BY DEF OutcomeInv, TypeOK
<1> pc \in [Workers -> Steps] /\ cur \in [Workers -> ClaimedJob \cup {Null}]
  BY DEF WorkerTypeOK
<1>1. CASE ClaimJobs(w, locked)
  <2>1. ClosedJobHasResult' /\ DeadIsRejected'
    BY <1>1, BatchIsTracked, OpeningSteps, OpenOutcome DEF ClaimJobs, storeVars
  <2>2. SkipHasResult'
    BY <1>1, SkipStays DEF ClaimJobs, storeVars, OutcomeInv, SkipHasResult
  <2>3. QED
    BY <2>1, <2>2
<1>2. CASE ClaimNothing(w, locked)
  <2>1. ClosedJobHasResult' /\ DeadIsRejected'
    BY <1>2, OpenOutcome DEF ClaimNothing, queueVars, storeVars
  <2>2. SkipHasResult'
    BY <1>2, SkipStays DEF ClaimNothing, Goto, workerVars, storeVars
  <2>3. QED
    BY <2>1, <2>2
<1>3. CASE Begin(w)
  <2>1. ClosedJobHasResult' /\ DeadIsRejected'
    BY <1>3, OpenOutcome DEF Begin, queueVars, storeVars
  <2>2. \A v \in Workers : pc'[v] = "skip" => pc[v] = "skip" /\ cur'[v] = cur[v]
    BY <1>3 DEF Begin
  <2>3. SkipHasResult'
    BY <1>3, <2>2, SkipStays DEF Begin, storeVars
  <2>4. QED
    BY <2>1, <2>3
<1>4. CASE ClosePoison(w)
  <2>1. cur[w].content_hash \in Hashes /\ cur[w].key \in Conversations
    BY <1>4, AtWork DEF ClosePoison, Working, Steps, ClaimedJob
  <2>2. /\ ClosedJobHasResult' /\ DeadIsRejected'
        /\ \A l \in Conversations : results[l] # Null => results'[l] # Null
    BY <1>4, <2>1, RowTypes, CloseOutcome DEF ClosePoison, RejectedRow, Errors
  <2>3. SkipHasResult'
    BY <1>4, <2>2, SkipStays DEF ClosePoison, Return
  <2>4. QED
    BY <2>2, <2>3
<1>5. CASE Lookup(w)
  <2>1. ClosedJobHasResult' /\ DeadIsRejected'
    BY <1>5, OpenOutcome DEF Lookup, queueVars, storeVars
  <2>2. SkipHasResult'
    BY <1>5, SkipStays DEF Lookup, Goto, HasResultFor, GetResult, storeVars
  <2>3. QED
    BY <2>1, <2>2
<1>6. CASE SkipDuplicate(w)
  <2>1. cur[w].key \in Conversations
    BY <1>6, AtWork DEF SkipDuplicate, Working, Steps, ClaimedJob
  <2>2. ClosedJobHasResult' /\ DeadIsRejected'
    BY <1>6, <2>1, MarkDoneOutcome DEF SkipDuplicate, OutcomeInv, SkipHasResult, storeVars
  <2>3. SkipHasResult'
    BY <1>6, SkipStays DEF SkipDuplicate, Return, storeVars
  <2>4. QED
    BY <2>2, <2>3
<1>7. CASE Fetch(w)
  <2>1. ClosedJobHasResult' /\ DeadIsRejected'
    BY <1>7, OpenOutcome DEF Fetch, queueVars, storeVars
  <2>2. \A v \in Workers : pc'[v] = "skip" => pc[v] = "skip" /\ cur'[v] = cur[v]
    BY <1>7 DEF Fetch, Goto
  <2>3. SkipHasResult'
    BY <1>7, <2>2, SkipStays DEF Fetch, storeVars
  <2>4. QED
    BY <2>1, <2>3
<1>8. CASE CloseMissing(w)
  <2>1. cur[w].content_hash \in Hashes /\ cur[w].key \in Conversations
    BY <1>8, AtWork DEF CloseMissing, Working, Steps, ClaimedJob
  <2>2. /\ ClosedJobHasResult' /\ DeadIsRejected'
        /\ \A l \in Conversations : results[l] # Null => results'[l] # Null
    BY <1>8, <2>1, RowTypes, CloseOutcome DEF CloseMissing, RejectedRow, Errors
  <2>3. SkipHasResult'
    BY <1>8, <2>2, SkipStays DEF CloseMissing, Return
  <2>4. QED
    BY <2>2, <2>3
<1>9. CASE CloseScored(w)
  <2>1. raw[w] \in Documents /\ KeyOf[raw[w]] \in Conversations
    BY <1>9, AtWork, KeyOfType DEF CloseScored
  <2>2. JobStatusFor(ScoredRow(raw[w])) = "dead" => ScoredRow(raw[w]).status = "rejected"
    BY DEF JobStatusFor
  <2>3. /\ ClosedJobHasResult' /\ DeadIsRejected'
        /\ \A l \in Conversations : results[l] # Null => results'[l] # Null
    BY <1>9, <2>1, <2>2, RowTypes, CloseOutcome DEF CloseScored
  <2>4. SkipHasResult'
    BY <1>9, <2>3, SkipStays DEF CloseScored, Return
  <2>5. QED
    BY <2>3, <2>4
<1>10. CASE ScoringKills(w)
  <2>1. ClosedJobHasResult' /\ DeadIsRejected'
    BY <1>10, OpenOutcome DEF ScoringKills, Die, queueVars, storeVars
  <2>2. SkipHasResult'
    BY <1>10, SkipStays DEF ScoringKills, Die, storeVars
  <2>3. QED
    BY <2>1, <2>2
<1>11. QED
  BY <1>1, <1>2, <1>3, <1>4, <1>5, <1>6, <1>7, <1>8, <1>9, <1>10 DEF WorkerStep

(* Workers that do not move keep what they know.                           *)
LEMMA OthersOutcome ==
    ASSUME OutcomeInv, UNCHANGED <<results, workerVars>>,
           \A k \in Conversations :
                jobs'[k] # Null => \/ jobs'[k].status \notin {"done", "dead"}
                                   \/ jobs'[k] = jobs[k]
    PROVE  ClosedJobHasResult' /\ DeadIsRejected' /\ SkipHasResult'
BY OpenOutcome DEF OutcomeInv, SkipHasResult, workerVars

LEMMA NextOutcome == OutcomeInv /\ [Next]_vars => OutcomeInv'
<1> SUFFICES ASSUME OutcomeInv, [Next]_vars PROVE OutcomeInv'
  OBVIOUS
<1> TypeOK'
  BY NextType DEF OutcomeInv
<1> QueueTypeOK /\ WorkerTypeOK /\ IngestTypeOK
  BY DEF OutcomeInv, TypeOK
<1> SUFFICES ClosedJobHasResult' /\ DeadIsRejected' /\ SkipHasResult'
  BY DEF OutcomeInv
<1>1. ASSUME NEW w \in Workers, WorkerRuns(w)
      PROVE  ClosedJobHasResult' /\ DeadIsRejected' /\ SkipHasResult'
  BY <1>1, WorkerStepOutcome DEF WorkerRuns
<1>2. ASSUME NEW w \in Workers, WorkerRestarts(w) \/ WorkerDies(w)
      PROVE  ClosedJobHasResult' /\ DeadIsRejected' /\ SkipHasResult'
  <2>1. UNCHANGED <<jobs, results>>
    BY <1>2 DEF WorkerRestarts, Restart, WorkerDies, Kill, Die, queueVars, storeVars
  <2>2. \A v \in Workers : pc'[v] = "skip" => pc[v] = "skip" /\ cur'[v] = cur[v]
    BY <1>2 DEF WorkerRestarts, Restart, Goto, WorkerDies, Kill, Die, WorkerTypeOK
  <2>3. QED
    BY <2>1, <2>2, OpenOutcome, SkipStays
<1>3. ASSUME NEW i \in Ingesters, IngestStarts(i) \/ IngestDies(i)
      PROVE  ClosedJobHasResult' /\ DeadIsRejected' /\ SkipHasResult'
  BY <1>3, OthersOutcome
  DEF IngestStarts, StartIngest, IngestDies, KillIngest, queueVars, storeVars
<1>4. ASSUME NEW i \in Ingesters, IngestRuns(i)
      PROVE  ClosedJobHasResult' /\ DeadIsRejected' /\ SkipHasResult'
  <2>1. CASE EnqueueJob(i)
    <3>1. /\ KeyOf[DocOf(i)] \in Conversations
          /\ ContentHash(DocOf(i)) \in Hashes
      BY <2>1, EnqueueDoc DEF EnqueueJob, Hashes
    <3>2. QED
      BY <1>4, <2>1, <3>1, OpeningSteps, OthersOutcome
      DEF IngestRuns, EnqueueJob, storeVars
  <2>2. CASE ~EnqueueJob(i)
    BY <1>4, <2>2, OthersOutcome
    DEF IngestRuns, IngestStep, DeadLetter, StoreBlob, UpsertBlob, AbortOnFile,
        FinishIngest, queueVars, storeVars
  <2>3. QED
    BY <2>1, <2>2
<1>5. CASE TimePasses
  BY <1>5, OpeningSteps, OthersOutcome DEF TimePasses, storeVars
<1>6. ASSUME NEW k \in VanishingBlobs, BlobVanishes(k)
      PROVE  ClosedJobHasResult' /\ DeadIsRejected' /\ SkipHasResult'
  BY <1>6, OthersOutcome DEF BlobVanishes, queueVars
<1>7. CASE UNCHANGED vars
  BY <1>7, OthersOutcome DEF vars, queueVars, storeVars
<1>8. QED
  BY <1>1, <1>2, <1>3, <1>4, <1>5, <1>6, <1>7 DEF Next, Fault

LEMMA InitOutcome == Init => OutcomeInv
BY InitType DEF Init, QueueInit, WorkerInit, OutcomeInv, ClosedJobHasResult,
                DeadIsRejected, SkipHasResult, Closed, Tracked

LEMMA OutcomeAlways == Spec => []OutcomeInv
BY InitOutcome, NextOutcome, PTL DEF Spec

(* Whatever crashes, expires, is delivered twice or is ingested again, a   *)
(* job that left the queue has a result.                                   *)
THEOREM ClosedHasResult == Spec => []ClosedJobHasResult
<1>1. OutcomeInv => ClosedJobHasResult
  BY DEF OutcomeInv
<1>2. QED
  BY <1>1, OutcomeAlways, PTL

(* The dead_letters view shows rejected conversations only.                *)
THEOREM DeadLettersAreRejected == Spec => []DeadIsRejected
<1>1. OutcomeInv => DeadIsRejected
  BY DEF OutcomeInv
<1>2. QED
  BY <1>1, OutcomeAlways, PTL

(***************************************************************************)
(* No delivery is held by two workers                                      *)
(***************************************************************************)

LEMMA HeldType ==
    ASSUME WorkerTypeOK, NEW w \in Workers
    PROVE  Held(w) \subseteq ClaimedJob
BY DEF WorkerTypeOK, Held

(* How a row of the table may change for the better: it stays as it is, is *)
(* delivered again, or is written by a later enqueue.                      *)
RowGrows(k) ==
    /\ jobs'[k] # Null
    /\ \/ /\ jobs'[k].enqueued_at = jobs[k].enqueued_at
          /\ jobs'[k].delivery_count >= jobs[k].delivery_count
       \/ jobs'[k].enqueued_at > jobs[k].enqueued_at

LEMMA EnqueueGrows ==
    ASSUME QueueTypeOK, StampsAreInThePast, NEW k \in Conversations,
           NEW hash \in Hashes, Enqueue(k, hash)
    PROVE  (\A l \in Tracked : RowGrows(l)) /\ StampsAreInThePast'
<1>1. CASE IsNews(k, hash)
  <2>1. /\ clock' = clock + 1
        /\ jobs'[k] = [content_hash   |-> hash, status |-> "queued",
                       claim_age      |-> 0, delivery_count |-> 0,
                       enqueued_at    |-> clock + 1]
        /\ \A l \in Conversations \ {k} : jobs'[l] = jobs[l]
    BY <1>1 DEF Enqueue, QueueTypeOK
  <2>2. jobs'[k] \in Row
    BY <2>1, QueueAssumption DEF Row, Statuses, QueueTypeOK
  <2>3. \A l \in Tracked : jobs[l] \in Row /\ jobs[l].enqueued_at \in Nat
    BY TrackedRow DEF Row
  <2>4. \A l \in Tracked : jobs[l].enqueued_at <= clock
    BY DEF StampsAreInThePast
  <2>5. \A l \in Tracked : RowGrows(l)
    <3> TAKE l \in Tracked
    <3>1. CASE l = k
      BY <2>1, <2>2, <2>3, <2>4, <3>1, NullIsNoRow DEF RowGrows, QueueTypeOK
    <3>2. CASE l # k
      BY <2>1, <2>3, <3>2 DEF RowGrows, Tracked, Row
    <3>3. QED
      BY <3>1, <3>2
  <2>6. StampsAreInThePast'
    BY <2>1, <2>3, <2>4 DEF StampsAreInThePast, Tracked, QueueTypeOK
  <2>7. QED
    BY <2>5, <2>6
<1>2. CASE ~IsNews(k, hash)
  <2>1. UNCHANGED queueVars
    BY <1>2 DEF Enqueue
  <2>2. \A l \in Tracked : RowGrows(l)
    BY <2>1, TrackedRow DEF queueVars, RowGrows, Row, Tracked
  <2>3. QED
    BY <2>1, <2>2 DEF queueVars, StampsAreInThePast, Tracked
<1>3. QED
  BY <1>1, <1>2

(* An operation that keeps every stamp and loses no delivery.              *)
LEMMA SameStampsGrow ==
    ASSUME QueueTypeOK, QueueTypeOK', StampsAreInThePast, UNCHANGED clock,
           \A k \in Tracked : /\ jobs'[k] # Null
                              /\ jobs'[k].enqueued_at = jobs[k].enqueued_at
                              /\ jobs'[k].delivery_count >= jobs[k].delivery_count,
           \A k \in Conversations : jobs[k] = Null => jobs'[k] = Null
    PROVE  (\A l \in Tracked : RowGrows(l)) /\ StampsAreInThePast'
BY DEF RowGrows, StampsAreInThePast, Tracked

LEMMA SetStatusGrows ==
    ASSUME QueueTypeOK, StampsAreInThePast, NEW k, NEW s \in {"done", "dead"},
           SetStatus(k, s)
    PROVE  (\A l \in Tracked : RowGrows(l)) /\ StampsAreInThePast'
<1>1. QueueTypeOK'
  BY SetStatusType
<1>2. ASSUME NEW l \in Tracked
      PROVE  /\ jobs'[l] # Null
             /\ jobs'[l].enqueued_at = jobs[l].enqueued_at
             /\ jobs'[l].delivery_count >= jobs[l].delivery_count
  <2>1. l \in Conversations /\ jobs[l] \in Row /\ jobs[l] # Null
    BY TrackedRow DEF Tracked
  <2>2. jobs'[l] = jobs[l] \/ jobs'[l] = [jobs[l] EXCEPT !.status = s, !.claim_age = 0]
    BY <2>1 DEF SetStatus, QueueTypeOK
  <2>3. [jobs[l] EXCEPT !.status = s, !.claim_age = 0] \in Row
    BY <2>1, ClosedRow DEF Statuses
  <2>4. CASE jobs'[l] = jobs[l]
    BY <2>1, <2>4 DEF Row
  <2>5. CASE jobs'[l] = [jobs[l] EXCEPT !.status = s, !.claim_age = 0]
    <3>1. jobs'[l] # Null
      BY <2>3, <2>5, NullIsNoRow
    <3>2. QED
      BY <2>1, <2>5, <3>1 DEF Row
  <2>6. QED
    BY <2>2, <2>4, <2>5
<1>3. \A l \in Conversations : jobs[l] = Null => jobs'[l] = Null
  BY DEF SetStatus, QueueTypeOK
<1>4. QED
  BY <1>1, <1>2, <1>3, SameStampsGrow DEF SetStatus

LEMMA TickGrows ==
    ASSUME QueueTypeOK, StampsAreInThePast, Tick
    PROVE  (\A l \in Tracked : RowGrows(l)) /\ StampsAreInThePast'
<1>1. QueueTypeOK'
  BY TickType
<1>2. ASSUME NEW l \in Tracked
      PROVE  /\ jobs'[l] # Null
             /\ jobs'[l].enqueued_at = jobs[l].enqueued_at
             /\ jobs'[l].delivery_count >= jobs[l].delivery_count
  <2>1. l \in Conversations /\ jobs[l] \in Row /\ jobs[l] # Null
    BY TrackedRow DEF Tracked
  <2>2. jobs'[l] = jobs[l] \/ jobs'[l] = [jobs[l] EXCEPT !.claim_age = @ + 1]
    BY <2>1 DEF Tick
  <2>3. CASE jobs'[l] = jobs[l]
    BY <2>1, <2>3 DEF Row
  <2>4. CASE jobs'[l] = [jobs[l] EXCEPT !.claim_age = @ + 1]
    <3>1. jobs'[l] # Null
      <4>1. l \in DOMAIN jobs' /\ (jobs'[l] \in Row \/ jobs'[l] = Null)
        BY <1>1, <2>1 DEF QueueTypeOK
      <4>2. CASE jobs'[l] = jobs[l]
        BY <4>2, <2>1
      <4>3. CASE jobs'[l] # jobs[l]
        <5>1. ~LeaseExpired(l)
          BY <2>1, <4>3 DEF Tick
        <5>2. [jobs[l] EXCEPT !.claim_age = @ + 1] \in Row
          BY <2>1, <5>1, QueueAssumption DEF LeaseExpired, Row
        <5>3. QED
          BY <2>4, <5>2, NullIsNoRow
      <4>4. QED
        BY <4>2, <4>3
    <3>2. QED
      BY <2>1, <2>4, <3>1 DEF Row
  <2>5. QED
    BY <2>2, <2>3, <2>4
<1>3. \A l \in Conversations : jobs[l] = Null => jobs'[l] = Null
  BY DEF Tick, Tracked
<1>4. QED
  BY <1>1, <1>2, <1>3, SameStampsGrow DEF Tick

(* A claim keeps the stamps and counts one delivery more of each row of    *)
(* its batch.                                                              *)
LEMMA ClaimGrows ==
    ASSUME QueueTypeOK, StampsAreInThePast, NEW S \in SUBSET Tracked, Claim(S)
    PROVE  /\ \A l \in Tracked : RowGrows(l)
           /\ \A k \in S : /\ jobs'[k] \in Row
                           /\ jobs'[k].enqueued_at = jobs[k].enqueued_at
                           /\ jobs'[k].delivery_count = jobs[k].delivery_count + 1
           /\ StampsAreInThePast'
<1>1. QueueTypeOK'
  BY ClaimType
<1>2. ASSUME NEW k \in S
      PROVE  /\ jobs'[k] \in Row
             /\ jobs'[k].enqueued_at = jobs[k].enqueued_at
             /\ jobs'[k].delivery_count = jobs[k].delivery_count + 1
  <2>1. jobs[k] \in Row /\ k \in Conversations
    BY TrackedRow
  <2>2. jobs'[k] = [jobs[k] EXCEPT !.status = "claimed", !.claim_age = 0,
                                   !.delivery_count = @ + 1]
    BY <2>1 DEF Claim
  <2>3. jobs'[k] \in Row
    BY <2>1, <2>2, ClaimedRow
  <2>4. QED
    BY <2>1, <2>2, <2>3 DEF Row
<1>3. ASSUME NEW l \in Tracked
      PROVE  /\ jobs'[l] # Null
             /\ jobs'[l].enqueued_at = jobs[l].enqueued_at
             /\ jobs'[l].delivery_count >= jobs[l].delivery_count
  <2>1. l \in Conversations /\ jobs[l] \in Row /\ jobs[l].delivery_count \in Nat
    BY TrackedRow DEF Row
  <2>2. CASE l \in S
    <3>1. /\ jobs'[l] \in Row
          /\ jobs'[l].enqueued_at = jobs[l].enqueued_at
          /\ jobs'[l].delivery_count = jobs[l].delivery_count + 1
      BY <1>2, <2>2
    <3>2. jobs'[l] # Null
      BY <3>1, NullIsNoRow
    <3>3. QED
      BY <2>1, <3>1, <3>2
  <2>3. CASE l \notin S
    <3>1. jobs'[l] = jobs[l] /\ jobs[l] # Null
      BY <2>1, <2>3 DEF Claim, Tracked
    <3>2. QED
      BY <2>1, <3>1
  <2>4. QED
    BY <2>2, <2>3
<1>4. \A l \in Conversations : jobs[l] = Null => jobs'[l] = Null
  BY DEF Claim, Tracked
<1>5. QED
  BY <1>1, <1>2, <1>3, <1>4, SameStampsGrow DEF Claim

(* As long as rows grow and nobody is handed anything new, deliveries stay *)
(* known and distinct.                                                     *)
LEMMA HeldShrinks ==
    ASSUME DeliveryInv, QueueTypeOK',
           \A k \in Tracked : RowGrows(k),
           \A w \in Workers : Held(w)' \subseteq Held(w)
    PROVE  HeldIsKnown' /\ NoDoubleDelivery'
<1>1. ASSUME NEW w \in Workers, NEW job \in Held(w)'
      PROVE  /\ jobs'[job.key] # Null
             /\ job.enqueued_at <= jobs'[job.key].enqueued_at
             /\ job.enqueued_at = jobs'[job.key].enqueued_at
                    => job.delivery_count <= jobs'[job.key].delivery_count
  <2>1. job \in Held(w) /\ job \in ClaimedJob
    BY HeldType DEF DeliveryInv, TypeOK
  <2>2. /\ job.key \in Conversations
        /\ job.enqueued_at \in Nat
        /\ job.delivery_count \in Nat
    BY <2>1 DEF ClaimedJob
  <2>3. /\ jobs[job.key] # Null
        /\ job.enqueued_at <= jobs[job.key].enqueued_at
        /\ job.enqueued_at = jobs[job.key].enqueued_at
                => job.delivery_count <= jobs[job.key].delivery_count
    BY <2>1 DEF DeliveryInv, HeldIsKnown
  <2>4. RowGrows(job.key) /\ jobs[job.key] \in Row
    BY <2>2, <2>3, TrackedRow DEF Tracked, DeliveryInv, TypeOK
  <2>5. jobs'[job.key] \in Row
    BY <2>2, <2>4 DEF RowGrows, QueueTypeOK
  <2>6. /\ jobs[job.key].enqueued_at \in Nat /\ jobs[job.key].delivery_count \in Nat
        /\ jobs'[job.key].enqueued_at \in Nat /\ jobs'[job.key].delivery_count \in Nat
    BY <2>4, <2>5 DEF Row
  <2>7. QED
    BY <2>2, <2>3, <2>4, <2>6 DEF RowGrows
<1>2. HeldIsKnown'
  BY <1>1 DEF HeldIsKnown
<1>3. NoDoubleDelivery'
  BY DEF DeliveryInv, NoDoubleDelivery, Delivery
<1>4. QED
  BY <1>2, <1>3

(* A claim hands out deliveries nobody has.                                *)
LEMMA ClaimDelivers ==
    ASSUME DeliveryInv, NEW w \in Workers, NEW locked, ClaimJobs(w, locked)
    PROVE  HeldIsKnown' /\ NoDoubleDelivery' /\ StampsAreInThePast'
<1> DEFINE S == Batch(locked)
<1> QueueTypeOK /\ WorkerTypeOK /\ StampsAreInThePast /\ HeldIsKnown /\ NoDoubleDelivery
  BY DEF DeliveryInv, TypeOK
<1>1. S \in SUBSET Tracked /\ Claim(S)
  BY BatchIsTracked DEF ClaimJobs
<1>2. HIDE DEF S
<1>3. /\ \A l \in Tracked : RowGrows(l)
      /\ \A k \in S : /\ jobs'[k] \in Row
                      /\ jobs'[k].enqueued_at = jobs[k].enqueued_at
                      /\ jobs'[k].delivery_count = jobs[k].delivery_count + 1
      /\ StampsAreInThePast'
  BY <1>1, ClaimGrows
<1>4. QueueTypeOK'
  BY <1>1, ClaimType
<1>5. \A v \in Workers \ {w} : Held(v)' = Held(v)
  BY DEF ClaimJobs, Held, WorkerTypeOK
<1>6. Held(w)' = Handout(S)
  BY DEF ClaimJobs, Held, WorkerTypeOK, Working, Steps, S
<1>7. ASSUME NEW job \in Handout(S)
      PROVE  /\ job.key \in S
             /\ job.enqueued_at = jobs'[job.key].enqueued_at
             /\ job.delivery_count = jobs'[job.key].delivery_count
  BY DEF Handout
<1>8. ASSUME NEW v \in Workers, v # w, NEW job \in Held(v)
      PROVE  /\ job \in ClaimedJob
             /\ jobs[job.key] \in Row
             /\ job.key \in Tracked
             /\ job.enqueued_at <= jobs[job.key].enqueued_at
             /\ job.enqueued_at = jobs[job.key].enqueued_at
                    => job.delivery_count <= jobs[job.key].delivery_count
  <2>1. job \in ClaimedJob
    BY HeldType
  <2>2. job.key \in Tracked
    BY <2>1 DEF HeldIsKnown, Tracked, ClaimedJob
  <2>3. QED
    BY <2>1, <2>2, TrackedRow DEF HeldIsKnown
<1>9. HeldIsKnown'
  <2> SUFFICES ASSUME NEW v \in Workers, NEW job \in Held(v)'
               PROVE  /\ jobs'[job.key] # Null
                      /\ job.enqueued_at <= jobs'[job.key].enqueued_at
                      /\ job.enqueued_at = jobs'[job.key].enqueued_at
                            => job.delivery_count <= jobs'[job.key].delivery_count
    BY DEF HeldIsKnown
  <2>1. CASE v = w
    <3>1. job \in Handout(S)
      BY <1>6, <2>1
    <3>2. jobs'[job.key] \in Row
      BY <1>3, <1>7, <3>1
    <3>3. /\ jobs'[job.key].enqueued_at \in Nat
          /\ jobs'[job.key].delivery_count \in Nat
      BY <3>2 DEF Row
    <3>4. QED
      BY <1>7, <3>1, <3>2, <3>3, NullIsNoRow
  <2>2. CASE v # w
    <3>1. job \in Held(v)
      BY <1>5, <2>2
    <3>2. job.enqueued_at \in Nat /\ job.delivery_count \in Nat
      BY <1>8, <2>2, <3>1 DEF ClaimedJob
    <3>3. /\ RowGrows(job.key)
          /\ jobs[job.key].enqueued_at \in Nat
          /\ jobs[job.key].delivery_count \in Nat
      BY <1>3, <1>8, <2>2, <3>1 DEF Row
    <3>4. jobs'[job.key] \in Row
      BY <1>4, <1>8, <2>2, <3>1, <3>3 DEF RowGrows, QueueTypeOK, Tracked
    <3>5. /\ jobs'[job.key].enqueued_at \in Nat
          /\ jobs'[job.key].delivery_count \in Nat
      BY <3>4 DEF Row
    <3>6. QED
      BY <1>8, <2>2, <3>1, <3>2, <3>3, <3>5 DEF RowGrows
  <2>3. QED
    BY <2>1, <2>2
<1>10. ASSUME NEW v \in Workers, v # w, NEW a \in Held(v), NEW b \in Handout(S)
       PROVE  Delivery(a) # Delivery(b)
  <2>1. SUFFICES ASSUME a.key = b.key, a.enqueued_at = b.enqueued_at
                 PROVE  a.delivery_count # b.delivery_count
    BY DEF Delivery
  <2>2. /\ b.key \in S
        /\ b.enqueued_at = jobs[b.key].enqueued_at
        /\ b.delivery_count = jobs[b.key].delivery_count + 1
    BY <1>3, <1>7
  <2>3. a.delivery_count <= jobs[a.key].delivery_count
    BY <1>8, <1>10, <2>1, <2>2
  <2>4. a.delivery_count \in Nat /\ jobs[a.key].delivery_count \in Nat
    BY <1>8, <1>10 DEF ClaimedJob, Row
  <2>5. QED
    BY <2>1, <2>2, <2>3, <2>4
<1>11. NoDoubleDelivery'
  <2> SUFFICES ASSUME NEW u \in Workers, NEW v \in Workers, u # v,
                      NEW a \in Held(u)', NEW b \in Held(v)'
               PROVE  Delivery(a) # Delivery(b)
    BY DEF NoDoubleDelivery, Delivery
  <2>1. CASE u = w
    BY <1>5, <1>6, <1>10, <2>1
  <2>2. CASE v = w
    BY <1>5, <1>6, <1>10, <2>2
  <2>3. CASE u # w /\ v # w
    BY <1>5, <2>3 DEF NoDoubleDelivery
  <2>4. QED
    BY <2>1, <2>2, <2>3
<1>12. QED
  BY <1>3, <1>9, <1>11

(* A step that leaves the queue alone lets no row shrink.                  *)
LEMMA SameRowsGrow ==
    ASSUME QueueTypeOK, StampsAreInThePast, UNCHANGED queueVars
    PROVE  (\A l \in Tracked : RowGrows(l)) /\ StampsAreInThePast'
<1>1. UNCHANGED jobs /\ UNCHANGED clock
  BY DEF queueVars
<1>2. \A l \in Tracked : jobs[l] # Null /\ jobs[l].delivery_count \in Nat
  BY TrackedRow DEF Tracked, Row
<1>3. \A l \in Tracked : RowGrows(l)
  BY <1>1, <1>2 DEF RowGrows
<1>4. StampsAreInThePast'
  BY <1>1 DEF StampsAreInThePast, Tracked
<1>5. QED
  BY <1>3, <1>4

(* Away from the claim a worker only uses up what it holds.                *)
LEMMA WorkerStepDelivery ==
    ASSUME DeliveryInv, QueueTypeOK', NEW w \in Workers, NEW locked,
           WorkerStep(w, locked)
    PROVE  HeldIsKnown' /\ NoDoubleDelivery' /\ StampsAreInThePast'
<1> QueueTypeOK /\ StoresTypeOK /\ WorkerTypeOK /\ StampsAreInThePast
  BY DEF DeliveryInv, TypeOK
<1>1. CASE ClaimJobs(w, locked)
  BY <1>1, ClaimDelivers
<1>2. CASE ~ClaimJobs(w, locked)
  <2>1. \A v \in Workers : Held(v)' \subseteq Held(v)
    BY <1>2 DEF WorkerStep, ClaimNothing, Begin, ClosePoison, Lookup, SkipDuplicate,
                Fetch, CloseMissing, CloseScored, ScoringKills, Return, Goto, Die,
                Held, WorkerTypeOK, workerVars
  <2>2. \/ UNCHANGED queueVars
        \/ \E k, s : s \in {"done", "dead"} /\ SetStatus(k, s)
    <3>1. CASE CloseScored(w)
      <4>1. raw[w] \in Documents
        BY <3>1, AtWork DEF CloseScored
      <4>2. QED
        BY <3>1, <4>1, RowTypes DEF CloseScored, CloseJobWithResult
    <3>2. CASE ~CloseScored(w)
      BY <1>2, <3>2
      DEF WorkerStep, ClaimNothing, Begin, ClosePoison, Lookup, SkipDuplicate,
          Fetch, CloseMissing, ScoringKills, Die, CloseJobWithResult, MarkDone
    <3>3. QED
      BY <3>1, <3>2
  <2>3. (\A l \in Tracked : RowGrows(l)) /\ StampsAreInThePast'
    BY <2>2, SameRowsGrow, SetStatusGrows
  <2>4. QED
    BY <2>1, <2>3, HeldShrinks
<1>3. QED
  BY <1>1, <1>2

LEMMA NextDelivery == DeliveryInv /\ [Next]_vars => DeliveryInv'
<1> SUFFICES ASSUME DeliveryInv, [Next]_vars PROVE DeliveryInv'
  OBVIOUS
<1> TypeOK'
  BY NextType DEF DeliveryInv
<1> QueueTypeOK /\ QueueTypeOK' /\ WorkerTypeOK /\ IngestTypeOK /\ StampsAreInThePast
  BY DEF DeliveryInv, TypeOK
<1> SUFFICES HeldIsKnown' /\ NoDoubleDelivery' /\ StampsAreInThePast'
  BY DEF DeliveryInv
<1>1. ASSUME NEW w \in Workers, WorkerRuns(w)
      PROVE  HeldIsKnown' /\ NoDoubleDelivery' /\ StampsAreInThePast'
  BY <1>1, WorkerStepDelivery DEF WorkerRuns
<1>2. ASSUME NEW w \in Workers, WorkerRestarts(w) \/ WorkerDies(w)
      PROVE  HeldIsKnown' /\ NoDoubleDelivery' /\ StampsAreInThePast'
  <2>1. \A v \in Workers : Held(v)' \subseteq Held(v)
    BY <1>2 DEF WorkerRestarts, Restart, Goto, WorkerDies, Kill, Die, Held, WorkerTypeOK
  <2>2. UNCHANGED queueVars
    BY <1>2 DEF WorkerRestarts, Restart, WorkerDies, Kill, Die
  <2>3. QED
    BY <2>1, <2>2, SameRowsGrow, HeldShrinks
<1>3. ASSUME UNCHANGED workerVars,
             (\A l \in Tracked : RowGrows(l)) /\ StampsAreInThePast'
      PROVE  HeldIsKnown' /\ NoDoubleDelivery' /\ StampsAreInThePast'
  BY <1>3, HeldShrinks DEF Held, workerVars
<1>4. ASSUME NEW i \in Ingesters, IngestRuns(i)
      PROVE  HeldIsKnown' /\ NoDoubleDelivery' /\ StampsAreInThePast'
  <2>1. CASE EnqueueJob(i)
    <3>1. /\ KeyOf[DocOf(i)] \in Conversations
          /\ ContentHash(DocOf(i)) \in Hashes
      BY <2>1, EnqueueDoc DEF EnqueueJob, Hashes
    <3>2. QED
      BY <1>3, <1>4, <2>1, <3>1, EnqueueGrows DEF IngestRuns, EnqueueJob
  <2>2. CASE ~EnqueueJob(i)
    BY <1>3, <1>4, <2>2, SameRowsGrow
    DEF IngestRuns, IngestStep, DeadLetter, StoreBlob, AbortOnFile, FinishIngest
  <2>3. QED
    BY <2>1, <2>2
<1>5. ASSUME NEW i \in Ingesters, IngestStarts(i) \/ IngestDies(i)
      PROVE  HeldIsKnown' /\ NoDoubleDelivery' /\ StampsAreInThePast'
  BY <1>3, <1>5, SameRowsGrow DEF IngestStarts, StartIngest, IngestDies, KillIngest
<1>6. CASE TimePasses
  BY <1>3, <1>6, TickGrows DEF TimePasses
<1>7. ASSUME NEW k \in VanishingBlobs, BlobVanishes(k)
      PROVE  HeldIsKnown' /\ NoDoubleDelivery' /\ StampsAreInThePast'
  BY <1>3, <1>7, SameRowsGrow DEF BlobVanishes
<1>8. CASE UNCHANGED vars
  BY <1>3, <1>8, SameRowsGrow DEF vars
<1>9. QED
  BY <1>1, <1>2, <1>4, <1>5, <1>6, <1>7, <1>8 DEF Next, Fault

LEMMA InitDelivery == Init => DeliveryInv
BY InitType DEF Init, QueueInit, WorkerInit, DeliveryInv, StampsAreInThePast,
                HeldIsKnown, NoDoubleDelivery, Held, Tracked

(* Two workers never hold the same delivery of a job.                      *)
THEOREM DisjointDeliveries == Spec => []NoDoubleDelivery
<1>1. Init => DeliveryInv
  BY InitDelivery
<1>2. DeliveryInv /\ [Next]_vars => DeliveryInv'
  BY NextDelivery
<1>3. DeliveryInv => NoDoubleDelivery
  BY DEF DeliveryInv
<1>4. QED
  BY <1>1, <1>2, <1>3, PTL DEF Spec
=============================================================================
