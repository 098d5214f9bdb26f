--------------------------- MODULE ContentProofs ----------------------------
(***************************************************************************)
(* Proofs about the contents behind the jobs: a tracked conversation has   *)
(* its blob, a closed conversation that has one version only has the       *)
(* result of that version, and a scored result stands.                     *)
(***************************************************************************)
EXTENDS LedgerProofs

(***************************************************************************)
(* Blobs                                                                   *)
(***************************************************************************)

(* No row of jobs or of blobs goes away but by a fault, and only an        *)
(* ingester makes a conversation tracked.                                  *)
LEMMA NextBlob ==
    ASSUME BlobInv, [Next]_vars
    PROVE  StoredBeforeEnqueued' /\ BlobBeforeJob'
<1>t. QueueTypeOK /\ StoresTypeOK /\ WorkerTypeOK /\ IngestTypeOK
  BY DEF BlobInv, LedgerInv, OutcomeInv, TypeOK
<1>h. \A w \in Workers : pc[w] \in Working => cur[w].key \in Tracked
  <2> SUFFICES ASSUME NEW w \in Workers, pc[w] \in Working PROVE cur[w].key \in Tracked
    OBVIOUS
  <2>1. cur[w] \in ClaimedJob /\ cur[w] \in Held(w)
    BY <1>t, AtWork DEF Held, WorkerTypeOK
  <2> QED
    BY <2>1 DEF BlobInv, LedgerInv, DeliveryInv, HeldIsKnown, Tracked, ClaimedJob
<1> DEFINE Stays ==
              /\ \A k \in Conversations : blobs[k] # Null => blobs'[k] # Null
              /\ Tracked' \subseteq Tracked
           SameIngest ==
              /\ istep' = istep /\ directory' = directory /\ position' = position
           Missing ==
              \A w \in Workers : pc'[w] = "missing" => cur'[w].key \in VanishingBlobs
<1>1. ASSUME Stays, SameIngest, Missing PROVE StoredBeforeEnqueued' /\ BlobBeforeJob'
  <2>1. BlobBeforeJob'
    BY <1>1 DEF BlobInv, BlobBeforeJob, Tracked
  <2>2. StoredBeforeEnqueued'
    <3> SUFFICES ASSUME NEW i \in Ingesters, istep[i] = "enqueue"
                 PROVE  KeyOf[DocOf(i)] \in VanishingBlobs \/ blobs'[KeyOf[DocOf(i)]] # Null
      BY <1>1 DEF StoredBeforeEnqueued, DocOf, FileOf
    <3> QED
      BY <1>1, <1>t, EnqueueDoc DEF BlobInv, StoredBeforeEnqueued
  <2> QED
    BY <2>1, <2>2
<1>2. ASSUME NEW w \in Workers, WorkerRuns(w) PROVE StoredBeforeEnqueued' /\ BlobBeforeJob'
  <2>1. PICK locked : WorkerStep(w, locked)
    BY <1>2 DEF WorkerRuns
  <2>2. UNCHANGED blobs /\ SameIngest
    BY <1>2, <2>1
    DEF WorkerRuns, ingestVars, WorkerStep, ClaimJobs, ClaimNothing, Begin, ClosePoison,
        Lookup, SkipDuplicate, Fetch, CloseMissing, CloseScored, ScoringKills, Die,
        CloseJobWithResult, UpsertResult, storeVars
  <2>3. Tracked' \subseteq Tracked
    BY <1>t, <2>1, BatchIsTracked
    DEF WorkerStep, ClaimJobs, ClaimNothing, Begin, ClosePoison, Lookup, SkipDuplicate,
        Fetch, CloseMissing, CloseScored, ScoringKills, Die, CloseJobWithResult, MarkDone,
        SetStatus, Claim, QueueTypeOK, Tracked, queueVars
  <2>4. Missing
    <3>1. \A v \in Workers \ {w} : pc'[v] = pc[v] /\ cur'[v] = cur[v]
      BY <1>t, <2>1
      DEF WorkerStep, ClaimJobs, ClaimNothing, Begin, ClosePoison, Lookup, SkipDuplicate,
          Fetch, CloseMissing, CloseScored, ScoringKills, Die, Return, Goto, workerVars,
          WorkerTypeOK
    <3>2. pc'[w] = "missing" =>
              /\ pc[w] = "fetch" /\ blobs[cur[w].key] = Null
              /\ cur'[w] = cur[w]
      BY <1>t, <2>1
      DEF WorkerStep, ClaimJobs, ClaimNothing, Begin, ClosePoison, Lookup, SkipDuplicate,
          Fetch, CloseMissing, CloseScored, ScoringKills, Die, Return, Goto, workerVars,
          WorkerTypeOK
    <3>3. pc'[w] = "missing" => cur'[w].key \in VanishingBlobs
      BY <3>2, <1>h DEF BlobInv, BlobBeforeJob, Working, Steps
    <3> QED
      BY <3>1, <3>3 DEF BlobInv, BlobBeforeJob
  <2> QED
    BY <1>1, <2>2, <2>3, <2>4
<1>3. ASSUME NEW w \in Workers, WorkerRestarts(w)
      PROVE  StoredBeforeEnqueued' /\ BlobBeforeJob'
  <2>1. Stays /\ SameIngest
    BY <1>3 DEF WorkerRestarts, Restart, ingestVars, queueVars, storeVars, Tracked
  <2>2. Missing
    BY <1>3, <1>t
    DEF WorkerRestarts, Restart, Goto, WorkerTypeOK, BlobInv, BlobBeforeJob
  <2> QED
    BY <1>1, <2>1, <2>2
<1>4. ASSUME NEW i \in Ingesters, IngestStarts(i)
      PROVE  StoredBeforeEnqueued' /\ BlobBeforeJob'
  <2>1. PICK dir \in Directories : StartIngest(i, dir)
    BY <1>4 DEF IngestStarts
  <2>2. BlobBeforeJob'
    BY <1>4, <2>1
    DEF IngestStarts, StartIngest, workerVars, queueVars, storeVars, BlobInv,
        BlobBeforeJob, Tracked
  <2>3. \A j \in Ingesters : istep'[j] = "enqueue" =>
            istep[j] = "enqueue" /\ DocOf(j)' = DocOf(j)
    BY <2>1, <1>t DEF StartIngest, IngestTypeOK, DocOf, FileOf
  <2> QED
    BY <2>1, <2>2, <2>3
    DEF BlobInv, StoredBeforeEnqueued, StartIngest, storeVars
<1>5. ASSUME NEW i \in Ingesters, IngestRuns(i)
      PROVE  StoredBeforeEnqueued' /\ BlobBeforeJob'
  <2>w. UNCHANGED workerVars
    BY <1>5 DEF IngestRuns
  <2>1. CASE StoreBlob(i)
    <3>1. /\ DocOf(i) \in Documents /\ KeyOf[DocOf(i)] \in Conversations
          /\ UpsertBlob(KeyOf[DocOf(i)], DocOf(i))
      BY <2>1, KeyOfType DEF StoreBlob
    <3>2. /\ blobs'[KeyOf[DocOf(i)]] # Null
          /\ \A k \in Conversations : blobs[k] # Null => blobs'[k] # Null
      <4>1. [content_hash |-> ContentHash(DocOf(i)), raw |-> Jsonb[DocOf(i)]] \in Blob
        BY <3>1, JsonbType DEF Blob, Hashes
      <4> QED
        BY <3>1, <4>1, <1>t, NullIsNoRecord DEF UpsertBlob, StoresTypeOK
    <3>3. \A j \in Ingesters : istep'[j] = "enqueue" =>
            DocOf(j)' = DocOf(j) /\ (j = i \/ istep[j] = "enqueue")
      BY <2>1, <1>t DEF StoreBlob, IngestTypeOK, DocOf, FileOf
    <3>4. StoredBeforeEnqueued'
      <4> SUFFICES ASSUME NEW j \in Ingesters, istep'[j] = "enqueue"
                   PROVE  \/ KeyOf[DocOf(j)] \in VanishingBlobs
                          \/ blobs'[KeyOf[DocOf(j)]] # Null
        BY <3>3 DEF StoredBeforeEnqueued
      <4>1. CASE j = i
        BY <4>1, <3>2
      <4>2. CASE istep[j] = "enqueue"
        BY <4>2, <3>2, <1>t, EnqueueDoc DEF BlobInv, StoredBeforeEnqueued
      <4> QED
        BY <3>3, <4>1, <4>2
    <3>5. BlobBeforeJob'
      BY <2>1, <2>w, <3>2
      DEF StoreBlob, queueVars, workerVars, BlobInv, BlobBeforeJob, Tracked
    <3> QED
      BY <3>4, <3>5
  <2>2. CASE EnqueueJob(i)
    <3>1. UNCHANGED blobs /\ Tracked' \subseteq Tracked \cup {KeyOf[DocOf(i)]}
      BY <2>2, <1>t DEF EnqueueJob, Enqueue, storeVars, queueVars, QueueTypeOK, Tracked
    <3>2. KeyOf[DocOf(i)] \in VanishingBlobs \/ blobs[KeyOf[DocOf(i)]] # Null
      BY <2>2 DEF EnqueueJob, BlobInv, StoredBeforeEnqueued
    <3>3. BlobBeforeJob'
      BY <2>w, <3>1, <3>2 DEF workerVars, BlobInv, BlobBeforeJob
    <3>4. \A j \in Ingesters : istep'[j] = "enqueue" =>
            istep[j] = "enqueue" /\ DocOf(j)' = DocOf(j)
      BY <2>2, <1>t DEF EnqueueJob, IngestTypeOK, DocOf, FileOf
    <3> QED
      BY <3>1, <3>3, <3>4 DEF BlobInv, StoredBeforeEnqueued
  <2>3. CASE DeadLetter(i) \/ AbortOnFile(i) \/ FinishIngest(i)
    <3>1. UNCHANGED <<jobs, blobs>>
      BY <2>3 DEF DeadLetter, AbortOnFile, FinishIngest, queueVars, storeVars
    <3>2. \A j \in Ingesters : istep'[j] = "enqueue" =>
            istep[j] = "enqueue" /\ DocOf(j)' = DocOf(j)
      BY <2>3, <1>t
      DEF DeadLetter, AbortOnFile, FinishIngest, AtFile, IngestTypeOK, DocOf, FileOf
    <3>3. BlobBeforeJob'
      BY <2>w, <3>1 DEF workerVars, BlobInv, BlobBeforeJob, Tracked
    <3> QED
      BY <3>1, <3>2, <3>3 DEF BlobInv, StoredBeforeEnqueued
  <2> QED
    BY <1>5, <2>1, <2>2, <2>3 DEF IngestRuns, IngestStep
<1>6. ASSUME TimePasses PROVE StoredBeforeEnqueued' /\ BlobBeforeJob'
  <2>1. Stays /\ SameIngest
    BY <1>6, <1>t DEF TimePasses, Tick, QueueTypeOK, storeVars, ingestVars, Tracked
  <2>2. Missing
    BY <1>6 DEF TimePasses, workerVars, BlobInv, BlobBeforeJob
  <2> QED
    BY <1>1, <2>1, <2>2
<1>7. ASSUME Fault PROVE StoredBeforeEnqueued' /\ BlobBeforeJob'
  <2>1. ASSUME NEW w \in Workers, WorkerDies(w) PROVE StoredBeforeEnqueued' /\ BlobBeforeJob'
    <3>1. Stays /\ SameIngest
      BY <2>1 DEF WorkerDies, Kill, Die, ingestVars, queueVars, storeVars, Tracked
    <3>2. Missing
      BY <2>1, <1>t DEF WorkerDies, Kill, Die, WorkerTypeOK, BlobInv, BlobBeforeJob
    <3> QED
      BY <1>1, <3>1, <3>2
  <2>2. ASSUME NEW i \in Ingesters, IngestDies(i)
        PROVE  StoredBeforeEnqueued' /\ BlobBeforeJob'
    <3>1. UNCHANGED <<jobs, blobs, workerVars>>
      BY <2>2 DEF IngestDies, KillIngest, queueVars, storeVars
    <3>2. \A j \in Ingesters : istep'[j] = "enqueue" =>
            istep[j] = "enqueue" /\ DocOf(j)' = DocOf(j)
      BY <2>2, <1>t DEF IngestDies, KillIngest, IngestTypeOK, DocOf, FileOf
    <3>3. BlobBeforeJob'
      BY <3>1 DEF workerVars, BlobInv, BlobBeforeJob, Tracked
    <3> QED
      BY <3>1, <3>2, <3>3 DEF BlobInv, StoredBeforeEnqueued
  <2>3. ASSUME NEW k \in VanishingBlobs, BlobVanishes(k)
        PROVE  StoredBeforeEnqueued' /\ BlobBeforeJob'
    <3>1. UNCHANGED <<jobs, workerVars, istep, directory, position>>
      BY <2>3 DEF BlobVanishes, queueVars, ingestVars
    <3>2. \A l \in Conversations \ VanishingBlobs : blobs'[l] = blobs[l]
      BY <2>3, <1>t DEF BlobVanishes, StoresTypeOK
    <3>3. BlobBeforeJob'
      BY <3>1, <3>2 DEF workerVars, BlobInv, BlobBeforeJob, Tracked
    <3>4. StoredBeforeEnqueued'
      <4> SUFFICES ASSUME NEW i \in Ingesters, istep[i] = "enqueue"
                   PROVE  \/ KeyOf[DocOf(i)] \in VanishingBlobs
                          \/ blobs'[KeyOf[DocOf(i)]] # Null
        BY <3>1 DEF StoredBeforeEnqueued, DocOf, FileOf
      <4> QED
        BY <3>2, <1>t, EnqueueDoc DEF BlobInv, StoredBeforeEnqueued
    <3> QED
      BY <3>3, <3>4
  <2> QED
    BY <1>7, <2>1, <2>2, <2>3 DEF Fault
<1>8. ASSUME UNCHANGED vars PROVE StoredBeforeEnqueued' /\ BlobBeforeJob'
  <2>1. Stays /\ SameIngest
    BY <1>8 DEF vars, queueVars, storeVars, ingestVars, Tracked
  <2>2. Missing
    BY <1>8 DEF vars, workerVars, BlobInv, BlobBeforeJob
  <2> QED
    BY <1>1, <2>1, <2>2
<1> QED
  BY <1>2, <1>3, <1>4, <1>5, <1>6, <1>7, <1>8 DEF Next

LEMMA InitBlob == Init => BlobInv
BY InitLedger
DEF Init, QueueInit, WorkerInit, IngestInit, BlobInv, StoredBeforeEnqueued, BlobBeforeJob,
    Tracked

(* A worker that claims a job finds its blob: ingest stores the blob       *)
(* first, and only somebody who deletes blobs can make a job blob_missing. *)
THEOREM BlobsComeFirst == Spec => []BlobBeforeJob
<1>1. BlobInv /\ [Next]_vars => BlobInv'
  BY NextBlob, NextLedgerInv DEF BlobInv
<1>2. BlobInv => BlobBeforeJob
  BY DEF BlobInv
<1> QED
  BY <1>1, <1>2, InitBlob, PTL DEF Spec

(***************************************************************************)
(* Hashes                                                                  *)
(***************************************************************************)

(* Steps after which every hash is one that was there before.              *)
LEMMA OldHashes ==
    ASSUME HashesAreOfTheKey, UNCHANGED results,
           \A k \in Tracked' : k \in Tracked /\ jobs'[k].content_hash = jobs[k].content_hash,
           \A w \in Workers : Held(w)' \subseteq Held(w)
    PROVE  HashesAreOfTheKey'
BY DEF HashesAreOfTheKey, HashFor

LEMMA SetStatusKeepsHashes ==
    ASSUME QueueTypeOK, NEW k, NEW s, SetStatus(k, s)
    PROVE  \A l \in Tracked' : l \in Tracked /\ jobs'[l].content_hash = jobs[l].content_hash
<1> SUFFICES ASSUME NEW l \in Tracked'
             PROVE  l \in Tracked /\ jobs'[l].content_hash = jobs[l].content_hash
  OBVIOUS
<1>1. l \in Conversations /\ jobs'[l] # Null
  BY DEF Tracked
<1>2. jobs[l] # Null
  BY <1>1 DEF SetStatus, QueueTypeOK
<1>3. jobs[l] \in Row
  BY <1>1, <1>2 DEF QueueTypeOK
<1>4. jobs'[l].content_hash = jobs[l].content_hash
  BY <1>1, <1>2, <1>3 DEF SetStatus, QueueTypeOK, Row
<1> QED
  BY <1>1, <1>2, <1>4 DEF Tracked

LEMMA TickKeepsHashes ==
    ASSUME QueueTypeOK, Tick
    PROVE  \A l \in Tracked' : l \in Tracked /\ jobs'[l].content_hash = jobs[l].content_hash
<1> SUFFICES ASSUME NEW l \in Tracked'
             PROVE  l \in Tracked /\ jobs'[l].content_hash = jobs[l].content_hash
  OBVIOUS
<1>1. l \in Conversations /\ jobs'[l] # Null
  BY DEF Tracked
<1>2. l \in Tracked
  BY <1>1 DEF Tick, Tracked
<1>3. jobs[l] \in Row
  BY <1>2, TrackedRow
<1> QED
  BY <1>1, <1>2, <1>3 DEF Tick, Row

(* Closing files a result under a hash of the same conversation.           *)
LEMMA CloseFilesHash ==
    ASSUME HashesAreOfTheKey, QueueTypeOK, StoresTypeOK, NEW k \in Conversations,
           NEW row, HashFor(k, row.content_hash), NEW s, CloseJobWithResult(k, row, s),
           \A w \in Workers : Held(w)' \subseteq Held(w)
    PROVE  HashesAreOfTheKey'
<1>1. \A l \in Tracked' : l \in Tracked /\ jobs'[l].content_hash = jobs[l].content_hash
  BY SetStatusKeepsHashes DEF CloseJobWithResult
<1>2. results' = [results EXCEPT ![k] = row]
  BY DEF CloseJobWithResult, UpsertResult
<1>3. \A l \in Conversations : results'[l] # Null => HashFor(l, results'[l].content_hash)
  BY <1>2 DEF HashesAreOfTheKey, StoresTypeOK
<1> QED
  BY <1>1, <1>3 DEF HashesAreOfTheKey, HashFor

LEMMA ClaimKeepsHashes ==
    ASSUME TypeOK, HashesAreOfTheKey, NEW w \in Workers, NEW locked, ClaimJobs(w, locked)
    PROVE  HashesAreOfTheKey'
<1>t. QueueTypeOK /\ WorkerTypeOK
  BY DEF TypeOK
<1> DEFINE S == Batch(locked)
<1>1. Claim(S) /\ S \subseteq Tracked
  BY BatchIsTracked DEF ClaimJobs
<1>2. \A l \in Tracked' : l \in Tracked /\ jobs'[l].content_hash = jobs[l].content_hash
  <2> SUFFICES ASSUME NEW l \in Tracked'
               PROVE  l \in Tracked /\ jobs'[l].content_hash = jobs[l].content_hash
    OBVIOUS
  <2>1. l \in Tracked /\ jobs[l] \in Row
    BY <1>1, <1>t, TrackedRow DEF Claim, Tracked
  <2> QED
    BY <1>1, <2>1 DEF Claim, Row, Tracked
<1>3. S \subseteq Tracked'
  <2> SUFFICES ASSUME NEW k \in S PROVE k \in Tracked'
    OBVIOUS
  <2>1. k \in Conversations /\ jobs[k] \in Row
    BY <1>1, <1>t, TrackedRow
  <2>2. jobs'[k] \in Row
    BY <1>1, <2>1, ClaimedRow DEF Claim
  <2> QED
    BY <2>1, <2>2, NullIsNoRow DEF Tracked
<1>4. \A job \in Handout(S) : job.key \in S /\ job.content_hash = jobs'[job.key].content_hash
  BY DEF Handout
<1>5. \A job \in Handout(S) : HashFor(job.key, job.content_hash)
  BY <1>1, <1>2, <1>3, <1>4 DEF HashesAreOfTheKey
<1>6. \A v \in Workers : Held(v)' \subseteq Held(v) \cup Handout(S)
  BY <1>t DEF ClaimJobs, Held, WorkerTypeOK
<1>7. UNCHANGED results
  BY DEF ClaimJobs, storeVars
<1> QED
  BY <1>2, <1>5, <1>6, <1>7 DEF HashesAreOfTheKey, HashFor

(* What a worker still holds after a step that is not a claim.             *)
LEMMA WorkerHoldsLess ==
    ASSUME WorkerTypeOK, NEW w \in Workers, NEW locked, WorkerStep(w, locked),
           ~ClaimJobs(w, locked)
    PROVE  \A v \in Workers : Held(v)' \subseteq Held(v)
BY DEF WorkerStep, ClaimNothing, Begin, ClosePoison, Lookup, SkipDuplicate, Fetch,
       CloseMissing, CloseScored, ScoringKills, Die, Return, Goto, workerVars, Held,
       WorkerTypeOK

LEMMA WorkerStepHashes ==
    ASSUME ContentInv, NEW w \in Workers, NEW locked, WorkerStep(w, locked)
    PROVE  HashesAreOfTheKey'
<1>t. TypeOK /\ QueueTypeOK /\ StoresTypeOK /\ WorkerTypeOK /\ HashesAreOfTheKey
  BY DEF ContentInv, LedgerInv, OutcomeInv, TypeOK
<1>k. ASSUME pc[w] \in Working
      PROVE  /\ cur[w].key \in Conversations
             /\ HashFor(cur[w].key, cur[w].content_hash)
  <2>1. cur[w] \in ClaimedJob /\ cur[w] \in Held(w)
    BY <1>k, <1>t, AtWork DEF Held, WorkerTypeOK
  <2> QED
    BY <2>1, <1>t DEF HashesAreOfTheKey, ClaimedJob
<1>1. CASE ClaimJobs(w, locked)
  BY <1>1, <1>t, ClaimKeepsHashes
<1>2. CASE ~ClaimJobs(w, locked)
  <2>h. \A v \in Workers : Held(v)' \subseteq Held(v)
    BY <1>2, <1>t, WorkerHoldsLess
  <2>1. CASE UNCHANGED <<queueVars, storeVars>>
    BY <1>t, <2>1, <2>h, OldHashes DEF queueVars, storeVars, Tracked
  <2>2. CASE ClosePoison(w) \/ CloseMissing(w)
    <3>1. PICK reason : CloseJobWithResult(cur[w].key,
                            RejectedRow(cur[w].content_hash, reason), "dead")
      BY <2>2 DEF ClosePoison, CloseMissing
    <3>2. RejectedRow(cur[w].content_hash, reason).content_hash = cur[w].content_hash
      BY DEF RejectedRow
    <3>3. pc[w] \in Working
      BY <2>2 DEF ClosePoison, CloseMissing, Working, Steps
    <3> QED
      BY <1>t, <1>k, <2>h, <3>1, <3>2, <3>3, CloseFilesHash
  <2>3. CASE CloseScored(w)
    <3>1. raw[w] \in Documents /\ KeyOf[raw[w]] \in Conversations
      BY <2>3, <1>t, AtWork, KeyOfType DEF CloseScored
    <3>2. HashFor(KeyOf[raw[w]], ScoredRow(raw[w]).content_hash)
      BY <3>1 DEF ScoredRow, HashFor
    <3>3. CloseJobWithResult(KeyOf[raw[w]], ScoredRow(raw[w]),
                             JobStatusFor(ScoredRow(raw[w])))
      BY <2>3 DEF CloseScored
    <3> QED
      BY <1>t, <2>h, <3>1, <3>2, <3>3, CloseFilesHash
  <2>4. CASE SkipDuplicate(w)
    <3>1. \A l \in Tracked' :
              l \in Tracked /\ jobs'[l].content_hash = jobs[l].content_hash
      BY <2>4, <1>t, SetStatusKeepsHashes DEF SkipDuplicate, MarkDone
    <3> QED
      BY <2>4, <1>t, <2>h, <3>1, OldHashes DEF SkipDuplicate, storeVars
  <2> QED
    BY <1>2, <2>1, <2>2, <2>3, <2>4
    DEF WorkerStep, ClaimNothing, Begin, Lookup, Fetch, ScoringKills, Die
<1> QED
  BY <1>1, <1>2

LEMMA NextHashes ==
    ASSUME ContentInv, [Next]_vars
    PROVE  HashesAreOfTheKey'
<1>t. QueueTypeOK /\ WorkerTypeOK /\ IngestTypeOK /\ HashesAreOfTheKey
  BY DEF ContentInv, LedgerInv, OutcomeInv, TypeOK
<1>s. ASSUME UNCHANGED <<jobs, results>>, \A v \in Workers : Held(v)' \subseteq Held(v)
      PROVE  HashesAreOfTheKey'
  BY <1>s, <1>t, OldHashes DEF Tracked
<1>w. ASSUME UNCHANGED workerVars PROVE \A v \in Workers : Held(v)' \subseteq Held(v)
  BY <1>w DEF workerVars, Held
<1>1. ASSUME NEW w \in Workers, WorkerRuns(w) PROVE HashesAreOfTheKey'
  BY <1>1, WorkerStepHashes DEF WorkerRuns
<1>2. ASSUME NEW w \in Workers, WorkerRestarts(w) PROVE HashesAreOfTheKey'
  BY <1>2, <1>s DEF WorkerRestarts, Restart, Goto, queueVars, storeVars, Held
<1>3. ASSUME NEW i \in Ingesters, IngestStarts(i) PROVE HashesAreOfTheKey'
  BY <1>3, <1>s, <1>w DEF IngestStarts, StartIngest, queueVars, storeVars
<1>4. ASSUME NEW i \in Ingesters, IngestRuns(i) PROVE HashesAreOfTheKey'
  <2>w. \A v \in Workers : Held(v)' \subseteq Held(v)
    BY <1>4, <1>w DEF IngestRuns
  <2>1. CASE EnqueueJob(i)
    <3> DEFINE d == DocOf(i)
    <3>1. d \in Documents /\ KeyOf[d] \in Conversations
      BY <2>1, <1>t, EnqueueDoc DEF EnqueueJob
    <3>2. Enqueue(KeyOf[d], ContentHash(d)) /\ UNCHANGED results
      BY <2>1 DEF EnqueueJob, storeVars
    <3>3. \A l \in Tracked' : HashFor(l, jobs'[l].content_hash)
      <4>1. CASE ~IsNews(KeyOf[d], ContentHash(d))
        BY <3>2, <4>1, <1>t DEF Enqueue, queueVars, HashesAreOfTheKey, Tracked
      <4>2. CASE IsNews(KeyOf[d], ContentHash(d))
        <5>1. jobs'[KeyOf[d]].content_hash = ContentHash(d)
          BY <3>1, <3>2, <4>2, <1>t DEF Enqueue, QueueTypeOK
        <5>2. \A l \in Conversations \ {KeyOf[d]} : jobs'[l] = jobs[l]
          BY <3>1, <3>2, <4>2, <1>t DEF Enqueue, QueueTypeOK
        <5>3. HashFor(KeyOf[d], jobs'[KeyOf[d]].content_hash)
          BY <3>1, <5>1 DEF HashFor
        <5> QED
          BY <5>2, <5>3, <1>t DEF HashesAreOfTheKey, Tracked
      <4> QED
        BY <4>1, <4>2
    <3> QED
      BY <2>w, <3>2, <3>3, <1>t DEF HashesAreOfTheKey, HashFor
  <2>2. CASE ~EnqueueJob(i)
    BY <1>4, <2>2, <2>w, <1>s
    DEF IngestRuns, IngestStep, DeadLetter, StoreBlob, UpsertBlob, AbortOnFile, FinishIngest,
        queueVars, storeVars
  <2> QED
    BY <2>1, <2>2
<1>5. ASSUME TimePasses PROVE HashesAreOfTheKey'
  BY <1>5, <1>t, <1>w, TickKeepsHashes, OldHashes DEF TimePasses, storeVars
<1>6. ASSUME Fault PROVE HashesAreOfTheKey'
  <2>1. ASSUME NEW w \in Workers, WorkerDies(w) PROVE HashesAreOfTheKey'
    BY <2>1, <1>s, <1>t DEF WorkerDies, Kill, Die, queueVars, storeVars, Held, WorkerTypeOK
  <2>2. ASSUME NEW i \in Ingesters, IngestDies(i) PROVE HashesAreOfTheKey'
    BY <2>2, <1>s, <1>w DEF IngestDies, KillIngest, queueVars, storeVars
  <2>3. ASSUME NEW k \in VanishingBlobs, BlobVanishes(k) PROVE HashesAreOfTheKey'
    BY <2>3, <1>s, <1>w DEF BlobVanishes, queueVars
  <2> QED
    BY <1>6, <2>1, <2>2, <2>3 DEF Fault
<1>7. ASSUME UNCHANGED vars PROVE HashesAreOfTheKey'
  BY <1>7, <1>s, <1>w DEF vars, queueVars, storeVars
<1> QED
  BY <1>1, <1>2, <1>3, <1>4, <1>5, <1>6, <1>7 DEF Next

LEMMA InitContent == Init => ContentInv
BY InitLedger
DEF Init, QueueInit, StoresInit, WorkerInit, ContentInv, HashesAreOfTheKey, Held, Tracked

(* A conversation of which one version only was ever delivered is closed   *)
(* with the result of that version: what goes wrong when a stale worker    *)
(* closes an updated job goes wrong with updates alone.                    *)
THEOREM OneVersionIsForItsContent == Spec => []UnchangedJobIsForItsContent
<1>1. ContentInv /\ [Next]_vars => ContentInv'
  BY NextHashes, NextLedgerInv DEF ContentInv
<1>2. ContentInv => UnchangedJobIsForItsContent
  <2> SUFFICES ASSUME ContentInv, NEW k \in Closed, OneVersionOf(k)
               PROVE  IsForItsContent(k)
    BY DEF UnchangedJobIsForItsContent
  <2>1. k \in Tracked /\ k \in Conversations /\ results[k] # Null
    BY DEF ContentInv, LedgerInv, OutcomeInv, ClosedJobHasResult, Closed, Tracked
  <2>2. HashFor(k, jobs[k].content_hash) /\ HashFor(k, results[k].content_hash)
    BY <2>1 DEF ContentInv, HashesAreOfTheKey
  <2> QED
    BY <2>1, <2>2 DEF HashFor, OneVersionOf, IsForItsContent, SameContent
<1> QED
  BY <1>1, <1>2, InitContent, PTL DEF Spec

(***************************************************************************)
(* Results                                                                 *)
(***************************************************************************)

(* The three ways in which a worker files a result.                        *)
FiledBy(w, k) ==
    \/ results'[k].error = "max_delivery_exceeded"
    \/ pc[w] = "missing" /\ k = cur[w].key /\ results'[k].error = "blob_missing"
    \/ pc[w] = "score" /\ results'[k] = ScoredRow(raw[w])

LEMMA WhatIsFiled ==
    ASSUME TypeOK, [Next]_vars, NEW k \in Conversations, results'[k] # results[k]
    PROVE  \E w \in Workers : FiledBy(w, k)
<1> USE DEF TypeOK
<1>1. ASSUME NEW w \in Workers, WorkerRuns(w) PROVE FiledBy(w, k)
  <2>1. PICK locked : WorkerStep(w, locked)
    BY <1>1 DEF WorkerRuns
  <2>2. CASE ClosePoison(w)
    BY <2>2 DEF ClosePoison, CloseJobWithResult, UpsertResult, RejectedRow, StoresTypeOK, FiledBy
  <2>3. CASE CloseMissing(w)
    BY <2>3 DEF CloseMissing, CloseJobWithResult, UpsertResult, RejectedRow, StoresTypeOK, FiledBy
  <2>4. CASE CloseScored(w)
    BY <2>4 DEF CloseScored, CloseJobWithResult, UpsertResult, StoresTypeOK, FiledBy
  <2> QED
    BY <2>1, <2>2, <2>3, <2>4
    DEF WorkerStep, ClaimJobs, ClaimNothing, Begin, Lookup, SkipDuplicate, Fetch,
        ScoringKills, Die, storeVars
<1>2. (\E w \in Workers : WorkerRuns(w)) \/ UNCHANGED results
  BY DEF Next, WorkerRestarts, Restart, IngestStarts, StartIngest, IngestRuns, IngestStep,
         DeadLetter, StoreBlob, UpsertBlob, AbortOnFile, EnqueueJob, FinishIngest,
         TimePasses, Fault, WorkerDies, Kill, Die, IngestDies, KillIngest, BlobVanishes,
         vars, storeVars
<1> QED
  BY <1>1, <1>2

LEMMA NextOneResult ==
    ASSUME StandingInv, [Next]_vars
    PROVE  OneResultPerContent'
<1>t. TypeOK /\ WorkerTypeOK /\ OneResultPerContent
  BY DEF StandingInv, BlobInv, LedgerInv, OutcomeInv, TypeOK
<1>s. StoredAndRead
  BY <1>t, NextStoredAndRead
<1>1. ASSUME NEW k \in Conversations, blobs'[k] # Null PROVE Rendered(blobs'[k].raw)
  <2>1. Stored(k)
    BY <1>s, <1>1 DEF StoredAndRead
  <2> QED
    BY <1>1, <2>1, <1>t, JsonbType DEF Stored, OneResultPerContent, Rendered
<1>2. ASSUME NEW w \in Workers, pc'[w] = "score" PROVE Rendered(raw'[w])
  BY <1>s, <1>2, <1>t DEF StoredAndRead, Read, OneResultPerContent
<1>3. ASSUME NEW k \in Conversations, Scored(results'[k])
      PROVE  \E d \in Documents : Rendered(d) /\ results'[k] = ScoredRow(d)
  <2>1. CASE results'[k] = results[k]
    BY <1>3, <2>1, <1>t DEF OneResultPerContent
  <2>2. CASE results'[k] # results[k]
    <3>1. PICK w \in Workers : FiledBy(w, k)
      BY <2>2, <1>t, WhatIsFiled
    <3>2. pc[w] = "score" /\ results'[k] = ScoredRow(raw[w])
      BY <1>3, <3>1 DEF FiledBy, Scored
    <3>3. raw[w] \in Documents /\ Rendered(raw[w])
      BY <3>2, <1>t DEF OneResultPerContent, Rendered
    <3> QED
      BY <3>2, <3>3
  <2> QED
    BY <2>1, <2>2
<1> QED
  BY <1>1, <1>2, <1>3 DEF OneResultPerContent, Rendered, Scored, ScoredRow, ContentHash

(* Two documents that Postgres gives back as they are have the same        *)
(* content only if they are the same.                                      *)
LEMMA RenderedOnce ==
    ASSUME NEW d, NEW e, Rendered(d), Rendered(e),
           SameContent(ScoredRow(d).content_hash, ScoredRow(e).content_hash)
    PROVE  d = e
BY DEF Rendered, SameContent, ScoredRow, ContentHash

LEMMA NextStands ==
    ASSUME StandingInv, [Next]_vars, NEW k \in Conversations, Scored(results[k]),
           SameContent(results[k].content_hash, results'[k].content_hash)
    PROVE  Outlives(k, results[k], results'[k])
<1>t. TypeOK /\ OneResultPerContent /\ BlobBeforeJob
  BY DEF StandingInv, BlobInv, LedgerInv, OutcomeInv
<1>1. CASE results'[k] = results[k]
  BY <1>1 DEF Outlives
<1>2. CASE results'[k] # results[k]
  <2>1. PICK w \in Workers : FiledBy(w, k)
    BY <1>2, <1>t, WhatIsFiled
  <2>2. CASE pc[w] = "missing" /\ k = cur[w].key /\ results'[k].error = "blob_missing"
    BY <2>2, <1>t DEF BlobBeforeJob, Outlives
  <2>3. CASE pc[w] = "score" /\ results'[k] = ScoredRow(raw[w])
    <3>1. Rendered(raw[w])
      BY <2>3, <1>t DEF OneResultPerContent
    <3>2. PICK d \in Documents : Rendered(d) /\ results[k] = ScoredRow(d)
      BY <1>t DEF OneResultPerContent
    <3>3. d = raw[w]
      BY <2>3, <3>1, <3>2, RenderedOnce
    <3> QED
      BY <2>3, <3>2, <3>3 DEF Outlives
  <2> QED
    BY <2>1, <2>2, <2>3 DEF FiledBy, Outlives
<1> QED
  BY <1>1, <1>2

LEMMA InitStanding == Init => StandingInv
BY InitBlob DEF Init, StoresInit, WorkerInit, StandingInv, OneResultPerContent, Scored

(* A scored result is never undone for the same content, and no second     *)
(* scoring of it says anything else: in spite of leases that run out,      *)
(* deliveries that overlap and hashes that never match, only a poison      *)
(* delivery and a deleted blob can take a result back.                     *)
THEOREM ScoredResultsStand == Spec => ResultsStand
<1>1. StandingInv /\ [Next]_vars => StandingInv'
  BY NextOneResult, NextBlob, NextLedgerInv DEF StandingInv, BlobInv
<1>2. StandingInv /\ [Next]_vars =>
        [\A k \in Conversations :
            Scored(results[k])
                /\ SameContent(results[k].content_hash, results'[k].content_hash)
               => Outlives(k, results[k], results'[k])]_vars
  BY NextStands
<1> QED
  BY <1>1, <1>2, InitStanding, PTL DEF Spec, ResultsStand
=============================================================================
