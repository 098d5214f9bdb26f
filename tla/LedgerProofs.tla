---------------------------- MODULE LedgerProofs ----------------------------
(***************************************************************************)
(* Proof that Pipeline implements ResultLedger.  Four kinds of steps       *)
(* matter: an enqueue accepts a conversation, closing a job settles it,    *)
(* marking a duplicate done confirms it, and everything else leaves        *)
(* standing and outcome alone.                                             *)
(***************************************************************************)
EXTENDS PipelineProofs

(* Where a step takes what is stored under a conversation from, and what a *)
(* worker scores: it is as it was, or comes from a file, or from the blob. *)
Stored(k) ==
    \/ blobs'[k] = blobs[k]
    \/ \E d \in Documents : KeyOf[d] = k /\ blobs'[k].raw = Jsonb[d]

Read(w) ==
    /\ cur'[w] = cur[w]
    /\ \/ pc[w] = "score" /\ raw'[w] = raw[w]
       \/ /\ cur[w].key \in Conversations /\ blobs[cur[w].key] # Null
          /\ raw'[w] = blobs[cur[w].key].raw

StoredAndRead ==
    /\ \A k \in Conversations : blobs'[k] # Null => Stored(k)
    /\ \A w \in Workers : pc'[w] = "score" => Read(w)

LEMMA NextStoredAndRead ==
    ASSUME TypeOK, [Next]_vars
    PROVE  StoredAndRead
<1> USE DEF TypeOK
<1>1. ASSUME UNCHANGED blobs,
             \A w \in Workers : pc'[w] = "score" =>
                pc[w] = "score" /\ raw'[w] = raw[w] /\ cur'[w] = cur[w]
      PROVE  StoredAndRead
  BY <1>1 DEF StoredAndRead, Stored, Read
<1>2. ASSUME UNCHANGED workerVars,
             \A k \in Conversations : blobs'[k] # Null => Stored(k)
      PROVE  StoredAndRead
  BY <1>2 DEF StoredAndRead, Read, workerVars
<1>3. ASSUME NEW w \in Workers, WorkerRuns(w) PROVE StoredAndRead
  <2>1. PICK locked : WorkerStep(w, locked)
    BY <1>3 DEF WorkerRuns
  <2>2. CASE Fetch(w)
    <3>1. cur[w].key \in Conversations
      BY <2>2, AtWork DEF Fetch, Working, Steps, ClaimedJob
    <3>2. \A v \in Workers : pc'[v] = "score" =>
              \/ pc[v] = "score" /\ raw'[v] = raw[v] /\ cur'[v] = cur[v]
              \/ /\ v = w /\ blobs[cur[w].key] # Null
                 /\ raw'[v] = blobs[cur[w].key].raw /\ cur'[v] = cur[w]
      BY <2>2 DEF Fetch, Goto, WorkerTypeOK
    <3> QED
      BY <2>2, <3>1, <3>2 DEF StoredAndRead, Stored, Read, Fetch, storeVars
  <2>3. CASE ~Fetch(w)
    <3>1. \A v \in Workers : pc'[v] = "score" =>
              pc[v] = "score" /\ raw'[v] = raw[v] /\ cur'[v] = cur[v]
      BY <2>1, <2>3
      DEF WorkerStep, ClaimJobs, ClaimNothing, Begin, ClosePoison, Lookup, SkipDuplicate,
          CloseMissing, CloseScored, ScoringKills, Die, Return, Goto, workerVars, WorkerTypeOK
    <3>2. UNCHANGED blobs
      BY <2>1, <2>3
      DEF WorkerStep, ClaimJobs, ClaimNothing, Begin, ClosePoison, Lookup, SkipDuplicate,
          CloseMissing, CloseScored, ScoringKills, Die, CloseJobWithResult, UpsertResult,
          storeVars
    <3> QED
      BY <1>1, <3>1, <3>2
  <2> QED
    BY <2>2, <2>3
<1>4. ASSUME NEW w \in Workers, WorkerRestarts(w) PROVE StoredAndRead
  BY <1>4, <1>1 DEF WorkerRestarts, Restart, Goto, storeVars, WorkerTypeOK
<1>5. ASSUME NEW i \in Ingesters, IngestStarts(i) PROVE StoredAndRead
  BY <1>5, <1>2 DEF IngestStarts, StartIngest, storeVars, Stored
<1>6. ASSUME NEW i \in Ingesters, IngestRuns(i) PROVE StoredAndRead
  <2>1. CASE StoreBlob(i)
    <3>1. DocOf(i) \in Documents /\ UpsertBlob(KeyOf[DocOf(i)], DocOf(i))
      BY <2>1 DEF StoreBlob
    <3>2. \A k \in Conversations : blobs'[k] # Null => Stored(k)
      BY <3>1 DEF UpsertBlob, StoresTypeOK, Stored
    <3> QED
      BY <1>6, <1>2, <3>2 DEF IngestRuns
  <2>2. CASE ~StoreBlob(i)
    <3>1. UNCHANGED blobs
      BY <1>6, <2>2
      DEF IngestRuns, IngestStep, DeadLetter, AbortOnFile, EnqueueJob, FinishIngest, storeVars
    <3> QED
      BY <1>6, <1>2, <3>1 DEF IngestRuns, Stored
  <2> QED
    BY <2>1, <2>2
<1>7. ASSUME TimePasses PROVE StoredAndRead
  BY <1>7, <1>2 DEF TimePasses, storeVars, Stored
<1>8. ASSUME Fault PROVE StoredAndRead
  <2>1. ASSUME NEW w \in Workers, WorkerDies(w) PROVE StoredAndRead
    BY <2>1, <1>1 DEF WorkerDies, Kill, Die, storeVars, WorkerTypeOK
  <2>2. ASSUME NEW i \in Ingesters, IngestDies(i) PROVE StoredAndRead
    BY <2>2, <1>2 DEF IngestDies, KillIngest, storeVars, Stored
  <2>3. ASSUME NEW k \in VanishingBlobs, BlobVanishes(k) PROVE StoredAndRead
    BY <2>3, <1>2 DEF BlobVanishes, Stored, StoresTypeOK
  <2> QED
    BY <1>8, <2>1, <2>2, <2>3 DEF Fault
<1>9. CASE UNCHANGED vars
  BY <1>9, <1>1 DEF vars, storeVars, workerVars
<1> QED
  BY <1>3, <1>4, <1>5, <1>6, <1>7, <1>8, <1>9 DEF Next

(* What is stored under a conversation and what a worker reads there name  *)
(* that conversation.                                                      *)
LEMMA NextScoresOwn ==
    ASSUME TypeOK, ScoresItsOwnConversation, [Next]_vars
    PROVE  ScoresItsOwnConversation'
<1>1. StoredAndRead
  BY NextStoredAndRead
<1>2. ASSUME NEW k \in Conversations, blobs'[k] # Null PROVE KeyOf[blobs'[k].raw] = k
  <2>1. Stored(k)
    BY <1>1, <1>2 DEF StoredAndRead
  <2> QED
    BY <1>2, <2>1, JsonbType DEF Stored, ScoresItsOwnConversation
<1>3. ASSUME NEW w \in Workers, pc'[w] = "score" PROVE KeyOf[raw'[w]] = cur'[w].key
  BY <1>1, <1>3 DEF StoredAndRead, Read, ScoresItsOwnConversation
<1> QED
  BY <1>2, <1>3 DEF ScoresItsOwnConversation

(***************************************************************************)
(* What a step of the pipeline is to the ledger                            *)
(***************************************************************************)
LEMMA EnqueueAccepts ==
    ASSUME QueueTypeOK, NEW k \in Conversations, NEW hash \in Hashes,
           Enqueue(k, hash), UNCHANGED results
    PROVE  Ledger!Accept(k) \/ UNCHANGED <<Standings, Outcomes>>
<1>1. CASE ~IsNews(k, hash)
  BY <1>1 DEF Enqueue, queueVars, Standings, Outcomes
<1>2. CASE IsNews(k, hash)
  <2>1. jobs'[k] \in Row /\ jobs'[k].status = "queued"
    BY <1>2, QueueAssumption DEF Enqueue, QueueTypeOK, Row, Statuses
  <2>2. \A l \in Conversations \ {k} : jobs'[l] = jobs[l]
    BY <1>2 DEF Enqueue, QueueTypeOK
  <2>3. Standing(jobs'[k]) = "open"
    BY <2>1, NullIsNoRow DEF Standing
  <2>4. Standings' = [Standings EXCEPT ![k] = "open"]
    BY <2>2, <2>3 DEF Standings
  <2> QED
    BY <2>4 DEF Ledger!Accept, Outcomes
<1> QED
  BY <1>1, <1>2

(* Rows that keep their status, up to being queued or claimed.             *)
LEMMA SameStanding ==
    ASSUME UNCHANGED results,
           \A k \in Conversations : Standing(jobs'[k]) = Standing(jobs[k])
    PROVE  UNCHANGED <<Standings, Outcomes>>
BY DEF Standings, Outcomes

LEMMA ClaimKeepsStanding ==
    ASSUME QueueTypeOK, NEW S \in SUBSET Open, Claim(S), UNCHANGED results
    PROVE  UNCHANGED <<Standings, Outcomes>>
<1> SUFFICES ASSUME NEW k \in Conversations
             PROVE  Standing(jobs'[k]) = Standing(jobs[k])
  BY SameStanding
<1>1. CASE k \notin S
  BY <1>1 DEF Claim
<1>2. CASE k \in S
  <2>1. k \in Tracked /\ jobs[k] \in Row /\ jobs[k].status \in {"queued", "claimed"}
    BY <1>2, TrackedRow DEF Open
  <2>2. jobs'[k] \in Row /\ jobs'[k].status = "claimed"
    BY <1>2, <2>1, ClaimedRow DEF Claim, Row
  <2> QED
    BY <2>1, <2>2, NullIsNoRow DEF Standing
<1> QED
  BY <1>1, <1>2

LEMMA TickKeepsStanding ==
    ASSUME QueueTypeOK, Tick, UNCHANGED results
    PROVE  UNCHANGED <<Standings, Outcomes>>
<1> SUFFICES ASSUME NEW k \in Conversations
             PROVE  Standing(jobs'[k]) = Standing(jobs[k])
  BY SameStanding
<1>1. CASE jobs'[k] = jobs[k]
  BY <1>1
<1>2. CASE jobs'[k] # jobs[k]
  <2>1. k \in Tracked /\ jobs[k] \in Row
    BY <1>2, TrackedRow DEF Tick
  <2>2. jobs'[k] \in Row
    <3>1. jobs'[k] = [jobs[k] EXCEPT !.claim_age = @ + 1] /\ ~LeaseExpired(k)
      BY <1>2 DEF Tick
    <3>2. jobs[k].claim_age + 1 \in 0 .. LeaseSeconds + 1
      BY <2>1, <3>1, QueueAssumption DEF LeaseExpired, Row
    <3> QED
      BY <2>1, <3>1, <3>2 DEF Row
  <2>3. jobs'[k].status = jobs[k].status
    BY <2>1, <1>2 DEF Tick, Row
  <2> QED
    BY <2>1, <2>2, <2>3, NullIsNoRow DEF Standing
<1> QED
  BY <1>1, <1>2

LEMMA CloseSettles ==
    ASSUME QueueTypeOK, StoresTypeOK, NEW k \in Tracked, NEW row \in Result,
           NEW s, s = IF row.status = "rejected" THEN "dead" ELSE "done",
           CloseJobWithResult(k, row, s)
    PROVE  Ledger!Settle(k, row.status)
<1>1. k \in Conversations /\ jobs[k] \in Row /\ jobs[k] # Null
  BY TrackedRow, NullIsNoRow
<1>2. jobs'[k] \in Row /\ jobs'[k].status = s
  <2>1. jobs'[k] = [jobs[k] EXCEPT !.status = s, !.claim_age = 0]
    BY <1>1 DEF CloseJobWithResult, SetStatus, QueueTypeOK
  <2>2. s \in Statuses
    BY DEF Statuses
  <2> QED
    BY <1>1, <2>1, <2>2, ClosedRow DEF Row
<1>3. Standing(jobs[k]) # "unknown" /\ Standing(jobs'[k]) = s
  BY <1>1, <1>2, NullIsNoRow DEF Standing, Row, Statuses
<1>4. \A l \in Conversations \ {k} : jobs'[l] = jobs[l] /\ results'[l] = results[l]
  BY <1>1 DEF CloseJobWithResult, SetStatus, UpsertResult, QueueTypeOK, StoresTypeOK
<1>5. Standings' = [Standings EXCEPT ![k] = s]
  BY <1>1, <1>3, <1>4 DEF Standings
<1>6. results'[k] = row /\ row # Null
  BY <1>1, NullIsNoRecord DEF CloseJobWithResult, UpsertResult, StoresTypeOK
<1>7. Outcomes' = [Outcomes EXCEPT ![k] = row.status]
  BY <1>1, <1>4, <1>6 DEF Outcomes
<1>8. Standings[k] # "unknown"
  BY <1>1, <1>3 DEF Standings
<1> QED
  BY <1>5, <1>7, <1>8 DEF Ledger!Settle

LEMMA MarkDoneConfirms ==
    ASSUME QueueTypeOK, StoresTypeOK, NEW k \in Tracked, results[k] # Null,
           MarkDone(k), UNCHANGED results
    PROVE  Ledger!Confirm(k)
<1>1. k \in Conversations /\ jobs[k] \in Row /\ jobs[k] # Null
  BY TrackedRow, NullIsNoRow
<1>2. jobs'[k] \in Row /\ jobs'[k].status = "done"
  <2>1. jobs'[k] = [jobs[k] EXCEPT !.status = "done", !.claim_age = 0]
    BY <1>1 DEF MarkDone, SetStatus, QueueTypeOK
  <2>2. "done" \in Statuses
    BY DEF Statuses
  <2> QED
    BY <1>1, <2>1, <2>2, ClosedRow DEF Row
<1>3. Standing(jobs[k]) # "unknown" /\ Standing(jobs'[k]) = "done"
  BY <1>1, <1>2, NullIsNoRow DEF Standing, Row, Statuses
<1>4. \A l \in Conversations \ {k} : jobs'[l] = jobs[l]
  BY <1>1 DEF MarkDone, SetStatus, QueueTypeOK
<1>5. Standings' = [Standings EXCEPT ![k] = "done"]
  BY <1>1, <1>3, <1>4 DEF Standings
<1>6. Standings[k] # "unknown" /\ Outcomes[k] # Null /\ UNCHANGED Outcomes
  <2>1. results[k].status # Null
    BY <1>1, NullIsNoRecord DEF StoresTypeOK, Result
  <2> QED
    BY <1>1, <1>3, <2>1 DEF Standings, Outcomes
<1> QED
  BY <1>5, <1>6 DEF Ledger!Confirm

(* One step of a worker: the claim keeps standings, the three ways to      *)
(* close a job settle it, and a duplicate confirms it.                     *)
LEMMA WorkerStepLedger ==
    ASSUME LedgerInv, NEW w \in Workers, NEW locked, WorkerStep(w, locked)
    PROVE  Ledger!LedgerNext \/ UNCHANGED <<Standings, Outcomes>>
<1>t. QueueTypeOK /\ StoresTypeOK /\ WorkerTypeOK
  BY DEF LedgerInv, OutcomeInv, TypeOK
<1>k. ASSUME pc[w] \in Working
      PROVE  cur[w] \in ClaimedJob /\ cur[w].key \in Tracked
  <2>1. cur[w] \in ClaimedJob
    BY <1>k, <1>t, AtWork
  <2>2. cur[w] \in Held(w)
    BY <1>k, <1>t DEF Held, WorkerTypeOK
  <2> QED
    BY <2>1, <2>2 DEF LedgerInv, DeliveryInv, HeldIsKnown, Tracked, ClaimedJob
<1>s. ASSUME NEW k \in Tracked, NEW row \in Result, Ledger!Settle(k, row.status)
      PROVE  Ledger!LedgerNext
  BY <1>s DEF Ledger!LedgerNext, Result, Tracked
<1>1. CASE ClaimJobs(w, locked)
  <2>1. Batch(locked) \subseteq Open
    BY DEF Batch, Oldest, Claimable
  <2> QED
    BY <1>1, <1>t, <2>1, ClaimKeepsStanding DEF ClaimJobs, storeVars
<1>2. CASE UNCHANGED <<queueVars, storeVars>>
  BY <1>2 DEF queueVars, storeVars, Standings, Outcomes
<1>3. CASE ClosePoison(w)
  <2> DEFINE row == RejectedRow(cur[w].content_hash, "max_delivery_exceeded")
  <2>1. cur[w] \in ClaimedJob /\ cur[w].key \in Tracked
    BY <1>3, <1>k DEF ClosePoison, Working, Steps
  <2>2. row \in Result /\ row.status = "rejected"
    BY <2>1 DEF RejectedRow, Result, ClaimedJob, Errors, Verdicts
  <2> QED
    BY <1>3, <1>t, <1>s, <2>1, <2>2, CloseSettles DEF ClosePoison
<1>4. CASE CloseMissing(w)
  <2> DEFINE row == RejectedRow(cur[w].content_hash, "blob_missing")
  <2>1. cur[w] \in ClaimedJob /\ cur[w].key \in Tracked
    BY <1>4, <1>k DEF CloseMissing, Working, Steps
  <2>2. row \in Result /\ row.status = "rejected"
    BY <2>1 DEF RejectedRow, Result, ClaimedJob, Errors, Verdicts
  <2> QED
    BY <1>4, <1>t, <1>s, <2>1, <2>2, CloseSettles DEF CloseMissing
<1>5. CASE CloseScored(w)
  <2>1. raw[w] \in Documents /\ KeyOf[raw[w]] \in Tracked
    <3>1. cur[w].key \in Tracked
      BY <1>5, <1>k DEF CloseScored, Working, Steps
    <3> QED
      BY <1>5, <1>t, <3>1, AtWork DEF CloseScored, LedgerInv, ScoresItsOwnConversation
  <2>2. ScoredRow(raw[w]) \in Result
    BY <2>1, RowTypes
  <2>3. CloseJobWithResult(KeyOf[raw[w]], ScoredRow(raw[w]), JobStatusFor(ScoredRow(raw[w])))
    BY <1>5 DEF CloseScored
  <2> QED
    BY <1>t, <1>s, <2>1, <2>2, <2>3, CloseSettles DEF JobStatusFor
<1>6. CASE SkipDuplicate(w)
  <2>1. cur[w].key \in Tracked /\ results[cur[w].key] # Null
    BY <1>6, <1>k
    DEF SkipDuplicate, Working, Steps, LedgerInv, OutcomeInv, SkipHasResult
  <2>2. Ledger!Confirm(cur[w].key)
    BY <1>6, <1>t, <2>1, MarkDoneConfirms DEF SkipDuplicate, storeVars
  <2> QED
    BY <2>1, <2>2 DEF Ledger!LedgerNext, Tracked
<1> QED
  BY <1>1, <1>2, <1>3, <1>4, <1>5, <1>6
  DEF WorkerStep, ClaimNothing, Begin, Lookup, Fetch, ScoringKills, Die

LEMMA NextLedger ==
    ASSUME LedgerInv, [Next]_vars
    PROVE  Ledger!LedgerNext \/ UNCHANGED <<Standings, Outcomes>>
<1>t. QueueTypeOK /\ IngestTypeOK
  BY DEF LedgerInv, OutcomeInv, TypeOK
<1>s. ASSUME UNCHANGED <<jobs, results>> PROVE UNCHANGED <<Standings, Outcomes>>
  BY <1>s DEF Standings, Outcomes
<1>1. ASSUME NEW w \in Workers, WorkerRuns(w)
      PROVE  Ledger!LedgerNext \/ UNCHANGED <<Standings, Outcomes>>
  BY <1>1, WorkerStepLedger DEF WorkerRuns
<1>2. ASSUME NEW w \in Workers, WorkerRestarts(w) PROVE UNCHANGED <<jobs, results>>
  BY <1>2 DEF WorkerRestarts, Restart, queueVars, storeVars
<1>3. ASSUME NEW i \in Ingesters, IngestStarts(i) PROVE UNCHANGED <<jobs, results>>
  BY <1>3 DEF IngestStarts, StartIngest, queueVars, storeVars
<1>4. ASSUME NEW i \in Ingesters, IngestRuns(i)
      PROVE  Ledger!LedgerNext \/ UNCHANGED <<Standings, Outcomes>>
  <2>1. CASE EnqueueJob(i)
    <3> DEFINE k == KeyOf[DocOf(i)]  hash == ContentHash(DocOf(i))
    <3>1. k \in Conversations /\ hash \in Hashes
      BY <2>1, <1>t, EnqueueDoc DEF EnqueueJob, Hashes
    <3>2. Enqueue(k, hash) /\ UNCHANGED results
      BY <2>1 DEF EnqueueJob, storeVars
    <3>3. Ledger!Accept(k) \/ UNCHANGED <<Standings, Outcomes>>
      BY <3>1, <3>2, <1>t, EnqueueAccepts
    <3> QED
      BY <3>1, <3>3 DEF Ledger!LedgerNext
  <2>2. CASE ~EnqueueJob(i)
    <3>1. UNCHANGED <<jobs, results>>
      BY <1>4, <2>2
      DEF IngestRuns, IngestStep, DeadLetter, StoreBlob, UpsertBlob, AbortOnFile,
          FinishIngest, queueVars, storeVars
    <3> QED
      BY <3>1, <1>s
  <2> QED
    BY <2>1, <2>2
<1>5. ASSUME TimePasses PROVE UNCHANGED <<Standings, Outcomes>>
  BY <1>5, <1>t, TickKeepsStanding DEF TimePasses, storeVars
<1>6. ASSUME Fault PROVE UNCHANGED <<jobs, results>>
  BY <1>6
  DEF Fault, WorkerDies, Kill, Die, IngestDies, KillIngest, BlobVanishes, queueVars, storeVars
<1>7. ASSUME UNCHANGED vars PROVE UNCHANGED <<jobs, results>>
  BY <1>7 DEF vars, queueVars, storeVars
<1> QED
  BY <1>s, <1>1, <1>2, <1>3, <1>4, <1>5, <1>6, <1>7 DEF Next

LEMMA NextLedgerInv == LedgerInv /\ [Next]_vars => LedgerInv'
BY NextOutcome, NextDelivery, NextScoresOwn DEF LedgerInv, OutcomeInv

LEMMA InitLedger == Init => LedgerInv /\ Ledger!LedgerInit
<1> SUFFICES ASSUME Init PROVE LedgerInv /\ Ledger!LedgerInit
  OBVIOUS
<1>1. ScoresItsOwnConversation
  BY DEF Init, StoresInit, WorkerInit, ScoresItsOwnConversation
<1>2. Ledger!LedgerInit
  BY DEF Init, QueueInit, StoresInit, Standings, Standing, Outcomes, Ledger!LedgerInit
<1> QED
  BY <1>1, <1>2, InitOutcome, InitDelivery DEF LedgerInv

(* The pipeline implements the ledger: a conversation's outcome and its    *)
(* standing change together, and a conversation is dead exactly if what    *)
(* was recorded when it was settled is a rejection, whatever workers,      *)
(* leases, redeliveries, updates and crashes there are.                    *)
THEOREM ImplementsLedger == Spec => KeepsTheLedger
<1>1. LedgerInv /\ [Next]_vars => [Ledger!LedgerNext]_(Ledger!ledgerVars)
  BY NextLedger DEF Ledger!ledgerVars
<1> QED
  BY <1>1, InitLedger, NextLedgerInv, PTL DEF Spec, KeepsTheLedger, Ledger!LedgerSpec
=============================================================================
