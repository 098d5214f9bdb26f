---------------------------- MODULE IngestProofs ----------------------------
(***************************************************************************)
(* Proofs of what an ingest promises when it finishes, for any number of   *)
(* ingesters, any directories and any number of ingests before it or       *)
(* beside it, killed ones among them.                                      *)
(***************************************************************************)
EXTENDS IngestAlone, PipelineProofs, FiniteSetTheorems

(* One step of one ingester.                                               *)
IngesterMoves(i) ==
    \/ \E dir \in Directories : StartIngest(i, dir)
    \/ IngestStep(i)
    \/ KillIngest(i)

LEMMA OneMoves ==
    ASSUME IngestSpecNext
    PROVE  \E i \in Ingesters : IngesterMoves(i)
BY DEF IngestSpecNext, IngesterMoves

LEMMA NextIngestType ==
    ASSUME QueueTypeOK, StoresTypeOK, IngestTypeOK, NEW i \in Ingesters,
           IngesterMoves(i)
    PROVE  QueueTypeOK' /\ StoresTypeOK' /\ IngestTypeOK'
<1>1. CASE \E dir \in Directories : StartIngest(i, dir)
  BY <1>1, StartIngestType
  DEF StartIngest, QueueTypeOK, StoresTypeOK, queueVars, storeVars
<1>2. CASE KillIngest(i)
  BY <1>2, KillIngestType
  DEF KillIngest, QueueTypeOK, StoresTypeOK, queueVars, storeVars
<1>3. QED
  BY <1>1, <1>2, IngestStepType DEF IngesterMoves

LEMMA DirectoryType ==
    ASSUME IngestTypeOK, NEW i \in Ingesters
    PROVE  /\ directory[i] \in Seq(File)
           /\ Len(directory[i]) \in Nat
           /\ DOMAIN directory[i] = 1 .. Len(directory[i])
           /\ \A n \in 1 .. Len(directory[i]) : directory[i][n] \in File
<1>1. directory[i] \in Seq(File)
  <2>1. <<>> \in Seq(File)
    OBVIOUS
  <2>2. QED
    BY <2>1, IngestAssumption DEF IngestTypeOK
<1>2. QED
  BY <1>1

(***************************************************************************)
(* The counts                                                              *)
(***************************************************************************)
LEMMA NextCounts ==
    ASSUME IngestTypeOK, CountsAddUp, NEW i \in Ingesters, IngesterMoves(i)
    PROVE  CountsAddUp'
<1>1. stats[i] \in IngestStats /\ position[i] \in Nat \ {0}
  BY DEF IngestTypeOK
<1>2. ASSUME NEW j \in Ingesters, j # i
      PROVE  /\ istep'[j] = istep[j]
             /\ position'[j] = position[j]
             /\ stats'[j] = stats[j]
  BY <1>2 DEF IngesterMoves, StartIngest, KillIngest, IngestStep, DeadLetter,
              StoreBlob, AbortOnFile, EnqueueJob, FinishIngest, IngestTypeOK
<1>3. ASSUME i \in GoingOn'
      PROVE  /\ stats'[i].files_seen =
                    IF istep'[i] = "enqueue" THEN position'[i] ELSE position'[i] - 1
             /\ position'[i] = stats'[i].parse_errors + stats'[i].enqueued
                                    + stats'[i].already_tracked + 1
  <2>1. CASE \E dir \in Directories : StartIngest(i, dir)
    BY <2>1 DEF StartIngest, IngestTypeOK, NoStats
  <2>2. CASE DeadLetter(i)
    <3>1. /\ stats'[i] = [stats[i] EXCEPT !.files_seen = @ + 1, !.parse_errors = @ + 1]
          /\ position'[i] = position[i] + 1
          /\ istep[i] = "walk" /\ istep'[i] = "walk"
      BY <1>1, <2>2 DEF DeadLetter, AtFile, IngestTypeOK
    <3>2. /\ stats'[i].files_seen = stats[i].files_seen + 1
          /\ stats'[i].parse_errors = stats[i].parse_errors + 1
          /\ stats'[i].enqueued = stats[i].enqueued
          /\ stats'[i].already_tracked = stats[i].already_tracked
      BY <1>1, <3>1 DEF IngestStats
    <3>3. QED
      BY <1>1, <3>1, <3>2 DEF CountsAddUp, GoingOn, IngestStats
  <2>3. CASE StoreBlob(i)
    <3>1. /\ stats'[i] = [stats[i] EXCEPT !.files_seen = @ + 1]
          /\ position'[i] = position[i]
          /\ istep[i] = "walk" /\ istep'[i] = "enqueue"
      BY <1>1, <2>3 DEF StoreBlob, AtFile, IngestTypeOK
    <3>2. /\ stats'[i].files_seen = stats[i].files_seen + 1
          /\ stats'[i].parse_errors = stats[i].parse_errors
          /\ stats'[i].enqueued = stats[i].enqueued
          /\ stats'[i].already_tracked = stats[i].already_tracked
      BY <1>1, <3>1 DEF IngestStats
    <3>3. QED
      BY <1>1, <3>1, <3>2 DEF CountsAddUp, GoingOn, IngestStats
  <2>4. CASE EnqueueJob(i)
    BY <1>1, <2>4 DEF EnqueueJob, IngestTypeOK, IngestStats, CountsAddUp, GoingOn
  <2>5. CASE FinishIngest(i)
    BY <1>1, <2>5 DEF FinishIngest, IngestTypeOK, CountsAddUp, GoingOn
  <2>6. CASE AbortOnFile(i) \/ KillIngest(i)
    BY <1>3, <2>6 DEF AbortOnFile, KillIngest, IngestTypeOK, GoingOn
  <2>7. QED
    BY <2>1, <2>2, <2>3, <2>4, <2>5, <2>6 DEF IngesterMoves, IngestStep
<1>4. QED
  BY <1>2, <1>3 DEF CountsAddUp, GoingOn

(***************************************************************************)
(* Nothing is dropped                                                      *)
(***************************************************************************)

(* What is accounted for remains so: rows and dead letters are never       *)
(* deleted.                                                                *)
LEMMA AccountedStays ==
    ASSUME QueueTypeOK, IngestTypeOK, NEW i \in Ingesters, IngesterMoves(i),
           NEW file \in File, Accounted(file)
    PROVE  Accounted(file)'
<1>1. CASE file.content \in Documents
  <2>1. KeyOf[file.content] \in Conversations
    BY <1>1, KeyOfType
  <2>2. jobs'[KeyOf[file.content]] # Null
    <3>1. CASE EnqueueJob(i)
      <4>1. DocOf(i) \in Documents /\ KeyOf[DocOf(i)] \in Conversations
        BY <3>1, EnqueueDoc DEF EnqueueJob
      <4>2. QueueTypeOK'
        BY <3>1, <4>1, EnqueueType DEF EnqueueJob
      <4>3. [content_hash   |-> ContentHash(DocOf(i)), status |-> "queued",
             claim_age      |-> 0, delivery_count |-> 0,
             enqueued_at    |-> clock + 1] \in Row
        BY <4>1, QueueAssumption DEF Row, Hashes, Statuses, QueueTypeOK
      <4>4. QED
        BY <1>1, <2>1, <3>1, <4>3, NullIsNoRow
        DEF EnqueueJob, Enqueue, Accounted, Tracked, QueueTypeOK, queueVars
    <3>2. CASE ~EnqueueJob(i)
      BY <1>1, <3>2 DEF IngesterMoves, StartIngest, KillIngest, IngestStep, DeadLetter,
              StoreBlob, AbortOnFile, FinishIngest, queueVars, Accounted, Tracked
    <3>3. QED
      BY <3>1, <3>2
  <2>3. QED
    BY <1>1, <2>1, <2>2 DEF Accounted, Tracked
<1>2. CASE file.content \notin Documents
  <2>1. CASE DeadLetter(i)
    BY <1>2, <2>1, NullIsNoReason DEF DeadLetter, IngestTypeOK, Accounted, File
  <2>2. CASE ~DeadLetter(i)
    BY <1>2, <2>2 DEF IngesterMoves, StartIngest, KillIngest, IngestStep,
            StoreBlob, AbortOnFile, EnqueueJob, FinishIngest, Accounted
  <2>3. QED
    BY <2>1, <2>2
<1>3. QED
  BY <1>1, <1>2

(* A file is accounted for when ingest goes on to the next one.            *)
LEMMA FileAtHandAccounted ==
    ASSUME QueueTypeOK, IngestTypeOK, NEW i \in Ingesters,
           DeadLetter(i) \/ EnqueueJob(i),
           NEW file, file = FileOf(i)
    PROVE  Accounted(file)'
<1>1. CASE DeadLetter(i)
  <2>1. file \in File
    BY <1>1, FileType DEF DeadLetter
  <2>2. file.content \notin Documents
    BY <1>1, IngestAssumption DEF DeadLetter, DocOf
  <2>3. dead_letters'[file.name] \in {"parse_error", "no_identity"}
    BY <1>1, <2>1 DEF DeadLetter, IngestTypeOK, File
  <2>4. QED
    BY <2>2, <2>3, NullIsNoReason DEF Accounted
<1>2. CASE EnqueueJob(i)
  <2>1. file.content \in Documents /\ KeyOf[file.content] \in Conversations
    BY <1>2, EnqueueDoc DEF EnqueueJob, DocOf
  <2>2. [content_hash   |-> ContentHash(DocOf(i)), status |-> "queued",
         claim_age      |-> 0, delivery_count |-> 0,
         enqueued_at    |-> clock + 1] # Null
    BY <2>1, QueueAssumption, NullIsNoRow
    DEF Row, Hashes, Statuses, QueueTypeOK, DocOf
  <2>3. jobs'[KeyOf[file.content]] # Null
    BY <1>2, <2>1, <2>2
    DEF EnqueueJob, Enqueue, IsNews, QueueTypeOK, DocOf, queueVars
  <2>4. QED
    BY <2>1, <2>3 DEF Accounted, Tracked
<1>3. QED
  BY <1>1, <1>2

LEMMA NextPassed ==
    ASSUME QueueTypeOK, StoresTypeOK, IngestTypeOK, PassedAreAccounted,
           NEW i \in Ingesters, IngesterMoves(i)
    PROVE  PassedAreAccounted'
<1>1. position[i] \in Nat \ {0}
  BY DEF IngestTypeOK
<1>2. IngestTypeOK'
  BY NextIngestType
<1>3. ASSUME NEW j \in Ingesters, j # i, j \in GoingOn'
      PROVE  /\ j \in GoingOn
             /\ istep'[j] = istep[j]
             /\ position'[j] = position[j]
             /\ directory'[j] = directory[j]
  BY <1>3 DEF IngesterMoves, StartIngest, KillIngest, IngestStep, DeadLetter,
              StoreBlob, AbortOnFile, EnqueueJob, FinishIngest, IngestTypeOK, GoingOn
<1>4. ASSUME NEW j \in GoingOn, NEW n \in 1 .. position[j] - 1,
             NEW file, file = directory[j][n]
      PROVE  Accounted(file)'
  <2>1. j \in Ingesters /\ position[j] \in Nat
    BY DEF GoingOn, IngestTypeOK
  <2>2. file \in File /\ Accounted(file)
    BY <1>4, <2>1, DirectoryType DEF PassedAreAccounted
  <2>3. QED
    BY <2>2, AccountedStays
<1>5. ASSUME i \in GoingOn'
      PROVE  /\ position'[i] <= Len(directory'[i]) + 1
             /\ istep'[i] = "finished" => position'[i] = Len(directory'[i]) + 1
             /\ \A n \in 1 .. position'[i] - 1 : Accounted(directory[i][n])'
  <2>1. CASE \E dir \in Directories : StartIngest(i, dir)
    <3>1. position'[i] = 1 /\ istep'[i] = "walk"
      BY <2>1 DEF StartIngest, IngestTypeOK
    <3>2. Len(directory'[i]) \in Nat
      BY <1>2, DirectoryType
    <3>3. QED
      BY <3>1, <3>2
  <2>2. CASE DeadLetter(i) \/ EnqueueJob(i)
    <3>1. /\ directory'[i] = directory[i]
          /\ position'[i] = position[i] + 1
          /\ istep'[i] = "walk" /\ i \in GoingOn
      BY <2>2 DEF DeadLetter, EnqueueJob, AtFile, IngestTypeOK, GoingOn
    <3>2. position[i] \in 1 .. Len(directory[i])
      BY <2>2, FileType DEF DeadLetter, EnqueueJob, IngestTypeOK
    <3>3. ASSUME NEW n \in 1 .. position'[i] - 1, NEW file, file = directory[i][n]
          PROVE  Accounted(file)'
      <4>1. CASE n = position[i]
        BY <2>2, <3>3, <4>1, FileAtHandAccounted DEF FileOf
      <4>2. CASE n # position[i]
        BY <1>1, <1>4, <3>1, <3>3, <4>2
      <4>3. QED
        BY <4>1, <4>2
    <3>4. \A n \in 1 .. position'[i] - 1 : Accounted(directory[i][n])'
      BY <3>1, <3>3 DEF Accounted
    <3>5. position[i] + 1 <= Len(directory[i]) + 1
      BY <3>2, DirectoryType
    <3>6. QED
      BY <3>1, <3>4, <3>5
  <2>3. CASE StoreBlob(i) \/ FinishIngest(i)
    <3>1. /\ directory'[i] = directory[i]
          /\ position'[i] = position[i]
          /\ i \in GoingOn
          /\ istep'[i] = "finished" => position[i] > Len(directory[i])
      BY <2>3 DEF StoreBlob, FinishIngest, AtFile, IngestTypeOK, GoingOn
    <3>2. position[i] <= Len(directory[i]) + 1
      BY <3>1 DEF PassedAreAccounted
    <3>3. QED
      BY <1>1, <1>4, <3>1, <3>2, DirectoryType DEF Accounted
  <2>4. CASE AbortOnFile(i) \/ KillIngest(i)
    BY <1>5, <2>4 DEF AbortOnFile, KillIngest, IngestTypeOK, GoingOn
  <2>5. QED
    BY <2>1, <2>2, <2>3, <2>4 DEF IngesterMoves, IngestStep
<1>6. ASSUME NEW j \in GoingOn'
      PROVE  /\ position'[j] <= Len(directory'[j]) + 1
             /\ istep'[j] = "finished" => position'[j] = Len(directory'[j]) + 1
             /\ \A n \in 1 .. position'[j] - 1 : Accounted(directory[j][n])'
  <2>1. CASE j = i
    BY <1>5, <2>1
  <2>2. CASE j # i
    <3>1. j \in Ingesters
      BY DEF GoingOn
    <3>2. QED
      BY <1>3, <1>4, <2>2, <3>1 DEF PassedAreAccounted, Accounted
  <2>3. QED
    BY <2>1, <2>2
<1>7. QED
  BY <1>6 DEF PassedAreAccounted

(***************************************************************************)
(* What is stored was delivered                                            *)
(***************************************************************************)
LEMMA DocWasDelivered ==
    ASSUME IngestTypeOK, StoredWasDelivered, NEW i \in Ingesters,
           StoreBlob(i) \/ EnqueueJob(i)
    PROVE  /\ DocOf(i) \in delivered
           /\ DocOf(i) \in Documents \ Unstorable
           /\ KeyOf[DocOf(i)] \in Conversations
<1>1. DocOf(i) \in Documents \ Unstorable
  BY EnqueueDoc DEF StoreBlob, EnqueueJob, StoredWasDelivered
<1>2. position[i] \in 1 .. Len(directory[i])
  BY FileType DEF StoreBlob, EnqueueJob, IngestTypeOK
<1>3. DocumentsIn(directory[i]) \subseteq delivered
  BY DEF StoreBlob, EnqueueJob, AtFile, Walking, StoredWasDelivered
<1>4. QED
  BY <1>1, <1>2, <1>3, DirectoryType, KeyOfType DEF DocumentsIn, DocOf, FileOf

(* The two writes: the row is there, and is of the document at hand.       *)
LEMMA BlobWritten ==
    ASSUME StoresTypeOK, NEW d \in Documents, UpsertBlob(KeyOf[d], d)
    PROVE  /\ HasContent(blobs'[KeyOf[d]], d)
           /\ \A k \in Conversations \ {KeyOf[d]} : blobs'[k] = blobs[k]
<1>1. [content_hash |-> ContentHash(d), raw |-> Jsonb[d]] # Null
  BY JsonbType, NullIsNoRecord DEF Blob, Hashes
<1>2. QED
  BY <1>1, KeyOfType DEF StoresTypeOK, UpsertBlob, HasContent

LEMMA JobWritten ==
    ASSUME QueueTypeOK, NEW d \in Documents, Enqueue(KeyOf[d], ContentHash(d))
    PROVE  /\ HasContent(jobs'[KeyOf[d]], d)
           /\ \A k \in Conversations \ {KeyOf[d]} : jobs'[k] = jobs[k]
<1>1. [content_hash   |-> ContentHash(d), status |-> "queued",
       claim_age      |-> 0, delivery_count |-> 0,
       enqueued_at    |-> clock + 1] # Null
  BY QueueAssumption, NullIsNoRow DEF Row, Hashes, Statuses, QueueTypeOK
<1>2. QED
  BY <1>1, KeyOfType DEF QueueTypeOK, Enqueue, IsNews, HasContent, queueVars

LEMMA NextStored ==
    ASSUME QueueTypeOK, StoresTypeOK, IngestTypeOK, StoredWasDelivered,
           IngestSpecNext
    PROVE  StoredWasDelivered'
<1>1. PICK i \in Ingesters :
        \/ \E dir \in Directories :
            StartIngest(i, dir) /\ delivered' = delivered \cup DocumentsIn(dir)
        \/ (IngestStep(i) \/ KillIngest(i)) /\ delivered' = delivered
  BY DEF IngestSpecNext
<1>2. delivered \subseteq delivered' /\ delivered' \subseteq Documents
  BY <1>1 DEF StoredWasDelivered, DocumentsIn
<1>3. ASSUME NEW k, NEW hash, Came(k, hash)
      PROVE  Came(k, hash)'
  BY <1>2, <1>3 DEF Came
<1>4. ASSUME NEW j \in Ingesters, j # i
      PROVE  /\ istep'[j] = istep[j]
             /\ directory'[j] = directory[j]
             /\ DocOf(j)' = DocOf(j)
  BY <1>1, <1>4 DEF StartIngest, KillIngest, IngestStep, DeadLetter, StoreBlob,
        AbortOnFile, EnqueueJob, FinishIngest, IngestTypeOK, DocOf, FileOf
<1>5. CASE StoreBlob(i)
  <2>1. /\ DocOf(i) \in delivered
        /\ DocOf(i) \in Documents \ Unstorable
        /\ KeyOf[DocOf(i)] \in Conversations
    BY <1>5, DocWasDelivered
  <2>2. /\ HasContent(blobs'[KeyOf[DocOf(i)]], DocOf(i))
        /\ \A k \in Conversations \ {KeyOf[DocOf(i)]} : blobs'[k] = blobs[k]
    BY <1>5, <2>1, BlobWritten DEF StoreBlob
  <2>3. /\ UNCHANGED <<directory, position, jobs, clock>>
        /\ istep' = [istep EXCEPT ![i] = "enqueue"]
        /\ istep[i] = "walk"
        /\ delivered' = delivered
    BY <1>1, <1>5 DEF StoreBlob, AtFile, queueVars, StartIngest, Walking
  <2>4. DocOf(i)' = DocOf(i)
    BY <2>3 DEF DocOf, FileOf
  <2>5. \A k \in Conversations : blobs'[k] # Null => Came(k, blobs'[k].content_hash)
    BY <2>1, <2>2 DEF StoredWasDelivered, HasContent, Came
  <2>6. \A k \in Conversations : blobs[k] # Null => blobs'[k] # Null
    BY <2>2 DEF HasContent
  <2>7. \A k \in Tracked' : Came(k, jobs'[k].content_hash) /\ blobs'[k] # Null
    BY <2>3, <2>6 DEF StoredWasDelivered, Tracked
  <2>8. ASSUME NEW j \in Ingesters
        PROVE  /\ istep'[j] \in Walking => DocumentsIn(directory'[j]) \subseteq delivered'
               /\ istep'[j] = "enqueue" => /\ DocOf(j)' \notin Unstorable
                                           /\ blobs'[KeyOf[DocOf(j)']] # Null
    <3>1. CASE j = i
      BY <2>1, <2>2, <2>3, <2>4, <3>1 DEF StoredWasDelivered, Walking, HasContent
    <3>2. CASE j # i
      BY <1>4, <2>3, <2>6, <3>2, EnqueueDoc DEF StoredWasDelivered, Walking
    <3>3. QED
      BY <3>1, <3>2
  <2>9. QED
    BY <1>2, <2>3, <2>5, <2>7, <2>8 DEF StoredWasDelivered, Came
<1>6. CASE EnqueueJob(i)
  <2>1. /\ DocOf(i) \in delivered
        /\ DocOf(i) \in Documents \ Unstorable
        /\ KeyOf[DocOf(i)] \in Conversations
    BY <1>6, DocWasDelivered
  <2>2. /\ HasContent(jobs'[KeyOf[DocOf(i)]], DocOf(i))
        /\ \A k \in Conversations \ {KeyOf[DocOf(i)]} : jobs'[k] = jobs[k]
    BY <1>6, <2>1, JobWritten DEF EnqueueJob
  <2>3. /\ UNCHANGED <<directory, blobs>>
        /\ istep' = [istep EXCEPT ![i] = "walk"]
        /\ istep[i] = "enqueue"
        /\ delivered' = delivered
    BY <1>1, <1>6 DEF EnqueueJob, storeVars, StartIngest, Walking
  <2>4. \A k \in Tracked' : Came(k, jobs'[k].content_hash) /\ blobs'[k] # Null
    BY <2>1, <2>2, <2>3 DEF StoredWasDelivered, Tracked, HasContent, Came
  <2>5. ASSUME NEW j \in Ingesters
        PROVE  /\ istep'[j] \in Walking => DocumentsIn(directory'[j]) \subseteq delivered'
               /\ istep'[j] = "enqueue" => /\ DocOf(j)' \notin Unstorable
                                           /\ blobs'[KeyOf[DocOf(j)']] # Null
    <3>1. CASE j = i
      BY <2>3, <3>1 DEF StoredWasDelivered, Walking, IngestTypeOK
    <3>2. CASE j # i
      BY <1>4, <2>3, <3>2 DEF StoredWasDelivered, Walking
    <3>3. QED
      BY <3>1, <3>2
  <2>6. QED
    BY <1>2, <2>3, <2>4, <2>5 DEF StoredWasDelivered, Came
<1>7. CASE ~StoreBlob(i) /\ ~EnqueueJob(i)
  <2>1. UNCHANGED <<jobs, blobs>>
    BY <1>1, <1>7 DEF StartIngest, KillIngest, IngestStep, DeadLetter,
            AbortOnFile, FinishIngest, queueVars, storeVars
  <2>2. /\ istep'[i] # "enqueue"
        /\ istep'[i] \in Walking => DocumentsIn(directory'[i]) \subseteq delivered'
    BY <1>1, <1>7 DEF StartIngest, KillIngest, IngestStep, DeadLetter, AtFile,
            AbortOnFile, FinishIngest, IngestTypeOK, Walking, StoredWasDelivered
  <2>3. ASSUME NEW j \in Ingesters
        PROVE  /\ istep'[j] \in Walking => DocumentsIn(directory'[j]) \subseteq delivered'
               /\ istep'[j] = "enqueue" => /\ DocOf(j)' \notin Unstorable
                                           /\ blobs'[KeyOf[DocOf(j)']] # Null
    BY <1>2, <1>4, <2>1, <2>2 DEF StoredWasDelivered
  <2>4. QED
    BY <1>2, <1>3, <2>1, <2>3 DEF StoredWasDelivered, Tracked
<1>8. QED
  BY <1>5, <1>6, <1>7

(***************************************************************************)
(* Written once                                                            *)
(***************************************************************************)
LEMMA NextWrittenOnce ==
    ASSUME QueueTypeOK, IngestTypeOK, StoredWasDelivered, WrittenOnce,
           IngestSpecNext, OneVersionEach'
    PROVE  (IsFiniteSet(Tracked) /\ clock = Cardinality(Tracked))'
<1>1. PICK i \in Ingesters :
        \/ \E dir \in Directories :
            StartIngest(i, dir) /\ delivered' = delivered \cup DocumentsIn(dir)
        \/ (IngestStep(i) \/ KillIngest(i)) /\ delivered' = delivered
  BY DEF IngestSpecNext
<1>2. IsFiniteSet(Tracked) /\ clock = Cardinality(Tracked)
  <2>1. OneVersionEach
    BY <1>1 DEF OneVersionEach
  <2>2. QED
    BY <2>1 DEF WrittenOnce
<1>3. CASE EnqueueJob(i)
  <2> DEFINE d == DocOf(i)
             k == KeyOf[d]
  <2>1. d \in delivered /\ d \in Documents /\ k \in Conversations
    BY <1>3, DocWasDelivered
  <2>2. delivered' = delivered
    BY <1>1, <1>3 DEF StartIngest, EnqueueJob, Walking
  <2>3. CASE k \in Tracked
    <3>1. PICK e \in delivered : KeyOf[e] = k /\ jobs[k].content_hash = ContentHash(e)
      BY <2>3 DEF StoredWasDelivered, Came
    <3>2. e = d
      BY <2>1, <2>2, <3>1 DEF OneVersionEach
    <3>3. UNCHANGED queueVars
      BY <1>3, <2>3, <3>1, <3>2 DEF EnqueueJob, Enqueue, IsNews, Tracked
    <3>4. QED
      BY <1>2, <3>3 DEF queueVars, Tracked
  <2>4. CASE k \notin Tracked
    <3>1. IsNews(k, ContentHash(d))
      BY <2>1, <2>4 DEF IsNews, Tracked
    <3>2. clock' = clock + 1
      BY <1>3, <3>1 DEF EnqueueJob, Enqueue
    <3>3. /\ jobs'[k] # Null
          /\ \A l \in Conversations \ {k} : jobs'[l] = jobs[l]
      BY <1>3, <2>1, JobWritten DEF EnqueueJob, HasContent
    <3>4. Tracked' = Tracked \cup {k}
      BY <2>1, <3>3 DEF Tracked
    <3>5. /\ IsFiniteSet(Tracked \cup {k})
          /\ Cardinality(Tracked \cup {k}) = Cardinality(Tracked) + 1
      BY <1>2, <2>4, FS_AddElement
    <3>6. QED
      BY <1>2, <3>2, <3>4, <3>5
  <2>5. QED
    BY <2>3, <2>4
<1>4. CASE ~EnqueueJob(i)
  <2>1. UNCHANGED <<jobs, clock>>
    BY <1>1, <1>4 DEF StartIngest, KillIngest, IngestStep, DeadLetter, StoreBlob,
            AbortOnFile, FinishIngest, queueVars
  <2>2. QED
    BY <1>2, <2>1 DEF Tracked
<1>5. QED
  BY <1>3, <1>4

(***************************************************************************)
(* What an undisturbed ingest has written                                  *)
(***************************************************************************)

(* The last file of its conversation before a later one is the last before *)
(* an earlier one.                                                         *)
LEMMA LastBeforeEarlier ==
    ASSUME NEW dir, NEW n \in Nat, NEW m \in 1 .. n - 1, LastBefore(dir, m, n + 1)
    PROVE  LastBefore(dir, m, n)
BY DEF LastBefore

LEMMA NextPassedWritten ==
    ASSUME QueueTypeOK, StoresTypeOK, IngestTypeOK, alone \subseteq Ingesters,
           PassedAreWritten, IngestSpecNext,
           NEW i \in Ingesters, i \in alone, IngestStep(i), i \in GoingOn'
    PROVE  LET p == position'[i]
               front == IF istep'[i] = "enqueue" THEN p + 1 ELSE p
           IN  /\ istep'[i] = "enqueue" =>
                    HasContent(blobs'[KeyOf[DocOf(i)']], DocOf(i)')
               /\ \A m \in 1 .. p - 1 : LastBefore(directory'[i], m, front) =>
                    LET d == directory'[i][m].content
                    IN  HasContent(blobs'[KeyOf[d]], d) /\ HasContent(jobs'[KeyOf[d]], d)
<1> DEFINE dir == directory[i]
           p == position[i]
           Doc(m) == dir[m].content
<1>1. /\ p \in Nat \ {0}
      /\ directory'[i] = dir
      /\ i \in GoingOn
  BY DEF IngestTypeOK, IngestStep, DeadLetter, StoreBlob, AbortOnFile, EnqueueJob,
         FinishIngest, AtFile, GoingOn
<1>2. \A m \in 1 .. p - 1 : LastBefore(dir, m, p + 1) =>
        /\ LastBefore(dir, m, p)
        /\ Doc(m) \in Documents
        /\ KeyOf[Doc(m)] \in Conversations
        /\ DocOf(i) \in Documents => KeyOf[Doc(m)] # KeyOf[DocOf(i)]
  <2> SUFFICES ASSUME NEW m \in 1 .. p - 1, LastBefore(dir, m, p + 1)
               PROVE  /\ LastBefore(dir, m, p)
                      /\ Doc(m) \in Documents
                      /\ KeyOf[Doc(m)] \in Conversations
                      /\ DocOf(i) \in Documents => KeyOf[Doc(m)] # KeyOf[DocOf(i)]
    OBVIOUS
  <2>1. p \in m + 1 .. (p + 1) - 1
    BY <1>1
  <2>2. QED
    BY <1>1, <2>1, LastBeforeEarlier, KeyOfType DEF LastBefore, DocOf, FileOf
<1>3. CASE DeadLetter(i)
  <2>1. istep[i] = "walk" /\ istep'[i] = "walk" /\ position'[i] = p + 1
    BY <1>3 DEF DeadLetter, AtFile, IngestTypeOK
  <2>2. UNCHANGED <<jobs, blobs>> /\ Doc(p) \notin Documents
    BY <1>3, IngestAssumption DEF DeadLetter, queueVars, storeVars, DocOf, FileOf
  <2>3. ASSUME NEW m \in 1 .. p, LastBefore(dir, m, p + 1)
        PROVE  HasContent(blobs[KeyOf[Doc(m)]], Doc(m)) /\ HasContent(jobs[KeyOf[Doc(m)]], Doc(m))
    <3>1. m # p
      BY <2>2, <2>3 DEF LastBefore
    <3>2. QED
      BY <1>1, <1>2, <2>1, <2>3, <3>1 DEF PassedAreWritten
  <2>4. QED
    BY <1>1, <2>1, <2>2, <2>3
<1>4. CASE StoreBlob(i)
  <2>1. istep[i] = "walk" /\ istep'[i] = "enqueue" /\ position'[i] = p
    BY <1>4 DEF StoreBlob, AtFile, IngestTypeOK
  <2>2. DocOf(i)' = DocOf(i) /\ DocOf(i) \in Documents /\ jobs' = jobs
    BY <1>4 DEF StoreBlob, DocOf, FileOf, queueVars
  <2>3. /\ HasContent(blobs'[KeyOf[DocOf(i)]], DocOf(i))
        /\ \A k \in Conversations \ {KeyOf[DocOf(i)]} : blobs'[k] = blobs[k]
    BY <1>4, <2>2, BlobWritten DEF StoreBlob
  <2>4. ASSUME NEW m \in 1 .. p - 1, LastBefore(dir, m, p + 1)
        PROVE  HasContent(blobs'[KeyOf[Doc(m)]], Doc(m)) /\ HasContent(jobs[KeyOf[Doc(m)]], Doc(m))
    <3>1. HasContent(blobs[KeyOf[Doc(m)]], Doc(m)) /\ HasContent(jobs[KeyOf[Doc(m)]], Doc(m))
      BY <1>1, <1>2, <2>1, <2>4 DEF PassedAreWritten
    <3>2. QED
      BY <1>2, <2>2, <2>3, <2>4, <3>1
  <2>5. QED
    BY <1>1, <2>1, <2>2, <2>3, <2>4
<1>5. CASE EnqueueJob(i)
  <2>1. istep[i] = "enqueue" /\ istep'[i] = "walk" /\ position'[i] = p + 1
    BY <1>5 DEF EnqueueJob, IngestTypeOK
  <2>2. DocOf(i) \in Documents /\ blobs' = blobs /\ DocOf(i) = Doc(p)
    BY <1>5, EnqueueDoc DEF EnqueueJob, DocOf, FileOf, storeVars
  <2>3. /\ HasContent(jobs'[KeyOf[DocOf(i)]], DocOf(i))
        /\ \A k \in Conversations \ {KeyOf[DocOf(i)]} : jobs'[k] = jobs[k]
    BY <1>5, <2>2, JobWritten DEF EnqueueJob
  <2>4. ASSUME NEW m \in 1 .. p, LastBefore(dir, m, p + 1)
        PROVE  HasContent(blobs[KeyOf[Doc(m)]], Doc(m)) /\ HasContent(jobs'[KeyOf[Doc(m)]], Doc(m))
    <3>1. CASE m = p
      BY <1>1, <2>1, <2>2, <2>3, <3>1 DEF PassedAreWritten
    <3>2. CASE m # p
      <4>1. m \in 1 .. p - 1
        BY <1>1, <3>2
      <4>2. HasContent(blobs[KeyOf[Doc(m)]], Doc(m)) /\ HasContent(jobs[KeyOf[Doc(m)]], Doc(m))
        BY <1>1, <2>1, <2>4, <4>1 DEF PassedAreWritten
      <4>3. QED
        BY <1>2, <2>2, <2>3, <2>4, <4>1, <4>2
    <3>3. QED
      BY <3>1, <3>2
  <2>5. QED
    BY <1>1, <2>1, <2>2, <2>4
<1>6. CASE FinishIngest(i)
  <2>1. istep[i] = "walk" /\ istep'[i] = "finished" /\ UNCHANGED <<position, jobs, blobs>>
    BY <1>6 DEF FinishIngest, IngestTypeOK, queueVars, storeVars
  <2>2. QED
    BY <1>1, <2>1 DEF PassedAreWritten
<1>7. CASE AbortOnFile(i)
  BY <1>7 DEF AbortOnFile, IngestTypeOK, GoingOn
<1>8. QED
  BY <1>3, <1>4, <1>5, <1>6, <1>7 DEF IngestStep

LEMMA NextAlone ==
    ASSUME QueueTypeOK, StoresTypeOK, IngestTypeOK, alone \subseteq Ingesters,
           PassedAreWritten, IngestSpecNext
    PROVE  alone' \subseteq Ingesters /\ PassedAreWritten'
<1>1. PICK i \in Ingesters :
        \/ \E dir \in Directories : StartIngest(i, dir) /\ alone' = alone \cup {i}
        \/ IngestStep(i) /\ alone' = alone \cap {i}
        \/ KillIngest(i) /\ alone' = alone
  BY DEF IngestSpecNext
<1>2. CASE IngestStep(i) /\ alone' = alone \cap {i}
  <2>1. alone' \subseteq {i} /\ alone' \subseteq alone
    BY <1>2
  <2>2. CASE i \in alone' \cap GoingOn'
    <3>1. i \in alone
      BY <2>1, <2>2
    <3>2. LET p == position'[i]
              front == IF istep'[i] = "enqueue" THEN p + 1 ELSE p
          IN  /\ istep'[i] = "enqueue" =>
                    HasContent(blobs'[KeyOf[DocOf(i)']], DocOf(i)')
              /\ \A m \in 1 .. p - 1 : LastBefore(directory'[i], m, front) =>
                    LET d == directory'[i][m].content
                    IN  HasContent(blobs'[KeyOf[d]], d) /\ HasContent(jobs'[KeyOf[d]], d)
      BY <1>2, <2>2, <3>1, NextPassedWritten
    <3>3. QED
      BY <2>1, <3>2 DEF PassedAreWritten
  <2>3. CASE i \notin alone' \cap GoingOn'
    BY <2>1, <2>3 DEF PassedAreWritten
  <2>4. QED
    BY <2>1, <2>2, <2>3
<1>3. CASE \E dir \in Directories : StartIngest(i, dir) /\ alone' = alone \cup {i}
  <2>1. /\ UNCHANGED <<jobs, blobs>>
        /\ istep'[i] = "walk" /\ position'[i] = 1
        /\ \A j \in Ingesters \ {i} : /\ istep'[j] = istep[j]
                                      /\ position'[j] = position[j]
                                      /\ directory'[j] = directory[j]
        /\ alone' = alone \cup {i}
    BY <1>3 DEF StartIngest, IngestTypeOK, queueVars, storeVars
  <2>2. \A j \in Ingesters \ {i} : DocOf(j)' = DocOf(j)
    BY <2>1 DEF DocOf, FileOf
  <2>3. ASSUME NEW j \in alone' \cap GoingOn'
        PROVE  LET front == IF istep[j] = "enqueue" THEN position[j] + 1 ELSE position[j]
               IN (/\ istep[j] = "enqueue" => HasContent(blobs[KeyOf[DocOf(j)]], DocOf(j))
                   /\ \A m \in 1 .. position[j] - 1 :
                        LastBefore(directory[j], m, front) =>
                            LET d == directory[j][m].content
                            IN  /\ HasContent(blobs[KeyOf[d]], d)
                                /\ HasContent(jobs[KeyOf[d]], d))'
    <3>1. CASE j = i
      BY <2>1, <3>1
    <3>2. CASE j # i
      <4>1. j \in Ingesters /\ j \in alone \cap GoingOn
        BY <2>1, <3>2 DEF GoingOn
      <4>2. QED
        BY <2>1, <2>2, <3>2, <4>1 DEF PassedAreWritten
    <3>3. QED
      BY <3>1, <3>2
  <2>4. PassedAreWritten'
    BY <2>3 DEF PassedAreWritten
  <2>5. QED
    BY <2>1, <2>4
<1>4. CASE KillIngest(i) /\ alone' = alone
  <2>1. /\ UNCHANGED <<jobs, blobs, position, directory>>
        /\ istep'[i] = "killed"
        /\ \A j \in Ingesters \ {i} : istep'[j] = istep[j]
    BY <1>4 DEF KillIngest, IngestTypeOK, queueVars, storeVars
  <2>2. \A j \in Ingesters : DocOf(j)' = DocOf(j)
    BY <2>1 DEF DocOf, FileOf
  <2>3. GoingOn' \subseteq GoingOn \ {i}
    BY <2>1 DEF GoingOn
  <2>4. PassedAreWritten'
    BY <1>4, <2>1, <2>2, <2>3 DEF PassedAreWritten, GoingOn
  <2>5. QED
    BY <1>4, <2>4
<1>5. QED
  BY <1>1, <1>2, <1>3, <1>4

(***************************************************************************)
(* The invariant and what follows from it                                  *)
(***************************************************************************)
LEMMA NextIngestInv == IngestInv /\ [IngestSpecNext]_aloneVars => IngestInv'
<1> SUFFICES ASSUME IngestInv, [IngestSpecNext]_aloneVars PROVE IngestInv'
  OBVIOUS
<1>1. CASE IngestSpecNext
  <2>1. PICK i \in Ingesters : IngesterMoves(i)
    BY <1>1, OneMoves
  <2>2. QueueTypeOK' /\ StoresTypeOK' /\ IngestTypeOK'
    BY <2>1, NextIngestType DEF IngestInv
  <2>3. CountsAddUp'
    BY <2>1, NextCounts DEF IngestInv
  <2>4. PassedAreAccounted'
    BY <2>1, NextPassed DEF IngestInv
  <2>5. StoredWasDelivered'
    BY <1>1, NextStored DEF IngestInv
  <2>6. WrittenOnce'
    BY <1>1, NextWrittenOnce DEF IngestInv, WrittenOnce
  <2>7. alone' \subseteq Ingesters /\ PassedAreWritten'
    BY <1>1, NextAlone DEF IngestInv
  <2>8. QED
    BY <2>2, <2>3, <2>4, <2>5, <2>6, <2>7 DEF IngestInv
<1>2. CASE UNCHANGED aloneVars
  <2>1. UNCHANGED <<queueVars, storeVars, ingestVars, delivered, alone>>
    BY <1>2 DEF aloneVars
  <2>2. QueueTypeOK' /\ StoresTypeOK' /\ IngestTypeOK'
    BY <2>1 DEF IngestInv, QueueTypeOK, StoresTypeOK, IngestTypeOK, queueVars, storeVars,
                ingestVars
  <2>3. CountsAddUp' /\ PassedAreAccounted'
    BY <2>1 DEF IngestInv, CountsAddUp, PassedAreAccounted, GoingOn, Accounted, Tracked,
                queueVars, ingestVars
  <2>4. StoredWasDelivered' /\ WrittenOnce'
    BY <2>1 DEF IngestInv, StoredWasDelivered, WrittenOnce, Tracked, Came, OneVersionEach,
                DocOf, FileOf, queueVars, storeVars, ingestVars
  <2>5. alone' \subseteq Ingesters /\ PassedAreWritten'
    BY <2>1 DEF IngestInv, PassedAreWritten, GoingOn, DocOf, FileOf, queueVars, storeVars,
                ingestVars
  <2>6. QED
    BY <2>2, <2>3, <2>4, <2>5 DEF IngestInv
<1>3. QED
  BY <1>1, <1>2

LEMMA InitIngestInv == IngestSpecInit => IngestInv
<1> SUFFICES ASSUME IngestSpecInit PROVE IngestInv
  OBVIOUS
<1>1. QueueTypeOK /\ StoresTypeOK
  BY DEF IngestSpecInit, QueueInit, StoresInit, QueueTypeOK, StoresTypeOK
<1>2. IngestTypeOK
  BY NoStatsType DEF IngestSpecInit, IngestInit, IngestTypeOK, IngestSteps
<1>3. Tracked = {} /\ GoingOn = {} /\ delivered = {} /\ alone = {}
  BY DEF IngestSpecInit, QueueInit, IngestInit, Tracked, GoingOn
<1>4. WrittenOnce
  BY <1>3, FS_EmptySet DEF WrittenOnce, IngestSpecInit, QueueInit
<1>5. StoredWasDelivered
  BY <1>3 DEF StoredWasDelivered, IngestSpecInit, StoresInit, IngestInit, Walking
<1>6. QED
  BY <1>1, <1>2, <1>3, <1>4, <1>5
  DEF IngestInv, CountsAddUp, PassedAreAccounted, PassedAreWritten

LEMMA IngestAlways == IngestSpec => []IngestInv
BY InitIngestInv, NextIngestInv, PTL DEF IngestSpec

(* When ingest_directory returns, every file it walked is a tracked        *)
(* conversation or a dead letter and its counts add up (ingest.py), with   *)
(* any number of ingests beside it, dying where they may.                  *)
THEOREM IngestDropsNothing == IngestSpec => []FinishedIngestAccountsForEveryFile
<1>1. IngestInv => FinishedIngestAccountsForEveryFile
  <2> SUFFICES ASSUME IngestInv, NEW i \in Ingesters, istep[i] = "finished"
               PROVE  /\ \A file \in FilesOf(i) : Accounted(file)
                      /\ stats[i].files_seen = Len(directory[i])
                      /\ stats[i].files_seen = stats[i].parse_errors + stats[i].enqueued
                                                        + stats[i].already_tracked
    BY DEF FinishedIngestAccountsForEveryFile
  <2>1. i \in GoingOn
    BY DEF GoingOn
  <2>2. /\ DOMAIN directory[i] = 1 .. Len(directory[i])
        /\ Len(directory[i]) \in Nat
    BY DirectoryType DEF IngestInv
  <2>3. /\ position[i] = Len(directory[i]) + 1
        /\ \A n \in 1 .. position[i] - 1 : Accounted(directory[i][n])
    BY <2>1 DEF IngestInv, PassedAreAccounted
  <2>4. /\ stats[i].files_seen = position[i] - 1
        /\ position[i] = stats[i].parse_errors + stats[i].enqueued
                            + stats[i].already_tracked + 1
    BY <2>1 DEF IngestInv, CountsAddUp
  <2>5. stats[i] \in IngestStats
    BY DEF IngestInv, IngestTypeOK
  <2>6. \A file \in FilesOf(i) : Accounted(file)
    BY <2>2, <2>3 DEF FilesOf
  <2>7. /\ stats[i].files_seen \in Nat /\ stats[i].parse_errors \in Nat
        /\ stats[i].enqueued \in Nat /\ stats[i].already_tracked \in Nat
    BY <2>5 DEF IngestStats
  <2>8. stats[i].files_seen = Len(directory[i])
    BY <2>2, <2>3, <2>4
  <2>9. stats[i].files_seen = stats[i].parse_errors + stats[i].enqueued
                                  + stats[i].already_tracked
    <3>1. \A a, b, c \in Nat : \A p \in Int : p = a + b + c + 1 => p - 1 = a + b + c
      OBVIOUS
    <3>2. position[i] \in Int
      BY <2>2, <2>3
    <3>3. position[i] - 1 = stats[i].parse_errors + stats[i].enqueued + stats[i].already_tracked
      BY <2>4, <2>7, <3>1, <3>2
    <3>4. QED
      BY <2>4, <3>3
  <2>10. QED
    BY <2>6, <2>8, <2>9
<1>2. QED
  BY <1>1, IngestAlways, PTL

(* An ingest that nobody disturbed leaves blob and job of every            *)
(* conversation at the last file it walked of it, whatever earlier ones    *)
(* had left half written.                                                  *)
THEOREM IngestRepairs == IngestSpec => []FinishedIngestLeavesItsContent
<1>1. IngestInv => FinishedIngestLeavesItsContent
  <2> SUFFICES ASSUME IngestInv, NEW i \in alone, istep[i] = "finished",
                      NEW d \in LastDocuments(directory[i])
               PROVE  HasContent(blobs[KeyOf[d]], d) /\ HasContent(jobs[KeyOf[d]], d)
    BY DEF FinishedIngestLeavesItsContent, HasContent
  <2>1. i \in Ingesters /\ i \in GoingOn
    BY DEF IngestInv, GoingOn
  <2>2. /\ DOMAIN directory[i] = 1 .. Len(directory[i])
        /\ Len(directory[i]) \in Nat
    BY <2>1, DirectoryType DEF IngestInv
  <2>3. position[i] = Len(directory[i]) + 1
    BY <2>1 DEF IngestInv, PassedAreAccounted
  <2>4. PICK m \in DOMAIN directory[i] :
            /\ d = directory[i][m].content
            /\ directory[i][m].content \in Documents
            /\ \A l \in DOMAIN directory[i] :
                l > m /\ directory[i][l].content \in Documents
                    => KeyOf[directory[i][l].content] # KeyOf[directory[i][m].content]
    BY DEF LastDocuments
  <2>5. LastBefore(directory[i], m, position[i])
    BY <2>2, <2>3, <2>4 DEF LastBefore
  <2>6. QED
    BY <2>1, <2>2, <2>3, <2>4, <2>5 DEF IngestInv, PassedAreWritten
<1>2. QED
  BY <1>1, IngestAlways, PTL

(* While no two versions of a conversation have been delivered, repeating  *)
(* and interleaving ingests writes every job once, and never without its   *)
(* blob.                                                                   *)
THEOREM IngestMayBeRepeated == IngestSpec => []RepeatedIngestIsHarmless
<1>1. IngestInv => RepeatedIngestIsHarmless
  <2> SUFFICES ASSUME IngestInv, OneVersionEach
               PROVE  /\ clock = Cardinality(Tracked)
                      /\ \A k \in Tracked :
                            /\ blobs[k] # Null
                            /\ blobs[k].content_hash = jobs[k].content_hash
    BY DEF RepeatedIngestIsHarmless, OneVersionEach
  <2>1. clock = Cardinality(Tracked)
    BY DEF IngestInv, WrittenOnce
  <2>2. ASSUME NEW k \in Tracked
        PROVE  blobs[k] # Null /\ blobs[k].content_hash = jobs[k].content_hash
    <3>1. k \in Conversations /\ blobs[k] # Null
      BY DEF IngestInv, StoredWasDelivered, Tracked
    <3>2. Came(k, blobs[k].content_hash) /\ Came(k, jobs[k].content_hash)
      BY <3>1 DEF IngestInv, StoredWasDelivered
    <3>3. QED
      BY <3>1, <3>2 DEF Came, OneVersionEach
  <2>3. QED
    BY <2>1, <2>2
<1>2. QED
  BY <1>1, IngestAlways, PTL
=============================================================================
