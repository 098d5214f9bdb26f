# TLA+ models of the conversation sentiment pipeline

These modules model the pipeline in `src/pipeline`: conversations are ingested
from JSON files into PostgreSQL, queued, claimed by workers, scored, and closed
with a result. TLC checks small instances of the models, and TLAPS proves the
most important invariants, and the refinement of the pipeline's promise, for
every value of the constants.

Paths below are relative to the repository; `queue.py` stands for
`src/pipeline/queue.py`.

## 1. The system

| component | state | operations |
| --- | --- | --- |
| job queue, `queue.py` `PgJobQueue` | `jobs`: one row per conversation with hash, status, claim time, delivery count, enqueue time | `enqueue` (insert, or reset when the hash changed), `claim` (a batch, oldest first, skipping locked rows), `mark_done` |
| worker, `worker.py` | the claimed batch, the job at hand, its document | `run` (claim, process, sleep or return), `process_one` |
| ingest, `ingest.py`, `cli.py` | position in the directory, counts; `ingest_dead_letters` | `ingest_directory` |
| blob store, `blobstore.py` | `conversation_blobs` | `upsert_blob`, `get_blob` |
| result store, `resultstore.py` | `results` | `close_job_with_result` (result and job status in one transaction), `get_result` |
| content hash, `hashing.py` | none | `content_hash` |
| validation, `schema.py` | none | `parse_conversation`, `customer_turns` |
| scorer, `sentiment.py` | none (the model is loaded once) | `Scorer`, `score_texts` |
| metrics, `metrics.py` | none | `overall_sentiment`, `sentiment_trajectory` |
| result assembly, `result.py` | none | `score_conversation` |
| `FakeQueue`, `queue.py` | a dict of rows | the operations of the queue, for tests |
| configuration, `config.py` | none (read once from the environment) | `from_env`, `metric_params` |
| migrations, `migrate.py` | the schema, `schema_migrations` | `apply_migrations` |
| deployment, `docker-compose.yml` | containers, PostgreSQL up or down | start when healthy, restart |
| sample data, `data/make_dataset.py` | 27 conversations | |
| connection pool, model download, scripts | none of interest | |

Interaction is through the database alone. Ingest writes the blob in one
transaction and the job in the next. A worker claims a batch in one
transaction, then takes up to three more for each job: read the result, read
the blob, write. Any number of ingests and workers run at once. Docker restarts
a worker that dies (`docker-compose.yml:29`); what it had claimed is claimed
again when the lease has run out. No lease is renewed and nothing tells a slow
worker that its job has been given to somebody else. The tables are made by
`migrate`, a command that somebody has to run; workers do not wait for it.

What makes the system correct:

- queue: no two callers of `claim` get the same delivery; a job whose worker
  died comes back; a job leaves the queue only with its outcome on record;
- worker: a dead job's result is a rejection, result and status change
  together, the result of a closed job is about its content, poison is bounded,
  a drain processes each job once;
- ingest: every file ends as a job or a dead letter, the blob comes before the
  job, running it again repairs what an interrupted run left;
- scoring: only customer turns count, broken turns cost no more than
  themselves, every score ends at its turn, `None` is not zero, the overall
  score is a mean and the trajectory has the right direction, and a row's
  params explain its numbers;
- migrations: scripts are applied in order and recorded truthfully, a retry
  finishes what was begun, and workers come to serve once the schema is there.

What is hard about it: the interleavings of workers, also within the claim
statement, leases that run out under a live worker, deaths between two
transactions, rows rewritten by an ingest while a worker holds an older version,
the order of the checks in `process_one`, and migrates that overlap or die
between a script and its record. `PROJECT.json` lists these hazards at their lines, with the
properties that cover them and the reason where none does.

## 2. The modules

```
Contents                  documents, hashes, JSONB
 |-- JobQueue             jobs, PgJobQueue, the clock
 |-- Stores               conversation_blobs, results
 |     Worker             run, process_one            (JobQueue, Stores)
 |     Ingest             ingest_directory            (JobQueue, Stores)
 |       Pipeline         everything, faults, properties
 |         PipelineProofs   outcomes, deliveries
 |           LedgerProofs     the ledger is implemented
 |             ContentProofs    blobs, hashes and results
 |         MCPipeline, MCPoison   instances for TLC
 |         ClaimTransaction   claim row by row, with its locks
 |           Drain              run --once over a filled queue
 |             DrainProofs        exactly once; a claim is one step
 |             MCDrain            instances
 |       IngestAlone      ingests alone, with a history
 |         IngestProofs     nothing dropped, repair, repetition
 |         MCIngest         instances
 |-- FakeQueue            the in-memory queue, refining JobQueue
 |     FakeQueueProofs    types, the refinement
 |     MCFakeQueue        instances
ResultLedger              what the pipeline promises; refined by Pipeline
Migrations                apply_migrations
 |-- BringUp              with PostgreSQL and the worker containers; its instance
       BringUpProofs
Lists                     loops and sums over lists
Schema, Metrics, Scorer, Config   pure functions
 |-- Scoring              score_conversation
 |     ScoreFile          score-file, with reference definitions
 |       ScoringProofs      the properties of a row
 |       MCScoring          bounded inputs (ScoreFile, Dataset)
Dataset                   the sample conversations
```

How state and actions correspond to the code:

- **Contents.** A document is the parsed JSON value of a file. `ContentHash` is
  injective (SHA-256 over a canonical form). `Jsonb` is what PostgreSQL gives
  back for a document it stored; it is idempotent and keeps the identity.
- **JobQueue.** `jobs[k]` is the row of conversation `k` or `Null`. `claimed_at`
  is kept as an age that counts only while the row is claimed and stops one
  tick after the lease; `enqueued_at` is the number of the enqueue that wrote
  the row. `Enqueue`, `Claim`, `MarkDone` and `SetStatus` are the SQL statements;
  `Tick` is the clock of the database. `SetStatus` finds its row by key, as the
  code does: it checks neither the hash nor who holds the claim.
- **Stores.** A result is its hash, status and error reason, a blob its hash and
  its document.
- **Worker.** `pc[w]` says which transaction of `process_one` comes next, and
  each transaction is one action. `ClaimJobs`/`ClaimNothing` are the claim in
  `run`, `Begin` the poison check, `Lookup` the duplicate check, `SkipDuplicate`
  its `mark_done`, `Fetch` the read of the blob, `CloseMissing`, `ClosePoison`
  and `CloseScored` the three calls of `close_job_with_result`. An exception
  anywhere in `process_one` leaves `run` and ends the process, which is `Kill`;
  `ScoringKills` is a document on which scoring itself does so, also with the
  exceptions that `Raises` (in `Scoring`) tells of.
- **Ingest.** `StoreBlob` and `EnqueueJob` are the two transactions for a file,
  `DeadLetter` the record of one nothing can be keyed by, `AbortOnFile` the
  exception of a document that cannot be hashed or stored: both calls stand
  outside the `try`.
- **Pipeline.** `SKIP LOCKED` makes `claim` miss a row that another transaction
  has locked. A worker or an ingester whose next step writes a row may have
  locked it, and so may another worker that is in its own claim, so a claim
  leaves out any subset of these rows (`LockedByOthers`, `Contended`).
  `Fault` bounds deaths and lost blobs by `MaxFaults`.
- **ClaimTransaction.** `claim` under READ COMMITTED: `BeginClaim` takes the
  snapshot of claimable rows, `ScanRow` locks the oldest of those left or skips
  it if it is locked, looking at the row again (`StillClaimable`), `CommitClaim`
  updates and hands out what is locked. A death before that releases the locks
  and changes nothing. Writes of others wait for the locks. Its steps are shown
  to be steps of `Pipeline`, or none (`ClaimIsAtomic`).
- **Drain.** `run --once` by all workers, with these claims, over a queue that an
  ingest has filled in any order. `late` remembers whether a claim has outlived
  its lease.
- **IngestAlone.** The actions of `Ingest` and nothing beside them, with the
  documents `delivered` so far and the ingesters that ran undisturbed (`alone`).
- **ResultLedger.** The promise without workers, leases or batches: a
  conversation is accepted; it is settled by one atomic step that records a
  verdict and closes it, as dead exactly if the verdict is a rejection; it may
  be confirmed done on the strength of a verdict already on record. `Pipeline`
  maps `jobs` and `results` to it (`Ledger`, `Standing`).
- **FakeQueue.** The dict is `order` and `rows`; `stamps` is a history variable
  that supplies the `enqueued_at` of the queue it is compared with (`AsJobs`).
  `ClaimableBefore` is what the loop has collected when it reaches a row.
- **Migrations, BringUp.** Each statement of `apply_migrations` on its autocommit
  connection is a step; a script is one statement. `already` is what the process
  read at the beginning and goes by to the end. A statement that waits for
  another one creating the same object may raise when that one commits
  (`overtaken`, `Raises`), and the exception ends the process. `KillMigrators` is
  the death of one process, or of all when PostgreSQL goes away. A worker of
  `BringUp` is waiting for health, starting, serving or down; a claim without
  tables or without PostgreSQL ends the process, and Docker starts it again.
- **Lists.** A comprehension with a condition keeps positions one by one
  (`KeptAfter`, `Ascending`, `Only`), and `sum` adds one by one (`Sums`).
- **Schema, Metrics, Scorer, Config, Scoring.** Raw values are reduced to what
  the code asks of them. The metrics are exact fractions: the code's rounding,
  `exp` and `tanh` are left out, since `tanh` is monotone and odd and `exp` only
  supplies weights. Batches are those of `score_texts`: `AfterBatches` is
  `results` after each of them. `RowOf` is the row of a conversation and
  `ScoreConversation` that row or an exception. `Raises` tells when: if
  `content_hash`, which comes first, cannot encode a string with a lone surrogate
  (`hashable`); if `range` has a step of zero, a string that goes to the model
  cannot be read under this `max_tokens` (`Readable`), or a slot was not filled; if
  `exp` overflows, which under a negative lambda it does for an age too great
  (`RecencyWeight` has no value for it); and if the slope is divided by a `B` of
  zero. The model is a table of probabilities by string and
  label (`Softmax`) with an order of its labels for each revision (`Id2Label`);
  a string of more than `max_tokens` is scored as its beginning (`Truncated`), which
  depends on that number (`Start`).
  `FromEnv` overlays the defaults with what is set; a raw string is a record of
  what each conversion makes of it.
- **ScoreFile.** A behaviour scores one of the conversations in `Given` in one of
  the `Environments`. The properties compare the row with definitions that read
  the raw turns and know nothing of batches, indices of labels or sums.
- **Dataset.** The conversations of `make_dataset.py` by role, kind of text and
  defect. A turn that "holds words" takes its mood from a parameter.

Definitions whose comment begins with "Mutant" are used by no specification.
Each is the definition after it with a plausible bug, and shows that a property
would notice: `PROJECT.json` says which one.

## 3. What is checked

| run | question | instance |
| --- | --- | --- |
| `PipelineSafety` | Is the outcome on record, are deliveries disjoint, does the ledger hold, and does a scored result stand, under redelivery, update, death and loss? | 2 workers, 1 ingester, 2 conversations, one with two versions and a blob that may be lost, the other written anew by JSONB; verdicts of all three kinds; batch 2, `MaxDelivery` 2, 2 ingests, 1 fault; 650 thousand states |
| `PipelineLiveness` | Is every job closed in the end? | 2 workers, 2 jobs, one of which kills whoever scores it; `MaxDelivery` 1, 1 more fault |
| `Drain` | Do concurrent `run --once` count each job once and return, with claims that lock row by row and may die half way? Is such a claim what the other runs take it for? | 2 workers, 3 jobs in every order of age, batch 2, 1 death; 132 thousand states |
| `IngestRepair` | Does an ingest that finishes account for every file, repair what a killed one or two concurrent ones left, and do no harm when repeated? | 2 ingesters, 3 different directories, broken files, two versions and an unstorable document among them, 4 ingests; 168 thousand states |
| `BringUp` | Are scripts applied in order and recorded truthfully, does one of several migrates get through, does a retried one, do workers come to serve? | 2 migrates, 2 scripts, database new or behind, 2 deaths, 1 worker, PostgreSQL going and coming; 34 thousand states |
| `FakeQueueRequeue` | Does `FakeQueue` refine `JobQueue`, and when does it not? | 3 keys, one with two contents, batch 2, 5 enqueues, 2 deliveries; 38 thousand states |
| `Scoring` | Does the row follow from the turns, and do its params explain it? Which conversations end the command? | the 27 samples in three moods, all conversations of up to 3 turns of 9 kinds and up to 4 customer turns of 6 kinds, every unsound header, also with a lone surrogate; each under 19 environments, numbers that cannot be used among them; 96 thousand states |

Bounds. Two workers and two conversations in one batch are the least that
show every pair of steps that can collide: two holders of one job, a batch-mate
of the job that fails, an update under a claim. `MaxDelivery` 2 lets a job be
claimed, reclaimed and processed as a duplicate, and then become poison. The
lease is one tick, and the age of a claim stops one tick later, so both sides
of the lease are reached. A lease that runs out under a live worker has the
effect of a death, so one fault beside it is enough. In `Drain` a claim takes
less than a tick of the clock, so a row that was claimed within it is too young
to be reclaimed; three rows and batches of two let the second claimer skip, find
a row gone and get a short batch. In `BringUp` two scripts are the least with an
order, and two deaths may hit the first attempt and the retry; no `Repeatable`
script raises because it is executed again, as in `001_init.sql`. An environment
of `Scoring` sets one variable; the 96 customer turns of `c-000028` make three
batches, and with its agents six.
The proofs of section 5 have no bounds.

Symmetry is used for workers in the safety runs, where no property
distinguishes them, and in none with a liveness property. Deadlock is checked
in all instances of `Pipeline` but `Drain`, in `FakeQueueRequeue` and in
`BringUp`: an idle worker keeps claiming, a container is restarted. In the other
runs the system really stops.

Fairness (`Fairness` in `Pipeline`): each worker and each ingester that can
take a step eventually does, a dead worker is restarted (Docker's `restart:
unless-stopped`), the clock advances. Nothing is assumed of ingests being started
or of faults. Weak fairness of `WorkerRuns(w)` is justified because a live
worker always has a step and none is ever taken from it, the empty claim
included. A claim skips a locked row only while somebody is about to write it,
which ends, so no fairness is needed of `SKIP LOCKED`. `Drain` assumes the same
of each of its workers and nothing of the clock or of deaths. `BringUp` assumes
that containers and migrates that are alive go on; that somebody runs `migrate`
again or brings PostgreSQL back is not assumed but the premise of
`RetriedMigrateGetsThrough` and `MigratedIsServed`.

## 4. Where the code does not do what is said of it

Each of these is a run in which TLC finds the property violated.

- `StaleCloseHidesUpdate` (`resultstore.py:76-80`): a worker takes version 1 of a
  conversation; an ingest stores version 2 and requeues the job; the worker
  closes the job, by key. The job is done with the hash of version 2 and the
  result of version 1, another ingest sees nothing new, and version 2 is never
  scored. `ClosedJobIsForItsContent` speaks of conversations whose blob and job are
  of the same version, so not of the time between the two transactions of an
  ingest, whose enqueue is still to come and would put things right: in the trace
  version 2 is stored and queued before the close. What does hold is in `PipelineSafety`: a conversation with one version
  is closed with the result of that version (`UnchangedJobIsForItsContent`).
- `PoisonOverwritesResult` (`worker.py:75`): the poison check comes before the
  check for a committed result. A job whose last allowed delivery commits after
  it was claimed again loses its good result to a rejection. That this, and a
  blob that somebody deleted, are the only ways to lose one is `ResultsStand`.
- `RejectedJobMarkedDone` (`worker.py:94`): a second delivery of a rejected job
  finds the rejected result, marks the job done, and so takes it out of the
  `dead_letters` view.
- `PoisonUntried` (`queue.py:101`): `delivery_count` counts claims of the row.
  Jobs that are claimed in a batch behind one that kills the worker are
  dead-lettered as `max_delivery_exceeded` without having been tried.
- `IngestAborts` (`ingest.py:72-73`): a document that cannot be hashed (a lone
  surrogate) or stored (a NUL character in JSONB) ends the ingest; the files
  after it are neither queued nor recorded.

More disagreements were met and have no run here.

- `config.py:4-6` promises that a stored number stays reproducible when the
  defaults change. `max_tokens` (`config.py:100`) decides what a long turn
  (`c-000027`) is scored by, and is neither in `params` nor in the provenance: with
  512 and with 50 that conversation has two rows that say the same of their
  configuration and hold different numbers. `ParamsExplainTheNumbers` holds
  because it leaves out exactly this: configurations that a row does not tell
  apart give the same numbers unless they cut off a turn that counts, and not at
  the same place (`CutsAlike`).
- The docstring of `close_job_with_result` (`resultstore.py:22-23`) says a job
  rejected for its content is done; `worker.py:106` makes it dead, and so does
  the model.
- The hash in a result is taken of the document as it comes back from JSONB
  (`result.py:47`), which for a number like `1e16` is not the hash the job has.
  Such a job never recognises its result and is scored at every delivery
  (`PipelineSafety` has one). It does no more harm than that: what it is scored
  from is the same each time, so the result stands (`ResultsStand`).
- A key that `FakeQueue` requeues keeps its place in the dict while `PgJobQueue`
  sends it to the back. The two disagree in a claim of some of several rows of
  which one has overtaken another (`ClaimOutOfOrder`), and in nothing else.
- `roles_in_metrics` and `empty_text_policy` can be set and are repeated in every
  row (`config.py:114-115`), but no code reads them: `schema.py:172` has the role
  written out. Under `SB_ROLES_IN_METRICS=customer,agent` a row says that agents
  were counted, and `OnlyCustomersCount` holds all the same.

## 5. What is proved

The pipeline's theorems hold for any conversations, documents, workers and
ingesters, any batch size, lease, delivery limit, directories, verdicts, lethal
and unstorable documents, and faults; those of the migrations for any processes,
scripts, containers and number of deaths; those of scoring for conversations of
any length, any configuration, batch size and order of labels, and any model.

| theorem | statement |
| --- | --- |
| `TypeCorrect` | `Spec => []TypeOK` |
| `ClosedHasResult` | `Spec => []ClosedJobHasResult` |
| `DeadLettersAreRejected` | `Spec => []DeadIsRejected` |
| `DisjointDeliveries` | `Spec => []NoDoubleDelivery` |
| `ImplementsLedger` | `Spec => KeepsTheLedger` |
| `BlobsComeFirst` | `Spec => []BlobBeforeJob` |
| `OneVersionIsForItsContent` | `Spec => []UnchangedJobIsForItsContent` |
| `ScoredResultsStand` | `Spec => ResultsStand` |
| `MigrationsKeepOrder` | `BringUpSpec => []ScriptsInOrder` |
| `ReturnedMigrateIsComplete` | `BringUpSpec => []ReturnedIsComplete` |
| `OneMigrateGetsThrough` | `BringUpSpec => []SomeoneGetsThrough` |
| `IngestDropsNothing` | `IngestSpec => []FinishedIngestAccountsForEveryFile` |
| `IngestRepairs` | `IngestSpec => []FinishedIngestLeavesItsContent` |
| `IngestMayBeRepeated` | `IngestSpec => []RepeatedIngestIsHarmless` |
| `ClaimIsOneStep` | `DrainSpec => ClaimIsAtomic` |
| `DrainCountsEachJobOnce` | `DrainSpec => []EveryJobExactlyOnce` |
| `FakeTypeCorrect` | `FakeSpec => []FakeTypeOK` |
| `FakeRefinesPg` | `FakeSpec => BehavesLikePg` |
| `FakeImplementsPg` | `FakeSpec => Pg!QueueSpec`, if no content changes or a batch takes all |
| `EveryOtherIsAnswered` | `ScoringSpec => []OnlyTheUnhashableEndsIt` |
| `StatusTellsTheTurns` | `ScoringSpec => []StatusFollowsTheTurns` |
| `EveryTurnKeepsItsPlace` | `ScoringSpec => []EveryTurnIsInItsPlace` |
| `OverallIsAMean` | `ScoringSpec => []OverallIsBetweenExtremes` |
| `NoneIsNoZero` | `ScoringSpec => []NoneIsNotZero` |
| `DirectionIsRight` | `ScoringSpec => []TrajectoryHasTheRightDirection` |
| `OthersDoNotCount` | `ScoringSpec => []OnlyCustomersCount` |
| `RowExplainsItsNumbers` | `ScoringSpec => []ParamsExplainTheNumbers` |
| `EverySlotIsFilled` | `ScoreTexts` is `ScoreOf` of each string, for any batch size that is positive or not needed |

The assumptions are the `ASSUME`s of the modules, which TLC evaluates in every
run: constants have their types, `Null` is none of the values it stands in for,
`KeyOf` and `Jsonb` are functions and `Jsonb` keeps identities. Those of `Drain`
say in addition what is drained (`DrainAssumption`): finitely many conversations,
each with a document, by at least one worker, all of them `--once`, in batches
that are not empty.

Those of scoring say what the code relies on and does not check. Of the model:
probabilities are between 0 and 1, and it has no labels but the three it must
have (`ScorerAssumption`); the code would not mind others, but the model that
`config.py:34-37` pins has none. Of the configuration: the size of a batch is
any integer, the divisor of the slope is not negative, and the revision is one
that is known (`BatchSizesAreIntegers`, `DivisorsAreNotNegative`,
`RevisionsAreKnown`). A negative divisor would turn the trajectory round;
nothing stops it (`config.py:127-130`). `AgesHaveWeights` says of `exp` that it
is never negative and overflows for no age unless lambda is negative; that
weights fall with age is not needed, and of `max_tokens` nothing is assumed. The
configurations that `EveryOtherIsAnswered` is about are those of `Sensible`, which
is part of the property and not an assumption. The rest is about the encoding: `StringsAreKnown`, `TextsAreStrings` and
`GivenAreRaw` keep strings, missing values and turns apart, `NoneIsNoMetric`
keeps `None` out of the metrics.

- *Outcomes* (`OutcomeInv`). `ClosedJobHasResult` and `DeadIsRejected` are not
  inductive on their own: `SkipDuplicate` marks a job done without writing a
  result, on the strength of one that was read in an earlier transaction.
  `SkipHasResult` says that result is still there, because no step deletes one.
  With it, every step either leaves jobs and results as they are, opens a job
  (`OpenOutcome`), closes one together with its result (`CloseOutcome`) or marks one
  done (`MarkDoneOutcome`).
- *Deliveries* (`DeliveryInv`). A delivery is named by key, enqueue time and
  delivery count. `HeldIsKnown` says that a held delivery is never ahead of its
  row: the row was written anew since, or has at least that count. Between two
  states a row only grows in this order (`RowGrows`, shown for each operation of
  the queue), and a claim raises the count, so what it hands out is held by
  nobody. `StampsAreInThePast` makes the enqueue time of a rewritten row new.

- *Ledger* (`LedgerInv`, in `LedgerProofs`). Each step of the pipeline leaves
  standings and outcomes as they are or changes those of one conversation the
  way one of `Accept`, `Settle` and `Confirm` does. `CloseScored` files its
  result under the identity in the document and not under that of the job, so
  the two have to be the same: `ScoresItsOwnConversation`. That the job it closes
  is on record needs `HeldIsKnown`, and that `SkipDuplicate` confirms a verdict
  needs `SkipHasResult`.
- *Contents* (`ContentInv`, `BlobInv`, in `ContentProofs`). `HashesAreOfTheKey`
  says that every hash under a conversation is that of one of its documents; with
  one document there is only one such hash. `StoredBeforeEnqueued` is what an
  ingester has done by the time it enqueues, and makes `BlobBeforeJob` inductive.
- *Results* (`StandingInv`, in `ContentProofs`). That a result is replaced by the
  same one, if by any of the same content, is more than equal hashes: the hash
  in a result is of a document that JSONB has written, that in its job is not.
  `OneResultPerContent` says that every stored document, every document a worker
  has read and the origin of every scored result are ones that JSONB leaves as
  they are (`Rendered`); of those, one content has one (`RenderedOnce`), and its
  verdict is a function of it. `WhatIsFiled` lists what else a worker files: a
  rejection for poison, or for a lost blob, which by `BlobBeforeJob` somebody
  deleted.
- *Migrations* (`MigrationsInv`, in `BringUpProofs`). `OnItsWay` says that a
  process stands at its script over recorded ones only, which gives order and
  completeness. That they do not make each other all fail needs `SomeoneInFront`:
  as long as nobody died, what is executed and not recorded is about to be
  recorded by somebody, and some process knows all that is recorded, so that
  nothing is in its way. When all have ended, it is one that returned.
- *Ingest* (`IngestInv`, in `IngestProofs`). `PassedAreAccounted` is the promise
  for the files before the position, while `CountsAddUp` keeps the counts equal to
  it. The repair needs `PassedAreWritten`: an undisturbed ingest has written the
  files it has passed but for those it has overwritten itself, which are not the
  last of their conversation. Repetition needs `StoredWasDelivered`, the only
  source of hashes; with one version of each, an enqueue writes a row once.
- *Claims* (`ClaimInv`, in `DrainProofs`). The commit of a claim is a claim of
  `Pipeline` if the rows it hands out are the oldest claimable ones but for some
  that others have locked. `LocksHold` makes them claimable and nobody else's.
  `SnapshotIsTrue` says that a row not yet looked at is as it was seen or has been
  claimed or closed since, and is no older than those in hand, which gives the
  order. `PassedOverIsLocked` says that a claimable row that was passed over is
  still locked by somebody. It stops being true when a worker dies with its
  locks, and after a death `Contended` lets a claim of `Pipeline` miss as much.
- *Exactly once* (`DrainInv`). While no lease has run out, whoever holds a job
  holds its claim (`HeldIsClaimed`), so no job is closed twice. While nobody has
  died, too, every claim is held (`ClaimedIsHeld`), what a drain that returned has
  left queued is in the hands of another (`QueuedIsLocked`), and there are as many
  closed jobs as were counted (`ClosedIsCounted`). When all have returned nothing
  is held and nothing locked, so nothing is queued or claimed.
- *`FakeQueue`* (`FakeInv`, in `FakeQueueProofs`). The fake takes the first
  claimable rows of the dict, `PgJobQueue` the oldest. If no claimable row has
  overtaken another, those before a row in the dict are those older than it, as
  many by key as by place (`AsManyBefore`); a claim of everything needs no order.
  `OldestFirst` and `HashIsOfTheKey` say that without new versions no row is
  ever requeued and so none overtakes another.

- *Scoring* (`RowIsTheAnswer`, in `ScoringProofs`). A row is what
  `score_conversation` answers, and the work is in what that computes for a list
  of any length. The loops are recursive functions on `0 .. n`: `Recursion` shows
  that such a function exists, and `InductionUpTo` that a set of positions which
  has 0 and with each its successor has all. Both come from `NatLessThanWellFounded`
  by way of the least counterexample, since the induction theorems of the library
  cannot be instantiated.
  - *Lists.* `AscendingLists` says what `Ascending` lists and in which order, and
    `OrderIsUnique` that nothing else does. So leaving out the unscored of the
    customer's turns gives the turns that carry a signal (`ScoredAreCarrying`), and
    those of a conversation played backwards are the same in the opposite order
    (`CarryingBackwards`).
  - *Batches.* After each batch, `results` holds the answers to all strings
    without a signal and to the others up to the end of that batch (`Answers`);
    `StartsCover` says that the last one reaches the end. With a size that is
    not positive there is no batch (`NoBatchFillsNoSlot`), and the assertion at
    the end fails exactly if there was something to score. So the scorer raises
    only for a size that does not do, or for a string that cannot be read
    (`ScoringRaisesWithoutBatches`), and a row that was written shows that its
    numbers were good enough for it (`NumbersSuffice`), lambda and divisor
    included. `ScoreByIndex` hands each score
    to its own turn as no turn is listed twice (`EachByItsPosition`), and
    `ReadByName` shows that the detour over indices of labels loses nothing, the
    label that is written included.
  - *Overall.* A sum is monotone and linear in its list (`SumIsMonotone`,
    `SumIsLinear`), so the mean lies between any bounds of its members; when the
    weights add up to zero, all are replaced by one.
  - *Trajectory.* The run is `n * n * (n - 1) * (n + 1) / 12` times the divisor, and
    so positive (`SpreadIsPositive`). The rise is linear in the signals: it is zero
    for equal ones, and changes its sign with their order. That it is positive when
    they rise is shown member by member: a new one adds, for each one before it, the
    product of the distances in place and in value (`RisingHasSlope`).

Only model-checked are liveness under fairness, which is beyond TLAPS
(`EveryJobCloses`, `DrainEnds`, `RetriedMigrateGetsThrough`, `MigratedIsServed`),
and `FixturesComeOutAsDocumented`, which is about the 27 samples and no others.

## 6. What is not modelled

- `claimed_by`, `last_error`, `ingested_at`, `scored_at`, `seen_at`: nothing reads
  them.
- The transaction isolation below that of `ClaimTransaction`: statements on one
  row are serialised by its lock, and each other transaction here writes rows of
  a single conversation. A claim that lasts longer than a tick, let alone than
  a lease.
- Equal or reordered values of `enqueued_at` by concurrent transactions.
- Collisions of SHA-256; the network and its tokenizer; floating-point rounding;
  Unicode classes and the case of labels.
- Negative values of `SB_CLAIM_BATCH`, `SB_LEASE_SECONDS`, `SB_MAX_DELIVERY` and
  `SB_TRAJECTORY_DIVISOR`; nothing checks them (`config.py:127-130`). Zero is
  covered by the proofs: `SB_MAX_DELIVERY=0` makes every job poison. Under
  `SB_CLAIM_BATCH=0` no job is ever claimed, and `run --once` returns with the queue
  full, so `DrainAssumption` excludes it and no property catches it.
  `EveryJobCloses` is checked with batches of two. `nan` and `inf`, which `float`
  accepts for lambda, the threshold and the divisor.
- The result and the status of a job as two steps: `close_job_with_result` writes
  them in one transaction (`resultstore.py:47`), which is one action here.
- `db.py`: a process uses one connection of its pool at a time. `warm_model.py`,
  the commands that only print, the scripts and the image: no state.

## 7. Status

All components with state are modelled, the claim as a transaction too, and so
are migrations and their deployment, configuration and samples. What could be
added is listed in section 6.
