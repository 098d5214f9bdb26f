------------------------------ MODULE JobQueue ------------------------------
(***************************************************************************)
(* The jobs table and PgJobQueue (queue.py): at most one row per           *)
(* conversation, enqueued or requeued by ingest, claimed in batches by     *)
(* workers, closed by whoever finishes it.  Every operation is one         *)
(* transaction, hence one step.                                            *)
(*                                                                         *)
(* claimed_at is modelled by its age, kept only while the row is claimed   *)
(* (no code reads it otherwise) and only up to the end of the lease, and   *)
(* enqueued_at by the number of the enqueue that wrote it: the code only   *)
(* orders rows by it.  claimed_by and last_error are left out, no code     *)
(* reads them.                                                             *)
(***************************************************************************)
EXTENDS Contents, Naturals, FiniteSets

CONSTANTS
    ClaimBatch,     \* cfg.claim_batch
    LeaseSeconds    \* cfg.lease_seconds, in ticks of the clock

ASSUME QueueAssumption ==
    /\ ClaimBatch \in Nat
    /\ LeaseSeconds \in Nat

VARIABLES
    jobs,           \* the jobs table: a row or Null for each conversation
    clock           \* the number of rows written by enqueue so far

queueVars == <<jobs, clock>>

Statuses == {"queued", "claimed", "done", "dead"}

Row == [content_hash   : Hashes,
        status         : Statuses,
        claim_age      : 0 .. LeaseSeconds + 1,
        delivery_count : Nat,
        enqueued_at    : Nat]

(* What claim hands to a worker.  enqueued_at is not in the code's         *)
(* ClaimedJob and no action reads it; it tells the properties which        *)
(* version of the row a delivery belongs to.                               *)
ClaimedJob == [key            : Conversations,
               content_hash   : Hashes,
               delivery_count : Nat,
               enqueued_at    : Nat]

ASSUME NullIsNoRow == Null \notin Row

QueueTypeOK ==
    /\ jobs \in [Conversations -> Row \cup {Null}]
    /\ clock \in Nat

QueueInit ==
    /\ jobs = [k \in Conversations |-> Null]
    /\ clock = 0

Tracked == {k \in Conversations : jobs[k] # Null}

Open == {k \in Tracked : jobs[k].status \in {"queued", "claimed"}}

Closed == {k \in Tracked : jobs[k].status \in {"done", "dead"}}

(***************************************************************************)
(* enqueue: insert the row, or reset it when the content changed.  It      *)
(* returns whether it wrote.                                               *)
(***************************************************************************)
(* Mutant: changed content is no news. *)
IsNewsIfAbsent(k, hash) == jobs[k] = Null

(* Mutant: everything is news. *)
IsNewsAlways(k, hash) == TRUE

IsNews(k, hash) == jobs[k] = Null \/ jobs[k].content_hash # hash

Enqueue(k, hash) ==
    IF IsNews(k, hash)
    THEN /\ jobs' = [jobs EXCEPT ![k] =
                        [content_hash   |-> hash,
                         status         |-> "queued",
                         claim_age      |-> 0,
                         delivery_count |-> 0,
                         enqueued_at    |-> clock + 1]]
         /\ clock' = clock + 1
    ELSE UNCHANGED queueVars

(***************************************************************************)
(* claim: the oldest claimable rows that no other transaction has locked.  *)
(***************************************************************************)
LeaseExpired(k) == jobs[k].claim_age > LeaseSeconds

(* Mutant: a claimed row stays claimed for ever. *)
ClaimableQueued == {k \in Open : jobs[k].status = "queued"}

Claimable ==
    {k \in Open : jobs[k].status = "claimed" => LeaseExpired(k)}

Oldest(S, n) ==
    {k \in S :
        Cardinality({j \in S : jobs[j].enqueued_at < jobs[k].enqueued_at}) < n}

Batch(locked) == Oldest(Claimable \ locked, ClaimBatch)

(* Mutant: deliveries are not counted. *)
ClaimUncounted(S) ==
    /\ jobs' = [k \in Conversations |->
                    IF k \in S
                    THEN [jobs[k] EXCEPT !.status = "claimed", !.claim_age = 0]
                    ELSE jobs[k]]
    /\ UNCHANGED clock

Claim(S) ==
    /\ jobs' = [k \in Conversations |->
                    IF k \in S
                    THEN [jobs[k] EXCEPT !.status = "claimed",
                                         !.claim_age = 0,
                                         !.delivery_count = @ + 1]
                    ELSE jobs[k]]
    /\ UNCHANGED clock

(* RETURNING reads the rows the statement has just written.                *)
Handout(S) ==
    {[key            |-> k,
      content_hash   |-> jobs'[k].content_hash,
      delivery_count |-> jobs'[k].delivery_count,
      enqueued_at    |-> jobs'[k].enqueued_at] : k \in S}

(***************************************************************************)
(* The two updates that close a job.  Both find the row by its key alone.  *)
(***************************************************************************)
SetStatus(k, status) ==
    /\ jobs' = [jobs EXCEPT ![k] =
                    IF @ = Null
                    THEN Null
                    ELSE [@ EXCEPT !.status = status, !.claim_age = 0]]
    /\ UNCHANGED clock

MarkDone(k) == SetStatus(k, "done")

(* Time passes: every claim gets older.                                    *)
Tick ==
    /\ \E k \in Tracked : jobs[k].status = "claimed" /\ ~LeaseExpired(k)
    /\ jobs' = [k \in Conversations |->
                    IF k \in Tracked /\ jobs[k].status = "claimed"
                                     /\ ~LeaseExpired(k)
                    THEN [jobs[k] EXCEPT !.claim_age = @ + 1]
                    ELSE jobs[k]]
    /\ UNCHANGED clock

(***************************************************************************)
(* The queue on its own, for whatever implements the Queue protocol: any   *)
(* caller may call any operation, and no row is locked.                    *)
(***************************************************************************)
QueueNext ==
    \/ \E d \in Documents : Enqueue(KeyOf[d], ContentHash(d))
    \/ Claim(Batch({}))
    \/ \E k \in Conversations : MarkDone(k)
    \/ Tick

QueueSpec == QueueInit /\ [][QueueNext]_queueVars
=============================================================================
