------------------------------- MODULE Drain -------------------------------
(***************************************************************************)
(* `run --once` by several workers at a time over a queue that an ingest   *)
(* has filled, each claim the transaction it is.                           *)
(***************************************************************************)
EXTENDS ClaimTransaction

ASSUME DrainAssumption ==
    /\ Workers # {} /\ OnceWorkers = Workers
    /\ ClaimBatch # 0
    /\ IsFiniteSet(Conversations)
    /\ \A k \in Conversations : \E d \in Documents : KeyOf[d] = k

VARIABLE late       \* has any claim outlived its lease?

drainVars == <<vars, claimVars, late>>

DocumentOf(k) == CHOOSE d \in Documents : KeyOf[d] = k

(* The tables after an ingest of one document for each conversation, in    *)
(* some order of the files.                                                *)
DrainInit ==
    /\ \E order \in [Conversations -> 1 .. Cardinality(Conversations)] :
        /\ \A k, l \in Conversations : order[k] = order[l] => k = l
        /\ jobs = [k \in Conversations |->
                    [content_hash   |-> ContentHash(DocumentOf(k)),
                     status         |-> "queued",
                     claim_age      |-> 0,
                     delivery_count |-> 0,
                     enqueued_at    |-> order[k]]]
    /\ clock = Cardinality(Conversations)
    /\ blobs = [k \in Conversations |->
                    [content_hash |-> ContentHash(DocumentOf(k)),
                     raw          |-> Jsonb[DocumentOf(k)]]]
    /\ results = [k \in Conversations |-> Null]
    /\ WorkerInit
    /\ IngestInit
    /\ ClaimInit
    /\ faults = 0
    /\ late = FALSE

DrainNext ==
    /\ \/ \E w \in Workers : ClaimingWorkerRuns(w) \/ ClaimingWorkerDies(w)
       \/ ClaimsTakeTime
    /\ late' = (late \/ \E k \in Tracked : LeaseExpired(k)')

DrainSpec ==
    /\ DrainInit
    /\ [][DrainNext]_drainVars
    /\ \A w \in Workers : WF_drainVars(DrainNext /\ ClaimingWorkerRuns(w))

(* What the runs have counted: as many elements as the counts add up to.   *)
Counted == UNION {{w} \X (1 .. processed[w]) : w \in Workers}

(* When every --once run has returned, none too late for the lease of a    *)
(* job, the counts they return add up to the number of jobs: every job was *)
(* processed, none twice and none missed, however their claims overlap     *)
(* (tests/test_worker.py:309 tries it once with two threads).              *)
EveryJobExactlyOnce ==
    ~late /\ (\A w \in Workers : pc[w] = "exited") =>
        /\ Closed = Conversations
        /\ Cardinality(Conversations) = Cardinality(Counted)

(* All the --once runs return or die: nobody waits for a lock for ever,    *)
(* and jobs do not go round and round.                                     *)
DrainEnds == <>[](\A w \in Workers : pc[w] \in {"exited", "down"})

(* The claim of Pipeline, which is one step, is what the transaction       *)
(* amounts to: no step of two overlapping claims, or of one that dies half *)
(* way, does anything that is not a step of Pipeline or none at all.       *)
ClaimIsAtomic == [][Next]_vars

(***************************************************************************)
(* What makes these invariants inductive                                   *)
(***************************************************************************)
SomeoneDied == \E w \in Workers : pc[w] = "down"

(* Nobody ingests, and no two rows are of the same age.                    *)
QueueIsFilled ==
    /\ \A k \in Conversations : jobs[k] # Null
    /\ \A k, l \in Conversations :
            jobs[k].enqueued_at = jobs[l].enqueued_at => k = l
    /\ \A i \in Ingesters : istep[i] = "idle"

ClaimTypeOK ==
    /\ locks \in [Workers -> SUBSET Conversations]
    /\ snapshot = [w \in Workers |-> snapshot[w]]
    /\ \A w \in Workers :
        /\ IsFiniteSet(locks[w]) /\ Cardinality(locks[w]) <= ClaimBatch
        /\ Claiming(w) => /\ pc[w] = "ready" /\ todo[w] = {}
                          /\ DOMAIN snapshot[w] \subseteq Conversations
                          /\ \A k \in DOMAIN snapshot[w] : snapshot[w][k] \in Row
        /\ ~Claiming(w) => locks[w] = {}

(* A row that is locked can still be claimed, and by nobody else.          *)
LocksHold ==
    /\ \A w \in Workers : locks[w] \subseteq Claimable
    /\ \A v, w \in Workers : v # w => locks[v] \cap locks[w] = {}

(* A row a claim has yet to look at is as it was when the claim began, or  *)
(* has been claimed or closed since; it is no older than those in hand.    *)
Overtaken(row, before) ==
    row.status \in {"done", "dead"} \/ row.delivery_count > before.delivery_count

SnapshotIsTrue ==
    \A w \in Workers : Claiming(w) =>
        \A k \in DOMAIN snapshot[w] :
            /\ k \notin locks[w]
            /\ snapshot[w][k].enqueued_at = jobs[k].enqueued_at
            /\ IF k \in Claimable THEN snapshot[w][k] = jobs[k]
                                 ELSE Overtaken(jobs[k], snapshot[w][k])
            /\ \A l \in locks[w] : jobs[l].enqueued_at <= jobs[k].enqueued_at

(* A row that a claim has passed over is locked by somebody else, unless   *)
(* whoever had it locked has died.                                         *)
PassedOverIsLocked ==
    \A w \in Workers : Claiming(w) /\ ~SomeoneDied =>
        Claimable \ (DOMAIN snapshot[w] \cup locks[w])
            \subseteq LockedInClaims \cup WrittenByOthers(w)

ClaimInv ==
    LedgerInv /\ QueueIsFilled /\ ClaimTypeOK /\ LocksHold /\ SnapshotIsTrue
              /\ PassedOverIsLocked

(* As long as no lease runs out, whoever holds a job holds the claim.      *)
HeldIsClaimed ==
    \A w \in Workers :
        /\ cur[w] \notin todo[w]
        /\ \A job \in Held(w) :
            /\ jobs[job.key].status = "claimed"
            /\ job = [key            |-> job.key,
                      content_hash   |-> jobs[job.key].content_hash,
                      delivery_count |-> jobs[job.key].delivery_count,
                      enqueued_at    |-> jobs[job.key].enqueued_at]

(* And as long as nobody dies, every claim is held, what one run found     *)
(* nothing left of is in the hands of another, and what is closed has been *)
(* counted.                                                                *)
ClaimedIsHeld ==
    \A k \in Conversations : jobs[k].status = "claimed" =>
        \E w \in Workers : \E job \in Held(w) : job.key = k

QueuedIsLocked ==
    (\E w \in Workers : pc[w] = "exited") =>
        \A k \in Conversations : jobs[k].status = "queued" => k \in LockedInClaims

ClosedIsCounted ==
    IsFiniteSet(Counted) /\ Cardinality(Counted) = Cardinality(Closed)

DrainInv ==
    /\ ClaimInv
    /\ ~late => /\ \A k \in Conversations : ~LeaseExpired(k)
                /\ HeldIsClaimed
                /\ ~SomeoneDied => /\ ClaimedIsHeld
                                   /\ QueuedIsLocked
                                   /\ ClosedIsCounted
=============================================================================
