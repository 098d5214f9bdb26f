------------------------------- MODULE Worker -------------------------------
(***************************************************************************)
(* The worker loop (worker.py): claim a batch, then for each job decide    *)
(* whether it is poison, a duplicate, missing its blob or to be scored,    *)
(* and close it.  process_one talks to the database in up to three         *)
(* transactions per job; each of them is one step here, so that everything *)
(* another process may do between two of them is possible.                 *)
(*                                                                         *)
(* A worker is a container that Docker restarts when it dies, or one run   *)
(* of `run --once`, which returns when a claim comes back empty.           *)
(***************************************************************************)
EXTENDS JobQueue, Stores

CONSTANTS
    Workers,        \* the worker processes
    OnceWorkers,    \* those started with --once
    MaxDelivery,    \* cfg.max_delivery
    Verdict,        \* what score_conversation makes of a document
    Lethal          \* the documents scoring kills the process on

ASSUME WorkerAssumption ==
    /\ OnceWorkers \subseteq Workers
    /\ MaxDelivery \in Nat
    /\ Verdict \in [Documents -> Verdicts]
    /\ Lethal \subseteq Documents
    /\ Null \notin ClaimedJob

VARIABLES
    pc,             \* where each worker is in run and process_one
    todo,           \* jobs claimed and not begun; RETURNING gives no order
    cur,            \* the job process_one is called with
    raw,            \* the document get_blob returned
    processed       \* what a --once run has counted so far

workerVars == <<pc, todo, cur, raw, processed>>

(* ready   at the claim, or about to take the next job of the batch        *)
(* poison  delivery_count > max_delivery, about to close                   *)
(* lookup  about to call get_result            skip   about to mark_done   *)
(* fetch   about to call get_blob              missing  about to close     *)
(* score   scoring, then about to close                                    *)
(* down    the process died                    exited   run returned       *)
Steps == {"ready", "poison", "lookup", "skip", "fetch", "missing", "score",
          "down", "exited"}

Working == Steps \ {"ready", "down", "exited"}

(* The steps that end in a write of the jobs row.                          *)
Writing == {"poison", "skip", "missing", "score"}

WorkerTypeOK ==
    /\ pc \in [Workers -> Steps]
    /\ todo \in [Workers -> SUBSET ClaimedJob]
    /\ cur \in [Workers -> ClaimedJob \cup {Null}]
    /\ raw \in [Workers -> Documents \cup {Null}]
    /\ processed \in [Workers -> Nat]
    /\ \A w \in Workers :
        /\ pc[w] \in Working <=> cur[w] # Null
        /\ pc[w] = "score" <=> raw[w] # Null
        /\ pc[w] \in {"down", "exited"} => todo[w] = {}

WorkerInit ==
    /\ pc = [w \in Workers |-> "ready"]
    /\ todo = [w \in Workers |-> {}]
    /\ cur = [w \in Workers |-> Null]
    /\ raw = [w \in Workers |-> Null]
    /\ processed = [w \in Workers |-> 0]

(* Every delivery a live worker still holds.                               *)
Held(w) == todo[w] \cup ({cur[w]} \ {Null})

(* Rows that other workers are at the point of writing.                    *)
WrittenByOthers(w) ==
    {cur[v].key : v \in {u \in Workers \ {w} : pc[u] \in Writing}}

(* At the claim, or dead and perhaps in the middle of one.                 *)
AtClaim(w) == pc[w] \in {"ready", "down"} /\ todo[w] = {}

(* Rows other workers may have locked while w claims: those they write,    *)
(* and those they are claiming, whether or not they live to commit.        *)
LockedByOthers(w) ==
    WrittenByOthers(w)
        \cup {k \in Claimable : \E v \in Workers \ {w} : AtClaim(v)}

Goto(w, step) ==
    /\ pc' = [pc EXCEPT ![w] = step]
    /\ UNCHANGED <<todo, cur, raw, processed>>

(***************************************************************************)
(* run: claim; with nothing claimed return, or sleep and claim again.      *)
(***************************************************************************)
ClaimJobs(w, locked) ==
    /\ pc[w] = "ready"
    /\ todo[w] = {}
    /\ Batch(locked) # {}
    /\ Claim(Batch(locked))
    /\ todo' = [todo EXCEPT ![w] = Handout(Batch(locked))]
    /\ UNCHANGED <<pc, cur, raw, processed, storeVars>>

ClaimNothing(w, locked) ==
    /\ pc[w] = "ready"
    /\ todo[w] = {}
    /\ Batch(locked) = {}
    /\ IF w \in OnceWorkers THEN Goto(w, "exited") ELSE UNCHANGED workerVars
    /\ UNCHANGED <<queueVars, storeVars>>

(***************************************************************************)
(* process_one                                                             *)
(***************************************************************************)
Begin(w) ==
    /\ pc[w] = "ready"
    /\ \E job \in todo[w] :
        /\ todo' = [todo EXCEPT ![w] = @ \ {job}]
        /\ cur' = [cur EXCEPT ![w] = job]
        /\ pc' = [pc EXCEPT ![w] =
                    IF job.delivery_count > MaxDelivery THEN "poison"
                                                        ELSE "lookup"]
    /\ UNCHANGED <<raw, processed, queueVars, storeVars>>

(* Back in run: processed += 1, then the next job.                         *)
Return(w) ==
    /\ pc' = [pc EXCEPT ![w] = "ready"]
    /\ cur' = [cur EXCEPT ![w] = Null]
    /\ raw' = [raw EXCEPT ![w] = Null]
    /\ processed' = [processed EXCEPT ![w] = IF w \in OnceWorkers THEN @ + 1
                                                                   ELSE @]
    /\ UNCHANGED todo

(* Mutant: the job is closed and its result not written. *)
CloseJobOnly(k, row, status) ==
    /\ SetStatus(k, status)
    /\ UNCHANGED storeVars

(* close_job_with_result: the result and the job's status in one commit.   *)
CloseJobWithResult(k, row, status) ==
    /\ UpsertResult(k, row)
    /\ SetStatus(k, status)

ClosePoison(w) ==
    /\ pc[w] = "poison"
    /\ CloseJobWithResult(
            cur[w].key,
            RejectedRow(cur[w].content_hash, "max_delivery_exceeded"),
            "dead")
    /\ Return(w)

(* Mutant: the answer of get_result is taken the wrong way round. *)
LookupInverted(w) ==
    /\ pc[w] = "lookup"
    /\ Goto(w, IF HasResultFor(cur[w].key, cur[w].content_hash)
               THEN "fetch" ELSE "skip")
    /\ UNCHANGED <<queueVars, storeVars>>

Lookup(w) ==
    /\ pc[w] = "lookup"
    /\ Goto(w, IF HasResultFor(cur[w].key, cur[w].content_hash)
               THEN "skip" ELSE "fetch")
    /\ UNCHANGED <<queueVars, storeVars>>

SkipDuplicate(w) ==
    /\ pc[w] = "skip"
    /\ MarkDone(cur[w].key)
    /\ Return(w)
    /\ UNCHANGED storeVars

Fetch(w) ==
    /\ pc[w] = "fetch"
    /\ IF blobs[cur[w].key] = Null
       THEN Goto(w, "missing")
       ELSE /\ pc' = [pc EXCEPT ![w] = "score"]
            /\ raw' = [raw EXCEPT ![w] = blobs[cur[w].key].raw]
            /\ UNCHANGED <<todo, cur, processed>>
    /\ UNCHANGED <<queueVars, storeVars>>

CloseMissing(w) ==
    /\ pc[w] = "missing"
    /\ CloseJobWithResult(
            cur[w].key,
            RejectedRow(cur[w].content_hash, "blob_missing"),
            "dead")
    /\ Return(w)

(* score_conversation: the row carries the identity and the hash of the    *)
(* document that was read, not those of the job.                           *)
ScoredRow(d) ==
    [content_hash |-> ContentHash(d),
     status       |-> Verdict[d],
     error        |-> IF Verdict[d] = "rejected" THEN "content" ELSE "none"]

(* Mutant: every scored job is done, the rejected ones too. *)
JobStatusDone(row) == "done"

(* Mutant: only scored is done, partial and rejected are dead. *)
JobStatusDeadUnlessScored(row) == IF row.status = "scored" THEN "done" ELSE "dead"

JobStatusFor(row) == IF row.status = "rejected" THEN "dead" ELSE "done"

(* Mutant: the result is filed under the hash of the job. *)
CloseScoredAsClaimed(w) ==
    /\ pc[w] = "score"
    /\ raw[w] \notin Lethal
    /\ CloseJobWithResult(
            KeyOf[raw[w]],
            [ScoredRow(raw[w]) EXCEPT !.content_hash = cur[w].content_hash],
            JobStatusFor(ScoredRow(raw[w])))
    /\ Return(w)

CloseScored(w) ==
    /\ pc[w] = "score"
    /\ raw[w] \notin Lethal
    /\ CloseJobWithResult(KeyOf[raw[w]], ScoredRow(raw[w]),
                          JobStatusFor(ScoredRow(raw[w])))
    /\ Return(w)

(***************************************************************************)
(* The process dies: scoring brings it down, or something else does.  All  *)
(* it had in memory is lost, and what it had claimed stays claimed.  A     *)
(* transaction it had open is rolled back, which leaves no trace.          *)
(***************************************************************************)
Die(w) ==
    /\ pc' = [pc EXCEPT ![w] = "down"]
    /\ todo' = [todo EXCEPT ![w] = {}]
    /\ cur' = [cur EXCEPT ![w] = Null]
    /\ raw' = [raw EXCEPT ![w] = Null]
    /\ processed' = [processed EXCEPT ![w] = 0]
    /\ UNCHANGED <<queueVars, storeVars>>

ScoringKills(w) ==
    /\ pc[w] = "score"
    /\ raw[w] \in Lethal
    /\ Die(w)

Kill(w) ==
    /\ pc[w] \notin {"down", "exited"}
    /\ Die(w)

(* restart: unless-stopped.  A --once run is not restarted.                *)
Restart(w) ==
    /\ pc[w] = "down"
    /\ w \notin OnceWorkers
    /\ Goto(w, "ready")
    /\ UNCHANGED <<queueVars, storeVars>>

(* One step of run, taken by the process itself.                           *)
WorkerStep(w, locked) ==
    \/ ClaimJobs(w, locked)
    \/ ClaimNothing(w, locked)
    \/ Begin(w)
    \/ ClosePoison(w)
    \/ Lookup(w)
    \/ SkipDuplicate(w)
    \/ Fetch(w)
    \/ CloseMissing(w)
    \/ CloseScored(w)
    \/ ScoringKills(w)
=============================================================================
