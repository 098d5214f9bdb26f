-------------------------- MODULE ClaimTransaction --------------------------
(***************************************************************************)
(* PgJobQueue.claim as the transaction it is, under READ COMMITTED.  The   *)
(* statement sees the rows that are claimable when it begins, goes through *)
(* them oldest first, skips those that another transaction has locked, and *)
(* locks the others if they are still claimable by then; it commits when   *)
(* it has a batch or no rows are left.  Whoever has to write a locked row  *)
(* waits.  A process that dies in between loses its locks and changes      *)
(* nothing.                                                                *)
(*                                                                         *)
(* Bound: a claim takes less than a tick of the clock.                     *)
(***************************************************************************)
EXTENDS Pipeline

ASSUME NullIsNoSnapshot == \A S \in SUBSET Conversations : Null \notin [S -> Row]

VARIABLES
    snapshot,       \* the rows each claim has yet to look at, or Null
    locks           \* the rows each claim has locked

claimVars == <<snapshot, locks>>

ClaimInit ==
    /\ snapshot = [w \in Workers |-> Null]
    /\ locks = [w \in Workers |-> {}]

Claiming(w) == snapshot[w] # Null

LockedInClaims == UNION {locks[v] : v \in Workers}

BeginClaim(w) ==
    /\ pc[w] = "ready"
    /\ todo[w] = {}
    /\ ~Claiming(w)
    /\ snapshot' = [snapshot EXCEPT ![w] = [k \in Claimable |-> jobs[k]]]
    /\ UNCHANGED <<locks, vars>>

Scanned(w) ==
    \/ DOMAIN snapshot[w] = {}
    \/ Cardinality(locks[w]) = ClaimBatch

(* Mutant: a row that has been claimed since is not looked at again. *)
ClaimableWhenSeen(w, k) == TRUE

(* The row as it is now still meets the condition: it is queued, or        *)
(* nobody has claimed it since (a claim in between is too young).          *)
StillClaimable(w, k) ==
    \/ jobs[k].status = "queued"
    \/ /\ jobs[k].status = "claimed"
       /\ jobs[k].enqueued_at = snapshot[w][k].enqueued_at
       /\ jobs[k].delivery_count = snapshot[w][k].delivery_count

(* Mutant: a claim takes its rows without locking them. *)
ScanRowUnlocked(w) ==
    /\ Claiming(w)
    /\ ~Scanned(w)
    /\ \E k \in DOMAIN snapshot[w] :
        /\ \A j \in DOMAIN snapshot[w] :
                snapshot[w][k].enqueued_at <= snapshot[w][j].enqueued_at
        /\ snapshot' = [snapshot EXCEPT ![w] =
                            [j \in DOMAIN @ \ {k} |-> @[j]]]
        /\ locks' = [locks EXCEPT ![w] =
                        IF StillClaimable(w, k) THEN @ \cup {k} ELSE @]
    /\ UNCHANGED vars

ScanRow(w) ==
    /\ Claiming(w)
    /\ ~Scanned(w)
    /\ \E k \in DOMAIN snapshot[w] :
        /\ \A j \in DOMAIN snapshot[w] :
                snapshot[w][k].enqueued_at <= snapshot[w][j].enqueued_at
        /\ snapshot' = [snapshot EXCEPT ![w] =
                            [j \in DOMAIN @ \ {k} |-> @[j]]]
        /\ \/ /\ k \in LockedInClaims \cup WrittenByOthers(w) \cup LockedByIngest
              /\ UNCHANGED locks
           \/ /\ k \notin LockedInClaims
              /\ locks' = [locks EXCEPT ![w] =
                              IF StillClaimable(w, k) THEN @ \cup {k} ELSE @]
    /\ UNCHANGED vars

(* Mutant: the locks outlive the transaction. *)
EndClaimKeepsLocks(w) ==
    /\ snapshot' = [snapshot EXCEPT ![w] = Null]
    /\ UNCHANGED locks

EndClaim(w) ==
    /\ snapshot' = [snapshot EXCEPT ![w] = Null]
    /\ locks' = [locks EXCEPT ![w] = {}]

(* The rows in hand are updated and handed out, and the locks released;    *)
(* with no row in hand run returns or sleeps.                              *)
CommitClaim(w) ==
    /\ Claiming(w)
    /\ Scanned(w)
    /\ IF locks[w] = {}
       THEN /\ IF w \in OnceWorkers THEN Goto(w, "exited")
                                    ELSE UNCHANGED workerVars
            /\ UNCHANGED queueVars
       ELSE /\ Claim(locks[w])
            /\ todo' = [todo EXCEPT ![w] = Handout(locks[w])]
            /\ UNCHANGED <<pc, cur, raw, processed>>
    /\ EndClaim(w)
    /\ UNCHANGED <<storeVars, ingestVars, faults>>

(* process_one, whose writes wait for the locks of claims.                 *)
ProcessStep(w) ==
    /\ ~AtClaim(w)
    /\ pc[w] \in Writing => cur[w].key \notin LockedInClaims
    /\ WorkerStep(w, {})
    /\ UNCHANGED <<ingestVars, faults, claimVars>>

ClaimingWorkerRuns(w) ==
    \/ BeginClaim(w)
    \/ ScanRow(w)
    \/ CommitClaim(w)
    \/ ProcessStep(w)

(* The transaction of a dead process is rolled back.                       *)
ClaimingWorkerDies(w) ==
    /\ faults < MaxFaults
    /\ faults' = faults + 1
    /\ WorkerDies(w)
    /\ EndClaim(w)

ClaimsTakeTime ==
    /\ TimePasses
    /\ \A w \in Workers : ~Claiming(w)
    /\ UNCHANGED claimVars
=============================================================================
