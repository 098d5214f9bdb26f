----------------------------- MODULE DrainProofs -----------------------------
(***************************************************************************)
(* Proofs that claims which go through the table row by row and overlap    *)
(* are the one-step claims of Pipeline, and that concurrent --once runs    *)
(* process every job exactly once, for any number of workers and jobs.     *)
(***************************************************************************)
EXTENDS Drain, LedgerProofs, FiniteSetTheorems

(***************************************************************************)
(* The rows a claim may take                                               *)
(***************************************************************************)
Free(row) ==
    \/ row.status = "queued"
    \/ row.status = "claimed" /\ row.claim_age > LeaseSeconds

LEMMA ClaimableIsFree ==
    ASSUME QueueIsFilled
    PROVE  /\ Tracked = Conversations
           /\ Claimable = {k \in Conversations : Free(jobs[k])}
BY DEF QueueIsFilled, Claimable, Open, Tracked, LeaseExpired, Free

LEMMA FilledRows ==
    ASSUME QueueTypeOK, QueueIsFilled, NEW k \in Conversations
    PROVE  jobs[k] \in Row
BY DEF QueueTypeOK, QueueIsFilled

(***************************************************************************)
(* A claim is one step                                                     *)
(***************************************************************************)

(* Fewer than n rows are older than each of n.                             *)
LEMMA OlderAreFew ==
    ASSUME NEW S, IsFiniteSet(S), NEW k \in S, NEW T \in SUBSET S, k \notin T
    PROVE  Cardinality(T) < Cardinality(S)
<1>1. IsFiniteSet(S \ {k}) /\ Cardinality(S \ {k}) = Cardinality(S) - 1
  BY FS_RemoveElement
<1>2. T \subseteq S \ {k}
  OBVIOUS
<1>3. IsFiniteSet(T) /\ Cardinality(T) <= Cardinality(S \ {k})
  BY <1>1, <1>2, FS_Subset
<1>4. Cardinality(S) \in Nat /\ Cardinality(T) \in Nat
  BY <1>3, FS_CardinalityType
<1>5. QED
  BY <1>1, <1>3, <1>4

(* What a claim has passed over may be locked by somebody else.            *)
LEMMA PassedOverIsContended ==
    ASSUME ClaimInv, NEW w \in Workers, Claiming(w)
    PROVE  Claimable \ (DOMAIN snapshot[w] \cup locks[w]) \subseteq Contended(w)
<1>1. pc[w] = "ready"
  BY DEF ClaimInv, ClaimTypeOK
<1>2. ASSUME NEW v \in Workers, v # w, AtClaim(v)
      PROVE  Claimable \subseteq Contended(w)
  BY <1>2 DEF Contended, LockedByOthers
<1>3. CASE SomeoneDied
  <2>1. PICK v \in Workers : pc[v] = "down"
    BY <1>3 DEF SomeoneDied
  <2>2. v # w /\ AtClaim(v)
    BY <1>1, <2>1 DEF AtClaim, ClaimInv, LedgerInv, OutcomeInv, TypeOK, WorkerTypeOK
  <2>3. QED
    BY <1>2, <2>2
<1>4. CASE ~SomeoneDied
  <2> SUFFICES ASSUME NEW k \in Claimable, k \notin DOMAIN snapshot[w], k \notin locks[w]
               PROVE  k \in Contended(w)
    OBVIOUS
  <2>1. k \in LockedInClaims \/ k \in WrittenByOthers(w)
    BY <1>4 DEF ClaimInv, PassedOverIsLocked
  <2>2. CASE k \in LockedInClaims
    <3>1. PICK v \in Workers : k \in locks[v]
      BY <2>2 DEF LockedInClaims
    <3>2. v # w /\ AtClaim(v)
      BY <3>1 DEF ClaimInv, ClaimTypeOK, AtClaim
    <3>3. QED
      BY <1>2, <3>2
  <2>3. CASE k \in WrittenByOthers(w)
    BY <2>3 DEF Contended, LockedByOthers
  <2>4. QED
    BY <2>1, <2>2, <2>3
<1>5. QED
  BY <1>3, <1>4

(* A claim that is through has the batch it would have got at once, with   *)
(* what it has passed over locked.                                         *)
LEMMA LocksAreTheBatch ==
    ASSUME ClaimInv, NEW w \in Workers, Claiming(w), Scanned(w)
    PROVE  \E locked \in SUBSET Contended(w) : Batch(locked) = locks[w]
<1> DEFINE locked == Claimable \ (DOMAIN snapshot[w] \cup locks[w])
           S == Claimable \ locked
           Older(k) == {j \in S : jobs[j].enqueued_at < jobs[k].enqueued_at}
<1>1. locked \subseteq Contended(w)
  BY PassedOverIsContended
<1>2. /\ locks[w] \subseteq Claimable
      /\ IsFiniteSet(locks[w]) /\ Cardinality(locks[w]) <= ClaimBatch
      /\ Cardinality(locks[w]) \in Nat
  BY FS_CardinalityType DEF ClaimInv, LocksHold, ClaimTypeOK
<1>3. S = locks[w] \cup (Claimable \cap DOMAIN snapshot[w])
  BY <1>2
<1>4. S \subseteq Conversations /\ IsFiniteSet(S)
  BY DrainAssumption, FS_Subset DEF Claimable, Open, Tracked
<1>5. \A k \in Conversations : jobs[k].enqueued_at \in Nat
  BY FilledRows DEF ClaimInv, LedgerInv, OutcomeInv, TypeOK, Row
<1>6. ASSUME NEW k \in locks[w], NEW j \in DOMAIN snapshot[w]
      PROVE  /\ jobs[k].enqueued_at <= jobs[j].enqueued_at
             /\ k # j
  BY DEF ClaimInv, SnapshotIsTrue
<1>7. ASSUME NEW k \in locks[w]
      PROVE  Cardinality(Older(k)) < ClaimBatch
  <2>1. Older(k) \subseteq locks[w] /\ k \notin Older(k)
    BY <1>3, <1>4, <1>5, <1>6
  <2>2. Cardinality(Older(k)) < Cardinality(locks[w])
    BY <1>2, <2>1, OlderAreFew
  <2>3. Cardinality(Older(k)) \in Nat
    BY <1>2, <2>1, FS_Subset, FS_CardinalityType
  <2>4. QED
    BY <1>2, <2>2, <2>3, QueueAssumption
<1>8. ASSUME NEW k \in S \ locks[w]
      PROVE  ~(Cardinality(Older(k)) < ClaimBatch)
  <2>1. k \in DOMAIN snapshot[w] /\ k \in Conversations
    BY <1>3, <1>4
  <2>2. Cardinality(locks[w]) = ClaimBatch
    BY <2>1 DEF Scanned
  <2>3. locks[w] \subseteq Older(k)
    <3>1. ASSUME NEW l \in locks[w]
          PROVE  l \in S /\ jobs[l].enqueued_at < jobs[k].enqueued_at
      <4>1. l \in S /\ l \in Conversations
        BY <1>3, <1>4
      <4>2. jobs[l].enqueued_at <= jobs[k].enqueued_at /\ l # k
        BY <1>6, <2>1
      <4>3. jobs[l].enqueued_at # jobs[k].enqueued_at
        BY <2>1, <4>1, <4>2 DEF ClaimInv, QueueIsFilled
      <4>4. QED
        BY <1>5, <2>1, <4>1, <4>2, <4>3
    <3>2. QED
      BY <3>1
  <2>4. IsFiniteSet(Older(k)) /\ Cardinality(locks[w]) <= Cardinality(Older(k))
    BY <1>4, <2>3, FS_Subset
  <2>5. Cardinality(Older(k)) \in Nat
    BY <2>4, FS_CardinalityType
  <2>6. QED
    BY <2>2, <2>4, <2>5, QueueAssumption
<1>9. Oldest(S, ClaimBatch) = locks[w]
  BY <1>3, <1>7, <1>8 DEF Oldest
<1>10. QED
  BY <1>1, <1>9 DEF Batch

LEMMA CommitIsAClaim ==
    ASSUME ClaimInv, NEW w \in Workers, CommitClaim(w)
    PROVE  WorkerRuns(w)
<1>1. PICK locked \in SUBSET Contended(w) : Batch(locked) = locks[w]
  BY LocksAreTheBatch DEF CommitClaim
<1>2. pc[w] = "ready" /\ todo[w] = {}
  BY DEF ClaimInv, ClaimTypeOK, CommitClaim
<1>3. CASE locks[w] = {}
  <2>1. ClaimNothing(w, locked)
    BY <1>1, <1>2, <1>3 DEF CommitClaim, ClaimNothing, queueVars, storeVars
  <2>2. QED
    BY <2>1 DEF WorkerRuns, WorkerStep, CommitClaim
<1>4. CASE locks[w] # {}
  <2>1. ClaimJobs(w, locked)
    BY <1>1, <1>2, <1>4 DEF CommitClaim, ClaimJobs
  <2>2. QED
    BY <2>1 DEF WorkerRuns, WorkerStep, CommitClaim
<1>5. QED
  BY <1>3, <1>4

LEMMA DrainStepIsNext ==
    ASSUME ClaimInv, DrainNext
    PROVE  [Next]_vars
<1>1. ASSUME NEW w \in Workers, BeginClaim(w) \/ ScanRow(w)
      PROVE  UNCHANGED vars
  BY <1>1 DEF BeginClaim, ScanRow
<1>2. ASSUME NEW w \in Workers, CommitClaim(w)
      PROVE  Next
  BY <1>2, CommitIsAClaim DEF Next
<1>3. ASSUME NEW w \in Workers, ProcessStep(w)
      PROVE  Next
  <2>1. {} \in SUBSET Contended(w)
    OBVIOUS
  <2>2. WorkerRuns(w)
    BY <1>3, <2>1 DEF ProcessStep, WorkerRuns
  <2>3. QED
    BY <2>2 DEF Next
<1>4. ASSUME NEW w \in Workers, ClaimingWorkerDies(w)
      PROVE  Next
  BY <1>4 DEF ClaimingWorkerDies, Fault, Next
<1>5. ASSUME ClaimsTakeTime
      PROVE  Next
  BY <1>5 DEF ClaimsTakeTime, Next
<1>6. QED
  BY <1>1, <1>2, <1>3, <1>4, <1>5 DEF DrainNext, ClaimingWorkerRuns

(***************************************************************************)
(* What a step does to the rows                                            *)
(***************************************************************************)

(* The rows of S are claimed or closed, the others are as they were.       *)
TakesRows(S) ==
    \A k \in Conversations :
        /\ jobs'[k] # Null
        /\ jobs'[k].enqueued_at = jobs[k].enqueued_at
        /\ IF k \in S
           THEN \/ jobs'[k].status \in {"done", "dead"}
                \/ /\ k \in Claimable
                   /\ jobs'[k].status = "claimed"
                   /\ ~Free(jobs'[k])
                   /\ jobs'[k].delivery_count = jobs[k].delivery_count + 1
           ELSE jobs'[k] = jobs[k]

LEMMA ClaimTakesRows ==
    ASSUME QueueTypeOK, QueueIsFilled, NEW S \in SUBSET Claimable, Claim(S)
    PROVE  TakesRows(S)
<1>1. ASSUME NEW k \in S
      PROVE  /\ jobs'[k] = [jobs[k] EXCEPT !.status = "claimed", !.claim_age = 0,
                                           !.delivery_count = @ + 1]
             /\ jobs'[k] \in Row /\ jobs[k] \in Row /\ k \in Conversations
  <2>1. k \in Conversations /\ jobs[k] \in Row
    BY ClaimableIsFree, FilledRows
  <2>2. QED
    BY <2>1, ClaimedRow DEF Claim
<1>2. ASSUME NEW k \in S
      PROVE  /\ jobs'[k].enqueued_at = jobs[k].enqueued_at
             /\ jobs'[k].status = "claimed"
             /\ jobs'[k].claim_age = 0
             /\ jobs'[k].delivery_count = jobs[k].delivery_count + 1
  <2> DEFINE row == jobs[k]
             next == jobs'[k]
  <2>1. /\ next = [row EXCEPT !.status = "claimed", !.claim_age = 0, !.delivery_count = @ + 1]
        /\ row \in Row
    BY <1>1
  <2> HIDE DEF row, next
  <2>2. /\ next.enqueued_at = row.enqueued_at /\ next.status = "claimed"
        /\ next.claim_age = 0 /\ next.delivery_count = row.delivery_count + 1
    BY <2>1 DEF Row
  <2>3. QED
    BY <2>2 DEF row, next
<1>3. ~(0 > LeaseSeconds)
  BY QueueAssumption
<1>4. ASSUME NEW k \in Conversations, k \notin S
      PROVE  jobs'[k] = jobs[k] /\ jobs[k] # Null
  BY <1>4 DEF Claim, QueueIsFilled
<1>5. QED
  BY <1>1, <1>2, <1>3, <1>4, NullIsNoRow DEF TakesRows, Free

LEMMA CloseTakesRow ==
    ASSUME QueueTypeOK, QueueIsFilled, NEW k \in Conversations,
           NEW s \in {"done", "dead"}, SetStatus(k, s)
    PROVE  TakesRows({k}) /\ jobs'[k].status = s
<1>1. jobs[k] \in Row /\ jobs[k] # Null
  BY FilledRows DEF QueueIsFilled
<1>2. jobs'[k] = [jobs[k] EXCEPT !.status = s, !.claim_age = 0]
  BY <1>1 DEF SetStatus, QueueTypeOK
<1>3. jobs'[k] \in Row
  BY <1>1, <1>2, ClosedRow DEF Statuses
<1>4. jobs'[k].enqueued_at = jobs[k].enqueued_at /\ jobs'[k].status = s
  BY <1>1, <1>2 DEF Row
<1>5. \A l \in Conversations \ {k} : jobs'[l] = jobs[l] /\ jobs[l] # Null
  BY DEF SetStatus, QueueTypeOK, QueueIsFilled
<1>6. QED
  BY <1>3, <1>4, <1>5, NullIsNoRow DEF TakesRows

LEMMA TakenRows ==
    ASSUME QueueIsFilled, NEW S, TakesRows(S), UNCHANGED istep
    PROVE  /\ QueueIsFilled'
           /\ Claimable' = Claimable \ S
<1>1. QueueIsFilled'
  BY DEF QueueIsFilled, TakesRows
<1>2. Claimable = {k \in Conversations : Free(jobs[k])}
  BY ClaimableIsFree
<1>3. Claimable' = {k \in Conversations : Free(jobs'[k])}
  BY <1>1 DEF QueueIsFilled, Claimable, Open, Tracked, LeaseExpired, Free
<1>4. QED
  BY <1>1, <1>2, <1>3 DEF TakesRows, Free

(***************************************************************************)
(* Claims that overlap                                                     *)
(***************************************************************************)

(* What ClaimInv says of the claim of one worker.                          *)
OwnClaim(w) ==
    /\ IsFiniteSet(locks[w]) /\ Cardinality(locks[w]) <= ClaimBatch
    /\ locks[w] \subseteq Claimable
    /\ Claiming(w) =>
        /\ pc[w] = "ready" /\ todo[w] = {}
        /\ DOMAIN snapshot[w] \subseteq Conversations
        /\ \A k \in DOMAIN snapshot[w] :
            /\ snapshot[w][k] \in Row
            /\ k \notin locks[w]
            /\ snapshot[w][k].enqueued_at = jobs[k].enqueued_at
            /\ IF k \in Claimable THEN snapshot[w][k] = jobs[k]
                                 ELSE Overtaken(jobs[k], snapshot[w][k])
            /\ \A l \in locks[w] : jobs[l].enqueued_at <= jobs[k].enqueued_at
        /\ ~SomeoneDied =>
            Claimable \ (DOMAIN snapshot[w] \cup locks[w])
                \subseteq LockedInClaims \cup WrittenByOthers(w)
    /\ ~Claiming(w) => locks[w] = {}

Claims ==
    /\ locks \in [Workers -> SUBSET Conversations]
    /\ snapshot = [w \in Workers |-> snapshot[w]]
    /\ \A v, w \in Workers : v # w => locks[v] \cap locks[w] = {}
    /\ \A w \in Workers : OwnClaim(w)

LEMMA ClaimsAre ==
    (ClaimTypeOK /\ LocksHold /\ SnapshotIsTrue /\ PassedOverIsLocked) <=> Claims
BY DEF ClaimTypeOK, LocksHold, SnapshotIsTrue, PassedOverIsLocked, Claims, OwnClaim

(* The claim of one worker while another takes rows it has not locked.     *)
LEMMA OthersClaim ==
    ASSUME TypeOK, QueueIsFilled, NEW v \in Workers, OwnClaim(v),
           NEW S, TakesRows(S), S \cap locks[v] = {}, UNCHANGED istep,
           snapshot'[v] = snapshot[v], locks'[v] = locks[v],
           Claiming(v) => pc'[v] = pc[v] /\ todo'[v] = todo[v],
           ~SomeoneDied' => 
                /\ ~SomeoneDied
                /\ (LockedInClaims \cup WrittenByOthers(v)) \cap (Claimable \ S)
                        \subseteq (LockedInClaims \cup WrittenByOthers(v))'
    PROVE  OwnClaim(v)'
<1>1. Claimable' = Claimable \ S
  BY TakenRows
<1>2. IsFiniteSet(locks'[v]) /\ Cardinality(locks'[v]) <= ClaimBatch
  BY DEF OwnClaim
<1>3. locks'[v] \subseteq Claimable'
  BY <1>1 DEF OwnClaim
<1>4. ASSUME Claiming(v), NEW k \in DOMAIN snapshot[v]
      PROVE  /\ snapshot[v][k] \in Row
             /\ k \notin locks[v]
             /\ snapshot[v][k].enqueued_at = jobs'[k].enqueued_at
             /\ IF k \in Claimable' THEN snapshot[v][k] = jobs'[k]
                                   ELSE Overtaken(jobs'[k], snapshot[v][k])
             /\ \A l \in locks[v] : jobs'[l].enqueued_at <= jobs'[k].enqueued_at
  <2>1. k \in Conversations /\ locks[v] \subseteq Conversations
    BY <1>4, ClaimableIsFree DEF OwnClaim
  <2>2. \A l \in Conversations : jobs'[l].enqueued_at = jobs[l].enqueued_at
    BY DEF TakesRows
  <2>3. k \in S /\ k \in Claimable => Overtaken(jobs'[k], snapshot[v][k])
    <3>1. jobs[k] \in Row
      BY <2>1, FilledRows DEF TypeOK
    <3>2. QED
      BY <1>4, <2>1, <3>1 DEF OwnClaim, TakesRows, Overtaken, Row
  <2>4. k \in S /\ k \notin Claimable => Overtaken(jobs'[k], snapshot[v][k])
    BY <2>1 DEF TakesRows, Overtaken
  <2>5. k \notin S => jobs'[k] = jobs[k]
    BY <2>1 DEF TakesRows
  <2>6. QED
    BY <1>1, <1>4, <2>1, <2>2, <2>3, <2>4, <2>5 DEF OwnClaim
<1>5. ASSUME Claiming(v), ~SomeoneDied'
      PROVE  Claimable' \ (DOMAIN snapshot[v] \cup locks[v])
                \subseteq (LockedInClaims \cup WrittenByOthers(v))'
  BY <1>1, <1>5 DEF OwnClaim
<1>6. QED
  BY <1>2, <1>3, <1>4, <1>5 DEF OwnClaim, Claiming

(* Nothing is locked by an ingest.                                         *)
LEMMA NobodyIngests ==
    ASSUME QueueIsFilled
    PROVE  LockedByIngest = {}
BY DEF QueueIsFilled, LockedByIngest

LEMMA SameRowsTaken ==
    ASSUME QueueIsFilled, UNCHANGED jobs
    PROVE  TakesRows({})
BY DEF QueueIsFilled, TakesRows

LEMMA BeginKeepsClaims ==
    ASSUME TypeOK, QueueIsFilled, Claims, NEW w \in Workers, BeginClaim(w)
    PROVE  Claims'
<1>1. /\ UNCHANGED <<locks, vars>>
      /\ snapshot' = [snapshot EXCEPT ![w] = [k \in Claimable |-> jobs[k]]]
      /\ pc[w] = "ready" /\ todo[w] = {}
      /\ locks[w] = {}
  BY DEF BeginClaim, Claims, OwnClaim
<1>2. UNCHANGED <<jobs, pc, todo, cur, istep>>
  BY <1>1 DEF vars, queueVars, workerVars, ingestVars
<1>3. TakesRows({}) /\ Claimable' = Claimable
  BY <1>2, SameRowsTaken, TakenRows
<1>4. ASSUME NEW v \in Workers
      PROVE  OwnClaim(v)'
  <2>1. CASE v = w
    <3>1. snapshot'[w] = [k \in Claimable |-> jobs[k]]
      BY <1>1 DEF Claims
    <3>2. Claimable \subseteq Conversations
      BY ClaimableIsFree
    <3>3. locks'[w] = {} /\ pc'[w] = "ready" /\ todo'[w] = {}
      BY <1>1, <1>2
    <3>4. IsFiniteSet(locks'[w]) /\ Cardinality(locks'[w]) <= ClaimBatch
      BY <3>3, FS_EmptySet, QueueAssumption
    <3>5. \A k \in Claimable : jobs[k] \in Row
      BY <3>2, FilledRows DEF TypeOK
    <3>6. QED
      BY <1>2, <1>3, <2>1, <3>1, <3>2, <3>3, <3>4, <3>5 DEF OwnClaim
  <2>2. CASE v # w
    <3>1. snapshot'[v] = snapshot[v]
      BY <1>1, <2>2 DEF Claims
    <3>2. SomeoneDied' = SomeoneDied
      BY <1>2 DEF SomeoneDied
    <3>3. LockedInClaims' = LockedInClaims /\ WrittenByOthers(v)' = WrittenByOthers(v)
      BY <1>1, <1>2 DEF LockedInClaims, WrittenByOthers
    <3>4. QED
      BY <1>1, <1>2, <1>3, <3>1, <3>2, <3>3, OthersClaim DEF Claims
  <2>3. QED
    BY <2>1, <2>2
<1>5. QED
  BY <1>1, <1>4 DEF Claims

LEMMA ScanKeepsClaims ==
    ASSUME TypeOK, QueueIsFilled, Claims, NEW w \in Workers, ScanRow(w)
    PROVE  Claims'
<1>1. PICK k \in DOMAIN snapshot[w] :
        /\ \A j \in DOMAIN snapshot[w] :
                snapshot[w][k].enqueued_at <= snapshot[w][j].enqueued_at
        /\ snapshot' = [snapshot EXCEPT ![w] = [j \in DOMAIN @ \ {k} |-> @[j]]]
        /\ \/ /\ k \in LockedInClaims \cup WrittenByOthers(w) \cup LockedByIngest
              /\ UNCHANGED locks
           \/ /\ k \notin LockedInClaims
              /\ locks' = [locks EXCEPT ![w] =
                              IF StillClaimable(w, k) THEN @ \cup {k} ELSE @]
  BY DEF ScanRow
<1>2. Claiming(w) /\ ~Scanned(w) /\ UNCHANGED <<jobs, pc, todo, cur, istep>>
  BY DEF ScanRow, vars, queueVars, workerVars, ingestVars
<1>3. TakesRows({}) /\ Claimable' = Claimable
  BY <1>2, SameRowsTaken, TakenRows
<1>4. /\ snapshot'[w] = [j \in DOMAIN snapshot[w] \ {k} |-> snapshot[w][j]]
      /\ \A v \in Workers \ {w} : snapshot'[v] = snapshot[v] /\ locks'[v] = locks[v]
      /\ snapshot' = [v \in Workers |-> snapshot'[v]]
  BY <1>1 DEF Claims
<1>5. k \in Conversations /\ jobs[k] \in Row
  BY <1>2, FilledRows DEF Claims, OwnClaim, TypeOK
<1>6. locks'[w] = locks[w] \/ locks'[w] = locks[w] \cup {k}
  BY <1>1 DEF Claims
<1>7. locks \in [Workers -> SUBSET Conversations]
  BY DEF Claims
<1>8. locks' \in [Workers -> SUBSET Conversations]
  BY <1>1, <1>5, <1>7
<1>9. locks'[w] # locks[w] => k \notin LockedInClaims /\ StillClaimable(w, k)
  BY <1>1, <1>7
(* A row that can no longer be claimed is not locked, one that can is.     *)
<1>10. StillClaimable(w, k) <=> k \in Claimable
  <2>1. k \in Claimable <=> Free(jobs[k])
    BY <1>5, ClaimableIsFree
  <2>2. IF k \in Claimable THEN snapshot[w][k] = jobs[k]
                          ELSE Overtaken(jobs[k], snapshot[w][k])
    BY <1>2 DEF Claims, OwnClaim
  <2>3. CASE k \in Claimable
    BY <2>1, <2>2, <2>3 DEF StillClaimable, Free
  <2>4. CASE k \notin Claimable
    <3>1. jobs[k].status # "queued"
      BY <2>1, <2>4 DEF Free
    <3>2. jobs[k].delivery_count \in Nat
      BY <1>5 DEF Row
    <3>3. jobs[k].status \in {"done", "dead"} \/ jobs[k].delivery_count > snapshot[w][k].delivery_count
      BY <2>2, <2>4 DEF Overtaken
    <3>4. jobs[k].delivery_count > snapshot[w][k].delivery_count
            => jobs[k].delivery_count # snapshot[w][k].delivery_count
      BY <3>2
    <3>5. QED
      BY <2>4, <3>1, <3>3, <3>4 DEF StillClaimable
  <2>5. QED
    BY <2>3, <2>4
<1>11. \A u, v \in Workers : u # v => locks'[u] \cap locks'[v] = {}
  <2>1. \A v \in Workers : k \in locks[v] => k \in LockedInClaims
    BY DEF LockedInClaims
  <2>2. QED
    BY <1>4, <1>6, <1>9, <2>1 DEF Claims
<1>12. LockedInClaims' = LockedInClaims \cup locks'[w]
  BY <1>4, <1>6 DEF LockedInClaims
<1>13. SomeoneDied' = SomeoneDied
       /\ \A v \in Workers : WrittenByOthers(v)' = WrittenByOthers(v)
  BY <1>2 DEF SomeoneDied, WrittenByOthers
<1>14. OwnClaim(w)'
  <2>1. OwnClaim(w)
    BY DEF Claims
  <2>2. IsFiniteSet(locks'[w]) /\ Cardinality(locks'[w]) <= ClaimBatch
    <3>1. CASE locks'[w] = locks[w]
      BY <2>1, <3>1 DEF OwnClaim
    <3>2. CASE locks'[w] = locks[w] \cup {k}
      <4>1. k \notin locks[w]
        BY <1>2, <2>1 DEF OwnClaim
      <4>2. IsFiniteSet(locks'[w]) /\ Cardinality(locks'[w]) = Cardinality(locks[w]) + 1
        <5>1. IsFiniteSet(locks[w])
          BY <2>1 DEF OwnClaim
        <5>2. /\ IsFiniteSet(locks[w] \cup {k})
              /\ Cardinality(locks[w] \cup {k}) = Cardinality(locks[w]) + 1
          BY <4>1, <5>1, FS_AddElement
        <5>3. QED
          BY <3>2, <5>2
      <4>3. Cardinality(locks[w]) \in Nat /\ Cardinality(locks[w]) # ClaimBatch
        BY <1>2, <2>1, FS_CardinalityType DEF Scanned, OwnClaim
      <4>4. QED
        BY <2>1, <4>2, <4>3, QueueAssumption DEF OwnClaim
    <3>3. QED
      BY <1>6, <3>1, <3>2
  <2>3. locks'[w] \subseteq Claimable
    BY <1>6, <1>9, <1>10, <2>1 DEF OwnClaim
  <2>4. pc'[w] = "ready" /\ todo'[w] = {}
    BY <1>2, <2>1 DEF OwnClaim
  <2>5. ASSUME NEW j \in DOMAIN snapshot'[w]
        PROVE  /\ j \in Conversations
               /\ snapshot'[w][j] \in Row
               /\ j \notin locks'[w]
               /\ snapshot'[w][j].enqueued_at = jobs[j].enqueued_at
               /\ IF j \in Claimable THEN snapshot'[w][j] = jobs[j]
                                    ELSE Overtaken(jobs[j], snapshot'[w][j])
               /\ \A l \in locks'[w] : jobs[l].enqueued_at <= jobs[j].enqueued_at
    <3>1. j \in DOMAIN snapshot[w] /\ j # k /\ snapshot'[w][j] = snapshot[w][j]
      BY <1>4
    <3>2. jobs[k].enqueued_at <= jobs[j].enqueued_at
      BY <1>1, <1>2, <2>1, <3>1 DEF OwnClaim
    <3>3. QED
      BY <1>2, <1>6, <2>1, <3>1, <3>2 DEF OwnClaim
  <2>6. ASSUME ~SomeoneDied'
        PROVE  Claimable \ (DOMAIN snapshot'[w] \cup locks'[w])
                \subseteq (LockedInClaims \cup WrittenByOthers(w))'
    <3> SUFFICES ASSUME NEW j \in Claimable, j \notin DOMAIN snapshot'[w], j \notin locks'[w]
                 PROVE  j \in LockedInClaims \cup WrittenByOthers(w)
      BY <1>12, <1>13
    <3>1. CASE j = k
      <4>1. locks' = locks
        BY <1>1, <1>7, <1>10, <3>1
      <4>2. k \in LockedInClaims \cup WrittenByOthers(w)
        BY <1>1, <1>7, <1>10, <3>1, <4>1, NobodyIngests
      <4>3. QED
        BY <3>1, <4>2
    <3>2. CASE j # k
      BY <1>2, <1>4, <1>6, <1>13, <2>1, <2>6, <3>2 DEF OwnClaim
    <3>3. QED
      BY <3>1, <3>2
  <2>7. DOMAIN snapshot'[w] \subseteq Conversations
    BY <2>5
  <2>8. Claiming(w)'
    <3>1. snapshot'[w] \in [DOMAIN snapshot'[w] -> Row]
      BY <1>4, <2>5
    <3>2. QED
      BY <2>7, <3>1, NullIsNoSnapshot DEF Claiming
  <2>9. QED
    BY <1>2, <1>3, <2>2, <2>3, <2>4, <2>5, <2>6, <2>7, <2>8 DEF OwnClaim
<1>15. ASSUME NEW v \in Workers, v # w
       PROVE  OwnClaim(v)'
  BY <1>2, <1>3, <1>4, <1>12, <1>13, <1>15, OthersClaim DEF Claims
<1>16. QED
  BY <1>4, <1>8, <1>11, <1>14, <1>15 DEF Claims

LEMMA CommitTakesRows ==
    ASSUME TypeOK, QueueIsFilled, Claims, NEW w \in Workers, CommitClaim(w)
    PROVE  /\ TakesRows(locks[w])
           /\ UNCHANGED istep
           /\ snapshot' = [snapshot EXCEPT ![w] = Null]
           /\ locks' = [locks EXCEPT ![w] = {}]
           /\ pc[w] = "ready" /\ todo[w] = {}
           /\ pc' = [pc EXCEPT ![w] = IF locks[w] = {} THEN "exited" ELSE "ready"]
           /\ UNCHANGED <<cur, processed>>
           /\ IF locks[w] = {} THEN UNCHANGED <<jobs, todo>>
              ELSE /\ Claim(locks[w])
                   /\ todo' = [todo EXCEPT ![w] = Handout(locks[w])]
<1>1. pc[w] = "ready" /\ todo[w] = {} /\ locks[w] \subseteq Claimable
  BY DEF CommitClaim, Claims, OwnClaim
<1>2. pc \in [Workers -> Steps] /\ w \in OnceWorkers
  BY DrainAssumption DEF TypeOK, WorkerTypeOK
<1>3. CASE locks[w] = {}
  <2>1. UNCHANGED <<jobs, todo, cur, processed>>
    BY <1>2, <1>3 DEF CommitClaim, Goto, queueVars
  <2>2. pc' = [pc EXCEPT ![w] = "exited"]
    BY <1>2, <1>3 DEF CommitClaim, Goto
  <2>3. QED
    BY <1>1, <1>3, <2>1, <2>2, SameRowsTaken DEF CommitClaim, EndClaim, ingestVars
<1>4. CASE locks[w] # {}
  <2>1. Claim(locks[w]) /\ todo' = [todo EXCEPT ![w] = Handout(locks[w])]
        /\ UNCHANGED <<pc, cur, processed>>
    BY <1>4 DEF CommitClaim
  <2>2. TakesRows(locks[w])
    BY <1>1, <2>1, ClaimTakesRows DEF TypeOK
  <2>3. QED
    BY <1>1, <1>2, <1>4, <2>1, <2>2 DEF CommitClaim, EndClaim, ingestVars
<1>5. QED
  BY <1>3, <1>4

LEMMA CommitKeepsClaims ==
    ASSUME TypeOK, QueueIsFilled, Claims, NEW w \in Workers, CommitClaim(w)
    PROVE  Claims'
<1>1. /\ TakesRows(locks[w])
      /\ UNCHANGED istep
      /\ snapshot' = [snapshot EXCEPT ![w] = Null]
      /\ locks' = [locks EXCEPT ![w] = {}]
      /\ pc[w] = "ready"
      /\ pc' = [pc EXCEPT ![w] = IF locks[w] = {} THEN "exited" ELSE "ready"]
      /\ UNCHANGED cur
      /\ \A v \in Workers \ {w} : todo'[v] = todo[v]
  BY CommitTakesRows DEF TypeOK, WorkerTypeOK
<1>2. pc \in [Workers -> Steps]
  BY DEF TypeOK, WorkerTypeOK
<1>3. \A v \in Workers \ {w} : /\ pc'[v] = pc[v]
                              /\ snapshot'[v] = snapshot[v]
                              /\ locks'[v] = locks[v]
  BY <1>1, <1>2 DEF Claims
<1>4. SomeoneDied' = SomeoneDied
  BY <1>1, <1>2 DEF SomeoneDied
<1>5. \A v \in Workers : WrittenByOthers(v)' = WrittenByOthers(v)
  <2>1. \A v \in Workers : pc'[v] \in Writing <=> pc[v] \in Writing
    BY <1>1, <1>2 DEF Writing
  <2>2. QED
    BY <1>1, <2>1 DEF WrittenByOthers
<1>6. LockedInClaims \subseteq LockedInClaims' \cup locks[w]
  BY <1>3 DEF LockedInClaims
<1>7. OwnClaim(w)'
  <2>1. snapshot'[w] = Null /\ locks'[w] = {}
    BY <1>1 DEF Claims
  <2>2. QED
    BY <2>1, FS_EmptySet, QueueAssumption DEF OwnClaim, Claiming
<1>8. ASSUME NEW v \in Workers, v # w
      PROVE  OwnClaim(v)'
  <2>1. OwnClaim(v) /\ locks[w] \cap locks[v] = {}
    BY <1>8 DEF Claims
  <2>2. (LockedInClaims \cup WrittenByOthers(v)) \cap (Claimable \ locks[w])
            \subseteq (LockedInClaims \cup WrittenByOthers(v))'
    BY <1>5, <1>6
  <2>3. QED
    BY <1>1, <1>3, <1>4, <1>8, <2>1, <2>2, OthersClaim
<1>9. /\ locks' \in [Workers -> SUBSET Conversations]
      /\ snapshot' = [v \in Workers |-> snapshot'[v]]
      /\ \A u, v \in Workers : u # v => locks'[u] \cap locks'[v] = {}
  BY <1>1 DEF Claims
<1>10. QED
  BY <1>7, <1>8, <1>9 DEF Claims

(***************************************************************************)
(* process_one, seen from the queue                                        *)
(***************************************************************************)
Closes(w) ==
    /\ pc[w] \in Writing
    /\ cur[w].key \in Conversations
    /\ \E s \in {"done", "dead"} : SetStatus(cur[w].key, s)
    /\ Return(w)

GoesOn(w) ==
    /\ pc[w] \notin Writing
    /\ pc'[w] \notin {"down", "exited"}
    /\ UNCHANGED <<jobs, processed>>
    /\ Held(w)' = Held(w)
    /\ cur[w] \notin todo[w] => cur'[w] \notin todo'[w]

LEMMA ProcessMoves ==
    ASSUME LedgerInv, NEW w \in Workers, ProcessStep(w)
    PROVE  /\ GoesOn(w) \/ Closes(w) \/ (Die(w) /\ pc[w] \in Writing)
           /\ pc[w] \notin {"down", "exited"} /\ ~(pc[w] = "ready" /\ todo[w] = {})
           /\ \A v \in Workers \ {w} : /\ pc'[v] = pc[v]
                                       /\ todo'[v] = todo[v]
                                       /\ cur'[v] = cur[v]
           /\ UNCHANGED <<locks, snapshot, istep>>
<1> WorkerTypeOK
  BY DEF LedgerInv, OutcomeInv, TypeOK
<1>1. UNCHANGED <<locks, snapshot, istep>> /\ WorkerStep(w, {}) /\ ~AtClaim(w)
  BY DEF ProcessStep, claimVars, ingestVars
<1>2. pc[w] \in Working => cur[w] \in ClaimedJob /\ cur[w].key \in Conversations
  BY AtWork DEF ClaimedJob
<1>3. CASE Begin(w)
  <2>1. PICK job \in todo[w] :
            /\ todo' = [todo EXCEPT ![w] = @ \ {job}]
            /\ cur' = [cur EXCEPT ![w] = job]
            /\ pc' = [pc EXCEPT ![w] =
                        IF job.delivery_count > MaxDelivery THEN "poison"
                                                            ELSE "lookup"]
    BY <1>3 DEF Begin
  <2>2. job # Null
    BY <2>1, WorkerAssumption DEF WorkerTypeOK
  <2>3. cur[w] = Null /\ pc[w] = "ready"
    BY <1>3 DEF Begin, WorkerTypeOK, Working
  <2>4. Null \notin todo[w]
    BY WorkerAssumption DEF WorkerTypeOK
  <2>5. todo'[w] = todo[w] \ {job} /\ cur'[w] = job
    BY <2>1 DEF WorkerTypeOK
  <2>6. Held(w)' = Held(w)
    BY <2>1, <2>2, <2>3, <2>4, <2>5 DEF Held
  <2>7. GoesOn(w)
    BY <1>3, <2>1, <2>3, <2>5, <2>6 DEF GoesOn, Begin, queueVars, Writing, WorkerTypeOK
  <2>8. QED
    BY <1>1, <2>1, <2>3, <2>7 DEF WorkerTypeOK
<1>4. CASE Lookup(w) \/ Fetch(w)
  <2>1. /\ pc[w] \in {"lookup", "fetch"}
        /\ pc'[w] \in {"skip", "fetch", "missing", "score"}
        /\ UNCHANGED <<jobs, processed, todo, cur>>
        /\ \A v \in Workers \ {w} : pc'[v] = pc[v]
    BY <1>4 DEF Lookup, Fetch, Goto, WorkerTypeOK, queueVars
  <2>2. GoesOn(w)
    BY <2>1 DEF GoesOn, Held, Writing
  <2>3. QED
    BY <1>1, <2>1, <2>2
<1>5. CASE ClosePoison(w) \/ CloseMissing(w)
  <2>1. SetStatus(cur[w].key, "dead") /\ Return(w) /\ pc[w] \in {"poison", "missing"}
    BY <1>5 DEF ClosePoison, CloseMissing, CloseJobWithResult
  <2>2. QED
    BY <1>1, <1>2, <2>1 DEF Closes, Return, Writing, Working, Steps, WorkerTypeOK
<1>6. CASE SkipDuplicate(w)
  <2>1. SetStatus(cur[w].key, "done") /\ Return(w) /\ pc[w] = "skip"
    BY <1>6 DEF SkipDuplicate, MarkDone
  <2>2. QED
    BY <1>1, <1>2, <2>1 DEF Closes, Return, Writing, Working, Steps, WorkerTypeOK
<1>7. CASE CloseScored(w)
  <2>1. KeyOf[raw[w]] = cur[w].key
    BY <1>7 DEF CloseScored, LedgerInv, ScoresItsOwnConversation
  <2>2. JobStatusFor(ScoredRow(raw[w])) \in {"done", "dead"}
    BY DEF JobStatusFor
  <2>3. /\ SetStatus(cur[w].key, JobStatusFor(ScoredRow(raw[w])))
        /\ Return(w) /\ pc[w] = "score"
    BY <1>7, <2>1 DEF CloseScored, CloseJobWithResult
  <2>4. QED
    BY <1>1, <1>2, <2>2, <2>3 DEF Closes, Return, Writing, Working, Steps, WorkerTypeOK
<1>8. CASE ScoringKills(w)
  BY <1>1, <1>8 DEF ScoringKills, Die, Writing, WorkerTypeOK
<1>9. CASE ClaimJobs(w, {}) \/ ClaimNothing(w, {})
  BY <1>1, <1>9 DEF ClaimJobs, ClaimNothing, AtClaim
<1>10. QED
  BY <1>1, <1>3, <1>4, <1>5, <1>6, <1>7, <1>8, <1>9 DEF WorkerStep

LEMMA ProcessTakesRows ==
    ASSUME LedgerInv, QueueIsFilled, NEW w \in Workers, ProcessStep(w)
    PROVE  \E S : /\ TakesRows(S)
                  /\ S \cap LockedInClaims = {}
                  /\ pc[w] \in Writing => cur[w].key \in S \/ SomeoneDied'
<1>1. GoesOn(w) \/ Closes(w) \/ (Die(w) /\ pc[w] \in Writing)
  BY ProcessMoves
<1>2. QueueTypeOK /\ WorkerTypeOK
  BY DEF LedgerInv, OutcomeInv, TypeOK
<1>3. CASE GoesOn(w)
  BY <1>3, SameRowsTaken DEF GoesOn
<1>4. CASE Closes(w)
  <2>1. TakesRows({cur[w].key})
    BY <1>2, <1>4, CloseTakesRow DEF Closes
  <2>2. cur[w].key \notin LockedInClaims
    BY <1>4 DEF Closes, ProcessStep
  <2>3. QED
    BY <2>1, <2>2
<1>5. CASE Die(w)
  <2>1. TakesRows({})
    BY <1>5, SameRowsTaken DEF Die, queueVars
  <2>2. SomeoneDied'
    BY <1>2, <1>5 DEF Die, SomeoneDied, WorkerTypeOK
  <2>3. QED
    BY <2>1, <2>2
<1>6. QED
  BY <1>1, <1>3, <1>4, <1>5

LEMMA ProcessKeepsClaims ==
    ASSUME LedgerInv, QueueIsFilled, Claims, NEW w \in Workers, ProcessStep(w)
    PROVE  Claims' /\ QueueIsFilled'
<1>1. PICK S : /\ TakesRows(S)
               /\ S \cap LockedInClaims = {}
               /\ pc[w] \in Writing => cur[w].key \in S \/ SomeoneDied'
  BY ProcessTakesRows
<1>2. /\ pc[w] # "down" /\ ~(pc[w] = "ready" /\ todo[w] = {})
      /\ \A v \in Workers \ {w} : /\ pc'[v] = pc[v]
                                  /\ todo'[v] = todo[v]
                                  /\ cur'[v] = cur[v]
      /\ UNCHANGED <<locks, snapshot, istep>>
  BY ProcessMoves
<1>3. TypeOK
  BY DEF LedgerInv, OutcomeInv
<1>4. OwnClaim(w)'
  <2>1. ~Claiming(w) /\ locks[w] = {}
    BY <1>2 DEF Claims, OwnClaim
  <2>2. QED
    BY <1>2, <2>1, FS_EmptySet, QueueAssumption DEF OwnClaim, Claiming
<1>5. ASSUME NEW v \in Workers, v # w
      PROVE  OwnClaim(v)'
  <2>1. S \cap locks[v] = {}
    BY <1>1 DEF LockedInClaims
  <2>2. ~SomeoneDied' => ~SomeoneDied
    BY <1>2 DEF SomeoneDied
  <2>3. ASSUME ~SomeoneDied', NEW k \in WrittenByOthers(v), k \notin S
        PROVE  k \in WrittenByOthers(v)'
    <3>1. PICK u \in Workers \ {v} : pc[u] \in Writing /\ cur[u].key = k
      BY <2>3 DEF WrittenByOthers
    <3>2. u # w
      BY <1>1, <2>3, <3>1
    <3>3. QED
      BY <1>2, <3>1, <3>2 DEF WrittenByOthers
  <2>4. LockedInClaims' = LockedInClaims
    BY <1>2 DEF LockedInClaims
  <2>5. QED
    BY <1>1, <1>2, <1>3, <1>5, <2>1, <2>2, <2>3, <2>4, OthersClaim DEF Claims
<1>6. QED
  BY <1>1, <1>2, <1>4, <1>5, TakenRows DEF Claims

LEMMA DieKeepsClaims ==
    ASSUME TypeOK, QueueIsFilled, Claims, NEW w \in Workers, ClaimingWorkerDies(w)
    PROVE  Claims' /\ QueueIsFilled'
<1>1. /\ UNCHANGED <<jobs, istep>>
      /\ snapshot' = [snapshot EXCEPT ![w] = Null]
      /\ locks' = [locks EXCEPT ![w] = {}]
      /\ pc' = [pc EXCEPT ![w] = "down"]
      /\ todo' = [todo EXCEPT ![w] = {}]
  BY DEF ClaimingWorkerDies, WorkerDies, Kill, Die, EndClaim, queueVars, ingestVars
<1>2. TakesRows({})
  BY <1>1, SameRowsTaken
<1>3. SomeoneDied'
  BY <1>1 DEF SomeoneDied, TypeOK, WorkerTypeOK
<1>4. OwnClaim(w)'
  <2>1. snapshot'[w] = Null /\ locks'[w] = {}
    BY <1>1 DEF Claims
  <2>2. QED
    BY <2>1, FS_EmptySet, QueueAssumption DEF OwnClaim, Claiming
<1>5. ASSUME NEW v \in Workers, v # w
      PROVE  OwnClaim(v)'
  <2>1. /\ snapshot'[v] = snapshot[v] /\ locks'[v] = locks[v]
        /\ pc'[v] = pc[v] /\ todo'[v] = todo[v]
    BY <1>1, <1>5 DEF Claims, TypeOK, WorkerTypeOK
  <2>2. QED
    BY <1>1, <1>2, <1>3, <2>1, OthersClaim DEF Claims
<1>6. /\ locks' \in [Workers -> SUBSET Conversations]
      /\ snapshot' = [v \in Workers |-> snapshot'[v]]
      /\ \A u, v \in Workers : u # v => locks'[u] \cap locks'[v] = {}
  BY <1>1 DEF Claims
<1>7. QED
  BY <1>1, <1>2, <1>4, <1>5, <1>6, TakenRows DEF Claims

LEMMA TimeKeepsClaims ==
    ASSUME TypeOK, QueueIsFilled, Claims, ClaimsTakeTime
    PROVE  Claims' /\ QueueIsFilled'
<1>1. UNCHANGED <<istep, snapshot, locks>> /\ Tick
  BY DEF ClaimsTakeTime, TimePasses, claimVars, ingestVars
<1>2. ASSUME NEW k \in Conversations
      PROVE  jobs'[k] # Null /\ jobs'[k].enqueued_at = jobs[k].enqueued_at
  <2>1. jobs[k] \in Row /\ jobs[k] # Null
    BY FilledRows DEF TypeOK, QueueIsFilled
  <2>2. jobs'[k] = jobs[k] \/ jobs'[k] = [jobs[k] EXCEPT !.claim_age = @ + 1]
    BY <1>1 DEF Tick
  <2>3. jobs'[k] \in Row
    <3>1. QueueTypeOK'
      BY <1>1, TickType DEF TypeOK
    <3>2. jobs'[k].status = jobs[k].status
      BY <2>1, <2>2 DEF Row
    <3>3. CASE k \in Tracked /\ jobs[k].status = "claimed" /\ ~LeaseExpired(k)
      <4>1. [jobs[k] EXCEPT !.claim_age = @ + 1] \in Row
        BY <2>1, <3>3, QueueAssumption DEF Row, LeaseExpired
      <4>2. QED
        BY <2>1, <2>2, <4>1
    <3>4. CASE ~(k \in Tracked /\ jobs[k].status = "claimed" /\ ~LeaseExpired(k))
      BY <1>1, <2>1, <3>4 DEF Tick
    <3>5. QED
      BY <3>3, <3>4
  <2>4. QED
    BY <2>1, <2>2, <2>3, NullIsNoRow DEF Row
<1>3. QueueIsFilled'
  BY <1>1, <1>2 DEF QueueIsFilled
<1>4. ASSUME NEW w \in Workers
      PROVE  OwnClaim(w)'
  <2>1. ~Claiming(w) /\ locks[w] = {}
    BY DEF ClaimsTakeTime, Claims, OwnClaim
  <2>2. QED
    BY <1>1, <2>1, FS_EmptySet, QueueAssumption DEF OwnClaim, Claiming
<1>5. QED
  BY <1>1, <1>3, <1>4 DEF Claims

LEMMA NextClaimInv ==
    ASSUME ClaimInv, [DrainNext]_drainVars
    PROVE  ClaimInv'
<1>1. LedgerInv /\ TypeOK /\ QueueIsFilled /\ Claims
  BY ClaimsAre DEF ClaimInv, LedgerInv, OutcomeInv
<1>2. LedgerInv'
  <2>1. [Next]_vars
    BY DrainStepIsNext DEF drainVars
  <2>2. QED
    BY <1>1, <2>1, NextLedgerInv
<1>3. Claims' /\ QueueIsFilled'
  <2>1. ASSUME NEW w \in Workers, ClaimingWorkerRuns(w)
        PROVE  Claims' /\ QueueIsFilled'
    <3>1. CASE BeginClaim(w)
      <4>1. UNCHANGED <<jobs, istep>>
        BY <3>1 DEF BeginClaim, vars, queueVars, ingestVars
      <4>2. QED
        BY <1>1, <3>1, <4>1, BeginKeepsClaims DEF QueueIsFilled
    <3>2. CASE ScanRow(w)
      <4>1. UNCHANGED <<jobs, istep>>
        BY <3>2 DEF ScanRow, vars, queueVars, ingestVars
      <4>2. QED
        BY <1>1, <3>2, <4>1, ScanKeepsClaims DEF QueueIsFilled
    <3>3. CASE CommitClaim(w)
      <4>1. TakesRows(locks[w]) /\ UNCHANGED istep
        BY <1>1, <3>3, CommitTakesRows
      <4>2. QED
        BY <1>1, <3>3, <4>1, CommitKeepsClaims, TakenRows
    <3>4. CASE ProcessStep(w)
      BY <1>1, <3>4, ProcessKeepsClaims
    <3>5. QED
      BY <2>1, <3>1, <3>2, <3>3, <3>4 DEF ClaimingWorkerRuns
  <2>2. ASSUME NEW w \in Workers, ClaimingWorkerDies(w)
        PROVE  Claims' /\ QueueIsFilled'
    BY <1>1, <2>2, DieKeepsClaims
  <2>3. CASE ClaimsTakeTime
    BY <1>1, <2>3, TimeKeepsClaims
  <2>4. CASE UNCHANGED drainVars
    BY <1>1, <2>4
    DEF drainVars, vars, queueVars, workerVars, ingestVars, claimVars, Claims,
        OwnClaim, QueueIsFilled, Claiming, Claimable, Open, Tracked, LeaseExpired,
        SomeoneDied, LockedInClaims, WrittenByOthers
  <2>5. QED
    BY <2>1, <2>2, <2>3, <2>4 DEF DrainNext
<1>4. QED
  <2>1. (ClaimTypeOK /\ LocksHold /\ SnapshotIsTrue /\ PassedOverIsLocked)'
    BY <1>3 DEF ClaimTypeOK, LocksHold, SnapshotIsTrue, PassedOverIsLocked,
                Claims, OwnClaim
  <2>2. QED
    BY <1>2, <1>3, <2>1 DEF ClaimInv

LEMMA DocumentType ==
    ASSUME NEW k \in Conversations
    PROVE  DocumentOf(k) \in Documents /\ KeyOf[DocumentOf(k)] = k
BY DrainAssumption DEF DocumentOf

LEMMA InitTables ==
    ASSUME DrainInit
    PROVE  /\ QueueTypeOK /\ StoresTypeOK /\ QueueIsFilled /\ StampsAreInThePast
           /\ \A k \in Conversations : /\ jobs[k] # Null
                                       /\ jobs[k].status = "queued"
                                       /\ jobs[k].claim_age = 0
           /\ ScoresItsOwnConversation
<1>1. PICK order \in [Conversations -> 1 .. Cardinality(Conversations)] :
        /\ \A k, l \in Conversations : order[k] = order[l] => k = l
        /\ jobs = [k \in Conversations |->
                    [content_hash   |-> ContentHash(DocumentOf(k)),
                     status         |-> "queued",
                     claim_age      |-> 0,
                     delivery_count |-> 0,
                     enqueued_at    |-> order[k]]]
  BY DEF DrainInit
<1>2. Cardinality(Conversations) \in Nat
  BY DrainAssumption, FS_CardinalityType
<1>3. ASSUME NEW k \in Conversations
      PROVE  /\ jobs[k] \in Row /\ jobs[k].status = "queued"
             /\ jobs[k].claim_age = 0
             /\ jobs[k].enqueued_at = order[k]
             /\ jobs[k].enqueued_at <= Cardinality(Conversations)
  <2>1. order[k] \in Nat /\ order[k] <= Cardinality(Conversations)
    BY <1>2
  <2>2. ContentHash(DocumentOf(k)) \in Hashes
    BY DocumentType DEF Hashes
  <2>3. QED
    BY <1>1, <2>1, <2>2, QueueAssumption DEF Row, Statuses
<1>4. jobs \in [Conversations -> Row]
  BY <1>1, <1>3
<1>5. QueueTypeOK /\ QueueIsFilled /\ StampsAreInThePast
  BY <1>1, <1>2, <1>3, <1>4, NullIsNoRow
  DEF DrainInit, IngestInit, QueueTypeOK, QueueIsFilled, StampsAreInThePast, Tracked
<1>6. StoresTypeOK
  <2>1. \A k \in Conversations :
            [content_hash |-> ContentHash(DocumentOf(k)), raw |-> Jsonb[DocumentOf(k)]] \in Blob
    BY DocumentType, JsonbType DEF Blob, Hashes
  <2>2. QED
    BY <2>1 DEF DrainInit, StoresTypeOK
<1>7. ScoresItsOwnConversation
  BY DocumentType, JsonbType DEF DrainInit, WorkerInit, ScoresItsOwnConversation
<1>8. QED
  BY <1>3, <1>4, <1>5, <1>6, <1>7, NullIsNoRow

LEMMA InitTypes ==
    ASSUME DrainInit
    PROVE  TypeOK
<1>1. QueueTypeOK /\ StoresTypeOK
  BY InitTables
<1>2. Null \notin ClaimedJob /\ Null \notin Documents
  BY WorkerAssumption, NullIsNoValue
<1>3. WorkerTypeOK
  BY <1>2 DEF DrainInit, WorkerInit, WorkerTypeOK, Steps, Working
<1>4. IngestTypeOK
  BY NoStatsType DEF DrainInit, IngestInit, IngestTypeOK, IngestSteps
<1>5. QED
  BY <1>1, <1>3, <1>4 DEF DrainInit, TypeOK

LEMMA InitClaimInv ==
    ASSUME DrainInit
    PROVE  ClaimInv
<1>1. TypeOK
  BY InitTypes
<1>2. OutcomeInv
  BY <1>1, InitTables
  DEF DrainInit, WorkerInit, OutcomeInv, ClosedJobHasResult, Closed, DeadIsRejected,
      SkipHasResult, Tracked
<1>3. DeliveryInv
  BY <1>1, InitTables
  DEF DrainInit, WorkerInit, DeliveryInv, HeldIsKnown, NoDoubleDelivery, Held
<1>4. Claims
  <2>1. \A w \in Workers : ~Claiming(w) /\ locks[w] = {}
    BY DEF DrainInit, ClaimInit, Claiming
  <2>2. ASSUME NEW w \in Workers
        PROVE  OwnClaim(w)
    BY <2>1, FS_EmptySet, QueueAssumption DEF OwnClaim
  <2>3. QED
    BY <2>2 DEF DrainInit, ClaimInit, Claims
<1>5. QED
  BY <1>2, <1>3, <1>4, InitTables, ClaimsAre DEF ClaimInv, LedgerInv

LEMMA ClaimAlways == DrainSpec => []ClaimInv
BY InitClaimInv, NextClaimInv, PTL DEF DrainSpec

(* Claims that look at one row after the other, overlap and die half way   *)
(* do nothing but claim, each at one moment, a batch of the oldest rows    *)
(* that nobody has locked: PgJobQueue.claim may be taken for one step.     *)
THEOREM ClaimIsOneStep == DrainSpec => ClaimIsAtomic
<1>1. ClaimInv /\ [DrainNext]_drainVars => [Next]_vars
  BY DrainStepIsNext DEF drainVars
<1>2. QED
  BY <1>1, ClaimAlways, PTL DEF DrainSpec, ClaimIsAtomic

(***************************************************************************)
(* Every job exactly once                                                  *)
(***************************************************************************)

(* What DrainInv says of runs that no lease has been too short for.        *)
InTime ==
    /\ HeldIsClaimed
    /\ ~SomeoneDied => ClaimedIsHeld /\ QueuedIsLocked /\ ClosedIsCounted

NoLeaseIsOut == \A k \in Conversations : ~LeaseExpired(k)

(* While no lease is out, the rows to claim are those that are queued.     *)
LEMMA QueuedIsClaimable ==
    ASSUME TypeOK, QueueIsFilled, NoLeaseIsOut
    PROVE  /\ Claimable = {k \in Conversations : jobs[k].status = "queued"}
           /\ Closed = {k \in Conversations : jobs[k].status \in {"done", "dead"}}
BY ClaimableIsFree DEF NoLeaseIsOut, LeaseExpired, Free, Closed, QueueIsFilled, Tracked

(* Nobody has the same job as somebody else, nor twice.                    *)
LEMMA HeldOnce ==
    ASSUME ClaimInv, HeldIsClaimed, NEW v \in Workers, NEW w \in Workers,
           NEW a \in Held(v), NEW b \in Held(w), a.key = b.key
    PROVE  a = b /\ v = w
<1>1. a = b
  BY DEF HeldIsClaimed
<1>2. NoDoubleDelivery
  BY DEF ClaimInv, LedgerInv, DeliveryInv
<1>3. QED
  BY <1>1, <1>2 DEF NoDoubleDelivery

LEMMA HeldJobs ==
    ASSUME WorkerTypeOK, NEW w \in Workers
    PROVE  /\ \A job \in Held(w) : job.key \in Conversations /\ job # Null
           /\ todo[w] \subseteq Held(w)
           /\ pc[w] \in Working => cur[w] \in Held(w)
           /\ pc[w] \notin Working => Held(w) = todo[w]
<1>1. cur[w] \in ClaimedJob \cup {Null} /\ todo[w] \subseteq ClaimedJob
  BY DEF WorkerTypeOK
<1>2. Held(w) \subseteq ClaimedJob
  BY <1>1 DEF Held
<1>3. pc[w] \in Working <=> cur[w] # Null
  BY DEF WorkerTypeOK
<1>4. QED
  BY <1>2, <1>3, WorkerAssumption DEF Held, ClaimedJob

(* A step that claims or closes nothing, and loses no job.                 *)
LEMMA NothingNewInTime ==
    ASSUME ClaimInv, InTime,
           UNCHANGED processed,
           \A k \in Conversations :
                /\ jobs'[k] # Null
                /\ jobs'[k].status = jobs[k].status
                /\ jobs'[k].content_hash = jobs[k].content_hash
                /\ jobs'[k].delivery_count = jobs[k].delivery_count
                /\ jobs'[k].enqueued_at = jobs[k].enqueued_at,
           \A w \in Workers :
                /\ Held(w)' = Held(w)
                /\ cur'[w] \notin todo'[w]
                /\ pc'[w] = "exited" => pc[w] = "exited"
                /\ pc[w] = "down" => pc'[w] = "down"
                /\ locks[w] \subseteq locks'[w]
    PROVE  InTime'
<1>1. WorkerTypeOK /\ QueueIsFilled
  BY DEF ClaimInv, LedgerInv, OutcomeInv, TypeOK
<1>2. HeldIsClaimed'
  BY <1>1, HeldJobs DEF InTime, HeldIsClaimed
<1>3. ASSUME ~SomeoneDied'
      PROVE  (ClaimedIsHeld /\ QueuedIsLocked /\ ClosedIsCounted)'
  <2>1. ClaimedIsHeld /\ QueuedIsLocked /\ ClosedIsCounted
    BY <1>3 DEF InTime, SomeoneDied
  <2>2. ClaimedIsHeld'
    BY <2>1 DEF ClaimedIsHeld
  <2>3. QueuedIsLocked'
    BY <2>1 DEF QueuedIsLocked, LockedInClaims
  <2>4. Closed' = Closed /\ Counted' = Counted
    BY <1>1 DEF Closed, Tracked, QueueIsFilled, Counted
  <2>5. QED
    BY <2>1, <2>2, <2>3, <2>4 DEF ClosedIsCounted
<1>4. QED
  BY <1>2, <1>3 DEF InTime

(* A claim that has got jobs: they were queued, and are now in its hands.  *)
LEMMA ClaimInTime ==
    ASSUME ClaimInv, InTime, NoLeaseIsOut,
           NEW w \in Workers, CommitClaim(w), locks[w] # {}
    PROVE  InTime'
<1>1. /\ TypeOK /\ QueueIsFilled /\ Claims /\ WorkerTypeOK /\ QueueTypeOK
      /\ locks[w] \subseteq Claimable
  BY ClaimsAre DEF ClaimInv, LedgerInv, OutcomeInv, TypeOK, LocksHold
<1>2. /\ Claim(locks[w])
      /\ todo' = [todo EXCEPT ![w] = Handout(locks[w])]
      /\ UNCHANGED <<pc, cur, processed>>
      /\ locks' = [locks EXCEPT ![w] = {}]
      /\ pc[w] = "ready" /\ todo[w] = {}
  BY <1>1 DEF CommitClaim, EndClaim, Claims, OwnClaim
<1>3. \A k \in locks[w] : k \in Conversations /\ jobs[k].status = "queued"
  BY <1>1, QueuedIsClaimable
<1>4. ASSUME NEW k \in locks[w]
      PROVE  jobs'[k].status = "claimed"
  <2>1. jobs[k] \in Row
    BY <1>1, <1>3, FilledRows
  <2>2. jobs'[k] = [jobs[k] EXCEPT !.status = "claimed", !.claim_age = 0,
                                   !.delivery_count = @ + 1]
    BY <1>2, <1>3 DEF Claim
  <2>3. QED
    BY <2>1, <2>2 DEF Row
<1>5. \A k \in Conversations \ locks[w] : jobs'[k] = jobs[k]
  BY <1>2 DEF Claim
<1>6. /\ \A v \in Workers \ {w} : Held(v)' = Held(v) /\ todo'[v] = todo[v]
      /\ cur[w] = Null /\ Held(w) = {} /\ todo'[w] = Handout(locks[w])
      /\ Held(w)' = Handout(locks[w])
  <2>1. cur[w] = Null
    BY <1>1, <1>2 DEF WorkerTypeOK, Working
  <2>2. todo'[w] = Handout(locks[w])
    BY <1>1, <1>2 DEF WorkerTypeOK
  <2>3. QED
    BY <1>1, <1>2, <2>1, <2>2 DEF Held, WorkerTypeOK
<1>7. \A job \in Handout(locks[w]) :
        /\ job.key \in locks[w]
        /\ job = [key            |-> job.key,
                  content_hash   |-> jobs'[job.key].content_hash,
                  delivery_count |-> jobs'[job.key].delivery_count,
                  enqueued_at    |-> jobs'[job.key].enqueued_at]
  BY DEF Handout
<1>8. HeldIsClaimed'
  <2>1. cur'[w] \notin todo'[w]
    <3>1. Handout(locks[w]) \subseteq ClaimedJob
      <4>1. locks[w] \in SUBSET Tracked
        BY <1>1 DEF Claimable, Open
      <4>2. QED
        BY <1>1, <1>2, <4>1, HandoutType
    <3>2. QED
      BY <1>2, <1>6, <3>1, WorkerAssumption
  <2>2. ASSUME NEW job \in Held(w)'
        PROVE  /\ jobs'[job.key].status = "claimed"
               /\ job = [key            |-> job.key,
                         content_hash   |-> jobs'[job.key].content_hash,
                         delivery_count |-> jobs'[job.key].delivery_count,
                         enqueued_at    |-> jobs'[job.key].enqueued_at]
    BY <1>4, <1>6, <1>7
  <2>3. ASSUME NEW v \in Workers \ {w}
        PROVE  /\ cur'[v] \notin todo'[v]
               /\ \A job \in Held(v)' :
                    /\ jobs'[job.key].status = "claimed"
                    /\ job = [key            |-> job.key,
                              content_hash   |-> jobs'[job.key].content_hash,
                              delivery_count |-> jobs'[job.key].delivery_count,
                              enqueued_at    |-> jobs'[job.key].enqueued_at]
    <3>1. HeldIsClaimed
      BY DEF InTime
    <3>2. \A job \in Held(v) : job.key \in Conversations
      BY <1>1, HeldJobs
    <3>3. \A job \in Held(v) : jobs'[job.key] = jobs[job.key]
      BY <1>3, <1>5, <3>1, <3>2 DEF HeldIsClaimed
    <3>4. QED
      BY <1>2, <1>6, <3>1, <3>3 DEF HeldIsClaimed
  <2>4. QED
    BY <2>1, <2>2, <2>3 DEF HeldIsClaimed
<1>9. ASSUME ~SomeoneDied'
      PROVE  (ClaimedIsHeld /\ QueuedIsLocked /\ ClosedIsCounted)'
  <2>1. ClaimedIsHeld /\ QueuedIsLocked /\ ClosedIsCounted
    BY <1>2, <1>9 DEF InTime, SomeoneDied
  <2>2. ASSUME NEW k \in Conversations, jobs'[k].status = "claimed"
        PROVE  \E v \in Workers : \E job \in Held(v)' : job.key = k
    <3>1. CASE k \in locks[w]
      <4> DEFINE job == [key            |-> k,
                         content_hash   |-> jobs'[k].content_hash,
                         delivery_count |-> jobs'[k].delivery_count,
                         enqueued_at    |-> jobs'[k].enqueued_at]
      <4>1. job \in Handout(locks[w]) /\ job.key = k
        BY <3>1 DEF Handout
      <4>2. QED
        BY <1>6, <4>1
    <3>2. CASE k \notin locks[w]
      <4>1. PICK v \in Workers : \E job \in Held(v) : job.key = k
        BY <1>5, <2>1, <2>2, <3>2 DEF ClaimedIsHeld
      <4>2. v # w
        BY <1>6, <4>1
      <4>3. QED
        BY <1>6, <4>1, <4>2
    <3>3. QED
      BY <3>1, <3>2
  <2>3. QueuedIsLocked'
    <3> SUFFICES ASSUME \E v \in Workers : pc'[v] = "exited",
                        NEW k \in Conversations, jobs'[k].status = "queued"
                 PROVE  k \in LockedInClaims'
      BY DEF QueuedIsLocked
    <3>1. k \notin locks[w] /\ jobs'[k] = jobs[k]
      BY <1>4, <1>5
    <3>2. PICK v \in Workers : k \in locks[v]
      BY <1>2, <2>1, <3>1 DEF QueuedIsLocked, LockedInClaims
    <3>3. locks'[v] = locks[v]
      BY <1>1, <1>2, <3>1, <3>2 DEF Claims
    <3>4. QED
      BY <3>2, <3>3 DEF LockedInClaims
  <2>4. Closed' = Closed
    <3>1. QueueIsFilled'
      <4>1. TakesRows(locks[w]) /\ UNCHANGED istep
        BY <1>1, CommitTakesRows
      <4>2. QED
        BY <1>1, <4>1, TakenRows
    <3>2. \A k \in Conversations :
            jobs'[k].status \in {"done", "dead"} <=> jobs[k].status \in {"done", "dead"}
      BY <1>3, <1>4, <1>5
    <3>3. QED
      BY <1>1, <3>1, <3>2 DEF Closed, Tracked, QueueIsFilled
  <2>5. Counted' = Counted
    BY <1>2 DEF Counted
  <2>6. QED
    BY <2>1, <2>2, <2>3, <2>4, <2>5 DEF ClaimedIsHeld, ClosedIsCounted
<1>10. QED
  BY <1>8, <1>9 DEF InTime

(* A claim that has got nothing has passed over all that is queued, so it  *)
(* is locked by other claims.                                              *)
LEMMA EmptyClaimInTime ==
    ASSUME ClaimInv, InTime, NoLeaseIsOut,
           NEW w \in Workers, CommitClaim(w), locks[w] = {}
    PROVE  InTime'
<1>1. TypeOK /\ QueueIsFilled /\ Claims /\ WorkerTypeOK
  BY ClaimsAre DEF ClaimInv, LedgerInv, OutcomeInv, TypeOK
<1>2. /\ UNCHANGED <<jobs, todo, cur, processed>>
      /\ pc[w] = "ready" /\ pc' = [pc EXCEPT ![w] = "exited"]
      /\ locks' = [locks EXCEPT ![w] = {}]
  BY <1>1, CommitTakesRows
<1>3. locks' = locks
  BY <1>1, <1>2 DEF Claims
<1>4. HeldIsClaimed'
  BY <1>2 DEF InTime, HeldIsClaimed, Held
<1>5. ASSUME ~SomeoneDied'
      PROVE  (ClaimedIsHeld /\ QueuedIsLocked /\ ClosedIsCounted)'
  <2>1. ~SomeoneDied
    BY <1>1, <1>2, <1>5 DEF SomeoneDied, WorkerTypeOK
  <2>2. ClaimedIsHeld /\ ClosedIsCounted
    BY <2>1 DEF InTime
  <2>3. QueuedIsLocked'
    <3> SUFFICES ASSUME NEW k \in Conversations, jobs[k].status = "queued"
                 PROVE  k \in LockedInClaims
      BY <1>2, <1>3 DEF QueuedIsLocked, LockedInClaims
    <3>1. DOMAIN snapshot[w] = {}
      BY FS_EmptySet, QueueAssumption, DrainAssumption DEF CommitClaim, Scanned
    <3>2. k \in LockedInClaims \/ k \in WrittenByOthers(w)
      <4>1. k \in Claimable
        BY <1>1, QueuedIsClaimable
      <4>2. QED
        BY <1>1, <2>1, <3>1, <4>1 DEF CommitClaim, Claims, OwnClaim
    <3>3. k \notin WrittenByOthers(w)
      <4>1. SUFFICES ASSUME NEW v \in Workers, pc[v] \in Writing, cur[v].key = k
                     PROVE  FALSE
        BY DEF WrittenByOthers
      <4>2. cur[v] \in Held(v)
        BY <1>1, <4>1, HeldJobs DEF Writing, Working, Steps
      <4>3. QED
        BY <4>1, <4>2 DEF InTime, HeldIsClaimed
    <3>4. QED
      BY <3>2, <3>3
  <2>4. (ClaimedIsHeld /\ ClosedIsCounted)'
    BY <1>2, <2>2 DEF ClaimedIsHeld, Held, ClosedIsCounted, Closed, Tracked, Counted
  <2>5. QED
    BY <2>3, <2>4
<1>6. QED
  BY <1>4, <1>5 DEF InTime

(* The close of a job, which nobody else has: it is counted.               *)
LEMMA CloseInTime ==
    ASSUME ClaimInv, InTime, NEW w \in Workers, Closes(w),
           \A v \in Workers \ {w} : /\ pc'[v] = pc[v]
                                   /\ todo'[v] = todo[v]
                                   /\ cur'[v] = cur[v],
           UNCHANGED locks
    PROVE  InTime'
<1> DEFINE key == cur[w].key
<1>1. TypeOK /\ QueueIsFilled /\ WorkerTypeOK /\ QueueTypeOK /\ HeldIsClaimed
  BY DEF ClaimInv, LedgerInv, OutcomeInv, TypeOK, InTime
<1>2. /\ key \in Conversations /\ cur[w] \in Held(w)
      /\ jobs[key].status = "claimed"
      /\ cur[w] \notin todo[w]
  BY <1>1, HeldJobs DEF Closes, Writing, Working, Steps, HeldIsClaimed
<1>3. /\ pc'[w] = "ready" /\ cur'[w] = Null /\ todo'[w] = todo[w]
      /\ processed' = [processed EXCEPT ![w] = @ + 1]
  BY <1>1, DrainAssumption DEF Closes, Return, WorkerTypeOK
<1>4. /\ \A k \in Conversations \ {key} : jobs'[k] = jobs[k]
      /\ jobs'[key].status \in {"done", "dead"}
      /\ \A k \in Conversations : jobs'[k] # Null
  <2>1. PICK s \in {"done", "dead"} : SetStatus(key, s)
    BY DEF Closes
  <2>2. TakesRows({key}) /\ jobs'[key].status = s
    BY <1>1, <1>2, <2>1, CloseTakesRow
  <2>3. QED
    BY <2>2 DEF TakesRows
<1>5. /\ \A v \in Workers \ {w} : Held(v)' = Held(v)
      /\ Held(w)' = Held(w) \ {cur[w]}
      /\ Held(w)' = todo[w]
  <2>1. Null \notin todo[w]
    BY <1>1, WorkerAssumption DEF WorkerTypeOK
  <2>2. QED
    BY <1>2, <1>3, <2>1 DEF Held
<1>6. ASSUME NEW v \in Workers, NEW job \in Held(v)'
      PROVE  job \in Held(v) /\ job.key \in Conversations /\ job.key # key
  <2>1. job \in Held(v) /\ (v # w \/ job # cur[w])
    BY <1>5
  <2>2. QED
    BY <1>1, <1>2, <2>1, HeldJobs, HeldOnce
<1>7. HeldIsClaimed'
  <2>1. ASSUME NEW v \in Workers
        PROVE  cur'[v] \notin todo'[v]
    <3>1. CASE v = w
      BY <1>1, <1>3, <3>1, WorkerAssumption DEF WorkerTypeOK
    <3>2. CASE v # w
      BY <1>1, <3>2 DEF HeldIsClaimed
    <3>3. QED
      BY <3>1, <3>2
  <2>2. ASSUME NEW v \in Workers, NEW job \in Held(v)'
        PROVE  job \in Held(v) /\ jobs'[job.key] = jobs[job.key]
    BY <1>4, <1>6
  <2>3. QED
    BY <1>1, <2>1, <2>2 DEF HeldIsClaimed
<1>8. ASSUME ~SomeoneDied'
      PROVE  (ClaimedIsHeld /\ QueuedIsLocked /\ ClosedIsCounted)'
  <2>1. ~SomeoneDied
    BY <1>8 DEF SomeoneDied, Closes, Writing
  <2>2. ClaimedIsHeld /\ QueuedIsLocked /\ ClosedIsCounted
    BY <2>1 DEF InTime
  <2>3. ASSUME NEW k \in Conversations, jobs'[k].status = "claimed"
        PROVE  \E v \in Workers : \E job \in Held(v)' : job.key = k
    <3>1. k # key /\ jobs[k].status = "claimed"
      BY <1>4, <2>3
    <3>2. PICK v \in Workers : \E job \in Held(v) : job.key = k
      BY <2>2, <3>1 DEF ClaimedIsHeld
    <3>3. QED
      BY <1>5, <3>1, <3>2
  <2>4. QueuedIsLocked'
    <3>1. \A k \in Conversations : jobs'[k].status = "queued" => jobs[k].status = "queued"
      BY <1>4
    <3>2. (\E v \in Workers : pc'[v] = "exited") => (\E v \in Workers : pc[v] = "exited")
      BY <1>3
    <3>3. QED
      BY <2>2, <3>1, <3>2 DEF QueuedIsLocked, LockedInClaims
  <2>5. Closed' = Closed \cup {key} /\ key \notin Closed
    BY <1>1, <1>2, <1>4 DEF Closed, Tracked, QueueIsFilled
  <2>6. /\ Counted' = Counted \cup {<<w, processed[w] + 1>>}
        /\ <<w, processed[w] + 1>> \notin Counted
    <3>1. \A v \in Workers : processed[v] \in Nat
      BY <1>1 DEF WorkerTypeOK
    <3>2. \A v \in Workers \ {w} : processed'[v] = processed[v]
      BY <1>1, <1>3 DEF WorkerTypeOK
    <3>3. 1 .. processed'[w] = (1 .. processed[w]) \cup {processed[w] + 1}
      BY <1>1, <1>3, <3>1 DEF WorkerTypeOK
    <3>4. Counted' = Counted \cup {<<w, processed[w] + 1>>}
      BY <3>2, <3>3 DEF Counted
    <3>5. <<w, processed[w] + 1>> \notin Counted
      <4>1. processed[w] + 1 \notin 1 .. processed[w]
        BY <3>1
      <4>2. QED
        BY <4>1 DEF Counted
    <3>6. QED
      BY <3>4, <3>5
  <2>7. ClosedIsCounted'
    <3>1. IsFiniteSet(Closed) /\ IsFiniteSet(Counted)
      BY <2>2, DrainAssumption, FS_Subset DEF ClosedIsCounted, Closed, Tracked
    <3>2. /\ IsFiniteSet(Counted \cup {<<w, processed[w] + 1>>})
          /\ Cardinality(Counted \cup {<<w, processed[w] + 1>>}) = Cardinality(Counted) + 1
      BY <2>6, <3>1, FS_AddElement
    <3>3. Cardinality(Closed \cup {key}) = Cardinality(Closed) + 1
      BY <2>5, <3>1, FS_AddElement
    <3>4. QED
      BY <2>2, <2>5, <2>6, <3>2, <3>3 DEF ClosedIsCounted
  <2>8. QED
    BY <2>3, <2>4, <2>7 DEF ClaimedIsHeld
<1>9. QED
  BY <1>7, <1>8 DEF InTime

LEMMA DieInTime ==
    ASSUME ClaimInv, InTime, NEW w \in Workers, Die(w)
    PROVE  InTime'
<1>1. WorkerTypeOK
  BY DEF ClaimInv, LedgerInv, OutcomeInv, TypeOK
<1>2. SomeoneDied' /\ UNCHANGED jobs
  BY <1>1 DEF Die, SomeoneDied, WorkerTypeOK, queueVars
<1>3. /\ Held(w)' = {} /\ cur'[w] \notin todo'[w]
      /\ \A v \in Workers \ {w} : /\ Held(v)' = Held(v)
                                  /\ cur'[v] = cur[v] /\ todo'[v] = todo[v]
  BY <1>1 DEF Die, Held, WorkerTypeOK
<1>4. HeldIsClaimed'
  BY <1>2, <1>3 DEF InTime, HeldIsClaimed
<1>5. QED
  BY <1>2, <1>4 DEF InTime

LEMMA NextDrainInv ==
    ASSUME DrainInv, [DrainNext]_drainVars
    PROVE  DrainInv'
<1>1. ClaimInv'
  BY NextClaimInv DEF DrainInv
<1>2. SUFFICES ASSUME ~late'
               PROVE  NoLeaseIsOut' /\ InTime'
  BY <1>1 DEF DrainInv, NoLeaseIsOut, InTime
<1>3. CASE UNCHANGED drainVars
  <2>1. UNCHANGED <<jobs, pc, todo, cur, processed, locks, late>>
    BY <1>3 DEF drainVars, vars, queueVars, workerVars, claimVars
  <2>2. NoLeaseIsOut /\ InTime
    BY <1>2, <2>1 DEF DrainInv, NoLeaseIsOut, InTime
  <2>3. QED
    BY <2>1, <2>2
    DEF NoLeaseIsOut, LeaseExpired, InTime, HeldIsClaimed, Held, SomeoneDied,
        ClaimedIsHeld, QueuedIsLocked, LockedInClaims, ClosedIsCounted, Closed,
        Tracked, Counted
<1>4. CASE DrainNext
  <2>1. ~late /\ \A k \in Tracked : ~LeaseExpired(k)'
    BY <1>2, <1>4 DEF DrainNext
  <2>2. ClaimInv /\ InTime /\ NoLeaseIsOut
    BY <2>1 DEF DrainInv, InTime, NoLeaseIsOut
  <2>3. TypeOK /\ WorkerTypeOK /\ LedgerInv /\ QueueIsFilled /\ Claims /\ HeldIsClaimed
    BY <2>2, ClaimsAre DEF ClaimInv, LedgerInv, OutcomeInv, TypeOK, InTime
  <2>4. NoLeaseIsOut'
    BY <2>1, <2>3, ClaimableIsFree DEF NoLeaseIsOut
  <2>5. ASSUME NEW w \in Workers, BeginClaim(w)
        PROVE  InTime'
    <3>1. UNCHANGED <<jobs, pc, todo, cur, processed, locks>>
      BY <2>5 DEF BeginClaim, vars, queueVars, workerVars
    <3>2. QED
      BY <2>2, <2>3, <3>1, NothingNewInTime DEF Held, HeldIsClaimed, QueueIsFilled
  <2>6. ASSUME NEW w \in Workers, ScanRow(w)
        PROVE  InTime'
    <3>1. UNCHANGED <<jobs, pc, todo, cur, processed>>
      BY <2>6 DEF ScanRow, vars, queueVars, workerVars
    <3>2. \A v \in Workers : locks[v] \subseteq locks'[v]
      BY <2>3, <2>6 DEF ScanRow, Claims
    <3>3. QED
      BY <2>2, <2>3, <3>1, <3>2, NothingNewInTime DEF Held, HeldIsClaimed, QueueIsFilled
  <2>7. ASSUME NEW w \in Workers, CommitClaim(w)
        PROVE  InTime'
    BY <2>2, <2>7, ClaimInTime, EmptyClaimInTime
  <2>8. ASSUME NEW w \in Workers, ProcessStep(w)
        PROVE  InTime'
    <3>1. /\ GoesOn(w) \/ Closes(w) \/ Die(w)
          /\ \A v \in Workers \ {w} : /\ pc'[v] = pc[v]
                                      /\ todo'[v] = todo[v]
                                      /\ cur'[v] = cur[v]
          /\ UNCHANGED locks
          /\ pc[w] # "down"
      BY <2>3, <2>8, ProcessMoves
    <3>2. CASE GoesOn(w)
      <4>1. \A v \in Workers :
                /\ Held(v)' = Held(v)
                /\ cur'[v] \notin todo'[v]
                /\ pc'[v] = "exited" => pc[v] = "exited"
                /\ pc[v] = "down" => pc'[v] = "down"
        BY <2>3, <3>1, <3>2 DEF GoesOn, Held, HeldIsClaimed
      <4>2. QED
        BY <2>2, <2>3, <3>1, <3>2, <4>1, NothingNewInTime DEF GoesOn, QueueIsFilled
    <3>3. QED
      BY <2>2, <3>1, <3>2, CloseInTime, DieInTime
  <2>9. ASSUME NEW w \in Workers, ClaimingWorkerDies(w)
        PROVE  InTime'
    BY <2>2, <2>9, DieInTime DEF ClaimingWorkerDies, WorkerDies, Kill
  <2>10. CASE ClaimsTakeTime
    <3>1. UNCHANGED <<pc, todo, cur, processed, locks>> /\ Tick
      BY <2>10 DEF ClaimsTakeTime, TimePasses, claimVars, workerVars
    <3>2. ASSUME NEW k \in Conversations
          PROVE  /\ jobs'[k] # Null
                 /\ jobs'[k].status = jobs[k].status
                 /\ jobs'[k].content_hash = jobs[k].content_hash
                 /\ jobs'[k].delivery_count = jobs[k].delivery_count
                 /\ jobs'[k].enqueued_at = jobs[k].enqueued_at
      <4>1. jobs'[k] # Null
        BY <1>1 DEF ClaimInv, QueueIsFilled
      <4>2. jobs[k] \in Row
        BY <2>3, FilledRows DEF TypeOK
      <4>3. jobs'[k] = jobs[k] \/ jobs'[k] = [jobs[k] EXCEPT !.claim_age = @ + 1]
        BY <3>1 DEF Tick
      <4>4. QED
        BY <4>1, <4>2, <4>3 DEF Row
    <3>3. \A w \in Workers : /\ Held(w)' = Held(w)
                             /\ cur'[w] \notin todo'[w]
                             /\ locks[w] \subseteq locks'[w]
      BY <2>3, <3>1 DEF Held, HeldIsClaimed
    <3>4. \A w \in Workers : /\ pc'[w] = "exited" => pc[w] = "exited"
                             /\ pc[w] = "down" => pc'[w] = "down"
      BY <3>1
    <3>5. UNCHANGED processed
      BY <3>1
    <3>6. QED
      BY <2>2, <2>4, <3>2, <3>3, <3>4, <3>5, NothingNewInTime
  <2>11. InTime'
    BY <1>4, <2>5, <2>6, <2>7, <2>8, <2>9, <2>10 DEF DrainNext, ClaimingWorkerRuns
  <2>12. QED
    BY <2>4, <2>11
<1>5. QED
  BY <1>3, <1>4

LEMMA InitDrainInv ==
    ASSUME DrainInit
    PROVE  DrainInv
<1>1. ClaimInv
  BY InitClaimInv
<1>2. \A k \in Conversations : ~LeaseExpired(k)
  <2>1. ~(0 > LeaseSeconds)
    BY QueueAssumption
  <2>2. QED
    BY <2>1, InitTables DEF LeaseExpired
<1>3. \A w \in Workers : Held(w) = {} /\ todo[w] = {} /\ pc[w] = "ready"
  BY DEF DrainInit, WorkerInit, Held
<1>4. HeldIsClaimed /\ ClaimedIsHeld /\ QueuedIsLocked
  BY <1>3, InitTables DEF HeldIsClaimed, ClaimedIsHeld, QueuedIsLocked
<1>5. Closed = {} /\ Counted = {}
  <2>1. Closed = {}
    BY InitTables DEF Closed, Tracked
  <2>2. \A w \in Workers : processed[w] = 0
    BY DEF DrainInit, WorkerInit
  <2>3. 1 .. 0 = {}
    OBVIOUS
  <2>4. \A w \in Workers : {w} \X (1 .. processed[w]) = {}
    BY <2>2, <2>3
  <2>5. QED
    BY <2>1, <2>4 DEF Counted
<1>6. ClosedIsCounted
  BY <1>5, FS_EmptySet DEF ClosedIsCounted
<1>7. QED
  BY <1>1, <1>2, <1>4, <1>6 DEF DrainInv

LEMMA AllExited ==
    ASSUME DrainInv
    PROVE  EveryJobExactlyOnce
<1> SUFFICES ASSUME ~late, \A w \in Workers : pc[w] = "exited"
             PROVE  /\ Closed = Conversations
                    /\ Cardinality(Conversations) = Cardinality(Counted)
  BY DEF EveryJobExactlyOnce
<1>1. ~SomeoneDied
  BY DEF SomeoneDied
<1>2. ClaimInv /\ ClaimedIsHeld /\ QueuedIsLocked /\ ClosedIsCounted
  BY <1>1 DEF DrainInv
<1>3. QueueTypeOK /\ WorkerTypeOK /\ QueueIsFilled
  BY <1>2 DEF ClaimInv, LedgerInv, OutcomeInv, TypeOK
<1>4. ASSUME NEW k \in Conversations
      PROVE  jobs[k].status \in {"done", "dead"}
  <2>1. jobs[k].status \in Statuses
    BY <1>3, FilledRows DEF Row
  <2>2. jobs[k].status # "claimed"
    <3>1. \A w \in Workers : Held(w) = {}
      BY <1>3, HeldJobs DEF WorkerTypeOK, Working
    <3>2. QED
      BY <1>2, <3>1 DEF ClaimedIsHeld
  <2>3. jobs[k].status # "queued"
    <3>1. \A w \in Workers : locks[w] = {}
      BY <1>2 DEF ClaimInv, ClaimTypeOK
    <3>2. k \notin LockedInClaims
      BY <3>1 DEF LockedInClaims
    <3>3. QED
      BY <1>2, <3>2, DrainAssumption DEF QueuedIsLocked
  <2>4. QED
    BY <2>1, <2>2, <2>3 DEF Statuses
<1>5. Closed = Conversations
  BY <1>3, <1>4 DEF Closed, Tracked, QueueIsFilled
<1>6. QED
  BY <1>2, <1>5 DEF ClosedIsCounted

(* Concurrent --once runs close every job and count each one once, however *)
(* their claims overlap, unless a lease runs out.                          *)
THEOREM DrainCountsEachJobOnce == DrainSpec => []EveryJobExactlyOnce
<1>1. DrainInit => DrainInv
  BY InitDrainInv
<1>2. DrainInv /\ [DrainNext]_drainVars => DrainInv'
  BY NextDrainInv
<1>3. DrainInv => EveryJobExactlyOnce
  BY AllExited
<1>4. QED
  BY <1>1, <1>2, <1>3, PTL DEF DrainSpec
=============================================================================
