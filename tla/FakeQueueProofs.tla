--------------------------- MODULE FakeQueueProofs ---------------------------
(***************************************************************************)
(* Proofs about FakeQueue: the types, and how far it refines PgJobQueue.   *)
(***************************************************************************)
EXTENDS FakeQueue, FiniteSetTheorems, SequenceTheorems, TLAPS

(***************************************************************************)
(* The dict                                                                *)
(***************************************************************************)
LEMMA Keys ==
    ASSUME FakeTypeOK
    PROVE  /\ DOMAIN rows = ToSet(order) /\ DOMAIN rows \subseteq Conversations
           /\ Len(order) \in Nat /\ DOMAIN order = 1 .. Len(order)
           /\ \A m \in DOMAIN order : order[m] \in DOMAIN rows
           /\ \A k \in DOMAIN rows : \E m \in DOMAIN order : order[m] = k
           /\ \A k \in DOMAIN rows : rows[k] \in FakeRow /\ stamps[k] \in Nat
                                                        /\ stamps[k] <= enqueues
<1>1. order \in Seq(Conversations) /\ rows \in [ToSet(order) -> FakeRow]
      /\ stamps \in [ToSet(order) -> 1 .. enqueues] /\ enqueues \in Nat
  BY FakeQueueAssumption DEF FakeTypeOK
<1>2. Len(order) \in Nat /\ DOMAIN order = 1 .. Len(order)
      /\ \A m \in DOMAIN order : order[m] \in Conversations
  BY <1>1
<1>3. ToSet(order) = {order[m] : m \in DOMAIN order}
  BY DEF ToSet
<1>4. \A k \in ToSet(order) : stamps[k] \in Nat /\ stamps[k] <= enqueues
  BY <1>1
<1>5. QED
  BY <1>1, <1>2, <1>3, <1>4

(* A new key comes last, a known one stays where it is.                    *)
LEMMA KeysAfterEnqueue ==
    ASSUME FakeTypeOK, NEW k \in Conversations,
           order' = IF InRows(k) THEN order ELSE Append(order, k)
    PROVE  /\ order' \in Seq(Conversations) /\ IsInjective(order')
           /\ ToSet(order') = DOMAIN rows \cup {k}
           /\ ~InRows(k) => /\ DOMAIN order' = 1 .. Len(order) + 1
                            /\ \A m \in DOMAIN order : order'[m] = order[m]
                            /\ order'[Len(order) + 1] = k
<1>1. order \in Seq(Conversations) /\ IsInjective(order)
  BY DEF FakeTypeOK
<1>2. CASE InRows(k)
  BY <1>1, <1>2, Keys DEF InRows
<1>3. CASE ~InRows(k)
  <2>1. /\ order' \in Seq(Conversations)
        /\ DOMAIN order' = 1 .. Len(order) + 1
        /\ \A m \in DOMAIN order : order'[m] = order[m]
        /\ order'[Len(order) + 1] = k
    BY <1>1, <1>3, AppendProperties
  <2>2. Len(order) \in Nat /\ DOMAIN order = 1 .. Len(order)
    BY Keys
  <2>3. \A m \in DOMAIN order : order[m] # k
    BY <1>3, Keys DEF InRows
  <2>4. IsInjective(order')
    BY <1>1, <2>1, <2>2, <2>3 DEF IsInjective
  <2>5. ToSet(order') = DOMAIN rows \cup {k}
    BY <2>1, <2>2, Keys DEF ToSet
  <2>6. QED
    BY <2>1, <2>4, <2>5
<1>4. QED
  BY <1>2, <1>3

LEMMA EnqueueKeepsInv ==
    ASSUME FakeInv, NEW d \in Documents, FakeEnqueue(KeyOf[d], ContentHash(d))
    PROVE  FakeInv'
<1> DEFINE key == KeyOf[d]
<1>1. key \in Conversations /\ ContentHash(d) \in Hashes
  BY KeyOfType DEF Hashes
<1>2. FakeTypeOK /\ enqueues \in Nat /\ enqueues' = enqueues + 1 /\ enqueues' \in 0 .. MaxEnqueues
  BY FakeQueueAssumption DEF FakeInv, FakeTypeOK, FakeEnqueue
<1>3. /\ DOMAIN rows' = DOMAIN rows \cup {key}
      /\ \A k \in DOMAIN rows' :
            /\ rows'[k] = IF k = key THEN NewRow(ContentHash(d)) ELSE rows[k]
            /\ stamps'[k] = IF k = key THEN enqueues' ELSE stamps[k]
      /\ rows' = [k \in DOMAIN rows' |-> rows'[k]]
      /\ stamps' = [k \in DOMAIN rows' |-> stamps'[k]]
      /\ order' = IF InRows(key) THEN order ELSE Append(order, key)
  BY DEF FakeEnqueue
<1>4. NewRow(ContentHash(d)) \in FakeRow
  BY <1>1, FakeQueueAssumption DEF NewRow, FakeRow
<1>5. FakeTypeOK'
  <2>1. ToSet(order') = DOMAIN rows' /\ order' \in Seq(Conversations) /\ IsInjective(order')
    BY <1>1, <1>2, <1>3, KeysAfterEnqueue
  <2>2. ASSUME NEW k \in DOMAIN rows'
        PROVE  rows'[k] \in FakeRow /\ stamps'[k] \in 1 .. enqueues'
    BY <1>2, <1>3, <1>4, Keys DEF FakeTypeOK
  <2>3. QED
    BY <1>2, <1>3, <2>1, <2>2 DEF FakeTypeOK
<1>6. HashIsOfTheKey'
  <2>1. NewRow(ContentHash(d)).content_hash = ContentHash(d)
    BY DEF NewRow
  <2>2. QED
    BY <1>3, <2>1 DEF FakeInv, HashIsOfTheKey
<1>7. ASSUME NoNewVersions
      PROVE  OldestFirst'
  <2>1. ~InRows(key)
    <3>1. InRows(key) => rows[key].content_hash # ContentHash(d)
      BY DEF FakeEnqueue
    <3>2. InRows(key) => rows[key].content_hash = ContentHash(d)
      BY <1>7 DEF FakeInv, HashIsOfTheKey, NoNewVersions, InRows
    <3>3. QED
      BY <3>1, <3>2
  <2>2. /\ DOMAIN order' = 1 .. Len(order) + 1
        /\ \A m \in DOMAIN order : order'[m] = order[m] /\ order[m] # key
        /\ order'[Len(order) + 1] = key
    BY <1>1, <1>2, <1>3, <2>1, KeysAfterEnqueue, Keys DEF InRows
  <2>3. /\ DOMAIN order = 1 .. Len(order) /\ Len(order) \in Nat
        /\ \A m \in DOMAIN order : /\ stamps'[order'[m]] = stamps[order[m]]
                                   /\ stamps[order[m]] \in Nat
                                   /\ stamps[order[m]] <= enqueues
    BY <1>2, <1>3, <2>2, Keys
  <2>4. stamps'[order'[Len(order) + 1]] = enqueues + 1
    BY <1>2, <1>3, <2>2
  <2>5. OldestFirst
    BY <1>7 DEF FakeInv
  <2>6. QED
    BY <1>2, <2>2, <2>3, <2>4, <2>5 DEF OldestFirst
<1>8. QED
  BY <1>5, <1>6, <1>7 DEF FakeInv, NoNewVersions

(* The other operations write rows where they are.                         *)
LEMMA RewriteKeepsInv ==
    ASSUME FakeInv, UNCHANGED <<order, stamps, enqueues>>,
           rows' = [k \in DOMAIN rows |-> rows'[k]],
           \A k \in DOMAIN rows : /\ rows'[k] \in FakeRow
                                  /\ rows'[k].content_hash = rows[k].content_hash
    PROVE  FakeInv'
<1>1. FakeTypeOK'
  BY Keys DEF FakeInv, FakeTypeOK
<1>2. HashIsOfTheKey'
  BY DEF FakeInv, HashIsOfTheKey
<1>3. OldestFirst' <=> OldestFirst
  BY DEF OldestFirst
<1>4. QED
  BY <1>1, <1>2, <1>3 DEF FakeInv, NoNewVersions

LEMMA NextFakeInv ==
    ASSUME FakeInv, [FakeNext]_fakeVars
    PROVE  FakeInv'
<1>1. ASSUME NEW k \in DOMAIN rows
      PROVE  /\ rows[k] \in FakeRow
             /\ [rows[k] EXCEPT !.status = "claimed", !.claim_age = 0,
                                !.delivery_count = @ + 1] \in FakeRow
             /\ [rows[k] EXCEPT !.status = "done", !.claim_age = 0] \in FakeRow
             /\ Aging(k) => [rows[k] EXCEPT !.claim_age = @ + 1] \in FakeRow
  <2>1. rows[k] \in FakeRow
    BY Keys DEF FakeInv
  <2>2. 0 \in 0 .. LeaseSeconds + 1
    BY FakeQueueAssumption
  <2>3. Aging(k) => rows[k].claim_age + 1 \in 0 .. LeaseSeconds + 1
    BY <2>1, FakeQueueAssumption DEF FakeRow, Aging
  <2>4. rows[k].delivery_count + 1 \in Nat
    BY <2>1 DEF FakeRow
  <2>5. QED
    BY <2>1, <2>2, <2>3, <2>4 DEF FakeRow
<1>2. CASE \E d \in Documents : FakeEnqueue(KeyOf[d], ContentHash(d))
  BY <1>2, EnqueueKeepsInv
<1>3. CASE FakeClaim
  <2>1. ASSUME NEW k \in DOMAIN rows
        PROVE  rows'[k] \in FakeRow /\ rows'[k].content_hash = rows[k].content_hash
    BY <1>1, <1>3 DEF FakeClaim, FakeRow
  <2>2. QED
    BY <1>3, <2>1, RewriteKeepsInv DEF FakeClaim
<1>4. CASE \E k \in Conversations : FakeMarkDone(k)
  <2>1. PICK k \in DOMAIN rows :
            /\ rows' = [rows EXCEPT ![k] = [rows[k] EXCEPT !.status = "done",
                                                            !.claim_age = 0]]
            /\ UNCHANGED <<order, stamps, enqueues>>
    BY <1>4 DEF FakeMarkDone, InRows
  <2>2. ASSUME NEW l \in DOMAIN rows
        PROVE  rows'[l] \in FakeRow /\ rows'[l].content_hash = rows[l].content_hash
    BY <1>1, <2>1 DEF FakeRow
  <2>3. rows' = [l \in DOMAIN rows |-> rows'[l]]
    BY <2>1
  <2>4. QED
    BY <2>1, <2>2, <2>3, RewriteKeepsInv
<1>5. CASE FakeTick
  <2>1. ASSUME NEW k \in DOMAIN rows
        PROVE  rows'[k] \in FakeRow /\ rows'[k].content_hash = rows[k].content_hash
    BY <1>1, <1>5 DEF FakeTick, FakeRow
  <2>2. QED
    BY <1>5, <2>1, RewriteKeepsInv DEF FakeTick
<1>6. CASE UNCHANGED fakeVars
  BY <1>6 DEF fakeVars, FakeInv, FakeTypeOK, HashIsOfTheKey, NoNewVersions, OldestFirst
<1>7. QED
  BY <1>2, <1>3, <1>4, <1>5, <1>6 DEF FakeNext

LEMMA InitFakeInv ==
    ASSUME FakeInit
    PROVE  FakeInv
<1>1. order = <<>> /\ DOMAIN order = {} /\ ToSet(order) = {}
  BY DEF FakeInit, ToSet
<1>2. rows = <<>> /\ stamps = <<>> /\ DOMAIN rows = {} /\ DOMAIN stamps = {}
  BY DEF FakeInit
<1>3. FakeTypeOK
  <2>1. rows \in [{} -> FakeRow] /\ stamps \in [{} -> 1 .. enqueues]
    BY <1>2
  <2>2. order \in Seq(Conversations) /\ IsInjective(order)
    BY <1>1 DEF IsInjective
  <2>3. QED
    BY <1>1, <2>1, <2>2, FakeQueueAssumption DEF FakeInit, FakeTypeOK
<1>4. QED
  BY <1>1, <1>2, <1>3 DEF FakeInv, HashIsOfTheKey, OldestFirst

LEMMA FakeAlways == FakeSpec => []FakeInv
BY InitFakeInv, NextFakeInv, PTL DEF FakeSpec

(* The rows have their types and no key is in the dict twice, whatever is  *)
(* requeued.                                                               *)
THEOREM FakeTypeCorrect == FakeSpec => []FakeTypeOK
<1>1. FakeInv => FakeTypeOK
  BY DEF FakeInv
<1>2. QED
  BY <1>1, FakeAlways, PTL

(***************************************************************************)
(* The batch                                                               *)
(***************************************************************************)
LEMMA JobRow ==
    ASSUME FakeTypeOK, NEW k \in DOMAIN rows
    PROVE  /\ k \in Conversations
           /\ AsJobs[k] = [content_hash   |-> rows[k].content_hash,
                          status         |-> rows[k].status,
                          claim_age      |-> rows[k].claim_age,
                          delivery_count |-> rows[k].delivery_count,
                          enqueued_at    |-> stamps[k]]
           /\ AsJobs[k].content_hash = rows[k].content_hash
           /\ AsJobs[k].status = rows[k].status
           /\ AsJobs[k].claim_age = rows[k].claim_age
           /\ AsJobs[k].enqueued_at = stamps[k]
           /\ AsJobs[k] # Null
<1>1. k \in Conversations /\ rows[k] \in FakeRow /\ stamps[k] \in Nat
  BY Keys
<1>2. AsJobs[k] = [content_hash   |-> rows[k].content_hash,
                   status         |-> rows[k].status,
                   claim_age      |-> rows[k].claim_age,
                   delivery_count |-> rows[k].delivery_count,
                   enqueued_at    |-> stamps[k]]
  BY <1>1 DEF AsJobs, InRows
<1>3. AsJobs[k] \in Pg!Row
  BY <1>1, <1>2 DEF FakeRow, Pg!Row, Pg!Statuses, Pg!Hashes, Hashes,
                    Pg!ContentHash, ContentHash
<1>4. QED
  BY <1>1, <1>2, <1>3, NullIsNoPgRow

LEMMA SameClaimable ==
    ASSUME FakeTypeOK
    PROVE  /\ Pg!Tracked = DOMAIN rows
           /\ Pg!Claimable = {k \in DOMAIN rows : FakeClaimable(k)}
<1>1. Pg!Tracked = DOMAIN rows
  <2>1. \A k \in Conversations \ DOMAIN rows : AsJobs[k] = Null
    BY DEF AsJobs, InRows
  <2>2. \A k \in DOMAIN rows : k \in Conversations /\ AsJobs[k] # Null
    BY Keys, JobRow
  <2>3. QED
    BY <2>1, <2>2 DEF Pg!Tracked
<1>2. \A k \in DOMAIN rows : /\ AsJobs[k].status = rows[k].status
                            /\ AsJobs[k].claim_age = rows[k].claim_age
  BY JobRow
<1>3. QED
  BY <1>1, <1>2 DEF Pg!Claimable, Pg!Open, Pg!LeaseExpired, FakeClaimable, Stale

(* The claimable keys before a place in the dict are as many as there are  *)
(* claimable places before it.                                             *)
KeysBefore(n) == {order[m] : m \in ClaimableBefore(n)}

LEMMA AsManyBefore ==
    ASSUME FakeTypeOK, NEW n \in DOMAIN order
    PROVE  /\ IsFiniteSet(KeysBefore(n))
           /\ Cardinality(KeysBefore(n)) = Cardinality(ClaimableBefore(n))
           /\ Cardinality(KeysBefore(n)) \in Nat
           /\ order[n] \notin KeysBefore(n)
           /\ KeysBefore(n) \subseteq Pg!Claimable
<1>1. /\ DOMAIN order = 1 .. Len(order) /\ Len(order) \in Nat
      /\ IsInjective(order)
      /\ \A m \in DOMAIN order : order[m] \in DOMAIN rows
  BY Keys DEF FakeTypeOK
<1>2. ClaimableBefore(n) \subseteq 1 .. n - 1 /\ ClaimableBefore(n) \subseteq DOMAIN order
      /\ n \notin ClaimableBefore(n)
  BY <1>1 DEF ClaimableBefore
<1>3. IsFiniteSet(ClaimableBefore(n))
  <2>1. n - 1 \in Int
    BY <1>1
  <2>2. IsFiniteSet(1 .. n - 1)
    BY <2>1, FS_Interval
  <2>3. QED
    BY <1>2, <2>2, FS_Subset
<1>4. ExistsBijection(ClaimableBefore(n), KeysBefore(n))
  <2> DEFINE f == [m \in ClaimableBefore(n) |-> order[m]]
  <2>1. f \in [ClaimableBefore(n) -> KeysBefore(n)]
    BY DEF KeysBefore
  <2>2. IsInjective(f)
    BY <1>1, <1>2 DEF IsInjective
  <2>3. \A k \in KeysBefore(n) : \E m \in ClaimableBefore(n) : f[m] = k
    BY DEF KeysBefore
  <2>4. f \in Bijection(ClaimableBefore(n), KeysBefore(n))
    BY <2>1, <2>2, <2>3 DEF Bijection, Injection, Surjection
  <2>5. QED
    BY <2>4 DEF ExistsBijection
<1>5. IsFiniteSet(KeysBefore(n))
      /\ Cardinality(KeysBefore(n)) = Cardinality(ClaimableBefore(n))
  BY <1>3, <1>4, FS_Bijection
<1>6. order[n] \notin KeysBefore(n)
  BY <1>1, <1>2 DEF KeysBefore, IsInjective
<1>7. KeysBefore(n) \subseteq Pg!Claimable
  BY <1>1, <1>2, SameClaimable DEF KeysBefore, ClaimableBefore
<1>8. QED
  BY <1>5, <1>6, <1>7, FS_CardinalityType

LEMMA SameCardinality == \A S : Pg!Cardinality(S) = Cardinality(S)
BY DEF Pg!Cardinality, Cardinality

LEMMA SameBatch ==
    ASSUME FakeTypeOK, ClaimableInOrder \/ BatchTakesAll
    PROVE  FirstClaimable = Pg!Batch({})
<1> DEFINE S == Pg!Claimable
           Older(k) == {j \in S : AsJobs[j].enqueued_at < AsJobs[k].enqueued_at}
<1>1. S = {k \in DOMAIN rows : FakeClaimable(k)}
  BY SameClaimable
<1>2. Pg!Batch({}) = {k \in S : Cardinality(Older(k)) < ClaimBatch}
  <2>1. S \ {} = S
    OBVIOUS
  <2>2. Pg!Batch({}) = Pg!Oldest(S, ClaimBatch)
    BY <2>1 DEF Pg!Batch
  <2>3. QED
    BY <2>2, SameCardinality DEF Pg!Oldest
<1>3. FirstClaimable =
        {order[n] : n \in {m \in DOMAIN order : order[m] \in S
                                    /\ Cardinality(KeysBefore(m)) < ClaimBatch}}
  <2>1. \A m \in DOMAIN order : /\ order[m] \in S <=> FakeClaimable(order[m])
                               /\ Cardinality(KeysBefore(m)) = Cardinality(ClaimableBefore(m))
    BY <1>1, Keys, AsManyBefore
  <2>2. QED
    BY <2>1 DEF FirstClaimable
<1>4. SUFFICES ASSUME NEW n \in DOMAIN order, order[n] \in S
               PROVE  Cardinality(KeysBefore(n)) < ClaimBatch
                        <=> Cardinality(Older(order[n])) < ClaimBatch
  <2>1. \A k \in S : \E n \in DOMAIN order : order[n] = k
    BY <1>1, Keys
  <2>2. QED
    BY <1>2, <1>3, <1>4, <2>1
<1>5. CASE ClaimableInOrder
  <2>1. \A l, m \in DOMAIN order : l < m /\ order[l] \in S /\ order[m] \in S
                                    => stamps[order[l]] < stamps[order[m]]
    BY <1>1, <1>5 DEF ClaimableInOrder
  <2>2. \A m \in DOMAIN order : AsJobs[order[m]].enqueued_at = stamps[order[m]]
                               /\ stamps[order[m]] \in Nat
    BY <1>1, Keys, JobRow
  <2>3. DOMAIN order = 1 .. Len(order) /\ Len(order) \in Nat
    BY <1>1, Keys
  <2>4. ASSUME NEW m \in DOMAIN order, order[m] \in S
        PROVE  AsJobs[order[m]].enqueued_at < AsJobs[order[n]].enqueued_at <=> m < n
    BY <1>4, <2>1, <2>2, <2>3, <2>4
  <2>5. \A m \in DOMAIN order : order[m] \in S /\ m < n <=> m \in ClaimableBefore(n)
    BY <1>1, <2>3, Keys DEF ClaimableBefore
  <2>6. ClaimableBefore(n) \subseteq DOMAIN order
    BY <2>3 DEF ClaimableBefore
  <2>7. ASSUME NEW k
        PROVE  k \in Older(order[n]) <=> k \in KeysBefore(n)
    <3>1. k \in S => \E m \in DOMAIN order : order[m] = k
      BY <1>1, Keys
    <3>2. k \in KeysBefore(n) <=> \E m \in DOMAIN order : /\ order[m] = k
                                                         /\ order[m] \in S /\ m < n
      BY <2>5, <2>6 DEF KeysBefore
    <3>3. QED
      BY <2>4, <3>1, <3>2
  <2>8. Older(order[n]) = KeysBefore(n)
    BY <2>7
  <2>9. QED
    BY <2>8
<1>6. CASE BatchTakesAll
  <2>1. IsFiniteSet(S)
    <3>1. IsFiniteSet(DOMAIN order)
      BY Keys, FS_Interval
    <3>2. order \in Surjection(DOMAIN order, DOMAIN rows)
      <4>1. order \in [DOMAIN order -> DOMAIN rows]
        BY Keys DEF FakeTypeOK
      <4>2. QED
        BY <4>1, Keys DEF Surjection
    <3>3. IsFiniteSet(DOMAIN rows)
      BY <3>1, <3>2, FS_Surjection
    <3>4. QED
      BY <1>1, <3>3, FS_Subset
  <2>2. /\ IsFiniteSet(S) /\ Cardinality(S) <= ClaimBatch
        /\ Cardinality(S) \in Nat
    BY <1>1, <1>6, <2>1, FS_CardinalityType DEF BatchTakesAll
  <2>3. ASSUME NEW T \in SUBSET S, order[n] \notin T
        PROVE  Cardinality(T) < ClaimBatch
    <3>1. IsFiniteSet(T) /\ Cardinality(T) <= Cardinality(S) /\ Cardinality(T) # Cardinality(S)
      BY <1>4, <2>2, <2>3, FS_Subset
    <3>2. Cardinality(T) \in Nat
      BY <3>1, FS_CardinalityType
    <3>3. QED
      BY <2>2, <3>1, <3>2, FakeQueueAssumption
  <2>4. order[n] \notin KeysBefore(n) /\ KeysBefore(n) \subseteq S
    BY <1>1, AsManyBefore
  <2>5. order[n] \notin Older(order[n]) /\ Older(order[n]) \subseteq S
    <3>1. AsJobs[order[n]].enqueued_at \in Nat
      BY <1>1, Keys, JobRow
    <3>2. QED
      BY <3>1
  <2>6. QED
    BY <2>3, <2>4, <2>5
<1>7. QED
  BY <1>5, <1>6

(***************************************************************************)
(* The steps                                                               *)
(***************************************************************************)
LEMMA EnqueueRefines ==
    ASSUME FakeInv, NEW d \in Documents, FakeEnqueue(KeyOf[d], ContentHash(d))
    PROVE  Pg!Enqueue(KeyOf[d], Pg!ContentHash(d))
<1> DEFINE key == KeyOf[d]
<1>1. FakeTypeOK /\ key \in Conversations /\ Pg!ContentHash(d) = ContentHash(d)
  BY KeyOfType DEF FakeInv, Pg!ContentHash, ContentHash
<1>2. Pg!IsNews(key, ContentHash(d))
  <2>1. InRows(key) => rows[key].content_hash # ContentHash(d)
    BY DEF FakeEnqueue
  <2>2. InRows(key) => AsJobs[key].content_hash = rows[key].content_hash
    BY <1>1, JobRow DEF InRows
  <2>3. ~InRows(key) => AsJobs[key] = Null
    BY <1>1 DEF AsJobs
  <2>4. QED
    BY <2>1, <2>2, <2>3 DEF Pg!IsNews
<1>3. AsJobs' = [AsJobs EXCEPT ![key] = [content_hash   |-> ContentHash(d),
                                         status         |-> "queued",
                                         claim_age      |-> 0,
                                         delivery_count |-> 0,
                                         enqueued_at    |-> enqueues + 1]]
  <2>1. \A k \in Conversations :
            /\ InRows(k)' <=> InRows(k) \/ k = key
            /\ k # key /\ InRows(k) => rows'[k] = rows[k] /\ stamps'[k] = stamps[k]
    BY DEF FakeEnqueue, InRows
  <2>2. rows'[key] = NewRow(ContentHash(d)) /\ stamps'[key] = enqueues + 1
    BY DEF FakeEnqueue
  <2>3. ASSUME NEW k \in Conversations, k # key
        PROVE  AsJobs'[k] = AsJobs[k]
    BY <2>1, <2>3 DEF AsJobs
  <2>4. AsJobs'[key] = [content_hash   |-> ContentHash(d),
                        status         |-> "queued",
                        claim_age      |-> 0,
                        delivery_count |-> 0,
                        enqueued_at    |-> enqueues + 1]
    <3>1. AsJobs'[key] = [content_hash   |-> rows'[key].content_hash,
                          status         |-> rows'[key].status,
                          claim_age      |-> rows'[key].claim_age,
                          delivery_count |-> rows'[key].delivery_count,
                          enqueued_at    |-> stamps'[key]]
      BY <1>1, <2>1 DEF AsJobs
    <3>2. QED
      BY <2>2, <3>1 DEF NewRow
  <2>5. /\ AsJobs' = [k \in Conversations |-> AsJobs'[k]]
        /\ AsJobs = [k \in Conversations |-> AsJobs[k]]
    BY DEF AsJobs
  <2>6. QED
    BY <1>1, <2>3, <2>4, <2>5
<1>4. enqueues' = enqueues + 1
  BY DEF FakeEnqueue
<1>5. QED
  BY <1>1, <1>2, <1>3, <1>4 DEF Pg!Enqueue

(* A row that is rewritten in place is rewritten in the table.             *)
LEMMA RowsRefine ==
    ASSUME FakeTypeOK, UNCHANGED stamps, DOMAIN rows' = DOMAIN rows
    PROVE  AsJobs' = [k \in Conversations |->
                        IF k \in DOMAIN rows
                        THEN [content_hash   |-> rows'[k].content_hash,
                              status         |-> rows'[k].status,
                              claim_age      |-> rows'[k].claim_age,
                              delivery_count |-> rows'[k].delivery_count,
                              enqueued_at    |-> stamps[k]]
                        ELSE AsJobs[k]]
BY DEF AsJobs, InRows

(* The columns that claim and mark_done write.                             *)
LEMMA WrittenColumns ==
    ASSUME FakeTypeOK, NEW k \in DOMAIN rows, NEW new
    PROVE  /\ [AsJobs[k] EXCEPT !.status = new, !.claim_age = 0]
                = [content_hash   |-> rows[k].content_hash,
                   status         |-> new,
                   claim_age      |-> 0,
                   delivery_count |-> rows[k].delivery_count,
                   enqueued_at    |-> stamps[k]]
           /\ [AsJobs[k] EXCEPT !.status = new, !.claim_age = 0, !.delivery_count = @ + 1]
                = [content_hash   |-> rows[k].content_hash,
                   status         |-> new,
                   claim_age      |-> 0,
                   delivery_count |-> rows[k].delivery_count + 1,
                   enqueued_at    |-> stamps[k]]
<1> DEFINE once == [AsJobs[k] EXCEPT !.status = new]
           twice == [once EXCEPT !.claim_age = 0]
<1>1. once = [content_hash   |-> rows[k].content_hash,
              status         |-> new,
              claim_age      |-> rows[k].claim_age,
              delivery_count |-> rows[k].delivery_count,
              enqueued_at    |-> stamps[k]]
  <2>1. AsJobs[k] = [content_hash   |-> rows[k].content_hash,
                     status         |-> rows[k].status,
                     claim_age      |-> rows[k].claim_age,
                     delivery_count |-> rows[k].delivery_count,
                     enqueued_at    |-> stamps[k]]
    BY JobRow
  <2>2. QED
    BY <2>1
<1>2. twice = [content_hash   |-> rows[k].content_hash,
               status         |-> new,
               claim_age      |-> 0,
               delivery_count |-> rows[k].delivery_count,
               enqueued_at    |-> stamps[k]]
  <2> HIDE DEF once
  <2>1. QED
    BY <1>1
<1>3. [twice EXCEPT !.delivery_count = @ + 1]
        = [content_hash   |-> rows[k].content_hash,
           status         |-> new,
           claim_age      |-> 0,
           delivery_count |-> rows[k].delivery_count + 1,
           enqueued_at    |-> stamps[k]]
  <2> HIDE DEF twice
  <2>1. QED
    BY <1>2
<1>4. QED
  BY <1>2, <1>3

LEMMA ClaimRefines ==
    ASSUME FakeInv, ClaimableInOrder \/ BatchTakesAll, FakeClaim
    PROVE  Pg!Claim(Pg!Batch({}))
<1> DEFINE S == FirstClaimable
<1>1. FakeTypeOK /\ S = Pg!Batch({})
  BY SameBatch DEF FakeInv
<1>2. S \subseteq DOMAIN rows
  BY <1>1, Keys DEF FirstClaimable
<1>3. /\ DOMAIN rows' = DOMAIN rows
      /\ \A k \in DOMAIN rows :
            rows'[k] = IF k \in S THEN [rows[k] EXCEPT !.status = "claimed",
                                                      !.claim_age = 0,
                                                      !.delivery_count = @ + 1]
                                  ELSE rows[k]
      /\ UNCHANGED <<stamps, enqueues>>
  BY DEF FakeClaim
<1>4. ASSUME NEW k \in DOMAIN rows
      PROVE  AsJobs'[k] = IF k \in S THEN [AsJobs[k] EXCEPT !.status = "claimed",
                                                           !.claim_age = 0,
                                                           !.delivery_count = @ + 1]
                                     ELSE AsJobs[k]
  <2>1. rows[k] \in FakeRow /\ k \in Conversations
    BY <1>1, Keys
  <2>2. AsJobs'[k] = [content_hash   |-> rows'[k].content_hash,
                      status         |-> rows'[k].status,
                      claim_age      |-> rows'[k].claim_age,
                      delivery_count |-> rows'[k].delivery_count,
                      enqueued_at    |-> stamps[k]]
    BY <1>1, <1>3, <2>1, RowsRefine
  <2>3. AsJobs[k] = [content_hash   |-> rows[k].content_hash,
                     status         |-> rows[k].status,
                     claim_age      |-> rows[k].claim_age,
                     delivery_count |-> rows[k].delivery_count,
                     enqueued_at    |-> stamps[k]]
    BY <1>1, JobRow
  <2>4. CASE k \in S
    <3>1. rows'[k] = [rows[k] EXCEPT !.status = "claimed", !.claim_age = 0,
                                     !.delivery_count = @ + 1]
      BY <1>3, <2>4
    <3>2. /\ rows'[k].content_hash = rows[k].content_hash
          /\ rows'[k].status = "claimed"
          /\ rows'[k].claim_age = 0
          /\ rows'[k].delivery_count = rows[k].delivery_count + 1
      BY <2>1, <3>1 DEF FakeRow
    <3>3. [AsJobs[k] EXCEPT !.status = "claimed", !.claim_age = 0,
                            !.delivery_count = @ + 1]
            = [content_hash   |-> rows[k].content_hash,
               status         |-> "claimed",
               claim_age      |-> 0,
               delivery_count |-> rows[k].delivery_count + 1,
               enqueued_at    |-> stamps[k]]
      BY <1>1, WrittenColumns
    <3>4. QED
      BY <2>2, <2>4, <3>2, <3>3
  <2>5. CASE k \notin S
    BY <1>3, <2>2, <2>3, <2>5
  <2>6. QED
    BY <2>4, <2>5
<1>5. ASSUME NEW k \in Conversations \ DOMAIN rows
      PROVE  AsJobs'[k] = AsJobs[k]
  BY <1>1, <1>3, RowsRefine
<1>6. AsJobs' = [k \in Conversations |-> AsJobs'[k]]
  BY DEF AsJobs
<1>7. AsJobs' = [k \in Conversations |->
                    IF k \in S THEN [AsJobs[k] EXCEPT !.status = "claimed",
                                                     !.claim_age = 0,
                                                     !.delivery_count = @ + 1]
                               ELSE AsJobs[k]]
  BY <1>2, <1>4, <1>5, <1>6
<1>8. QED
  BY <1>1, <1>3, <1>7 DEF Pg!Claim

LEMMA MarkDoneRefines ==
    ASSUME FakeInv, NEW k \in Conversations, FakeMarkDone(k)
    PROVE  Pg!MarkDone(k)
<1>1. FakeTypeOK /\ k \in DOMAIN rows
  BY DEF FakeInv, FakeMarkDone, InRows
<1>2. /\ rows' = [rows EXCEPT ![k] = [rows[k] EXCEPT !.status = "done", !.claim_age = 0]]
      /\ UNCHANGED <<stamps, enqueues>>
  BY <1>1 DEF FakeMarkDone
<1>3. rows[k] \in FakeRow
  BY <1>1, Keys
<1>4. ASSUME NEW l \in DOMAIN rows
      PROVE  AsJobs'[l] = IF l = k THEN [AsJobs[k] EXCEPT !.status = "done",
                                                          !.claim_age = 0]
                                   ELSE AsJobs[l]
  <2>1. AsJobs'[l] = [content_hash   |-> rows'[l].content_hash,
                      status         |-> rows'[l].status,
                      claim_age      |-> rows'[l].claim_age,
                      delivery_count |-> rows'[l].delivery_count,
                      enqueued_at    |-> stamps[l]]
    BY <1>1, <1>2, Keys, RowsRefine
  <2>2. AsJobs[l] = [content_hash   |-> rows[l].content_hash,
                     status         |-> rows[l].status,
                     claim_age      |-> rows[l].claim_age,
                     delivery_count |-> rows[l].delivery_count,
                     enqueued_at    |-> stamps[l]]
    BY <1>1, JobRow
  <2>3. CASE l = k
    <3>1. rows'[k] = [rows[k] EXCEPT !.status = "done", !.claim_age = 0]
      BY <1>1, <1>2
    <3>2. /\ rows'[k].content_hash = rows[k].content_hash
          /\ rows'[k].status = "done"
          /\ rows'[k].claim_age = 0
          /\ rows'[k].delivery_count = rows[k].delivery_count
      BY <1>3, <3>1 DEF FakeRow
    <3>3. [AsJobs[k] EXCEPT !.status = "done", !.claim_age = 0]
            = [content_hash   |-> rows[k].content_hash,
               status         |-> "done",
               claim_age      |-> 0,
               delivery_count |-> rows[k].delivery_count,
               enqueued_at    |-> stamps[k]]
      BY <1>1, <2>3, WrittenColumns
    <3>4. QED
      BY <2>1, <2>3, <3>2, <3>3
  <2>4. CASE l # k
    BY <1>2, <2>1, <2>2, <2>4
  <2>5. QED
    BY <2>3, <2>4
<1>5. ASSUME NEW l \in Conversations \ DOMAIN rows
      PROVE  AsJobs'[l] = AsJobs[l]
  BY <1>1, <1>2, RowsRefine
<1>6. AsJobs' = [l \in Conversations |-> AsJobs'[l]] /\ AsJobs = [l \in Conversations |-> AsJobs[l]]
  BY DEF AsJobs
<1>7. AsJobs' = [AsJobs EXCEPT ![k] = [AsJobs[k] EXCEPT !.status = "done", !.claim_age = 0]]
  BY <1>1, <1>4, <1>5, <1>6
<1>8. AsJobs[k] # Null
  BY <1>1, JobRow
<1>9. QED
  BY <1>2, <1>7, <1>8 DEF Pg!MarkDone, Pg!SetStatus

LEMMA TickRefines ==
    ASSUME FakeInv, FakeTick
    PROVE  Pg!Tick
<1>1. FakeTypeOK /\ Pg!Tracked = DOMAIN rows
  BY SameClaimable DEF FakeInv
<1>2. ASSUME NEW k \in DOMAIN rows
      PROVE  Aging(k) <=> AsJobs[k].status = "claimed" /\ ~Pg!LeaseExpired(k)
  <2>1. AsJobs[k].status = rows[k].status /\ AsJobs[k].claim_age = rows[k].claim_age
    BY <1>1, JobRow
  <2>2. rows[k].claim_age \in Nat
    <3>1. rows[k] \in FakeRow
      BY <1>1, Keys
    <3>2. QED
      BY <3>1, FakeQueueAssumption DEF FakeRow
  <2>3. QED
    BY <2>1, <2>2, FakeQueueAssumption DEF Aging, Pg!LeaseExpired
<1>3. /\ DOMAIN rows' = DOMAIN rows
      /\ \A k \in DOMAIN rows :
            rows'[k] = IF Aging(k) THEN [rows[k] EXCEPT !.claim_age = @ + 1] ELSE rows[k]
      /\ UNCHANGED <<stamps, enqueues>>
  BY DEF FakeTick
<1>4. ASSUME NEW k \in DOMAIN rows
      PROVE  AsJobs'[k] = IF Aging(k) THEN [AsJobs[k] EXCEPT !.claim_age = @ + 1]
                                      ELSE AsJobs[k]
  <2>1. rows[k] \in FakeRow
    BY <1>1, Keys
  <2>2. AsJobs'[k] = [content_hash   |-> rows'[k].content_hash,
                      status         |-> rows'[k].status,
                      claim_age      |-> rows'[k].claim_age,
                      delivery_count |-> rows'[k].delivery_count,
                      enqueued_at    |-> stamps[k]]
    BY <1>1, <1>3, Keys, RowsRefine
  <2>3. AsJobs[k] = [content_hash   |-> rows[k].content_hash,
                     status         |-> rows[k].status,
                     claim_age      |-> rows[k].claim_age,
                     delivery_count |-> rows[k].delivery_count,
                     enqueued_at    |-> stamps[k]]
    BY <1>1, JobRow
  <2>4. CASE Aging(k)
    <3>1. rows'[k] = [rows[k] EXCEPT !.claim_age = @ + 1]
      BY <1>3, <2>4
    <3>2. /\ rows'[k].content_hash = rows[k].content_hash
          /\ rows'[k].status = rows[k].status
          /\ rows'[k].claim_age = rows[k].claim_age + 1
          /\ rows'[k].delivery_count = rows[k].delivery_count
      BY <2>1, <3>1 DEF FakeRow
    <3>3. QED
      BY <2>2, <2>3, <2>4, <3>2
  <2>5. CASE ~Aging(k)
    BY <1>3, <2>2, <2>3, <2>5
  <2>6. QED
    BY <2>4, <2>5
<1>5. ASSUME NEW k \in Conversations \ DOMAIN rows
      PROVE  AsJobs'[k] = AsJobs[k]
  BY <1>1, <1>3, RowsRefine
<1>6. AsJobs' = [k \in Conversations |-> AsJobs'[k]]
  BY DEF AsJobs
<1>7. AsJobs' = [k \in Conversations |->
                    IF k \in Pg!Tracked /\ AsJobs[k].status = "claimed"
                                       /\ ~Pg!LeaseExpired(k)
                    THEN [AsJobs[k] EXCEPT !.claim_age = @ + 1]
                    ELSE AsJobs[k]]
  BY <1>1, <1>2, <1>4, <1>5, <1>6
<1>8. \E k \in Pg!Tracked : AsJobs[k].status = "claimed" /\ ~Pg!LeaseExpired(k)
  BY <1>1, <1>2 DEF FakeTick
<1>9. QED
  BY <1>3, <1>7, <1>8 DEF Pg!Tick

LEMMA NextRefines ==
    ASSUME FakeInv, [FakeNext]_fakeVars
    PROVE  [Pg!QueueNext \/ ClaimOutOfOrder]_(Pg!queueVars)
<1>1. CASE UNCHANGED fakeVars
  BY <1>1 DEF fakeVars, Pg!queueVars, AsJobs, InRows
<1>2. CASE FakeNext
  BY <1>2, EnqueueRefines, ClaimRefines, MarkDoneRefines, TickRefines
  DEF FakeNext, Pg!QueueNext, ClaimOutOfOrder
<1>3. QED
  BY <1>1, <1>2

LEMMA InitRefines == FakeInit => Pg!QueueInit
BY DEF FakeInit, Pg!QueueInit, AsJobs, InRows

(* FakeQueue takes only steps of PgJobQueue, but for a claim of some of    *)
(* several rows of which one has overtaken another.                        *)
THEOREM FakeRefinesPg == FakeSpec => BehavesLikePg
<1>1. FakeInv /\ [FakeNext]_fakeVars => [Pg!QueueNext \/ ClaimOutOfOrder]_(Pg!queueVars)
  BY NextRefines
<1>2. QED
  BY <1>1, InitRefines, FakeAlways, PTL DEF FakeSpec, BehavesLikePg

(* And for none at all as long as no content changes, with batches of any  *)
(* size, or as long as a batch takes all the conversations there are.      *)
LEMMA NeverOutOfOrder ==
    ASSUME NoNewVersions \/ (IsFiniteSet(Conversations)
                                /\ Cardinality(Conversations) <= ClaimBatch),
           FakeInv
    PROVE  ClaimableInOrder \/ BatchTakesAll
<1> DEFINE S == {k \in DOMAIN rows : FakeClaimable(k)}
<1>1. CASE NoNewVersions
  BY <1>1 DEF FakeInv, OldestFirst, ClaimableInOrder
<1>2. CASE IsFiniteSet(Conversations) /\ Cardinality(Conversations) <= ClaimBatch
  <2>1. S \subseteq Conversations
    BY Keys DEF FakeInv
  <2>2. Cardinality(S) <= Cardinality(Conversations) /\ IsFiniteSet(S)
    BY <1>2, <2>1, FS_Subset
  <2>3. Cardinality(S) \in Nat /\ Cardinality(Conversations) \in Nat
    BY <1>2, <2>2, FS_CardinalityType
  <2>4. QED
    BY <1>2, <2>2, <2>3, FakeQueueAssumption DEF BatchTakesAll
<1>3. QED
  BY <1>1, <1>2

THEOREM FakeImplementsPg ==
    ASSUME NoNewVersions \/ (IsFiniteSet(Conversations)
                                /\ Cardinality(Conversations) <= ClaimBatch)
    PROVE  FakeSpec => Pg!QueueSpec
<1>1. FakeInv /\ [FakeNext]_fakeVars => [Pg!QueueNext]_(Pg!queueVars)
  <2>1. FakeInv => ~ClaimOutOfOrder
    BY NeverOutOfOrder DEF ClaimOutOfOrder
  <2>2. QED
    BY <2>1, NextRefines
<1>2. QED
  BY <1>1, InitRefines, FakeAlways, PTL DEF FakeSpec, Pg!QueueSpec
=============================================================================
