----------------------------- MODULE FakeQueue ------------------------------
(***************************************************************************)
(* FakeQueue (queue.py), the in-memory queue of the tests: a dict from     *)
(* keys to rows.  A dict iterates in the order in which its keys were      *)
(* first inserted, and replacing the row of a key leaves the key in place. *)
(*                                                                         *)
(* stamps is a history variable: the number of the enqueue that last wrote *)
(* each row, which is what PgJobQueue orders by.                           *)
(***************************************************************************)
EXTENDS Contents, Naturals, FiniteSets, SequencesExt

CONSTANTS
    ClaimBatch,
    LeaseSeconds,
    MaxEnqueues,    \* bound: how many enqueues write a row
    MaxDeliveries   \* bound: how often the same row is claimed

ASSUME FakeQueueAssumption ==
    /\ ClaimBatch \in Nat
    /\ LeaseSeconds \in Nat
    /\ MaxEnqueues \in Nat
    /\ MaxDeliveries \in Nat

VARIABLES
    order,          \* the keys of _rows, first inserted first
    rows,           \* the values of _rows
    stamps,         \* for each key, the enqueue that wrote its row
    enqueues        \* how many enqueues have written

fakeVars == <<order, rows, stamps, enqueues>>

FakeRow == [content_hash   : Hashes,
            status         : {"queued", "claimed", "done"},
            claim_age      : 0 .. LeaseSeconds + 1,
            delivery_count : Nat]

FakeTypeOK ==
    /\ order \in Seq(Conversations)
    /\ IsInjective(order)
    /\ rows \in [ToSet(order) -> FakeRow]
    /\ stamps \in [ToSet(order) -> 1 .. enqueues]
    /\ enqueues \in 0 .. MaxEnqueues

FakeInit ==
    /\ order = <<>>
    /\ rows = <<>>
    /\ stamps = <<>>
    /\ enqueues = 0

InRows(k) == k \in DOMAIN rows

NewRow(hash) == [content_hash |-> hash, status |-> "queued",
                 claim_age    |-> 0,    delivery_count |-> 0]

(* Mutant: a changed key gets a second place in the order. *)
FakeEnqueueAppends(k, hash) ==
    /\ enqueues < MaxEnqueues
    /\ InRows(k) => rows[k].content_hash # hash
    /\ rows' = [l \in DOMAIN rows \cup {k} |->
                    IF l = k THEN NewRow(hash) ELSE rows[l]]
    /\ order' = Append(order, k)
    /\ enqueues' = enqueues + 1
    /\ stamps' = [l \in DOMAIN rows' |->
                    IF l = k THEN enqueues' ELSE stamps[l]]

(* Mutant: a changed key keeps the deliveries of its old content. *)
FakeEnqueueKeepsCount(k, hash) ==
    /\ enqueues < MaxEnqueues
    /\ InRows(k) => rows[k].content_hash # hash
    /\ rows' = [l \in DOMAIN rows \cup {k} |->
                    IF l # k THEN rows[l]
                    ELSE IF ~InRows(k) THEN NewRow(hash)
                    ELSE [NewRow(hash) EXCEPT !.delivery_count =
                                                rows[k].delivery_count]]
    /\ order' = IF InRows(k) THEN order ELSE Append(order, k)
    /\ enqueues' = enqueues + 1
    /\ stamps' = [l \in DOMAIN rows' |->
                    IF l = k THEN enqueues' ELSE stamps[l]]

FakeEnqueue(k, hash) ==
    /\ enqueues < MaxEnqueues
    /\ InRows(k) => rows[k].content_hash # hash
    /\ rows' = [l \in DOMAIN rows \cup {k} |->
                    IF l = k THEN NewRow(hash) ELSE rows[l]]
    /\ order' = IF InRows(k) THEN order ELSE Append(order, k)
    /\ enqueues' = enqueues + 1
    /\ stamps' = [l \in DOMAIN rows' |->
                    IF l = k THEN enqueues' ELSE stamps[l]]

Stale(k) == rows[k].status = "claimed" /\ rows[k].claim_age > LeaseSeconds

FakeClaimable(k) == rows[k].status = "queued" \/ Stale(k)

(* The first ClaimBatch claimable rows in the order of the dict.           *)
ClaimableBefore(n) == {m \in 1 .. n - 1 : FakeClaimable(order[m])}

(* Mutant: the length of the batch is checked too late. *)
FirstClaimableOneMore ==
    {order[n] : n \in {m \in DOMAIN order :
                        /\ FakeClaimable(order[m])
                        /\ Cardinality(ClaimableBefore(m)) <= ClaimBatch}}

FirstClaimable ==
    {order[n] : n \in {m \in DOMAIN order :
                        /\ FakeClaimable(order[m])
                        /\ Cardinality(ClaimableBefore(m)) < ClaimBatch}}

FakeClaim ==
    /\ FirstClaimable # {}
    /\ \A k \in FirstClaimable : rows[k].delivery_count < MaxDeliveries
    /\ rows' = [k \in DOMAIN rows |->
                    IF k \in FirstClaimable
                    THEN [rows[k] EXCEPT !.status = "claimed",
                                         !.claim_age = 0,
                                         !.delivery_count = @ + 1]
                    ELSE rows[k]]
    /\ UNCHANGED <<order, stamps, enqueues>>

FakeMarkDone(k) ==
    /\ InRows(k)
    /\ rows' = [rows EXCEPT ![k].status = "done", ![k].claim_age = 0]
    /\ UNCHANGED <<order, stamps, enqueues>>

Aging(k) == rows[k].status = "claimed" /\ rows[k].claim_age <= LeaseSeconds

FakeTick ==
    /\ \E k \in DOMAIN rows : Aging(k)
    /\ rows' = [k \in DOMAIN rows |->
                    IF Aging(k) THEN [rows[k] EXCEPT !.claim_age = @ + 1]
                                ELSE rows[k]]
    /\ UNCHANGED <<order, stamps, enqueues>>

FakeNext ==
    \/ \E d \in Documents : FakeEnqueue(KeyOf[d], ContentHash(d))
    \/ FakeClaim
    \/ \E k \in Conversations : FakeMarkDone(k)
    \/ FakeTick

FakeSpec == FakeInit /\ [][FakeNext]_fakeVars

(***************************************************************************)
(* queue.py:130: "same behaviour as PgJobQueue, no DB".                    *)
(***************************************************************************)
AsJobs ==
    [k \in Conversations |->
        IF InRows(k)
        THEN [content_hash   |-> rows[k].content_hash,
              status         |-> rows[k].status,
              claim_age      |-> rows[k].claim_age,
              delivery_count |-> rows[k].delivery_count,
              enqueued_at    |-> stamps[k]]
        ELSE Null]

Pg == INSTANCE JobQueue WITH jobs <- AsJobs, clock <- enqueues

ASSUME NullIsNoPgRow == Null \notin Pg!Row

(* A row that is requeued keeps its place in the dict, while PgJobQueue    *)
(* sends it to the back.                                                   *)
ClaimableInOrder ==
    \A m, n \in DOMAIN order :
        m < n /\ FakeClaimable(order[m]) /\ FakeClaimable(order[n])
            => stamps[order[m]] < stamps[order[n]]

BatchTakesAll ==
    Cardinality({k \in DOMAIN rows : FakeClaimable(k)}) <= ClaimBatch

ClaimOutOfOrder == FakeClaim /\ ~ClaimableInOrder /\ ~BatchTakesAll

(* Every step of the fake is a step PgJobQueue could have taken: it resets *)
(* the same columns, and claims the same rows unless some of those to      *)
(* choose from have overtaken each other and a batch leaves some of them.  *)
BehavesLikePg ==
    Pg!QueueInit /\ [][Pg!QueueNext \/ ClaimOutOfOrder]_(Pg!queueVars)

(***************************************************************************)
(* What makes this inductive                                               *)
(***************************************************************************)
NoNewVersions == \A d, e \in Documents : KeyOf[d] = KeyOf[e] => d = e

HashIsOfTheKey ==
    \A k \in DOMAIN rows : \E d \in Documents :
        KeyOf[d] = k /\ rows[k].content_hash = ContentHash(d)

OldestFirst ==
    \A m, n \in DOMAIN order : m < n => stamps[order[m]] < stamps[order[n]]

FakeInv ==
    FakeTypeOK /\ HashIsOfTheKey /\ (NoNewVersions => OldestFirst)
=============================================================================
