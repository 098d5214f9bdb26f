------------------------------ MODULE MCPoison ------------------------------
(***************************************************************************)
(* Pipeline with a history of the jobs that process_one went on with past  *)
(* the poison check.                                                       *)
(***************************************************************************)
EXTENDS Pipeline

CONSTANTS c1, c2, d1, d2, w1, i1, f1, f2

VARIABLE tried      \* the conversations some worker tried to process

MCKeyOf == [d \in Documents |-> IF d = d1 THEN c1 ELSE c2]

MCJsonb == [d \in Documents |-> d]

MCVerdict == [d \in Documents |-> "scored"]

BothFiles == {<<[name |-> f1, content |-> d1], [name |-> f2, content |-> d2]>>}

TriedInit == Init /\ tried = {}

TriedNext ==
    /\ Next
    /\ tried' = tried \cup {cur'[w].key : w \in {u \in Workers : pc'[u] = "lookup"}}

TriedSpec == TriedInit /\ [][TriedNext]_<<vars, tried>>

(* NOTES.md:201: it is a job that fails max_delivery times that is marked  *)
(* dead as max_delivery_exceeded; so it must have been tried.              *)
PoisonWasTried ==
    \A k \in Conversations :
        results[k] # Null /\ results[k].error = "max_delivery_exceeded"
            => k \in tried
=============================================================================
