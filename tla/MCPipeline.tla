----------------------------- MODULE MCPipeline -----------------------------
(***************************************************************************)
(* Small instances of Pipeline for TLC.                                    *)
(***************************************************************************)
EXTENDS Pipeline, TLC

CONSTANTS
    c1, c2,         \* conversations
    d1, d2, d2b,    \* a document of c1, and two versions of one of c2
    d1r,            \* d1 as Postgres renders it (a number in it, say)
    w1, w2,         \* workers
    i1,             \* an ingester
    f1, f2          \* file names

MCKeyOf == [d \in Documents |-> IF d \in {d1, d1r} THEN c1 ELSE c2]

(* Postgres gives every document back as it was, or all but d1.            *)
Unchanged == [d \in Documents |-> d]
RendersD1 == [d \in Documents |-> IF d = d1 THEN d1r ELSE d]

AllScored == [d \in Documents |-> "scored"]
EachOne == [d \in Documents |->
                CASE d \in {d1, d1r} -> "partial" [] d = d2 -> "rejected" [] d = d2b -> "scored"]
RejectsD2 == [d \in Documents |-> IF d = d2 THEN "rejected" ELSE "scored"]

(* One version of everything, in one directory; or c2 changes between two  *)
(* ingests.                                                                *)
BothFiles == <<[name |-> f1, content |-> d1], [name |-> f2, content |-> d2]>>
OnlyOld == <<[name |-> f2, content |-> d2]>>
OnlyNew == <<[name |-> f2, content |-> d2b]>>

OneVersion == {BothFiles}
OneConversation == {OnlyOld}
TwoVersions == {BothFiles, OnlyNew}
Update == {OnlyOld, OnlyNew}

WorkerSymmetry == Permutations(Workers)
=============================================================================
