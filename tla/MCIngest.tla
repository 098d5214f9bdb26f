------------------------------ MODULE MCIngest ------------------------------
(***************************************************************************)
(* Small instances of IngestAlone for TLC.                                 *)
(***************************************************************************)
EXTENDS IngestAlone, TLC

CONSTANTS c1, c2, d1, d1b, d2, dx, i1, i2, fa, fb, fc

MCKeyOf == [d \in Documents |-> IF d = d2 THEN c2 ELSE c1]

MCJsonb == [d \in Documents |-> d]

At(f, x) == [name |-> f, content |-> x]

(* A delivery with broken files between the good ones, and a later one in  *)
(* which c1 has changed and comes twice.                                   *)
FirstDelivery == <<At(fa, Unparseable), At(fb, d1), At(fc, d2)>>
LaterDelivery == <<At(fa, d1b), At(fb, NoIdentity), At(fc, d1)>>

(* A delivery in which ingest stops at a document Postgres cannot store.   *)
BadDelivery == <<At(fa, d2), At(fb, dx), At(fc, d1)>>

Deliveries == {FirstDelivery, LaterDelivery, BadDelivery}
OneDelivery == {FirstDelivery}

IngesterSymmetry == Permutations(Ingesters)
=============================================================================
