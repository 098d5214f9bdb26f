------------------------------- MODULE MCDrain ------------------------------
(***************************************************************************)
(* Small instances of Drain for TLC.                                       *)
(***************************************************************************)
EXTENDS Drain

CONSTANTS c1, c2, c3, d1, d2, d3

MCKeyOf == [d \in Documents |->
                CASE d = d1 -> c1 [] d = d2 -> c2 [] d = d3 -> c3]

MCJsonb == [d \in Documents |-> d]

MCVerdict == [d \in Documents |-> IF d = d2 THEN "rejected" ELSE "scored"]

NoDirectories == {}
=============================================================================
