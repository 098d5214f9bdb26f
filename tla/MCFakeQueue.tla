---------------------------- MODULE MCFakeQueue -----------------------------
(***************************************************************************)
(* Small instances of FakeQueue for TLC.                                   *)
(***************************************************************************)
EXTENDS FakeQueue

CONSTANTS c1, c2, c3, d1, d1b, d2, d3

MCKeyOf == [d \in Documents |->
                CASE d \in {d1, d1b} -> c1 [] d = d2 -> c2 [] d = d3 -> c3]

MCJsonb == [d \in Documents |-> d]
=============================================================================
