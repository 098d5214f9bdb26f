------------------------------- MODULE Lists --------------------------------
(***************************************************************************)
(* What Python's loops, comprehensions and sums over lists compute, as     *)
(* recursive functions over the positions of a list.                       *)
(***************************************************************************)
EXTENDS Integers, Sequences

(* The positions in S that a loop has kept after m of n steps.             *)
KeptAfter(S, n) ==
    LET kept[m \in 0 .. n] ==
            IF m = 0 THEN <<>>
            ELSE IF m \in S THEN Append(kept[m - 1], m)
            ELSE kept[m - 1]
    IN  kept

(* The positions in S of a list of n, in order.                            *)
Ascending(S, n) == KeptAfter(S, n)[n]

(* [x for x in list if ...], given the positions for which it holds.       *)
Only(list, S) ==
    LET kept == Ascending(S, Len(list))
    IN  [i \in DOMAIN kept |-> list[kept[i]]]

(* The sum of the first m elements, for each m.                            *)
Sums(list) ==
    LET sum[m \in 0 .. Len(list)] ==
            IF m = 0 THEN 0 ELSE sum[m - 1] + list[m]
    IN  sum

SumOver(list) == Sums(list)[Len(list)]
=============================================================================
