---------------------------- MODULE ScoringProofs ----------------------------
(***************************************************************************)
(* Proofs about scoring.  Recursion over a list is reasoned about by       *)
(* induction over the set of positions a fact holds for.                   *)
(***************************************************************************)
EXTENDS ScoreFile, WellFoundedInduction, SequenceTheorems, FiniteSetTheorems, TLAPS

(***************************************************************************)
(* Induction and recursion                                                 *)
(***************************************************************************)
LEMMA HasLeast ==
    ASSUME NEW T \in SUBSET Nat, T # {}
    PROVE  \E x \in T : \A y \in T : x <= y
<1>1. IsWellFoundedOn(OpToRel(<, Nat), Nat)
  BY NatLessThanWellFounded, Zenon
<1>2. \E x \in T : \A y \in T : ~(<<y, x>> \in OpToRel(<, Nat))
  BY <1>1, WFMin, Zenon
<1>3. \A x, y \in T : ~(<<y, x>> \in OpToRel(<, Nat)) => x <= y
  BY DEF OpToRel
<1>4. QED
  BY <1>2, <1>3

LEMMA InductionUpTo ==
    ASSUME NEW n \in Nat, NEW T, 0 \in T,
           \A m \in 1 .. n : m - 1 \in T => m \in T
    PROVE  \A m \in 0 .. n : m \in T
<1> SUFFICES ASSUME NEW k \in 0 .. n, k \notin T PROVE FALSE
  OBVIOUS
<1> DEFINE out == {m \in 0 .. n : m \notin T}
<1>1. out \in SUBSET Nat /\ out # {}
  OBVIOUS
<1>2. PICK x \in out : \A y \in out : x <= y
  BY <1>1, HasLeast
<1>3. x \in 1 .. n /\ x - 1 \in 0 .. n
  BY <1>2
<1>4. x - 1 \in T
  BY <1>2, <1>3
<1>5. QED
  BY <1>2, <1>3, <1>4

Iterates(f, n, A, base, step) ==
    /\ f \in [0 .. n -> A]
    /\ f[0] = base
    /\ \A m \in 1 .. n : f[m] = step[m][f[m - 1]]

LEMMA Recursion ==
    ASSUME NEW n \in Nat, NEW A, NEW base \in A, NEW step \in [1 .. n -> [A -> A]]
    PROVE  \E f : Iterates(f, n, A, base, step)
<1> DEFINE Upto(f, m) == f[0] = base /\ \A i \in 1 .. m : f[i] = step[i][f[i - 1]]
           T == {m \in 0 .. n : \E f \in [0 .. m -> A] : Upto(f, m)}
<1>1. 0 \in T
  <2> DEFINE g == [i \in 0 .. 0 |-> base]
  <2>1. g \in [0 .. 0 -> A] /\ g[0] = base /\ 1 .. 0 = {}
    OBVIOUS
  <2>2. Upto(g, 0)
    BY <2>1
  <2>3. 0 \in 0 .. n
    OBVIOUS
  <2> HIDE DEF Upto, g
  <2>4. QED
    BY <2>1, <2>2, <2>3
<1>2. ASSUME NEW m \in 1 .. n, m - 1 \in T
      PROVE  m \in T
  <2>1. PICK f \in [0 .. m - 1 -> A] : Upto(f, m - 1)
    BY <1>2
  <2> DEFINE g == [i \in 0 .. m |-> IF i = m THEN step[m][f[m - 1]] ELSE f[i]]
  <2>2. f[m - 1] \in A /\ step[m] \in [A -> A]
    BY <2>1
  <2>3. step[m][f[m - 1]] \in A
    BY <2>2
  <2>4. g \in [0 .. m -> A]
    BY <2>3
  <2>5. g[0] = base
    BY <2>1
  <2>6. ASSUME NEW i \in 1 .. m
        PROVE  g[i] = step[i][g[i - 1]]
    <3>1. CASE i = m
      BY <3>1
    <3>2. CASE i # m
      <4>1. i \in 1 .. m - 1 /\ i - 1 \in 0 .. m - 1 /\ i - 1 # m /\ i \in 0 .. m
        BY <3>2
      <4>2. f[i] = step[i][f[i - 1]]
        BY <2>1, <4>1
      <4>3. QED
        BY <3>2, <4>1, <4>2
    <3>3. QED
      BY <3>1, <3>2
  <2> HIDE DEF g
  <2>7. Upto(g, m) /\ m \in 0 .. n
    BY <2>5, <2>6
  <2> HIDE DEF Upto
  <2>8. QED
    BY <2>4, <2>7
<1>3. n \in T
  <2> HIDE DEF T
  <2>1. \A m \in 0 .. n : m \in T
    BY <1>1, <1>2, InductionUpTo
  <2>2. QED
    BY <2>1
<1>4. QED
  BY <1>3 DEF Iterates

(***************************************************************************)
(* Lists                                                                   *)
(***************************************************************************)
KeepsAfter(k, S, n) ==
    k = [m \in 0 .. n |-> IF m = 0 THEN <<>>
                          ELSE IF m \in S THEN Append(k[m - 1], m)
                          ELSE k[m - 1]]

LEMMA KeptAfterRecursion ==
    ASSUME NEW S, NEW n \in Nat
    PROVE  KeepsAfter(KeptAfter(S, n), S, n)
<1> DEFINE A == Seq(Nat)
           step == [m \in 1 .. n |-> [s \in A |-> IF m \in S THEN Append(s, m) ELSE s]]
<1>1. <<>> \in A /\ step \in [1 .. n -> [A -> A]]
  OBVIOUS
<1>2. PICK f : Iterates(f, n, A, <<>>, step)
  <2> HIDE DEF A, step
  <2>1. QED
    BY <1>1, Recursion
<1>3. KeepsAfter(f, S, n)
  <2>0. /\ f \in [0 .. n -> A] /\ f[0] = <<>>
        /\ \A m \in 1 .. n : f[m] = step[m][f[m - 1]]
    BY <1>2 DEF Iterates
  <2>1. ASSUME NEW m \in 0 .. n
        PROVE  f[m] = IF m = 0 THEN <<>>
                      ELSE IF m \in S THEN Append(f[m - 1], m)
                      ELSE f[m - 1]
    <3>1. CASE m = 0
      BY <2>0, <3>1
    <3>2. CASE m # 0
      <4>1. m \in 1 .. n /\ m - 1 \in 0 .. n
        BY <3>2
      <4>2. f[m - 1] \in A
        BY <2>0, <4>1
      <4>3. QED
        BY <2>0, <3>2, <4>1, <4>2
    <3>3. QED
      BY <3>1, <3>2
  <2>2. f = [m \in 0 .. n |-> f[m]]
    BY <2>0
  <2>3. QED
    BY <2>1, <2>2 DEF KeepsAfter
<1>4. KeptAfter(S, n) = CHOOSE k : KeepsAfter(k, S, n)
  BY DEF KeptAfter, KeepsAfter
<1>5. KeepsAfter(CHOOSE k : KeepsAfter(k, S, n), S, n)
  BY <1>3
<1>6. QED
  BY <1>4, <1>5

LEMMA KeptAfterSteps ==
    ASSUME NEW S, NEW n \in Nat
    PROVE  /\ KeptAfter(S, n)[0] = <<>>
           /\ \A m \in 1 .. n :
                KeptAfter(S, n)[m] = IF m \in S THEN Append(KeptAfter(S, n)[m - 1], m)
                                                ELSE KeptAfter(S, n)[m - 1]
<1> DEFINE k == KeptAfter(S, n)
<1>1. KeepsAfter(k, S, n)
  BY KeptAfterRecursion
<1> HIDE DEF k
<1>2. \A m \in 0 .. n : k[m] = IF m = 0 THEN <<>>
                               ELSE IF m \in S THEN Append(k[m - 1], m)
                               ELSE k[m - 1]
  BY <1>1 DEF KeepsAfter
<1>3. k[0] = <<>> /\ \A m \in 1 .. n : k[m] = IF m \in S THEN Append(k[m - 1], m) ELSE k[m - 1]
  BY <1>2
<1>4. QED
  BY <1>3 DEF k

(* A list of the elements of S up to n, in order.                          *)
ListsInOrder(s, S, n) ==
    /\ s \in Seq(Nat)
    /\ Len(s) <= n
    /\ \A i \in DOMAIN s : s[i] \in 1 .. n /\ s[i] \in S
    /\ \A i, j \in DOMAIN s : i < j => s[i] < s[j]
    /\ \A l \in 1 .. n : l \in S => \E i \in DOMAIN s : s[i] = l

LEMMA AscendingLists ==
    ASSUME NEW S, NEW n \in Nat
    PROVE  ListsInOrder(Ascending(S, n), S, n)
<1> DEFINE k == KeptAfter(S, n)
           T == {m \in 0 .. n : ListsInOrder(k[m], S, m)}
<1>1. /\ k[0] = <<>>
      /\ \A m \in 1 .. n : k[m] = IF m \in S THEN Append(k[m - 1], m) ELSE k[m - 1]
  BY KeptAfterSteps
<1> HIDE DEF k
<1>2. 0 \in T
  <2>1. 1 .. 0 = {} /\ 0 \in 0 .. n
    OBVIOUS
  <2>2. ListsInOrder(<<>>, S, 0)
    BY <2>1 DEF ListsInOrder
  <2>3. QED
    BY <1>1, <2>1, <2>2
<1>3. ASSUME NEW m \in 1 .. n, m - 1 \in T
      PROVE  m \in T
  <2> DEFINE s == k[m - 1]
  <2>1. /\ s \in Seq(Nat) /\ Len(s) <= m - 1
        /\ \A i \in DOMAIN s : s[i] \in 1 .. m - 1 /\ s[i] \in S
        /\ \A i, j \in DOMAIN s : i < j => s[i] < s[j]
        /\ \A l \in 1 .. m - 1 : l \in S => \E i \in DOMAIN s : s[i] = l
    BY <1>3 DEF ListsInOrder
  <2>2. k[m] = IF m \in S THEN Append(s, m) ELSE s
    BY <1>1
  <2> HIDE DEF s
  <2>3. CASE m \notin S
    <3>1. ListsInOrder(s, S, m)
      BY <2>1, <2>3 DEF ListsInOrder
    <3>2. QED
      BY <2>2, <2>3, <3>1
  <2>4. CASE m \in S
    <3> DEFINE t == Append(s, m)
    <3>1. /\ t \in Seq(Nat) /\ Len(t) = Len(s) + 1
          /\ DOMAIN t = 1 .. Len(s) + 1 /\ DOMAIN s = 1 .. Len(s) /\ Len(s) \in Nat
          /\ \A i \in DOMAIN s : t[i] = s[i]
          /\ t[Len(s) + 1] = m
      BY <2>1, AppendProperties
    <3> HIDE DEF t
    <3>0. \A i \in DOMAIN t : i \in DOMAIN s \/ (i = Len(s) + 1 /\ \A j \in DOMAIN s : j < i)
      BY <3>1
    <3>2. \A i \in DOMAIN t : t[i] \in 1 .. m /\ t[i] \in S
      <4> SUFFICES ASSUME NEW i \in DOMAIN t PROVE t[i] \in 1 .. m /\ t[i] \in S
        OBVIOUS
      <4>1. CASE i \in DOMAIN s
        <5>1. t[i] = s[i] /\ s[i] \in 1 .. m - 1 /\ s[i] \in S
          BY <2>1, <3>1, <4>1
        <5>2. QED
          BY <5>1
      <4>2. CASE i = Len(s) + 1
        BY <2>4, <3>1, <4>2
      <4>3. QED
        BY <3>0, <4>1, <4>2
    <3>3. \A i, j \in DOMAIN t : i < j => t[i] < t[j]
      <4>1. \A i \in DOMAIN s : t[i] \in Nat /\ t[i] < m
        BY <2>1, <3>1
      <4> SUFFICES ASSUME NEW i \in DOMAIN t, NEW j \in DOMAIN t, i < j
                   PROVE  t[i] < t[j]
        OBVIOUS
      <4>2. i \in DOMAIN s
        BY <3>1
      <4>3. CASE j \in DOMAIN s
        BY <2>1, <3>1, <4>2, <4>3
      <4>4. CASE j \notin DOMAIN s
        BY <3>0, <3>1, <4>1, <4>2, <4>4
      <4>5. QED
        BY <4>3, <4>4
    <3>4. \A l \in 1 .. m : l \in S => \E i \in DOMAIN t : t[i] = l
      <4>1. \A l \in 1 .. m : l = m \/ l \in 1 .. m - 1
        OBVIOUS
      <4>2. Len(s) + 1 \in DOMAIN t /\ DOMAIN s \subseteq DOMAIN t
        BY <3>1
      <4>3. QED
        BY <2>1, <3>1, <4>1, <4>2
    <3>5. ListsInOrder(t, S, m)
      BY <2>1, <3>1, <3>2, <3>3, <3>4 DEF ListsInOrder
    <3>6. k[m] = t
      BY <2>2, <2>4 DEF t
    <3>7. QED
      BY <3>5, <3>6
  <2>5. QED
    BY <2>3, <2>4
<1>4. n \in T
  <2> HIDE DEF T
  <2>1. \A m \in 0 .. n : m \in T
    BY <1>2, <1>3, InductionUpTo
  <2>2. QED
    BY <2>1
<1>5. QED
  BY <1>4 DEF k, Ascending

(* There is one such list.                                                 *)
LEMMA OrderIsUnique ==
    ASSUME NEW S, NEW n \in Nat, NEW s, NEW t, ListsInOrder(s, S, n), ListsInOrder(t, S, n)
    PROVE  s = t
<1>1. /\ DOMAIN s = 1 .. Len(s) /\ DOMAIN t = 1 .. Len(t) /\ Len(s) \in Nat /\ Len(t) \in Nat
      /\ s \in Seq(Nat) /\ t \in Seq(Nat)
      /\ \A i \in DOMAIN s : s[i] \in Nat
      /\ \A i \in DOMAIN t : t[i] \in Nat
  BY DEF ListsInOrder
<1>2. /\ \A i, j \in DOMAIN s : i < j => s[i] < s[j]
      /\ \A i, j \in DOMAIN t : i < j => t[i] < t[j]
      /\ \A i \in DOMAIN s : \E j \in DOMAIN t : t[j] = s[i]
      /\ \A i \in DOMAIN t : \E j \in DOMAIN s : s[j] = t[i]
  BY DEF ListsInOrder
<1> DEFINE differ == {i \in DOMAIN s \cup DOMAIN t :
                        ~(i \in DOMAIN s /\ i \in DOMAIN t /\ s[i] = t[i])}
<1>3. CASE differ = {}
  <2>1. DOMAIN s = DOMAIN t /\ \A i \in DOMAIN s : s[i] = t[i]
    BY <1>3
  <2>2. Len(s) = Len(t)
    <3>1. \A i \in Nat : i \in 1 .. Len(s) <=> i \in 1 .. Len(t)
      BY <1>1, <2>1
    <3> DEFINE a == Len(s)
               b == Len(t)
    <3>2. a \in Nat /\ b \in Nat /\ \A i \in Nat : i \in 1 .. a <=> i \in 1 .. b
      BY <1>1, <3>1
    <3> HIDE DEF a, b
    <3>3. a = b
      BY <3>2
    <3>4. QED
      BY <3>3 DEF a, b
  <2>3. QED
    BY <1>1, <2>1, <2>2, SeqEqual
<1>4. CASE differ # {}
  <2>1. PICK i \in differ : \A j \in differ : i <= j
    <3>1. differ \in SUBSET Nat
      BY <1>1
    <3> HIDE DEF differ
    <3>2. QED
      BY <1>4, <3>1, HasLeast
  <2>2. /\ i \in Nat
        /\ \A j \in DOMAIN s : j < i => j \in DOMAIN t /\ s[j] = t[j]
        /\ \A j \in DOMAIN t : j < i => j \in DOMAIN s /\ s[j] = t[j]
    <3>1. i \in Nat
      BY <1>1
    <3>2. \A j \in DOMAIN s \cup DOMAIN t : j \in Nat
      BY <1>1
    <3>3. \A j \in DOMAIN s \cup DOMAIN t : j < i => j \notin differ
      <4> HIDE DEF differ
      <4>1. QED
        BY <2>1, <3>1, <3>2
    <3>4. QED
      BY <3>1, <3>3
  <2>3. CASE i \in DOMAIN s /\ (i \notin DOMAIN t \/ s[i] < t[i])
    <3>1. PICK j \in DOMAIN t : t[j] = s[i]
      BY <1>2, <2>3
    <3>2. j < i
      <4>1. CASE i \notin DOMAIN t
        BY <1>1, <2>2, <2>3, <4>1
      <4>2. CASE i \in DOMAIN t /\ s[i] < t[i]
        <5>1. s[i] \in Nat /\ t[i] \in Nat /\ i \in Nat /\ j \in Nat
          BY <1>1, <2>2, <2>3, <4>2
        <5>2. ~(i < j)
          BY <1>2, <3>1, <4>2, <5>1
        <5>3. i # j
          BY <3>1, <4>2, <5>1
        <5>4. QED
          BY <5>1, <5>2, <5>3
      <4>3. QED
        BY <2>3, <4>1, <4>2
    <3>3. j \in DOMAIN s /\ s[j] = s[i]
      BY <2>2, <3>1, <3>2
    <3>4. QED
      BY <1>1, <1>2, <2>3, <3>2, <3>3
  <2>4. CASE i \in DOMAIN t /\ (i \notin DOMAIN s \/ t[i] < s[i])
    <3>1. PICK j \in DOMAIN s : s[j] = t[i]
      BY <1>2, <2>4
    <3>2. j < i
      <4>1. CASE i \notin DOMAIN s
        BY <1>1, <2>2, <2>4, <4>1
      <4>2. CASE i \in DOMAIN s /\ t[i] < s[i]
        <5>1. t[i] \in Nat /\ s[i] \in Nat /\ i \in Nat /\ j \in Nat
          BY <1>1, <2>2, <2>4, <4>2
        <5>2. ~(i < j)
          BY <1>2, <3>1, <4>2, <5>1
        <5>3. i # j
          BY <3>1, <4>2, <5>1
        <5>4. QED
          BY <5>1, <5>2, <5>3
      <4>3. QED
        BY <2>4, <4>1, <4>2
    <3>3. j \in DOMAIN t /\ t[j] = t[i]
      BY <2>2, <3>1, <3>2
    <3>4. QED
      BY <1>1, <1>2, <2>4, <3>2, <3>3
  <2>5. QED
    BY <1>1, <2>1, <2>3, <2>4
<1>5. QED
  BY <1>3, <1>4

(* A loop that keeps everything.                                           *)
LEMMA AscendingAll ==
    ASSUME NEW n \in Nat, NEW S, 1 .. n \subseteq S
    PROVE  Ascending(S, n) = [i \in 1 .. n |-> i]
<1> DEFINE k == KeptAfter(S, n)
           all(m) == [i \in 1 .. m |-> i]
           T == {m \in 0 .. n : k[m] = all(m)}
<1>1. /\ k[0] = <<>>
      /\ \A m \in 1 .. n : k[m] = Append(k[m - 1], m)
  BY KeptAfterSteps
<1> HIDE DEF k
<1>2. 0 \in T
  <2>1. all(0) = <<>>
    OBVIOUS
  <2>2. QED
    BY <1>1, <2>1
<1>3. ASSUME NEW m \in 1 .. n, m - 1 \in T
      PROVE  m \in T
  <2>1. k[m] = Append(all(m - 1), m)
    BY <1>1, <1>3
  <2>2. all(m - 1) \in Seq(Nat) /\ all(m) \in Seq(Nat) /\ Len(all(m - 1)) = m - 1
        /\ Len(all(m)) = m
    OBVIOUS
  <2>3. Append(all(m - 1), m) = all(m)
    <3>1. /\ Append(all(m - 1), m) \in Seq(Nat)
          /\ Len(Append(all(m - 1), m)) = m
          /\ \A i \in 1 .. m - 1 : Append(all(m - 1), m)[i] = all(m - 1)[i]
          /\ Append(all(m - 1), m)[m] = m
      BY <2>2, AppendProperties
    <3>2. \A i \in 1 .. m : Append(all(m - 1), m)[i] = all(m)[i]
      BY <3>1
    <3>3. QED
      BY <2>2, <3>1, <3>2, SeqEqual
  <2>4. QED
    BY <2>1, <2>3
<1>4. n \in T
  <2> HIDE DEF T
  <2>1. \A m \in 0 .. n : m \in T
    BY <1>2, <1>3, InductionUpTo
  <2>2. QED
    BY <2>1
<1>5. QED
  BY <1>4 DEF k, Ascending

(***************************************************************************)
(* Sums                                                                    *)
(***************************************************************************)
Integers(list) ==
    /\ Len(list) \in Nat /\ DOMAIN list = 1 .. Len(list)
    /\ \A i \in 1 .. Len(list) : list[i] \in Int

AddsUp(sums, list) ==
    sums = [m \in 0 .. Len(list) |-> IF m = 0 THEN 0 ELSE sums[m - 1] + list[m]]

LEMMA SumsSteps ==
    ASSUME NEW list, Integers(list)
    PROVE  /\ Sums(list)[0] = 0
           /\ \A m \in 1 .. Len(list) : Sums(list)[m] = Sums(list)[m - 1] + list[m]
           /\ \A m \in 0 .. Len(list) : Sums(list)[m] \in Int
<1> DEFINE n == Len(list)
           step == [m \in 1 .. n |-> [x \in Int |-> x + list[m]]]
<1>1. n \in Nat /\ \A i \in 1 .. n : list[i] \in Int
  BY DEF Integers
<1> HIDE DEF n
<1>2. PICK f : Iterates(f, n, Int, 0, step)
  <2>1. step \in [1 .. n -> [Int -> Int]] /\ 0 \in Int
    BY <1>1
  <2> HIDE DEF step
  <2>2. QED
    BY <1>1, <2>1, Recursion
<1>3. AddsUp(f, list)
  <2>1. /\ f \in [0 .. n -> Int] /\ f[0] = 0
        /\ \A m \in 1 .. n : f[m] = step[m][f[m - 1]]
    BY <1>2 DEF Iterates
  <2>2. \A m \in 0 .. n : m # 0 => m \in 1 .. n /\ m - 1 \in 0 .. n
    BY <1>1
  <2>3. \A m \in 0 .. n : f[m] = IF m = 0 THEN 0 ELSE f[m - 1] + list[m]
    BY <2>1, <2>2
  <2>4. f = [m \in 0 .. n |-> f[m]]
    BY <2>1
  <2>5. QED
    BY <2>3, <2>4 DEF AddsUp, n
<1> DEFINE sums == Sums(list)
<1>4. AddsUp(sums, list)
  <2>1. sums = CHOOSE g : AddsUp(g, list)
    BY DEF Sums, AddsUp
  <2>2. QED
    BY <1>3, <2>1
<1> HIDE DEF sums
<1>5. /\ sums[0] = 0
      /\ \A m \in 1 .. n : sums[m] = sums[m - 1] + list[m]
  <2>1. \A m \in 0 .. n : sums[m] = IF m = 0 THEN 0 ELSE sums[m - 1] + list[m]
    BY <1>4 DEF AddsUp, n
  <2>2. 0 \in 0 .. n /\ \A m \in 1 .. n : m \in 0 .. n /\ m # 0
    BY <1>1
  <2>3. QED
    BY <2>1, <2>2
<1>6. \A m \in 0 .. n : sums[m] \in Int
  <2> DEFINE T == {m \in 0 .. n : sums[m] \in Int}
  <2>1. 0 \in T
    BY <1>1, <1>5
  <2>2. ASSUME NEW m \in 1 .. n, m - 1 \in T PROVE m \in T
    <3>1. sums[m - 1] \in Int /\ list[m] \in Int /\ m \in 0 .. n
      BY <1>1, <2>2
    <3>2. sums[m] = sums[m - 1] + list[m]
      BY <1>5
    <3>3. \A p, q \in Int : p + q \in Int
      OBVIOUS
    <3>4. sums[m] \in Int
      BY <3>1, <3>2, <3>3
    <3>5. QED
      BY <3>1, <3>4, Zenon
  <2>3. \A m \in 0 .. n : m \in T
    <3> HIDE DEF T
    <3>1. QED
      BY <1>1, <2>1, <2>2, InductionUpTo
  <2>4. QED
    BY <2>3
<1>7. QED
  BY <1>5, <1>6 DEF sums, n

LEMMA SumIsInt ==
    ASSUME NEW list, Integers(list)
    PROVE  SumOver(list) \in Int
<1>1. Len(list) \in 0 .. Len(list)
  BY DEF Integers
<1>2. QED
  BY <1>1, SumsSteps DEF SumOver

LEMMA SumIsMonotone ==
    ASSUME NEW a, NEW b, Integers(a), Integers(b), Len(a) = Len(b),
           \A i \in 1 .. Len(a) : a[i] <= b[i]
    PROVE  SumOver(a) <= SumOver(b)
<1> DEFINE n == Len(a)
           x == Sums(a)
           y == Sums(b)
           T == {m \in 0 .. n : x[m] <= y[m]}
<1>1. /\ n \in Nat /\ x[0] = 0 /\ y[0] = 0
      /\ \A m \in 1 .. n : /\ x[m] = x[m - 1] + a[m] /\ y[m] = y[m - 1] + b[m]
                           /\ a[m] \in Int /\ b[m] \in Int /\ a[m] <= b[m]
      /\ \A m \in 0 .. n : x[m] \in Int /\ y[m] \in Int
  BY SumsSteps DEF Integers
<1> HIDE DEF n, x, y
<1>2. 0 \in T
  BY <1>1
<1>3. ASSUME NEW m \in 1 .. n, m - 1 \in T PROVE m \in T
  <2>1. m \in 0 .. n /\ m - 1 \in 0 .. n /\ x[m - 1] <= y[m - 1]
    BY <1>1, <1>3
  <2>2. /\ x[m - 1] \in Int /\ y[m - 1] \in Int
        /\ a[m] \in Int /\ b[m] \in Int /\ a[m] <= b[m]
        /\ x[m] = x[m - 1] + a[m] /\ y[m] = y[m - 1] + b[m]
    BY <1>1, <2>1
  <2>3. x[m] <= y[m]
    BY <2>1, <2>2
  <2>4. QED
    BY <2>1, <2>3
<1>4. \A m \in 0 .. n : m \in T
  <2> HIDE DEF T
  <2>1. QED
    BY <1>1, <1>2, <1>3, InductionUpTo
<1>5. QED
  <2>1. n \in 0 .. n
    BY <1>1
  <2>2. x[n] <= y[n]
    BY <1>4, <2>1
  <2>3. QED
    BY <2>2 DEF SumOver, n, x, y

Combines(c, k, a, l, b) ==
    /\ Integers(a) /\ Integers(b) /\ Integers(c) /\ Len(a) = Len(c) /\ Len(b) = Len(c)
    /\ \A i \in 1 .. Len(c) : c[i] = k * a[i] + l * b[i]

LEMMA SumIsLinear ==
    ASSUME NEW k \in Int, NEW l \in Int, NEW a, NEW b, NEW c, Combines(c, k, a, l, b)
    PROVE  SumOver(c) = k * SumOver(a) + l * SumOver(b)
<1> DEFINE n == Len(c)
           x == Sums(a)
           y == Sums(b)
           z == Sums(c)
           T == {m \in 0 .. n : z[m] = k * x[m] + l * y[m]}
<1>1. /\ n \in Nat /\ x[0] = 0 /\ y[0] = 0 /\ z[0] = 0
      /\ \A m \in 1 .. n : /\ x[m] = x[m - 1] + a[m] /\ y[m] = y[m - 1] + b[m]
                           /\ z[m] = z[m - 1] + c[m]
                           /\ a[m] \in Int /\ b[m] \in Int /\ c[m] \in Int
                           /\ c[m] = k * a[m] + l * b[m]
      /\ \A m \in 0 .. n : x[m] \in Int /\ y[m] \in Int /\ z[m] \in Int
  BY SumsSteps DEF Integers, Combines
<1> HIDE DEF n, x, y, z
<1>2. 0 \in T
  BY <1>1
<1>3. ASSUME NEW m \in 1 .. n, m - 1 \in T PROVE m \in T
  <2>1. m \in 0 .. n /\ m - 1 \in 0 .. n /\ z[m - 1] = k * x[m - 1] + l * y[m - 1]
    BY <1>1, <1>3
  <2>2. x[m - 1] \in Int /\ y[m - 1] \in Int
    BY <1>1, <2>1
  <2>3. /\ k * (x[m - 1] + a[m]) = k * x[m - 1] + k * a[m]
        /\ l * (y[m - 1] + b[m]) = l * y[m - 1] + l * b[m]
    <3>1. \A p, q, r \in Int : p * (q + r) = p * q + p * r
      OBVIOUS
    <3>2. QED
      BY <1>1, <2>2, <3>1
  <2>4. z[m] = k * x[m] + l * y[m]
    <3>1. /\ k * x[m - 1] \in Int /\ k * a[m] \in Int
          /\ l * y[m - 1] \in Int /\ l * b[m] \in Int
      <4>1. \A p, q \in Int : p * q \in Int
        OBVIOUS
      <4>2. a[m] \in Int /\ b[m] \in Int
        BY <1>1
      <4>3. QED
        BY <2>2, <4>1, <4>2
    <3>2. /\ z[m] = (k * x[m - 1] + l * y[m - 1]) + (k * a[m] + l * b[m])
          /\ k * x[m] = k * x[m - 1] + k * a[m]
          /\ l * y[m] = l * y[m - 1] + l * b[m]
      BY <1>1, <2>1, <2>3
    <3>3. QED
      BY <3>1, <3>2
  <2>5. QED
    BY <2>1, <2>4
<1>4. \A m \in 0 .. n : m \in T
  <2> HIDE DEF T
  <2>1. QED
    BY <1>1, <1>2, <1>3, InductionUpTo
<1>5. QED
  <2>1. n \in 0 .. n
    BY <1>1
  <2>2. z[n] = k * x[n] + l * y[n]
    BY <1>4, <2>1
  <2>3. QED
    BY <2>2 DEF SumOver, Combines, n, x, y, z

LEMMA SumOfOnes ==
    ASSUME NEW list, Integers(list), \A i \in 1 .. Len(list) : list[i] = 1
    PROVE  SumOver(list) = Len(list)
<1> DEFINE n == Len(list)
           x == Sums(list)
           T == {m \in 0 .. n : x[m] = m}
<1>1. /\ n \in Nat /\ x[0] = 0
      /\ \A m \in 1 .. n : x[m] = x[m - 1] + 1
  BY SumsSteps DEF Integers
<1> HIDE DEF n, x
<1>2. 0 \in T
  BY <1>1
<1>3. ASSUME NEW m \in 1 .. n, m - 1 \in T PROVE m \in T
  BY <1>1, <1>3
<1>4. \A m \in 0 .. n : m \in T
  <2> HIDE DEF T
  <2>1. QED
    BY <1>1, <1>2, <1>3, InductionUpTo
<1>5. QED
  <2>1. n \in 0 .. n
    BY <1>1
  <2>2. QED
    BY <1>4, <2>1 DEF SumOver, n, x

LEMMA ListOfIntegers ==
    ASSUME NEW n \in Nat, NEW list \in [1 .. n -> Int]
    PROVE  Integers(list) /\ Len(list) = n
BY DEF Integers

LEMMA SumIsScaled ==
    ASSUME NEW n \in Nat, NEW a \in [1 .. n -> Int], NEW b \in [1 .. n -> Int], NEW k \in Int,
           \A i \in 1 .. n : b[i] = k * a[i]
    PROVE  SumOver(b) = k * SumOver(a)
<1>1. Integers(a) /\ Integers(b) /\ Len(a) = n /\ Len(b) = n
  BY ListOfIntegers
<1> DEFINE none == 0
<1>2. none \in Int /\ \A i \in 1 .. n : b[i] = k * a[i] + none * a[i]
  OBVIOUS
<1> HIDE DEF none
<1>3. SumOver(b) = k * SumOver(a) + none * SumOver(a)
  <2>1. Combines(b, k, a, none, a)
    BY <1>1, <1>2 DEF Combines
  <2>2. QED
    BY <1>1, <1>2, <2>1, SumIsLinear
<1>4. SumOver(a) \in Int
  BY <1>1, SumIsInt
<1>5. k * SumOver(a) \in Int /\ none * SumOver(a) = 0
  BY <1>4 DEF none
<1>6. QED
  BY <1>3, <1>5

LEMMA SumIsNatural ==
    ASSUME NEW n \in Nat, NEW a \in [1 .. n -> Nat]
    PROVE  SumOver(a) \in Nat
<1> DEFINE none == 0
           zeros == [i \in 1 .. n |-> none]
<1>1. a \in [1 .. n -> Int] /\ zeros \in [1 .. n -> Int] /\ none \in Int
  OBVIOUS
<1>2. \A i \in 1 .. n : zeros[i] = none * a[i] /\ zeros[i] <= a[i]
  OBVIOUS
<1> HIDE DEF zeros, none
<1>3. Integers(a) /\ Integers(zeros) /\ Len(a) = n /\ Len(zeros) = n
  BY <1>1, ListOfIntegers
<1>4. SumOver(a) \in Int
  BY <1>3, SumIsInt
<1>5. SumOver(zeros) = none * SumOver(a)
  BY <1>1, <1>2, SumIsScaled
<1>6. SumOver(zeros) <= SumOver(a)
  BY <1>2, <1>3, SumIsMonotone
<1>7. QED
  BY <1>4, <1>5, <1>6 DEF none

(* The positions that the slope is taken against, and their squares.       *)
LEMMA PositionsAddUp ==
    ASSUME NEW n \in Nat
    PROVE  LET squares == [i \in 1 .. n |-> Positions(n)[i] * Positions(n)[i]]
           IN  /\ Positions(n) \in [1 .. n -> Int] /\ squares \in [1 .. n -> Int]
               /\ 2 * SumOver(Positions(n)) = n * (n - 1)
               /\ 6 * SumOver(squares) = n * (n - 1) * (2 * n - 1)
<1> DEFINE xs == Positions(n)
           squares == [i \in 1 .. n |-> xs[i] * xs[i]]
           x == Sums(xs)
           xx == Sums(squares)
           T == {m \in 0 .. n : 2 * x[m] = m * (m - 1) /\ 6 * xx[m] = m * (m - 1) * (2 * m - 1)}
<1>1. /\ xs \in [1 .. n -> Int] /\ squares \in [1 .. n -> Int]
      /\ \A i \in 1 .. n : xs[i] = i - 1 /\ squares[i] = (i - 1) * (i - 1)
  <2>1. xs \in [1 .. n -> Int] /\ \A i \in 1 .. n : xs[i] = i - 1
    BY DEF Positions
  <2> HIDE DEF xs
  <2>2. \A i \in 1 .. n : squares[i] = (i - 1) * (i - 1) /\ (i - 1) * (i - 1) \in Int
    BY <2>1
  <2>3. QED
    BY <2>1, <2>2
<1> HIDE DEF xs, squares
<1>2. Integers(xs) /\ Integers(squares) /\ Len(xs) = n /\ Len(squares) = n
  BY <1>1, ListOfIntegers
<1>3. /\ x[0] = 0 /\ xx[0] = 0
      /\ \A m \in 1 .. n : x[m] = x[m - 1] + xs[m] /\ xx[m] = xx[m - 1] + squares[m]
      /\ \A m \in 0 .. n : x[m] \in Int /\ xx[m] \in Int
  BY <1>2, SumsSteps
<1> HIDE DEF x, xx
<1>4. 0 \in T
  BY <1>3
<1>5. ASSUME NEW m \in 1 .. n, m - 1 \in T PROVE m \in T
  <2>1. /\ m \in Int /\ m \in 0 .. n /\ m - 1 \in 0 .. n
        /\ 2 * x[m - 1] = (m - 1) * (m - 1 - 1)
        /\ 6 * xx[m - 1] = (m - 1) * (m - 1 - 1) * (2 * (m - 1) - 1)
    BY <1>5
  <2>2. x[m - 1] \in Int /\ xx[m - 1] \in Int
    BY <1>3, <2>1
  <2>3. x[m] = x[m - 1] + (m - 1) /\ xx[m] = xx[m - 1] + (m - 1) * (m - 1)
    BY <1>1, <1>3
  <2>4. \A p \in Int : 2 * p = (m - 1) * (m - 1 - 1) => 2 * (p + (m - 1)) = m * (m - 1)
    BY <2>1
  <2>5. \A p \in Int : 6 * p = (m - 1) * (m - 1 - 1) * (2 * (m - 1) - 1)
            => 6 * (p + (m - 1) * (m - 1)) = m * (m - 1) * (2 * m - 1)
    BY <2>1
  <2>6. 2 * x[m] = m * (m - 1) /\ 6 * xx[m] = m * (m - 1) * (2 * m - 1)
    BY <2>1, <2>2, <2>3, <2>4, <2>5
  <2>7. QED
    BY <2>1, <2>6
<1>6. n \in T
  <2> HIDE DEF T
  <2>1. \A m \in 0 .. n : m \in T
    BY <1>4, <1>5, InductionUpTo
  <2>2. QED
    BY <2>1
<1>7. QED
  BY <1>1, <1>2, <1>6 DEF SumOver, xs, squares, x, xx

(* A sum does not depend on the order.                                     *)
LEMMA SumOfReversed ==
    ASSUME NEW n \in Nat, NEW a \in [1 .. n -> Int], NEW b \in [1 .. n -> Int],
           \A i \in 1 .. n : b[i] = a[n + 1 - i]
    PROVE  SumOver(b) = SumOver(a)
<1> DEFINE x == Sums(a)
           y == Sums(b)
           T == {m \in 0 .. n : y[m] = x[n] - x[n - m]}
<1>1. Integers(a) /\ Integers(b) /\ Len(a) = n /\ Len(b) = n
  BY ListOfIntegers
<1>2. /\ x[0] = 0 /\ y[0] = 0
      /\ \A m \in 1 .. n : x[m] = x[m - 1] + a[m] /\ y[m] = y[m - 1] + b[m]
      /\ \A m \in 0 .. n : x[m] \in Int /\ y[m] \in Int
  BY <1>1, SumsSteps
<1> HIDE DEF x, y
<1>3. 0 \in T
  <2>1. n \in 0 .. n /\ n - 0 = n
    OBVIOUS
  <2>2. x[n] - x[n - 0] = 0
    BY <1>2, <2>1
  <2>3. QED
    BY <1>2, <2>2
<1>4. ASSUME NEW m \in 1 .. n, m - 1 \in T PROVE m \in T
  <2>1. /\ m \in 0 .. n /\ m - 1 \in 0 .. n /\ n + 1 - m \in 1 .. n
        /\ n - m \in 0 .. n /\ n \in 0 .. n
        /\ n - (m - 1) = n + 1 - m /\ (n + 1 - m) - 1 = n - m
    OBVIOUS
  <2>2. y[m - 1] = x[n] - x[n + 1 - m]
    BY <1>4, <2>1
  <2>3. y[m] = y[m - 1] + a[n + 1 - m]
    BY <1>2
  <2>4. x[n + 1 - m] = x[n - m] + a[n + 1 - m]
    BY <1>2, <2>1
  <2>5. x[n] \in Int /\ x[n - m] \in Int /\ a[n + 1 - m] \in Int
    BY <1>2, <2>1
  <2>6. y[m] = x[n] - x[n - m]
    BY <2>2, <2>3, <2>4, <2>5
  <2>7. QED
    BY <2>1, <2>6
<1>5. y[n] = x[n]
  <2>1. n \in T
    <3> HIDE DEF T
    <3>1. \A m \in 0 .. n : m \in T
      BY <1>3, <1>4, InductionUpTo
    <3>2. QED
      BY <3>1
  <2>2. n - n = 0 /\ n \in 0 .. n
    OBVIOUS
  <2>3. y[n] = x[n] - x[0] /\ x[n] \in Int
    BY <1>2, <2>1, <2>2
  <2>4. QED
    BY <1>2, <2>3
<1>6. QED
  BY <1>1, <1>5 DEF SumOver, x, y

(***************************************************************************)
(* Slopes                                                                  *)
(***************************************************************************)
(* n squared times the covariance of a list with its positions.            *)
Products(ys) == [i \in 1 .. Len(ys) |-> Positions(Len(ys))[i] * ys[i]]

Deviation(ys) ==
    Len(ys) * SumOver(Products(ys)) - SumOver(Positions(Len(ys))) * SumOver(ys)

LEMMA DeviationParts ==
    ASSUME NEW n \in Nat, NEW ys \in [1 .. n -> Int]
    PROVE  /\ Integers(ys) /\ Len(ys) = n
           /\ Products(ys) \in [1 .. n -> Int]
           /\ \A i \in 1 .. n : Products(ys)[i] = (i - 1) * ys[i]
           /\ SumOver(ys) \in Int /\ SumOver(Products(ys)) \in Int
           /\ SumOver(Positions(n)) \in Int
           /\ Deviation(ys) = n * SumOver(Products(ys)) - SumOver(Positions(n)) * SumOver(ys)
           /\ Deviation(ys) \in Int
<1>1. Integers(ys) /\ Len(ys) = n /\ SumOver(ys) \in Int
  BY ListOfIntegers, SumIsInt
<1>2. \A i \in 1 .. n : Positions(n)[i] = i - 1
  BY DEF Positions
<1>3. Products(ys) = [i \in 1 .. n |-> Positions(n)[i] * ys[i]]
  BY <1>1 DEF Products
<1>4. \A i \in 1 .. n : Products(ys)[i] = (i - 1) * ys[i] /\ Products(ys)[i] \in Int
  <2>1. \A i \in 1 .. n : ys[i] \in Int /\ i - 1 \in Int
    OBVIOUS
  <2>2. \A p, q \in Int : p * q \in Int
    OBVIOUS
  <2>3. QED
    BY <1>2, <1>3, <2>1, <2>2
<1>5. Products(ys) \in [1 .. n -> Int]
  BY <1>3, <1>4
<1>6. SumOver(Products(ys)) \in Int
  BY <1>5, ListOfIntegers, SumIsInt
<1>7. SumOver(Positions(n)) \in Int
  BY PositionsAddUp, ListOfIntegers, SumIsInt
<1>8. Deviation(ys) = n * SumOver(Products(ys)) - SumOver(Positions(n)) * SumOver(ys)
  BY <1>1 DEF Deviation
<1>9. Deviation(ys) \in Int
  BY <1>1, <1>6, <1>7, <1>8
<1>10. QED
  BY <1>1, <1>4, <1>5, <1>6, <1>7, <1>8, <1>9

(* A list that is constant has no slope.                                   *)
LEMMA ConstantHasNoSlope ==
    ASSUME NEW n \in Nat, NEW ys \in [1 .. n -> Int], NEW c \in Int, \A i \in 1 .. n : ys[i] = c
    PROVE  Deviation(ys) = 0
<1> DEFINE ones == [i \in 1 .. n |-> 1]
           xs == Positions(n)
<1>1. /\ ones \in [1 .. n -> Int] /\ \A i \in 1 .. n : ys[i] = c * ones[i]
      /\ \A i \in 1 .. n : ones[i] = 1
  OBVIOUS
<1>2. xs \in [1 .. n -> Int] /\ \A i \in 1 .. n : xs[i] = i - 1
  BY DEF Positions
<1>3. /\ Products(ys) \in [1 .. n -> Int] /\ \A i \in 1 .. n : Products(ys)[i] = (i - 1) * ys[i]
      /\ SumOver(xs) \in Int
      /\ Deviation(ys) = n * SumOver(Products(ys)) - SumOver(xs) * SumOver(ys)
  BY DeviationParts
<1> HIDE DEF ones, xs
<1>4. SumOver(ys) = c * SumOver(ones)
  BY <1>1, SumIsScaled
<1>5. SumOver(ones) = n
  <2>1. Integers(ones) /\ Len(ones) = n
    BY <1>1, ListOfIntegers
  <2>2. QED
    BY <1>1, <2>1, SumOfOnes
<1>6. SumOver(Products(ys)) = c * SumOver(xs)
  <2> DEFINE zs == Products(ys)
  <2>1. zs \in [1 .. n -> Int]
    BY <1>3
  <2>2. \A i \in 1 .. n : zs[i] = c * xs[i]
    BY <1>2, <1>3
  <2> HIDE DEF zs
  <2>3. SumOver(zs) = c * SumOver(xs)
    BY <1>2, <2>1, <2>2, SumIsScaled
  <2>4. QED
    BY <2>3 DEF zs
<1>7. n * (c * SumOver(xs)) - SumOver(xs) * (c * n) = 0
  BY <1>3
<1>8. QED
  BY <1>3, <1>4, <1>5, <1>6, <1>7

(* Read backwards, a list has the opposite slope.                          *)
LEMMA SlopeOfReversed ==
    ASSUME NEW n \in Nat, NEW ys \in [1 .. n -> Int], NEW zs \in [1 .. n -> Int],
           \A i \in 1 .. n : zs[i] = ys[n + 1 - i]
    PROVE  Deviation(zs) = -Deviation(ys)
<1> DEFINE x == SumOver(Positions(n))
           y == SumOver(ys)
           xy == SumOver(Products(ys))
           xz == SumOver(Products(zs))
           back == [i \in 1 .. n |-> Products(zs)[n + 1 - i]]
<1>1. /\ Integers(ys) /\ Len(ys) = n
      /\ Products(ys) \in [1 .. n -> Int] /\ Products(zs) \in [1 .. n -> Int]
      /\ \A i \in 1 .. n : Products(ys)[i] = (i - 1) * ys[i] /\ Products(zs)[i] = (i - 1) * zs[i]
      /\ x \in Int /\ y \in Int /\ xy \in Int /\ xz \in Int
      /\ Deviation(ys) = n * xy - x * y
      /\ Deviation(zs) = n * xz - x * SumOver(zs)
  BY DeviationParts
<1>2. SumOver(zs) = y
  BY SumOfReversed
<1>3. /\ back \in [1 .. n -> Int]
      /\ \A i \in 1 .. n : back[i] = (n - 1) * ys[i] + (-1) * Products(ys)[i]
      /\ \A i \in 1 .. n : back[i] = Products(zs)[n + 1 - i]
  <2>1. ASSUME NEW i \in 1 .. n
        PROVE  Products(zs)[n + 1 - i] = (n - 1) * ys[i] + (-1) * Products(ys)[i]
               /\ Products(zs)[n + 1 - i] \in Int
    <3>1. n + 1 - i \in 1 .. n /\ n + 1 - (n + 1 - i) = i /\ (n + 1 - i) - 1 = n - i
      OBVIOUS
    <3>2. Products(zs)[n + 1 - i] = (n - i) * ys[i] /\ Products(ys)[i] = (i - 1) * ys[i]
      BY <1>1, <3>1
    <3>3. ys[i] \in Int
      OBVIOUS
    <3>4. (n - i) * ys[i] = (n - 1) * ys[i] + (-1) * ((i - 1) * ys[i]) /\ (n - i) * ys[i] \in Int
      BY <3>3
    <3>5. QED
      BY <3>2, <3>4
  <2>2. QED
    BY <2>1
<1>4. xz = SumOver(back)
  <2> HIDE DEF back
  <2>1. SumOver(back) = SumOver(Products(zs))
    BY <1>1, <1>3, SumOfReversed
  <2>2. QED
    BY <2>1
<1>5. SumOver(back) = (n - 1) * y + (-1) * xy
  <2> DEFINE k == n - 1
             l == -1
             ps == Products(ys)
  <2>1. k \in Int /\ l \in Int
    OBVIOUS
  <2> HIDE DEF back
  <2>2. Combines(back, k, ys, l, ps)
    <3>1. Integers(back) /\ Len(back) = n /\ Integers(ps) /\ Len(ps) = n
      BY <1>1, <1>3, ListOfIntegers
    <3>2. QED
      BY <1>1, <1>3, <3>1 DEF Combines
  <2> HIDE DEF k, l, ps
  <2>3. SumOver(back) = k * SumOver(ys) + l * SumOver(ps)
    BY <2>1, <2>2, SumIsLinear
  <2>4. QED
    BY <2>3 DEF k, l, ps
<1>6. 2 * x = n * (n - 1)
  BY PositionsAddUp
<1> HIDE DEF x, y, xy, xz, back
<1>7. n * ((n - 1) * y + (-1) * xy) - x * y = -(n * xy - x * y)
  <2>1. (n * (n - 1)) * y = (2 * x) * y
    BY <1>6
  <2>2. n * ((n - 1) * y + (-1) * xy) = (n * (n - 1)) * y - n * xy
    BY <1>1
  <2>3. (2 * x) * y = x * y + x * y /\ x * y \in Int /\ n * xy \in Int
    BY <1>1
  <2>4. QED
    BY <2>1, <2>2, <2>3
<1>8. QED
  BY <1>1, <1>2, <1>4, <1>5, <1>7

Rising(ys, n) == \A i \in 2 .. n : ys[i - 1] <= ys[i]

LEMMA RisingIsSorted ==
    ASSUME NEW n \in Nat, NEW ys \in [1 .. n -> Int], Rising(ys, n)
    PROVE  \A i, j \in 1 .. n : i <= j => ys[i] <= ys[j]
<1> DEFINE T == {j \in 0 .. n : \A i \in 1 .. j : ys[i] <= ys[j]}
<1>1. 0 \in T
  OBVIOUS
<1>2. ASSUME NEW j \in 1 .. n, j - 1 \in T PROVE j \in T
  <2>1. ASSUME NEW i \in 1 .. j PROVE ys[i] <= ys[j]
    <3>1. ys[i] \in Int /\ ys[j] \in Int
      OBVIOUS
    <3>2. CASE i = j
      BY <3>1, <3>2
    <3>3. CASE i # j
      <4>1. i \in 1 .. j - 1 /\ j \in 2 .. n /\ j - 1 \in 1 .. n
        BY <3>3
      <4>2. ys[i] <= ys[j - 1] /\ ys[j - 1] <= ys[j] /\ ys[j - 1] \in Int
        BY <1>2, <4>1 DEF Rising
      <4>3. QED
        BY <3>1, <4>2
    <3>4. QED
      BY <3>2, <3>3
  <2>2. QED
    BY <2>1
<1>3. \A j \in 0 .. n : j \in T
  <2> HIDE DEF T
  <2>1. QED
    BY <1>1, <1>2, InductionUpTo
<1>4. QED
  BY <1>3

(* A list that never falls and does rise has a positive slope: each of its *)
(* members adds, for every one before it, the product of their distances.  *)
LEMMA RisingHasSlope ==
    ASSUME NEW n \in Nat, n >= 2, NEW ys \in [1 .. n -> Int], Rising(ys, n), ys[1] < ys[n]
    PROVE  Deviation(ys) > 0
<1> DEFINE x == Sums(Positions(n))
           y == Sums(ys)
           p == Sums(Products(ys))
           D(m) == m * p[m] - x[m] * y[m]
           G(m, k) == p[k] + k * m * ys[m + 1] - x[k] * ys[m + 1] - m * y[k]
<1>1. \A i, j \in 1 .. n : i <= j => ys[i] <= ys[j]
  BY RisingIsSorted
<1>2. /\ Integers(ys) /\ Len(ys) = n
      /\ Integers(Products(ys)) /\ Len(Products(ys)) = n
      /\ Integers(Positions(n)) /\ Len(Positions(n)) = n
      /\ \A i \in 1 .. n : Products(ys)[i] = (i - 1) * ys[i]
      /\ \A i \in 1 .. n : Positions(n)[i] = i - 1
  <2>1. /\ Integers(ys) /\ Len(ys) = n
        /\ Products(ys) \in [1 .. n -> Int]
        /\ \A i \in 1 .. n : Products(ys)[i] = (i - 1) * ys[i]
    BY DeviationParts
  <2>2. Positions(n) \in [1 .. n -> Int] /\ \A i \in 1 .. n : Positions(n)[i] = i - 1
    BY DEF Positions
  <2>3. Integers(Products(ys)) /\ Len(Products(ys)) = n
    BY <2>1, ListOfIntegers
  <2>4. Integers(Positions(n)) /\ Len(Positions(n)) = n
    BY <2>2, ListOfIntegers
  <2>5. QED
    BY <2>1, <2>2, <2>3, <2>4
<1>3. /\ x[0] = 0 /\ y[0] = 0 /\ p[0] = 0
      /\ \A m \in 1 .. n : /\ x[m] = x[m - 1] + (m - 1)
                           /\ y[m] = y[m - 1] + ys[m]
                           /\ p[m] = p[m - 1] + (m - 1) * ys[m]
      /\ \A m \in 0 .. n : x[m] \in Int /\ y[m] \in Int /\ p[m] \in Int
  <2> DEFINE xs == Positions(n)
             ps == Products(ys)
  <2>1. /\ Integers(xs) /\ Len(xs) = n /\ \A i \in 1 .. n : xs[i] = i - 1
        /\ Integers(ps) /\ Len(ps) = n /\ \A i \in 1 .. n : ps[i] = (i - 1) * ys[i]
    BY <1>2
  <2> HIDE DEF xs, ps
  <2>2. /\ Sums(xs)[0] = 0
        /\ \A m \in 1 .. n : Sums(xs)[m] = Sums(xs)[m - 1] + xs[m]
        /\ \A m \in 0 .. n : Sums(xs)[m] \in Int
    BY <2>1, SumsSteps
  <2>3. /\ Sums(ps)[0] = 0
        /\ \A m \in 1 .. n : Sums(ps)[m] = Sums(ps)[m - 1] + ps[m]
        /\ \A m \in 0 .. n : Sums(ps)[m] \in Int
    BY <2>1, SumsSteps
  <2>4. /\ y[0] = 0
        /\ \A m \in 1 .. n : y[m] = y[m - 1] + ys[m]
        /\ \A m \in 0 .. n : y[m] \in Int
    BY <1>2, SumsSteps
  <2>5. x = Sums(xs) /\ p = Sums(ps)
    BY DEF xs, ps
  <2> HIDE DEF x, y, p
  <2>6. QED
    BY <2>1, <2>2, <2>3, <2>4, <2>5
<1>4. Deviation(ys) = D(n)
  BY <1>2 DEF Deviation, SumOver
<1> HIDE DEF x, y, p
<1>5. ASSUME NEW m \in 1 .. n - 1
      PROVE  G(m, m) >= m * (ys[m + 1] - ys[1])
  <2> DEFINE T == {k \in 0 .. m : k # 0 => G(m, k) >= m * (ys[m + 1] - ys[1])}
             top == ys[m + 1]
             gain == m * (top - ys[1])
  <2>1. top \in Int /\ ys[1] \in Int /\ gain \in Int /\ m \in Nat
    OBVIOUS
  <2>2. 0 \in T
    BY <2>1
  <2>3. ASSUME NEW k \in 1 .. m, k - 1 \in T PROVE k \in T
    <3>1. /\ k \in 1 .. n /\ k - 1 \in 0 .. n /\ k \in 0 .. m /\ k \in 0 .. n
          /\ m + 1 \in 1 .. n /\ k <= m + 1 /\ k \in Int
      OBVIOUS
    <3>2. /\ x[k] = x[k - 1] + (k - 1) /\ y[k] = y[k - 1] + ys[k]
          /\ p[k] = p[k - 1] + (k - 1) * ys[k]
          /\ x[k - 1] \in Int /\ y[k - 1] \in Int /\ p[k - 1] \in Int
          /\ ys[k] \in Int /\ ys[k] <= top
      BY <1>1, <1>3, <3>1
    <3>3. G(m, k) = G(m, k - 1) + (m - (k - 1)) * (top - ys[k])
      <4> DEFINE a == x[k - 1]
                 b == y[k - 1]
                 c == p[k - 1]
                 v == ys[k]
      <4>1. a \in Int /\ b \in Int /\ c \in Int /\ v \in Int
        BY <3>2
      <4>2. /\ G(m, k) = (c + (k - 1) * v) + k * m * top - (a + (k - 1)) * top - m * (b + v)
            /\ G(m, k - 1) = c + (k - 1) * m * top - a * top - m * b
        BY <3>2
      <4> HIDE DEF a, b, c, v, top, G
      <4>3. (c + (k - 1) * v) + k * m * top - (a + (k - 1)) * top - m * (b + v)
                = (c + (k - 1) * m * top - a * top - m * b) + (m - (k - 1)) * (top - v)
        BY <2>1, <3>1, <4>1
      <4>4. QED
        BY <4>2, <4>3 DEF v
    <3>4. G(m, k - 1) \in Int
      <4>1. \A a, b, c, t \in Int : c + (k - 1) * m * t - a * t - m * b \in Int
        BY <2>1, <3>1
      <4>2. QED
        BY <2>1, <3>2, <4>1
    <3>5. CASE k = 1
      <4>1. x[k - 1] = 0 /\ y[k - 1] = 0 /\ p[k - 1] = 0
        BY <1>3, <3>5
      <4>2. G(m, k - 1) = 0
        BY <2>1, <3>5, <4>1
      <4>3. G(m, k) = gain
        BY <2>1, <3>3, <3>5, <4>2
      <4>4. QED
        BY <2>1, <3>1, <4>3
    <3>6. CASE k # 1
      <4>1. G(m, k - 1) >= gain
        BY <2>3, <3>1, <3>6
      <4>2. (m - (k - 1)) * (top - ys[k]) >= 0 /\ (m - (k - 1)) * (top - ys[k]) \in Int
        <5>1. \A a, b \in Int : a >= 0 /\ b >= 0 => a * b >= 0 /\ a * b \in Int
          OBVIOUS
        <5>2. \A a, b \in Int : a <= b => b - a \in Int /\ b - a >= 0
          OBVIOUS
        <5>3. m \in Int /\ k - 1 \in Int /\ k - 1 <= m
          OBVIOUS
        <5>4. top \in Int /\ ys[k] \in Int /\ ys[k] <= top
          BY <2>1, <3>2
        <5>5. m - (k - 1) \in Int /\ m - (k - 1) >= 0
          BY <5>2, <5>3
        <5>6. top - ys[k] \in Int /\ top - ys[k] >= 0
          <6> HIDE DEF top
          <6>1. QED
            BY <5>2, <5>4
        <5>7. QED
          <6> HIDE DEF top
          <6>1. QED
            BY <5>1, <5>5, <5>6
      <4> HIDE DEF G, gain
      <4>3. G(m, k) >= gain
        BY <2>1, <3>3, <3>4, <4>1, <4>2
      <4>4. QED
        BY <3>1, <4>3 DEF gain
    <3>7. QED
      BY <3>5, <3>6
  <2>4. m \in T
    <3> HIDE DEF T
    <3>1. \A k \in 0 .. m : k \in T
      BY <2>1, <2>2, <2>3, InductionUpTo
    <3>2. m \in 0 .. m
      BY <2>1
    <3>3. QED
      BY <3>1, <3>2
  <2>5. QED
    BY <2>4
<1>6. ASSUME NEW m \in 1 .. n - 1
      PROVE  /\ D(m + 1) = D(m) + G(m, m)
             /\ D(m) \in Int /\ G(m, m) \in Int
  <2>1. /\ m \in Int /\ m + 1 \in 1 .. n /\ (m + 1) - 1 = m /\ m \in 0 .. n
    OBVIOUS
  <2>2. /\ x[m + 1] = x[m] + m /\ y[m + 1] = y[m] + ys[m + 1]
        /\ p[m + 1] = p[m] + m * ys[m + 1]
        /\ x[m] \in Int /\ y[m] \in Int /\ p[m] \in Int /\ ys[m + 1] \in Int
    BY <1>3, <2>1
  <2> DEFINE a == x[m]
             b == y[m]
             c == p[m]
             t == ys[m + 1]
  <2>3. a \in Int /\ b \in Int /\ c \in Int /\ t \in Int
    BY <2>2
  <2>4. /\ D(m + 1) = (m + 1) * (c + m * t) - (a + m) * (b + t)
        /\ D(m) = m * c - a * b
        /\ G(m, m) = c + m * m * t - a * t - m * b
    BY <2>2
  <2> HIDE DEF a, b, c, t, D, G
  <2>5. /\ (m + 1) * (c + m * t) - (a + m) * (b + t)
                = (m * c - a * b) + (c + m * m * t - a * t - m * b)
        /\ m * c - a * b \in Int
        /\ c + m * m * t - a * t - m * b \in Int
    BY <2>1, <2>3
  <2>6. QED
    BY <2>4, <2>5
<1>7. \A m \in 1 .. n : D(m) >= 0
  <2> DEFINE T == {m \in 0 .. n : m # 0 => D(m) >= 0}
  <2>1. 0 \in T
    OBVIOUS
  <2>2. ASSUME NEW m \in 1 .. n, m - 1 \in T PROVE m \in T
    <3>1. CASE m = 1
      <4>1. /\ 1 \in 1 .. n /\ 1 - 1 = 0 /\ 0 * ys[1] = 0 /\ ys[1] \in Int
        OBVIOUS
      <4>2. x[1] = x[0] + 0 /\ y[1] = y[0] + ys[1] /\ p[1] = p[0] + 0 * ys[1]
        BY <1>3, <4>1
      <4>3. x[1] = 0 /\ p[1] = 0 /\ y[1] \in Int
        BY <1>3, <4>1, <4>2
      <4>4. D(1) = 0
        BY <4>3
      <4>5. QED
        BY <3>1, <4>4
    <3>2. CASE m # 1
      <4> DEFINE k == m - 1
      <4>1. k \in 1 .. n - 1 /\ k + 1 = m /\ k # 0 /\ k \in Nat
        BY <3>2
      <4>2. D(k) >= 0
        BY <2>2, <4>1
      <4> HIDE DEF k
      <4>3. G(k, k) >= 0
        <5>1. ys[k + 1] \in Int /\ ys[1] \in Int /\ ys[1] <= ys[k + 1]
          BY <1>1, <4>1
        <5>2. \A a \in Nat : \A b, c \in Int : b <= c => a * (c - b) >= 0 /\ a * (c - b) \in Int
          OBVIOUS
        <5>3. k * (ys[k + 1] - ys[1]) >= 0 /\ k * (ys[k + 1] - ys[1]) \in Int
          BY <4>1, <5>1, <5>2
        <5> HIDE DEF G
        <5>4. G(k, k) \in Int /\ G(k, k) >= k * (ys[k + 1] - ys[1])
          BY <1>5, <1>6, <4>1
        <5>5. QED
          BY <5>3, <5>4
      <4> HIDE DEF D, G
      <4>4. D(k + 1) >= 0
        BY <1>6, <4>1, <4>2, <4>3
      <4>5. QED
        BY <4>1, <4>4
    <3>3. QED
      BY <3>1, <3>2
  <2>3. \A m \in 0 .. n : m \in T
    <3> HIDE DEF T
    <3>1. QED
      BY <2>1, <2>2, InductionUpTo
  <2>4. \A m \in 1 .. n : m \in 0 .. n /\ m # 0
    OBVIOUS
  <2> HIDE DEF D
  <2>5. QED
    BY <2>3, <2>4
<1>8. D(n) > 0
  <2> DEFINE k == n - 1
             least == k * (ys[k + 1] - ys[1])
  <2>1. k \in 1 .. n - 1 /\ k + 1 = n /\ k \in Nat /\ k > 0 /\ k \in 1 .. n
    OBVIOUS
  <2> HIDE DEF k
  <2>2. least > 0 /\ least \in Int
    <3>1. \A a \in Nat : \A b, c \in Int : a > 0 /\ b < c => a * (c - b) > 0 /\ a * (c - b) \in Int
      OBVIOUS
    <3>2. ys[n] \in Int /\ ys[1] \in Int
      OBVIOUS
    <3>3. QED
      BY <2>1, <3>1, <3>2
  <2> HIDE DEF D, G
  <2>3. D(k + 1) = D(k) + G(k, k) /\ D(k) \in Int /\ G(k, k) \in Int
    BY <1>6, <2>1
  <2>4. G(k, k) >= least /\ D(k) >= 0
    BY <1>5, <1>7, <2>1
  <2> HIDE DEF least
  <2>5. QED
    BY <2>1, <2>2, <2>3, <2>4
<1>9. QED
  BY <1>4, <1>8

(***************************************************************************)
(* Batches                                                                 *)
(***************************************************************************)
(* What a string comes back with, whatever batch it is in.                 *)
ScoreOf(text, cfg) ==
    IF HasScoreableSignal(text) THEN TurnScore(text, cfg) ELSE Unscored

(* Each batch puts scores where its strings came from.                     *)
Scattered(results, chunk, texts, cfg) ==
    Scatter(results, chunk, ScoreBatch([m \in DOMAIN chunk |-> texts[chunk[m]]], cfg))

LEMMA ScatterScores ==
    ASSUME NEW texts, NEW cfg, NEW results, NEW chunk, NEW n \in DOMAIN results
    PROVE  Scattered(results, chunk, texts, cfg)[n]
                = IF n \in ToSet(chunk) THEN TurnScore(texts[n], cfg) ELSE results[n]
<1> DEFINE gathered == [m \in DOMAIN chunk |-> texts[chunk[m]]]
           scores == ScoreBatch(gathered, cfg)
<1>1. CASE n \in ToSet(chunk)
  <2> DEFINE m == CHOOSE l \in DOMAIN chunk : chunk[l] = n
  <2>1. m \in DOMAIN chunk /\ chunk[m] = n
    BY <1>1 DEF ToSet
  <2> HIDE DEF m
  <2>2. m \in DOMAIN gathered /\ gathered[m] = texts[n]
    BY <2>1
  <2> HIDE DEF gathered
  <2>3. scores[m] = TurnScore(texts[n], cfg)
    BY <2>2 DEF ScoreBatch
  <2> HIDE DEF scores
  <2>4. Scatter(results, chunk, scores)[n] = scores[m]
    BY <1>1 DEF Scatter, m
  <2>5. QED
    BY <1>1, <2>3, <2>4 DEF scores, gathered, Scattered
<1>2. CASE n \notin ToSet(chunk)
  BY <1>2 DEF Scatter, Scattered
<1>3. QED
  BY <1>1, <1>2

(* The batches cover the list: each starts where the one before it ended,  *)
(* and the last one reaches the end.                                       *)
LEMMA StartsCover ==
    ASSUME NEW n \in Nat, NEW size \in Nat \ {0}
    PROVE  /\ Starts(n, size) \in Seq(Nat)
           /\ \A b \in 1 .. Len(Starts(n, size)) : Starts(n, size)[b] = (b - 1) * size
           /\ Len(Starts(n, size)) * size >= n
<1> DEFINE last == (n + size - 1) \div size
<1>1. last \in Nat /\ last * size >= n
  BY SMT
<1> HIDE DEF last
<1>2. \A b \in 1 .. last : (b - 1) * size \in Nat
  BY <1>1
<1>3. Starts(n, size) = [k \in 1 .. last |-> (k - 1) * size]
  <2>1. ~(size <= 0)
    OBVIOUS
  <2>2. QED
    BY <2>1 DEF Starts, last
<1>4. QED
  BY <1>1, <1>2, <1>3

LEMMA NoBatches ==
    ASSUME NEW n, NEW size \in Int, ~(size > 0)
    PROVE  Len(Starts(n, size)) = 0
BY DEF Starts

(* What a batch holds.                                                     *)
LEMMA ChunkHolds ==
    ASSUME NEW idx \in Seq(Nat), NEW start \in Nat, NEW size \in Nat \ {0}
    PROVE  /\ \A i \in DOMAIN idx :
                start < i /\ i <= start + size => idx[i] \in ToSet(Chunk(idx, start, size))
           /\ ToSet(Chunk(idx, start, size)) \subseteq ToSet(idx)
<1> DEFINE end == IF start + size < Len(idx) THEN start + size ELSE Len(idx)
           chunk == [j \in 1 .. end - start |-> idx[start + j]]
<1>1. end \in Nat
  OBVIOUS
<1>2. Chunk(idx, start, size) = chunk
  <2>1. Chunk(idx, start, size) = SubSeq(idx, start + 1, end)
    BY DEF Chunk
  <2>2. SubSeq(idx, start + 1, end) = [j \in 1 .. end - start |-> idx[start + j]]
    BY <1>1
  <2>3. QED
    BY <2>1, <2>2
<1>3. ASSUME NEW i \in DOMAIN idx, start < i, i <= start + size
      PROVE  idx[i] \in ToSet(chunk)
  <2>1. i - start \in 1 .. end - start /\ start + (i - start) = i
    BY <1>3
  <2>2. QED
    BY <2>1 DEF ToSet
<1>4. ToSet(chunk) \subseteq ToSet(idx)
  <2>1. \A j \in 1 .. end - start : start + j \in DOMAIN idx
    BY <1>1
  <2>2. QED
    BY <2>1 DEF ToSet
<1>5. QED
  BY <1>2, <1>3, <1>4

(* The results after each number of batches: every string without a signal *)
(* is answered, and of the others those that were in a batch.              *)
Answers(results, texts, idx, upto, cfg) ==
    /\ \A n \in DOMAIN texts : ~HasScoreableSignal(texts[n]) => results[n] = Unscored
    /\ \A i \in DOMAIN idx : i <= upto => results[idx[i]] = TurnScore(texts[idx[i]], cfg)

BatchesAnswer(after, idx, starts, texts, cfg) ==
    /\ after[0] = Unbatched(texts)
    /\ \A b \in 0 .. Len(starts) : DOMAIN after[b] = DOMAIN texts
    /\ \A b \in 1 .. Len(starts) : \A n \in DOMAIN texts :
            after[b][n] = IF n \in ToSet(Chunk(idx, starts[b], cfg.batch_size))
                          THEN TurnScore(texts[n], cfg)
                          ELSE after[b - 1][n]

LEMMA AfterBatchesSteps ==
    ASSUME NEW texts, Len(texts) \in Nat, DOMAIN texts = 1 .. Len(texts), NEW cfg,
           cfg.batch_size \in Int
    PROVE  BatchesAnswer(AfterBatches(texts, cfg), ToScoreIdx(texts),
                         Starts(Len(ToScoreIdx(texts)), cfg.batch_size), texts, cfg)
<1> DEFINE idx == ToScoreIdx(texts)
           starts == Starts(Len(idx), cfg.batch_size)
           chunk(b) == Chunk(idx, starts[b], cfg.batch_size)
           V == {Unscored, Unfilled} \cup {TurnScore(texts[n], cfg) : n \in DOMAIN texts}
           A == [DOMAIN texts -> V]
           step == [b \in 1 .. Len(starts) |-> [r \in A |-> Scattered(r, chunk(b), texts, cfg)]]
           Steps(f) == f = [b \in 0 .. Len(starts) |->
                              IF b = 0 THEN Unbatched(texts)
                              ELSE Scattered(f[b - 1], chunk(b), texts, cfg)]
<1>1. idx \in Seq(Nat) /\ Len(starts) \in Nat
  <2>1. idx \in Seq(Nat) /\ Len(idx) \in Nat
    BY AscendingLists DEF ToScoreIdx, ListsInOrder
  <2> HIDE DEF idx
  <2>2. CASE cfg.batch_size > 0
    BY <2>1, <2>2, StartsCover
  <2>3. CASE ~(cfg.batch_size > 0)
    BY <2>1, <2>3, NoBatches
  <2>4. QED
    BY <2>1, <2>2, <2>3
<1>2. Unbatched(texts) \in A
  BY DEF Unbatched
<1>3. ASSUME NEW b \in 1 .. Len(starts), NEW r \in A
      PROVE  /\ Scattered(r, chunk(b), texts, cfg) \in A
             /\ \A n \in DOMAIN texts :
                    Scattered(r, chunk(b), texts, cfg)[n]
                        = IF n \in ToSet(chunk(b)) THEN TurnScore(texts[n], cfg) ELSE r[n]
  <2> DEFINE c == chunk(b)
             s == Scattered(r, c, texts, cfg)
  <2>1. DOMAIN r = DOMAIN texts /\ \A n \in DOMAIN texts : r[n] \in V
    OBVIOUS
  <2> HIDE DEF c, V
  <2>2. \A n \in DOMAIN texts : s[n] = IF n \in ToSet(c) THEN TurnScore(texts[n], cfg) ELSE r[n]
    <3> HIDE DEF s
    <3>1. ASSUME NEW n \in DOMAIN texts
          PROVE  s[n] = IF n \in ToSet(c) THEN TurnScore(texts[n], cfg) ELSE r[n]
      BY <2>1, ScatterScores DEF s
    <3>2. QED
      BY <3>1
  <2>3. DOMAIN s = DOMAIN texts /\ s = [n \in DOMAIN s |-> s[n]]
    BY <2>1 DEF Scatter, Scattered
  <2> HIDE DEF s
  <2>4. \A n \in DOMAIN texts : s[n] \in V
    BY <2>1, <2>2 DEF V
  <2>5. s \in A
    BY <2>3, <2>4
  <2>6. QED
    BY <2>2, <2>5 DEF c, s
<1> HIDE DEF V, chunk, starts, idx
<1>4. PICK f : Iterates(f, Len(starts), A, Unbatched(texts), step)
  <2>1. step \in [1 .. Len(starts) -> [A -> A]]
    BY <1>3
  <2> HIDE DEF A, step
  <2>2. QED
    BY <1>1, <1>2, <2>1, Recursion
<1>5. Steps(f)
  <2>1. /\ f \in [0 .. Len(starts) -> A] /\ f[0] = Unbatched(texts)
        /\ \A b \in 1 .. Len(starts) : f[b] = step[b][f[b - 1]]
    BY <1>4 DEF Iterates
  <2>2. \A b \in 1 .. Len(starts) : b - 1 \in 0 .. Len(starts)
    BY <1>1
  <2>3. \A b \in 1 .. Len(starts) : f[b] = Scattered(f[b - 1], chunk(b), texts, cfg)
    <3> HIDE DEF A
    <3>1. QED
      BY <2>1, <2>2
  <2>4. \A b \in 0 .. Len(starts) : b # 0 => b \in 1 .. Len(starts)
    BY <1>1
  <2> HIDE DEF A, step
  <2>5. QED
    BY <2>1, <2>3, <2>4
<1>6. AfterBatches(texts, cfg) = CHOOSE g : Steps(g)
  BY DEF AfterBatches, Scattered, Steps, idx, starts, chunk
<1>7. Steps(AfterBatches(texts, cfg))
  <2> HIDE DEF Steps
  <2>1. QED
    BY <1>5, <1>6
<1> DEFINE after == AfterBatches(texts, cfg)
<1>8. /\ after[0] = Unbatched(texts)
      /\ \A b \in 1 .. Len(starts) : after[b] = Scattered(after[b - 1], chunk(b), texts, cfg)
  <2> HIDE DEF after
  <2>1. \A b \in 0 .. Len(starts) :
            after[b] = IF b = 0 THEN Unbatched(texts)
                       ELSE Scattered(after[b - 1], chunk(b), texts, cfg)
    BY <1>7 DEF after
  <2>2. 0 \in 0 .. Len(starts) /\ \A b \in 1 .. Len(starts) : b # 0 /\ b \in 0 .. Len(starts)
    BY <1>1
  <2>3. QED
    BY <2>1, <2>2
<1> HIDE DEF after
<1>9. \A b \in 0 .. Len(starts) : DOMAIN after[b] = DOMAIN texts
  <2> DEFINE T == {b \in 0 .. Len(starts) : DOMAIN after[b] = DOMAIN texts}
  <2>1. 0 \in T
    BY <1>1, <1>8 DEF Unbatched
  <2>2. ASSUME NEW b \in 1 .. Len(starts), b - 1 \in T
        PROVE  b \in T
    <3>1. DOMAIN after[b] = DOMAIN after[b - 1]
      BY <1>8 DEF Scatter, Scattered
    <3>2. QED
      BY <1>1, <2>2, <3>1
  <2>3. \A b \in 0 .. Len(starts) : b \in T
    <3> HIDE DEF T
    <3>1. QED
      BY <1>1, <2>1, <2>2, InductionUpTo
  <2>4. QED
    BY <2>3
<1>10. ASSUME NEW b \in 1 .. Len(starts), NEW n \in DOMAIN texts
       PROVE  after[b][n] = IF n \in ToSet(chunk(b))
                            THEN TurnScore(texts[n], cfg)
                            ELSE after[b - 1][n]
  <2> DEFINE r == after[b - 1]
             c == chunk(b)
  <2>1. DOMAIN r = DOMAIN texts
    BY <1>1, <1>9
  <2>2. after[b] = Scattered(r, c, texts, cfg)
    BY <1>8
  <2> HIDE DEF r, c
  <2>3. Scattered(r, c, texts, cfg)[n] = IF n \in ToSet(c) THEN TurnScore(texts[n], cfg) ELSE r[n]
    BY <2>1, ScatterScores
  <2>4. QED
    BY <2>2, <2>3 DEF r, c
<1>11. QED
  BY <1>8, <1>9, <1>10 DEF BatchesAnswer, after, chunk, starts, idx

LEMMA BatchesFillSlots ==
    ASSUME NEW texts, Len(texts) \in Nat, DOMAIN texts = 1 .. Len(texts), NEW cfg,
           cfg.batch_size \in Nat \ {0}
    PROVE  /\ DOMAIN ScoreTexts(texts, cfg) = DOMAIN texts
           /\ \A n \in DOMAIN texts : ScoreTexts(texts, cfg)[n] = ScoreOf(texts[n], cfg)
<1> DEFINE S == {n \in DOMAIN texts : HasScoreableSignal(texts[n])}
           idx == ToScoreIdx(texts)
           size == cfg.batch_size
           starts == Starts(Len(idx), size)
           after == AfterBatches(texts, cfg)
           T == {b \in 0 .. Len(starts) : Answers(after[b], texts, idx, b * size, cfg)}
<1>0. size \in Nat \ {0}
  OBVIOUS
<1>1. ListsInOrder(idx, S, Len(texts))
  BY AscendingLists DEF ToScoreIdx
<1>2. /\ starts \in Seq(Nat) /\ Len(starts) \in Nat
      /\ \A b \in 1 .. Len(starts) : starts[b] = (b - 1) * size
      /\ Len(starts) * size >= Len(idx)
  <2>1. Len(idx) \in Nat
    BY <1>1 DEF ListsInOrder
  <2> HIDE DEF idx, size
  <2>2. /\ starts \in Seq(Nat)
        /\ \A b \in 1 .. Len(starts) : starts[b] = (b - 1) * size
        /\ Len(starts) * size >= Len(idx)
    BY <1>0, <2>1, StartsCover
  <2> HIDE DEF starts
  <2>3. QED
    BY <2>2
<1>3. BatchesAnswer(after, idx, starts, texts, cfg)
  BY AfterBatchesSteps
<1>4. ScoreTexts(texts, cfg) = after[Len(starts)]
  BY DEF ScoreTexts
<1>5. /\ idx \in Seq(Nat) /\ DOMAIN idx = 1 .. Len(idx) /\ Len(idx) \in Nat
      /\ \A i \in DOMAIN idx : idx[i] \in DOMAIN texts /\ idx[i] \in S
      /\ \A n \in DOMAIN texts : n \in S => \E i \in DOMAIN idx : idx[i] = n
  BY <1>1 DEF ListsInOrder
<1> HIDE DEF idx, starts, after, size
<1>6. 0 \in T
  <2>1. after[0] = Unbatched(texts) /\ 0 * size = 0 /\ \A i \in DOMAIN idx : ~(i <= 0)
    BY <1>0, <1>3, <1>5 DEF BatchesAnswer
  <2>2. Answers(after[0], texts, idx, 0, cfg)
    BY <2>1 DEF Answers, Unbatched
  <2>3. QED
    BY <1>2, <2>1, <2>2
<1>7. ASSUME NEW b \in 1 .. Len(starts), b - 1 \in T
      PROVE  b \in T
  <2> DEFINE chunk == Chunk(idx, starts[b], size)
             start == (b - 1) * size
             held == ToSet(chunk)
  <2>1. start \in Nat /\ b * size = start + size /\ starts[b] = start
    BY <1>0, <1>2
  <2>2. /\ \A i \in DOMAIN idx : start < i /\ i <= start + size => idx[i] \in held
        /\ held \subseteq ToSet(idx)
    <3> HIDE DEF start
    <3>1. QED
      BY <1>0, <1>5, <2>1, ChunkHolds
  <2> HIDE DEF held
  <2>3. held \subseteq S
    BY <1>5, <2>2 DEF ToSet
  <2> USE DEF held
  <2>4. \A n \in DOMAIN texts :
            after[b][n] = IF n \in held THEN TurnScore(texts[n], cfg) ELSE after[b - 1][n]
    BY <1>3 DEF BatchesAnswer, size
  <2>5. /\ \A n \in DOMAIN texts : ~HasScoreableSignal(texts[n]) => after[b - 1][n] = Unscored
        /\ \A i \in DOMAIN idx : i <= start => after[b - 1][idx[i]] = TurnScore(texts[idx[i]], cfg)
    BY <1>7 DEF Answers
  <2> HIDE DEF chunk, start, held
  <2>6. ASSUME NEW n \in DOMAIN texts, ~HasScoreableSignal(texts[n])
        PROVE  after[b][n] = Unscored
    BY <2>3, <2>4, <2>5, <2>6
  <2>7. ASSUME NEW i \in DOMAIN idx, i <= start + size
        PROVE  after[b][idx[i]] = TurnScore(texts[idx[i]], cfg)
    <3>1. CASE idx[i] \in held
      BY <1>5, <2>4, <3>1
    <3>2. CASE idx[i] \notin held
      <4>1. i <= start
        BY <1>5, <2>1, <2>2, <2>7, <3>2
      <4>2. QED
        BY <1>5, <2>4, <2>5, <3>2, <4>1
    <3>3. QED
      BY <3>1, <3>2
  <2>8. Answers(after[b], texts, idx, start + size, cfg)
    BY <2>6, <2>7 DEF Answers
  <2>9. QED
    BY <1>2, <2>1, <2>8
<1>8. Answers(after[Len(starts)], texts, idx, Len(starts) * size, cfg)
  <2>1. \A b \in 0 .. Len(starts) : b \in T
    <3> HIDE DEF T
    <3>1. QED
      BY <1>2, <1>6, <1>7, InductionUpTo
  <2>2. Len(starts) \in 0 .. Len(starts)
    BY <1>2
  <2>3. QED
    BY <2>1, <2>2
<1>9. ASSUME NEW n \in DOMAIN texts
      PROVE  after[Len(starts)][n] = ScoreOf(texts[n], cfg)
  <2>1. CASE ~HasScoreableSignal(texts[n])
    BY <1>8, <2>1 DEF Answers, ScoreOf
  <2>2. CASE HasScoreableSignal(texts[n])
    <3>1. PICK i \in DOMAIN idx : idx[i] = n
      BY <1>5, <2>2
    <3>2. i <= Len(starts) * size
      BY <1>0, <1>2, <1>5
    <3>3. QED
      BY <1>8, <2>2, <3>1, <3>2 DEF Answers, ScoreOf
  <2>3. QED
    BY <2>1, <2>2
<1>10. QED
  BY <1>2, <1>3, <1>4, <1>9 DEF BatchesAnswer

LEMMA NoBatchFillsNoSlot ==
    ASSUME NEW texts, Len(texts) \in Nat, DOMAIN texts = 1 .. Len(texts), NEW cfg,
           cfg.batch_size \in Int, ~(cfg.batch_size > 0)
    PROVE  ScoreTexts(texts, cfg) = Unbatched(texts)
<1> DEFINE starts == Starts(Len(ToScoreIdx(texts)), cfg.batch_size)
<1>1. Len(starts) = 0
  BY NoBatches
<1>2. AfterBatches(texts, cfg)[0] = Unbatched(texts)
  BY AfterBatchesSteps DEF BatchesAnswer
<1>3. QED
  BY <1>1, <1>2 DEF ScoreTexts

(* There are batches, or no string that would need one.                    *)
Batched(texts, cfg) ==
    \/ cfg.batch_size > 0
    \/ \A n \in DOMAIN texts : ~HasScoreableSignal(texts[n])

(* Whatever the size of a batch, and with a last one that may be short,    *)
(* score_texts fills every slot with the score of its own string.          *)
THEOREM EverySlotIsFilled ==
    ASSUME NEW texts, Len(texts) \in Nat, DOMAIN texts = 1 .. Len(texts), NEW cfg,
           cfg.batch_size \in Int, Batched(texts, cfg)
    PROVE  /\ DOMAIN ScoreTexts(texts, cfg) = DOMAIN texts
           /\ \A n \in DOMAIN texts : ScoreTexts(texts, cfg)[n] = ScoreOf(texts[n], cfg)
<1>1. CASE cfg.batch_size > 0
  <2>1. cfg.batch_size \in Nat \ {0}
    BY <1>1
  <2>2. QED
    BY <2>1, BatchesFillSlots
<1>2. CASE ~(cfg.batch_size > 0)
  BY <1>2, NoBatchFillsNoSlot DEF Batched, Unbatched, ScoreOf
<1>3. QED
  BY <1>1, <1>2

(* Every string that goes to the model can be read.                        *)
AllReadable(texts, cfg) ==
    \A text \in ToSet(texts) :
        HasScoreableSignal(text) => cfg.max_tokens \in Readable[text]

(* So the assertion at the end of score_texts fails for no list at all     *)
(* when batches have a positive size, and otherwise for every list with a  *)
(* signal in it.                                                           *)
LEMMA ScoringRaisesWithoutBatches ==
    ASSUME NEW texts, Len(texts) \in Nat, DOMAIN texts = 1 .. Len(texts), NEW cfg,
           cfg.batch_size \in Int
    PROVE  ScoringRaises(texts, cfg) <=> \/ cfg.batch_size = 0
                                        \/ ~Batched(texts, cfg)
                                        \/ ~AllReadable(texts, cfg)
<1> DEFINE scores == ScoreTexts(texts, cfg)
<1>1. \A text : ScoreOf(text, cfg) # Unfilled
  BY DEF ScoreOf, TurnScore, Unfilled, Unscored
<1>2. ASSUME Batched(texts, cfg) PROVE Unfilled \notin ToSet(scores)
  <2>1. DOMAIN scores = DOMAIN texts
        /\ \A n \in DOMAIN texts : scores[n] = ScoreOf(texts[n], cfg)
    BY <1>2, EverySlotIsFilled
  <2> HIDE DEF scores
  <2>2. QED
    BY <1>1, <2>1 DEF ToSet
<1>3. ASSUME ~Batched(texts, cfg) PROVE Unfilled \in ToSet(scores)
  <2>1. PICK n \in DOMAIN texts : HasScoreableSignal(texts[n])
    BY <1>3 DEF Batched
  <2>2. scores = Unbatched(texts)
    BY <1>3, NoBatchFillsNoSlot DEF Batched
  <2> HIDE DEF scores
  <2>3. n \in DOMAIN scores /\ scores[n] = Unfilled
    BY <2>1, <2>2 DEF Unbatched
  <2>4. QED
    BY <2>3 DEF ToSet
<1> HIDE DEF scores
<1>4. ScoringRaises(texts, cfg) <=> \/ cfg.batch_size = 0
                                    \/ ~AllReadable(texts, cfg)
                                    \/ Unfilled \in ToSet(scores)
  BY DEF ScoringRaises, AllReadable, scores
<1>5. QED
  BY <1>2, <1>3, <1>4

(***************************************************************************)
(* What the model answers                                                  *)
(***************************************************************************)
LEMMA ArgmaxIsLargest ==
    ASSUME NEW probs \in Seq(0 .. 100), probs # <<>>
    PROVE  /\ Argmax(probs) \in DOMAIN probs
           /\ \A j \in DOMAIN probs : probs[j] <= probs[Argmax(probs)]
<1>1. /\ DOMAIN probs = 1 .. Len(probs) /\ Len(probs) \in Nat \ {0}
      /\ \A i \in DOMAIN probs : probs[i] \in Int /\ 100 - probs[i] \in Nat
  <2>1. DOMAIN probs = 1 .. Len(probs) /\ Len(probs) \in Nat \ {0}
    OBVIOUS
  <2>2. ASSUME NEW i \in DOMAIN probs
        PROVE  probs[i] \in Int /\ 100 - probs[i] \in Nat
    <3>1. probs[i] \in 0 .. 100
      BY <2>1, ElementOfSeq
    <3>2. \A p \in 0 .. 100 : p \in Int /\ 100 - p \in Nat
      OBVIOUS
    <3>3. QED
      BY <3>1, <3>2
  <2>3. QED
    BY <2>1, <2>2
<1> DEFINE gaps == {100 - probs[i] : i \in DOMAIN probs}
<1>2. PICK g \in gaps : \A h \in gaps : g <= h
  <2>1. gaps \in SUBSET Nat /\ gaps # {}
    BY <1>1
  <2> HIDE DEF gaps
  <2>2. QED
    BY <2>1, HasLeast
<1> DEFINE top == {i \in DOMAIN probs : 100 - probs[i] = g}
<1>3. PICK i \in top : \A j \in top : i <= j
  <2>1. top \in SUBSET Nat /\ top # {}
    BY <1>1
  <2> HIDE DEF top
  <2>2. QED
    BY <2>1, HasLeast
<1>4. ASSUME NEW j \in DOMAIN probs
      PROVE  probs[j] <= probs[i] /\ (j < i => probs[j] < probs[i])
  <2>0. 100 - probs[i] = g /\ i \in DOMAIN probs /\ 100 - probs[j] \in gaps
    OBVIOUS
  <2> HIDE DEF gaps
  <2>1. g <= 100 - probs[j] /\ probs[j] \in Int /\ probs[i] \in Int /\ probs[i] = 100 - g
    BY <1>1, <1>2, <2>0
  <2>2. j < i => j \notin top
    BY <1>1, <1>3
  <2>3. QED
    BY <1>1, <2>1, <2>2
<1>5. QED
  BY <1>4 DEF Argmax

LEMMA GreatestIsMax ==
    ASSUME NEW S \in SUBSET Int, NEW x \in S, \A y \in S : y <= x
    PROVE  Max(S) = x
<1>1. \A y \in S : (\A z \in S : y >= z) => y = x
  OBVIOUS
<1>2. x \in S /\ \A z \in S : x >= z
  OBVIOUS
<1>3. QED
  BY <1>1, <1>2 DEF Max

(* Whatever the order of its labels, the model's answer is read by their   *)
(* names.                                                                  *)
LEMMA ReadByName ==
    ASSUME NEW text, NEW cfg,
           cfg.model_revision \in DOMAIN Id2Label,
           Loads(cfg),
           Truncated(text, cfg) \in Words \cup Emoji
    PROVE  LET seen == Softmax[Truncated(text, cfg)]
           IN  /\ TurnScore(text, cfg).signed = seen.positive - seen.negative
               /\ TurnScore(text, cfg).confidence = Max(Range(seen))
               /\ TurnScore(text, cfg).signed \in Int
               /\ TurnScore(text, cfg).confidence \in Nat
               /\ TurnScore(text, cfg).label \in Labels
               /\ seen[TurnScore(text, cfg).label] = TurnScore(text, cfg).confidence
<1> DEFINE labels == Id2Label[cfg.model_revision]
           seen == Softmax[Truncated(text, cfg)]
           probs == [i \in DOMAIN labels |-> seen[labels[i]]]
<1>1. labels \in Seq(Labels) /\ Labels \subseteq ToSet(labels)
  BY ScorerAssumption DEF Loads
<1>2. seen \in [Labels -> 0 .. 100]
  BY ScorerAssumption
<1>3. /\ TurnScore(text, cfg).signed = probs[IndexOfLabel(labels, "positive")]
                                            - probs[IndexOfLabel(labels, "negative")]
      /\ TurnScore(text, cfg).confidence = probs[Argmax(probs)]
      /\ TurnScore(text, cfg).label = labels[Argmax(probs)]
  BY DEF TurnScore
<1> HIDE DEF labels, seen
<1>4. \A label \in Labels : \E i \in DOMAIN labels : labels[i] = label
  BY <1>1 DEF ToSet
<1>5. \A label \in Labels : probs[IndexOfLabel(labels, label)] = seen[label]
  BY <1>4 DEF IndexOfLabel
<1>6. probs \in Seq(0 .. 100) /\ probs # <<>> /\ DOMAIN probs = DOMAIN labels
  <2>1. DOMAIN labels = 1 .. Len(labels) /\ Len(labels) \in Nat
    BY <1>1
  <2>2. \A i \in DOMAIN labels : seen[labels[i]] \in 0 .. 100
    BY <1>1, <1>2
  <2>3. DOMAIN labels # {}
    BY <1>4 DEF Labels
  <2>4. QED
    BY <2>1, <2>2, <2>3
<1>7. /\ probs[Argmax(probs)] \in Range(seen)
      /\ labels[Argmax(probs)] \in Labels
      /\ seen[labels[Argmax(probs)]] = probs[Argmax(probs)]
      /\ \A p \in Range(seen) : p <= probs[Argmax(probs)]
      /\ Range(seen) \subseteq Nat
  <2>1. /\ Argmax(probs) \in DOMAIN labels
        /\ \A j \in DOMAIN labels : probs[j] <= probs[Argmax(probs)]
    <3> HIDE DEF probs
    <3>1. QED
      BY <1>6, ArgmaxIsLargest
  <2>2. \A i \in DOMAIN labels : probs[i] = seen[labels[i]] /\ labels[i] \in Labels
    BY <1>1
  <2> HIDE DEF probs
  <2>3. DOMAIN seen = Labels
    BY <1>2
  <2>4. probs[Argmax(probs)] \in Range(seen)
    BY <2>1, <2>2, <2>3 DEF Range
  <2>5. \A label \in Labels : seen[label] <= probs[Argmax(probs)]
    BY <1>4, <2>1, <2>2
  <2>6. QED
    BY <1>2, <2>1, <2>2, <2>3, <2>4, <2>5 DEF Range
<1>8. probs[Argmax(probs)] = Max(Range(seen)) /\ probs[Argmax(probs)] \in Nat
  <2> HIDE DEF probs
  <2>1. Range(seen) \in SUBSET Int
    BY <1>7
  <2>2. QED
    BY <1>7, <2>1, GreatestIsMax
<1>9. seen["positive"] \in Int /\ seen["negative"] \in Int
  BY <1>2 DEF Labels
<1> HIDE DEF probs
<1>10. /\ probs[IndexOfLabel(labels, "positive")] = seen["positive"]
       /\ probs[IndexOfLabel(labels, "negative")] = seen["negative"]
  BY <1>5 DEF Labels
<1>11. QED
  BY <1>3, <1>7, <1>8, <1>9, <1>10 DEF seen

(***************************************************************************)
(* From the turns of a conversation to its row                             *)
(***************************************************************************)
(* The positions that are scored.                                          *)
ScoredPositions(turns, cfg) ==
    TurnsOf("customer", turns)
        \cup (IF cfg.score_agent_turns THEN TurnsOf("agent", turns) ELSE {})

LEMMA AscendingIsSet ==
    ASSUME NEW n \in Nat, NEW S, S \subseteq 1 .. n
    PROVE  Ascending(S, n) \in Seq(Nat) /\ ToSet(Ascending(S, n)) = S
<1> DEFINE s == Ascending(S, n)
<1>1. ListsInOrder(s, S, n)
  BY AscendingLists
<1> HIDE DEF s
<1>2. s \in Seq(Nat) /\ ToSet(s) = S
  BY <1>1 DEF ListsInOrder, ToSet
<1>3. QED
  BY <1>2 DEF s

LEMMA EmptyIsEmpty ==
    ASSUME NEW s \in Seq(Nat)
    PROVE  /\ Len(s) = 0 <=> ToSet(s) = {}
           /\ s = <<>> <=> ToSet(s) = {}
<1>1. DOMAIN s = 1 .. Len(s) /\ Len(s) \in Nat
  OBVIOUS
<1>2. CASE Len(s) = 0
  <2>1. s = <<>> /\ DOMAIN s = {}
    BY <1>1, <1>2
  <2>2. QED
    BY <1>2, <2>1 DEF ToSet
<1>3. CASE Len(s) # 0
  <2>1. 1 \in DOMAIN s
    BY <1>1, <1>3
  <2>2. s[1] \in ToSet(s)
    BY <2>1 DEF ToSet
  <2>3. QED
    BY <1>3, <2>2
<1>4. QED
  BY <1>2, <1>3

LEMMA ConcatIsUnion ==
    ASSUME NEW s \in Seq(Nat), NEW t \in Seq(Nat)
    PROVE  s \o t \in Seq(Nat) /\ ToSet(s \o t) = ToSet(s) \cup ToSet(t)
<1>1. /\ s \o t \in Seq(Nat) /\ Len(s \o t) = Len(s) + Len(t)
      /\ \A i \in 1 .. Len(s) + Len(t) :
            (s \o t)[i] = IF i <= Len(s) THEN s[i] ELSE t[i - Len(s)]
  BY ConcatProperties
<1>2. /\ DOMAIN s = 1 .. Len(s) /\ DOMAIN t = 1 .. Len(t)
      /\ DOMAIN (s \o t) = 1 .. Len(s) + Len(t) /\ Len(s) \in Nat /\ Len(t) \in Nat
  BY <1>1
<1> DEFINE u == s \o t
<1> HIDE DEF u
<1>3. ASSUME NEW i \in DOMAIN u PROVE u[i] \in ToSet(s) \cup ToSet(t)
  <2>1. CASE i <= Len(s)
    BY <1>1, <1>2, <2>1 DEF u, ToSet
  <2>2. CASE ~(i <= Len(s))
    <3>1. i - Len(s) \in DOMAIN t /\ u[i] = t[i - Len(s)]
      BY <1>1, <1>2, <2>2 DEF u
    <3>2. QED
      BY <3>1 DEF ToSet
  <2>3. QED
    BY <2>1, <2>2
<1>4. ASSUME NEW i \in DOMAIN s PROVE s[i] \in ToSet(u)
  <2>1. i \in DOMAIN u /\ u[i] = s[i]
    BY <1>1, <1>2 DEF u
  <2>2. QED
    BY <2>1 DEF ToSet
<1>5. ASSUME NEW i \in DOMAIN t PROVE t[i] \in ToSet(u)
  <2>0. /\ Len(s) + i \in 1 .. Len(s) + Len(t)
        /\ ~(Len(s) + i <= Len(s)) /\ (Len(s) + i) - Len(s) = i
    BY <1>2
  <2>1. Len(s) + i \in DOMAIN u /\ u[Len(s) + i] = t[i]
    BY <1>1, <1>2, <2>0 DEF u
  <2>2. QED
    BY <2>1 DEF ToSet
<1>6. ToSet(u) = ToSet(s) \cup ToSet(t)
  BY <1>3, <1>4, <1>5 DEF ToSet
<1>7. QED
  BY <1>1, <1>6 DEF u

LEMMA ToScoreIsScored ==
    ASSUME NEW turns, Len(turns) \in Nat, DOMAIN turns = 1 .. Len(turns), NEW cfg
    PROVE  /\ ToScore(turns, cfg) \in Seq(Nat)
           /\ ToSet(ToScore(turns, cfg)) = ScoredPositions(turns, cfg)
           /\ ScoredPositions(turns, cfg) \subseteq 1 .. Len(turns)
<1> DEFINE customer == Ascending(TurnsOf("customer", turns), Len(turns))
           agent == Ascending(TurnsOf("agent", turns), Len(turns))
           context == IF cfg.score_agent_turns THEN agent ELSE <<>>
           agents == IF cfg.score_agent_turns THEN TurnsOf("agent", turns) ELSE {}
<1>1. \A role : TurnsOf(role, turns) \subseteq 1 .. Len(turns)
  BY DEF TurnsOf, Kept
<1>2. /\ customer \in Seq(Nat) /\ ToSet(customer) = TurnsOf("customer", turns)
      /\ agent \in Seq(Nat) /\ ToSet(agent) = TurnsOf("agent", turns)
  BY <1>1, AscendingIsSet
<1>3. <<>> \in Seq(Nat) /\ ToSet(<<>>) = {}
  BY DEF ToSet
<1> HIDE DEF customer, agent
<1>4. context \in Seq(Nat) /\ ToSet(context) = agents
  BY <1>2, <1>3
<1>5. ToScore(turns, cfg) = customer \o context
  BY DEF ToScore, customer, agent
<1> HIDE DEF context
<1>6. customer \o context \in Seq(Nat)
      /\ ToSet(customer \o context) = ToSet(customer) \cup ToSet(context)
  BY <1>2, <1>4, ConcatIsUnion
<1>7. QED
  BY <1>1, <1>2, <1>4, <1>5, <1>6 DEF ScoredPositions

LEMMA EachByItsPosition ==
    ASSUME NEW turns, NEW order \in Seq(Nat), NEW cfg, cfg.batch_size \in Int,
           \/ cfg.batch_size > 0
           \/ \A p \in ToSet(order) : ~HasScoreableSignal(turns[p].text)
    PROVE  /\ DOMAIN ScoreByIndex(turns, order, cfg) = ToSet(order)
           /\ \A p \in ToSet(order) :
                ScoreByIndex(turns, order, cfg)[p] = ScoreOf(turns[p].text, cfg)
<1> DEFINE texts == [n \in DOMAIN order |-> turns[order[n]].text]
           scores == ScoreTexts(texts, cfg)
<1>1. Len(texts) \in Nat /\ DOMAIN texts = 1 .. Len(texts) /\ DOMAIN texts = DOMAIN order
  <2>1. DOMAIN order = 1 .. Len(order) /\ Len(order) \in Nat
    OBVIOUS
  <2>2. texts \in Seq({turns[order[n]].text : n \in DOMAIN order})
    BY <2>1
  <2>3. QED
    BY <2>1, <2>2
<1>2. \A n \in DOMAIN texts : texts[n] = turns[order[n]].text
  OBVIOUS
<1> HIDE DEF texts
<1>3. \A n \in DOMAIN texts : scores[n] = ScoreOf(texts[n], cfg)
  <2>1. cfg.batch_size > 0 \/ \A n \in DOMAIN texts : ~HasScoreableSignal(texts[n])
    BY <1>1, <1>2 DEF ToSet
  <2>2. QED
    BY <1>1, <2>1, EverySlotIsFilled DEF Batched
<1> HIDE DEF scores
<1>4. ASSUME NEW p \in ToSet(order)
      PROVE  scores[CHOOSE n \in DOMAIN order : order[n] = p] = ScoreOf(turns[p].text, cfg)
  <2> DEFINE n == CHOOSE m \in DOMAIN order : order[m] = p
  <2>1. n \in DOMAIN order /\ order[n] = p
    BY DEF ToSet
  <2> HIDE DEF n
  <2>2. scores[n] = ScoreOf(turns[p].text, cfg)
    BY <1>1, <1>2, <1>3, <2>1
  <2>3. QED
    BY <2>2 DEF n
<1>5. ScoreByIndex(turns, order, cfg)
        = [p \in ToSet(order) |-> scores[CHOOSE n \in DOMAIN order : order[n] = p]]
  BY DEF ScoreByIndex, scores, texts
<1>6. QED
  BY <1>4, <1>5

(* What a customer's strings are worth, in the order of the conversation.  *)
CustomerScores(turns, cfg) ==
    LET customer == Ascending(TurnsOf("customer", turns), Len(turns))
    IN  [n \in DOMAIN customer |-> ScoreOf(turns[customer[n]].text, cfg)]

(* A row holds each score at the position of its string, and the metrics   *)
(* are those of the customer's scores alone.                               *)
AssembledFrom(assembled, turns, cfg) ==
    LET overall == OverallSentiment(CustomerScores(turns, cfg), cfg)
        perTurn == Ascending(ScoredPositions(turns, cfg), Len(turns))
        dropped == Ascending(Dropped(turns), Len(turns))
    IN  /\ assembled.overall = overall
        /\ assembled.trajectory = SentimentTrajectory(CustomerScores(turns, cfg), cfg)
        /\ assembled.status = IF overall = None THEN "rejected"
                              ELSE IF dropped # <<>> THEN "partial"
                              ELSE "scored"
        /\ assembled.error = IF overall # None THEN "none"
                             ELSE IF CustomerScores(turns, cfg) = <<>> THEN "no_customer_turns"
                             ELSE "no_customer_signal"
        /\ assembled.per_turn
             = [n \in DOMAIN perTurn |->
                 [index |-> perTurn[n], role |-> turns[perTurn[n]].role,
                  score |-> ScoreOf(turns[perTurn[n]].text, cfg)]]
        /\ assembled.dropped_turns
             = [n \in DOMAIN dropped |->
                 [index |-> dropped[n], reason |-> ParseTurn(turns[dropped[n]])]]

(* The batches take up every turn that is to be scored.                    *)
TurnsBatched(turns, cfg) ==
    \/ cfg.batch_size > 0
    \/ \A p \in ScoredPositions(turns, cfg) : ~HasScoreableSignal(turns[p].text)

LEMMA TurnsRaiseWithoutBatches ==
    ASSUME NEW turns, Len(turns) \in Nat, DOMAIN turns = 1 .. Len(turns), NEW cfg,
           cfg.batch_size \in Int
    PROVE  /\ ~TurnsRaise(turns, ToScore(turns, cfg), cfg) => TurnsBatched(turns, cfg)
           /\ /\ cfg.batch_size > 0
              /\ \A text \in Words \cup Emoji : cfg.max_tokens \in Readable[text]
              => ~TurnsRaise(turns, ToScore(turns, cfg), cfg)
<1> DEFINE order == ToScore(turns, cfg)
           texts == [n \in DOMAIN order |-> turns[order[n]].text]
<1>1. order \in Seq(Nat) /\ ToSet(order) = ScoredPositions(turns, cfg)
  BY ToScoreIsScored
<1> HIDE DEF order
<1>2. DOMAIN order = 1 .. Len(order) /\ Len(order) \in Nat
  BY <1>1
<1>3. Len(texts) \in Nat /\ DOMAIN texts = 1 .. Len(texts) /\ DOMAIN texts = DOMAIN order
  <2>1. texts \in Seq({turns[order[n]].text : n \in DOMAIN order})
    BY <1>2
  <2>2. QED
    BY <2>1
<1>4. \A n \in DOMAIN order : texts[n] = turns[order[n]].text
  OBVIOUS
<1>5. TurnsRaise(turns, order, cfg) <=> order # <<>> /\ ScoringRaises(texts, cfg)
  BY DEF TurnsRaise
<1> HIDE DEF texts
<1>6. ScoringRaises(texts, cfg) <=> \/ cfg.batch_size = 0
                                    \/ ~Batched(texts, cfg)
                                    \/ ~AllReadable(texts, cfg)
  BY <1>3, ScoringRaisesWithoutBatches
<1>7. Batched(texts, cfg) <=> TurnsBatched(turns, cfg)
  BY <1>1, <1>3, <1>4 DEF Batched, TurnsBatched, ToSet
<1>8. order = <<>> => TurnsBatched(turns, cfg)
  BY <1>1 DEF TurnsBatched, ToSet
<1>9. (\A text \in Words \cup Emoji : cfg.max_tokens \in Readable[text])
            => AllReadable(texts, cfg)
  BY DEF AllReadable, HasScoreableSignal
<1>10. QED
  BY <1>5, <1>6, <1>7, <1>8, <1>9 DEF order, TurnsBatched

(* Each scored position has the score of its own string, and so have the   *)
(* customer's turns.                                                       *)
LEMMA ScoresAreInPlace ==
    ASSUME NEW turns, Len(turns) \in Nat, DOMAIN turns = 1 .. Len(turns), NEW cfg,
           cfg.batch_size \in Int, TurnsBatched(turns, cfg)
    PROVE  LET scores == ScoreByIndex(turns, ToScore(turns, cfg), cfg)
               scored == ScoredPositions(turns, cfg)
           IN  /\ DOMAIN scores = scored
               /\ \A p \in scored : scores[p] = ScoreOf(turns[p].text, cfg)
               /\ OfCustomer(turns, scores) = CustomerScores(turns, cfg)
<1> DEFINE scores == ScoreByIndex(turns, ToScore(turns, cfg), cfg)
           scored == ScoredPositions(turns, cfg)
           customer == Ascending(TurnsOf("customer", turns), Len(turns))
<1>1. DOMAIN scores = scored /\ \A p \in scored : scores[p] = ScoreOf(turns[p].text, cfg)
  <2> DEFINE order == ToScore(turns, cfg)
  <2>1. order \in Seq(Nat) /\ ToSet(order) = scored
    BY ToScoreIsScored
  <2> HIDE DEF scored, order
  <2>2. QED
    BY <2>1, EachByItsPosition DEF order, TurnsBatched, scored
<1>2. \A n \in DOMAIN customer : customer[n] \in scored
  <2>1. TurnsOf("customer", turns) \subseteq 1 .. Len(turns)
    BY DEF TurnsOf, Kept
  <2>2. ToSet(customer) = TurnsOf("customer", turns)
    BY <2>1, AscendingIsSet
  <2>3. QED
    BY <2>2 DEF ToSet, ScoredPositions
<1> HIDE DEF scores, scored
<1>3. OfCustomer(turns, scores) = CustomerScores(turns, cfg)
  BY <1>1, <1>2 DEF OfCustomer, CustomerScores
<1>4. QED
  BY <1>1, <1>3 DEF scores, scored

LEMMA AssembleReads ==
    ASSUME NEW turns, Len(turns) \in Nat, DOMAIN turns = 1 .. Len(turns), NEW cfg,
           cfg.batch_size \in Int, TurnsBatched(turns, cfg)
    PROVE  AssembledFrom(Assemble(turns, cfg), turns, cfg)
<1> DEFINE scores == ScoreByIndex(turns, ToScore(turns, cfg), cfg)
           scored == ScoredPositions(turns, cfg)
           perTurn == Ascending(scored, Len(turns))
<1>1. /\ DOMAIN scores = scored
      /\ \A p \in scored : scores[p] = ScoreOf(turns[p].text, cfg)
      /\ OfCustomer(turns, scores) = CustomerScores(turns, cfg)
  BY ScoresAreInPlace
<1>2. \A n \in DOMAIN perTurn : perTurn[n] \in scored
  <2>1. scored \subseteq 1 .. Len(turns)
    BY ToScoreIsScored
  <2> HIDE DEF scored
  <2>2. ToSet(perTurn) = scored
    BY <2>1, AscendingIsSet
  <2>3. QED
    BY <2>2 DEF ToSet
<1> HIDE DEF scores, scored
<1>3. [n \in DOMAIN perTurn |->
            [index |-> perTurn[n], role |-> turns[perTurn[n]].role,
             score |-> scores[perTurn[n]]]]
        = [n \in DOMAIN perTurn |->
            [index |-> perTurn[n], role |-> turns[perTurn[n]].role,
             score |-> ScoreOf(turns[perTurn[n]].text, cfg)]]
  BY <1>1, <1>2
<1>4. QED
  BY <1>1, <1>3 DEF AssembledFrom, Assemble, scores, scored

(***************************************************************************)
(* The row                                                                 *)
(***************************************************************************)
RowIsTheAnswer ==
    /\ env \in Environments
    /\ \E given \in Given : conversation = given[2]
    /\ row \in {None, ScoreFile(conversation, env)}

LEMMA RowStaysTheAnswer == ScoringSpec => []RowIsTheAnswer
<1>1. ScoringInit => RowIsTheAnswer
  BY DEF ScoringInit, RowIsTheAnswer
<1>2. RowIsTheAnswer /\ [ScoreIt]_scoringVars => RowIsTheAnswer'
  <2> SUFFICES ASSUME RowIsTheAnswer, [ScoreIt]_scoringVars
               PROVE  RowIsTheAnswer'
    OBVIOUS
  <2>1. CASE ScoreIt
    BY <2>1 DEF RowIsTheAnswer, ScoreIt
  <2>2. CASE UNCHANGED scoringVars
    BY <2>2 DEF RowIsTheAnswer, scoringVars
  <2>3. QED
    BY <2>1, <2>2
<1>3. QED
  BY <1>1, <1>2, PTL DEF ScoringSpec

(* What an answer rests on.                                                *)
Grounds(turns, cfg) ==
    /\ turns \in Seq(RawTurn) /\ Len(turns) \in Nat /\ DOMAIN turns = 1 .. Len(turns)
    /\ cfg \in Configurations
    /\ cfg.batch_size \in Int /\ cfg.trajectory_divisor \in Nat
    /\ Loads(cfg) /\ cfg.model_revision \in DOMAIN Id2Label
    /\ \A text \in Words \cup Emoji : Truncated(text, cfg) \in Words \cup Emoji
    /\ LET weights == RecencyWeight[cfg.recency_lambda]
       IN  \A age \in 0 .. Len(turns) - 1 :
                /\ age \in DOMAIN weights => weights[age] \in Nat
                /\ cfg.recency_lambda >= 0 => age \in DOMAIN weights

(* A configuration that can be used has grounds with any conversation.     *)
LEMMA UsedHasGrounds ==
    ASSUME NEW e \in Environments, NEW given \in Given,
           FromEnv(e) # ValueError, Loads(FromEnv(e))
    PROVE  Grounds(given[2].elements, FromEnv(e))
<1> DEFINE turns == given[2].elements
           cfg == FromEnv(e)
<1>1. cfg \in Configurations /\ Loads(cfg)
  BY DEF Configurations
<1>2. turns \in Seq(RawTurn)
  BY GivenAreRaw DEF RawConversation
<1> HIDE DEF turns, cfg
<1>3. Len(turns) \in Nat /\ DOMAIN turns = 1 .. Len(turns)
  BY <1>2
<1>4. /\ cfg.batch_size \in Int /\ cfg.trajectory_divisor \in Nat
      /\ cfg.model_revision \in DOMAIN Id2Label
      /\ \A text \in Words \cup Emoji : Truncated(text, cfg) \in Words \cup Emoji
  BY <1>1, BatchSizesAreIntegers, DivisorsAreNotNegative, RevisionsAreKnown, StringsAreKnown
<1>5. LET weights == RecencyWeight[cfg.recency_lambda]
      IN  \A age \in 0 .. Len(turns) - 1 :
                /\ age \in DOMAIN weights => weights[age] \in Nat
                /\ cfg.recency_lambda >= 0 => age \in DOMAIN weights
  BY <1>1, AgesHaveWeights DEF turns
<1>6. QED
  BY <1>1, <1>2, <1>3, <1>4, <1>5 DEF Grounds, turns, cfg

(* What an answer shows of the numbers: there were batches enough, exp did *)
(* not overflow, and no slope was divided by zero.                         *)
NumbersSuffice(c, cfg) ==
    ParseConversation(c) = "parsed" =>
        /\ TurnsBatched(c.elements, cfg)
        /\ ~OverallRaises(CustomerScores(c.elements, cfg), cfg)
        /\ ~TrajectoryRaises(CustomerScores(c.elements, cfg), cfg)

LEMMA AnswerHasGrounds ==
    ASSUME NEW e \in Environments, NEW given \in Given,
           ScoreFile(given[2], e) # ValueError
    PROVE  /\ Grounds(given[2].elements, FromEnv(e))
           /\ NumbersSuffice(given[2], FromEnv(e))
           /\ ScoreFile(given[2], e) = RowOf(given[2], FromEnv(e))
<1> DEFINE c == given[2]
           cfg == FromEnv(e)
           order == ToScore(c.elements, cfg)
           scores == OfCustomer(c.elements, ScoreByIndex(c.elements, order, cfg))
<1>1. /\ cfg # ValueError /\ Loads(cfg) /\ ~Raises(c, cfg)
      /\ ScoreFile(c, e) = RowOf(c, cfg)
  BY DEF ScoreFile, ScoreConversation
<1>2. Grounds(c.elements, cfg)
  BY <1>1, UsedHasGrounds
<1> HIDE DEF c, cfg
<1>3. ASSUME ParseConversation(c) = "parsed"
      PROVE  /\ TurnsBatched(c.elements, cfg)
             /\ ~OverallRaises(CustomerScores(c.elements, cfg), cfg)
             /\ ~TrajectoryRaises(CustomerScores(c.elements, cfg), cfg)
  <2>1. /\ ~TurnsRaise(c.elements, order, cfg)
        /\ ~OverallRaises(scores, cfg) /\ ~TrajectoryRaises(scores, cfg)
    BY <1>1, <1>3 DEF Raises
  <2>2. TurnsBatched(c.elements, cfg)
    BY <1>2, <2>1, TurnsRaiseWithoutBatches DEF Grounds
  <2>3. scores = CustomerScores(c.elements, cfg)
    BY <1>2, <2>2, ScoresAreInPlace DEF Grounds
  <2> HIDE DEF scores
  <2>4. QED
    BY <2>1, <2>2, <2>3
<1>4. NumbersSuffice(c, cfg)
  BY <1>3 DEF NumbersSuffice
<1>5. QED
  BY <1>1, <1>2, <1>4 DEF c, cfg

LEMMA UsableIsKept ==
    ASSUME NEW turn \in RawTurn
    PROVE  ParseTurn(turn) = "kept" <=> Usable(turn)
<1>1. CASE turn = [object |-> FALSE]
  BY <1>1 DEF ParseTurn, Usable
<1>2. CASE turn \in [object : {TRUE},
                    role   : Roles \cup {"bot", "absent"},
                    text   : Texts \cup {"absent", "null", "number"},
                    ts     : {"absent", "null", "number", "string"}]
  <2>1. /\ turn.object /\ turn.text \in Texts \cup {"absent", "null", "number"}
        /\ turn.ts \in {"absent", "null", "number", "string"}
    BY <1>2
  <2>2. turn.text \in Texts <=> turn.text \notin {"absent", "null", "number"}
    BY <2>1, TextsAreStrings
  <2>3. QED
    BY <2>1, <2>2 DEF ParseTurn, Usable
<1>3. QED
  BY <1>1, <1>2 DEF RawTurn

LEMMA AnsweredReads ==
    ASSUME RowIsTheAnswer, Answered
    PROVE  /\ Grounds(Turns, Cfg) /\ NumbersSuffice(conversation, Cfg)
           /\ \E given \in Given : conversation = given[2]
           /\ conversation \in RawConversation
           /\ row = RowOf(conversation, Cfg)
           /\ Outcome = IF ParseConversation(conversation) = "parsed"
                        THEN Assemble(Turns, Cfg)
                        ELSE Rejected(ParseConversation(conversation))
<1>1. PICK given \in Given : conversation = given[2]
  BY DEF RowIsTheAnswer
<1>2. row = ScoreFile(conversation, env) /\ row # ValueError /\ env \in Environments
  BY DEF RowIsTheAnswer, Answered
<1>3. /\ Grounds(Turns, Cfg) /\ NumbersSuffice(conversation, Cfg)
      /\ row = RowOf(conversation, Cfg)
  BY <1>1, <1>2, AnswerHasGrounds DEF Turns, Cfg
<1>4. conversation \in RawConversation
  BY <1>1, GivenAreRaw
<1>5. QED
  BY <1>1, <1>3, <1>4 DEF RowOf, Outcome, Turns

LEMMA MeasuredIsAssembled ==
    ASSUME RowIsTheAnswer, Measured
    PROVE  /\ Grounds(Turns, Cfg) /\ TurnsBatched(Turns, Cfg)
           /\ ~OverallRaises(CustomerScores(Turns, Cfg), Cfg)
           /\ Outcome = Assemble(Turns, Cfg)
<1>1. Answered /\ Outcome.overall # None
  BY DEF Measured
<1>2. Rejected(ParseConversation(conversation)).overall = None
  BY DEF Rejected
<1>3. QED
  BY <1>1, <1>2, AnsweredReads DEF NumbersSuffice, Turns

LEMMA PartsOfTheTurns ==
    ASSUME NEW turns \in Seq(RawTurn), NEW cfg
    PROVE  /\ Dropped(turns) = {n \in DOMAIN turns : ~Usable(turns[n])}
           /\ TurnsOf("customer", turns)
                = {n \in DOMAIN turns : Usable(turns[n]) /\ turns[n].role = "customer"}
           /\ ScoredPositions(turns, cfg)
                = {n \in DOMAIN turns :
                    /\ Usable(turns[n])
                    /\ \/ turns[n].role = "customer"
                       \/ turns[n].role = "agent" /\ cfg.score_agent_turns}
<1>1. \A n \in DOMAIN turns : turns[n] \in RawTurn
  OBVIOUS
<1>2. \A n \in DOMAIN turns : ParseTurn(turns[n]) = "kept" <=> Usable(turns[n])
  BY <1>1, UsableIsKept
<1>3. QED
  BY <1>2 DEF Dropped, TurnsOf, ScoredPositions, Kept

(* Every turn that was scored is listed at its place with the score of its *)
(* own text, and every other turn that is not usable as dropped, whatever  *)
(* the batches and the order of the model's labels.                        *)
THEOREM EveryTurnKeepsItsPlace == ScoringSpec => []EveryTurnIsInItsPlace
<1>1. RowIsTheAnswer => EveryTurnIsInItsPlace
  <2> SUFFICES ASSUME RowIsTheAnswer, Measured
               PROVE  EveryTurnIsInItsPlace
    BY DEF EveryTurnIsInItsPlace
  <2> DEFINE turns == Turns
             cfg == Cfg
             dropped == Ascending(Dropped(turns), Len(turns))
             perTurn == Ascending(ScoredPositions(turns, cfg), Len(turns))
  <2>1. Grounds(turns, cfg) /\ TurnsBatched(turns, cfg) /\ Outcome = Assemble(turns, cfg)
    BY MeasuredIsAssembled
  <2> HIDE DEF turns, cfg
  <2>2. /\ turns \in Seq(RawTurn) /\ Len(turns) \in Nat /\ DOMAIN turns = 1 .. Len(turns)
        /\ cfg.batch_size \in Int
    BY <2>1 DEF Grounds
  <2>3. /\ Outcome.per_turn
             = [n \in DOMAIN perTurn |->
                  [index |-> perTurn[n], role |-> turns[perTurn[n]].role,
                   score |-> ScoreOf(turns[perTurn[n]].text, cfg)]]
        /\ Outcome.dropped_turns
             = [n \in DOMAIN dropped |->
                  [index |-> dropped[n], reason |-> ParseTurn(turns[dropped[n]])]]
    <3>1. AssembledFrom(Outcome, turns, cfg)
      BY <2>1, <2>2, AssembleReads
    <3>2. QED
      BY <3>1 DEF AssembledFrom
  <2>4. /\ ToSet(dropped) = Dropped(turns)
        /\ ToSet(perTurn) = ScoredPositions(turns, cfg)
    <3>1. Dropped(turns) \subseteq 1 .. Len(turns)
      BY <2>2 DEF Dropped
    <3>2. ScoredPositions(turns, cfg) \subseteq 1 .. Len(turns)
      BY <2>2, ToScoreIsScored
    <3>3. QED
      BY <2>2, <3>1, <3>2, AscendingIsSet
  <2>5. perTurn \in Seq(Nat)
        /\ \A i, j \in DOMAIN perTurn : i < j => perTurn[i] < perTurn[j]
    BY <2>2, AscendingLists DEF ListsInOrder
  <2> HIDE DEF dropped, perTurn
  <2>6. {d.index : d \in ToSet(Outcome.dropped_turns)} = {n \in DOMAIN turns : ~Usable(turns[n])}
    <3>1. {d.index : d \in ToSet(Outcome.dropped_turns)} = ToSet(dropped)
      BY <2>3 DEF ToSet
    <3>2. QED
      BY <2>2, <2>4, <3>1, PartsOfTheTurns
  <2>7. {e.index : e \in ToSet(Outcome.per_turn)}
            = {n \in DOMAIN turns :
                /\ Usable(turns[n])
                /\ \/ turns[n].role = "customer"
                   \/ turns[n].role = "agent" /\ cfg.score_agent_turns}
    <3>1. {e.index : e \in ToSet(Outcome.per_turn)} = ToSet(perTurn)
      BY <2>3 DEF ToSet
    <3>2. QED
      BY <2>2, <2>4, <3>1, PartsOfTheTurns
  <2>8. ASSUME NEW e \in ToSet(Outcome.per_turn)
        PROVE  LET text == turns[e.index].text
               IN  /\ e.score.scored <=> text \in Words \cup Emoji
                   /\ e.score.scored =>
                        /\ e.score.signed = TextScore(text).signed
                        /\ e.score.confidence = TextScore(text).confidence
                        /\ e.score.label \in Labels
                        /\ Probabilities(text)[e.score.label] = e.score.confidence
    <3> DEFINE text == turns[e.index].text
    <3>1. e.score = ScoreOf(text, cfg)
      BY <2>3 DEF ToSet
    <3> HIDE DEF text
    <3>2. CASE text \notin Words \cup Emoji
      BY <3>1, <3>2 DEF ScoreOf, HasScoreableSignal, Unscored, text
    <3>3. CASE text \in Words \cup Emoji
      <4>1. e.score = TurnScore(text, cfg)
        BY <3>1, <3>3 DEF ScoreOf, HasScoreableSignal
      <4>2. LET seen == Softmax[Truncated(text, cfg)]
            IN  /\ TurnScore(text, cfg).signed = seen.positive - seen.negative
                /\ TurnScore(text, cfg).confidence = Max(Range(seen))
                /\ TurnScore(text, cfg).label \in Labels
                /\ seen[TurnScore(text, cfg).label] = TurnScore(text, cfg).confidence
        BY <2>1, <3>3, ReadByName DEF Grounds
      <4>3. TurnScore(text, cfg).scored
        BY DEF TurnScore
      <4>4. /\ TurnScore(text, cfg).signed = TextScore(text).signed
            /\ TurnScore(text, cfg).confidence = TextScore(text).confidence
            /\ Probabilities(text)[TurnScore(text, cfg).label] = TurnScore(text, cfg).confidence
        BY <4>2 DEF TextScore, Probabilities, Truncated, cfg
      <4>5. QED
        BY <3>3, <4>1, <4>2, <4>3, <4>4 DEF text
    <3>4. QED
      BY <3>2, <3>3
  <2>9. ASSUME NEW n \in 2 .. Len(Outcome.per_turn)
        PROVE  Outcome.per_turn[n - 1].index < Outcome.per_turn[n].index
    <3>1. Len(Outcome.per_turn) = Len(perTurn) /\ DOMAIN perTurn = 1 .. Len(perTurn)
          /\ Len(perTurn) \in Nat
      <4>1. DOMAIN Outcome.per_turn = 1 .. Len(perTurn) /\ DOMAIN perTurn = 1 .. Len(perTurn)
            /\ Len(perTurn) \in Nat
        BY <2>3, <2>5
      <4>2. Outcome.per_turn \in Seq({Outcome.per_turn[m] : m \in 1 .. Len(perTurn)})
        BY <2>3, <4>1
      <4>3. QED
        BY <4>1, <4>2
    <3>2. n - 1 \in DOMAIN perTurn /\ n \in DOMAIN perTurn /\ n - 1 < n
      BY <3>1
    <3>3. QED
      BY <2>3, <2>5, <3>2
  <2>10. QED
    BY <2>6, <2>7, <2>8, <2>9 DEF EveryTurnIsInItsPlace, turns, cfg
<1>2. QED
  BY <1>1, RowStaysTheAnswer, PTL

(***************************************************************************)
(* The scores the metrics are made of                                      *)
(***************************************************************************)
CarryingIn(turns) == {n \in DOMAIN turns : CarriesSignal(turns[n])}

SignalScores(turns, cfg) ==
    LET carrying == Ascending(CarryingIn(turns), Len(turns))
    IN  [n \in DOMAIN carrying |-> TurnScore(turns[carrying[n]].text, cfg)]

(* Leaving out what was not scored of the customer's turns leaves those    *)
(* that carry a signal, in order.                                          *)
LEMMA ScoredAreCarrying ==
    ASSUME NEW turns \in Seq(RawTurn), NEW cfg
    PROVE  ScoredPairs(CustomerScores(turns, cfg)) = SignalScores(turns, cfg)
<1> DEFINE customer == Ascending(TurnsOf("customer", turns), Len(turns))
           scores == CustomerScores(turns, cfg)
           scored == {n \in DOMAIN scores : scores[n].scored}
           kept == Ascending(scored, Len(scores))
           carrying == [i \in DOMAIN kept |-> customer[kept[i]]]
<1>1. Len(turns) \in Nat /\ DOMAIN turns = 1 .. Len(turns)
  OBVIOUS
<1>2. ListsInOrder(customer, TurnsOf("customer", turns), Len(turns))
  BY <1>1, AscendingLists
<1>3. scores = [n \in DOMAIN customer |-> ScoreOf(turns[customer[n]].text, cfg)]
  BY DEF CustomerScores
<1> HIDE DEF customer, scores
<1>4. /\ customer \in Seq(Nat) /\ DOMAIN customer = 1 .. Len(customer) /\ Len(customer) \in Nat
      /\ \A i \in DOMAIN customer :
            customer[i] \in 1 .. Len(turns) /\ customer[i] \in TurnsOf("customer", turns)
      /\ \A i, j \in DOMAIN customer : i < j => customer[i] < customer[j]
      /\ \A l \in TurnsOf("customer", turns) : \E i \in DOMAIN customer : customer[i] = l
  <2>1. TurnsOf("customer", turns) \subseteq 1 .. Len(turns)
    BY <1>1 DEF TurnsOf, Kept
  <2>2. QED
    BY <1>2, <2>1 DEF ListsInOrder
<1>5. DOMAIN scores = DOMAIN customer /\ Len(scores) = Len(customer)
  <2>1. scores \in Seq({scores[n] : n \in DOMAIN customer})
    BY <1>3, <1>4
  <2>2. QED
    BY <1>3, <1>4, <2>1
<1>6. ListsInOrder(kept, scored, Len(customer))
  BY <1>4, <1>5, AscendingLists
<1>7. ScoredPairs(scores) = [i \in DOMAIN kept |-> scores[kept[i]]]
  BY DEF ScoredPairs, Only
<1> HIDE DEF kept
<1>8. /\ kept \in Seq(Nat) /\ DOMAIN kept = 1 .. Len(kept) /\ Len(kept) \in Nat
      /\ Len(kept) <= Len(customer) /\ Len(customer) <= Len(turns)
      /\ \A i \in DOMAIN kept : kept[i] \in DOMAIN customer /\ kept[i] \in scored
      /\ \A i, j \in DOMAIN kept : i < j => kept[i] < kept[j]
      /\ \A l \in scored : \E i \in DOMAIN kept : kept[i] = l
  <2>1. scored \subseteq 1 .. Len(customer)
    BY <1>4, <1>5
  <2> HIDE DEF scored
  <2>2. QED
    BY <1>2, <1>4, <1>6, <2>1 DEF ListsInOrder
<1>9. \A n \in DOMAIN customer :
        n \in scored <=> turns[customer[n]].text \in Words \cup Emoji
  BY <1>3 DEF ScoreOf, HasScoreableSignal, TurnScore, Unscored
<1>10. \A l \in DOMAIN turns :
        l \in CarryingIn(turns) <=>
            l \in TurnsOf("customer", turns) /\ turns[l].text \in Words \cup Emoji
  BY PartsOfTheTurns DEF CarryingIn, CarriesSignal
<1> HIDE DEF scored
<1>11. carrying \in Seq(Nat) /\ Len(carrying) = Len(kept)
  <2>1. \A i \in DOMAIN kept : customer[kept[i]] \in Nat
    BY <1>4, <1>8
  <2>2. QED
    BY <1>8, <2>1
<1>12. \A i \in DOMAIN carrying : carrying[i] \in 1 .. Len(turns) /\ carrying[i] \in CarryingIn(turns)
  BY <1>1, <1>4, <1>8, <1>9, <1>10
<1>13. \A i, j \in DOMAIN carrying : i < j => carrying[i] < carrying[j]
  BY <1>4, <1>8
<1>14. ASSUME NEW l \in 1 .. Len(turns), l \in CarryingIn(turns)
       PROVE  \E i \in DOMAIN carrying : carrying[i] = l
  <2>1. PICK n \in DOMAIN customer : customer[n] = l
    BY <1>1, <1>4, <1>10, <1>14
  <2>2. PICK i \in DOMAIN kept : kept[i] = n
    BY <1>1, <1>8, <1>9, <1>10, <1>14, <2>1
  <2>3. QED
    BY <2>1, <2>2
<1>15. ListsInOrder(carrying, CarryingIn(turns), Len(turns))
  <2>1. Len(carrying) <= Len(turns)
    BY <1>1, <1>4, <1>8, <1>11
  <2> HIDE DEF carrying
  <2>2. QED
    BY <1>11, <1>12, <1>13, <1>14, <2>1 DEF ListsInOrder
<1>16. carrying = Ascending(CarryingIn(turns), Len(turns))
  <2> HIDE DEF carrying
  <2>1. QED
    BY <1>1, <1>15, AscendingLists, OrderIsUnique
<1>17. \A i \in DOMAIN kept : scores[kept[i]] = TurnScore(turns[carrying[i]].text, cfg)
  BY <1>3, <1>8, <1>9 DEF ScoreOf, HasScoreableSignal
<1>18. SignalScores(turns, cfg) = [n \in DOMAIN carrying |-> TurnScore(turns[carrying[n]].text, cfg)]
  BY <1>16 DEF SignalScores
<1>19. QED
  BY <1>7, <1>17, <1>18 DEF scores

(* Scores of strings that were scored.                                     *)
SoundScores(scores) ==
    /\ Len(scores) \in Nat /\ DOMAIN scores = 1 .. Len(scores)
    /\ \A i \in 1 .. Len(scores) : scores[i].signed \in Int /\ scores[i].confidence \in Nat

LEMMA SignalScoresAreSound ==
    ASSUME NEW turns, NEW cfg, Grounds(turns, cfg)
    PROVE  LET carrying == Ascending(CarryingIn(turns), Len(turns))
               scores == SignalScores(turns, cfg)
           IN  /\ SoundScores(scores)
               /\ Len(scores) = Len(carrying) /\ DOMAIN scores = DOMAIN carrying
               /\ Len(scores) <= Len(turns)
               /\ ToSet(carrying) = CarryingIn(turns)
               /\ \A i \in DOMAIN scores :
                    LET seen == Softmax[Truncated(turns[carrying[i]].text, cfg)]
                    IN  scores[i].signed = seen.positive - seen.negative
<1> DEFINE carrying == Ascending(CarryingIn(turns), Len(turns))
           scores == SignalScores(turns, cfg)
<1>1. /\ Len(turns) \in Nat /\ DOMAIN turns = 1 .. Len(turns)
      /\ Loads(cfg) /\ cfg.model_revision \in DOMAIN Id2Label
      /\ \A text \in Words \cup Emoji : Truncated(text, cfg) \in Words \cup Emoji
  BY DEF Grounds
<1>2. CarryingIn(turns) \subseteq 1 .. Len(turns)
  BY <1>1 DEF CarryingIn
<1>3. carrying \in Seq(Nat) /\ ToSet(carrying) = CarryingIn(turns)
  BY <1>1, <1>2, AscendingIsSet
<1>4. Len(carrying) <= Len(turns)
  BY <1>1, AscendingLists DEF ListsInOrder
<1>5. scores = [n \in DOMAIN carrying |-> TurnScore(turns[carrying[n]].text, cfg)]
  BY DEF SignalScores
<1> HIDE DEF carrying, scores
<1>6. DOMAIN carrying = 1 .. Len(carrying) /\ Len(carrying) \in Nat
  BY <1>3
<1>7. DOMAIN scores = DOMAIN carrying /\ Len(scores) = Len(carrying)
  <2>1. scores \in Seq({scores[n] : n \in DOMAIN carrying})
    BY <1>5, <1>6
  <2>2. QED
    BY <1>5, <1>6, <2>1
<1>8. ASSUME NEW i \in DOMAIN carrying
      PROVE  LET seen == Softmax[Truncated(turns[carrying[i]].text, cfg)]
             IN  /\ scores[i].signed = seen.positive - seen.negative
                 /\ scores[i].signed \in Int
                 /\ scores[i].confidence \in Nat
  <2> DEFINE text == turns[carrying[i]].text
  <2>1. text \in Words \cup Emoji
    BY <1>3 DEF ToSet, CarryingIn, CarriesSignal
  <2>2. scores[i] = TurnScore(text, cfg)
    BY <1>5
  <2> HIDE DEF text
  <2>3. LET seen == Softmax[Truncated(text, cfg)]
        IN  /\ TurnScore(text, cfg).signed = seen.positive - seen.negative
            /\ TurnScore(text, cfg).signed \in Int
            /\ TurnScore(text, cfg).confidence \in Nat
    BY <1>1, <2>1, ReadByName
  <2>4. QED
    BY <2>2, <2>3 DEF text
<1>9. QED
  BY <1>3, <1>4, <1>6, <1>7, <1>8 DEF SoundScores, carrying, scores

(* The weights of the mean are never all zero, and a weighted mean lies    *)
(* between what bounds its members.                                        *)
LEMMA OverallOfScores ==
    ASSUME NEW turns, NEW cfg, SoundScores(ScoredPairs(turns)),
           \A age \in 0 .. Len(ScoredPairs(turns)) - 1 :
                RecencyWeight[cfg.recency_lambda][age] \in Nat
    PROVE  LET scored == ScoredPairs(turns)
               overall == OverallSentiment(turns, cfg)
           IN  /\ overall = None <=> Len(scored) = 0
               /\ Len(scored) # 0 =>
                    /\ overall.weight \in Nat \ {0}
                    /\ overall.total \in Int
                    /\ \A x \in Int :
                        /\ (\A i \in DOMAIN scored : x <= scored[i].signed)
                                => overall.total >= overall.weight * x
                        /\ (\A i \in DOMAIN scored : scored[i].signed <= x)
                                => overall.total <= overall.weight * x
<1> DEFINE scored == ScoredPairs(turns)
           overall == OverallSentiment(turns, cfg)
           n == Len(scored)
           w == [i \in 1 .. n |-> RecencyWeight[cfg.recency_lambda][n - i] * scored[i].confidence]
           weights == Weights(w)
           parts == [i \in 1 .. n |-> weights[i] * scored[i].signed]
<1>1. n = 0 => overall = None
  BY DEF OverallSentiment
<1>2. n # 0 => overall = [total  |-> SumOver(parts),
                          weight |-> SumOver(weights),
                          label  |-> Label(SumOver(parts), SumOver(weights), cfg),
                          n      |-> n,
                          basis  |-> IF n = 1 THEN "single_turn" ELSE "weighted_mean"]
  BY DEF OverallSentiment
<1>3. /\ n \in Nat /\ DOMAIN scored = 1 .. n
      /\ \A i \in 1 .. n : scored[i].signed \in Int /\ scored[i].confidence \in Nat
  BY DEF SoundScores
<1> HIDE DEF scored, overall
<1>4. w \in [1 .. n -> Nat]
  <2>1. ASSUME NEW i \in 1 .. n
        PROVE  RecencyWeight[cfg.recency_lambda][n - i] * scored[i].confidence \in Nat
    <3>1. n - i \in 0 .. n - 1
      BY <1>3
    <3>2. RecencyWeight[cfg.recency_lambda][n - i] \in Nat
      BY <3>1 DEF scored
    <3>3. scored[i].confidence \in Nat
      BY <1>3
    <3>4. \A p, q \in Nat : p * q \in Nat
      OBVIOUS
    <3>5. QED
      BY <3>2, <3>3, <3>4
  <2>2. QED
    BY <2>1
<1> HIDE DEF w, n
<1>5. n # 0 => weights \in [1 .. n -> Nat] /\ SumOver(weights) \in Nat \ {0}
  <2>1. CASE SumOver(w) = 0
    <3>1. weights = [i \in 1 .. n |-> 1]
      BY <1>4, <2>1 DEF Weights
    <3> HIDE DEF weights
    <3>2. weights \in [1 .. n -> Nat] /\ weights \in [1 .. n -> Int]
      BY <3>1
    <3>3. Integers(weights) /\ Len(weights) = n /\ \A i \in 1 .. n : weights[i] = 1
      BY <1>3, <3>1, <3>2, ListOfIntegers
    <3>4. SumOver(weights) = n
      BY <3>3, SumOfOnes
    <3>5. QED
      BY <1>3, <3>2, <3>4
  <2>2. CASE SumOver(w) # 0
    <3>1. weights = w
      BY <2>2 DEF Weights
    <3> HIDE DEF weights
    <3>2. SumOver(w) \in Nat
      BY <1>3, <1>4, SumIsNatural
    <3>3. QED
      BY <1>4, <2>2, <3>1, <3>2
  <2>3. QED
    BY <2>1, <2>2
<1> HIDE DEF weights
<1>6. CASE n # 0
  <2>1. parts \in [1 .. n -> Int]
    <3>1. ASSUME NEW i \in 1 .. n PROVE weights[i] * scored[i].signed \in Int
      <4>1. weights[i] \in Int /\ scored[i].signed \in Int
        BY <1>3, <1>5, <1>6
      <4>2. QED
        BY <4>1
    <3>2. QED
      BY <3>1
  <2>2. Integers(parts) /\ Len(parts) = n /\ SumOver(parts) \in Int
    <3> HIDE DEF parts
    <3>1. QED
      BY <1>3, <2>1, ListOfIntegers, SumIsInt
  <2>3. overall # None
    <3>1. overall \in [total : Int, weight : Int, n : Nat,
                       label : {"negative", "neutral", "positive"},
                       basis : {"single_turn", "weighted_mean"}]
      <4> HIDE DEF parts
      <4>1. Label(SumOver(parts), SumOver(weights), cfg) \in {"negative", "neutral", "positive"}
        BY DEF Label
      <4>2. QED
        BY <1>2, <1>3, <1>5, <1>6, <2>2, <4>1
    <3>2. QED
      BY <3>1, NoneIsNoMetric
  <2>4. ASSUME NEW x \in Int
        PROVE  /\ (\A i \in 1 .. n : x <= scored[i].signed)
                        => SumOver(parts) >= SumOver(weights) * x
               /\ (\A i \in 1 .. n : scored[i].signed <= x)
                        => SumOver(parts) <= SumOver(weights) * x
    <3> DEFINE scaled == [i \in 1 .. n |-> x * weights[i]]
    <3>1. weights \in [1 .. n -> Int] /\ \A i \in 1 .. n : weights[i] \in Nat
      BY <1>5, <1>6
    <3>2. scaled \in [1 .. n -> Int] /\ \A i \in 1 .. n : scaled[i] = x * weights[i]
      BY <3>1
    <3> HIDE DEF scaled
    <3>3. SumOver(scaled) = x * SumOver(weights)
      BY <1>3, <3>1, <3>2, SumIsScaled
    <3>4. Integers(scaled) /\ Len(scaled) = n
      BY <1>3, <3>2, ListOfIntegers
    <3>5. x * SumOver(weights) = SumOver(weights) * x
      BY <1>5, <1>6
    <3>6. ASSUME \A i \in 1 .. n : x <= scored[i].signed
          PROVE  SumOver(parts) >= SumOver(weights) * x
      <4>1. ASSUME NEW i \in 1 .. n PROVE scaled[i] <= parts[i]
        <5>1. weights[i] \in Nat /\ scored[i].signed \in Int /\ x <= scored[i].signed
          BY <1>3, <3>1, <3>6
        <5>2. \A u \in Nat : \A v \in Int : x <= v => x * u <= u * v
          OBVIOUS
        <5>3. x * weights[i] <= weights[i] * scored[i].signed
          BY <5>1, <5>2
        <5>4. QED
          BY <3>2, <5>3
      <4>2. SumOver(scaled) <= SumOver(parts)
        <5> HIDE DEF parts
        <5>1. QED
          BY <2>2, <3>4, <4>1, SumIsMonotone
      <4>3. SumOver(scaled) \in Int
        BY <3>4, SumIsInt
      <4> HIDE DEF parts
      <4>4. QED
        BY <2>2, <3>3, <3>5, <4>2, <4>3
    <3>7. ASSUME \A i \in 1 .. n : scored[i].signed <= x
          PROVE  SumOver(parts) <= SumOver(weights) * x
      <4>1. ASSUME NEW i \in 1 .. n PROVE parts[i] <= scaled[i]
        <5>1. weights[i] \in Nat /\ scored[i].signed \in Int /\ scored[i].signed <= x
          BY <1>3, <3>1, <3>7
        <5>2. \A u \in Nat : \A v \in Int : v <= x => u * v <= x * u
          OBVIOUS
        <5>3. weights[i] * scored[i].signed <= x * weights[i]
          BY <5>1, <5>2
        <5>4. QED
          BY <3>2, <5>3
      <4>2. SumOver(parts) <= SumOver(scaled)
        <5> HIDE DEF parts
        <5>1. QED
          BY <2>2, <3>4, <4>1, SumIsMonotone
      <4> HIDE DEF parts
      <4>3. QED
        BY <3>3, <3>5, <4>2
    <3>8. QED
      BY <3>6, <3>7
  <2> HIDE DEF parts
  <2>5. overall.total = SumOver(parts) /\ overall.weight = SumOver(weights)
    BY <1>2, <1>6
  <2>6. QED
    BY <1>3, <1>5, <1>6, <2>2, <2>3, <2>4, <2>5 DEF overall, scored, n
<1>7. CASE n = 0
  BY <1>1, <1>7 DEF overall, scored, n
<1>8. QED
  BY <1>6, <1>7

(***************************************************************************)
(* The properties of a row                                                 *)
(***************************************************************************)
LEMMA SignalsAreCarried ==
    ASSUME NEW turns, NEW cfg, Grounds(turns, cfg), Len(SignalScores(turns, cfg)) # 0
    PROVE  CarryingIn(turns) # {}
<1> DEFINE carrying == Ascending(CarryingIn(turns), Len(turns))
<1>1. Len(SignalScores(turns, cfg)) = Len(carrying) /\ ToSet(carrying) = CarryingIn(turns)
  BY SignalScoresAreSound
<1>2. carrying \in Seq(Nat)
  BY AscendingLists DEF Grounds, ListsInOrder
<1> HIDE DEF carrying
<1>3. QED
  BY <1>1, <1>2, EmptyIsEmpty

(* A signal cannot have come from anywhere but a batch.                    *)
LEMMA SignalsNeedBatches ==
    ASSUME NEW turns, NEW cfg, Grounds(turns, cfg), TurnsBatched(turns, cfg),
           Len(SignalScores(turns, cfg)) # 0
    PROVE  cfg.batch_size > 0
<1>1. PICK p \in DOMAIN turns : CarriesSignal(turns[p])
  BY SignalsAreCarried DEF CarryingIn
<1>2. p \in TurnsOf("customer", turns) /\ HasScoreableSignal(turns[p].text)
  BY <1>1, PartsOfTheTurns DEF Grounds, CarriesSignal, HasScoreableSignal
<1>3. QED
  BY <1>2 DEF TurnsBatched, ScoredPositions

(* The metrics of a row are those of the strings that carry a signal.      *)
LEMMA MetricsOfAssembled ==
    ASSUME NEW turns, NEW cfg, Grounds(turns, cfg), TurnsBatched(turns, cfg),
           ~OverallRaises(CustomerScores(turns, cfg), cfg)
    PROVE  LET overall == Assemble(turns, cfg).overall
               scores == SignalScores(turns, cfg)
           IN  /\ overall = None <=> Len(scores) = 0
               /\ Len(scores) # 0 =>
                    /\ overall.weight \in Nat \ {0}
                    /\ overall.total \in Int
                    /\ \A x \in Int :
                        /\ (\A i \in DOMAIN scores : x <= scores[i].signed)
                                => overall.total >= overall.weight * x
                        /\ (\A i \in DOMAIN scores : scores[i].signed <= x)
                                => overall.total <= overall.weight * x
<1> DEFINE scores == SignalScores(turns, cfg)
           customer == CustomerScores(turns, cfg)
<1>1. /\ turns \in Seq(RawTurn) /\ Len(turns) \in Nat /\ DOMAIN turns = 1 .. Len(turns)
      /\ cfg.batch_size \in Int
      /\ \A age \in 0 .. Len(turns) - 1 :
            age \in DOMAIN RecencyWeight[cfg.recency_lambda]
                => RecencyWeight[cfg.recency_lambda][age] \in Nat
  BY DEF Grounds
<1>2. ScoredPairs(customer) = scores
  BY <1>1, ScoredAreCarrying
<1>3. SoundScores(scores) /\ Len(scores) <= Len(turns)
  BY SignalScoresAreSound
<1>4. Assemble(turns, cfg).overall = OverallSentiment(customer, cfg)
  BY <1>1, AssembleReads DEF AssembledFrom
<1> HIDE DEF scores, customer
<1>5. \A age \in 0 .. Len(scores) - 1 : age \in DOMAIN RecencyWeight[cfg.recency_lambda]
  BY <1>2 DEF OverallRaises, customer
<1>6. \A age \in 0 .. Len(scores) - 1 : RecencyWeight[cfg.recency_lambda][age] \in Nat
  BY <1>1, <1>3, <1>5 DEF SoundScores
<1>7. QED
  BY <1>2, <1>3, <1>4, <1>6, OverallOfScores DEF scores, customer

(* A configuration that can be used scores whatever conversation           *)
(* content_hash does not raise on, and that raises on it before anything   *)
(* else is looked at.                                                      *)
THEOREM EveryOtherIsAnswered == ScoringSpec => []OnlyTheUnhashableEndsIt
<1>1. RowIsTheAnswer => OnlyTheUnhashableEndsIt
  <2> SUFFICES ASSUME RowIsTheAnswer, row # None, Sensible(Cfg)
               PROVE  row = IF conversation.object /\ ~conversation.hashable
                            THEN ValueError
                            ELSE RowOf(conversation, Cfg)
    BY DEF OnlyTheUnhashableEndsIt
  <2>1. PICK given \in Given : conversation = given[2]
    BY DEF RowIsTheAnswer
  <2>2. env \in Environments /\ row = ScoreFile(conversation, env)
    BY DEF RowIsTheAnswer
  <2>3. /\ Cfg # ValueError /\ Loads(Cfg) /\ Cfg.batch_size > 0
        /\ Cfg.recency_lambda >= 0 /\ Cfg.trajectory_divisor # 0
        /\ \A text \in Words \cup Emoji : Cfg.max_tokens \in Readable[text]
    BY DEF Sensible
  <2>4. row = ScoreConversation(conversation, Cfg)
    BY <2>2, <2>3 DEF ScoreFile, Cfg
  <2>5. CASE conversation.object /\ ~conversation.hashable
    BY <2>4, <2>5 DEF ScoreConversation, Raises
  <2>6. CASE ~(conversation.object /\ ~conversation.hashable)
    <3> DEFINE turns == Turns
               cfg == Cfg
               order == ToScore(turns, cfg)
               scores == OfCustomer(turns, ScoreByIndex(turns, order, cfg))
    <3>1. Grounds(turns, cfg)
      BY <2>1, <2>2, <2>3, UsedHasGrounds DEF Turns, Cfg
    <3> HIDE DEF turns, cfg
    <3>2. ~TurnsRaise(turns, order, cfg)
      BY <2>3, <3>1, TurnsRaiseWithoutBatches DEF Grounds, cfg
    <3>3. scores = CustomerScores(turns, cfg)
      BY <2>3, <3>1, ScoresAreInPlace DEF Grounds, TurnsBatched, cfg
    <3>4. ScoredPairs(scores) = SignalScores(turns, cfg)
      BY <3>1, <3>3, ScoredAreCarrying DEF Grounds
    <3>5. Len(SignalScores(turns, cfg)) <= Len(turns) /\ Len(SignalScores(turns, cfg)) \in Nat
      BY <3>1, SignalScoresAreSound DEF SoundScores
    <3> HIDE DEF scores, order
    <3>6. ~OverallRaises(scores, cfg)
      <4>1. Len(turns) \in Nat
            /\ \A age \in 0 .. Len(turns) - 1 : age \in DOMAIN RecencyWeight[cfg.recency_lambda]
        BY <2>3, <3>1 DEF Grounds, cfg
      <4>2. QED
        BY <3>4, <3>5, <4>1 DEF OverallRaises
    <3>7. ~TrajectoryRaises(scores, cfg)
      BY <2>3 DEF TrajectoryRaises, cfg
    <3>8. ~Raises(conversation, Cfg)
      BY <2>6, <3>2, <3>6, <3>7 DEF Raises, Turns, turns, cfg, scores, order
    <3>9. QED
      BY <2>4, <2>6, <3>8 DEF ScoreConversation
  <2>7. QED
    BY <2>5, <2>6
<1>2. QED
  BY <1>1, RowStaysTheAnswer, PTL

(* Where there is something to score, only the header can be wrong.        *)
LEMMA HeaderOfParsed ==
    ASSUME conversation \in RawConversation
    PROVE  LET reason == ParseConversation(conversation)
           IN  /\ reason = "parsed" => SoundHeader
               /\ SoundHeader /\ Carrying # {} => reason = "parsed"
               /\ reason # "none"
<1>1. SoundHeader <=>
            /\ conversation.object /\ conversation.tenant_id
            /\ conversation.conversation_id /\ conversation.turns = "list"
  BY DEF SoundHeader
<1>2. Turns \in Seq(RawTurn)
  BY DEF RawConversation, Turns
<1>3. Carrying # {} => Kept(Turns) # {}
  BY <1>2, PartsOfTheTurns DEF Carrying, CarriesSignal, TurnsOf
<1>4. conversation.turns \in {"absent", "not_list", "list"}
  BY DEF RawConversation
<1>5. QED
  BY <1>1, <1>3, <1>4 DEF ParseConversation, Turns

(* Rejected means that nothing could be scored, and partial that something *)
(* else could not be used.                                                 *)
THEOREM StatusTellsTheTurns == ScoringSpec => []StatusFollowsTheTurns
<1>1. RowIsTheAnswer => StatusFollowsTheTurns
  <2> SUFFICES ASSUME RowIsTheAnswer, Answered
               PROVE  StatusFollowsTheTurns
    BY DEF StatusFollowsTheTurns
  <2> DEFINE turns == Turns
             cfg == Cfg
             dropped == Ascending(Dropped(turns), Len(turns))
             reason == ParseConversation(conversation)
  <2>1. /\ Grounds(turns, cfg)
        /\ reason = "parsed" => /\ TurnsBatched(turns, cfg)
                                /\ ~OverallRaises(CustomerScores(turns, cfg), cfg)
        /\ conversation \in RawConversation
        /\ Outcome = IF reason = "parsed" THEN Assemble(turns, cfg) ELSE Rejected(reason)
    BY AnsweredReads DEF NumbersSuffice, Turns
  <2> HIDE DEF cfg
  <2>2. /\ turns \in Seq(RawTurn) /\ Len(turns) \in Nat /\ DOMAIN turns = 1 .. Len(turns)
        /\ cfg.batch_size \in Int
    BY <2>1 DEF Grounds
  <2>4. /\ reason = "parsed" => SoundHeader
        /\ SoundHeader /\ Carrying # {} => reason = "parsed"
        /\ reason # "none"
    BY <2>1, HeaderOfParsed
  <2>5. Carrying = CarryingIn(turns)
    BY DEF Carrying, CarryingIn
  <2> HIDE DEF turns, reason
  <2>6. CASE reason # "parsed"
    BY <2>1, <2>4, <2>6 DEF Rejected, StatusFollowsTheTurns
  <2>7. CASE reason = "parsed"
    <3>1. AssembledFrom(Outcome, turns, cfg)
      BY <2>1, <2>2, <2>7, AssembleReads
    <3>2. /\ Outcome.status = IF Outcome.overall = None THEN "rejected"
                              ELSE IF dropped # <<>> THEN "partial"
                              ELSE "scored"
          /\ Outcome.overall # None => Outcome.error = "none"
          /\ Outcome.overall = None => Outcome.error # "none"
      BY <3>1 DEF AssembledFrom
    <3>3. Outcome.overall = None <=> Carrying = {}
      <4> DEFINE carrying == Ascending(CarryingIn(turns), Len(turns))
      <4>1. Outcome.overall = None <=> Len(SignalScores(turns, cfg)) = 0
        BY <2>1, <2>7, MetricsOfAssembled
      <4>2. /\ Len(SignalScores(turns, cfg)) = Len(carrying)
            /\ ToSet(carrying) = CarryingIn(turns)
        BY <2>1, SignalScoresAreSound
      <4>3. carrying \in Seq(Nat)
        BY <2>2, AscendingLists DEF ListsInOrder
      <4> HIDE DEF carrying
      <4>4. Len(carrying) = 0 <=> ToSet(carrying) = {}
        BY <4>3, EmptyIsEmpty
      <4>5. QED
        BY <2>5, <4>1, <4>2, <4>4
    <3>4. dropped # <<>> <=> \E n \in DOMAIN turns : ~Usable(turns[n])
      <4>1. Dropped(turns) \subseteq 1 .. Len(turns)
        BY <2>2 DEF Dropped
      <4>2. dropped \in Seq(Nat) /\ ToSet(dropped) = Dropped(turns)
        BY <2>2, <4>1, AscendingIsSet
      <4> HIDE DEF dropped
      <4>3. dropped = <<>> <=> ToSet(dropped) = {}
        BY <4>2, EmptyIsEmpty
      <4>4. Dropped(turns) = {n \in DOMAIN turns : ~Usable(turns[n])}
        BY <2>2, PartsOfTheTurns
      <4>5. QED
        BY <4>2, <4>3, <4>4
    <3> HIDE DEF dropped
    <3>5. QED
      BY <2>4, <2>7, <3>2, <3>3, <3>4 DEF StatusFollowsTheTurns, turns
  <2>8. QED
    BY <2>6, <2>7
<1>2. QED
  BY <1>1, RowStaysTheAnswer, PTL

LEMMA SignalsAreScores ==
    ASSUME RowIsTheAnswer, Answered
    PROVE  LET scores == SignalScores(Turns, Cfg)
           IN  /\ SoundScores(scores)
               /\ Signals = [i \in 1 .. Len(scores) |-> scores[i].signed]
               /\ Integers(Signals) /\ Len(Signals) = Len(scores)
<1> DEFINE turns == Turns
           cfg == Cfg
           carrying == Ascending(CarryingIn(turns), Len(turns))
           scores == SignalScores(turns, cfg)
<1>1. Grounds(turns, cfg)
  BY AnsweredReads
<1> HIDE DEF turns, cfg
<1>2. /\ SoundScores(scores)
      /\ Len(scores) = Len(carrying) /\ DOMAIN scores = DOMAIN carrying
      /\ \A i \in DOMAIN scores :
            LET seen == Softmax[Truncated(turns[carrying[i]].text, cfg)]
            IN  scores[i].signed = seen.positive - seen.negative
  BY <1>1, SignalScoresAreSound
<1> DEFINE n == Len(scores)
<1>3. n \in Nat /\ DOMAIN scores = 1 .. n /\ DOMAIN carrying = 1 .. n
      /\ \A i \in 1 .. n : scores[i].signed \in Int
  BY <1>2 DEF SoundScores
<1> HIDE DEF scores
<1>4. Only(turns, CarryingIn(turns)) = [i \in DOMAIN carrying |-> turns[carrying[i]]]
  BY DEF Only
<1>5. Signals = [i \in DOMAIN carrying |-> TextScore(turns[carrying[i]].text).signed]
  <2>1. Carrying = CarryingIn(turns)
    BY DEF Carrying, CarryingIn, turns
  <2> HIDE DEF carrying
  <2>2. QED
    BY <1>4, <2>1 DEF Signals, turns
<1> HIDE DEF carrying
<1>6. \A i \in 1 .. n : TextScore(turns[carrying[i]].text).signed = scores[i].signed
  BY <1>2, <1>3 DEF TextScore, Probabilities, Truncated, cfg
<1>7. Signals = [i \in 1 .. n |-> scores[i].signed]
  BY <1>3, <1>5, <1>6
<1>8. Signals \in [1 .. n -> Int]
  BY <1>3, <1>7
<1>9. Integers(Signals) /\ Len(Signals) = n
  BY <1>3, <1>8, ListOfIntegers
<1>10. QED
  BY <1>2, <1>7, <1>9 DEF scores, turns, cfg

LEMMA LeastIsMin ==
    ASSUME NEW S \in SUBSET Int, NEW x \in S, \A y \in S : x <= y
    PROVE  Min(S) = x
<1>1. \A y \in S : (\A z \in S : y <= z) => y = x
  OBVIOUS
<1>2. QED
  BY <1>1 DEF Min

(* A list of integers that is not empty has a least and a greatest.        *)
LEMMA ListHasExtremes ==
    ASSUME NEW list, Integers(list), Len(list) # 0
    PROVE  /\ Min(ToSet(list)) \in Int /\ Max(ToSet(list)) \in Int
           /\ \A i \in DOMAIN list : Min(ToSet(list)) <= list[i] /\ list[i] <= Max(ToSet(list))
<1> DEFINE n == Len(list)
           least(m) == \E i \in 1 .. m : \A j \in 1 .. m : list[i] <= list[j]
           greatest(m) == \E i \in 1 .. m : \A j \in 1 .. m : list[j] <= list[i]
           T == {m \in 0 .. n : m # 0 => least(m) /\ greatest(m)}
<1>1. n \in Nat \ {0} /\ DOMAIN list = 1 .. n /\ \A i \in 1 .. n : list[i] \in Int
  BY DEF Integers
<1> HIDE DEF n
<1>2. 0 \in T
  BY <1>1
<1>3. ASSUME NEW m \in 1 .. n, m - 1 \in T PROVE m \in T
  <2>1. /\ m \in 1 .. m /\ \A j \in 1 .. m : j = m \/ j \in 1 .. m - 1
        /\ \A j \in 1 .. m : j \in 1 .. n
        /\ \A j \in 1 .. m - 1 : j \in 1 .. m
    BY <1>1
  <2>2. \A j \in 1 .. m : list[j] \in Int
    BY <1>1, <2>1
  <2>3. CASE m = 1
    <3>1. list[m] <= list[m] /\ \A j \in 1 .. m : j = m
      BY <2>1, <2>2, <2>3
    <3>2. least(m) /\ greatest(m)
      BY <2>1, <3>1
    <3> HIDE DEF least, greatest
    <3>3. QED
      BY <1>1, <3>2
  <2>4. CASE m # 1
    <3>1. least(m - 1) /\ greatest(m - 1)
      BY <1>3, <2>4
    <3>2. least(m)
      <4>1. PICK i \in 1 .. m - 1 : \A j \in 1 .. m - 1 : list[i] <= list[j]
        BY <3>1
      <4>2. CASE list[i] <= list[m]
        BY <2>1, <4>1, <4>2
      <4>3. CASE ~(list[i] <= list[m])
        <5>1. \A j \in 1 .. m : list[m] <= list[j]
          BY <2>1, <2>2, <4>1, <4>3
        <5>2. QED
          BY <2>1, <5>1
      <4>4. QED
        BY <4>2, <4>3
    <3>3. greatest(m)
      <4>1. PICK i \in 1 .. m - 1 : \A j \in 1 .. m - 1 : list[j] <= list[i]
        BY <3>1
      <4>2. CASE list[m] <= list[i]
        BY <2>1, <4>1, <4>2
      <4>3. CASE ~(list[m] <= list[i])
        <5>1. \A j \in 1 .. m : list[j] <= list[m]
          BY <2>1, <2>2, <4>1, <4>3
        <5>2. QED
          BY <2>1, <5>1
      <4>4. QED
        BY <4>2, <4>3
    <3> HIDE DEF least, greatest
    <3>4. QED
      BY <1>1, <3>2, <3>3
  <2>5. QED
    BY <2>3, <2>4
<1>4. n \in T
  <2> HIDE DEF T
  <2>1. \A m \in 0 .. n : m \in T
    BY <1>1, <1>2, <1>3, InductionUpTo
  <2>2. QED
    BY <1>1, <2>1
<1>5. least(n) /\ greatest(n)
  BY <1>1, <1>4
<1>6. PICK i \in 1 .. n : \A j \in 1 .. n : list[i] <= list[j]
  BY <1>5
<1>7. PICK k \in 1 .. n : \A j \in 1 .. n : list[j] <= list[k]
  BY <1>5
<1>8. ToSet(list) \in SUBSET Int
  BY <1>1 DEF ToSet
<1>9. Min(ToSet(list)) = list[i]
  <2>1. list[i] \in ToSet(list) /\ \A y \in ToSet(list) : list[i] <= y
    BY <1>1, <1>6 DEF ToSet
  <2>2. QED
    BY <1>8, <2>1, LeastIsMin
<1>10. Max(ToSet(list)) = list[k]
  <2>1. list[k] \in ToSet(list) /\ \A y \in ToSet(list) : y <= list[k]
    BY <1>1, <1>7 DEF ToSet
  <2>2. QED
    BY <1>8, <2>1, GreatestIsMax
<1>11. QED
  BY <1>1, <1>6, <1>7, <1>9, <1>10

(* The overall score is a mean: it lies between the lowest and the highest *)
(* signal, whatever the weights, and also when every confidence is zero.   *)
THEOREM OverallIsAMean == ScoringSpec => []OverallIsBetweenExtremes
<1>1. RowIsTheAnswer => OverallIsBetweenExtremes
  <2> SUFFICES ASSUME RowIsTheAnswer, Measured
               PROVE  OverallIsBetweenExtremes
    BY DEF OverallIsBetweenExtremes
  <2> DEFINE scores == SignalScores(Turns, Cfg)
             overall == Outcome.overall
  <2>1. /\ Grounds(Turns, Cfg) /\ TurnsBatched(Turns, Cfg)
        /\ ~OverallRaises(CustomerScores(Turns, Cfg), Cfg)
        /\ Outcome = Assemble(Turns, Cfg) /\ Answered /\ overall # None
    BY MeasuredIsAssembled DEF Measured
  <2>2. /\ overall = None <=> Len(scores) = 0
        /\ Len(scores) # 0 =>
            /\ overall.weight \in Nat \ {0}
            /\ overall.total \in Int
            /\ \A x \in Int :
                /\ (\A i \in DOMAIN scores : x <= scores[i].signed)
                        => overall.total >= overall.weight * x
                /\ (\A i \in DOMAIN scores : scores[i].signed <= x)
                        => overall.total <= overall.weight * x
    BY <2>1, MetricsOfAssembled
  <2>3. /\ SoundScores(scores)
        /\ Signals = [i \in 1 .. Len(scores) |-> scores[i].signed]
        /\ Integers(Signals) /\ Len(Signals) = Len(scores)
    BY <2>1, SignalsAreScores
  <2> HIDE DEF scores, overall
  <2>4. Len(scores) # 0 /\ DOMAIN scores = 1 .. Len(scores) /\ DOMAIN Signals = 1 .. Len(scores)
    BY <2>1, <2>2, <2>3 DEF SoundScores
  <2>5. /\ Min(ToSet(Signals)) \in Int /\ Max(ToSet(Signals)) \in Int
        /\ \A i \in DOMAIN Signals :
                Min(ToSet(Signals)) <= Signals[i] /\ Signals[i] <= Max(ToSet(Signals))
    BY <2>3, <2>4, ListHasExtremes
  <2>6. \A i \in DOMAIN scores : /\ Min(ToSet(Signals)) <= scores[i].signed
                                /\ scores[i].signed <= Max(ToSet(Signals))
    BY <2>3, <2>4, <2>5
  <2>7. overall.weight > 0
    BY <2>2, <2>4
  <2>8. QED
    BY <2>2, <2>4, <2>5, <2>6, <2>7 DEF OverallIsBetweenExtremes, overall
<1>2. QED
  BY <1>1, RowStaysTheAnswer, PTL

(* The part of a configuration that the metrics depend on.                 *)
SameMetrics(cfg, other) ==
    /\ cfg.model_revision = other.model_revision
    /\ cfg.recency_lambda = other.recency_lambda
    /\ cfg.label_threshold = other.label_threshold
    /\ cfg.trajectory_divisor = other.trajectory_divisor
    /\ cfg.meaningful_min_turns = other.meaningful_min_turns

(* max_tokens matters by what it leaves of the turns that carry a signal.  *)
SameRead(turns, cfg, other) ==
    \A n \in CarryingIn(turns) :
        Truncated(turns[n].text, cfg) = Truncated(turns[n].text, other)

(* Batches and agent turns are not part of it.                             *)
LEMMA MetricsDependOn ==
    ASSUME NEW turns, NEW cfg, NEW other, Grounds(turns, cfg), Grounds(turns, other),
           TurnsBatched(turns, cfg), TurnsBatched(turns, other), SameMetrics(cfg, other),
           SameRead(turns, cfg, other)
    PROVE  /\ Assemble(turns, cfg).overall = Assemble(turns, other).overall
           /\ Assemble(turns, cfg).trajectory = Assemble(turns, other).trajectory
<1>1. \A p \in TurnsOf("customer", turns) :
            ScoreOf(turns[p].text, cfg) = ScoreOf(turns[p].text, other)
  <2> SUFFICES ASSUME NEW p \in TurnsOf("customer", turns),
                      HasScoreableSignal(turns[p].text)
               PROVE  TurnScore(turns[p].text, cfg) = TurnScore(turns[p].text, other)
    BY DEF ScoreOf
  <2>1. p \in CarryingIn(turns)
    BY PartsOfTheTurns DEF Grounds, CarryingIn, CarriesSignal, HasScoreableSignal
  <2>2. Truncated(turns[p].text, cfg) = Truncated(turns[p].text, other)
    BY <2>1 DEF SameRead
  <2>3. QED
    BY <2>2 DEF TurnScore, SameMetrics
<1>2. CustomerScores(turns, cfg) = CustomerScores(turns, other)
  <2> DEFINE customer == Ascending(TurnsOf("customer", turns), Len(turns))
  <2>1. \A n \in DOMAIN customer : customer[n] \in TurnsOf("customer", turns)
    BY AscendingLists DEF Grounds, ListsInOrder
  <2> HIDE DEF customer
  <2>2. QED
    BY <1>1, <2>1 DEF CustomerScores, customer
<1>3. \A scores : /\ OverallSentiment(scores, cfg) = OverallSentiment(scores, other)
                  /\ SentimentTrajectory(scores, cfg) = SentimentTrajectory(scores, other)
  BY DEF OverallSentiment, SentimentTrajectory, Label, SameMetrics
<1>4. ASSUME NEW c, Grounds(turns, c), TurnsBatched(turns, c)
      PROVE  /\ Assemble(turns, c).overall = OverallSentiment(CustomerScores(turns, c), c)
             /\ Assemble(turns, c).trajectory = SentimentTrajectory(CustomerScores(turns, c), c)
  <2>1. Len(turns) \in Nat /\ DOMAIN turns = 1 .. Len(turns) /\ c.batch_size \in Int
    BY <1>4 DEF Grounds
  <2>2. AssembledFrom(Assemble(turns, c), turns, c)
    BY <1>4, <2>1, AssembleReads
  <2>3. QED
    BY <2>2 DEF AssembledFrom
<1>5. QED
  BY <1>2, <1>3, <1>4

LEMMA NumbersDependOn ==
    ASSUME NEW c, NEW cfg, NEW other, Grounds(c.elements, cfg), Grounds(c.elements, other),
           NumbersSuffice(c, cfg), NumbersSuffice(c, other), SameMetrics(cfg, other),
           SameRead(c.elements, cfg, other)
    PROVE  Numbers(RowOf(c, cfg)) = Numbers(RowOf(c, other))
<1>1. CASE ParseConversation(c) = "parsed"
  <2>1. \A d : RowOf(c, d).outcome = Assemble(c.elements, d)
    BY <1>1 DEF RowOf
  <2>2. TurnsBatched(c.elements, cfg) /\ TurnsBatched(c.elements, other)
    BY <1>1 DEF NumbersSuffice
  <2>3. QED
    BY <2>1, <2>2, MetricsDependOn DEF Numbers
<1>2. CASE ParseConversation(c) # "parsed"
  BY <1>2 DEF RowOf, Numbers
<1>3. QED
  BY <1>1, <1>2

(* What a row repeats of its configuration, with max_tokens, determines    *)
(* its two metrics.                                                        *)
THEOREM RowExplainsItsNumbers == ScoringSpec => []ParamsExplainTheNumbers
<1>1. RowIsTheAnswer => ParamsExplainTheNumbers
  <2> DEFINE other(e) == ScoreFile(conversation, e)
  <2> SUFFICES ASSUME RowIsTheAnswer, Answered,
                      NEW e \in Environments, other(e) # ValueError,
                      LooksTheSame(FromEnv(e)), CutsAlike(FromEnv(e))
               PROVE  Numbers(other(e)) = Numbers(row)
    BY DEF ParamsExplainTheNumbers
  <2> DEFINE cfg == FromEnv(e)
  <2>1. /\ Grounds(Turns, Cfg) /\ NumbersSuffice(conversation, Cfg)
        /\ \E given \in Given : conversation = given[2]
        /\ row = RowOf(conversation, Cfg)
    BY AnsweredReads
  <2>2. /\ Grounds(Turns, cfg) /\ NumbersSuffice(conversation, cfg)
        /\ other(e) = RowOf(conversation, cfg)
    BY <2>1, AnswerHasGrounds DEF Turns
  <2> HIDE DEF other, cfg
  <2>3. /\ Base(conversation, cfg).params = Base(conversation, Cfg).params
        /\ Base(conversation, cfg).provenance = Base(conversation, Cfg).provenance
    BY <2>1 DEF LooksTheSame, RowOf, cfg
  <2>4. MetricParams(cfg) = MetricParams(Cfg)
        /\ <<cfg.model_name, cfg.model_revision>> = <<Cfg.model_name, Cfg.model_revision>>
    BY <2>3 DEF Base
  <2>5. /\ cfg.recency_lambda = Cfg.recency_lambda
        /\ cfg.label_threshold = Cfg.label_threshold
        /\ cfg.trajectory_divisor = Cfg.trajectory_divisor
        /\ cfg.meaningful_min_turns = Cfg.meaningful_min_turns
        /\ cfg.model_revision = Cfg.model_revision
    <3>1. /\ MetricParams(cfg).lambda = MetricParams(Cfg).lambda
          /\ MetricParams(cfg).label_threshold = MetricParams(Cfg).label_threshold
          /\ MetricParams(cfg).B = MetricParams(Cfg).B
          /\ MetricParams(cfg).meaningful_min_turns = MetricParams(Cfg).meaningful_min_turns
      BY <2>4
    <3>2. QED
      BY <2>4, <3>1 DEF MetricParams
  <2>6. SameMetrics(cfg, Cfg)
    BY <2>5 DEF SameMetrics, cfg
  <2>7. SameRead(Turns, cfg, Cfg)
    <3>1. Carrying = CarryingIn(Turns)
      BY DEF Carrying, CarryingIn
    <3>2. CASE cfg.max_tokens = Cfg.max_tokens
      BY <3>2 DEF SameRead, Truncated
    <3>3. CASE ~\E n \in Carrying : \/ Tokens[Turns[n].text] > cfg.max_tokens
                                   \/ Tokens[Turns[n].text] > Cfg.max_tokens
      <4> SUFFICES ASSUME NEW n \in Carrying
                   PROVE  Truncated(Turns[n].text, cfg) = Truncated(Turns[n].text, Cfg)
        BY <3>1 DEF SameRead
      <4>1. /\ Truncated(Turns[n].text, cfg) = Turns[n].text
            /\ Truncated(Turns[n].text, Cfg) = Turns[n].text
        BY <3>3 DEF Truncated
      <4>2. QED
        BY <4>1
    <3>4. QED
      BY <3>2, <3>3 DEF CutsAlike, cfg
  <2>8. QED
    BY <2>1, <2>2, <2>6, <2>7, NumbersDependOn DEF Turns
<1>2. QED
  BY <1>1, RowStaysTheAnswer, PTL

LEMMA OtherAgents ==
    ASSUME NEW cfg \in Configurations, NEW agents
    PROVE  LET other == [cfg EXCEPT !.score_agent_turns = agents]
           IN  /\ SameMetrics(cfg, other)
               /\ other.batch_size = cfg.batch_size
               /\ other.max_tokens = cfg.max_tokens
<1>1. PICK e \in Environments : cfg = FromEnv(e) /\ cfg # ValueError
  BY DEF Configurations
<1>2. cfg = [f \in Fields |-> cfg[f]]
  BY <1>1 DEF FromEnv
<1>3. {"model_revision", "max_tokens", "recency_lambda", "label_threshold",
       "trajectory_divisor", "meaningful_min_turns", "batch_size"} \subseteq Fields
  BY DEF Fields, Annotations
<1>4. QED
  BY <1>2, <1>3 DEF SameMetrics

LEMMA CustomerTurnsAlone ==
    ASSUME NEW turns \in Seq(RawTurn)
    PROVE  LET alone == Only(turns, {n \in DOMAIN turns :
                                        Usable(turns[n]) /\ turns[n].role = "customer"})
               customer == Ascending(TurnsOf("customer", turns), Len(turns))
           IN  /\ alone \in Seq(RawTurn)
               /\ Len(alone) \in Nat /\ DOMAIN alone = 1 .. Len(alone)
               /\ DOMAIN alone = DOMAIN customer
               /\ \A i \in DOMAIN alone : alone[i] = turns[customer[i]]
               /\ DOMAIN alone \subseteq TurnsOf("customer", alone)
<1> DEFINE customers == TurnsOf("customer", turns)
           customer == Ascending(customers, Len(turns))
           alone == Only(turns, customers)
<1>1. Len(turns) \in Nat /\ DOMAIN turns = 1 .. Len(turns)
  OBVIOUS
<1>2. customers = {n \in DOMAIN turns : Usable(turns[n]) /\ turns[n].role = "customer"}
  BY PartsOfTheTurns
<1>3. customers \subseteq 1 .. Len(turns)
  BY <1>1, <1>2
<1>4. customer \in Seq(Nat) /\ ToSet(customer) = customers
  <2> HIDE DEF customers
  <2>1. QED
    BY <1>1, <1>3, AscendingIsSet
<1>5. alone = [i \in DOMAIN customer |-> turns[customer[i]]]
  BY DEF Only
<1> HIDE DEF customer, alone
<1>6. DOMAIN customer = 1 .. Len(customer) /\ Len(customer) \in Nat
  BY <1>4
<1>7. \A i \in DOMAIN customer : customer[i] \in customers /\ customer[i] \in DOMAIN turns
  BY <1>1, <1>3, <1>4 DEF ToSet
<1>8. alone \in Seq(RawTurn) /\ DOMAIN alone = DOMAIN customer /\ Len(alone) = Len(customer)
  BY <1>5, <1>6, <1>7
<1>9. \A i \in DOMAIN alone : i \in TurnsOf("customer", alone)
  BY <1>5, <1>7, <1>8 DEF TurnsOf, Kept
<1>10. QED
  BY <1>2, <1>5, <1>6, <1>8, <1>9 DEF customer, alone

(* The two metrics are those of the customer's turns, as if there were no  *)
(* others.                                                                 *)
THEOREM OthersDoNotCount == ScoringSpec => []OnlyCustomersCount
<1>1. RowIsTheAnswer => OnlyCustomersCount
  <2> SUFFICES ASSUME RowIsTheAnswer, Measured, NEW agents \in BOOLEAN
               PROVE  Numbers(RowOf(CustomersAlone,
                                    [Cfg EXCEPT !.score_agent_turns = agents]))
                        = Numbers(row)
    BY DEF OnlyCustomersCount
  <2> DEFINE turns == Turns
             cfg == Cfg
             other == [cfg EXCEPT !.score_agent_turns = agents]
             alone == Only(turns, {n \in DOMAIN turns :
                                     Usable(turns[n]) /\ turns[n].role = "customer"})
             customer == Ascending(TurnsOf("customer", turns), Len(turns))
  <2>1. /\ Grounds(turns, cfg) /\ TurnsBatched(turns, cfg)
        /\ ~OverallRaises(CustomerScores(turns, cfg), cfg)
        /\ Outcome = Assemble(turns, cfg) /\ Answered /\ Outcome.overall # None
    BY MeasuredIsAssembled DEF Measured
  <2>2. conversation \in RawConversation /\ ParseConversation(conversation) = "parsed"
    BY <2>1, AnsweredReads DEF Rejected
  <2>3. CustomersAlone = [conversation EXCEPT !.elements = alone]
    BY DEF CustomersAlone, Turns
  <2> HIDE DEF turns, cfg
  <2>4. turns \in Seq(RawTurn) /\ cfg \in Configurations
        /\ cfg.batch_size \in Int /\ cfg.batch_size > 0
        /\ Len(turns) \in Nat /\ DOMAIN turns = 1 .. Len(turns)
    <3>1. Len(SignalScores(turns, cfg)) # 0
      BY <2>1, MetricsOfAssembled
    <3>2. QED
      BY <2>1, <3>1, SignalsNeedBatches DEF Grounds
  <2>5. /\ SameMetrics(cfg, other) /\ other.batch_size = cfg.batch_size
        /\ other.max_tokens = cfg.max_tokens
    BY <2>4, OtherAgents
  <2>6. /\ alone \in Seq(RawTurn)
        /\ Len(alone) \in Nat /\ DOMAIN alone = 1 .. Len(alone)
        /\ DOMAIN alone = DOMAIN customer
        /\ \A i \in DOMAIN alone : alone[i] = turns[customer[i]]
        /\ DOMAIN alone \subseteq TurnsOf("customer", alone)
    BY <2>4, CustomerTurnsAlone
  <2> HIDE DEF other, alone, customer
  <2>7. /\ CustomersAlone.elements = alone
        /\ CustomersAlone.object = conversation.object
        /\ CustomersAlone.tenant_id = conversation.tenant_id
        /\ CustomersAlone.conversation_id = conversation.conversation_id
        /\ CustomersAlone.turns = conversation.turns
    BY <2>2, <2>3 DEF RawConversation
  <2>8. ParseConversation(CustomersAlone) = "parsed"
    <3>1. alone # <<>> => Kept(alone) # {}
      <4>1. alone # <<>> => 1 \in DOMAIN alone
        BY <2>6
      <4>2. QED
        BY <2>6, <4>1 DEF TurnsOf
    <3>2. QED
      BY <2>2, <2>7, <3>1 DEF ParseConversation
  <2>9. CustomerScores(alone, other) = CustomerScores(turns, cfg)
    <3>1. Ascending(TurnsOf("customer", alone), Len(alone)) = [i \in 1 .. Len(alone) |-> i]
      BY <2>6, AscendingAll
    <3>2. CustomerScores(alone, other) = [i \in 1 .. Len(alone) |-> ScoreOf(alone[i].text, other)]
      BY <3>1 DEF CustomerScores
    <3>3. \A text : ScoreOf(text, other) = ScoreOf(text, cfg)
      BY <2>5 DEF ScoreOf, TurnScore, Truncated, SameMetrics
    <3>4. CustomerScores(turns, cfg) = [i \in DOMAIN customer |-> ScoreOf(turns[customer[i]].text, cfg)]
      BY DEF CustomerScores, customer
    <3>5. QED
      BY <2>6, <3>2, <3>3, <3>4
  <2>10. /\ Assemble(alone, other).overall = OverallSentiment(CustomerScores(turns, cfg), other)
         /\ Assemble(alone, other).trajectory = SentimentTrajectory(CustomerScores(turns, cfg), other)
         /\ Assemble(turns, cfg).overall = OverallSentiment(CustomerScores(turns, cfg), cfg)
         /\ Assemble(turns, cfg).trajectory = SentimentTrajectory(CustomerScores(turns, cfg), cfg)
    <3>1. /\ AssembledFrom(Assemble(alone, other), alone, other)
          /\ AssembledFrom(Assemble(turns, cfg), turns, cfg)
      BY <2>4, <2>5, <2>6, AssembleReads DEF TurnsBatched
    <3>2. QED
      BY <2>9, <3>1 DEF AssembledFrom
  <2>11. \A scores : /\ OverallSentiment(scores, cfg) = OverallSentiment(scores, other)
                     /\ SentimentTrajectory(scores, cfg) = SentimentTrajectory(scores, other)
    BY <2>5 DEF OverallSentiment, SentimentTrajectory, Label, SameMetrics
  <2>12. RowOf(CustomersAlone, other).outcome = Assemble(alone, other)
    BY <2>7, <2>8 DEF RowOf
  <2>13. Numbers(RowOf(CustomersAlone, other)) = Numbers(row)
    BY <2>1, <2>10, <2>11, <2>12 DEF Numbers, Outcome
  <2>14. QED
    BY <2>13 DEF other, cfg
<1>2. QED
  BY <1>1, RowStaysTheAnswer, PTL

(***************************************************************************)
(* The trajectory                                                          *)
(***************************************************************************)
SignedOf(scores) == [i \in 1 .. Len(scores) |-> scores[i].signed]

Spread(n) ==
    n * SumOver([i \in 1 .. n |-> Positions(n)[i] * Positions(n)[i]])
        - SumOver(Positions(n)) * SumOver(Positions(n))

LEMMA SpreadIsPositive ==
    ASSUME NEW n \in Nat, n >= 2
    PROVE  Spread(n) \in Int /\ Spread(n) > 0
<1> DEFINE squares == [i \in 1 .. n |-> Positions(n)[i] * Positions(n)[i]]
           x == SumOver(Positions(n))
           q == SumOver(squares)
<1>1. /\ Positions(n) \in [1 .. n -> Int] /\ squares \in [1 .. n -> Int]
      /\ 2 * x = n * (n - 1)
      /\ 6 * q = n * (n - 1) * (2 * n - 1)
  BY PositionsAddUp
<1>2. x \in Int /\ q \in Int
  <2> HIDE DEF squares
  <2>1. QED
    BY <1>1, ListOfIntegers, SumIsInt
<1>3. Spread(n) = n * q - x * x
  BY DEF Spread
<1> HIDE DEF squares, x, q
<1>4. 12 * (n * q - x * x) = n * n * (n - 1) * (n + 1)
  <2>1. 12 * (n * q) = 2 * n * (n * (n - 1) * (2 * n - 1))
    BY <1>1, <1>2
  <2>2. 12 * (x * x) = 3 * ((n * (n - 1)) * (n * (n - 1)))
    <3>1. (2 * x) * (2 * x) = (n * (n - 1)) * (n * (n - 1))
      BY <1>1
    <3>2. 12 * (x * x) = 3 * ((2 * x) * (2 * x))
      BY <1>2
    <3>3. QED
      BY <3>1, <3>2
  <2>3. 2 * n * (n * (n - 1) * (2 * n - 1)) - 3 * ((n * (n - 1)) * (n * (n - 1)))
            = n * n * (n - 1) * (n + 1)
    OBVIOUS
  <2>4. 12 * (n * q - x * x) = 12 * (n * q) - 12 * (x * x)
    BY <1>2
  <2>5. QED
    BY <2>1, <2>2, <2>3, <2>4
<1>5. n * n * (n - 1) * (n + 1) > 0
  <2>1. \A a, b \in Int : a > 0 /\ b > 0 => a * b > 0 /\ a * b \in Int
    OBVIOUS
  <2>2. n \in Int /\ n > 0 /\ n - 1 \in Int /\ n - 1 > 0 /\ n + 1 \in Int /\ n + 1 > 0
    OBVIOUS
  <2>3. n * n > 0 /\ n * n \in Int
    BY <2>1, <2>2
  <2>4. n * n * (n - 1) > 0 /\ n * n * (n - 1) \in Int
    BY <2>1, <2>2, <2>3
  <2>5. QED
    BY <2>1, <2>2, <2>4
<1>6. n * q - x * x \in Int
  BY <1>2
<1>7. QED
  BY <1>3, <1>4, <1>5, <1>6

(* The slope of the signals over the spread of their positions.            *)
Slope(ys, cfg) ==
    [rise       |-> (Len(ys) - 1) * Deviation(ys),
     run        |-> Spread(Len(ys)) * cfg.trajectory_divisor,
     n          |-> Len(ys),
     meaningful |-> Len(ys) >= cfg.meaningful_min_turns]

LEMMA TrajectoryIsSlope ==
    ASSUME NEW turns, NEW cfg, SoundScores(ScoredPairs(turns)),
           cfg.trajectory_divisor \in Nat
    PROVE  LET ys == SignedOf(ScoredPairs(turns))
               trajectory == SentimentTrajectory(turns, cfg)
           IN  /\ trajectory = None <=> Len(ys) < 2
               /\ Len(ys) >= 2 => trajectory = Slope(ys, cfg)
<1> DEFINE scored == ScoredPairs(turns)
           n == Len(scored)
           ys == SignedOf(scored)
           trajectory == SentimentTrajectory(turns, cfg)
           xs == Positions(n)
           sumX == SumOver(xs)
           sumY == SumOver([i \in 1 .. n |-> scored[i].signed])
           sumXY == SumOver([i \in 1 .. n |-> xs[i] * scored[i].signed])
           sumXX == SumOver([i \in 1 .. n |-> xs[i] * xs[i]])
<1>1. n < 2 => trajectory = None
  BY DEF SentimentTrajectory
<1>2. ~(n < 2) =>
        trajectory = [rise       |-> (n - 1) * (n * sumXY - sumX * sumY),
                      run        |-> (n * sumXX - sumX * sumX) * cfg.trajectory_divisor,
                      n          |-> n,
                      meaningful |-> n >= cfg.meaningful_min_turns]
  BY DEF SentimentTrajectory
<1>3. n \in Nat /\ \A i \in 1 .. n : scored[i].signed \in Int
  BY DEF SoundScores
<1>4. ys = [i \in 1 .. n |-> scored[i].signed]
  BY DEF SignedOf
<1> HIDE DEF scored, trajectory, n, ys
<1>5. ys \in [1 .. n -> Int] /\ Len(ys) = n
  <2>1. ys \in [1 .. n -> Int]
    BY <1>3, <1>4
  <2>2. QED
    BY <1>3, <2>1, ListOfIntegers
<1>6. [i \in 1 .. n |-> xs[i] * scored[i].signed] = Products(ys)
  BY <1>4, <1>5 DEF Products
<1>7. n * sumXY - sumX * sumY = Deviation(ys)
  BY <1>4, <1>5, <1>6 DEF Deviation
<1>8. n * sumXX - sumX * sumX = Spread(n)
  BY DEF Spread
<1> HIDE DEF xs, sumX, sumY, sumXY, sumXX
<1>9. CASE n < 2
  BY <1>1, <1>3, <1>5, <1>9 DEF scored, trajectory, ys
<1>10. CASE ~(n < 2)
  <2>1. trajectory = Slope(ys, cfg)
    BY <1>2, <1>5, <1>7, <1>8, <1>10 DEF Slope
  <2>2. n >= 2
    BY <1>3, <1>10
  <2>3. trajectory # None
    <3>1. Deviation(ys) \in Int /\ Spread(n) \in Int
      BY <1>3, <1>5, <2>2, DeviationParts, SpreadIsPositive
    <3>2. (n - 1) * Deviation(ys) \in Int /\ Spread(n) * cfg.trajectory_divisor \in Int
      BY <1>3, <3>1
    <3>3. (n >= cfg.meaningful_min_turns) \in BOOLEAN
      OBVIOUS
    <3>4. Slope(ys, cfg) \in [rise : Int, run : Int, n : Nat, meaningful : BOOLEAN]
      BY <1>3, <1>5, <3>2, <3>3 DEF Slope
    <3>5. QED
      BY <2>1, <3>4, NoneIsNoMetric
  <2>4. QED
    BY <1>5, <1>10, <2>1, <2>3 DEF scored, trajectory, ys
<1>11. QED
  BY <1>9, <1>10

(* The trajectory of a row is the slope of the signals of its turns.       *)
LEMMA TrajectoryOfAssembled ==
    ASSUME NEW turns, NEW cfg, Grounds(turns, cfg), TurnsBatched(turns, cfg)
    PROVE  LET ys == SignedOf(SignalScores(turns, cfg))
               trajectory == Assemble(turns, cfg).trajectory
           IN  /\ trajectory = None <=> Len(ys) < 2
               /\ Len(ys) >= 2 => trajectory = Slope(ys, cfg)
<1> DEFINE scores == SignalScores(turns, cfg)
           customer == CustomerScores(turns, cfg)
<1>1. /\ turns \in Seq(RawTurn) /\ Len(turns) \in Nat /\ DOMAIN turns = 1 .. Len(turns)
      /\ cfg.batch_size \in Int /\ cfg.trajectory_divisor \in Nat
  BY DEF Grounds
<1>2. ScoredPairs(customer) = scores
  BY <1>1, ScoredAreCarrying
<1>3. SoundScores(scores)
  BY SignalScoresAreSound
<1>4. Assemble(turns, cfg).trajectory = SentimentTrajectory(customer, cfg)
  BY <1>1, AssembleReads DEF AssembledFrom
<1> HIDE DEF scores, customer
<1>5. QED
  BY <1>1, <1>2, <1>3, <1>4, TrajectoryIsSlope DEF scores, customer

LEMMA SignalsAreIntegers ==
    ASSUME NEW turns, NEW cfg, Grounds(turns, cfg)
    PROVE  LET scores == SignalScores(turns, cfg)
           IN  /\ SignedOf(scores) \in [1 .. Len(scores) -> Int]
               /\ Len(SignedOf(scores)) = Len(scores) /\ Len(scores) \in Nat
<1> DEFINE scores == SignalScores(turns, cfg)
<1>1. SoundScores(scores)
  BY SignalScoresAreSound
<1> HIDE DEF scores
<1>2. Len(scores) \in Nat /\ SignedOf(scores) \in [1 .. Len(scores) -> Int]
  BY <1>1 DEF SoundScores, SignedOf
<1>3. QED
  BY <1>2, ListOfIntegers DEF scores

(* A list has one member exactly when it is constant.                      *)
LEMMA OneMemberIsConstant ==
    ASSUME NEW n \in Nat \ {0}, NEW ys \in [1 .. n -> Int]
    PROVE  Cardinality(ToSet(ys)) = 1 <=> \A i \in 1 .. n : ys[i] = ys[1]
<1> DEFINE S == ToSet(ys)
<1>1. Integers(ys) /\ Len(ys) = n /\ DOMAIN ys = 1 .. n /\ 1 \in 1 .. n
  BY ListOfIntegers
<1>2. S = {ys[i] : i \in 1 .. n}
  BY <1>1 DEF ToSet
<1>3. /\ Min(S) \in Int /\ Max(S) \in Int
      /\ \A i \in 1 .. n : Min(S) <= ys[i] /\ ys[i] <= Max(S)
  BY <1>1, ListHasExtremes
<1> HIDE DEF S
<1>4. IsFiniteSet(S)
  <2>1. S \in SUBSET (Min(S) .. Max(S))
    BY <1>2, <1>3
  <2>2. IsFiniteSet(Min(S) .. Max(S))
    BY <1>3, FS_Interval
  <2>3. QED
    BY <2>1, <2>2, FS_Subset
<1>5. Cardinality(S) = 1 <=> \E x : S = {x}
  BY <1>4, FS_Singleton
<1>6. ASSUME NEW x, S = {x} PROVE \A i \in 1 .. n : ys[i] = ys[1]
  BY <1>1, <1>2, <1>6
<1>7. (\A i \in 1 .. n : ys[i] = ys[1]) => S = {ys[1]}
  BY <1>1, <1>2
<1>8. QED
  BY <1>5, <1>6, <1>7 DEF S

(* A metric is None exactly when there is too little to measure, and never *)
(* because what was measured is zero: signals that are all the same have a *)
(* trajectory, of zero.                                                    *)
THEOREM NoneIsNoZero == ScoringSpec => []NoneIsNotZero
<1>1. RowIsTheAnswer => NoneIsNotZero
  <2> SUFFICES ASSUME RowIsTheAnswer, Answered, SoundHeader
               PROVE  NoneIsNotZero
    BY DEF NoneIsNotZero
  <2> DEFINE scores == SignalScores(Turns, Cfg)
             ys == SignedOf(scores)
             reason == ParseConversation(conversation)
             n == Len(scores)
  <2>1. /\ Grounds(Turns, Cfg) /\ conversation \in RawConversation
        /\ Outcome = IF reason = "parsed" THEN Assemble(Turns, Cfg) ELSE Rejected(reason)
        /\ reason = "parsed" => /\ TurnsBatched(Turns, Cfg)
                                /\ ~OverallRaises(CustomerScores(Turns, Cfg), Cfg)
                                /\ ~TrajectoryRaises(CustomerScores(Turns, Cfg), Cfg)
    BY AnsweredReads DEF NumbersSuffice, Turns
  <2>2. Signals = ys
    BY SignalsAreScores DEF SignedOf
  <2>3. ys \in [1 .. n -> Int] /\ Len(ys) = n /\ n \in Nat
    BY <2>1, SignalsAreIntegers
  <2>4. Carrying # {} => reason = "parsed"
    BY <2>1, HeaderOfParsed
  <2>5. n # 0 => Carrying # {}
    BY <2>1, SignalsAreCarried DEF Carrying, CarryingIn
  <2>6. /\ Outcome.overall = None <=> n = 0
        /\ Outcome.trajectory = None <=> n < 2
        /\ n >= 2 => Outcome.trajectory = Slope(ys, Cfg)
    <3>1. CASE reason = "parsed"
      BY <2>1, <2>3, <3>1, MetricsOfAssembled, TrajectoryOfAssembled
    <3>2. CASE reason # "parsed"
      <4>1. n = 0
        BY <2>4, <2>5, <3>2
      <4>2. Outcome.overall = None /\ Outcome.trajectory = None
        BY <2>1, <3>2 DEF Rejected
      <4>3. QED
        BY <4>1, <4>2
    <3>3. QED
      BY <3>1, <3>2
  <2>7. n >= 2 => Cfg.trajectory_divisor \in Nat \ {0}
    <3>1. ScoredPairs(CustomerScores(Turns, Cfg)) = scores
      BY <2>1, ScoredAreCarrying DEF Grounds
    <3> HIDE DEF scores
    <3>2. n >= 2 => reason = "parsed"
      BY <2>3, <2>4, <2>5
    <3>3. QED
      BY <2>1, <3>1, <3>2 DEF TrajectoryRaises, Grounds
  <2> HIDE DEF scores, ys, n
  <2>8. Signals = <<>> <=> n = 0
    BY <2>2, <2>3
  <2>9. ASSUME n >= 2
        PROVE  /\ Outcome.trajectory.run > 0
               /\ Cardinality(ToSet(Signals)) = 1 => Outcome.trajectory.rise = 0
    <3>1. /\ Outcome.trajectory.run = Spread(n) * Cfg.trajectory_divisor
          /\ Outcome.trajectory.rise = (n - 1) * Deviation(ys)
      BY <2>3, <2>6, <2>9 DEF Slope
    <3>2. Spread(n) \in Int /\ Spread(n) > 0
      BY <2>3, <2>9, SpreadIsPositive
    <3>3. Spread(n) * Cfg.trajectory_divisor > 0
      BY <2>7, <2>9, <3>2
    <3>4. ASSUME Cardinality(ToSet(Signals)) = 1 PROVE (n - 1) * Deviation(ys) = 0
      <4>1. n \in Nat \ {0} /\ ys[1] \in Int
        BY <2>3, <2>9
      <4>2. \A i \in 1 .. n : ys[i] = ys[1]
        BY <2>2, <2>3, <3>4, <4>1, OneMemberIsConstant
      <4>3. Deviation(ys) = 0
        BY <2>3, <4>1, <4>2, ConstantHasNoSlope
      <4>4. QED
        BY <4>1, <4>3
    <3>5. QED
      BY <3>1, <3>3, <3>4
  <2>10. n < 2 \/ n >= 2
    BY <2>3
  <2>11. Len(Signals) = n
    BY <2>2, <2>3
  <2>12. QED
    BY <2>6, <2>8, <2>9, <2>10, <2>11 DEF NoneIsNotZero
<1>2. QED
  BY <1>1, RowStaysTheAnswer, PTL

LEMMA BackwardsReads ==
    ASSUME NEW turns \in Seq(RawTurn)
    PROVE  LET back == Reverse(turns)
               L == Len(turns)
           IN  /\ back \in Seq(RawTurn) /\ Len(back) = L
               /\ DOMAIN back = 1 .. L /\ DOMAIN turns = 1 .. L
               /\ \A i \in 1 .. L : back[i] = turns[L + 1 - i]
               /\ \A i \in 1 .. L : i \in CarryingIn(back) <=> L + 1 - i \in CarryingIn(turns)
<1> DEFINE back == Reverse(turns)
           L == Len(turns)
<1>1. L \in Nat /\ DOMAIN turns = 1 .. L /\ \A i \in 1 .. L : turns[i] \in RawTurn
  OBVIOUS
<1>2. back = [i \in 1 .. L |-> turns[(L - i) + 1]]
  BY DEF Reverse
<1> HIDE DEF back, L
<1>3. \A i \in 1 .. L : (L - i) + 1 = L + 1 - i /\ L + 1 - i \in 1 .. L
  BY <1>1
<1>4. \A i \in 1 .. L : back[i] = turns[L + 1 - i] /\ back[i] \in RawTurn
  BY <1>1, <1>2, <1>3
<1>5. back \in Seq(RawTurn) /\ DOMAIN back = 1 .. L /\ Len(back) = L
  BY <1>1, <1>2, <1>4
<1>6. \A i \in 1 .. L : i \in CarryingIn(back) <=> L + 1 - i \in CarryingIn(turns)
  BY <1>1, <1>3, <1>4, <1>5 DEF CarryingIn
<1>7. QED
  BY <1>1, <1>4, <1>5, <1>6 DEF back, L

(* The turns that carry a signal in a conversation played backwards are    *)
(* the same turns, in the opposite order.                                  *)
LEMMA CarryingBackwards ==
    ASSUME NEW turns \in Seq(RawTurn)
    PROVE  LET forth == Ascending(CarryingIn(turns), Len(turns))
               back == Ascending(CarryingIn(Reverse(turns)), Len(turns))
           IN  /\ DOMAIN forth = 1 .. Len(forth) /\ Len(forth) \in Nat
               /\ back = [i \in 1 .. Len(forth) |-> Len(turns) + 1 - forth[Len(forth) + 1 - i]]
               /\ \A i \in DOMAIN forth : forth[i] \in 1 .. Len(turns)
<1> DEFINE L == Len(turns)
           S == CarryingIn(turns)
           B == CarryingIn(Reverse(turns))
           s == Ascending(S, L)
           k == Len(s)
           t == [i \in 1 .. k |-> L + 1 - s[k + 1 - i]]
<1>1. L \in Nat
  OBVIOUS
<1>2. \A i \in 1 .. L : i \in B <=> L + 1 - i \in S
  BY BackwardsReads
<1>3. ListsInOrder(s, S, L) /\ ListsInOrder(Ascending(B, L), B, L)
  BY <1>1, AscendingLists
<1> HIDE DEF L, S, B, s
<1>4. /\ k \in Nat /\ DOMAIN s = 1 .. k /\ k <= L
      /\ \A i \in 1 .. k : s[i] \in 1 .. L /\ s[i] \in S
      /\ \A i, j \in 1 .. k : i < j => s[i] < s[j]
      /\ \A l \in 1 .. L : l \in S => \E i \in 1 .. k : s[i] = l
  BY <1>3 DEF ListsInOrder
<1> HIDE DEF k
<1>5. \A i \in 1 .. k : k + 1 - i \in 1 .. k /\ k + 1 - (k + 1 - i) = i
  BY <1>4
<1>6. \A l \in 1 .. L : L + 1 - l \in 1 .. L /\ L + 1 - (L + 1 - l) = l
  BY <1>1
<1>7. \A i \in 1 .. k : t[i] = L + 1 - s[k + 1 - i] /\ t[i] \in 1 .. L /\ t[i] \in Nat
  BY <1>1, <1>4, <1>5, <1>6
<1>8. t \in Seq(Nat) /\ Len(t) = k /\ DOMAIN t = 1 .. k
  BY <1>4, <1>7
<1> HIDE DEF t
<1>9. \A i \in 1 .. k : t[i] \in B
  <2>1. ASSUME NEW i \in 1 .. k PROVE t[i] \in B
    <3>1. s[k + 1 - i] \in 1 .. L /\ s[k + 1 - i] \in S
      BY <1>4, <1>5
    <3>2. L + 1 - t[i] = s[k + 1 - i] /\ t[i] \in 1 .. L
      BY <1>6, <1>7, <3>1
    <3>3. QED
      BY <1>2, <3>1, <3>2
  <2>2. QED
    BY <2>1
<1>10. \A i, j \in 1 .. k : i < j => t[i] < t[j]
  <2>1. ASSUME NEW i \in 1 .. k, NEW j \in 1 .. k, i < j PROVE t[i] < t[j]
    <3>1. k + 1 - j < k + 1 - i
      BY <1>4, <2>1
    <3>2. s[k + 1 - j] < s[k + 1 - i]
      BY <1>4, <1>5, <3>1
    <3>3. s[k + 1 - j] \in Nat /\ s[k + 1 - i] \in Nat
      BY <1>4, <1>5
    <3>4. QED
      BY <1>1, <1>7, <3>2, <3>3
  <2>2. QED
    BY <2>1
<1>11. \A l \in 1 .. L : l \in B => \E i \in 1 .. k : t[i] = l
  <2>1. ASSUME NEW l \in 1 .. L, l \in B PROVE \E i \in 1 .. k : t[i] = l
    <3>1. L + 1 - l \in 1 .. L /\ L + 1 - l \in S
      BY <1>2, <1>6, <2>1
    <3>2. PICK i \in 1 .. k : s[i] = L + 1 - l
      BY <1>4, <3>1
    <3>3. t[k + 1 - i] = L + 1 - s[i]
      BY <1>5, <1>7
    <3>4. t[k + 1 - i] = l
      BY <1>6, <3>2, <3>3
    <3>5. QED
      BY <1>5, <3>4
  <2>2. QED
    BY <2>1
<1>12. ListsInOrder(t, B, L)
  BY <1>4, <1>7, <1>8, <1>9, <1>10, <1>11 DEF ListsInOrder
<1>13. Ascending(B, L) = t
  BY <1>1, <1>3, <1>12, OrderIsUnique
<1>14. QED
  BY <1>4, <1>13 DEF t, k, L, S, B, s

LEMMA SignalsBackwards ==
    ASSUME NEW turns, NEW cfg, Grounds(turns, cfg)
    PROVE  LET ys == SignedOf(SignalScores(turns, cfg))
               zs == SignedOf(SignalScores(Reverse(turns), cfg))
               n == Len(ys)
           IN  /\ n \in Nat /\ ys \in [1 .. n -> Int]
               /\ Len(zs) = n /\ zs \in [1 .. n -> Int]
               /\ \A i \in 1 .. n : zs[i] = ys[n + 1 - i]
               /\ Grounds(Reverse(turns), cfg)
<1> DEFINE back == Reverse(turns)
           L == Len(turns)
           s == Ascending(CarryingIn(turns), L)
           t == Ascending(CarryingIn(back), L)
           n == Len(s)
           scores == SignalScores(turns, cfg)
           others == SignalScores(back, cfg)
<1>1. turns \in Seq(RawTurn) /\ L \in Nat
  BY DEF Grounds
<1>2. /\ back \in Seq(RawTurn) /\ Len(back) = L /\ DOMAIN back = 1 .. L
      /\ \A i \in 1 .. L : back[i] = turns[L + 1 - i]
  BY <1>1, BackwardsReads
<1>3. /\ DOMAIN s = 1 .. n /\ n \in Nat
      /\ t = [i \in 1 .. n |-> L + 1 - s[n + 1 - i]]
      /\ \A i \in DOMAIN s : s[i] \in 1 .. L
  BY <1>1, CarryingBackwards
<1> HIDE DEF back
<1>4. Grounds(back, cfg)
  BY <1>1, <1>2 DEF Grounds
<1>5. scores = [i \in DOMAIN s |-> TurnScore(turns[s[i]].text, cfg)]
  BY DEF SignalScores
<1>6. others = [i \in DOMAIN t |-> TurnScore(back[t[i]].text, cfg)]
  BY <1>2 DEF SignalScores
<1>7. /\ SignedOf(scores) \in [1 .. Len(scores) -> Int]
      /\ Len(SignedOf(scores)) = Len(scores) /\ Len(scores) \in Nat
      /\ SignedOf(others) \in [1 .. Len(others) -> Int]
      /\ Len(SignedOf(others)) = Len(others) /\ Len(others) \in Nat
  BY <1>4, SignalsAreIntegers
<1>8. Len(scores) = n /\ DOMAIN scores = DOMAIN s
  BY SignalScoresAreSound
<1>9. DOMAIN others = 1 .. Len(others)
  BY <1>4, SignalScoresAreSound DEF SoundScores
<1> HIDE DEF s, t, n, scores, others, L
<1>10. Len(others) = n
  BY <1>3, <1>6, <1>7, <1>9
<1>11. ASSUME NEW i \in 1 .. n
       PROVE  SignedOf(others)[i] = SignedOf(scores)[n + 1 - i]
  <2>1. n + 1 - i \in 1 .. n
    BY <1>3
  <2>2. s[n + 1 - i] \in 1 .. L
    BY <1>3, <2>1
  <2>3. t[i] = L + 1 - s[n + 1 - i] /\ t[i] \in 1 .. L /\ L + 1 - t[i] = s[n + 1 - i]
    BY <1>1, <1>3, <2>2
  <2>4. back[t[i]] = turns[s[n + 1 - i]]
    BY <1>2, <2>3
  <2>5. others[i] = scores[n + 1 - i]
    BY <1>3, <1>5, <1>6, <2>1, <2>4
  <2>6. QED
    BY <1>8, <1>10, <2>1, <2>5 DEF SignedOf
<1>12. QED
  BY <1>4, <1>7, <1>8, <1>10, <1>11 DEF scores, others, n, back

(* The trajectory has the sign of what happened: it is positive when the   *)
(* signals rise and never fall, and playing the conversation backwards     *)
(* turns it round.                                                         *)
THEOREM DirectionIsRight == ScoringSpec => []TrajectoryHasTheRightDirection
<1>1. RowIsTheAnswer => TrajectoryHasTheRightDirection
  <2> DEFINE turns == Turns
             cfg == Cfg
             back == [conversation EXCEPT !.elements = Reverse(Turns)]
             ys == SignedOf(SignalScores(turns, cfg))
             zs == SignedOf(SignalScores(Reverse(turns), cfg))
             n == Len(ys)
  <2> SUFFICES ASSUME RowIsTheAnswer, Answered, Outcome.trajectory # None
               PROVE  /\ /\ \A i \in 2 .. Len(Signals) : Signals[i - 1] <= Signals[i]
                         /\ Cardinality(ToSet(Signals)) > 1
                         => Outcome.trajectory.rise > 0
                      /\ RowOf(back, cfg).outcome.trajectory
                            = [Outcome.trajectory EXCEPT !.rise = -@]
    BY DEF TrajectoryHasTheRightDirection
  <2>1. /\ Grounds(turns, cfg) /\ conversation \in RawConversation
        /\ ParseConversation(conversation) = "parsed"
        /\ TurnsBatched(turns, cfg)
        /\ Outcome = Assemble(turns, cfg)
    BY AnsweredReads DEF Rejected, NumbersSuffice, Turns
  <2>2. Signals = ys
    BY SignalsAreScores DEF SignedOf
  <2>3. /\ n \in Nat /\ ys \in [1 .. n -> Int]
        /\ Len(zs) = n /\ zs \in [1 .. n -> Int]
        /\ \A i \in 1 .. n : zs[i] = ys[n + 1 - i]
        /\ Grounds(Reverse(turns), cfg)
    BY <2>1, SignalsBackwards
  <2>4. n >= 2 /\ Outcome.trajectory = Slope(ys, cfg)
    BY <2>1, <2>3, TrajectoryOfAssembled
  <2>5. Assemble(Reverse(turns), cfg).trajectory = Slope(zs, cfg)
    <3>1. Len(SignalScores(turns, cfg)) # 0
      BY <2>1, <2>4, SignalsAreIntegers
    <3>2. TurnsBatched(Reverse(turns), cfg)
      BY <2>1, <3>1, SignalsNeedBatches DEF TurnsBatched
    <3>3. QED
      BY <2>3, <2>4, <3>2, TrajectoryOfAssembled
  <2>6. RowOf(back, cfg).outcome = Assemble(Reverse(turns), cfg)
    <3>1. /\ back.elements = Reverse(turns)
          /\ back.object = conversation.object
          /\ back.tenant_id = conversation.tenant_id
          /\ back.conversation_id = conversation.conversation_id
          /\ back.turns = conversation.turns
      BY <2>1 DEF RawConversation
    <3>2. Kept(turns) # {} => Kept(Reverse(turns)) # {}
      <4>1. ASSUME NEW p \in Kept(turns) PROVE Len(turns) + 1 - p \in Kept(Reverse(turns))
        <5>1. /\ turns \in Seq(RawTurn) /\ Len(turns) \in Nat /\ DOMAIN turns = 1 .. Len(turns)
          BY <2>1 DEF Grounds
        <5>2. p \in 1 .. Len(turns) /\ ParseTurn(turns[p]) = "kept"
          BY <5>1 DEF Kept
        <5>3. Len(turns) + 1 - p \in 1 .. Len(turns) /\ Len(turns) + 1 - (Len(turns) + 1 - p) = p
          BY <5>1, <5>2
        <5>4. /\ DOMAIN Reverse(turns) = 1 .. Len(turns)
              /\ Reverse(turns)[Len(turns) + 1 - p] = turns[p]
          BY <5>1, <5>3, BackwardsReads
        <5>5. QED
          BY <5>2, <5>3, <5>4 DEF Kept
      <4>2. QED
        BY <4>1
    <3>3. Kept(turns) # {} \/ turns = <<>>
      BY <2>1 DEF ParseConversation, Turns
    <3>4. turns = <<>> => Reverse(turns) = <<>>
      BY DEF Reverse
    <3>5. ParseConversation(back) = "parsed"
      BY <2>1, <3>1, <3>2, <3>3, <3>4 DEF ParseConversation
    <3> HIDE DEF back, turns, cfg
    <3>6. QED
      BY <3>1, <3>5 DEF RowOf
  <2> HIDE DEF ys, zs, n, back, turns, cfg
  <2>7. Slope(zs, cfg) = [Slope(ys, cfg) EXCEPT !.rise = -@]
    <3>1. Deviation(zs) = -Deviation(ys) /\ Deviation(ys) \in Int
      BY <2>3, SlopeOfReversed, DeviationParts
    <3>2. (n - 1) * (-Deviation(ys)) = -((n - 1) * Deviation(ys))
      <4>1. \A p, q \in Int : p * (-q) = -(p * q)
        OBVIOUS
      <4>2. n - 1 \in Int
        BY <2>3
      <4>3. QED
        BY <3>1, <4>1, <4>2
    <3>3. Len(ys) = n
      BY DEF n
    <3>4. QED
      BY <2>3, <3>1, <3>2, <3>3 DEF Slope
  <2>8. ASSUME \A i \in 2 .. n : ys[i - 1] <= ys[i], Cardinality(ToSet(ys)) > 1
        PROVE  (n - 1) * Deviation(ys) > 0
    <3>1. Rising(ys, n) /\ n \in Nat \ {0}
      BY <2>3, <2>4, <2>8 DEF Rising
    <3>2. \A i, j \in 1 .. n : i <= j => ys[i] <= ys[j]
      BY <2>3, <3>1, RisingIsSorted
    <3>3. ys[1] < ys[n]
      <4>1. \A i \in 1 .. n : ys[1] <= ys[i] /\ ys[i] <= ys[n] /\ ys[i] \in Int
        BY <2>3, <3>1, <3>2
      <4>2. ~(\A i \in 1 .. n : ys[i] = ys[1])
        BY <2>3, <2>8, <3>1, OneMemberIsConstant
      <4>3. 1 \in 1 .. n /\ n \in 1 .. n
        BY <3>1
      <4>4. QED
        BY <4>1, <4>2, <4>3
    <3>4. Deviation(ys) > 0 /\ Deviation(ys) \in Int
      BY <2>3, <2>4, <3>1, <3>3, RisingHasSlope, DeviationParts
    <3>5. \A p, q \in Int : p > 0 /\ q > 0 => p * q > 0
      OBVIOUS
    <3>6. n - 1 \in Int /\ n - 1 > 0
      BY <2>3, <2>4
    <3>7. QED
      BY <3>4, <3>5, <3>6
  <2>9. Outcome.trajectory.rise = (n - 1) * Deviation(ys)
    BY <2>4 DEF Slope, n
  <2>10. Len(Signals) = n
    BY <2>2 DEF n
  <2>11. /\ \A i \in 2 .. Len(Signals) : Signals[i - 1] <= Signals[i]
         /\ Cardinality(ToSet(Signals)) > 1
         => Outcome.trajectory.rise > 0
    BY <2>2, <2>8, <2>9, <2>10
  <2>12. RowOf(back, cfg).outcome.trajectory
            = [Outcome.trajectory EXCEPT !.rise = -@]
    BY <2>4, <2>5, <2>6, <2>7
  <2>13. QED
    BY <2>11, <2>12 DEF back, turns, cfg
<1>2. QED
  BY <1>1, RowStaysTheAnswer, PTL
=============================================================================
