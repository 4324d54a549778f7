----------------------------- MODULE LeastNumber -----------------------------
(***************************************************************************)
(* The least number principle, in a form without operator parameters: the  *)
(* proofs that need an induction (over the records of a table, the rounds  *)
(* of a search) take the least counterexample and refute it; and running   *)
(* sums, which several of them need.                                       *)
(***************************************************************************)
EXTENDS Integers, WellFoundedInduction, TLAPS

LessThan == {ss \in Nat \X Nat : ss[1] < ss[2]}

(* A set of numbers that is not empty has a least one: the slot that        *)
(* partition_auto takes, the next partition behind a gap.                   *)
LEMMA LeastNat ==
  ASSUME NEW T \in SUBSET Nat, T # {}
  PROVE  \E x \in T : \A y \in T : x <= y
<1>1. IsWellFoundedOn(LessThan, Nat)
  <2>1. OpToRel(<, Nat) = LessThan
    BY Zenon DEF OpToRel, LessThan
  <2> QED BY <2>1, NatLessThanWellFounded
<1>2. PICK x \in T : \A y \in T : ~ (<<y, x>> \in LessThan)
  BY <1>1, WFMin
<1>3. \A y \in T : x <= y
  <2> SUFFICES ASSUME NEW y \in T PROVE x <= y
    OBVIOUS
  <2>1. x \in Nat /\ y \in Nat /\ <<y, x>> \in Nat \X Nat
    OBVIOUS
  <2>2. ~(y < x)
    BY <1>2, <2>1 DEF LessThan
  <2> QED BY <2>1, <2>2
<1> QED BY <1>3

(* And a bounded one has a greatest: the end of the partitions that cover   *)
(* a sector, the most specific access record.                               *)
LEMMA GreatestNat ==
  ASSUME NEW T \in SUBSET Nat, T # {}, NEW b \in Nat, \A x \in T : x <= b
  PROVE  \E x \in T : \A y \in T : y <= x
<1> DEFINE U == {b - x : x \in T}
<1>1. U \in SUBSET Nat /\ U # {}
  <2>1. \A x \in T : b - x \in Nat
    OBVIOUS
  <2> QED BY <2>1
<1>2. PICK u \in U : \A v \in U : u <= v
  BY <1>1, LeastNat
<1>3. PICK x \in T : u = b - x
  BY <1>2
<1>4. \A y \in T : y <= x
  <2> SUFFICES ASSUME NEW y \in T PROVE y <= x
    OBVIOUS
  <2>1. b - x <= b - y
    BY <1>2, <1>3
  <2>2. x \in Nat /\ y \in Nat
    OBVIOUS
  <2> QED BY <2>1, <2>2
<1> QED BY <1>4
(* The running sums of a table: the lengths of a vector, free counts.       *)
Sums(f, v, n) == f = [k \in 0..n |-> IF k = 0 THEN 0 ELSE f[k - 1] + v[k]]

(* They exist because each is made from the one before. *)
LEMMA SumsExist == ASSUME NEW v, NEW n \in Nat PROVE \E f : Sums(f, v, n)
<1> DEFINE Bad == {k \in Nat : ~\E f : Sums(f, v, k)}
<1>1. SUFFICES ASSUME Bad # {} PROVE FALSE
  OBVIOUS
<1>2. PICK k \in Bad : \A j \in Bad : k <= j
  BY <1>1, LeastNat
<1> DEFINE S(x, i) == x + v[i]
<1>3. \A f, j : Sums(f, v, j) <=> f = [m \in 0..j |-> IF m = 0 THEN 0 ELSE S(f[m - 1], m)]
  BY DEF Sums
<1> HIDE DEF S
<1>4. k # 0
  <2> DEFINE h == [m \in 0..0 |-> 0]
  <2>1. \A m \in 0..0 : h[m] = IF m = 0 THEN 0 ELSE S(h[m - 1], m)
    OBVIOUS
  <2>2. h = [m \in 0..0 |-> IF m = 0 THEN 0 ELSE S(h[m - 1], m)]
    BY <2>1
  <2>3. Sums(h, v, 0)
    BY <1>3, <2>2
  <2> QED BY <1>2, <2>3
<1>5. PICK f : Sums(f, v, k - 1)
  <2>1. k - 1 \in Nat /\ ~(k <= k - 1)
    BY <1>2, <1>4
  <2>2. k - 1 \notin Bad
    BY <1>2, <2>1
  <2> QED BY <2>1, <2>2
<1> DEFINE g == [m \in 0..k |-> IF m < k THEN f[m] ELSE S(f[k - 1], k)]
<1>6. \A m \in 0..k : g[m] = IF m = 0 THEN 0 ELSE S(g[m - 1], m)
  <2> TAKE m \in 0..k
  <2>1. CASE m = k
    BY <1>2, <1>4, <2>1
  <2>2. CASE m < k
    <3>1. m \in 0..k - 1 /\ (m # 0 => m - 1 \in 0..k - 1 /\ m - 1 < k)
      BY <1>2, <1>4, <2>2
    <3>2. f[m] = IF m = 0 THEN 0 ELSE S(f[m - 1], m)
      BY <1>3, <1>5, <3>1
    <3> QED BY <2>2, <3>1, <3>2
  <2> QED BY <1>2, <2>1, <2>2
<1>7. Sums(g, v, k)
  BY <1>3, <1>6
<1> QED BY <1>2, <1>7
=============================================================================
