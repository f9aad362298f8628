------------------------------ MODULE Induction -----------------------------
(***************************************************************************)
(* Induction over an initial segment of the naturals and over the subsets  *)
(* of a finite set, and the existence of functions defined by recursion,   *)
(* stated with sets and functions in place of predicates and operators.    *)
(* The recursive functions of the model (Run, ReplaySteps, Total, ...) are *)
(* reasoned about through these lemmas.                                    *)
(***************************************************************************)
EXTENDS Integers, WellFoundedInduction, FiniteSetTheorems, TLAPS

NatLess == {p \in Nat \X Nat : p[1] < p[2]}

(***************************************************************************)
(* Every non-empty set of naturals has a least element: the fact from      *)
(* which the induction over transactions and blocks follows.               *)
(***************************************************************************)
LEMMA LeastNat ==
  ASSUME NEW T, T \subseteq Nat, T # {}
  PROVE  \E x \in T : \A y \in T : x <= y
<1>1. IsWellFoundedOn(NatLess, Nat)
  <2>1. OpToRel(<, Nat) = NatLess
    BY Zenon DEF OpToRel, NatLess
  <2> QED
    BY <2>1, NatLessThanWellFounded, Zenon
<1>2. PICK x \in T : \A y \in T : ~(<<y, x>> \in NatLess)
  BY <1>1, WFMin, Zenon
<1>3. ASSUME NEW y \in T PROVE x <= y
  <2>1. x \in Nat /\ y \in Nat
    OBVIOUS
  <2>2. <<y, x>> \in NatLess <=> y < x
    BY <2>1 DEF NatLess
  <2> QED
    BY <1>2, <2>1, <2>2
<1> QED
  BY <1>3

(***************************************************************************)
(* Induction from 0 to n: the form in which a property of every prefix of  *)
(* a block's transactions, or of a chain's blocks, is proved.              *)
(***************************************************************************)
LEMMA UpTo ==
  ASSUME NEW n \in Nat, NEW P,
         0 \in P,
         \A i \in 1..n : i - 1 \in P => i \in P
  PROVE  \A i \in 0..n : i \in P
<1> DEFINE T == {i \in 0..n : i \notin P}
<1>1. SUFFICES ASSUME T # {} PROVE FALSE
  OBVIOUS
<1>2. T \subseteq Nat
  OBVIOUS
<1>3. PICK x \in T : \A y \in T : x <= y
  <2> HIDE DEF T
  <2> QED
    BY <1>1, <1>2, LeastNat
<1>4. x \in 1..n /\ x - 1 \in 0..n /\ x - 1 \notin T
  BY <1>3
<1> QED
  BY <1>4

(***************************************************************************)
(* f is step iterated from s, for 0..n.                                    *)
(***************************************************************************)
Iteration(f, n, S, s, step) ==
    /\ f \in [0..n -> S]
    /\ \A i \in 0..n : f[i] = IF i = 0 THEN s ELSE step[<<f[i - 1], i>>]

(***************************************************************************)
(* Any step function can be iterated: the recursions over transactions and *)
(* blocks do define functions.                                             *)
(***************************************************************************)
LEMMA Iterates ==
  ASSUME NEW n \in Nat, NEW S, NEW s \in S, NEW step \in [S \X (1..n) -> S]
  PROVE  \E f : Iteration(f, n, S, s, step)
<1> DEFINE P == {m \in 0..n : \E f : Iteration(f, m, S, s, step)}
<1>1. 0 \in P
  <2> DEFINE f == [i \in 0..0 |-> s]
  <2>1. Iteration(f, 0, S, s, step)
    BY DEF Iteration
  <2> HIDE DEF f
  <2> QED
    BY <2>1
<1>2. ASSUME NEW m \in 1..n, m - 1 \in P PROVE m \in P
  <2>1. PICK f : Iteration(f, m - 1, S, s, step)
    BY <1>2
  <2>2. f \in [0..(m - 1) -> S]
    BY <2>1 DEF Iteration
  <2>3. f[m - 1] \in S /\ step[<<f[m - 1], m>>] \in S
    BY <2>2
  <2> DEFINE g == [i \in 0..m |-> IF i = m THEN step[<<f[m - 1], m>>] ELSE f[i]]
  <2>4. g \in [0..m -> S]
    BY <2>2, <2>3
  <2>5. ASSUME NEW i \in 0..m
        PROVE  g[i] = IF i = 0 THEN s ELSE step[<<g[i - 1], i>>]
    <3>1. CASE i = m
      <4>1. m - 1 \in 0..m /\ m - 1 # m /\ m # 0
        OBVIOUS
      <4>2. g[m - 1] = f[m - 1] /\ g[m] = step[<<f[m - 1], m>>]
        BY <4>1
      <4> QED
        BY <3>1, <4>1, <4>2
    <3>2. CASE i # m
      <4>1. i \in 0..(m - 1) /\ (i # 0 => i - 1 \in 0..(m - 1))
        BY <3>2
      <4>2. g[i] = f[i] /\ (i # 0 => g[i - 1] = f[i - 1])
        BY <3>2, <4>1
      <4> QED
        BY <2>1, <4>1, <4>2 DEF Iteration
    <3> QED
      BY <3>1, <3>2
  <2> HIDE DEF g
  <2>6. Iteration(g, m, S, s, step)
    BY <2>4, <2>5 DEF Iteration
  <2> QED
    BY <2>6
<1>3. \A m \in 0..n : m \in P
  <2> HIDE DEF P
  <2> QED
    BY <1>1, <1>2, UpTo
<1> QED
  BY <1>3

-----------------------------------------------------------------------------
(***************************************************************************)
(* The element of a set that CHOOSE picks.                                 *)
(***************************************************************************)
OneOf(S) == CHOOSE x \in S : TRUE

LEMMA TakeOneAway ==
  ASSUME NEW A, IsFiniteSet(A), NEW S \in SUBSET A
  PROVE  /\ IsFiniteSet(S) /\ Cardinality(S) \in Nat
         /\ Cardinality(S) <= Cardinality(A)
         /\ Cardinality(S) = 0 <=> S = {}
         /\ S # {} => /\ OneOf(S) \in S
                      /\ Cardinality(S \ {OneOf(S)}) = Cardinality(S) - 1
<1>1. IsFiniteSet(S) /\ Cardinality(S) <= Cardinality(A)
  BY FS_Subset
<1>2. Cardinality(S) \in Nat /\ (Cardinality(S) = 0 <=> S = {})
  BY <1>1, FS_CardinalityType, FS_EmptySet
<1>3. ASSUME S # {}
      PROVE  OneOf(S) \in S /\ Cardinality(S \ {OneOf(S)}) = Cardinality(S) - 1
  <2>1. OneOf(S) \in S
    BY <1>3 DEF OneOf
  <2> QED
    BY <1>1, <2>1, FS_RemoveElement
<1> QED
  BY <1>1, <1>2, <1>3

(***************************************************************************)
(* Induction over the subsets of a finite set, taking away the element     *)
(* that CHOOSE picks: how the sum over the accounts is defined.            *)
(***************************************************************************)
LEMMA SubsetInduction ==
  ASSUME NEW A, IsFiniteSet(A), NEW P,
         {} \in P,
         \A S \in SUBSET A : S # {} /\ S \ {OneOf(S)} \in P => S \in P
  PROVE  \A S \in SUBSET A : S \in P
<1> DEFINE n == Cardinality(A)
           Good == {i \in 0..n : \A S \in SUBSET A : Cardinality(S) = i => S \in P}
<1>1. n \in Nat /\ \A S \in SUBSET A : Cardinality(S) \in 0..n
  <2>1. n \in Nat
    BY FS_CardinalityType
  <2>2. ASSUME NEW S \in SUBSET A PROVE Cardinality(S) \in 0..n
    <3>1. Cardinality(S) \in Nat /\ Cardinality(S) <= n
      BY TakeOneAway
    <3> HIDE DEF n
    <3> QED
      BY <2>1, <3>1
  <2> QED
    BY <2>1, <2>2
<1> HIDE DEF n
<1>2. 0 \in Good
  <2>1. \A S \in SUBSET A : Cardinality(S) = 0 => S = {}
    BY TakeOneAway
  <2> QED
    BY <1>1, <2>1
<1>3. ASSUME NEW i \in 1..n, i - 1 \in Good PROVE i \in Good
  <2> SUFFICES ASSUME NEW S \in SUBSET A, Cardinality(S) = i PROVE S \in P
    BY <1>1
  <2>1. S # {} /\ Cardinality(S \ {OneOf(S)}) = i - 1
    BY <1>1, TakeOneAway
  <2> QED
    BY <1>3, <2>1
<1>4. \A i \in 0..n : i \in Good
  <2> HIDE DEF Good
  <2> QED
    BY <1>1, <1>2, <1>3, UpTo
<1> QED
  BY <1>1, <1>4
=============================================================================
