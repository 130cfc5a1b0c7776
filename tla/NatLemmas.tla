----------------------------- MODULE NatLemmas ------------------------------
(***************************************************************************)
(* About natural numbers: induction, the largest and the smallest of a     *)
(* set, and powers of two.                                                 *)
(*                                                                         *)
(* The induction theorems of the library take an operator, which the       *)
(* provers cannot instantiate; that every set of naturals has a smallest   *)
(* element (NatMin) does not, and it gives the induction over a set of     *)
(* naturals (NatInd) used instead.  The powers of two are the cardinality  *)
(* of the sets of subsets.                                                 *)
(***************************************************************************)
EXTENDS Integers, FiniteSetsExt, FiniteSetTheorems, WellFoundedInduction, TLAPS

\* A set of naturals has a smallest element.
LEMMA NatMin ==
    ASSUME NEW S, S \subseteq Nat, S # {}
    PROVE  \E m \in S : \A n \in S : m <= n
<1>1. IsWellFoundedOn(OpToRel(<, Nat), Nat)
  BY NatLessThanWellFounded
<1>2. PICK m \in S : \A n \in S : ~ (<<n, m>> \in OpToRel(<, Nat))
  BY <1>1, WFMin
<1>3. \A n \in S : ~ (n < m)
  BY <1>2 DEF OpToRel
<1> QED
  BY <1>3

\* A set that holds 0, and with a number the next, holds every number.
LEMMA NatInd ==
    ASSUME NEW S, 0 \in S, \A n \in S \cap Nat : n + 1 \in S
    PROVE  Nat \subseteq S
<1> DEFINE D == Nat \ S
<1> SUFFICES ASSUME D # {} PROVE FALSE
  OBVIOUS
<1>1. PICK m \in D : \A n \in D : m <= n
  BY NatMin
<1>2. m \in Nat /\ m # 0 /\ m - 1 \in Nat
  BY <1>1
<1>3. m - 1 \in S
  BY <1>1, <1>2
<1>4. (m - 1) + 1 = m
  BY <1>2
<1> QED
  BY <1>1, <1>2, <1>3, <1>4

\* Max of a bounded set of naturals.
LEMMA MaxOf ==
    ASSUME NEW S, S \subseteq Nat, S # {}, NEW b \in Nat, \A n \in S : n <= b
    PROVE  Max(S) \in S /\ \A n \in S : n <= Max(S)
<1> DEFINE T == {b - n : n \in S}
<1>1. T \subseteq Nat
  <2>1. \A n \in S : n \in Nat /\ b - n \in Nat
    OBVIOUS
  <2> QED
    BY <2>1
<1>2. T # {}
  OBVIOUS
<1> HIDE DEF T
<1>3. PICK t \in T : \A u \in T : t <= u
  BY <1>1, <1>2, NatMin
<1>4. PICK m \in S : t = b - m
  BY <1>3 DEF T
<1>5. \A n \in S : b - m <= b - n
  BY <1>3, <1>4 DEF T
<1>6. \A n \in S : m >= n
  BY <1>5
<1>7. \E x \in S : \A y \in S : x >= y
  BY <1>6
<1>8. Max(S) \in S /\ \A n \in S : Max(S) >= n
  BY <1>7 DEF Max
<1> QED
  BY <1>8

\* Min of a set of naturals.
LEMMA MinOf ==
    ASSUME NEW S, S \subseteq Nat, S # {}
    PROVE  Min(S) \in S /\ \A n \in S : Min(S) <= n
<1>1. \E x \in S : \A y \in S : x <= y
  BY NatMin
<1> QED
  BY <1>1 DEF Min

LEMMA MaxPair ==
    ASSUME NEW x \in Nat, NEW y \in Nat
    PROVE  Max({x, y}) \in Nat /\ x <= Max({x, y}) /\ y <= Max({x, y})
<1>1. \A n \in {x, y} : n <= x + y
  OBVIOUS
<1> QED
  BY <1>1, MaxOf

LEMMA MinPair ==
    ASSUME NEW x \in Nat, NEW y \in Nat
    PROVE  Min({x, y}) \in {x, y} /\ Min({x, y}) <= x /\ Min({x, y}) <= y
<1>1. {x, y} \subseteq Nat /\ {x, y} # {}
  OBVIOUS
<1> QED
  BY <1>1, MinOf
-----------------------------------------------------------------------------
(* Powers of two *)

LEMMA PowIs ==
    ASSUME NEW n \in Nat
    PROVE  /\ IsFiniteSet(SUBSET (1 .. n))
           /\ Cardinality(SUBSET (1 .. n)) = 2 ^ n
<1>1. IsFiniteSet(1 .. n) /\ Cardinality(1 .. n) = n
  <2>1. 1 \in Int /\ n \in Int
    OBVIOUS
  <2>2. /\ IsFiniteSet(1 .. n)
        /\ Cardinality(1 .. n) = IF 1 > n THEN 0 ELSE n - 1 + 1
    BY <2>1, FS_Interval
  <2> QED
    BY <2>2
<1> QED
  BY <1>1, FS_SUBSET

LEMMA PowPos == ASSUME NEW n \in Nat PROVE 2 ^ n \in Nat \ {0}
<1>1. /\ IsFiniteSet(SUBSET (1 .. n))
      /\ Cardinality(SUBSET (1 .. n)) = 2 ^ n
  BY PowIs
<1>2. Cardinality(SUBSET (1 .. n)) \in Nat
  BY <1>1, FS_CardinalityType
<1>3. Cardinality(SUBSET (1 .. n)) # 0
  <2>1. SUBSET (1 .. n) # {}
    OBVIOUS
  <2> QED
    BY <1>1, <2>1, FS_EmptySet
<1> QED
  BY <1>1, <1>2, <1>3

LEMMA PowZero == 2 ^ 0 = 1
<1>1. SUBSET (1 .. 0) = {{}}
  OBVIOUS
<1>2. Cardinality(SUBSET (1 .. 0)) = 2 ^ 0
  BY PowIs
<1> QED
  BY <1>1, <1>2, FS_Singleton

\* A subset of 1 .. n + 1 has n + 1 or it does not.
LEMMA PowNext == ASSUME NEW n \in Nat PROVE 2 ^ (n + 1) = 2 * 2 ^ n
<1> DEFINE A == SUBSET (1 .. n)
           B == {T \cup {n + 1} : T \in A}
<1>1. /\ IsFiniteSet(A) /\ Cardinality(A) = 2 ^ n
      /\ Cardinality(SUBSET (1 .. n + 1)) = 2 ^ (n + 1)
  <2>1. n + 1 \in Nat
    OBVIOUS
  <2>2. Cardinality(SUBSET (1 .. n + 1)) = 2 ^ (n + 1)
    BY <2>1, PowIs
  <2>3. IsFiniteSet(A) /\ Cardinality(A) = 2 ^ n
    BY PowIs
  <2> QED
    BY <2>2, <2>3
<1>2. \A T \in A : n + 1 \notin T
  OBVIOUS
<1>3. SUBSET (1 .. n + 1) = A \cup B
  <2>1. ASSUME NEW T \in SUBSET (1 .. n + 1) PROVE T \in A \cup B
    <3>1. T \ {n + 1} \in A
      OBVIOUS
    <3>2. CASE n + 1 \in T
      <4>1. T = (T \ {n + 1}) \cup {n + 1}
        BY <3>2
      <4> QED
        BY <3>1, <4>1
    <3>3. CASE n + 1 \notin T
      BY <3>1, <3>3
    <3> QED
      BY <3>2, <3>3
  <2>2. 1 .. n \subseteq 1 .. n + 1 /\ n + 1 \in 1 .. n + 1
    OBVIOUS
  <2>3. ASSUME NEW T \in A \cup B PROVE T \in SUBSET (1 .. n + 1)
    BY <2>2
  <2> QED
    BY <2>1, <2>3
<1>4. A \cap B = {}
  BY <1>2
<1>5. IsFiniteSet(B) /\ Cardinality(B) = Cardinality(A)
  <2> DEFINE f == [T \in A |-> T \cup {n + 1}]
  <2>1. f \in [A -> B] /\ \A T \in A : f[T] = T \cup {n + 1}
    OBVIOUS
  <2>2. \A S, T \in A : f[S] = f[T] => S = T
    <3>1. \A T \in A : T = f[T] \ {n + 1}
      BY <1>2, <2>1
    <3> QED
      BY <3>1
  <2>3. \A U \in B : \E T \in A : f[T] = U
    OBVIOUS
  <2>4. f \in Bijection(A, B)
    <3> HIDE DEF A, B, f
    <3> QED
      BY <2>1, <2>2, <2>3 DEF Bijection, Injection, Surjection, IsInjective
  <2>5. ExistsBijection(A, B)
    BY <2>4 DEF ExistsBijection
  <2> QED
    BY <1>1, <2>5, FS_Bijection
<1>6. Cardinality(A \cup B) = Cardinality(A) + Cardinality(B)
                                - Cardinality(A \cap B)
  BY <1>1, <1>5, FS_Union
<1>7. Cardinality(A \cap B) = 0
  BY <1>4, FS_EmptySet
<1>8. 2 ^ n \in Nat
  BY PowPos
<1>9. 2 ^ (n + 1) = Cardinality(A \cup B) /\ Cardinality(A) = 2 ^ n
  BY <1>1, <1>3
<1> HIDE DEF A, B
<1>10. 2 ^ (n + 1) = 2 ^ n + 2 ^ n - 0
  BY <1>5, <1>6, <1>7, <1>9
<1> QED
  BY <1>8, <1>10

LEMMA PowSum ==
    ASSUME NEW a \in Nat, NEW b \in Nat
    PROVE  2 ^ (a + b) = 2 ^ a * 2 ^ b
<1> DEFINE S == {n \in Nat : 2 ^ (a + n) = 2 ^ a * 2 ^ n}
<1>1. 0 \in S
  BY PowZero, PowPos
<1>2. ASSUME NEW n \in S PROVE n + 1 \in S
  <2>1. 2 ^ (a + n) = 2 ^ a * 2 ^ n
    OBVIOUS
  <2>2. n \in Nat /\ a + n \in Nat /\ (a + n) + 1 = a + (n + 1)
    OBVIOUS
  <2>3. 2 ^ ((a + n) + 1) = 2 * 2 ^ (a + n) /\ 2 ^ (n + 1) = 2 * 2 ^ n
    BY <2>2, PowNext
  <2>4. PICK p \in Nat, q \in Nat : p = 2 ^ a /\ q = 2 ^ n
    BY <2>2, PowPos
  <2>5. 2 * (p * q) = p * (2 * q)
    OBVIOUS
  <2>6. 2 ^ (a + (n + 1)) = 2 ^ a * 2 ^ (n + 1)
    BY <2>1, <2>2, <2>3, <2>4, <2>5
  <2> QED
    BY <2>2, <2>6
<1>3. Nat \subseteq S
  <2> HIDE DEF S
  <2> QED
    BY <1>1, <1>2, NatInd
<1> QED
  BY <1>3
=============================================================================
