----------------------------- MODULE BasicFacts -----------------------------
(***************************************************************************)
(* What the proofs of this project share: induction over the natural       *)
(* numbers, and the set of the elements of a sequence.  Induction is       *)
(* stated of sets: what is shown by it is that the numbers with a          *)
(* property, { n \in Nat : ... }, are all of Nat.                          *)
(***************************************************************************)
EXTENDS Naturals, Sequences, SequencesExt, FiniteSetsExt, FiniteSetTheorems,
        WellFoundedInduction, TLAPS

-----------------------------------------------------------------------------
(* Numbers                                                                 *)

(* A set of natural numbers that is not empty has a least element.         *)
LEMMA LeastNumber ==
    ASSUME NEW T \in SUBSET Nat, T # {}
    PROVE  \E n \in T : \A m \in T : n <= m
<1> DEFINE R == OpToRel(<, Nat)
<1>1. IsWellFoundedOn(R, Nat)
  BY NatLessThanWellFounded
<1>2. \A x, y \in Nat : x < y => <<x, y>> \in R
  BY DEF OpToRel
<1> HIDE DEF R
<1>3. PICK x \in T : \A y \in T : <<y, x>> \notin R
  BY <1>1, WFMin
<1>4. \A y \in T : ~ (y < x)
  BY <1>2, <1>3
<1> QED
  BY <1>4

(* A set that contains 0 and the successor of each of its elements         *)
(* contains every natural number.                                          *)
LEMMA NumbersByInduction ==
    ASSUME NEW T \in SUBSET Nat, 0 \in T, \A n \in T : n + 1 \in T
    PROVE  \A n \in Nat : n \in T
<1> DEFINE U == Nat \ T
<1>1. SUFFICES ASSUME U # {} PROVE FALSE
  OBVIOUS
<1>2. U \in SUBSET Nat
  OBVIOUS
<1> HIDE DEF U
<1>3. PICK n \in U : \A m \in U : n <= m
  BY <1>1, <1>2, LeastNumber
<1> USE DEF U
<1>4. n # 0 /\ n - 1 \in Nat /\ (n - 1) + 1 = n
  OBVIOUS
<1>5. n - 1 \in T
  BY <1>3, <1>4
<1> QED
  BY <1>4, <1>5

(* A set of natural numbers with an upper bound has a greatest element,    *)
(* unless it is empty.                                                     *)
LEMMA GreatestNumber ==
    ASSUME NEW S \in SUBSET Nat, S # {}, NEW n \in Nat, \A m \in S : m <= n
    PROVE  \E x \in S : \A y \in S : y <= x
<1> DEFINE B == {b \in Nat : \A m \in S : m <= b}
<1>1. B \in SUBSET Nat /\ B # {}
  OBVIOUS
<1> HIDE DEF B
<1>2. PICK b \in B : \A c \in B : b <= c
  BY <1>1, LeastNumber
<1> USE DEF B
<1>3. CASE b \in S
  BY <1>3
<1>4. CASE b \notin S
  <2>1. PICK s \in S : TRUE
    OBVIOUS
  <2>2. \A m \in S : m <= b - 1
    BY <1>4
  <2>3. b - 1 \in B
    BY <2>1, <2>2
  <2> QED
    BY <1>2, <2>3
<1> QED
  BY <1>3, <1>4
-----------------------------------------------------------------------------
(* Sequences                                                               *)

LEMMA ToSetMembers ==
    ASSUME NEW A, NEW s \in Seq(A)
    PROVE  /\ ToSet(s) \subseteq A
           /\ \A x : x \in ToSet(s) <=> \E i \in 1 .. Len(s) : s[i] = x
BY DEF ToSet

LEMMA ConcatElements ==
    ASSUME NEW A, NEW s \in Seq(A), NEW t \in Seq(A)
    PROVE  /\ s \o t \in Seq(A) /\ Len(s \o t) = Len(s) + Len(t)
           /\ \A i \in 1 .. Len(s) : (s \o t)[i] = s[i]
           /\ \A i \in 1 .. Len(t) : (s \o t)[Len(s) + i] = t[i]
OBVIOUS

LEMMA ToSetOfConcat ==
    ASSUME NEW A, NEW s \in Seq(A), NEW t \in Seq(A)
    PROVE  ToSet(s \o t) = ToSet(s) \cup ToSet(t)
<1>1. /\ s \o t \in Seq(A) /\ Len(s \o t) = Len(s) + Len(t)
      /\ \A i \in 1 .. Len(s) : (s \o t)[i] = s[i]
      /\ \A i \in 1 .. Len(t) : (s \o t)[Len(s) + i] = t[i]
      /\ \A i \in 1 .. Len(s) + Len(t) :
            (s \o t)[i] = IF i <= Len(s) THEN s[i] ELSE t[i - Len(s)]
  OBVIOUS
<1>2. \A x : x \in ToSet(s \o t) <=> \E i \in 1 .. Len(s) + Len(t) : (s \o t)[i] = x
  <2> DEFINE w == s \o t
  <2>1. w \in Seq(A) /\ Len(w) = Len(s) + Len(t)
    BY <1>1
  <2> HIDE DEF w
  <2>2. \A x : x \in ToSet(w) <=> \E i \in 1 .. Len(w) : w[i] = x
    BY <2>1, ToSetMembers
  <2> QED
    BY <2>1, <2>2 DEF w
<1>3. ASSUME NEW x
      PROVE  x \in ToSet(s \o t) <=> x \in ToSet(s) \/ x \in ToSet(t)
  <2>1. ASSUME NEW i \in 1 .. Len(t), t[i] = x
        PROVE  x \in ToSet(s \o t)
    <3>1. Len(s) + i \in 1 .. Len(s) + Len(t) /\ (s \o t)[Len(s) + i] = x
      BY <1>1, <2>1
    <3> QED
      BY <1>2, <3>1
  <2>2. ASSUME NEW i \in 1 .. Len(s), s[i] = x
        PROVE  x \in ToSet(s \o t)
    <3>1. i \in 1 .. Len(s) + Len(t) /\ (s \o t)[i] = x
      BY <1>1, <2>2
    <3> QED
      BY <1>2, <3>1
  <2>3. ASSUME NEW i \in 1 .. Len(s) + Len(t), (s \o t)[i] = x
        PROVE  x \in ToSet(s) \/ x \in ToSet(t)
    <3>1. CASE i <= Len(s)
      BY <1>1, <2>3, <3>1, ToSetMembers
    <3>2. CASE i > Len(s)
      <4>1. i - Len(s) \in 1 .. Len(t) /\ t[i - Len(s)] = x
        BY <1>1, <2>3, <3>2
      <4> QED
        BY <4>1, ToSetMembers
    <3> QED
      BY <3>1, <3>2
  <2> QED
    BY <1>2, <2>1, <2>2, <2>3, ToSetMembers
<1> QED
  BY <1>3

(* A sequence without repetitions to which another element is appended.    *)
LEMMA ToSetOfAppend ==
    ASSUME NEW A, NEW s \in Seq(A), NEW x \in A, IsInjective(s), x \notin ToSet(s)
    PROVE  ToSet(Append(s, x)) = ToSet(s) \cup {x} /\ IsInjective(Append(s, x))
<1> DEFINE w == Append(s, x)
<1>1. /\ w \in Seq(A) /\ Len(w) = Len(s) + 1 /\ Len(s) \in Nat /\ w[Len(s) + 1] = x
      /\ \A i \in 1 .. Len(s) : w[i] = s[i]
  OBVIOUS
<1> HIDE DEF w
<1>2. \A i \in 1 .. Len(s) + 1 : i \in 1 .. Len(s) \/ i = Len(s) + 1
  BY <1>1
<1>3. \A y : y \in ToSet(w) <=> \E i \in 1 .. Len(s) + 1 : w[i] = y
  BY <1>1, ToSetMembers
<1>4. \A y : y \in ToSet(s) <=> \E i \in 1 .. Len(s) : s[i] = y
  BY ToSetMembers
<1>5. Len(s) + 1 \in 1 .. Len(s) + 1 /\ \A i \in 1 .. Len(s) : i \in 1 .. Len(s) + 1
  BY <1>1
<1>6. ToSet(w) = ToSet(s) \cup {x}
  BY <1>1, <1>2, <1>3, <1>4, <1>5
<1>7. \A i, j \in 1 .. Len(s) : s[i] = s[j] => i = j
  BY DEF IsInjective
<1>8. \A i, j \in 1 .. Len(s) + 1 : w[i] = w[j] => i = j
  BY <1>1, <1>2, <1>4, <1>7
<1>9. IsInjective(w)
  BY <1>1, <1>8 DEF IsInjective
<1> QED
  BY <1>6, <1>9 DEF w

-----------------------------------------------------------------------------
(* Finite sets of numbers, and ranks                                       *)

(* The greatest of a set of numbers that has a bound.                      *)
LEMMA MaxOfNumbers ==
    ASSUME NEW S \in SUBSET Nat, S # {}, NEW n \in Nat, \A m \in S : m <= n
    PROVE  Max(S) \in S /\ \A m \in S : m <= Max(S)
<1>1. \E x \in S : \A y \in S : x >= y
  BY GreatestNumber
<1> QED
  BY <1>1 DEF Max

(* Finitely many numbers have a bound.                                     *)
LEMMA NumbersAreBounded ==
    ASSUME NEW n \in Nat, NEW f \in [1 .. n -> Nat]
    PROVE  \E b \in Nat : \A i \in 1 .. n : f[i] <= b
<1> DEFINE T == {k \in Nat : k <= n => \E b \in Nat : \A i \in 1 .. k : f[i] <= b}
<1>1. T \in SUBSET Nat
  OBVIOUS
<1>2. 0 \in T
  OBVIOUS
<1>3. ASSUME NEW k \in T PROVE k + 1 \in T
  <2>1. k + 1 \in Nat
    OBVIOUS
  <2>2. SUFFICES ASSUME k + 1 <= n
                 PROVE  \E b \in Nat : \A i \in 1 .. k + 1 : f[i] <= b
    BY <2>1
  <2>3. PICK b \in Nat : \A i \in 1 .. k : f[i] <= b
    BY <2>2
  <2>4. f[k + 1] \in Nat
    BY <2>2
  <2>5. PICK c \in Nat : b <= c /\ f[k + 1] <= c
    BY <2>4
  <2>6. \A i \in 1 .. k + 1 : i \in 1 .. k \/ i = k + 1
    OBVIOUS
  <2>7. \A i \in 1 .. k : f[i] \in Nat
    BY <2>2
  <2> QED
    BY <2>3, <2>4, <2>5, <2>6, <2>7
<1> HIDE DEF T
<1>4. n \in T
  BY <1>1, <1>2, <1>3, NumbersByInduction
<1> QED
  BY <1>4 DEF T

(* The elements of a finite set that R puts in an order are numbered by    *)
(* how many come before each.                                              *)
LEMMA Ranks ==
    ASSUME NEW S, IsFiniteSet(S), NEW R,
           \A x \in S : <<x, x>> \notin R,
           \A x, y, z \in S : <<x, y>> \in R /\ <<y, z>> \in R => <<x, z>> \in R,
           \A x, y \in S : x = y \/ <<x, y>> \in R \/ <<y, x>> \in R
    PROVE  /\ \A x \in S : Cardinality({y \in S : <<y, x>> \in R}) \in 0 .. Cardinality(S) - 1
           /\ \A x, y \in S : <<x, y>> \in R <=>
                 Cardinality({z \in S : <<z, x>> \in R}) < Cardinality({z \in S : <<z, y>> \in R})
           /\ \A n \in 0 .. Cardinality(S) - 1 :
                 \E x \in S : Cardinality({y \in S : <<y, x>> \in R}) = n
<1> DEFINE Below(x) == {y \in S : <<y, x>> \in R}
           Rank(x) == Cardinality(Below(x))
           N == Cardinality(S)
<1>1. N \in Nat
  BY FS_CardinalityType
<1>2. ASSUME NEW x \in S
      PROVE  IsFiniteSet(Below(x)) /\ Rank(x) \in Nat /\ Rank(x) < N
  <2>1. Below(x) \in SUBSET S /\ Below(x) # S
    OBVIOUS
  <2> HIDE DEF Below
  <2> QED
    BY <2>1, FS_Subset, FS_CardinalityType
<1>3. ASSUME NEW x \in S, NEW y \in S, <<x, y>> \in R
      PROVE  Rank(x) < Rank(y)
  <2>1. Below(x) \in SUBSET Below(y) /\ Below(x) # Below(y)
    BY <1>3
  <2>2. IsFiniteSet(Below(x)) /\ IsFiniteSet(Below(y)) /\ Rank(x) \in Nat /\ Rank(y) \in Nat
    BY <1>2
  <2> HIDE DEF Below
  <2> QED
    BY <2>1, <2>2, FS_Subset
<1>4. \A x, y \in S : <<x, y>> \in R <=> Rank(x) < Rank(y)
  <2> TAKE x, y \in S
  <2>1. Rank(x) \in Nat /\ Rank(y) \in Nat
    BY <1>2
  <2>2. CASE x = y
    BY <2>1, <2>2
  <2>3. CASE <<x, y>> \in R
    BY <1>3, <2>3
  <2>4. CASE <<y, x>> \in R
    <3>1. Rank(y) < Rank(x) /\ <<x, y>> \notin R
      BY <1>3, <2>4
    <3> QED
      BY <2>1, <3>1
  <2> HIDE DEF Rank
  <2> QED
    BY <2>2, <2>3, <2>4
<1>5. \A n \in 0 .. N - 1 : \E x \in S : Rank(x) = n
  <2> DEFINE f == [x \in S |-> Rank(x)]
             T == 0 .. N - 1
  <2>1. IsFiniteSet(T) /\ Cardinality(T) = N
    <3> HIDE DEF N
    <3>1. 0 \in Int /\ N - 1 \in Int
      BY <1>1
    <3> QED
      BY <1>1, <3>1, FS_Interval
  <2>2. f \in [S -> T]
    BY <1>1, <1>2
  <2>3. \A x, y \in S : f[x] = f[y] => x = y
    <3> TAKE x, y \in S
    <3>1. Rank(x) \in Nat /\ Rank(y) \in Nat
      BY <1>2
    <3>2. f[x] = Rank(x) /\ f[y] = Rank(y)
      OBVIOUS
    <3> HIDE DEF f, Rank
    <3> QED
      BY <1>4, <3>1, <3>2
  <2> HIDE DEF f, T
  <2>4. f \in Injection(S, T)
    BY <2>2, <2>3 DEF Injection, IsInjective
  <2>5. f \in Surjection(S, T)
    BY <2>1, <2>4, FS_Injection
  <2>6. \A n \in T : \E x \in S : f[x] = n
    BY <2>5 DEF Surjection
  <2> USE DEF f, T
  <2> QED
    BY <2>6
<1>6. \A x \in S : Rank(x) \in 0 .. N - 1
  <2> TAKE x \in S
  <2>1. Rank(x) \in Nat /\ Rank(x) < N
    BY <1>2
  <2> HIDE DEF Rank, N
  <2> QED
    BY <1>1, <2>1
<1> QED
  BY <1>4, <1>5, <1>6, Zenon
=============================================================================
