------------------------------ MODULE NumberLemmas ------------------------------
(***************************************************************************)
(* Induction over the natural numbers, for a set rather than a predicate,  *)
(* from the library's theorem that strict inclusion of finite sets is well *)
(* founded: how the proofs about recursive functions do induction.  And    *)
(* the places of the members of a finite set of numbers in their order.    *)
(***************************************************************************)
EXTENDS Integers, FiniteSets, Sequences, FiniteSetTheorems, FunctionTheorems, WellFoundedInduction, TLAPS

(* A nonempty set of natural numbers has a least element. *)
LEMMA LeastElement ==
  ASSUME NEW S \in SUBSET Nat, S # {}
  PROVE  \E m \in S : \A n \in S : m <= n
<1> DEFINE Below(n) == 0 .. n
           T == {Below(n) : n \in S}
<1>1. T \subseteq FiniteSubsetsOf(Nat) /\ T # {}
  <2>1. \A n \in S : Below(n) \in SUBSET Nat /\ IsFiniteSet(Below(n))
    BY FS_Interval
  <2>2. QED
    BY <2>1 DEF FiniteSubsetsOf
<1>2. IsWellFoundedOn(StrictSubsetOrdering(Nat), FiniteSubsetsOf(Nat))
  BY FS_StrictSubsetOrderingWellFounded
<1>3. PICK x \in T : \A y \in T : ~ (<<y, x>> \in StrictSubsetOrdering(Nat))
  BY <1>1, <1>2, WFMin
<1>4. PICK m \in S : x = Below(m)
  OBVIOUS
<1>5. ASSUME NEW n \in S, ~ (m <= n) PROVE FALSE
  <2>1. n \in Nat /\ m \in Nat /\ n < m
    BY <1>5
  <2>2. Below(n) \subseteq Below(m) /\ m \in Below(m) /\ m \notin Below(n)
    BY <2>1
  <2>3. <<Below(n), Below(m)>> \in StrictSubsetOrdering(Nat)
    BY <2>2 DEF StrictSubsetOrdering
  <2>4. QED
    BY <2>3, <1>3, <1>4
<1>6. QED
  BY <1>5

(* Induction: a set with 0 and the successor of each member is Nat. *)
LEMMA SetInduction ==
  ASSUME NEW S, 0 \in S, \A n \in Nat : n \in S => n + 1 \in S
  PROVE  Nat \subseteq S
<1>1. SUFFICES ASSUME Nat \ S # {} PROVE FALSE
  OBVIOUS
<1>2. PICK m \in Nat \ S : \A n \in Nat \ S : m <= n
  BY <1>1, LeastElement
<1>3. m # 0 /\ m - 1 \in Nat /\ (m - 1) + 1 = m
  BY <1>2
<1>4. m - 1 \in S
  BY <1>2, <1>3
<1>5. QED
  BY <1>2, <1>3, <1>4

(* How many members of S are smaller: from zero, without gaps.                *)
SmallerIn(S, i) == Cardinality({x \in S : x < i})

LEMMA Places ==
  ASSUME NEW S \in SUBSET Nat, IsFiniteSet(S)
  PROVE  /\ \A i \in S : SmallerIn(S, i) \in 0 .. Cardinality(S) - 1
         /\ \A i, j \in S : i < j => SmallerIn(S, i) < SmallerIn(S, j)
         /\ \A r \in 0 .. Cardinality(S) - 1 : \E i \in S : SmallerIn(S, i) = r
<1> DEFINE Below(i) == {x \in S : x < i}
           c == Cardinality(S)
<1>1. \A i \in S : /\ IsFiniteSet(Below(i)) /\ Cardinality(Below(i)) \in Nat
                   /\ IsFiniteSet(Below(i) \cup {i})
                   /\ Cardinality(Below(i) \cup {i}) = Cardinality(Below(i)) + 1
  <2> TAKE i \in S
  <2>1. Below(i) \in SUBSET S /\ i \notin Below(i)
    OBVIOUS
  <2> HIDE DEF Below
  <2>2. IsFiniteSet(Below(i)) /\ Cardinality(Below(i)) \in Nat
    BY <2>1, FS_Subset, FS_CardinalityType
  <2>3. QED
    BY <2>1, <2>2, FS_AddElement
<1>2. c \in Nat
  BY FS_CardinalityType
<1>3. \A i \in S : SmallerIn(S, i) = Cardinality(Below(i))
  BY DEF SmallerIn
<1>4. \A i \in S : SmallerIn(S, i) \in 0 .. c - 1
  <2> TAKE i \in S
  <2>1. Below(i) \cup {i} \in SUBSET S
    OBVIOUS
  <2> HIDE DEF Below
  <2>2. Cardinality(Below(i) \cup {i}) <= c
    BY <2>1, FS_Subset
  <2>3. QED
    BY <2>2, <1>1, <1>2, <1>3
<1>5. \A i, j \in S : i < j => SmallerIn(S, i) < SmallerIn(S, j)
  <2> SUFFICES ASSUME NEW i \in S, NEW j \in S, i < j PROVE SmallerIn(S, i) < SmallerIn(S, j)
    OBVIOUS
  <2>1. Below(i) \cup {i} \in SUBSET Below(j)
    <3>1. \A x \in S : x \in Int
      OBVIOUS
    <3>2. \A x \in S : x < i \/ x = i => x < j
      BY <3>1
    <3>3. QED
      BY <3>2
  <2> HIDE DEF Below
  <2>2. Cardinality(Below(i) \cup {i}) <= Cardinality(Below(j))
    BY <2>1, <1>1, FS_Subset
  <2>3. /\ Cardinality(Below(i) \cup {i}) = Cardinality(Below(i)) + 1
        /\ Cardinality(Below(i)) \in Nat /\ Cardinality(Below(j)) \in Nat
    BY <1>1
  <2>4. SmallerIn(S, i) = Cardinality(Below(i)) /\ SmallerIn(S, j) = Cardinality(Below(j))
    BY <1>3
  <2>5. QED
    BY <2>2, <2>3, <2>4
<1> DEFINE f == [i \in S |-> SmallerIn(S, i)]
<1>6. f \in Injection(S, 0 .. c - 1)
  <2>1. f \in [S -> 0 .. c - 1]
    BY <1>4
  <2>2. \A i, j \in S : f[i] = f[j] => i = j
    <3> SUFFICES ASSUME NEW i \in S, NEW j \in S, SmallerIn(S, i) = SmallerIn(S, j), i # j PROVE FALSE
      OBVIOUS
    <3>1. SmallerIn(S, i) \in Int /\ (i < j \/ j < i)
      BY <1>2, <1>4
    <3>2. QED
      BY <3>1, <1>5
  <2> HIDE DEF f
  <2>3. QED
    BY <2>1, <2>2, Fun_IsInj
<1>7. IsFiniteSet(0 .. c - 1) /\ Cardinality(0 .. c - 1) = c
  <2>1. 0 \in Int /\ c - 1 \in Int /\ (IF 0 > c - 1 THEN 0 ELSE c - 1 - 0 + 1) = c
    BY <1>2
  <2>2. QED
    BY <2>1, FS_Interval
<1>8. f \in Surjection(S, 0 .. c - 1)
  <2> HIDE DEF f
  <2>1. QED
    BY <1>6, <1>7, FS_Injection
<1>9. \A r \in 0 .. c - 1 : \E i \in S : f[i] = r
  <2> HIDE DEF f
  <2>1. QED
    BY <1>8 DEF Surjection
<1>10. QED
  BY <1>4, <1>5, <1>9

-----------------------------------------------------------------------------
(* The sum of f over a finite set, as the folds of the library compute it:   *)
(* one member after the other, in an order that is not known.                *)
Pick(s) == CHOOSE x \in s : TRUE
SumStep(f, s, sum) == IF s = {} THEN 0 ELSE f[Pick(s)] + sum[s \ {Pick(s)}]
IsSum(f, S, sum) == sum = [s \in SUBSET S |-> SumStep(f, s, sum)]
SumOver(f, S) == (CHOOSE sum : IsSum(f, S, sum))[S]

(* A nonempty finite set has one member more than without the one picked.    *)
LEMMA Picked ==
  ASSUME NEW s, IsFiniteSet(s), s # {}
  PROVE  /\ Pick(s) \in s /\ IsFiniteSet(s \ {Pick(s)})
         /\ Cardinality(s) \in Nat /\ Cardinality(s \ {Pick(s)}) = Cardinality(s) - 1
<1>1. Pick(s) \in s
  BY DEF Pick
<1>2. QED
  BY <1>1, FS_RemoveElement, FS_CardinalityType

(* The recursion defines a function.                                         *)
LEMMA SumExists ==
  ASSUME NEW S, IsFiniteSet(S), NEW f
  PROVE  \E sum : IsSum(f, S, sum)
<1> DEFINE Upto(g, m) == /\ g = [s \in SUBSET S |-> g[s]]
                         /\ \A s \in SUBSET S : Cardinality(s) <= m => g[s] = SumStep(f, s, g)
           T == {m \in Nat : \E g : Upto(g, m)}
<1>1. \A s \in SUBSET S : IsFiniteSet(s) /\ Cardinality(s) \in Nat /\ (s = {} <=> Cardinality(s) = 0)
  BY FS_Subset, FS_CardinalityType, FS_EmptySet
<1>2. 0 \in T
  <2> DEFINE g == [s \in SUBSET S |-> 0]
  <2>1. Upto(g, 0)
    BY <1>1 DEF SumStep
  <2> HIDE DEF Upto
  <2>2. QED
    BY <2>1
<1>3. ASSUME NEW m \in Nat, m \in T PROVE m + 1 \in T
  <2>1. PICK g : Upto(g, m)
    BY <1>3
  <2> DEFINE h == [s \in SUBSET S |-> IF Cardinality(s) <= m THEN g[s] ELSE SumStep(f, s, g)]
  <2>2. ASSUME NEW s \in SUBSET S, Cardinality(s) <= m + 1 PROVE h[s] = SumStep(f, s, h)
    <3>1. h[s] = SumStep(f, s, g)
      BY <2>1
    <3>2. CASE s = {}
      BY <3>1, <3>2 DEF SumStep
    <3>3. CASE s # {}
      <4>1. s \ {Pick(s)} \in SUBSET S /\ Cardinality(s \ {Pick(s)}) <= m
        BY <1>1, <2>2, <3>3, Picked
      <4>2. h[s \ {Pick(s)}] = g[s \ {Pick(s)}]
        BY <4>1
      <4> HIDE DEF h
      <4>3. QED
        BY <3>1, <3>3, <4>2 DEF SumStep
    <3>4. QED
      BY <3>2, <3>3
  <2>3. Upto(h, m + 1)
    <3>1. h = [s \in SUBSET S |-> h[s]]
      OBVIOUS
    <3> HIDE DEF h
    <3>2. QED
      BY <2>2, <3>1
  <2> HIDE DEF Upto
  <2>4. QED
    BY <2>3
<1>4. Nat \subseteq T
  <2> HIDE DEF T
  <2>1. QED
    BY <1>2, <1>3, SetInduction
<1>5. PICK g : Upto(g, Cardinality(S))
  <2> HIDE DEF Upto
  <2>1. QED
    BY <1>1, <1>4
<1>6. \A s \in SUBSET S : Cardinality(s) <= Cardinality(S)
  BY FS_Subset
<1>7. IsSum(f, S, g)
  BY <1>5, <1>6 DEF IsSum
<1>8. QED
  BY <1>7

(* Whatever member is left out, the sum is less by what it stands for.       *)
LEMMA SumWithout ==
  ASSUME NEW S, IsFiniteSet(S), NEW f, \A x \in S : f[x] \in Int,
         NEW sum, IsSum(f, S, sum)
  PROVE  /\ sum[{}] = 0
         /\ \A s \in SUBSET S : sum[s] \in Int /\ \A x \in s : sum[s] = sum[s \ {x}] + f[x]
<1> DEFINE Good(s) == \A x \in s : sum[s] = sum[s \ {x}] + f[x]
           T == {m \in Nat : \A s \in SUBSET S : Cardinality(s) = m => Good(s)}
           U == {m \in Nat : \A s \in SUBSET S : Cardinality(s) = m => sum[s] \in Int}
<1>1. \A s \in SUBSET S : sum[s] = SumStep(f, s, sum)
  BY DEF IsSum
<1>2. \A s \in SUBSET S : IsFiniteSet(s) /\ Cardinality(s) \in Nat /\ (s = {} <=> Cardinality(s) = 0)
  BY FS_Subset, FS_CardinalityType, FS_EmptySet
<1>3. sum[{}] = 0
  BY <1>1 DEF SumStep
<1>4. ASSUME NEW m \in Nat, NEW s \in SUBSET S, Cardinality(s) = m + 1
      PROVE  /\ Pick(s) \in s /\ s \ {Pick(s)} \in SUBSET S /\ Cardinality(s \ {Pick(s)}) = m
             /\ sum[s] = f[Pick(s)] + sum[s \ {Pick(s)}]
  <2>1. s # {} /\ IsFiniteSet(s)
    BY <1>2, <1>4
  <2>2. Pick(s) \in s /\ s \ {Pick(s)} \in SUBSET S /\ Cardinality(s \ {Pick(s)}) = m
    BY <1>4, <2>1, Picked
  <2>3. QED
    BY <1>1, <2>1, <2>2 DEF SumStep
<1>5. \A s \in SUBSET S : sum[s] \in Int
  <2>1. 0 \in U
    BY <1>2, <1>3
  <2>2. ASSUME NEW m \in Nat, m \in U PROVE m + 1 \in U
    <3> SUFFICES ASSUME NEW s \in SUBSET S, Cardinality(s) = m + 1 PROVE sum[s] \in Int
      OBVIOUS
    <3>1. sum[s \ {Pick(s)}] \in Int /\ f[Pick(s)] \in Int /\ sum[s] = f[Pick(s)] + sum[s \ {Pick(s)}]
      BY <1>4, <2>2
    <3>2. QED
      BY <3>1
  <2>3. Nat \subseteq U
    <3> HIDE DEF U
    <3>1. QED
      BY <2>1, <2>2, SetInduction
  <2>4. QED
    BY <1>2, <2>3
<1>6. 0 \in T
  BY <1>2
<1>7. ASSUME NEW m \in Nat, m \in T PROVE m + 1 \in T
  <2> SUFFICES ASSUME NEW s \in SUBSET S, Cardinality(s) = m + 1, NEW x \in s
               PROVE  sum[s] = sum[s \ {x}] + f[x]
    OBVIOUS
  <2> DEFINE p == Pick(s)
  <2>1. p \in s /\ s \ {p} \in SUBSET S /\ Cardinality(s \ {p}) = m /\ sum[s] = f[p] + sum[s \ {p}]
    BY <1>4
  <2> HIDE DEF p
  <2>2. Good(s \ {p}) /\ sum[s \ {p}] \in Int /\ f[p] \in Int
    BY <1>5, <1>7, <2>1
  <2>3. CASE x = p
    BY <2>1, <2>2, <2>3
  <2>4. CASE x # p
    <3> DEFINE both == (s \ {p}) \ {x}
    <3>1. x \in s \ {p} /\ p \in s \ {x} /\ both = (s \ {x}) \ {p} /\ s \ {x} \in SUBSET S
      BY <2>1, <2>4
    <3>2. Cardinality(s \ {x}) = m
      <4>1. IsFiniteSet(s) /\ x \in s
        BY <1>2
      <4>2. Cardinality(s \ {x}) = Cardinality(s) - 1
        BY <4>1, FS_RemoveElement
      <4>3. QED
        BY <4>2
    <3>3. sum[s \ {p}] = sum[both] + f[x]
      BY <2>2, <3>1
    <3>4. sum[s \ {x}] = sum[both] + f[p]
      BY <1>7, <3>1, <3>2
    <3>5. sum[both] \in Int /\ f[x] \in Int
      BY <1>5
    <3> HIDE DEF both
    <3>6. QED
      BY <2>1, <2>2, <3>3, <3>4, <3>5
  <2>5. QED
    BY <2>3, <2>4
<1>8. Nat \subseteq T
  <2> HIDE DEF T
  <2>1. QED
    BY <1>6, <1>7, SetInduction
<1>9. QED
  BY <1>2, <1>3, <1>5, <1>8

(* The sum over nothing, and over one member more.                           *)
LEMMA SumAdd ==
  ASSUME NEW S, IsFiniteSet(S), NEW f, \A x \in S : f[x] \in Int
  PROVE  /\ S = {} => SumOver(f, S) = 0
         /\ SumOver(f, S) \in Int
         /\ \A x \in S : SumOver(f, S) = SumOver(f, S \ {x}) + f[x]
<1> DEFINE sum == CHOOSE g : IsSum(f, S, g)
<1>1. IsSum(f, S, sum) /\ SumOver(f, S) = sum[S]
  BY SumExists DEF SumOver
<1> HIDE DEF sum
<1>2. /\ sum[{}] = 0
      /\ \A s \in SUBSET S : sum[s] \in Int /\ \A x \in s : sum[s] = sum[s \ {x}] + f[x]
  BY <1>1, SumWithout
<1>3. ASSUME NEW x \in S PROVE SumOver(f, S \ {x}) = sum[S \ {x}]
  <2> DEFINE R == S \ {x}
             rest == CHOOSE g : IsSum(f, R, g)
             T == {m \in Nat : \A s \in SUBSET R : Cardinality(s) = m => rest[s] = sum[s]}
  <2>1. IsFiniteSet(R) /\ R \in SUBSET S
    BY FS_Subset
  <2> HIDE DEF R
  <2>2. IsSum(f, R, rest) /\ SumOver(f, R) = rest[R]
    BY <2>1, SumExists DEF SumOver
  <2> HIDE DEF rest
  <2>3. /\ \A s \in SUBSET R : rest[s] = SumStep(f, s, rest)
        /\ \A s \in SUBSET R : sum[s] = SumStep(f, s, sum)
    BY <1>1, <2>1, <2>2 DEF IsSum
  <2>4. \A s \in SUBSET R : IsFiniteSet(s) /\ Cardinality(s) \in Nat /\ (s = {} <=> Cardinality(s) = 0)
    BY <2>1, FS_Subset, FS_CardinalityType, FS_EmptySet
  <2>5. 0 \in T
    BY <2>3, <2>4 DEF SumStep
  <2>6. ASSUME NEW m \in Nat, m \in T PROVE m + 1 \in T
    <3> SUFFICES ASSUME NEW s \in SUBSET R, Cardinality(s) = m + 1 PROVE rest[s] = sum[s]
      OBVIOUS
    <3>1. s # {} /\ IsFiniteSet(s)
      BY <2>4
    <3>2. s \ {Pick(s)} \in SUBSET R /\ Cardinality(s \ {Pick(s)}) = m
      BY <3>1, Picked
    <3>3. rest[s \ {Pick(s)}] = sum[s \ {Pick(s)}]
      BY <2>6, <3>2
    <3>4. QED
      BY <2>3, <3>1, <3>3 DEF SumStep
  <2>7. Nat \subseteq T
    <3> HIDE DEF T
    <3>1. QED
      BY <2>5, <2>6, SetInduction
  <2>8. rest[R] = sum[R]
    BY <2>4, <2>7
  <2>9. QED
    BY <2>2, <2>8 DEF R
<1>4. QED
  BY <1>1, <1>2, <1>3

(* Equal summands, equal sums.                                               *)
LEMMA SumSame ==
  ASSUME NEW S, IsFiniteSet(S), NEW f, NEW g, \A x \in S : f[x] = g[x]
  PROVE  SumOver(f, S) = SumOver(g, S)
<1>1. ASSUME NEW s \in SUBSET S, NEW sum PROVE SumStep(f, s, sum) = SumStep(g, s, sum)
  <2>1. s # {} => Pick(s) \in S
    BY FS_Subset, Picked
  <2>2. QED
    BY <2>1 DEF SumStep
<1>2. ASSUME NEW sum PROVE IsSum(f, S, sum) <=> IsSum(g, S, sum)
  <2>1. [s \in SUBSET S |-> SumStep(f, s, sum)] = [s \in SUBSET S |-> SumStep(g, s, sum)]
    BY <1>1
  <2>2. QED
    BY <2>1 DEF IsSum
<1>3. (CHOOSE sum : IsSum(f, S, sum)) = (CHOOSE sum : IsSum(g, S, sum))
  BY <1>2
<1>4. QED
  BY <1>3 DEF SumOver

(* One summand more.                                                         *)
LEMMA SumUpdate ==
  ASSUME NEW S, IsFiniteSet(S), NEW f, \A x \in S : f[x] \in Int,
         NEW g, NEW x \in S, NEW d \in Int,
         g[x] = f[x] + d, \A y \in S : y # x => g[y] = f[y]
  PROVE  SumOver(g, S) = SumOver(f, S) + d
<1>1. IsFiniteSet(S \ {x}) /\ \A y \in S : g[y] \in Int
  BY FS_Subset
<1>2. SumOver(f, S \ {x}) = SumOver(g, S \ {x})
  BY <1>1, SumSame
<1>3. SumOver(f, S \ {x}) \in Int
  BY <1>1, SumAdd
<1>4. SumOver(f, S) = SumOver(f, S \ {x}) + f[x] /\ SumOver(g, S) = SumOver(g, S \ {x}) + g[x]
  BY <1>1, SumAdd
<1>5. QED
  BY <1>2, <1>3, <1>4

(* A set of subsets of S that holds the empty one, and a subset whenever it  *)
(* holds it without a member, holds them all.                                *)
LEMMA SubsetInduction ==
  ASSUME NEW S, IsFiniteSet(S), NEW T, {} \in T,
         \A s \in SUBSET S : \A x \in s : s \ {x} \in T => s \in T
  PROVE  \A s \in SUBSET S : s \in T
<1> DEFINE U == {m \in Nat : \A s \in SUBSET S : Cardinality(s) = m => s \in T}
<1>1. \A s \in SUBSET S : IsFiniteSet(s) /\ Cardinality(s) \in Nat /\ (s = {} <=> Cardinality(s) = 0)
  BY FS_Subset, FS_CardinalityType, FS_EmptySet
<1>2. 0 \in U
  BY <1>1
<1>3. ASSUME NEW m \in Nat, m \in U PROVE m + 1 \in U
  <2> SUFFICES ASSUME NEW s \in SUBSET S, Cardinality(s) = m + 1 PROVE s \in T
    OBVIOUS
  <2>1. s # {} /\ IsFiniteSet(s)
    BY <1>1
  <2>2. Pick(s) \in s /\ s \ {Pick(s)} \in SUBSET S /\ Cardinality(s \ {Pick(s)}) = m
    <3>1. Pick(s) \in s /\ Cardinality(s \ {Pick(s)}) = Cardinality(s) - 1
      BY <2>1, Picked
    <3>2. QED
      BY <3>1
  <2>3. QED
    BY <1>3, <2>2
<1>4. Nat \subseteq U
  <2> HIDE DEF U
  <2>1. QED
    BY <1>2, <1>3, SetInduction
<1>5. QED
  BY <1>1, <1>4

(* A nonempty finite set of integers has a greatest element.                 *)
LEMMA GreatestElement ==
  ASSUME NEW S \in SUBSET Int, S # {}, IsFiniteSet(S)
  PROVE  \E m \in S : \A n \in S : m >= n
<1> DEFINE T == {s \in SUBSET S : s # {} => \E m \in s : \A n \in s : m >= n}
<1>1. {} \in T
  OBVIOUS
<1>2. ASSUME NEW s \in SUBSET S, NEW x \in s, s \ {x} \in T PROVE s \in T
  <2>1. CASE s \ {x} = {}
    <3>1. s = {x} /\ x \in Int
      BY <2>1
    <3>2. QED
      BY <3>1
  <2>2. CASE s \ {x} # {}
    <3>1. PICK m \in s \ {x} : \A n \in s \ {x} : m >= n
      BY <1>2, <2>2
    <3>2. m \in Int /\ x \in Int /\ \A n \in s : n \in Int
      OBVIOUS
    <3>3. CASE m >= x
      BY <3>1, <3>3
    <3>4. CASE ~ (m >= x)
      BY <3>1, <3>2, <3>4
    <3>5. QED
      BY <3>3, <3>4
  <2>3. QED
    BY <2>1, <2>2
<1> HIDE DEF T
<1>3. \A s \in SUBSET S : \A x \in s : s \ {x} \in T => s \in T
  BY <1>2
<1>4. \A s \in SUBSET S : s \in T
  BY <1>1, <1>3, SubsetInduction
<1>5. QED
  BY <1>4 DEF T

(* A sum of zeros is zero.                                                   *)
LEMMA SumOfZeros ==
  ASSUME NEW S, IsFiniteSet(S), NEW f, \A x \in S : f[x] = 0
  PROVE  SumOver(f, S) = 0
<1> DEFINE T == {s \in SUBSET S : SumOver(f, s) = 0}
<1>1. \A s \in SUBSET S : IsFiniteSet(s) /\ \A x \in s : f[x] \in Int
  BY FS_Subset
<1>2. {} \in T
  <2>1. SumOver(f, {}) = 0
    BY <1>1, SumAdd
  <2>2. QED
    BY <2>1
<1>3. ASSUME NEW s \in SUBSET S, NEW x \in s, s \ {x} \in T PROVE s \in T
  <2>1. SumOver(f, s) = SumOver(f, s \ {x}) + f[x]
    BY <1>1, SumAdd
  <2>2. f[x] = 0 /\ SumOver(f, s \ {x}) = 0
    BY <1>3
  <2>3. SumOver(f, s) = 0
    BY <2>1, <2>2
  <2>4. QED
    BY <2>3
<1>4. S \in T
  <2> HIDE DEF T
  <2>1. \A s \in SUBSET S : \A x \in s : s \ {x} \in T => s \in T
    BY <1>3
  <2>2. \A s \in SUBSET S : s \in T
    BY <1>2, <2>1, SubsetInduction
  <2>3. QED
    BY <2>2
<1>5. QED
  BY <1>4

(* A sum of natural numbers is one.                                          *)
LEMMA SumIsNatural ==
  ASSUME NEW S, IsFiniteSet(S), NEW f, \A x \in S : f[x] \in Nat
  PROVE  SumOver(f, S) \in Nat
<1> DEFINE T == {s \in SUBSET S : SumOver(f, s) \in Nat}
<1>1. \A s \in SUBSET S : IsFiniteSet(s) /\ \A x \in s : f[x] \in Int
  BY FS_Subset
<1>2. {} \in T
  <2>1. SumOver(f, {}) = 0
    BY <1>1, SumAdd
  <2>2. QED
    BY <2>1
<1>3. ASSUME NEW s \in SUBSET S, NEW x \in s, s \ {x} \in T PROVE s \in T
  <2>1. SumOver(f, s) = SumOver(f, s \ {x}) + f[x]
    BY <1>1, SumAdd
  <2>2. f[x] \in Nat /\ SumOver(f, s \ {x}) \in Nat
    BY <1>3
  <2>3. SumOver(f, s) \in Nat
    BY <2>1, <2>2
  <2>4. QED
    BY <2>3
<1>4. S \in T
  <2> HIDE DEF T
  <2>1. \A s \in SUBSET S : \A x \in s : s \ {x} \in T => s \in T
    BY <1>3
  <2>2. \A s \in SUBSET S : s \in T
    BY <1>2, <2>1, SubsetInduction
  <2>3. QED
    BY <2>2
<1>5. QED
  BY <1>4

(* The sum over two sets that share nothing.                                 *)
LEMMA SumUnion ==
  ASSUME NEW A, NEW B, IsFiniteSet(A), IsFiniteSet(B), A \cap B = {},
         NEW f, \A x \in A \cup B : f[x] \in Int
  PROVE  SumOver(f, A \cup B) = SumOver(f, A) + SumOver(f, B)
<1> DEFINE T == {s \in SUBSET B : SumOver(f, A \cup s) = SumOver(f, A) + SumOver(f, s)}
<1>1. ASSUME NEW s \in SUBSET B
      PROVE  IsFiniteSet(s) /\ IsFiniteSet(A \cup s) /\ SumOver(f, s) \in Int /\ SumOver(f, A) \in Int
  <2>1. IsFiniteSet(s) /\ IsFiniteSet(A \cup s)
    BY FS_Subset, FS_Union
  <2>2. QED
    BY <2>1, SumAdd
<1>2. {} \in T
  <2>1. SumOver(f, {}) = 0 /\ SumOver(f, A) \in Int /\ A \cup {} = A
    BY <1>1, SumAdd
  <2>2. QED
    BY <2>1
<1>3. ASSUME NEW s \in SUBSET B, NEW x \in s, s \ {x} \in T PROVE s \in T
  <2>1. SumOver(f, s) = SumOver(f, s \ {x}) + f[x] /\ f[x] \in Int
    BY <1>1, SumAdd
  <2>2. SumOver(f, A \cup s) = SumOver(f, (A \cup s) \ {x}) + f[x]
    BY <1>1, SumAdd
  <2>3. (A \cup s) \ {x} = A \cup (s \ {x})
    OBVIOUS
  <2>4. SumOver(f, s \ {x}) \in Int /\ SumOver(f, A) \in Int
    BY <1>1
  <2>5. SumOver(f, A \cup (s \ {x})) = SumOver(f, A) + SumOver(f, s \ {x})
    BY <1>3
  <2>6. SumOver(f, A \cup s) = SumOver(f, A) + SumOver(f, s)
    <3>1. SumOver(f, A \cup s) = SumOver(f, A \cup (s \ {x})) + f[x]
      BY <2>2, <2>3
    <3>2. \A a, b, c \in Int : (a + b) + c = a + (b + c)
      OBVIOUS
    <3>3. QED
      BY <2>1, <2>4, <2>5, <3>1, <3>2
  <2>7. QED
    BY <2>6
<1>4. B \in T
  <2> HIDE DEF T
  <2>1. \A s \in SUBSET B : \A x \in s : s \ {x} \in T => s \in T
    BY <1>3
  <2>2. \A s \in SUBSET B : s \in T
    BY <1>2, <2>1, SubsetInduction
  <2>3. QED
    BY <2>2
<1>5. QED
  BY <1>4

(* A sum is no smaller over more natural numbers.                            *)
LEMMA SumOfSubset ==
  ASSUME NEW B, IsFiniteSet(B), NEW A \in SUBSET B, NEW f, \A x \in B : f[x] \in Nat
  PROVE  SumOver(f, A) <= SumOver(f, B)
<1>1. IsFiniteSet(A) /\ IsFiniteSet(B \ A)
  BY FS_Subset
<1>2. SumOver(f, A \cup (B \ A)) = SumOver(f, A) + SumOver(f, B \ A)
  BY <1>1, SumUnion
<1>3. SumOver(f, A) \in Nat /\ SumOver(f, B \ A) \in Nat
  BY <1>1, SumIsNatural
<1>4. A \cup (B \ A) = B
  OBVIOUS
<1>5. SumOver(f, A) + SumOver(f, B \ A) = SumOver(f, B)
  BY <1>2, <1>4
<1>6. QED
  BY <1>3, <1>5

(* Nor with larger summands.                                                 *)
LEMMA SumBelow ==
  ASSUME NEW S, IsFiniteSet(S), NEW f, NEW g,
         \A x \in S : f[x] \in Int /\ g[x] \in Int /\ f[x] <= g[x]
  PROVE  SumOver(f, S) <= SumOver(g, S)
<1> DEFINE T == {s \in SUBSET S : SumOver(f, s) <= SumOver(g, s)}
<1>1. ASSUME NEW s \in SUBSET S
      PROVE  IsFiniteSet(s) /\ SumOver(f, s) \in Int /\ SumOver(g, s) \in Int
  <2>1. IsFiniteSet(s)
    BY FS_Subset
  <2>2. QED
    BY <2>1, SumAdd
<1>2. {} \in T
  <2>1. SumOver(f, {}) = 0 /\ SumOver(g, {}) = 0
    BY <1>1, SumAdd
  <2>2. QED
    BY <2>1
<1>3. ASSUME NEW s \in SUBSET S, NEW x \in s, s \ {x} \in T PROVE s \in T
  <2>1. SumOver(f, s) = SumOver(f, s \ {x}) + f[x] /\ SumOver(g, s) = SumOver(g, s \ {x}) + g[x]
    BY <1>1, SumAdd
  <2>2. SumOver(f, s \ {x}) \in Int /\ SumOver(g, s \ {x}) \in Int
    BY <1>1
  <2>3. f[x] \in Int /\ g[x] \in Int /\ f[x] <= g[x]
    OBVIOUS
  <2>4. QED
    BY <1>3, <2>1, <2>2, <2>3
<1>4. S \in T
  <2> HIDE DEF T
  <2>1. \A s \in SUBSET S : \A x \in s : s \ {x} \in T => s \in T
    BY <1>3
  <2>2. \A s \in SUBSET S : s \in T
    BY <1>2, <2>1, SubsetInduction
  <2>3. QED
    BY <2>2
<1>5. QED
  BY <1>4

(* Summands no larger whose sum is no smaller are the same.                  *)
LEMMA SumTight ==
  ASSUME NEW S, IsFiniteSet(S), NEW f, NEW g,
         \A x \in S : f[x] \in Int /\ g[x] \in Int /\ f[x] <= g[x],
         SumOver(g, S) <= SumOver(f, S)
  PROVE  \A x \in S : f[x] = g[x]
<1> TAKE x \in S
<1>1. IsFiniteSet(S \ {x})
  BY FS_Subset
<1>2. SumOver(f, S \ {x}) <= SumOver(g, S \ {x})
  BY <1>1, SumBelow
<1>3. SumOver(f, S) = SumOver(f, S \ {x}) + f[x] /\ SumOver(g, S) = SumOver(g, S \ {x}) + g[x]
  BY SumAdd
<1>4. SumOver(f, S \ {x}) \in Int /\ SumOver(g, S \ {x}) \in Int
  BY <1>1, SumAdd
<1>5. QED
  BY <1>2, <1>3, <1>4

(* A sum over the values of a function that never repeats one.               *)
LEMMA SumOfValues ==
  ASSUME NEW S, IsFiniteSet(S), NEW h, \A x, y \in S : h[x] = h[y] => x = y,
         NEW f, NEW g, \A x \in S : g[x] \in Int /\ f[h[x]] = g[x]
  PROVE  SumOver(f, {h[x] : x \in S}) = SumOver(g, S)
<1> DEFINE V(s) == {h[x] : x \in s}
           T == {s \in SUBSET S : SumOver(f, V(s)) = SumOver(g, s)}
<1>1. \A s \in SUBSET S : IsFiniteSet(s) /\ IsFiniteSet(V(s)) /\ \A v \in V(s) : f[v] \in Int
  <2> TAKE s \in SUBSET S
  <2>1. IsFiniteSet(s)
    BY FS_Subset
  <2>2. IsFiniteSet(V(s))
    <3> DEFINE k == [x \in s |-> h[x]]
    <3>1. k \in Surjection(s, V(s))
      BY DEF Surjection
    <3>2. QED
      BY <2>1, <3>1, FS_Surjection
  <2>3. QED
    BY <2>1, <2>2
<1>2. {} \in T
  <2>1. V({}) = {}
    OBVIOUS
  <2>2. SumOver(f, {}) = 0 /\ SumOver(g, {}) = 0
    BY <1>1, SumAdd
  <2>3. QED
    BY <2>1, <2>2
<1>3. ASSUME NEW s \in SUBSET S, NEW x \in s, s \ {x} \in T PROVE s \in T
  <2>1. h[x] \in V(s) /\ V(s) \ {h[x]} = V(s \ {x})
    OBVIOUS
  <2>2. f[h[x]] = g[x]
    OBVIOUS
  <2>3. SumOver(f, V(s \ {x})) = SumOver(g, s \ {x})
    BY <1>3
  <2>4. IsFiniteSet(s) /\ IsFiniteSet(V(s)) /\ (\A v \in V(s) : f[v] \in Int) /\ \A y \in s : g[y] \in Int
    BY <1>1
  <2> HIDE DEF V
  <2>5. SumOver(f, V(s)) = SumOver(f, V(s) \ {h[x]}) + f[h[x]]
    <3>1. \A y \in V(s) : SumOver(f, V(s)) = SumOver(f, V(s) \ {y}) + f[y]
      BY <2>4, SumAdd
    <3>2. h[x] \in V(s)
      BY <2>1
    <3>3. QED
      BY <3>1, <3>2
  <2>6. SumOver(g, s) = SumOver(g, s \ {x}) + g[x]
    BY <2>4, SumAdd
  <2>7. QED
    BY <2>1, <2>2, <2>3, <2>5, <2>6
<1>4. S \in T
  <2> HIDE DEF T
  <2>1. \A s \in SUBSET S : \A x \in s : s \ {x} \in T => s \in T
    BY <1>3
  <2>2. \A s \in SUBSET S : s \in T
    BY <1>2, <2>1, SubsetInduction
  <2>3. QED
    BY <2>2
<1>5. QED
  BY <1>4

(* A sum over n layers that weigh the same.                                  *)
Layered(f, n, g, S) == \A s \in S : g[s] \in Int /\ \A l \in 1 .. n : f[<<l, s>>] = g[s]

LEMMA SumOfLayers ==
  ASSUME NEW S, IsFiniteSet(S), NEW n \in Nat, NEW f, NEW g, Layered(f, n, g, S)
  PROVE  IsFiniteSet((1 .. n) \X S) /\ SumOver(f, (1 .. n) \X S) = n * SumOver(g, S)
<1> DEFINE Good(m) == m <= n => /\ IsFiniteSet((1 .. m) \X S)
                                /\ SumOver(f, (1 .. m) \X S) = m * SumOver(g, S)
           T == {m \in Nat : Good(m)}
<1>0. \A s \in S : g[s] \in Int /\ \A l \in 1 .. n : f[<<l, s>>] = g[s]
  BY DEF Layered
<1>1. Good(0)
  <2>1. (1 .. 0) \X S = {}
    OBVIOUS
  <2>2. IsFiniteSet({}) /\ SumOver(f, {}) = 0
    BY FS_EmptySet, SumAdd
  <2>3. 0 * SumOver(g, S) = 0
    <3>1. SumOver(g, S) \in Int
      BY <1>0, SumAdd
    <3>2. QED
      BY <3>1
  <2>4. QED
    BY <2>1, <2>2, <2>3
<1>2. ASSUME NEW m \in Nat, Good(m) PROVE Good(m + 1)
  <2> SUFFICES ASSUME m + 1 <= n
               PROVE  /\ IsFiniteSet((1 .. m + 1) \X S)
                      /\ SumOver(f, (1 .. m + 1) \X S) = (m + 1) * SumOver(g, S)
    OBVIOUS
  <2> DEFINE A == (1 .. m) \X S
             h == [s \in S |-> <<m + 1, s>>]
             B == {h[s] : s \in S}
  <2>1. /\ IsFiniteSet(A) /\ SumOver(f, A) = m * SumOver(g, S)
        /\ m + 1 \in 1 .. n /\ \A l \in 1 .. m : l \in 1 .. n /\ l # m + 1
    BY <1>2
  <2>2. (1 .. m + 1) \X S = A \cup B /\ A \cap B = {}
    <3>1. 1 .. m + 1 = (1 .. m) \cup {m + 1}
      OBVIOUS
    <3>2. B = {m + 1} \X S
      OBVIOUS
    <3>3. ((1 .. m) \cup {m + 1}) \X S = A \cup ({m + 1} \X S)
      OBVIOUS
    <3>4. A \cap ({m + 1} \X S) = {}
      BY <2>1
    <3>5. QED
      BY <3>1, <3>2, <3>3, <3>4
  <2>3. \A s \in S : g[s] \in Int /\ f[h[s]] = g[s]
    BY <1>0, <2>1
  <2>4. \A s, t \in S : h[s] = h[t] => s = t
    OBVIOUS
  <2>5. \A x \in A \cup B : f[x] \in Int
    BY <1>0, <2>1
  <2>6. IsFiniteSet(B)
    <3>1. h \in Surjection(S, B)
      BY DEF Surjection
    <3>2. QED
      BY <3>1, FS_Surjection
  <2> HIDE DEF A, h
  <2>7. SumOver(f, B) = SumOver(g, S)
    BY <2>3, <2>4, SumOfValues
  <2> HIDE DEF B
  <2>8. SumOver(f, A \cup B) = SumOver(f, A) + SumOver(f, B) /\ IsFiniteSet(A \cup B)
    BY <2>1, <2>2, <2>5, <2>6, SumUnion, FS_Union
  <2>9. SumOver(g, S) \in Int
    BY <2>3, SumAdd
  <2>10. \A c \in Int : m * c + c = (m + 1) * c
    OBVIOUS
  <2>11. QED
    BY <2>1, <2>2, <2>7, <2>8, <2>9, <2>10
<1>3. Nat \subseteq T
  <2> HIDE DEF Good
  <2>1. 0 \in T /\ \A m \in Nat : m \in T => m + 1 \in T
    BY <1>1, <1>2
  <2> HIDE DEF T
  <2>2. QED
    BY <2>1, SetInduction
<1>4. QED
  BY <1>3

-----------------------------------------------------------------------------
(* Rows of w places, one behind the other: they stay within the span, and    *)
(* division finds the row and the place in it again.                         *)
LEMMA WithinSpan ==
  ASSUME NEW n \in Nat, NEW w \in Nat \ {0}, NEW r \in 0 .. n - 1, NEW j \in 0 .. w - 1
  PROVE  r * w + j \in 0 .. n * w - 1
<1> DEFINE d == n - (r + 1)
<1>1. d \in Nat /\ n = (r + 1) + d /\ r \in Nat /\ j \in Nat
  OBVIOUS
<1>2. d * w \in Nat /\ r * w \in Nat
  BY <1>1
<1>3. n * w = (r * w + w) + d * w
  BY <1>1
<1> HIDE DEF d
<1>4. QED
  BY <1>1, <1>2, <1>3

LEMMA RowOf ==
  ASSUME NEW w \in Nat \ {0}, NEW r \in Nat, NEW j \in 0 .. w - 1
  PROVE  (r * w + j) \div w = r /\ (r * w + j) % w = j
OBVIOUS

(* A function on 1 .. n is a sequence; what two sequences make together.     *)
LEMMA Tabulated ==
  ASSUME NEW S, NEW n \in Nat, NEW f \in [1 .. n -> S]
  PROVE  f \in Seq(S) /\ Len(f) = n
OBVIOUS

LEMMA Together ==
  ASSUME NEW S, NEW s \in Seq(S), NEW t \in Seq(S)
  PROVE  /\ s \o t \in Seq(S) /\ Len(s \o t) = Len(s) + Len(t)
         /\ \A k \in 1 .. Len(s) + Len(t) : (s \o t)[k] = IF k <= Len(s) THEN s[k] ELSE t[k - Len(s)]
OBVIOUS

(* Sequences joined one after the other, as FlattenSeq does it: the recursion *)
(* defines a function, whose values are the joins so far.                    *)
Joins(seqs, n, f) == f = [k \in 1 .. n |-> IF k = 1 THEN seqs[k] ELSE f[k - 1] \o seqs[k]]

LEMMA JoinExists ==
  ASSUME NEW n \in Nat \ {0}, NEW seqs
  PROVE  \E f : Joins(seqs, n, f)
<1> DEFINE Upto(f, m) == /\ f = [k \in 1 .. m |-> f[k]]
                         /\ f[1] = seqs[1]
                         /\ \A k \in 1 .. m - 1 : f[k + 1] = f[k] \o seqs[k + 1]
           Exists(m) == \E f : Upto(f, m + 1)
           T == {m \in Nat : Exists(m)}
<1>1. Exists(0)
  <2> DEFINE f == [k \in 1 .. 1 |-> seqs[1]]
  <2>1. Upto(f, 1)
    OBVIOUS
  <2> HIDE DEF Upto, f
  <2>2. 0 + 1 = 1
    OBVIOUS
  <2>3. QED
    BY <2>1, <2>2
<1>2. ASSUME NEW m \in Nat, Exists(m) PROVE Exists(m + 1)
  <2>1. PICK f : Upto(f, m + 1)
    <3> HIDE DEF Upto
    <3>1. QED
      BY <1>2
  <2> DEFINE M == m + 1
             g == [k \in 1 .. M + 1 |-> IF k <= M THEN f[k] ELSE f[M] \o seqs[M + 1]]
  <2>2. M \in Nat \ {0} /\ 1 \in 1 .. M + 1 /\ 1 <= M
    OBVIOUS
  <2>3. Upto(f, M)
    BY <2>1
  <2> HIDE DEF M
  <2>4. g[1] = seqs[1]
    BY <2>2, <2>3
  <2>5. ASSUME NEW k \in 1 .. (M + 1) - 1 PROVE g[k + 1] = g[k] \o seqs[k + 1]
    <3>1. CASE k < M
      <4>1. k \in 1 .. M - 1 /\ k \in 1 .. M + 1 /\ k + 1 \in 1 .. M + 1 /\ k + 1 <= M /\ k <= M
        BY <2>2, <3>1
      <4>2. f[k + 1] = f[k] \o seqs[k + 1]
        BY <4>1, <2>3
      <4>3. QED
        BY <4>1, <4>2
    <3>2. CASE k = M
      <4>1. M \in 1 .. M + 1 /\ M + 1 \in 1 .. M + 1 /\ ~ (M + 1 <= M) /\ M <= M
        BY <2>2
      <4>2. g[M + 1] = f[M] \o seqs[M + 1] /\ g[M] = f[M]
        BY <4>1
      <4>3. QED
        BY <3>2, <4>2
    <3>3. k < M \/ k = M
      <4> HIDE DEF g
      <4>1. QED
        BY <2>2
    <3>4. QED
      BY <3>1, <3>2, <3>3
  <2>6. g = [k \in 1 .. M + 1 |-> g[k]]
    OBVIOUS
  <2> HIDE DEF g
  <2>7. Upto(g, M + 1)
    BY <2>4, <2>5, <2>6
  <2> HIDE DEF Upto
  <2>8. QED
    BY <2>7 DEF M
<1>3. Nat \subseteq T
  <2> HIDE DEF Exists
  <2>1. 0 \in T /\ \A m \in Nat : m \in T => m + 1 \in T
    BY <1>1, <1>2
  <2> HIDE DEF T
  <2>2. QED
    BY <2>1, SetInduction
<1>4. n - 1 \in Nat /\ (n - 1) + 1 = n
  OBVIOUS
<1>5. PICK f : Upto(f, n)
  <2> HIDE DEF Upto
  <2>1. \E h : Upto(h, (n - 1) + 1)
    BY <1>3, <1>4
  <2>2. QED
    BY <1>4, <2>1
<1>6. Joins(seqs, n, f)
  <2>1. ASSUME NEW k \in 1 .. n
        PROVE  f[k] = IF k = 1 THEN seqs[k] ELSE f[k - 1] \o seqs[k]
    <3>1. CASE k = 1
      BY <1>5, <3>1
    <3>2. CASE k # 1
      <4>1. k - 1 \in 1 .. n - 1 /\ (k - 1) + 1 = k
        BY <3>2
      <4>2. f[(k - 1) + 1] = f[k - 1] \o seqs[(k - 1) + 1]
        BY <4>1, <1>5
      <4>3. QED
        BY <3>2, <4>1, <4>2
    <3>3. QED
      BY <3>1, <3>2
  <2>2. f = [k \in 1 .. n |-> f[k]]
    BY <1>5
  <2>3. QED
    BY <2>1, <2>2 DEF Joins
<1>7. QED
  BY <1>6

LEMMA JoinSteps ==
  ASSUME NEW n \in Nat \ {0}, NEW seqs, NEW f, Joins(seqs, n, f)
  PROVE  f[1] = seqs[1] /\ \A k \in 1 .. n - 1 : f[k + 1] = f[k] \o seqs[k + 1]
<1>1. \A k \in 1 .. n : f[k] = IF k = 1 THEN seqs[k] ELSE f[k - 1] \o seqs[k]
  BY DEF Joins
<1>2. f[1] = seqs[1]
  BY <1>1
<1>3. ASSUME NEW k \in 1 .. n - 1 PROVE f[k + 1] = f[k] \o seqs[k + 1]
  <2>1. k + 1 \in 1 .. n /\ k + 1 # 1 /\ (k + 1) - 1 = k
    OBVIOUS
  <2>2. f[k + 1] = IF k + 1 = 1 THEN seqs[k + 1] ELSE f[(k + 1) - 1] \o seqs[k + 1]
    BY <1>1, <2>1
  <2>3. QED
    BY <2>1, <2>2
<1>4. QED
  BY <1>2, <1>3

-----------------------------------------------------------------------------
(* Powers of two, as the library knows them: the number of subsets.          *)
LEMMA Doubling ==
  ASSUME NEW n \in Nat
  PROVE  2^n \in Nat /\ 2^(n + 1) = 2 * 2^n
<1> DEFINE S == 1 .. n
           x == n + 1
           With == {T \cup {x} : T \in SUBSET S}
           f == [T \in SUBSET S |-> T \cup {x}]
<1>1. IsFiniteSet(S) /\ Cardinality(S) = n /\ IsFiniteSet(1 .. x) /\ Cardinality(1 .. x) = x
  <2>1. /\ 1 \in Int /\ n \in Int /\ x \in Int
        /\ (IF 1 > n THEN 0 ELSE n - 1 + 1) = n /\ (IF 1 > x THEN 0 ELSE x - 1 + 1) = x
    OBVIOUS
  <2>2. QED
    BY <2>1, FS_Interval
<1>2. x \notin S /\ 1 .. x = S \cup {x}
  OBVIOUS
<1> HIDE DEF S, x
<1>3. /\ IsFiniteSet(SUBSET S) /\ Cardinality(SUBSET S) = 2^n /\ Cardinality(SUBSET S) \in Nat
      /\ Cardinality(SUBSET (1 .. x)) = 2^x
  BY <1>1, FS_SUBSET, FS_CardinalityType
<1>4. f \in Bijection(SUBSET S, With)
  <2>1. f \in [SUBSET S -> With]
    OBVIOUS
  <2>2. ASSUME NEW T \in SUBSET S, NEW U \in SUBSET S, f[T] = f[U] PROVE T = U
    BY <2>2, <1>2
  <2>3. \A W \in With : \E T \in SUBSET S : f[T] = W
    OBVIOUS
  <2> HIDE DEF f, With
  <2>4. QED
    BY <2>1, <2>2, <2>3, Fun_IsBij
<1>5. IsFiniteSet(With) /\ Cardinality(With) = 2^n
  <2>1. ExistsBijection(SUBSET S, With)
    BY <1>4 DEF ExistsBijection
  <2> HIDE DEF With
  <2>2. QED
    BY <2>1, <1>3, FS_Bijection
<1>6. SUBSET (1 .. x) = (SUBSET S) \cup With
  <2>1. ASSUME NEW W \in SUBSET (1 .. x), x \in W PROVE W \in With
    <3>1. W \ {x} \in SUBSET S /\ W = (W \ {x}) \cup {x}
      BY <2>1, <1>2
    <3>2. QED
      BY <3>1
  <2>2. ASSUME NEW W \in SUBSET (1 .. x), x \notin W PROVE W \in SUBSET S
    BY <2>2, <1>2
  <2>3. ASSUME NEW W \in With PROVE W \in SUBSET (1 .. x)
    BY <1>2
  <2>4. SUBSET S \subseteq SUBSET (1 .. x)
    BY <1>2
  <2> HIDE DEF With
  <2>5. QED
    BY <2>1, <2>2, <2>3, <2>4
<1>7. (SUBSET S) \cap With = {}
  BY <1>2
<1> HIDE DEF With
<1>8. ASSUME NEW A, NEW W, NEW c \in Nat, IsFiniteSet(A), IsFiniteSet(W),
             Cardinality(A) = c, Cardinality(W) = c, A \cap W = {}
      PROVE  Cardinality(A \cup W) = 2 * c
  <2>1. Cardinality(A \cup W) = Cardinality(A) + Cardinality(W) - Cardinality(A \cap W)
    BY <1>8, FS_Union
  <2>2. Cardinality(A \cap W) = 0
    BY <1>8, FS_EmptySet
  <2>3. QED
    BY <2>1, <2>2, <1>8
<1>9. 2^x = 2 * 2^n /\ 2^n \in Nat
  <2>1. 2^n \in Nat
    BY <1>3
  <2>2. Cardinality((SUBSET S) \cup With) = 2 * 2^n
    BY <2>1, <1>3, <1>5, <1>7, <1>8
  <2>3. Cardinality(SUBSET (1 .. x)) = 2 * 2^n
    BY <2>2, <1>6
  <2>4. QED
    BY <2>1, <2>3, <1>3
<1>10. QED
  BY <1>9 DEF x

================================================================================
